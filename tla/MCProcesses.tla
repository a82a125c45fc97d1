----------------------------- MODULE MCProcesses ------------------------------
(***************************************************************************)
(* The processes of a run, what their backends do for a call, with the     *)
(* batches of the in-process engine and the stream of a response, and the  *)
(* mock server that may answer it.  The four share no state, so a          *)
(* behaviour follows one of them.                                          *)
(***************************************************************************)
EXTENDS GroupLifecycle, BatchBackend, ResponseStream, MockServing

Chat(stream, usage, tool, limit, media) ==
  Kind("chat", stream, usage, tool, limit, FALSE, media, TRUE)
Completion(stream, usage, limit, stop) ==
  Kind("completions", stream, usage, FALSE, limit, stop, FALSE, TRUE)
Responses(stream, tool, limit) ==
  Kind("responses", stream, TRUE, tool, limit, FALSE, FALSE, TRUE)
BadPart == Kind("chat", FALSE, FALSE, FALSE, None, FALSE, TRUE, FALSE)

\* Every endpoint streamed and plain, with and without usage, limits, stop sequences,
\* tools and media; a limit of 0 for each.
MCLoads == {
  <<Chat(FALSE, TRUE, FALSE, 1, TRUE), Completion(FALSE, TRUE, None, FALSE), Responses(FALSE, TRUE, 0)>>,
  <<Chat(FALSE, TRUE, TRUE, None, FALSE), Completion(FALSE, TRUE, 2, TRUE), BadPart>>,
  <<Chat(TRUE, TRUE, FALSE, None, TRUE), Responses(FALSE, FALSE, 1)>>,
  <<Chat(TRUE, FALSE, TRUE, 2, FALSE), Completion(TRUE, TRUE, 2, FALSE)>>,
  <<Chat(TRUE, FALSE, FALSE, 0, FALSE), Completion(TRUE, FALSE, 0, TRUE)>>,
  <<Responses(TRUE, TRUE, 1), Completion(TRUE, TRUE, 0, FALSE)>>,
  <<Responses(TRUE, FALSE, None), Chat(TRUE, TRUE, TRUE, None, TRUE)>>}
MCServers == {[concurrent |-> None, failAfter |-> 2], [concurrent |-> 1, failAfter |-> None],
              [concurrent |-> 1, failAfter |-> 1]}

LifecycleIdle ==
  /\ slots = <<>> /\ concurrency = 0 /\ run = "ended" /\ outcome = "error"
  /\ worker = <<>> /\ busy = <<>> /\ overtaken = <<>> /\ backend = <<>> /\ exitcode = <<>>
  /\ barrier = "broken" /\ events = {} /\ monitoring = FALSE /\ failures = 0

BatchIdle ==
  /\ task = [t \in Tasks |-> IF t = Shutdown THEN "done" ELSE "none"]
  /\ pending = {} /\ batch = [t \in Tasks |-> {}]
  /\ result = [r \in Requests |-> "none"]
  /\ lock = [t \in Tasks |-> {}] /\ generate = "idle" /\ llm = FALSE
  /\ inProcess = FALSE /\ shuttingDown = TRUE /\ stopped = FALSE

StreamIdle ==
  /\ call = [endpoint |-> "chat", streaming |-> FALSE, expectsTool |-> FALSE,
             missing |-> "ignore_continue"]
  /\ stage = "completed" /\ clock = 0
  /\ timings = [t \in Timings |-> 0]
  /\ handler = [text |-> 0, reasoning |-> 0, usage |-> FALSE, content |-> FALSE,
                calls |-> [i \in ToolCalls |-> Absent]]
  /\ sent = [events |-> 0, text |-> 0, reasoning |-> 0, tokens |-> 0, outputs |-> 0,
             calls |-> [i \in ToolCalls |-> Absent], over |-> FALSE]
  /\ yielded = <<"response">>

ServingIdle ==
  /\ load = <<>> /\ server = [concurrent |-> None, failAfter |-> None]
  /\ accepted = 0 /\ holders = {}
  /\ serving = <<>> /\ count = <<>> /\ script = <<>> /\ received = <<>> /\ reply = <<>>

ProcessesInit ==
  \/ LifecycleInit /\ BatchIdle /\ StreamIdle /\ ServingIdle
  \/ LifecycleIdle /\ BatchInit /\ StreamIdle /\ ServingIdle
  \/ LifecycleIdle /\ BatchIdle /\ StreamInit /\ ServingIdle
  \/ LifecycleIdle /\ BatchIdle /\ StreamIdle /\ ServingInit

processesVars == <<lifecycleVars, batchVars, streamVars, servingVars>>

ProcessesNext ==
  \/ LifecycleNext /\ UNCHANGED <<batchVars, streamVars, servingVars>>
  \/ BatchNext /\ UNCHANGED <<lifecycleVars, streamVars, servingVars>>
  \/ StreamNext /\ UNCHANGED <<lifecycleVars, batchVars, servingVars>>
  \/ ServingNext /\ UNCHANGED <<lifecycleVars, batchVars, streamVars>>

ProcessesSpec ==
  ProcessesInit /\ [][ProcessesNext]_processesVars
  /\ LifecycleFairness /\ BatchFairness /\ StreamFairness /\ ServingFairness
=============================================================================
