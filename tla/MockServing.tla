----------------------------- MODULE MockServing -----------------------------
(***************************************************************************)
(* The mock server and what a client makes of its answers: the limits of   *)
(* MockServer._run_generation, the handlers of completions, chat           *)
(* completions and responses, plain and streaming, and the usage metrics   *)
(* the request handlers of the OpenAI backend extract from them.           *)
(*                                                                         *)
(* Delays are steps that take their time; a text is the number of its      *)
(* tokens, and a prompt its tokens of text and of media.                   *)
(***************************************************************************)
EXTENDS Integers, Sequences, SequencesExt, FiniteSets

CONSTANTS
  Loads,     \* sequences of requests, see Answerable
  Servers,   \* max_concurrent_requests and fail_after_requests, None or a number
  Sampled,   \* what sample_number may give for output_tokens
  MediaTokens  \* of an image

None == -1
\* A request: limit is max_tokens of the body, None if it has none, and stop whether
\* the body has stop sequences; a body that is not valid is refused.
Kinds ==
  [api : {"completions", "chat", "responses"}, stream : BOOLEAN, usage : BOOLEAN,
   tool : BOOLEAN, limit : {None} \cup Nat, stop : BOOLEAN, media : BOOLEAN, valid : BOOLEAN]
\* What the schema of each endpoint has: the legacy completions neither tools nor media,
\* the responses neither stop sequences nor media, and always their usage.
ChatKinds == {k \in Kinds : k.api = "chat"}
CompletionKinds == {k \in Kinds : k.api = "completions" /\ ~k.tool /\ ~k.media}
ResponsesKinds == {k \in Kinds : k.api = "responses" /\ k.usage /\ ~k.stop /\ ~k.media}
Answerable == ChatKinds \cup CompletionKinds \cup ResponsesKinds
ASSUME ServingAssumption ==
  /\ Loads \subseteq Seq(Answerable)
  /\ Servers \subseteq [concurrent : {None} \cup (Nat \ {0}), failAfter : {None} \cup Nat]
  /\ Sampled \subseteq Nat /\ MediaTokens \in Nat \ {0}

VARIABLES
  load,      \* the requests; never changes
  server,    \* the configuration; never changes
  accepted,  \* _accepted_generation_requests
  holders,   \* who has a slot of the semaphore
  serving,   \* where the server stands with each request
  count,     \* the number of output tokens it has chosen
  script,    \* what it has still to write
  received,  \* what the client has seen: texts, pieces of tool calls, usage
  reply    \* of each call at the client

servingVars == <<load, server, accepted, holders, serving, count, script, received, reply>>

Calls == DOMAIN load

Kind(api, stream, usage, tool, limit, stop, media, valid) ==
  [api |-> api, stream |-> stream, usage |-> usage, tool |-> tool, limit |-> limit,
   stop |-> stop, media |-> media, valid |-> valid]

Nothing == [text |-> 0, pieces |-> 0, usage |-> FALSE]

ServingInit ==
  /\ load \in Loads /\ server \in Servers
  /\ accepted = 0 /\ holders = {}
  /\ serving = [r \in Calls |-> "unsent"] /\ count = [r \in Calls |-> 0]
  /\ script = [r \in Calls |-> <<>>] /\ received = [r \in Calls |-> Nothing]
  /\ reply = [r \in Calls |-> "pending"]

-----------------------------------------------------------------------------
(* _run_generation *)

\* Mutant: requests are counted when they have been answered.
RefusedLate(arrived) == server.failAfter # None
                        /\ Cardinality({r \in Calls : serving[r] = "answered"}) >= server.failAfter
Refused(arrived) == server.failAfter # None /\ arrived >= server.failAfter

SlotIsFree == server.concurrent = None \/ Cardinality(holders) < server.concurrent

\* A request past fail_after_requests gets a 500; the others are counted and wait for
\* a slot, if there is a semaphore.
Arrive(r) ==
  /\ serving[r] = "unsent" /\ reply[r] = "pending"
  /\ IF Refused(accepted)
     THEN /\ serving' = [serving EXCEPT ![r] = "answered"]
          /\ reply' = [reply EXCEPT ![r] = "errored"]
          /\ UNCHANGED accepted
     ELSE /\ serving' = [serving EXCEPT ![r] = "waiting"]
          /\ accepted' = accepted + 1
          /\ UNCHANGED reply
  /\ UNCHANGED <<load, server, holders, count, script, received>>

\* The handler runs inside the semaphore until it returns.  A stream is only made there
\* and written after the slot has been given back; validation answers at once.
Enter(r) ==
  /\ serving[r] = "waiting" /\ SlotIsFree
  /\ CASE ~load[r].valid ->
            /\ serving' = [serving EXCEPT ![r] = "answered"]
            /\ reply' = [reply EXCEPT ![r] = "errored"]
            /\ UNCHANGED holders
       [] load[r].stream ->
            /\ serving' = [serving EXCEPT ![r] = "opened"]
            /\ UNCHANGED <<reply, holders>>
       [] OTHER ->
            /\ serving' = [serving EXCEPT ![r] = "generating"]
            /\ holders' = holders \cup {r}
            /\ UNCHANGED reply
  /\ UNCHANGED <<load, server, accepted, count, script, received>>

\* Mutant: only an answer gives the slot back.
SlotsAfterAnswer(r, how) == IF how = "answered" THEN holders \ {r} ELSE holders
SlotsAfter(r, how) == holders \ {r}

-----------------------------------------------------------------------------
(* The handlers *)

\* "or math.inf": a limit of 0 is none.
Unlimited(limit) == limit \in {None, 0}
Bounded(sample, limit) == IF Unlimited(limit) \/ sample <= limit THEN sample ELSE limit
\* Without a limit, completions needs stop sequences: int(math.inf) raises.
Overflows(k) == k.api = "completions" /\ ~k.stop /\ Unlimited(k.limit)
Chosen(k, sample) ==
  IF k.api = "completions" /\ ~k.stop THEN k.limit ELSE Bounded(sample, k.limit)

\* Mutant: the last piece of the fake text is not cut off.
TextsWhole(n) == [i \in 1 .. n + 1 |-> "text"]
Texts(n) == [i \in 1 .. n |-> "text"]
Usage(k) == IF k.usage THEN <<"usage">> ELSE <<>>

\* Completions names the last index in its final chunk, which a loop without a token
\* has not set.
CompletionEvents(k, n) ==
  IF n = 0 THEN <<"broken">> ELSE Texts(n) \o <<"empty">> \o Usage(k) \o <<"end">>

ChatContent(k, n) == Texts(n) \o <<"empty">> \o Usage(k)
\* The name of the function, and its arguments in two pieces.
ChatToolCall(k) == <<"piece", "piece", "piece", "empty">> \o Usage(k)
ChatEvents(k, n) == (IF k.tool THEN ChatToolCall(k) ELSE ChatContent(k, n)) \o <<"end">>

ResponsesContent(n) == <<"empty", "empty">> \o Texts(n) \o <<"empty", "empty">>
\* The call is announced, and its arguments are sent in two pieces and once more whole.
ResponsesCall == <<"piece", "piece", "piece", "piece", "empty">>
ResponsesEvents(k, n) ==
  <<"empty", "empty">> \o (IF k.tool THEN ResponsesCall ELSE ResponsesContent(n)) \o <<"usage", "end">>

Events(k, n) ==
  CASE k.api = "completions" -> CompletionEvents(k, n)
    [] k.api = "chat" -> ChatEvents(k, n)
    [] k.api = "responses" -> ResponsesEvents(k, n)

\* The first token of a stream: the counts, and what will be written.
Begin(r, sample) ==
  /\ serving[r] = "opened" /\ serving' = [serving EXCEPT ![r] = "writing"]
  /\ count' = [count EXCEPT ![r] = IF Overflows(load[r]) THEN 0 ELSE Chosen(load[r], sample)]
  /\ script' = [script EXCEPT ![r] = IF Overflows(load[r]) THEN <<"broken">> ELSE Events(load[r], count'[r])]
  /\ UNCHANGED <<load, server, accepted, holders, received, reply>>

-----------------------------------------------------------------------------
(* The client *)

\* UsageMetrics.total_tokens of the output, None if nothing is known, and what
\* GenerativeRequestStats reports: without usage each iteration is taken for a token.
UsageTokens(r, seen) == IF seen.usage THEN count[r] ELSE None
\* Mutant: the iterations come first.
OutputTokensCounted(r, seen) ==
  IF seen.text + seen.pieces > 0 THEN seen.text + seen.pieces ELSE UsageTokens(r, seen)
OutputTokens(r, seen) ==
  IF seen.usage THEN UsageTokens(r, seen)
  ELSE IF seen.text + seen.pieces > 0 THEN seen.text + seen.pieces ELSE None

\* The prompt the server charges: one token of text, and its media; chat tells them
\* apart in prompt_tokens_details.
PromptText == 1
Media(k) == IF k.media THEN MediaTokens ELSE 0
PromptTokens(k) == PromptText + Media(k)
\* Mutant: the text is all of the prompt.
TextTokensWhole(k) == PromptTokens(k)
TextTokens(k) == IF k.media THEN PromptText ELSE PromptTokens(k)
InputTokens(r, seen) == IF seen.usage THEN TextTokens(load[r]) + Media(load[r]) ELSE None

\* _validate_text_response.
HasOutput(r, seen) == seen.text > 0 \/ seen.pieces > 0 \/ UsageTokens(r, seen) > 0
Concluded(r, seen) == IF HasOutput(r, seen) THEN "completed" ELSE "errored"

\* The whole answer at once.
AnswerWhole(r, sample) ==
  /\ serving[r] = "generating" /\ serving' = [serving EXCEPT ![r] = "answered"]
  /\ holders' = SlotsAfter(r, IF Overflows(load[r]) THEN "raised" ELSE "answered")
  /\ IF Overflows(load[r])
     THEN /\ reply' = [reply EXCEPT ![r] = "errored"]
          /\ UNCHANGED <<count, received>>
     ELSE /\ count' = [count EXCEPT ![r] = Chosen(load[r], sample)]
          /\ received' = [received EXCEPT ![r] =
                            [text |-> IF load[r].tool THEN 0 ELSE count'[r],
                             pieces |-> IF load[r].tool THEN 1 ELSE 0, usage |-> TRUE]]
          /\ reply' = [reply EXCEPT ![r] =
                           IF load[r].tool \/ count'[r] > 0 THEN "completed" ELSE "errored"]
  /\ UNCHANGED <<load, server, accepted, script>>

\* One more event of a stream is written and read.
Seen(seen, event) ==
  CASE event = "text" -> [seen EXCEPT !.text = @ + 1]
    [] event = "piece" -> [seen EXCEPT !.pieces = @ + 1]
    [] event = "usage" -> [seen EXCEPT !.usage = TRUE]
    [] OTHER -> seen
Write(r) ==
  /\ serving[r] = "writing" /\ reply[r] = "pending" /\ script[r] # <<>>
  /\ script' = [script EXCEPT ![r] = Tail(@)]
  /\ received' = [received EXCEPT ![r] = Seen(@, Head(script[r]))]
  /\ IF Head(script[r]) \in {"end", "broken"}
     THEN /\ serving' = [serving EXCEPT ![r] = "answered"]
          /\ reply' = [reply EXCEPT ![r] =
                           IF Head(script[r]) = "broken" THEN "errored" ELSE Concluded(r, received[r])]
     ELSE UNCHANGED <<serving, reply>>
  /\ UNCHANGED <<load, server, accepted, holders, count>>

\* The client is cancelled and closes the connection, which cancels the handler.
Leave(r) ==
  /\ reply[r] = "pending" /\ serving[r] \in {"waiting", "generating", "opened", "writing"}
  /\ reply' = [reply EXCEPT ![r] = "cancelled"]
  /\ serving' = [serving EXCEPT ![r] = "left"]
  /\ holders' = SlotsAfter(r, "left") /\ script' = [script EXCEPT ![r] = <<>>]
  /\ UNCHANGED <<load, server, accepted, count, received>>

Serve(r) == Enter(r) \/ Write(r) \/ \E sample \in Sampled : AnswerWhole(r, sample) \/ Begin(r, sample)
ServingNext == \E r \in Calls : Arrive(r) \/ Serve(r) \/ Leave(r)

\* asyncio runs somebody who can go on; the client need not send anything.
ServingFairness == WF_servingVars(\E r \in Calls : Serve(r))
ServingSpec == ServingInit /\ [][ServingNext]_servingVars /\ ServingFairness

-----------------------------------------------------------------------------
(* Properties *)

ServingTypeOK ==
  /\ accepted \in 0 .. Len(load) /\ holders \subseteq Calls
  /\ serving \in [Calls -> {"unsent", "waiting", "generating", "opened", "writing", "answered", "left"}]
  /\ \A r \in Calls : count[r] \in Nat
  /\ \A r \in Calls : received[r].text \in 0 .. count[r] /\ received[r].pieces \in 0 .. 4
  /\ reply \in [Calls -> {"pending", "completed", "errored", "cancelled"}]

\* With fail_after_requests exactly that many requests get past the count and on to a
\* handler, however they overlap and whether they are answered, refused or cancelled:
\* the server does not fail earlier, and goes on failing.
Admitted == {r \in Calls : serving[r] \notin {"unsent", "answered"} \/ reply[r] = "completed"}
FailsAfterTheFirst ==
  server.failAfter # None =>
    /\ Cardinality(Admitted) <= server.failAfter
    /\ accepted < server.failAfter =>
         \A r \in Calls : reply[r] = "errored" =>
           ~load[r].valid \/ Overflows(load[r]) \/ count[r] = 0

\* The tokens the benchmark reports for a completed call are those the server says it
\* has generated, streamed or not, with or without usage, for each endpoint; only a
\* tool call that is streamed without usage is counted by its pieces.
ReportedIsGenerated ==
  \A r \in Calls : reply[r] = "completed" =>
    /\ OutputTokens(r, received[r]) =
         IF load[r].tool /\ ~received[r].usage THEN received[r].pieces ELSE count[r]
    /\ count[r] > 0 \/ load[r].tool

\* The prompt tokens of a call are those the server has charged, with no medium counted
\* twice, although the total and its details both reach the client.
PromptIsCharged ==
  \A r \in Calls : reply[r] = "completed" /\ received[r].usage =>
    InputTokens(r, received[r]) = PromptTokens(load[r])

\* Every request that has reached the server is answered or has left, and nobody waits
\* for ever: no slot is lost, whether a handler returns, refuses, raises or is cancelled.
EveryRequestIsServed == <>[](\A r \in Calls : serving[r] \in {"unsent", "answered", "left"})

\* The mock server answers as it was configured, and the tokens the client extracts are the
\* tokens it generated and those of the prompt, media included.
AnswersAsConfigured == ServingTypeOK /\ FailsAfterTheFirst /\ ReportedIsGenerated /\ PromptIsCharged
=============================================================================
