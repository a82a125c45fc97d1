--------------------------- MODULE ResponseStream ---------------------------
(***************************************************************************)
(* One call of resolve() of the streaming backends: openai_http with the   *)
(* handlers of /v1/completions, /v1/chat/completions and /v1/responses,    *)
(* openai_websocket with /v1/realtime, and vllm_python.  The server sends  *)
(* events, the loop of the backend stamps its timings, the handler of the  *)
(* endpoint accumulates them, and the call ends with one response, an      *)
(* error, or the partial response of a cancelled call.                     *)
(*                                                                         *)
(* Text is abstracted to the number of its chunks, the arguments of a tool *)
(* call to the number of pieces received.  A clock that moves on with      *)
(* every time.time() tells the stamps apart.                               *)
(***************************************************************************)
EXTENDS Integers, Sequences, FiniteSets, FiniteSetsExt

CONSTANTS
  Endpoints,   \* the endpoints of this run
  ToolCalls,   \* the indices of the tool calls a server may stream
  MaxEvents    \* bound: events the server sends before the stream ends

ASSUME StreamAssumption ==
  /\ Endpoints \subseteq {"completions", "chat", "responses", "realtime", "vllm"}
  /\ ToolCalls \subseteq Nat /\ MaxEvents \in Nat \ {0}

VARIABLES
  call,     \* what is configured and asked; never changes
  stage,    \* where the call stands
  clock,    \* the last time.time()
  timings,  \* RequestTimings, 0 for None
  handler,  \* what the handler has accumulated, or the body of the only answer
  sent,     \* what the server has sent that counts
  yielded   \* what the generator has yielded

streamVars == <<call, stage, clock, timings, handler, sent, yielded>>

Absent == -1
Behaviours == {"ignore_continue", "ignore_stop", "error_stop"}
HandlesTools == {"chat", "responses"}

Timings == {"start", "firstIteration", "lastIteration", "iterations", "firstToken",
            "firstOutput", "lastToken", "tokens", "end"}

StreamInit ==
  /\ call \in [endpoint : Endpoints, streaming : BOOLEAN, expectsTool : BOOLEAN,
               missing : Behaviours]
  /\ call.endpoint = "realtime" => call.streaming
  /\ ~call.expectsTool => call.missing = "ignore_continue"
  /\ call.expectsTool => call.endpoint \in HandlesTools
  /\ stage = "created" /\ clock = 0
  /\ timings = [t \in Timings |-> 0]
  /\ handler = [text |-> 0, reasoning |-> 0, usage |-> FALSE,
                content |-> call.endpoint = "completions",
                calls |-> [i \in ToolCalls |-> Absent]]
  /\ sent = [events |-> 0, text |-> 0, reasoning |-> 0, tokens |-> 0, outputs |-> 0,
             calls |-> [i \in ToolCalls |-> Absent], over |-> FALSE]
  /\ yielded = <<>>

-----------------------------------------------------------------------------
(* The events of a server, and what each handler makes of them *)

\* An event is [type, index, tokens, output]: tokens is what the handler
\* returns for it (0: nothing new), output whether that was more than reasoning.
Plain(type, tokens, output) ==
  [type |-> type, index |-> 0, tokens |-> tokens, output |-> output]
OfCall(type, i) == [type |-> type, index |-> i, tokens |-> 1, output |-> TRUE]

Silent == {Plain("usage", 0, FALSE), Plain("empty", 0, FALSE)}
Text == Plain("text", 1, TRUE)
Reasoning == Plain("reasoning", 1, FALSE)
Both == Plain("both", 1, TRUE)

\* A chat server streams a tool call as deltas of its index, a Responses server
\* announces it, streams its arguments and repeats them in full.
ServerEvents ==
  CASE call.endpoint = "completions" -> {Text} \cup Silent
    [] call.endpoint = "chat" ->
         {Text, Reasoning, Both} \cup Silent \cup {OfCall("delta", i) : i \in ToolCalls}
    [] call.endpoint = "responses" ->
         {Text, Reasoning, Plain("created", 0, FALSE), Plain("empty", 0, FALSE)}
         \cup {OfCall("added", i) : i \in {j \in ToolCalls : sent.calls[j] = Absent}}
         \cup {OfCall(t, i) : t \in {"delta", "done"},
                              i \in {j \in ToolCalls : sent.calls[j] # Absent}}
    [] call.endpoint = "realtime" ->
         {Text, Plain("empty", 0, FALSE), Plain("ignored", 0, FALSE)}
    [] call.endpoint = "vllm" -> {Text}

\* Mutant: deltas go to the first call, whatever their index.
CallsAfterFirst(e, calls) ==
  CASE e.type = "added" -> [calls EXCEPT ![e.index] = 0]
    [] e.type = "delta" /\ (call.endpoint = "chat" \/ calls[e.index] # Absent) ->
         [calls EXCEPT ![Min(ToolCalls)] = IF @ = Absent THEN 1 ELSE @ + 1]
    [] e.type = "done" /\ calls[e.index] # Absent ->
         [calls EXCEPT ![e.index] = sent.calls[e.index]]
    [] OTHER -> calls
\* _accumulate_tool_call_delta makes the call with its first delta;
\* _handle_streaming_function_call makes it when it is added, appends to it, and
\* overwrites it with the complete arguments.
CallsAfter(e, calls) ==
  CASE e.type = "added" -> [calls EXCEPT ![e.index] = 0]
    [] e.type = "delta" /\ (call.endpoint = "chat" \/ calls[e.index] # Absent) ->
         [calls EXCEPT ![e.index] = IF @ = Absent THEN 1 ELSE @ + 1]
    [] e.type = "done" /\ calls[e.index] # Absent ->
         [calls EXCEPT ![e.index] = sent.calls[e.index]]
    [] OTHER -> calls

\* add_streaming_line, add_streaming_event.
Accumulated(e) ==
  [handler EXCEPT
     !.text = IF e.type \in {"text", "both"} THEN @ + 1 ELSE @,
     !.reasoning = IF e.type \in {"reasoning", "both"} THEN @ + 1 ELSE @,
     !.usage = @ \/ e.type = "usage",
     !.content = IF e.tokens > 0 /\ call.endpoint # "completions" THEN e.output ELSE @,
     !.calls = CallsAfter(e, @)]

\* What the server itself knows it has sent.
CallsSent(e) ==
  CASE e.type = "added" -> [sent.calls EXCEPT ![e.index] = 0]
    [] e.type = "delta" ->
         [sent.calls EXCEPT ![e.index] = IF @ = Absent THEN 1 ELSE @ + 1]
    [] OTHER -> sent.calls
SentAfter(e) ==
  [sent EXCEPT
     !.events = @ + 1,
     !.text = IF e.type \in {"text", "both"} THEN @ + 1 ELSE @,
     !.reasoning = IF e.type \in {"reasoning", "both"} THEN @ + 1 ELSE @,
     !.tokens = @ + e.tokens,
     !.outputs = IF e.tokens > 0 /\ e.output THEN @ + 1 ELSE @,
     !.calls = CallsSent(e)]

-----------------------------------------------------------------------------
(* Timings *)

\* Mutant: a stamp is taken anew each time.
OrAgain(stamp, now) == now
\* Mutant: a stamp is ahead of the clock.
OrAhead(stamp, now) == IF stamp = 0 THEN now + 2 ELSE stamp
Or(stamp, now) == IF stamp = 0 THEN now ELSE stamp

\* Each event counts as an iteration of the request...
Iterated(t, now) ==
  [t EXCEPT !.firstIteration = Or(@, now), !.lastIteration = now, !.iterations = @ + 1]

\* ...and one that brings something new as an iteration of tokens.
\* Mutant: the tokens of the last event replace those before.
TokenedLast(t, n, output, now) ==
  [t EXCEPT !.firstToken = Or(@, now), !.lastToken = now, !.tokens = n,
            !.firstOutput = IF output THEN Or(@, now) ELSE @]
Tokened(t, n, output, now) ==
  [t EXCEPT !.firstToken = Or(@, now), !.lastToken = now, !.tokens = @ + n,
            !.firstOutput = IF output THEN Or(@, now) ELSE @]

\* Only the HTTP loop looks for the first token that is not reasoning.
TracksOutput == call.endpoint \notin {"realtime", "vllm"}

-----------------------------------------------------------------------------
(* The call *)

\* request_start, and the request, the handshake or the prompt goes out.
Send ==
  /\ stage = "created" /\ stage' = "asked"
  /\ clock' = clock + 1 /\ timings' = [timings EXCEPT !.start = clock + 1]
  /\ UNCHANGED <<call, handler, sent, yielded>>

\* The connection, the status, the first event or the engine fails, here or
\* later: an error payload, invalid JSON and a timeout end the call the same way.
Fail ==
  /\ stage \in {"asked", "reading"} /\ stage' = "errored"
  /\ timings' = IF call.endpoint = "realtime"
                THEN [timings EXCEPT !.end = clock + 1] ELSE timings
  /\ clock' = clock + 1
  /\ UNCHANGED <<call, handler, sent, yielded>>

Open ==
  /\ stage = "asked" /\ (call.streaming \/ call.endpoint = "vllm") /\ stage' = "reading"
  /\ UNCHANGED <<call, clock, timings, handler, sent, yielded>>

\* One event through the loop.  With the first token the HTTP and WebSocket
\* loops yield None, which the worker reports as first_token.
Receive(e) ==
  LET now == clock + 1
      iterated == IF call.endpoint = "realtime" /\ e.type = "ignored"
                  THEN timings ELSE Iterated(timings, now)
      counts == e.tokens > 0 /\ (call.endpoint = "vllm" => call.streaming)
      output == TracksOutput /\ handler'.content
  IN /\ stage = "reading" /\ sent.events < MaxEvents /\ ~sent.over
     /\ handler' = Accumulated(e) /\ sent' = SentAfter(e)
     /\ clock' = now
     /\ timings' = IF counts THEN Tokened(iterated, e.tokens, output, now) ELSE iterated
     /\ yielded' = IF counts /\ timings.firstToken = 0 /\ call.endpoint # "vllm"
                   THEN Append(yielded, "first_token") ELSE yielded
     /\ UNCHANGED <<call, stage>>

\* Mutant: the loop waits for the server to close the stream.
LeavesLoopLate == "reading"
LeavesLoop == "closing"

\* The end marker: [DONE], a terminal event of the Responses API, the output
\* with a finish reason, or transcription.done, whose text replaces the deltas.
\* The loop is left at once, although the server may keep the stream open.
EndMarker(withText, withUsage) ==
  LET now == clock + 1
      text == IF withText /\ sent.text = 0 THEN 1 ELSE sent.text
      late == call.endpoint = "realtime" /\ timings.firstToken = 0
      ended == [timings EXCEPT !.end = now]
  IN /\ stage = "reading" /\ ~sent.over /\ stage' = LeavesLoop
     /\ withText => call.endpoint \in {"realtime", "vllm"}
     /\ call.endpoint = "vllm" => withText
     /\ withUsage => call.endpoint = "responses"
     /\ sent' = [sent EXCEPT !.over = TRUE,
                             !.text = IF call.endpoint = "vllm" THEN @ + 1 ELSE text,
                             !.tokens = IF late /\ text > 0 THEN @ + 1 ELSE @]
     /\ handler' = [handler EXCEPT !.usage = @ \/ withUsage,
                                   !.text = IF withText THEN sent'.text ELSE @]
     /\ clock' = clock + 2
     /\ timings' = IF call.endpoint # "realtime" THEN Iterated(timings, now)
                   ELSE IF ~late THEN ended
                   ELSE IF handler'.text > 0
                   THEN Tokened(Iterated(ended, clock'), 1, FALSE, clock')
                   ELSE Iterated(ended, clock')
     /\ yielded' = IF late /\ handler'.text > 0 THEN Append(yielded, "first_token") ELSE yielded
     /\ UNCHANGED call

\* The server closes an HTTP stream without an end marker.
StreamCloses ==
  /\ stage = "reading" /\ call.endpoint \in {"completions", "chat", "responses"}
  /\ stage' = "closing"
  /\ UNCHANGED <<call, clock, timings, handler, sent, yielded>>

\* The only answer of a call that does not stream.
Answered(text, reasoning, calls, usage) ==
  /\ stage = "asked" /\ ~call.streaming /\ call.endpoint # "vllm" /\ stage' = "closing"
  /\ (reasoning = 1 \/ calls # {}) => call.endpoint \in HandlesTools
  /\ handler' = [handler EXCEPT !.text = text, !.reasoning = reasoning, !.usage = usage,
                                !.calls = [i \in ToolCalls |-> IF i \in calls THEN 1 ELSE Absent]]
  /\ sent' = [sent EXCEPT !.text = text, !.reasoning = reasoning, !.over = TRUE,
                          !.calls = handler'.calls]
  /\ UNCHANGED <<call, clock, timings, yielded>>

Called == {i \in ToolCalls : handler.calls[i] # Absent}

\* _validate_text_response; the transcription handler accepts any text, and
\* vllm_python does not ask.
Usable ==
  \/ call.endpoint \in {"realtime", "vllm"}
  \/ handler.text > 0 \/ Called # {} \/ handler.usage

\* _check_tool_call_expectations.
MissesTool == call.expectsTool /\ Called = {}

\* Mutant: the response is yielded before the checks.
YieldsAlways(end) == TRUE
Yields(end) == end # "errored"

\* The end of the call: stamp, compile, validate, check, yield.  A tool call
\* that is missing under ignore_stop raises CancelledError, which the streaming
\* and the plain path both answer by yielding the response before they raise.
Finish ==
  /\ stage = "closing"
  /\ clock' = clock + 1
  /\ timings' = IF call.endpoint = "realtime" THEN timings
                ELSE [timings EXCEPT !.end = clock + 1]
  /\ stage' = IF ~Usable \/ (MissesTool /\ call.missing = "error_stop") THEN "errored"
              ELSE IF MissesTool /\ call.missing = "ignore_stop" THEN "cancelled"
              ELSE "completed"
  /\ yielded' = IF Yields(stage') THEN Append(yielded, "response") ELSE yielded
  /\ UNCHANGED <<call, handler, sent>>

\* The worker cancels the task.  A streaming call yields what it has so far; a
\* plain one has nothing, and vllm_python needs at least one output.
Cancel ==
  /\ stage \in {"asked", "reading", "closing"} /\ stage' = "cancelled"
  /\ stage = "closing" => call.streaming /\ call.endpoint # "vllm"
  /\ yielded' = IF IF call.endpoint = "vllm" THEN sent.events > 0 ELSE call.streaming
                THEN Append(yielded, "response") ELSE yielded
  /\ clock' = clock + 1
  /\ timings' = IF call.endpoint = "realtime" THEN [timings EXCEPT !.end = Or(@, clock + 1)]
                ELSE timings
  /\ UNCHANGED <<call, handler, sent>>

StreamNext ==
  \/ Send \/ Fail \/ Open \/ StreamCloses \/ Finish \/ Cancel
  \/ stage = "reading" /\ \E e \in ServerEvents : Receive(e)
  \/ \E withText \in BOOLEAN, withUsage \in BOOLEAN : EndMarker(withText, withUsage)
  \/ \E text \in 0 .. 1, reasoning \in 0 .. 1, calls \in SUBSET ToolCalls, usage \in BOOLEAN :
       Answered(text, reasoning, calls, usage)

\* Only the client's own steps: a server may stay silent or keep the stream open.
StreamFairness == WF_streamVars(Send) /\ WF_streamVars(Finish)

StreamSpec == StreamInit /\ [][StreamNext]_streamVars /\ StreamFairness

-----------------------------------------------------------------------------
(* Properties *)

StreamEnded == {"completed", "errored", "cancelled"}

StreamTypeOK ==
  /\ call.endpoint \in Endpoints
  /\ stage \in {"created", "asked", "reading", "closing"} \cup StreamEnded
  /\ clock \in Nat /\ timings \in [Timings -> 0 .. clock]
  /\ {handler.text, handler.reasoning} \subseteq Nat /\ handler.usage \in BOOLEAN
  /\ handler.calls \in [ToolCalls -> Nat \cup {Absent}]
  /\ yielded \in Seq({"first_token", "response"})

\* A call yields at most one response, after at most one announcement of the
\* first token; it has yielded it when it completes and never when it fails,
\* whatever the expected tool call, the cancellation and the validation do.
OneResponse ==
  LET responses == {i \in DOMAIN yielded : yielded[i] = "response"} IN
  /\ Len(yielded) - Cardinality(responses) <= 1
  /\ responses \subseteq {Len(yielded)}
  /\ stage \notin {"completed", "cancelled"} => responses = {}
  /\ stage = "completed" => responses # {}
  /\ stage = "cancelled" /\ call.streaming /\ call.endpoint # "vllm" => responses # {}

\* A stamp that is taken is not before the one it follows.  The exception is a
\* transcription whose text did not come in deltas: its end is stamped before
\* the iteration, and the first token, that transcription.done brings.
TimingsOrdered ==
  LET Before(s, t) == timings[s] # 0 /\ timings[t] # 0 => timings[s] <= timings[t]
      whole == call.endpoint = "realtime" /\ timings.lastIteration = timings.end + 1
               /\ timings.firstToken \in {0, timings.lastIteration}
  IN /\ Before("start", "firstIteration") /\ Before("firstIteration", "firstToken")
     /\ Before("firstToken", "firstOutput") /\ Before("firstOutput", "lastToken")
     /\ Before("firstToken", "lastToken") /\ Before("lastToken", "lastIteration")
     /\ Before("lastIteration", "end") \/ whole

\* The tokens of the timings are the events that brought something new, and the
\* first output token is stamped exactly when something that is not reasoning
\* has come, in whatever order the server mixes reasoning, text and tool calls.
TokensCounted ==
  LET measured == call.streaming /\ stage # "created" IN
  /\ measured => timings.tokens = sent.tokens
  /\ (timings.firstToken # 0) = (timings.tokens > 0)
  /\ (timings.firstToken # 0) = (call.endpoint # "vllm" /\ \E i \in DOMAIN yielded :
                                   yielded[i] = "first_token")
     \/ call.endpoint = "vllm"
  /\ TracksOutput => (timings.firstOutput # 0) = (sent.outputs > 0)

\* A response, also the partial one of a cancelled call, has all the text and
\* reasoning the server sent and every tool call as far as it was sent, however
\* the deltas of several calls were interleaved.
NothingLost ==
  (\E i \in DOMAIN yielded : yielded[i] = "response") =>
    /\ handler.text = sent.text /\ handler.reasoning = sent.reasoning
    /\ handler.calls = sent.calls

\* Once the server has said that the answer is complete the call ends, although
\* the server may never close the stream.
EndMarkerEnds == sent.over ~> stage \in StreamEnded

\* In any order of events a call yields one response, with timings in order and all the
\* text, tokens and tool calls the server sent before it ended.
ResponseIsFaithful == StreamTypeOK /\ OneResponse /\ TimingsOrdered /\ TokensCounted /\ NothingLost
=============================================================================
