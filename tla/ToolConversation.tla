-------------------------- MODULE ToolConversation --------------------------
(***************************************************************************)
(* A conversation from its dataset row to the bodies that reach the        *)
(* server: the turns a deserializer emits (synthetic_text, a WEKA trace,   *)
(* mapped columns), the expansion of client tool turns into a call and the *)
(* injection of its response, the type of each turn, and the chat and      *)
(* Responses handlers, which write each request with its history.          *)
(*                                                                         *)
(* A body is abstracted to its items: what the user said at a node, what   *)
(* the assistant answered, a tool call it made, the output of such a call. *)
(***************************************************************************)
EXTENDS ConversationGraph

CONSTANTS
  Datasets,   \* the rows the dataset may contain, see Turns
  Modes,      \* how finalizer and backend are configured
  MaxCalls    \* bound: tool calls in one response

ASSUME ConversationAssumption ==
  /\ MaxCalls \in Nat \ {0}
  /\ Modes \subseteq [api : {"chat", "responses", "server_history"},
                      tools : {"client", "server"},
                      missing : {"ignore_continue", "ignore_stop", "error_stop"},
                      extras : {"none", "tools", "tool_choice"}]

VARIABLES
  mode,      \* the configuration; never changes
  dataset,   \* the row; never changes
  emitted,   \* the turns the deserializer has emitted
  turns,     \* the turns of the graph, finalized: a function from their ids
  order,     \* the graph, see ConversationGraph
  body,      \* what has been sent for each node
  answer,    \* what the server has answered
  over       \* the conversation was aborted

conversationVars == <<mode, dataset, emitted, turns, order, body, answer, over>>

Id(agent, turn) == [agent |-> agent, turn |-> turn, injection |-> FALSE]
NoId == Id(-1, 0)
Edge(source, context) == [source |-> source, context |-> context]

-----------------------------------------------------------------------------
(* What the deserializers emit *)

\* _classify_weka_tool_turn
WekaResult(row, prevStop) ==
  row.types = "result" \/ (row.types = "absent" /\ prevStop = "tool_use")
WekaTurn(id, parents, row, prevStop) ==
  [id |-> id, parents |-> parents, tokens |-> TRUE,
   type |-> IF WekaResult(row, prevStop) THEN "tool_response_injection"
            ELSE IF row.stop = "tool_use" THEN "client_tool_call" ELSE "unset",
   tools |-> row.stop = "tool_use", response |-> WekaResult(row, prevStop)]

\* _emit_chain: an API row goes on with its agent's chain and joins the
\* subagents that are pending; a subagent spawns from the last row before it.
\* The subagents of subagents, which follow the same rule, are not in the rows.
NewChain(agent, spawn) ==
  [agent |-> agent, spawn |-> spawn, next |-> 0, last |-> NoId, prevStop |-> "",
   pending |-> <<>>, spawned |-> 0, turns |-> <<>>]

ChainParents(s) ==
  IF s.last # NoId THEN <<Edge(s.last, "full")>>
  ELSE IF s.spawn # NoId THEN <<Edge(s.spawn, "new")>> ELSE <<>>

EmitRow(s, row) ==
  LET id == Id(s.agent, s.next)
      joins == [k \in DOMAIN s.pending |-> Edge(s.pending[k], "last")]
  IN [s EXCEPT !.turns = Append(@, WekaTurn(id, ChainParents(s) \o joins, row, s.prevStop)),
               !.last = id, !.next = @ + 1, !.pending = <<>>, !.prevStop = row.stop]

EmitSubagent(s, rows) ==
  LET child == FoldLeft(EmitRow, NewChain(s.spawned + 1, s.last), rows)
  IN [s EXCEPT !.turns = @ \o child.turns, !.pending = Append(@, child.last),
               !.spawned = @ + 1]

Emit(s, entry) ==
  CASE entry.kind = "api" -> EmitRow(s, entry)
    [] entry.kind = "subagent" /\ entry.rows # <<>> -> EmitSubagent(s, entry.rows)
    [] OTHER -> s

WekaTurns(entries) == FoldLeft(Emit, NewChain(0, NoId), entries).turns

\* The synthetic rows: a main chain, some of its turns with tools, and branches.
Merging(d, i) ==
  SelectSeq([b \in DOMAIN d.branches |-> b],
            LAMBDA b : d.branches[b].at + d.branches[b].after = i)

MainTurn(d, i) ==
  LET joins == [k \in DOMAIN Merging(d, i) |->
                  LET b == Merging(d, i)[k] IN Edge(Id(b, d.branches[b].turns - 1), "last")]
  IN [id |-> Id(0, i), tokens |-> d.tokens,
      parents |-> (IF i = 0 THEN <<>> ELSE <<Edge(Id(0, i - 1), "full")>>) \o joins,
      type |-> IF i \in d.servers THEN "server_tool_call" ELSE "unset",
      tools |-> i \in d.tools, response |-> i \in d.tools]

BranchTurns(d, b) ==
  [t \in 1 .. d.branches[b].turns |->
     [id |-> Id(b, t - 1), tokens |-> d.tokens,
      parents |-> IF t = 1 THEN <<Edge(Id(0, d.branches[b].at), "new")>>
                  ELSE <<Edge(Id(b, t - 2), "full")>>,
      type |-> "unset", tools |-> FALSE, response |-> FALSE]]

SyntheticTurns(d) ==
  [i \in 1 .. d.turns |-> MainTurn(d, i - 1)]
    \o FlattenSeq([b \in DOMAIN d.branches |-> BranchTurns(d, b)])

\* turns_from_mapped_items: the rows of columns that are not empty, as a chain.
ColumnTurns(items) ==
  LET rows == SelectSeq(items, LAMBDA row : ~row.empty)
  IN [i \in DOMAIN rows |->
        [id |-> Id(0, i - 1), tokens |-> rows[i].tokens,
         parents |-> IF i = 1 THEN <<>> ELSE <<Edge(Id(0, i - 2), "full")>>,
         type |-> rows[i].type, tools |-> rows[i].tools, response |-> rows[i].response]]

LogicalTurns(d) ==
  CASE d.kind = "weka" -> WekaTurns(d.entries)
    [] d.kind = "synthetic_text" -> SyntheticTurns(d)
    [] d.kind = "columns" -> ColumnTurns(d.items)

-----------------------------------------------------------------------------
(* The finalizer *)

\* _should_expand_client_tool_turn
InjectionId(turn) == [turn.id EXCEPT !.injection = TRUE]
Expands(logical, turn) ==
  CASE InjectionId(turn) \in {other.id : other \in ToSet(logical)} -> FALSE
    [] turn.type \in {"tool_response_injection", "server_tool_call"} -> FALSE
    [] turn.type = "client_tool_call" -> turn.response
    [] OTHER -> turn.tools /\ mode.tools = "client"

EndOf(logical, turn) == IF Expands(logical, turn) THEN InjectionId(turn) ELSE turn.id

\* Where the children of an expanded turn hang.
EndId(logical, id) == EndOf(logical, CHOOSE turn \in ToSet(logical) : turn.id = id)
HungOnTheChain(logical, turn) ==
  [k \in DOMAIN turn.parents |->
     IF turn.parents[k].context = "full"
     THEN Edge(EndId(logical, turn.parents[k].source), "full") ELSE turn.parents[k]]
Hung(logical, turn) ==
  [k \in DOMAIN turn.parents |->
     Edge(EndId(logical, turn.parents[k].source), turn.parents[k].context)]

\* expand_client_tool_turns: the children of an expanded turn hang on its
\* injection, which also takes the response and the output tokens.
Expanded(logical) ==
  LET pair(turn) ==
        <<[turn EXCEPT !.parents = Hung(logical, turn), !.type = "client_tool_call",
                       !.response = FALSE, !.tokens = FALSE],
          [id |-> InjectionId(turn), parents |-> <<Edge(turn.id, "full")>>,
           type |-> "tool_response_injection", tools |-> FALSE,
           response |-> turn.response, tokens |-> turn.tokens]>>
  IN FlattenSeq([i \in DOMAIN logical |->
                   IF Expands(logical, logical[i]) THEN pair(logical[i])
                   ELSE <<[logical[i] EXCEPT !.parents = Hung(logical, logical[i])]>>])

\* finalize_turn
FinalizedForClients(turn) ==
  IF turn.type # "unset" \/ (turn.tools /\ mode.tools = "server") THEN turn
  ELSE [turn EXCEPT !.type = IF turn.tools THEN "client_tool_call" ELSE "standard"]
Finalized(turn) ==
  IF turn.type # "unset" THEN turn
  ELSE IF ~turn.tools THEN [turn EXCEPT !.type = "standard"]
  ELSE IF mode.tools = "client" THEN [turn EXCEPT !.type = "client_tool_call"]
  ELSE [turn EXCEPT !.type = "server_tool_call", !.tools = FALSE, !.response = FALSE]

\* from_nodes_with_parents
GraphOf(expanded) ==
  LET ids == [i \in DOMAIN expanded |-> expanded[i].id]
      into(turn) == [k \in DOMAIN turn.parents |->
                       [source |-> turn.parents[k].source, target |-> turn.id,
                        context |-> turn.parents[k].context]]
  IN [nodes |-> ids, edges |-> FlattenSeq([i \in DOMAIN expanded |-> into(expanded[i])]),
      delay |-> [id \in ToSet(ids) |-> 0]]

TurnsOf(expanded) ==
  [id \in {turn.id : turn \in ToSet(expanded)} |->
     Finalized(CHOOSE turn \in ToSet(expanded) : turn.id = id)]

NoBody == [items |-> <<>>, previous |-> NoId, tools |-> FALSE, choice |-> "unset",
           limit |-> FALSE, sent |-> FALSE]
NoAnswer == [text |-> FALSE, calls |-> 0, given |-> FALSE]

NoGraph == [nodes |-> <<>>, edges |-> <<>>, delay |-> <<>>]

ConversationInit ==
  /\ mode \in Modes /\ dataset \in Datasets
  /\ emitted = <<>> /\ order = NoGraph
  /\ turns = <<>> /\ body = <<>> /\ answer = <<>>
  /\ over = FALSE

Deserialize ==
  /\ emitted = <<>> /\ ~over
  /\ emitted' = LogicalTurns(dataset)
  /\ UNCHANGED <<mode, dataset, turns, order, body, answer, over>>

\* The finalizer drops a row without turns.
Finalize ==
  /\ emitted # <<>> /\ order = NoGraph
  /\ order' = GraphOf(Expanded(emitted))
  /\ turns' = TurnsOf(Expanded(emitted))
  /\ body' = [id \in Nodes(order') |-> NoBody]
  /\ answer' = [id \in Nodes(order') |-> NoAnswer]
  /\ UNCHANGED <<mode, dataset, emitted, over>>

-----------------------------------------------------------------------------
(* The handlers *)

Item(kind, n, i) == [kind |-> kind, node |-> n, index |-> i]
User(n) == Item("user", n, 0)
Assistant(n) == Item("assistant", n, 0)
CallsOf(n) == [i \in 1 .. answer[n].calls |-> Item("call", n, i)]

Injects(n) == turns[n].type = "tool_response_injection"
Asks(n) == turns[n].type = "client_tool_call" \/ (Injects(n) /\ turns[n].tools)

\* _build_tool_response_messages, _build_function_call_outputs: one output for
\* each call of the response that precedes the injection in the history.
OutputsFirst(prior) ==
  IF prior = NoId \/ answer[prior].calls = 0 THEN <<>> ELSE <<Item("output", prior, 1)>>
Outputs(prior) ==
  IF prior = NoId THEN <<>>
  ELSE [i \in 1 .. answer[prior].calls |-> Item("output", prior, i)]

Input(n, prior) == IF Injects(n) THEN Outputs(prior) ELSE <<User(n)>>

\* What _build_turn_messages and _build_turn_input_items replay of an answer.
\* The Responses handler leaves out text that came with tool calls.
ReplayedText(n) == IF answer[n].text THEN <<Assistant(n)>> ELSE <<>>
Replayed(n) ==
  LET text == IF answer[n].text THEN <<Assistant(n)>> ELSE <<>>
  IN IF Injects(n) THEN text
     ELSE IF answer[n].calls = 0 THEN text
     ELSE IF mode.api = "chat" THEN text \o CallsOf(n) ELSE CallsOf(n)

Before(history, k) == IF k = 1 THEN NoId ELSE history[k - 1]

\* _build_history_messages, _build_history_input_items
HistoryItems(history) ==
  FlattenSeq([k \in DOMAIN history |->
                Input(history[k], Before(history, k)) \o Replayed(history[k])])

\* _apply_tool_call_overrides and _constrain_tool_call_body
Tools(n) == turns[n].tools \/ mode.extras = "tools"
Choice(n) ==
  CASE ~Tools(n) -> "unset"
    [] turns[n].type = "standard" \/ (Injects(n) /\ ~turns[n].tools) -> "none"
    [] mode.extras = "tool_choice" -> "auto"
    [] OTHER -> IF turns[n].tools THEN "required" ELSE "unset"
LimitAlways(n) == turns[n].tokens
Limit(n) == turns[n].tokens /\ ~(Tools(n) /\ Asks(n))

\* format; with server_history the body refers to the last response of the
\* history instead of repeating it.
Format(n) ==
  LET history == History(order, n)
      prior == IF history = <<>> THEN NoId ELSE Last(history)
      refers == mode.api = "server_history" /\ history # <<>>
  IN [items |-> (IF refers THEN <<>> ELSE HistoryItems(history)) \o Input(n, prior),
      previous |-> IF refers THEN prior ELSE NoId,
      tools |-> Tools(n), choice |-> Choice(n), limit |-> Limit(n), sent |-> TRUE]

SendTurn(n) ==
  /\ ~over /\ ~body[n].sent
  /\ \A p \in ParentsOf(order, n) : answer[p].given
  /\ body' = [body EXCEPT ![n] = Format(n)]
  /\ UNCHANGED <<mode, dataset, emitted, turns, order, answer, over>>

\* The server: it calls tools only when the body lets it, and need not; the
\* tools of a server_tool_call it runs itself.
MayCall(n) == body[n].tools /\ body[n].choice # "none" /\ turns[n].type # "server_tool_call"

\* The response, and _check_tool_call_expectations.
Respond(n, text, calls) ==
  /\ ~over /\ body[n].sent /\ ~answer[n].given
  /\ calls > 0 => MayCall(n)
  /\ calls = 0 => text
  /\ answer' = [answer EXCEPT ![n] = [text |-> text, calls |-> calls, given |-> TRUE]]
  /\ over' = (turns[n].type = "client_tool_call" /\ calls = 0
              /\ mode.missing # "ignore_continue")
  /\ UNCHANGED <<mode, dataset, emitted, turns, order, body>>

ConversationNext ==
  \/ Deserialize \/ Finalize
  \/ \E n \in Nodes(order) :
       \/ SendTurn(n)
       \/ \E text \in BOOLEAN, calls \in 0 .. MaxCalls : Respond(n, text, calls)

ConversationSpec == ConversationInit /\ [][ConversationNext]_conversationVars

-----------------------------------------------------------------------------
(* Properties *)

Sent == {n \in Nodes(order) : body[n].sent}

\* A body is looked at while its answer is awaited: neither it nor what it was made of
\* changes later.
Awaited == {n \in Sent : ~answer[n].given}

ConversationTypeOK ==
  /\ mode.missing \in {"ignore_continue", "ignore_stop", "error_stop"}
  /\ (order = NoGraph \/ IsGraph(order)) /\ DOMAIN turns = Nodes(order)
  /\ \A n \in Nodes(order) :
       /\ turns[n].type \in {"standard", "client_tool_call", "server_tool_call",
                             "tool_response_injection"}
       /\ body[n].choice \in {"unset", "none", "auto", "required"}
       /\ body[n].previous \in Nodes(order) \cup {NoId}
       /\ answer[n] \in [text : BOOLEAN, calls : 0 .. MaxCalls, given : BOOLEAN]
  /\ over \in BOOLEAN

\* What the server knows when it answers n: the body, after what it has stored
\* under the response id the body refers to.
Seen(n) ==
  LET stored(m) == (IF answer[m].text THEN <<Assistant(m)>> ELSE <<>>) \o CallsOf(m)
      known[m \in Sent] ==
        IF body[m].previous = NoId THEN body[m].items
        ELSE known[body[m].previous] \o stored(body[m].previous) \o body[m].items
  IN known[n]

\* What it should know: each turn of the history in full, an injection with the
\* outputs of the calls its own parent made.
Told(m) == IF Injects(m) THEN Outputs(IF FullIn(order, m) = {} THEN NoId ELSE FullParent(order, m))
           ELSE <<User(m)>>
Said(m) ==
  LET calls == CallsOf(m)
      dropped == mode.api = "responses" /\ calls # <<>>
  IN (IF answer[m].text /\ ~dropped THEN <<Assistant(m)>> ELSE <<>>) \o calls
Conversation(n) ==
  LET history == History(order, n)
  IN FlattenSeq([k \in DOMAIN history |-> Told(history[k]) \o Said(history[k])]) \o Told(n)

\* Where the handlers lose the thread: an injection that does not follow its own
\* parent in the history (a subagent was merged in between, or its own last turn
\* is an injection), tool calls made by an injection, and, with server_history, a
\* merge, after which the last response is not the one of the chain.
Tangled(n) ==
  LET entries == Append(History(order, n), n)
      apart(k) == k = 1 \/ FullIn(order, entries[k]) = {}
                  \/ FullParent(order, entries[k]) # entries[k - 1]
  IN \/ \E k \in DOMAIN entries : Injects(entries[k]) /\ apart(k)
     \/ \E k \in DOMAIN entries :
          k < Len(entries) /\ Injects(entries[k]) /\ answer[entries[k]].calls > 0
          /\ mode.api # "server_history"
     \/ mode.api = "server_history" /\ \E k \in 2 .. Len(entries) : apart(k)

\* The server sees the conversation so far, no turn missing, repeated or out of
\* place, whatever mix of plain, tool and server turns, with the whole history
\* in the body or by reference (docs/guides/multiturn.md).
SeesConversation ==
  \A n \in Awaited : ~Tangled(n) => Seen(n) = Conversation(n)

\* The calls that a plain conversation makes are all answered before anything else is
\* said: an expanded call is followed by its injection on every path of the graph.
CallsAnsweredFirst ==
  \A n \in Awaited : ~Tangled(n) /\ dataset.kind # "weka" /\ ~Asks(n) =>
    LET items == Seen(n) IN
    \A k \in DOMAIN items : items[k].kind = "call" =>
      \A j \in k + 1 .. Len(items) :
        items[j].kind = "user" => \E i \in k + 1 .. j - 1 : items[i] = [items[k] EXCEPT !.kind = "output"]

\* A turn whose answer must be a tool call is sent with tools and without a forced
\* length; any other turn cannot end in a call GuideLLM would have to answer, and is
\* sent with the length of its row, which the expansion moves and never copies.
ToolsAndLengthFit ==
  /\ \A n \in Sent :
       /\ Asks(n) /\ turns[n].tools => body[n].tools /\ body[n].choice # "none" /\ ~body[n].limit
       /\ ~Asks(n) => ~MayCall(n)
  /\ \A turn \in ToSet(emitted) :
       LET nodes == {turn.id, EndOf(emitted, turn)}
           calls == turns[EndOf(emitted, turn)].tools
       IN nodes \subseteq Sent =>
            Cardinality({n \in nodes : body[n].limit}) = IF turn.tokens /\ ~calls THEN 1 ELSE 0

\* The graph of the pairs is a conversation again: acyclic, one chain per agent, a
\* subagent starts after the turn that spawned it has got its tool response, and the
\* turn that joins it waits for its last one.  It does not change once a turn is sent.
ForksAreJoined ==
  Sent = {} =>
    /\ Valid(order)
    /\ \A m, n \in Nodes(order) :
         m.agent = n.agent /\ m # n =>
           m \in ToSet(History(order, n)) \/ n \in ToSet(History(order, m))
    /\ \A i \in DOMAIN order.edges :
         LET e == order.edges[i] IN
         e.context # "full" => \A j \in DOMAIN order.edges :
           order.edges[j].source = e.source /\ order.edges[j].context = "full"
             => ~Injects(order.edges[j].target) \/ dataset.kind = "weka"

\* Each turn goes to the server in a body it can accept: tool calls directly before their
\* outputs, tools and lengths as the turn has them, and a subagent's turns after the turn
\* that started it and before the one that waits for it.
TurnsFit == ConversationTypeOK /\ CallsAnsweredFirst /\ ToolsAndLengthFit /\ ForksAreJoined
=============================================================================
