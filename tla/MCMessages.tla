------------------------------ MODULE MCMessages ------------------------------
(***************************************************************************)
(* What is said and how it travels: traces read from their datasets,       *)
(* conversations on small rows of each kind of dataset, the messages       *)
(* between the processes and the form these take.  The four share no       *)
(* state, so a behaviour follows one of them.                              *)
(***************************************************************************)
EXTENDS MCMessaging, MessageEncoding, ToolConversation, TraceReplay

-----------------------------------------------------------------------------
(* Rows *)

Api(types, stop) == [kind |-> "api", types |-> types, stop |-> stop]
ApiRows == {Api(types, stop) : types \in {"text", "result", "absent"},
                               stop \in {"end_turn", "tool_use"}}
Subagents == {[kind |-> "subagent", rows |-> rows] :
                rows \in {<<>>, <<Api("text", "end_turn")>>,
                          <<Api("text", "tool_use"), Api("result", "end_turn")>>}}

\* Three entries that end with a row of the main agent.
Weka ==
  {[kind |-> "weka", entries |-> <<first, second, third>>] :
     first \in {row \in ApiRows : row.types = "text"}, second \in ApiRows \cup Subagents, third \in ApiRows}

\* Three turns, any of them with client or server tools, and up to two branches.
Branch(at, after, length) == [at |-> at, after |-> after, turns |-> length]
Synthetic ==
  {[kind |-> "synthetic_text", turns |-> 3, tools |-> tools, servers |-> servers,
    branches |-> branches, tokens |-> TRUE] :
     tools \in SUBSET {0, 1, 2}, servers \in {{}, {2}},
     branches \in {<<>>, <<Branch(0, 1, 2)>>, <<Branch(0, 2, 1), Branch(1, 1, 1)>>}}

Column(type, tools, response, empty) ==
  [type |-> type, tools |-> tools, response |-> response, empty |-> empty, tokens |-> TRUE]
Columns ==
  {[kind |-> "columns", items |-> <<first, second, third>>] :
     first, second, third \in
       {Column("unset", FALSE, FALSE, FALSE), Column("unset", TRUE, FALSE, FALSE),
        Column("client_tool_call", TRUE, TRUE, FALSE), Column("unset", FALSE, FALSE, TRUE)}}

AllDatasets ==
  Weka \cup {d \in Synthetic : d.tools \cap d.servers = {} /\ (Len(d.branches) = 2 => d.tools \subseteq {1})}
  \cup {d \in Columns : \E i \in DOMAIN d.items : ~d.items[i].empty}

Mode(api, tools, missing, extras) ==
  [api |-> api, tools |-> tools, missing |-> missing, extras |-> extras]
AllModes ==
  {Mode(api, tools, "ignore_continue", "none") :
     api \in {"chat", "responses", "server_history"}, tools \in {"client", "server"}}
  \cup {Mode("chat", "client", "error_stop", "tools"),
        Mode("responses", "client", "ignore_continue", "tool_choice")}

-----------------------------------------------------------------------------
(* Objects *)

Leaves == {Leaf(shape, size) : shape \in {"model", "plain"}, size \in Sizes}
Nested == {Node("list", <<>>, <<Leaf("model", 1)>>),
           Node("tuple", <<>>, <<Leaf("model", 2), Leaf("plain", 1)>>)}
Models == {leaf \in Leaves : IsModel(leaf)} \cup Nested
AllObjects ==
  Leaves
  \cup {Node(shape, <<>>, <<x, y>>) : shape \in {"list", "tuple"}, x \in Models, y \in Leaves \cup Nested}
  \cup {Node("list", <<>>, <<x, y>>) : x \in Leaves, y \in Models}
  \cup {Node("mapping", <<k>>, <<x>>) : k \in {"text", "comma", "number"}, x \in Models}
  \cup {Node("mapping", <<"text", k>>, <<x, y>>) :
          k \in {"comma", "number"}, x \in Models, y \in Leaves \cup Nested}

-----------------------------------------------------------------------------
(* Traces *)

Entry(time, tokens, ids) == [time |-> time, tokens |-> tokens, ids |-> ids]
Session(scope, outcome, rows) == [scope |-> scope, outcome |-> outcome, rows |-> rows]
Plain(format, trace) ==
  [format |-> format, trace |-> trace, wait |-> 0, idle |-> 0, lanes |-> 0, scale |-> 1,
   samples |-> -1, workers |-> 1, specials |-> 0, joint |-> 0]

\* The times of single rows, under every cap on the time between sessions.
Single(row) == Session("global", "good", <<row>>)
Arrivals ==
  {[Plain("minimal", [i \in 1 .. 3 |-> Single(Entry(times[i], 1, <<>>))])
      EXCEPT !.idle = idle, !.lanes = lanes] :
     times \in [1 .. 3 -> {0, 1, 9}], idle \in {0, 3}, lanes \in {0, 1, 2}}

\* The times within WEKA sessions.
SessionTimes == {<<2>>, <<0, 5>>, <<0, 1, 6>>, <<4, 1, 1>>}
Waits ==
  {[Plain("weka", [i \in 1 .. 2 |->
      Session("local", "good", [r \in DOMAIN times[i] |-> Entry(times[i][r], 2, <<1>>)])])
      EXCEPT !.wait = wait, !.idle = cap, !.lanes = cap, !.scale = 2] :
     times \in [1 .. 2 -> SessionTimes], wait \in {0, 2}, cap \in {0, 2}}

\* Rows that share prefixes, some of them against the rules of the format, some invalid.
MooncakeRows ==
  {Entry(0, 2, <<1>>), Entry(0, 1, <<1>>), Entry(0, 4, <<1, 2>>), Entry(0, 3, <<1, 3>>),
   Entry(0, 4, <<1, 4>>), Entry(0, 2, <<2>>), Entry(0, 4, <<3, 1>>), Entry(0, 0, <<>>),
   Entry(0, 4, <<1>>), Entry(0, 2, <<-2>>)}
MooncakeTraces ==
  {[Plain("mooncake", <<Single(r), Single(s), Single(Entry(0, 3, <<1, 3>>))>>) EXCEPT !.specials = specials] :
     specials \in {0, 1}, r, s \in MooncakeRows}

WekaRows == {Entry(0, 3, <<1>>), Entry(0, 3, <<1, 2>>), Entry(0, 4, <<1, 2>>), Entry(0, 4, <<1, 3>>),
             Entry(0, 1, <<>>), Entry(0, 5, <<4>>)}
WekaTraces ==
  {[Plain("weka", <<Session(s, "good", <<first, second>>), Session(u, "good", rows)>>)
      EXCEPT !.specials = extra, !.joint = extra] :
     s, u \in {"local", "global"}, extra \in {0, 1}, first \in WekaRows,
     second \in {Entry(0, 3, <<1, 2>>), Entry(0, 4, <<1, 3>>)},
     rows \in {<<Entry(0, 3, <<1, 2>>)>>, <<>>}}

\* Conversations of which a preprocessor or the finalizer makes nothing or raises, and a
\* trace that fails after them, for the loader.
Loads ==
  {[Plain("weka", [i \in 1 .. 4 |-> Session("global", outcomes[i], rows[i])])
      EXCEPT !.samples = samples, !.workers = workers] :
     outcomes \in [1 .. 4 -> {"good", "empty", "broken"}], samples \in {-1, 2}, workers \in {1, 2, 3},
     rows \in {[i \in 1 .. 4 |-> <<Entry(i, 1, <<>>)>>],
               [i \in 1 .. 4 |-> IF i < 4 THEN <<Entry(i, 1, <<>>)>> ELSE <<>>]}}

AllReplays == Arrivals \cup Waits \cup MooncakeTraces \cup WekaTraces \cup Loads

-----------------------------------------------------------------------------
ConversationIdle ==
  /\ mode = Mode("chat", "client", "ignore_continue", "none")
  /\ dataset = CHOOSE d \in AllDatasets : TRUE
  /\ emitted = <<>> /\ order = NoGraph
  /\ turns = <<>> /\ body = <<>> /\ answer = <<>>
  /\ over = TRUE

MessagingIdle ==
  /\ layer = Layer("queue", TRUE, 0, 0, FALSE) /\ produced = 0
  /\ outbox = [e \in Ends |-> <<>>] /\ inbox = [e \in Ends |-> <<>>]
  /\ sender = [t \in Threads |-> [NewSender(t) EXCEPT !.at = "off"]]
  /\ receiver = [t \in Threads |-> [NewReceiver(t) EXCEPT !.at = "off"]]
  /\ wire = [w \in Wires |-> <<>>]
  /\ waiting = [w \in Workers |-> 0] /\ demand = [w \in Workers |-> 0]
  /\ serving = [w \in Workers |-> <<>>] /\ replied = [w \in Workers |-> <<>>] /\ got = <<>>
  /\ closing = [e \in Ends |-> "stopped"] /\ canceled = [e \in Ends |-> FALSE]
  /\ told = FALSE /\ giveups = [w \in Workers |-> 0]

EncodingIdle ==
  /\ config = [serialization |-> "none", encoding |-> "none", orjson |-> FALSE]
  /\ object = Leaf("plain", 1) /\ stage = "back" /\ coded = object /\ decoded = object

ReplayIdle ==
  /\ replay = CHOOSE r \in Arrivals : TRUE
  /\ epoch = Epochs /\ table = NoTable /\ written = <<>> /\ clock = NoClock
  /\ replayed = [e \in 1 .. Epochs |-> <<>>] /\ finished = TRUE

MessagesInit ==
  \/ ConversationInit /\ MessagingIdle /\ EncodingIdle /\ ReplayIdle
  \/ ConversationIdle /\ MessagingInit /\ EncodingIdle /\ ReplayIdle
  \/ ConversationIdle /\ MessagingIdle /\ EncodingInit /\ ReplayIdle
  \/ ConversationIdle /\ MessagingIdle /\ EncodingIdle /\ ReplayInit

messagesVars == <<conversationVars, messagingVars, encodingVars, replayVars>>

MessagesNext ==
  \/ ConversationNext /\ UNCHANGED <<messagingVars, encodingVars, replayVars>>
  \/ MessagingNext /\ UNCHANGED <<conversationVars, encodingVars, replayVars>>
  \/ EncodingNext /\ UNCHANGED <<conversationVars, messagingVars, replayVars>>
  \/ ReplayNext /\ UNCHANGED <<conversationVars, messagingVars, encodingVars>>

MessagesSpec == MessagesInit /\ [][MessagesNext]_messagesVars
=============================================================================
