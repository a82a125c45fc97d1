------------------------------ MODULE Messaging ------------------------------
(***************************************************************************)
(* The layer between the coordinator and its workers (utils/messaging.py): *)
(* the buffers of each end, the threads that move messages between them    *)
(* and the transport, the demand of a worker's slots, and stop().  The     *)
(* coordinator sends Messages messages, from the iterable it was started   *)
(* with or by put(), and a worker replies once to each one it gets.        *)
(***************************************************************************)
EXTENDS Integers, Sequences, FiniteSets

CONSTANTS
  Main, Workers,  \* the two kinds of ends; Main is the one without worker_index
  Layers,         \* the transport ("queue" with or without a manager, or "pipe"),
                  \* whether start() is given an iterable, and bounds: threads that end
                  \* with an exception, gets of a worker that time out or are cancelled,
                  \* and events among the stop criteria
  Messages,       \* bound: messages of the coordinator
  Slots,          \* consumers of each worker
  Capacity,       \* of the pending queue, and of a pipe
  RequiredEmpty   \* STOP_REQUIRED_QUEUE_EMPTY_COUNT

ASSUME MessagingAssumption ==
  /\ IsFiniteSet(Workers) /\ Main \notin Workers
  /\ Layers \subseteq [transport : {"queue", "pipe"}, iterable : BOOLEAN, deaths : Nat,
                        giveups : Nat, events : BOOLEAN]
  /\ {Messages, Slots, Capacity, RequiredEmpty} \subseteq Nat \ {0}

VARIABLES
  layer,     \* one of Layers; never changes
  produced,  \* how many messages the coordinator has sent off
  outbox,    \* buffer_send_queue of each end
  inbox,     \* buffer_receive_queue of each end
  sender,    \* the threads that send...
  receiver,  \* ...and receive
  wire,      \* what is on the transport
  waiting,   \* the slots in messaging.get()
  demand,    \* _receive_demand, which a slot withdraws only when it runs again
  serving,   \* the messages a worker's slots have got
  replied,   \* what a worker has put, in order
  got,       \* what the coordinator has got, in order
  closing,   \* of each end: "open", "stopping" (shutdown_event), "stopped"
  canceled,  \* of each end: canceled_event of both directions
  told,      \* the events among the stop criteria of start(), all of them
  giveups    \* of each worker

messagingVars == <<layer, produced, outbox, inbox, sender, receiver, wire, waiting, demand, serving,
                   replied, got, closing, canceled, told, giveups>>

Ends == {Main} \cup Workers
Piped == layer.transport = "pipe"

\* An end has one thread for each direction, a coordinator with pipes one for each pipe.
Threads == {<<e, e>> : e \in Ends} \cup {<<Main, w>> : w \in Workers}
Used(t) == t[1] = Main => (Piped <=> t[2] # Main)
Of(e) == {t \in Threads : t[1] = e}

\* Whether threads of this end draw from the iterable.
Iterates(e) == e = Main /\ layer.iterable

\* A connection of a pipe delivers at the other one; the queues are shared.
SendConnection(e) == IF e = Main THEN 0 ELSE 1
ReceiveConnection(e) == IF e = Main THEN 1 ELSE 0
WireOut(t) == IF Piped THEN <<t[2], 1 - SendConnection(t[1])>>
              ELSE IF t[1] = Main THEN <<Main, 0>> ELSE <<Main, 1>>
WireIn(t) == IF Piped THEN <<t[2], ReceiveConnection(t[1])>>
             ELSE IF t[1] = Main THEN <<Main, 1>> ELSE <<Main, 0>>
Wires == IF Piped THEN Workers \X {0, 1} ELSE {<<Main, 0>>, <<Main, 1>>}

\* The done queue and the coordinator's inbox have no bound; the others of a worker
\* and of the coordinator hold one message.
RoomOn(w) == w = <<Main, 1>> \/ Len(wire[w]) < Capacity
RoomInside(e) == e = Main \/ Len(inbox[e]) < 1

NewSender(t) == [at |-> IF Used(t) THEN "on" ELSE "off", item |-> <<>>, empties |-> 0, slot |-> <<>>, moving |-> <<>>]
NewReceiver(t) == [at |-> IF Used(t) THEN "on" ELSE "off", item |-> <<>>, empties |-> 0, polling |-> FALSE]

\* start() of every end, after __init__ and create_worker_copy.
MessagingInit ==
  /\ layer \in Layers
  /\ produced = 0
  /\ outbox = [e \in Ends |-> <<>>] /\ inbox = [e \in Ends |-> <<>>]
  /\ sender = [t \in Threads |-> NewSender(t)] /\ receiver = [t \in Threads |-> NewReceiver(t)]
  /\ wire = [w \in Wires |-> <<>>]
  /\ waiting = [w \in Workers |-> 0] /\ demand = [w \in Workers |-> 0]
  /\ serving = [w \in Workers |-> <<>>] /\ replied = [w \in Workers |-> <<>>] /\ got = <<>>
  /\ closing = [e \in Ends |-> "open"] /\ canceled = [e \in Ends |-> FALSE]
  /\ told = FALSE /\ giveups = [w \in Workers |-> 0]

\* check_stop.  A worker's sending thread is started without criteria.
HasCriteria(t, kind) == t[1] = Main \/ kind = "receive"
Stops(t, thread, kind) ==
  \/ canceled[t[1]] \/ closing[t[1]] = "stopped"
  \/ /\ thread.item = <<>> /\ thread.empties >= RequiredEmpty
     /\ closing[t[1]] = "stopping" \/ (told /\ HasCriteria(t, kind))

OneMore(empties) == IF empties < RequiredEmpty THEN empties + 1 ELSE empties

-----------------------------------------------------------------------------
(* _send_messages_task_thread *)

SenderTakes(t) ==
  /\ sender[t].at = "on" /\ sender[t].item = <<>> /\ ~Stops(t, sender[t], "send")
  /\ IF Iterates(t[1])
     THEN /\ produced < Messages /\ produced' = produced + 1
          /\ sender' = [sender EXCEPT ![t].item = <<[id |-> produced + 1, by |-> Main]>>,
                                      ![t].empties = 0]
          /\ UNCHANGED outbox
     ELSE /\ outbox[t[1]] # <<>> /\ outbox' = [outbox EXCEPT ![t[1]] = Tail(@)]
          /\ sender' = [sender EXCEPT ![t].item = <<Head(outbox[t[1]])>>, ![t].empties = 0]
          /\ UNCHANGED produced
  /\ UNCHANGED <<layer, inbox, receiver, wire, waiting, demand, serving, replied, got, closing,
                 canceled, told, giveups>>

SenderIdles(t) ==
  /\ sender[t].at = "on" /\ sender[t].item = <<>> /\ ~Stops(t, sender[t], "send")
  /\ IF Iterates(t[1]) THEN produced = Messages ELSE outbox[t[1]] = <<>>
  /\ sender' = [sender EXCEPT ![t].empties = OneMore(@)]
  /\ UNCHANGED <<layer, produced, outbox, inbox, receiver, wire, waiting, demand, serving, replied,
                 got, closing, canceled, told, giveups>>

\* Mutant: a full slot is overwritten.
SlotFreeAlways(thread) == TRUE
SlotFree(thread) == thread.slot = <<>>

\* A queue takes the message when it has room; with a pipe it is left in pipe_item.
SenderSends(t) ==
  /\ sender[t].at = "on" /\ sender[t].item # <<>>
  /\ IF Piped
     THEN /\ SlotFree(sender[t])
          /\ sender' = [sender EXCEPT ![t].slot = sender[t].item, ![t].item = <<>>]
          /\ UNCHANGED wire
     ELSE /\ closing[t[1]] # "stopped" /\ RoomOn(WireOut(t))
          /\ wire' = [wire EXCEPT ![WireOut(t)] = @ \o sender[t].item]
          /\ sender' = [sender EXCEPT ![t].item = <<>>]
  /\ UNCHANGED <<layer, produced, outbox, inbox, receiver, waiting, demand, serving, replied, got,
                 closing, canceled, told, giveups>>

SenderEnds(t) ==
  /\ sender[t].at = "on" /\ Stops(t, sender[t], "send")
  /\ sender' = [sender EXCEPT ![t].at = "off", ![t].item = <<>>, ![t].empties = 0]
  /\ UNCHANGED <<layer, produced, outbox, inbox, receiver, wire, waiting, demand, serving, replied,
                 got, closing, canceled, told, giveups>>

\* _background_pipe_recv, which is started only without an iterable and takes nothing
\* more once local_stop is set.
PipeTakes(t) ==
  /\ Piped /\ ~Iterates(t[1]) /\ sender[t].at = "on"
  /\ sender[t].slot # <<>> /\ sender[t].moving = <<>>
  /\ sender' = [sender EXCEPT ![t].moving = sender[t].slot, ![t].slot = <<>>]
  /\ UNCHANGED <<layer, produced, outbox, inbox, receiver, wire, waiting, demand, serving, replied,
                 got, closing, canceled, told, giveups>>

PipeSends(t) ==
  /\ sender[t].moving # <<>> /\ RoomOn(WireOut(t))
  /\ wire' = [wire EXCEPT ![WireOut(t)] = @ \o sender[t].moving]
  /\ sender' = [sender EXCEPT ![t].moving = <<>>]
  /\ UNCHANGED <<layer, produced, outbox, inbox, receiver, waiting, demand, serving, replied, got,
                 closing, canceled, told, giveups>>

-----------------------------------------------------------------------------
(* _receive_messages_task_thread *)

\* _has_receive_demand.
\* Mutant: a message in the buffer counts as one more to come.
DemandedAlways(e) == demand[e] >= Len(inbox[e])
\* Mutant: the slot that asks is not counted itself.
DemandedLate(e) == demand[e] > Len(inbox[e]) + 1
Demanded(e) == demand[e] > Len(inbox[e])
Gated(t) == ~Piped /\ t[1] # Main

\* With a queue a worker looks at the demand first, and polls afterwards.
ReceiverLooks(t) ==
  /\ Gated(t) /\ receiver[t].at = "on" /\ receiver[t].item = <<>> /\ ~receiver[t].polling
  /\ ~Stops(t, receiver[t], "receive") /\ Demanded(t[1])
  /\ receiver' = [receiver EXCEPT ![t].polling = TRUE]
  /\ UNCHANGED <<layer, produced, outbox, inbox, sender, wire, waiting, demand, serving, replied,
                 got, closing, canceled, told, giveups>>

Polls(t) ==
  /\ receiver[t].at = "on" /\ receiver[t].item = <<>>
  /\ IF Gated(t) THEN receiver[t].polling ELSE ~Stops(t, receiver[t], "receive")

ReceiverTakes(t) ==
  /\ Polls(t) /\ wire[WireIn(t)] # <<>>
  /\ wire' = [wire EXCEPT ![WireIn(t)] = Tail(@)]
  /\ receiver' = [receiver EXCEPT ![t].item = <<Head(wire[WireIn(t)])>>, ![t].empties = 0,
                                  ![t].polling = FALSE]
  /\ UNCHANGED <<layer, produced, outbox, inbox, sender, waiting, demand, serving, replied, got,
                 closing, canceled, told, giveups>>

\* A poll that nobody asks for counts as empty once stop() has been called.
\* Mutant: it does not.
IdleCountsNever(t) == FALSE
IdleCounts(t) == closing[t[1]] = "stopping" /\ ~Demanded(t[1])

ReceiverIdles(t) ==
  /\ receiver[t].at = "on" /\ receiver[t].item = <<>>
  /\ \/ Polls(t) /\ wire[WireIn(t)] = <<>>
     \/ Gated(t) /\ ~receiver[t].polling /\ ~Stops(t, receiver[t], "receive") /\ IdleCounts(t)
  /\ receiver' = [receiver EXCEPT ![t].empties = OneMore(@), ![t].polling = FALSE]
  /\ UNCHANGED <<layer, produced, outbox, inbox, sender, wire, waiting, demand, serving, replied,
                 got, closing, canceled, told, giveups>>

\* Mutant: a stack instead of a queue.
DeliveredFirst(box, item) == item \o box
Delivered(box, item) == box \o item

\* sync_put waits for room without a limit and does not look at any event; without a
\* buffer the thread ends.
ReceiverDelivers(t) ==
  /\ receiver[t].at = "on" /\ receiver[t].item # <<>>
  /\ IF closing[t[1]] = "stopped"
     THEN /\ receiver' = [receiver EXCEPT ![t].at = "dead", ![t].item = <<>>, ![t].empties = 0]
          /\ UNCHANGED inbox
     ELSE /\ RoomInside(t[1])
          /\ inbox' = [inbox EXCEPT ![t[1]] = Delivered(@, receiver[t].item)]
          /\ receiver' = [receiver EXCEPT ![t].item = <<>>]
  /\ UNCHANGED <<layer, produced, outbox, sender, wire, waiting, demand, serving, replied, got,
                 closing, canceled, told, giveups>>

ReceiverEnds(t) ==
  /\ receiver[t].at = "on" /\ receiver[t].item = <<>> /\ ~receiver[t].polling
  /\ Stops(t, receiver[t], "receive")
  /\ receiver' = [receiver EXCEPT ![t].at = "off", ![t].empties = 0]
  /\ UNCHANGED <<layer, produced, outbox, inbox, sender, wire, waiting, demand, serving, replied,
                 got, closing, canceled, told, giveups>>

\* The iterable, the encoding or the callback raises.  Nobody looks at the task of a
\* thread before stop().
Deaths == Cardinality({t \in Threads : sender[t].at = "dead"})
          + Cardinality({t \in Threads : receiver[t].at = "dead"})
MayDie == Deaths < layer.deaths
SenderDies(t) ==
  /\ MayDie /\ sender[t].at = "on" /\ sender[t].item = <<>>
  /\ ~Stops(t, sender[t], "send")
  /\ IF Iterates(t[1]) THEN UNCHANGED outbox
     ELSE outbox[t[1]] # <<>> /\ outbox' = [outbox EXCEPT ![t[1]] = Tail(@)]
  /\ sender' = [sender EXCEPT ![t].at = "dead", ![t].empties = 0]
  /\ UNCHANGED <<layer, produced, inbox, receiver, wire, waiting, demand, serving, replied, got,
                 closing, canceled, told, giveups>>

ReceiverDies(t) ==
  /\ MayDie /\ receiver[t].at = "on" /\ receiver[t].item # <<>>
  /\ receiver' = [receiver EXCEPT ![t].at = "dead", ![t].item = <<>>, ![t].empties = 0]
  /\ UNCHANGED <<layer, produced, outbox, inbox, sender, wire, waiting, demand, serving, replied,
                 got, closing, canceled, told, giveups>>

-----------------------------------------------------------------------------
(* put, get and stop *)

\* The coordinator's buffer holds one message (mp_requests_send_buffer_size).
MainPuts ==
  /\ ~layer.iterable /\ closing[Main] = "open"
  /\ produced < Messages /\ Len(outbox[Main]) < 1
  /\ produced' = produced + 1
  /\ outbox' = [outbox EXCEPT ![Main] = Append(@, [id |-> produced + 1, by |-> Main])]
  /\ UNCHANGED <<layer, inbox, sender, receiver, wire, waiting, demand, serving, replied, got,
                 closing, canceled, told, giveups>>

MainGets ==
  /\ closing[Main] = "open" /\ inbox[Main] # <<>>
  /\ got' = Append(got, Head(inbox[Main])) /\ inbox' = [inbox EXCEPT ![Main] = Tail(@)]
  /\ UNCHANGED <<layer, produced, outbox, sender, receiver, wire, waiting, demand, serving, replied,
                 closing, canceled, told, giveups>>

\* The end of get().
\* Mutant: a wait that ends early is withdrawn twice.
WithdrawnTwice(d) == d - 2
Withdrawn(d) == d - 1

\* A slot in get(): it signals its demand, and withdraws it when it runs again.
SlotAsks(w) ==
  /\ closing[w] = "open" /\ demand[w] + Len(serving[w]) < Slots
  /\ waiting' = [waiting EXCEPT ![w] = @ + 1] /\ demand' = [demand EXCEPT ![w] = @ + 1]
  /\ UNCHANGED <<layer, produced, outbox, inbox, sender, receiver, wire, serving, replied, got,
                 closing, canceled, told, giveups>>

SlotTakes(w) ==
  /\ waiting[w] > 0 /\ inbox[w] # <<>>
  /\ waiting' = [waiting EXCEPT ![w] = @ - 1] /\ inbox' = [inbox EXCEPT ![w] = Tail(@)]
  /\ serving' = [serving EXCEPT ![w] = Append(@, Head(inbox[w]))]
  /\ UNCHANGED <<layer, produced, outbox, sender, receiver, wire, demand, replied, got, closing,
                 canceled, told, giveups>>

SlotResumes(w) ==
  /\ demand[w] > waiting[w] /\ demand' = [demand EXCEPT ![w] = Withdrawn(@)]
  /\ UNCHANGED <<layer, produced, outbox, inbox, sender, receiver, wire, waiting, serving, replied,
                 got, closing, canceled, told, giveups>>

\* A timeout, or the slot is cancelled.
SlotGivesUp(w) ==
  /\ waiting[w] > 0 /\ giveups[w] < layer.giveups
  /\ waiting' = [waiting EXCEPT ![w] = @ - 1] /\ demand' = [demand EXCEPT ![w] = Withdrawn(@)]
  /\ giveups' = [giveups EXCEPT ![w] = @ + 1]
  /\ UNCHANGED <<layer, produced, outbox, inbox, sender, receiver, wire, serving, replied, got,
                 closing, canceled, told>>

\* put_sync, once the slot runs and has done its work.
SlotReplies(w) ==
  /\ serving[w] # <<>> /\ demand[w] = waiting[w]
  /\ LET reply == [id |-> Head(serving[w]).id, by |-> w]
     IN /\ outbox' = [outbox EXCEPT ![w] = Append(@, reply)]
        /\ replied' = [replied EXCEPT ![w] = Append(@, reply)]
  /\ serving' = [serving EXCEPT ![w] = Tail(@)]
  /\ UNCHANGED <<layer, produced, inbox, sender, receiver, wire, waiting, demand, got, closing,
                 canceled, told, giveups>>

EventsAreSet ==
  /\ layer.events /\ ~told /\ told' = TRUE
  /\ UNCHANGED <<layer, produced, outbox, inbox, sender, receiver, wire, waiting, demand, serving,
                 replied, got, closing, canceled, giveups>>

\* A worker stops when its requests have ended; its waiting slots are cancelled.
StopBegins(e) ==
  /\ closing[e] = "open"
  /\ e \in Workers => serving[e] = <<>> /\ demand[e] = waiting[e]
  /\ closing' = [closing EXCEPT ![e] = "stopping"]
  /\ IF e = Main THEN UNCHANGED <<waiting, demand>>
     ELSE waiting' = [waiting EXCEPT ![e] = 0] /\ demand' = [demand EXCEPT ![e] = 0]
  /\ UNCHANGED <<layer, produced, outbox, inbox, sender, receiver, wire, serving, replied, got,
                 canceled, told, giveups>>

\* The task of a direction is over with all of its threads, or with the first that
\* raised.
Over(e, threads) ==
  (\E t \in Of(e) : threads[t].at = "dead") \/ (\A t \in Of(e) : threads[t].at = "off")

\* The buffers are gone, and the coordinator empties its own queues, but not those
\* of a manager.
Stopped(e) ==
  /\ closing' = [closing EXCEPT ![e] = "stopped"]
  /\ outbox' = [outbox EXCEPT ![e] = <<>>] /\ inbox' = [inbox EXCEPT ![e] = <<>>]
  /\ \/ UNCHANGED wire
     \/ e = Main /\ ~Piped /\ wire' = [w \in Wires |-> <<>>]

StopEnds(e) ==
  /\ closing[e] = "stopping" /\ Over(e, sender) /\ Over(e, receiver)
  /\ Stopped(e)
  /\ UNCHANGED <<layer, produced, sender, receiver, waiting, demand, serving, replied, got, canceled,
                 told, giveups>>

\* WorkerProcessGroup.shutdown() gives it five seconds; the threads notice later.
StopTimesOut ==
  /\ closing[Main] = "stopping" /\ Stopped(Main)
  /\ canceled' = [canceled EXCEPT ![Main] = TRUE]
  /\ UNCHANGED <<layer, produced, sender, receiver, waiting, demand, serving, replied, got, told,
                 giveups>>

SenderStep(t) ==
  SenderTakes(t) \/ SenderIdles(t) \/ SenderSends(t) \/ SenderEnds(t) \/ PipeTakes(t) \/ PipeSends(t)
ReceiverStep(t) ==
  ReceiverLooks(t) \/ ReceiverTakes(t) \/ ReceiverIdles(t) \/ ReceiverDelivers(t) \/ ReceiverEnds(t)
WorkerEnd(w) == SlotAsks(w) \/ SlotTakes(w) \/ SlotResumes(w) \/ SlotReplies(w)

MessagingNext ==
  \/ \E t \in Threads : SenderStep(t) \/ ReceiverStep(t) \/ SenderDies(t) \/ ReceiverDies(t)
  \/ \E w \in Workers : WorkerEnd(w) \/ SlotGivesUp(w)
  \/ MainPuts \/ MainGets \/ EventsAreSet \/ StopTimesOut
  \/ \E e \in Ends : StopBegins(e) \/ StopEnds(e)

-----------------------------------------------------------------------------
(* Properties *)

MessagingSpec == MessagingInit /\ [][MessagingNext]_messagingVars

Message == [id : 1 .. Messages, by : Ends]
Optional == {<<>>} \cup {<<m>> : m \in Message}
MessagingTypeOK ==
  /\ produced \in 0 .. Messages
  /\ \A e \in Ends : outbox[e] \in Seq(Message) /\ inbox[e] \in Seq(Message)
  /\ sender \in [Threads -> [at : {"on", "off", "dead"}, item : Optional, empties : 0 .. RequiredEmpty,
                             slot : Optional, moving : Optional]]
  /\ receiver \in [Threads -> [at : {"on", "off", "dead"}, item : Optional,
                               empties : 0 .. RequiredEmpty, polling : BOOLEAN]]
  /\ \A w \in Wires : wire[w] \in Seq(Message)
  /\ \A w \in Workers :
       /\ waiting[w] \in 0 .. Slots /\ demand[w] \in waiting[w] .. Slots
       /\ serving[w] \in Seq(Message) /\ replied[w] \in Seq(Message)
  /\ closing \in [Ends -> {"open", "stopping", "stopped"}] /\ canceled \in [Ends -> BOOLEAN]

\* Where a message can be, and what is held there.
Places ==
  ({"outbox", "inbox"} \X Ends) \cup ({"item", "slot", "moving", "fetched"} \X Threads)
  \cup ({"wire"} \X Wires) \cup ({"serving"} \X Workers) \cup {<<"got", Main>>}
Held(p) ==
  CASE p[1] = "outbox" -> outbox[p[2]]
    [] p[1] = "inbox" -> inbox[p[2]]
    [] p[1] = "item" -> sender[p[2]].item
    [] p[1] = "slot" -> sender[p[2]].slot
    [] p[1] = "moving" -> sender[p[2]].moving
    [] p[1] = "fetched" -> receiver[p[2]].item
    [] p[1] = "wire" -> wire[p[2]]
    [] p[1] = "serving" -> serving[p[2]]
    [] p[1] = "got" -> got
Carrying == {p \in Places : Held(p) # <<>>}
Somewhere(m) == \E p \in Carrying : \E i \in DOMAIN Held(p) : Held(p)[i] = m

\* While nobody has stopped and no thread has died, every message the coordinator has
\* sent or a slot has put is somewhere until it is used; and whatever happens, no message
\* is there twice.
Replies == UNION {{replied[w][n] : n \in DOMAIN replied[w]} : w \in Workers}
Undisturbed == Deaths = 0 /\ \A e \in Ends : closing[e] = "open"
NeitherLostNorDoubled ==
  /\ \A p, q \in Carrying : \A i \in DOMAIN Held(p), j \in DOMAIN Held(q) :
       Held(p)[i] = Held(q)[j] => p = q /\ i = j
  /\ Undisturbed =>
       /\ \A m \in Replies : Somewhere(m)
       /\ \A i \in 1 .. produced :
            Somewhere([id |-> i, by |-> Main]) \/ \E m \in Replies : m.id = i

\* The reports of a worker reach the coordinator in the order they were put, which the
\* state machine of a request rests on; a buffer, two threads and a queue or a pipe
\* are between.
RepliesInOrder ==
  Deaths = 0 => \A j \in DOMAIN got : \A w \in Workers : got[j].by = w =>
    \E n \in DOMAIN replied[w] :
      /\ got[j] = replied[w][n]
      /\ \A k \in 1 .. n - 1 : \E i \in 1 .. j - 1 : got[i] = replied[w][k]

\* A worker takes a message off the shared queue only for a slot that has asked: what
\* lies in its thread and its buffer is never more than its slots could take, also
\* when they give up while the thread polls.
FetchedOnDemand ==
  ~Piped => \A w \in Workers : Len(inbox[w]) + Len(receiver[<<w, w>>].item) <= Slots

\* Something can go on that is more than one more poll; none of these steps can be
\* repeated for ever.
Takes(t) ==
  \/ receiver[t].at = "on" /\ wire[WireIn(t)] # <<>> /\ ReceiverLooks(t)
  \/ ReceiverTakes(t) \/ ReceiverDelivers(t)
Counts(t) ==
  /\ ReceiverIdles(t)
  /\ receiver'[t].empties # receiver[t].empties \/ Stops(t, receiver'[t], "receive")
GoesOn ==
  \/ \E t \in Threads : ENABLED (SenderStep(t) /\ sender' # sender) \/ ENABLED Takes(t)
                       \/ ENABLED Counts(t) \/ ENABLED ReceiverEnds(t)
  \/ \E w \in Workers : ENABLED WorkerEnd(w)
  \/ ENABLED MainPuts \/ ENABLED MainGets

\* Through a queue every message has been answered when the layer comes to rest, unless
\* the run is stopped or a thread dies: no slot waits beside a message, and no message
\* behind a busy worker.
Unanswered == {i \in 1 .. produced : \A j \in DOMAIN got : got[j].id # i}
RestsWhenAnswered ==
  ~GoesOn /\ Undisturbed /\ ~told /\ ~Piped => Unanswered = {}

\* stop() never waits for a thread that polls for ever.  What it may wait for is a
\* receiving thread with no room in a buffer that no slot empties, a pipe that nobody
\* reads, and, for the coordinator, a queue that no worker reads: a worker has to be
\* terminated then, and the coordinator has its timeout.
Wedged(t) ==
  \/ receiver[t].item # <<>> /\ inbox[t[1]] # <<>>
  \/ sender[t].item # <<>> /\ (Piped => sender[t].slot # <<>>) /\ (~Piped => ~RoomOn(WireOut(t)))
StopWaitsForWedged ==
  \A e \in Ends : closing[e] = "stopping" /\ ~GoesOn => ENABLED StopEnds(e) \/ \E t \in Of(e) : Wedged(t)

\* "direct communication between scheduler workers and main process": what the
\* coordinator gets, a worker has put.
HearsTheWorkers == \A i \in DOMAIN got : got[i].by \in Workers

\* A message that was put arrives once, in the order of its buffer, and is taken from the
\* queue only for a slot that asked.
MessagesArrive == MessagingTypeOK /\ NeitherLostNorDoubled /\ RepliesInOrder /\ FetchedOnDemand

\* Nothing and nobody is left waiting: messages on their way keep going while both ends
\* run, and a stop is only held up by a thread that cannot notice it.
NobodyIsForgotten == RestsWhenAnswered /\ StopWaitsForWedged
=============================================================================
