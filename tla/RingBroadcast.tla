--------------------------- MODULE RingBroadcast ---------------------------
(***************************************************************************)
(* Broadcasting on the SPI ring of a node: ring_share, node_broadcast_to_  *)
(* siblings and ring_link_internal.  A packet travels once around the      *)
(* ring; every other board queues it for its sibling-message task and      *)
(* forwards it, and its return to the sender is the acknowledgement.  A    *)
(* broadcast that is not acknowledged in time is sent again.               *)
(*                                                                         *)
(* Per board, three tasks meet here: one that broadcasts (any, under the   *)
(* broadcast_lock of ring_share), the sibling-message task, which may      *)
(* broadcast from its handlers, and ring_link_internal_process.  The copy  *)
(* of a packet from board to board (SPI, checksum, queues of ring_link) is *)
(* a FIFO link that may lose.                                              *)
(***************************************************************************)
EXTENDS Naturals, Sequences, FiniteSets, SequencesExt

CONSTANTS
  N,            \* boards in the ring, each one's output leads to the next
  TTL,          \* RING_LINK_PAYLOAD_TTL (4, for rings of up to 5 boards)
  MAX_RETRIES,  \* tries of node_broadcast_to_siblings (5)
  QueueLength,  \* SIBLING_QUEUE_LENGTH (10)
  Broadcasts,   \* bound: how many messages each board broadcasts
  Senders,      \* bound: which of its tasks do it
  MaxLosses     \* bound: packets lost and transmissions that fail

Board == 1 .. N
Sib == "sibling_task"
App == "app_task"
Task == {Sib, App}
None == "none"

ASSUME RingAssumption == N \in Nat /\ N >= 2 /\ TTL \in Nat /\ TTL >= N - 1
ASSUME LimitsAssumption == /\ MAX_RETRIES \in Nat \ {0}
                           /\ QueueLength \in Nat \ {0}
                           /\ Broadcasts \in [Board -> Nat]
                           /\ Senders \in [Board -> SUBSET Task]
                           /\ MaxLosses \in Nat

VARIABLES
  link,      \* packets on their way to a board: [src, msg, ttl]
  queue,     \* sibling_message_queue: <<src, msg>> for the sibling task
  handling,  \* the sibling task is inside the handler of a message
  sender,    \* the task that holds broadcast_lock
  phase,     \* its step: "idle", "send", "wait" or "clear"
  msg,       \* number of the message it broadcasts
  try,       \* node_broadcast_to_siblings: current try
  result,    \* broadcast_to_siblings: result of the current try
  s_broadcast_task, \* the task to notify
  notified,  \* notification values: how many notifications wait for each task
  ack,       \* broadcast_handler: task it read and is about to notify
  took,      \* history: what each sibling task took, in order
  reported,  \* history: broadcasts that returned true
  late,      \* history: boards where a broadcast has timed out
  losses     \* history: packets lost and failed transmissions

sending == <<sender, phase, msg, try, result, s_broadcast_task>>
sibling == <<queue, handling, took>>
vars == <<link, queue, handling, sender, phase, msg, try, result,
          s_broadcast_task, notified, ack, took, reported, late, losses>>

Silent == [t \in Task |-> 0]   \* no task has a notification

Init ==
  /\ link = [b \in Board |-> <<>>]
  /\ queue = [b \in Board |-> <<>>]
  /\ handling = [b \in Board |-> FALSE]
  /\ sender = [b \in Board |-> None]
  /\ phase = [b \in Board |-> "idle"]
  /\ msg = [b \in Board |-> 0]
  /\ try = [b \in Board |-> 0]
  /\ result = [b \in Board |-> FALSE]
  /\ s_broadcast_task = [b \in Board |-> None]
  /\ notified = [b \in Board |-> Silent]
  /\ ack = [b \in Board |-> None]
  /\ took = [b \in Board |-> <<>>]
  /\ reported = {}
  /\ late = {}
  /\ losses = 0

Next_(b) == (b % N) + 1   \* the board at the other end of b's output

----------------------------------------------------------------------------
(* Broadcasting: rs_broadcast, node_broadcast_to_siblings, broadcast.c.    *)

\* A task takes broadcast_lock and enters the loop of tries; the sibling task
\* does it from the handler of a message.
Start(b, t) ==
  /\ sender[b] = None
  /\ msg[b] < Broadcasts[b]
  /\ t = Sib => handling[b]
  /\ sender' = [sender EXCEPT ![b] = t]
  /\ phase' = [phase EXCEPT ![b] = "send"]
  /\ msg' = [msg EXCEPT ![b] = @ + 1]
  /\ try' = [try EXCEPT ![b] = 1]
  /\ UNCHANGED <<link, sibling, result, s_broadcast_task, notified, ack,
                 reported, late, losses>>

\* The packet is on the wire: wait for the notification.
Send(b) ==
  /\ phase[b] = "send"
  /\ s_broadcast_task' = [s_broadcast_task EXCEPT ![b] = sender[b]]
  /\ phase' = [phase EXCEPT ![b] = "wait"]
  /\ link' = [link EXCEPT ![Next_(b)] =
                Append(@, [src |-> b, msg |-> msg[b], ttl |-> TTL])]
  /\ UNCHANGED <<sibling, sender, msg, try, result, notified, ack, reported,
                 late, losses>>

\* Mutant: the error of send_broadcast is ignored.
SendFails_Ignored(b) ==
  /\ phase[b] = "send"
  /\ losses < MaxLosses
  /\ losses' = losses + 1
  /\ s_broadcast_task' = [s_broadcast_task EXCEPT ![b] = sender[b]]
  /\ phase' = [phase EXCEPT ![b] = "clear"]
  /\ result' = [result EXCEPT ![b] = TRUE]
  /\ UNCHANGED <<link, sibling, sender, msg, try, notified, ack, reported,
                 late>>

\* The transmission fails (the link was busy for too long): no wait.
SendFails(b) ==
  /\ phase[b] = "send"
  /\ losses < MaxLosses
  /\ losses' = losses + 1
  /\ s_broadcast_task' = [s_broadcast_task EXCEPT ![b] = sender[b]]
  /\ phase' = [phase EXCEPT ![b] = "clear"]
  /\ result' = [result EXCEPT ![b] = FALSE]
  /\ UNCHANGED <<link, sibling, sender, msg, try, notified, ack, reported,
                 late>>

\* How many notifications the task that waits has.
Notes(b) == notified[b][sender[b]]

\* ulTaskNotifyTake takes all notifications and returns their number, which
\* is compared with pdTRUE: two acknowledgements count as a failure.
Notified(b) ==
  /\ phase[b] = "wait"
  /\ Notes(b) > 0
  /\ notified' = [notified EXCEPT ![b][sender[b]] = 0]
  /\ result' = [result EXCEPT ![b] = (Notes(b) = 1)]
  /\ phase' = [phase EXCEPT ![b] = "clear"]
  /\ UNCHANGED <<link, sibling, sender, msg, try, s_broadcast_task, ack,
                 reported, late, losses>>

\* Mutant: portMAX_DELAY, the wait has no end.
Timeout_Never(b) ==
  /\ phase[b] = "wait" /\ Notes(b) = 0 /\ FALSE
  /\ UNCHANGED vars

\* BROADCAST_TIMEOUT_MS have passed without a notification.
Timeout(b) ==
  /\ phase[b] = "wait"
  /\ Notes(b) = 0
  /\ result' = [result EXCEPT ![b] = FALSE]
  /\ phase' = [phase EXCEPT ![b] = "clear"]
  /\ late' = late \cup {b}
  /\ UNCHANGED <<link, sibling, sender, msg, try, s_broadcast_task, notified,
                 ack, reported, losses>>

LastTry(b) == try[b] >= MAX_RETRIES

\* Mutant: a success does not end the loop of tries.
Clear_Again(b) ==
  /\ phase[b] = "clear"
  /\ s_broadcast_task' = [s_broadcast_task EXCEPT ![b] = None]
  /\ IF LastTry(b)
     THEN /\ phase' = [phase EXCEPT ![b] = "idle"]
          /\ sender' = [sender EXCEPT ![b] = None]
          /\ try' = try
     ELSE /\ phase' = [phase EXCEPT ![b] = "send"]
          /\ try' = [try EXCEPT ![b] = @ + 1]
          /\ sender' = sender
  /\ reported' = IF result[b] THEN reported \cup {<<b, msg[b]>>} ELSE reported
  /\ UNCHANGED <<link, sibling, msg, result, notified, ack, late, losses>>

\* Mutant: the next try is not counted.
Clear_Uncounted(b) ==
  /\ phase[b] = "clear"
  /\ s_broadcast_task' = [s_broadcast_task EXCEPT ![b] = None]
  /\ IF result[b] \/ LastTry(b)
     THEN /\ phase' = [phase EXCEPT ![b] = "idle"]
          /\ sender' = [sender EXCEPT ![b] = None]
          /\ try' = try
     ELSE /\ phase' = [phase EXCEPT ![b] = "send"]
          /\ try' = try
          /\ sender' = sender
  /\ reported' = IF result[b] THEN reported \cup {<<b, msg[b]>>} ELSE reported
  /\ UNCHANGED <<link, sibling, msg, result, notified, ack, late, losses>>

\* s_broadcast_task = NULL; then success, the next try, or giving up.
Clear(b) ==
  /\ phase[b] = "clear"
  /\ s_broadcast_task' = [s_broadcast_task EXCEPT ![b] = None]
  /\ IF result[b] \/ LastTry(b)
     THEN /\ phase' = [phase EXCEPT ![b] = "idle"]
          /\ sender' = [sender EXCEPT ![b] = None]
          /\ try' = try
     ELSE /\ phase' = [phase EXCEPT ![b] = "send"]
          /\ try' = [try EXCEPT ![b] = @ + 1]
          /\ sender' = sender
  /\ reported' = IF result[b] THEN reported \cup {<<b, msg[b]>>} ELSE reported
  /\ UNCHANGED <<link, sibling, msg, result, notified, ack, late, losses>>

----------------------------------------------------------------------------
(* ring_link_internal_process: the packet at the head of the link.         *)

Head_(b) == Head(link[b])
Own(b) == link[b] # <<>> /\ Head_(b).src = b
Foreign(b) == link[b] # <<>> /\ Head_(b).src # b
Message(p) == <<p.src, p.msg>>

\* Mutant: new messages overtake the ones that wait.
Deliver_ToFront(b) == queue' = [queue EXCEPT ![b] = <<Message(Head_(b))>> \o @]

\* Mutant: a full queue drops the message.
Deliver_Drops(b) ==
  queue' = IF Len(queue[b]) < QueueLength
           THEN [queue EXCEPT ![b] = Append(@, Message(Head_(b)))]
           ELSE queue

\* xQueueSend, which blocks while the queue is full
Deliver(b) ==
  /\ Len(queue[b]) < QueueLength
  /\ queue' = [queue EXCEPT ![b] = Append(@, Message(Head_(b)))]

Expired(p) == p.ttl = 0

\* Queue the message for the sibling task, then forward the packet.
Forward(b) ==
  /\ Foreign(b) /\ ack[b] = None
  /\ Deliver(b)
  /\ link' = [link EXCEPT
                ![b] = Tail(@),
                ![Next_(b)] = IF Expired(Head_(b)) THEN @
                              ELSE Append(@, [Head_(b) EXCEPT !.ttl = @ - 1])]
  /\ UNCHANGED <<handling, took, sending, notified, ack, reported, late,
                 losses>>

\* An acknowledgement nobody waits for "took too long": drop it.
AckDropped(b) ==
  /\ Own(b) /\ ack[b] = None
  /\ s_broadcast_task[b] = None
  /\ link' = [link EXCEPT ![b] = Tail(@)]
  /\ UNCHANGED <<sibling, sending, notified, ack, reported, late, losses>>

\* Somebody waits; whatever broadcast the packet belongs to.
AckAccepted(b) ==
  /\ Own(b) /\ ack[b] = None
  /\ s_broadcast_task[b] # None
  /\ ack' = [ack EXCEPT ![b] = s_broadcast_task[b]]
  /\ link' = [link EXCEPT ![b] = Tail(@)]
  /\ UNCHANGED <<sibling, sending, notified, reported, late, losses>>

\* xTaskNotifyGive to the task that was read
Notify(b) ==
  /\ ack[b] # None
  /\ notified' = [notified EXCEPT ![b][ack[b]] = @ + 1]
  /\ ack' = [ack EXCEPT ![b] = None]
  /\ UNCHANGED <<link, sibling, sending, reported, late, losses>>

\* Anything on the way from board to board that drops a packet: no free
\* receive buffer, a checksum error, a full queue, a busy link when forwarding.
Lose(b) ==
  /\ link[b] # <<>>
  /\ losses < MaxLosses
  /\ losses' = losses + 1
  /\ link' = [link EXCEPT ![b] = Tail(@)]
  /\ UNCHANGED <<sibling, sending, notified, ack, reported, late>>

----------------------------------------------------------------------------
(* sibling_message_task: takes a message and runs its handler, which may   *)
(* broadcast (and meanwhile nothing is taken from the queue).              *)

Take(b) ==
  /\ ~handling[b]
  /\ queue[b] # <<>>
  /\ queue' = [queue EXCEPT ![b] = Tail(@)]
  /\ took' = [took EXCEPT ![b] = Append(@, Head(queue[b]))]
  /\ handling' = [handling EXCEPT ![b] = TRUE]
  /\ UNCHANGED <<link, sending, notified, ack, reported, late, losses>>

Return(b) ==
  /\ handling[b]
  /\ sender[b] # Sib
  /\ handling' = [handling EXCEPT ![b] = FALSE]
  /\ UNCHANGED <<link, queue, sending, notified, ack, took, reported, late,
                 losses>>

----------------------------------------------------------------------------
Sender(b) == Send(b) \/ SendFails(b) \/ Notified(b) \/ Timeout(b) \/ Clear(b)
RingLink(b) == Forward(b) \/ AckDropped(b) \/ AckAccepted(b) \/ Notify(b)
Sibling(b) == Take(b) \/ Return(b)

Next ==
  \E b \in Board :
    \/ \E t \in Senders[b] : Start(b, t)
    \/ Sender(b) \/ RingLink(b) \/ Sibling(b) \/ Lose(b)

Spec == Init /\ [][Next]_vars

(* Every task of every board keeps running, timers included; nobody has to *)
(* start a broadcast.                                                      *)
Fairness ==
  \A b \in Board :
    WF_vars(Sender(b)) /\ WF_vars(RingLink(b)) /\ WF_vars(Sibling(b))

FairSpec == Spec /\ Fairness

----------------------------------------------------------------------------
Messages == {m \in Board \X Nat : m[2] <= Broadcasts[m[1]]}

TypeOK ==
  /\ \A b \in Board :
       /\ \A i \in 1 .. Len(link[b]) :
            /\ Message(link[b][i]) \in Messages
            /\ link[b][i].ttl \in 0 .. TTL
       /\ Len(queue[b]) <= QueueLength
       /\ \A i \in 1 .. Len(queue[b]) : queue[b][i] \in Messages
       /\ \A i \in 1 .. Len(took[b]) : took[b][i] \in Messages
       /\ msg[b] \in 0 .. Broadcasts[b]
       /\ try[b] \in 0 .. MAX_RETRIES
  /\ handling \in [Board -> BOOLEAN]
  /\ sender \in [Board -> Task \cup {None}]
  /\ phase \in [Board -> {"idle", "send", "wait", "clear"}]
  /\ result \in [Board -> BOOLEAN]
  /\ s_broadcast_task \in [Board -> Task \cup {None}]
  /\ notified \in [Board -> [Task -> Nat]]
  /\ ack \in [Board -> Task \cup {None}]
  /\ reported \subseteq Messages
  /\ late \subseteq Board
  /\ losses \in 0 .. MaxLosses

\* All messages a board has got, oldest first.
Received(b) == took[b] \o queue[b]
Times(b, m) == Cardinality({i \in 1 .. Len(Received(b)) : Received(b)[i] = m})

\* siblings.h:22: "Returns true if the broadcast was successful": every other
\* board has got the message.
SuccessMeansDelivered ==
  \A m \in reported : \A b \in Board \ {m[1]} : Times(b, m) > 0

\* The same for a board none of whose broadcasts has timed out yet, and then
\* each board got the message once: what a timeout can do is to make a board
\* take the acknowledgement of one broadcast for another's.
SuccessUntilTimeout ==
  \A m \in reported :
    m[1] \notin late => \A b \in Board \ {m[1]} : Times(b, m) = 1

\* The handlers of a board see the messages of another one in the order in
\* which they were broadcast, retries and losses notwithstanding.
InOrder ==
  \A b \in Board : \A i, j \in 1 .. Len(took[b]) :
    i < j /\ took[b][i][1] = took[b][j][1] => took[b][i][2] <= took[b][j][2]

\* How many links a packet of board s has come along when it is on link b.
Dist(s, b) == IF b > s THEN b - s ELSE b + N - s

\* What users of siblings.h rely on when they do not look at the result: no
\* board gets more copies of a message than there were tries (a token grant of
\* leader.c), and none gets more than a board that is nearer to the sender, so
\* that a broadcast that was lost for good has reached the boards before some
\* link (a refresh of shared_state.c).
CopiesAlongRing ==
  \A s \in Board : \A b \in Board \ {s}, m \in 1 .. msg[s] :
    /\ Times(b, <<s, m>>) <= IF m = msg[s] THEN try[s] ELSE MAX_RETRIES
    /\ \A c \in Board \ {s} :
         Dist(s, b) < Dist(s, c) => Times(c, <<s, m>>) <= Times(b, <<s, m>>)

\* What node_broadcast_to_siblings and the ring do together is the broadcast
\* of siblings.h: one copy per try, from board to board, in order, and a
\* success that means delivery until a timeout.  This holds of lost and of
\* repeated packets and of acknowledgements taken for another broadcast's.
Siblings ==
  INSTANCE SiblingBroadcast
    WITH sent <- msg, tries <- try, got <- [b \in Board |-> Received(b)]
ImplementsSiblings == Siblings!Spec

\* Every broadcast returns, although the acknowledgement may wait behind a
\* message for the very task that waits for it.
BroadcastEnds == \A b \in Board : []<>(phase[b] = "idle")

\* Without losses every board gets every message that was ever broadcast: boards
\* that wait for each other's full queues get out of it by their timeouts.
DeliveredWithoutLosses ==
  <>[](losses = 0 =>
         \A s, b \in Board : \A m \in 1 .. msg[s] :
           s # b => Times(b, <<s, m>>) > 0)
=============================================================================
