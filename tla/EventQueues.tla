---------------------------- MODULE EventQueues ----------------------------
(***************************************************************************)
(* The event loop of components/routing/routing/src/routing.c on one       *)
(* board.  Sibling messages go to the internal queue and peer events to    *)
(* the external queue; both wait there for the board's turn in the         *)
(* critical section (module TokenRing), which dispatches and clears them.  *)
(*                                                                         *)
(* on_sibling_message and on_critical_section run in the sibling-message   *)
(* task.  queue_peer_message runs in the peer-event and peer-message tasks *)
(* (Producers), rt_on_start in app_main, and no lock protects the queues:  *)
(* their reads and writes of the counts are separate steps here.           *)
(***************************************************************************)
EXTENDS Naturals, Sequences, FiniteSets, SequencesExt

CONSTANTS
  Producers,              \* the peer tasks
  Booting,                \* TRUE: rt_on_start has still to run
  MAX_SIBL_EVENT_QUEUED,  \* capacity of the internal queue (16)
  MAX_PEER_EVENT_QUEUED,  \* capacity of the external queue (16)
  MaxEvents,              \* bound: sibling messages, and peer events, made
  MaxDispatched           \* bound: dispatched events, when queues are repeated

ASSUME BootingAssumption == Booting \in BOOLEAN
ASSUME CapacityAssumption ==
  /\ MAX_SIBL_EVENT_QUEUED \in Nat \ {0}
  /\ MAX_PEER_EVENT_QUEUED \in Nat \ {0}

Start == 0       \* SIBL_ON_START; the other events are numbered from 1
Zero == 0        \* a slot of the zeroed queue: an event with an unknown id

VARIABLES
  internal,    \* internal_queue.queue[0 .. count - 1]
  slots,       \* external_queue.queue
  count,       \* external_queue.count
  pc, reg, ev, \* producers: next step, count last read, event to queue
  cs, next,    \* the sibling task in on_critical_section: step, loop index
  boot,        \* rt_on_start: "put", "request" or "done"
  requested,   \* a critical section was requested and not entered since
  made,        \* history: events made so far, <<sibling, peer>>
  acceptedI, dispatchedI,   \* history: internal events queued, dispatched
  acceptedE, dispatchedE,   \* history: the same for peer events
  collided     \* history: the queue was used by two tasks at once

producers == <<pc, reg, ev>>
external  == <<slots, count>>
internals == <<internal, acceptedI>>
history   == <<acceptedE, collided>>
vars == <<internal, slots, count, pc, reg, ev, cs, next, boot, requested,
          made, acceptedI, dispatchedI, acceptedE, dispatchedE, collided>>

Init ==
  /\ internal = IF Booting THEN <<>> ELSE <<Start>>
  /\ slots = [i \in 1 .. MAX_PEER_EVENT_QUEUED |-> Zero]
  /\ count = 0
  /\ pc = [p \in Producers |-> "idle"]
  /\ reg = [p \in Producers |-> 0]
  /\ ev = [p \in Producers |-> Zero]
  /\ cs = "outside"
  /\ next = 1
  /\ boot = IF Booting THEN "put" ELSE "request"
  /\ requested = FALSE
  /\ made = <<0, 0>>
  /\ acceptedI = internal
  /\ dispatchedI = <<>>
  /\ acceptedE = <<>>
  /\ dispatchedE = <<>>
  /\ collided = FALSE

----------------------------------------------------------------------------
(* rt_on_start.                                                            *)

\* queue[0] = SIBL_ON_START, count = 1; then the component is registered.
PutStart ==
  /\ boot = "put"
  /\ boot' = "request"
  /\ internal' = <<Start>>
  /\ acceptedI' = Append(acceptedI, Start)
  /\ collided' = (collided \/ cs # "outside")
  /\ UNCHANGED <<external, producers, cs, next, requested, made, dispatchedI,
                 acceptedE, dispatchedE>>

\* After NODE_STARTUP_DELAY_SECONDS: the first request.
RequestFirst ==
  /\ boot = "request"
  /\ boot' = "done"
  /\ requested' = TRUE
  /\ UNCHANGED <<internals, external, producers, cs, next, made, dispatchedI,
                 dispatchedE, history>>

\* Mutant: the messages are handled in a task of their own.
OnSiblingMessage_AnyTask ==
  /\ boot # "put"
  /\ made[1] < MaxEvents
  /\ made' = [made EXCEPT ![1] = @ + 1]
  /\ IF Len(internal) < MAX_SIBL_EVENT_QUEUED
     THEN /\ internal' = Append(internal, made'[1])
          /\ acceptedI' = Append(acceptedI, made'[1])
          /\ requested' = TRUE
     ELSE UNCHANGED <<internals, requested>>
  /\ UNCHANGED <<external, producers, cs, next, boot, dispatchedI,
                 dispatchedE, history>>

\* on_sibling_message, in the sibling task and outside the callback; a message
\* that finds the queue full is dropped.
OnSiblingMessage ==
  /\ cs = "outside" /\ boot # "put"
  /\ made[1] < MaxEvents
  /\ made' = [made EXCEPT ![1] = @ + 1]
  /\ IF Len(internal) < MAX_SIBL_EVENT_QUEUED
     THEN /\ internal' = Append(internal, made'[1])
          /\ acceptedI' = Append(acceptedI, made'[1])
          /\ requested' = TRUE
     ELSE UNCHANGED <<internals, requested>>
  /\ UNCHANGED <<external, producers, cs, next, boot, dispatchedI,
                 dispatchedE, history>>

----------------------------------------------------------------------------
(* queue_peer_message, in a producer task.                                 *)

\* The queue is full: the event is dropped.
Begin(p) ==
  /\ pc[p] = "idle"
  /\ made[2] < MaxEvents
  /\ made' = [made EXCEPT ![2] = @ + 1]
  /\ ev' = [ev EXCEPT ![p] = made'[2]]
  /\ pc' = [pc EXCEPT ![p] =
              IF count < MAX_PEER_EVENT_QUEUED THEN "copy" ELSE "idle"]
  /\ collided' = (collided \/ \E q \in Producers : pc[q] # "idle")
  /\ UNCHANGED <<internals, external, reg, cs, next, boot, requested,
                 dispatchedI, acceptedE, dispatchedE>>

\* Of two producers that have both found room for one, the second writes behind
\* the array, and the callback reads there: what follows is not modelled.
InArray == count < MAX_PEER_EVENT_QUEUED

\* memcpy to queue[count]
Copy(p) ==
  /\ pc[p] = "copy" /\ InArray
  /\ pc' = [pc EXCEPT ![p] = "load"]
  /\ slots' = [slots EXCEPT ![count + 1] = ev[p]]
  /\ acceptedE' = Append(acceptedE, ev[p])
  /\ UNCHANGED <<internals, count, reg, ev, cs, next, boot, requested, made,
                 dispatchedI, dispatchedE, collided>>

\* count++: load, then store, then the request
Load(p) ==
  /\ pc[p] = "load" /\ InArray
  /\ pc' = [pc EXCEPT ![p] = "store"]
  /\ reg' = [reg EXCEPT ![p] = count]
  /\ UNCHANGED <<internals, external, ev, cs, next, boot, requested, made,
                 dispatchedI, dispatchedE, history>>

Store(p) ==
  /\ pc[p] = "store"
  /\ pc' = [pc EXCEPT ![p] = "request"]
  /\ count' = reg[p] + 1
  /\ UNCHANGED <<internals, slots, reg, ev, cs, next, boot, requested, made,
                 dispatchedI, dispatchedE, history>>

\* Mutant: the event waits for somebody else's request.
Request_Silent(p) ==
  /\ pc[p] = "request"
  /\ pc' = [pc EXCEPT ![p] = "idle"]
  /\ UNCHANGED <<internals, external, reg, ev, cs, next, boot, requested,
                 made, dispatchedI, dispatchedE, history>>

Request(p) ==
  /\ pc[p] = "request"
  /\ pc' = [pc EXCEPT ![p] = "idle"]
  /\ requested' = TRUE
  /\ UNCHANGED <<internals, external, reg, ev, cs, next, boot, made,
                 dispatchedI, dispatchedE, history>>

----------------------------------------------------------------------------
(* on_critical_section, in the sibling task.                               *)

\* The token arrives, requested here or by another board.
Enter ==
  /\ cs = "outside"
  /\ Len(dispatchedI) + Len(dispatchedE) <= MaxDispatched
  /\ cs' = "internal"
  /\ requested' = FALSE
  /\ UNCHANGED <<internals, external, producers, next, boot, made,
                 dispatchedI, dispatchedE, history>>

DispatchInternal ==
  /\ cs = "internal"
  /\ cs' = "external"
  /\ next' = 1
  /\ dispatchedI' = dispatchedI \o internal
  /\ UNCHANGED <<internals, external, producers, boot, requested, made,
                 dispatchedE, history>>

\* One turn of the loop over the external queue: count is read every time.
DispatchExternal ==
  /\ cs = "external"
  /\ next <= count
  /\ slots[next] # Zero
  /\ dispatchedE' = Append(dispatchedE, slots[next])
  /\ next' = next + 1
  /\ UNCHANGED <<internals, external, producers, cs, boot, requested, made,
                 dispatchedI, history>>

\* An unknown event: the callback returns without clearing the queues.
DispatchUnknown ==
  /\ cs = "external"
  /\ next <= count
  /\ slots[next] = Zero
  /\ cs' = "outside"
  /\ UNCHANGED <<internals, external, producers, next, boot, requested, made,
                 dispatchedI, dispatchedE, history>>

LoopEnds ==
  /\ cs = "external"
  /\ next > count
  /\ cs' = "clear"
  /\ UNCHANGED <<internals, external, producers, next, boot, requested, made,
                 dispatchedI, dispatchedE, history>>

\* Mutant: only the internal queue is cleared.
Clear_Internal ==
  /\ cs = "clear"
  /\ cs' = "outside"
  /\ internal' = <<>>
  /\ UNCHANGED <<acceptedI, external, producers, next, boot, requested, made,
                 dispatchedI, dispatchedE, history>>

\* Mutant: only the external queue is cleared.
Clear_External ==
  /\ cs = "clear"
  /\ cs' = "outside"
  /\ count' = 0
  /\ UNCHANGED <<internals, slots, producers, next, boot, requested, made,
                 dispatchedI, dispatchedE, history>>

Clear ==
  /\ cs = "clear"
  /\ cs' = "outside"
  /\ count' = 0
  /\ internal' = <<>>
  /\ collided' = \/ collided
                 \/ next <= count
                 \/ \E p \in Producers : pc[p] \in {"copy", "load", "store"}
  /\ UNCHANGED <<acceptedI, slots, producers, next, boot, requested, made,
                 dispatchedI, acceptedE, dispatchedE>>

----------------------------------------------------------------------------
Producer(p) == Copy(p) \/ Load(p) \/ Store(p) \/ Request(p)
Callback == DispatchInternal \/ DispatchExternal \/ DispatchUnknown
              \/ LoopEnds \/ Clear

Next ==
  \/ PutStart \/ RequestFirst \/ OnSiblingMessage
  \/ \E p \in Producers : Begin(p) \/ Producer(p)
  \/ Enter \/ Callback

Spec == Init /\ [][Next]_vars

(* The tasks keep running, and a requested section is granted (theorem and *)
(* runs of TokenRing); nobody has to send messages.                        *)
Fairness ==
  /\ WF_vars(PutStart) /\ WF_vars(RequestFirst)
  /\ \A p \in Producers : WF_vars(Producer(p))
  /\ WF_vars(requested /\ Enter)
  /\ WF_vars(Callback)

FairSpec == Spec /\ Fairness

----------------------------------------------------------------------------
TypeOK ==
  /\ internal \in Seq(0 .. MaxEvents)
  /\ Len(internal) <= MAX_SIBL_EVENT_QUEUED
  /\ slots \in [1 .. MAX_PEER_EVENT_QUEUED -> 0 .. MaxEvents]
  /\ count \in 0 .. MAX_PEER_EVENT_QUEUED
  /\ \A p \in Producers :
       /\ pc[p] \in {"idle", "copy", "load", "store", "request"}
       /\ reg[p] \in 0 .. MAX_PEER_EVENT_QUEUED
       /\ ev[p] \in 0 .. MaxEvents
  /\ cs \in {"outside", "internal", "external", "clear"}
  /\ next \in 1 .. MAX_PEER_EVENT_QUEUED + 1
  /\ boot \in {"put", "request", "done"}
  /\ requested \in BOOLEAN /\ collided \in BOOLEAN

\* The peer events that are queued and not dispatched yet, oldest first.
Copied == {p \in Producers : pc[p] \in {"load", "store"}}
Waiting ==
  SubSeq(slots, IF cs \in {"external", "clear"} THEN next ELSE 1, count)
    \o (IF Copied = {} THEN <<>> ELSE <<ev[CHOOSE p \in Copied : TRUE]>>)

\* routing.h:41-42: the queue holds the peer events until the board's turn.
\* Each one that was not refused is dispatched once and in order, unless the
\* callback cleared the queue under a producer, or two producers collided.
PeerEventsExactlyOnce == ~collided => dispatchedE \o Waiting = acceptedE

\* routing.h:49-50: the internal queue, used by the sibling task alone once
\* rt_on_start has run, dispatches every accepted sibling message once and in
\* order, the start event first.
SiblingEventsExactlyOnce ==
  ~collided =>
    acceptedI = IF cs \in {"external", "clear"} THEN dispatchedI
                ELSE dispatchedI \o internal

\* Whatever the peer tasks and rt_on_start do to each other, and even when the
\* callback gives up on an unknown peer event, no accepted sibling message is
\* lost (it may be dispatched again).
SiblingMessagesNeverLost ==
  ToSet(acceptedI) \ {Start} \subseteq ToSet(dispatchedI) \cup ToSet(internal)

\* Every event that was queued is dispatched, or the queue was cleared under
\* its producer.
EventuallyDispatched ==
  \A e \in 1 .. MaxEvents :
    e \in ToSet(acceptedE) ~> (e \in ToSet(dispatchedE) \/ collided)
=============================================================================
