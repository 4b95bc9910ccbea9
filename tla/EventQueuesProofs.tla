-------------------------- MODULE EventQueuesProofs --------------------------
(***************************************************************************)
(* Theorems about EventQueues, for any producers, any capacities and any   *)
(* number of events.                                                       *)
(***************************************************************************)
EXTENDS EventQueues, SequenceTheorems, TLAPS

Types ==
  /\ internal \in Seq(Nat) /\ acceptedI \in Seq(Nat) /\ dispatchedI \in Seq(Nat)
  /\ acceptedE \in Seq(Nat)
  /\ slots \in [1 .. MAX_PEER_EVENT_QUEUED -> Nat]
  /\ count \in Nat /\ next \in Nat /\ next > 0
  /\ pc \in [Producers -> {"idle", "copy", "load", "store", "request"}]
  /\ reg \in [Producers -> Nat] /\ ev \in [Producers -> Nat]
  /\ cs \in {"outside", "internal", "external", "clear"}
  /\ boot \in {"put", "request", "done"}
  /\ made \in Nat \X Nat
  /\ requested \in BOOLEAN /\ collided \in BOOLEAN

----------------------------------------------------------------------------
(* The internal queue.                                                     *)

\* The callback has dispatched the internal queue and not cleared it yet.
Turned == cs \in {"external", "clear"}

InternalInv ==
  /\ boot = "put" => internal = <<>> /\ acceptedI = <<>> /\ dispatchedI = <<>>
  /\ SiblingEventsExactlyOnce
  /\ SiblingMessagesNeverLost
  /\ Turned => ToSet(internal) \ {Start} \subseteq ToSet(dispatchedI)

----------------------------------------------------------------------------
(* The external queue.  Base is the number of peer events that earlier     *)
(* turns dispatched: the queue starts behind them.                         *)
Base == IF Turned THEN Len(dispatchedE) + 1 - next ELSE Len(dispatchedE)

\* One producer at a time, and what it holds while it adds its event.
ProducerInv ==
  /\ \A p, q \in Producers : pc[p] # "idle" /\ pc[q] # "idle" => p = q
  /\ \A p \in Producers :
       pc[p] \in {"copy", "load", "store"}
         => count < MAX_PEER_EVENT_QUEUED /\ ev[p] # Zero
  /\ \A p \in Producers : pc[p] = "store" => reg[p] = count
  /\ \A p \in Producers :
       pc[p] \in {"load", "store"}
         => /\ slots[count + 1] = ev[p]
            /\ Len(acceptedE) = Base + count + 1
            /\ acceptedE[Base + count + 1] = ev[p]

QueueInv ==
  /\ dispatchedE \in Seq(Nat)
  /\ Base \in Nat
  /\ count <= MAX_PEER_EVENT_QUEUED
  /\ Turned => next <= count + 1
  /\ (\A p \in Producers : pc[p] \notin {"load", "store"})
       => Len(acceptedE) = Base + count
  /\ \A i \in 1 .. count : slots[i] = acceptedE[Base + i]
  /\ \A i \in 1 .. Len(dispatchedE) : dispatchedE[i] = acceptedE[i]
  /\ \A i \in 1 .. Len(acceptedE) : acceptedE[i] # Zero

ExternalInv == ~collided => ProducerInv /\ QueueInv

LEMMA TypesInit == Init => Types
<1> SUFFICES ASSUME Init PROVE Types
  OBVIOUS
<1>1. <<>> \in Seq(Nat) /\ <<0>> \in Seq(Nat)
  BY SMT
<1>2. /\ internal \in Seq(Nat) /\ acceptedI \in Seq(Nat)
      /\ dispatchedI \in Seq(Nat) /\ acceptedE \in Seq(Nat)
  BY <1>1 DEF Init, Start
<1>3. /\ slots \in [1 .. MAX_PEER_EVENT_QUEUED -> Nat]
      /\ count \in Nat /\ next \in Nat /\ next > 0
      /\ reg \in [Producers -> Nat] /\ ev \in [Producers -> Nat]
      /\ made \in Nat \X Nat
  BY SMT DEF Init, Zero
<1>4. /\ pc \in [Producers -> {"idle", "copy", "load", "store", "request"}]
      /\ cs \in {"outside", "internal", "external", "clear"}
      /\ boot \in {"put", "request", "done"}
      /\ requested \in BOOLEAN /\ collided \in BOOLEAN
  BY DEF Init
<1> QED
  BY <1>2, <1>3, <1>4 DEF Types

LEMMA TypesStep == Types /\ [Next]_vars => Types'
<1> SUFFICES ASSUME Types, [Next]_vars PROVE Types'
  OBVIOUS
<1> USE DEF Types
<1>1. CASE UNCHANGED vars
  BY <1>1 DEF vars
<1>2. CASE PutStart
  <2>1. <<0>> \in Seq(Nat) /\ Append(acceptedI, 0) \in Seq(Nat)
    BY SMT
  <2> QED
    BY <1>2, <2>1 DEF PutStart, Start, external, producers
<1>3. CASE RequestFirst
  BY <1>3 DEF RequestFirst, external, producers, internals, history
<1>4. CASE OnSiblingMessage
  <2>1. made' \in Nat \X Nat /\ made'[1] \in Nat
    BY <1>4, SMT DEF OnSiblingMessage
  <2>2. Append(internal, made'[1]) \in Seq(Nat) /\ Append(acceptedI, made'[1]) \in Seq(Nat)
    BY <2>1, SMT
  <2> QED
    BY <1>4, <2>1, <2>2 DEF OnSiblingMessage, external, producers, internals, history
<1>5. ASSUME NEW p \in Producers, Begin(p) PROVE Types'
  <2>1. made' \in Nat \X Nat /\ made'[2] \in Nat
    BY <1>5, SMT DEF Begin
  <2> QED
    BY <1>5, <2>1 DEF Begin, external, internals
<1>6. ASSUME NEW p \in Producers, Copy(p) PROVE Types'
  <2>1. Append(acceptedE, ev[p]) \in Seq(Nat)
    BY SMT
  <2> QED
    BY <1>6, <2>1 DEF Copy, internals
<1>7. ASSUME NEW p \in Producers, Load(p) PROVE Types'
  BY <1>7 DEF Load, external, internals, history
<1>8. ASSUME NEW p \in Producers, Store(p) PROVE Types'
  <2>1. reg[p] + 1 \in Nat
    BY SMT
  <2> QED
    BY <1>8, <2>1 DEF Store, internals, history
<1>9. ASSUME NEW p \in Producers, Request(p) PROVE Types'
  BY <1>9 DEF Request, external, internals, history
<1>10. CASE Enter
  BY <1>10 DEF Enter, external, producers, internals, history
<1>11. CASE DispatchInternal
  <2>1. dispatchedI \o internal \in Seq(Nat)
    BY SMT
  <2> QED
    BY <1>11, <2>1 DEF DispatchInternal, external, producers, internals, history
<1>12. CASE DispatchExternal
  BY <1>12, SMT DEF DispatchExternal, external, producers, internals, history
<1>13. CASE DispatchUnknown \/ LoopEnds
  BY <1>13 DEF DispatchUnknown, LoopEnds, external, producers, internals, history
<1>14. CASE Clear
  BY <1>14, EmptySeq DEF Clear, producers
<1> QED
  BY <1>1, <1>2, <1>3, <1>4, <1>5, <1>6, <1>7, <1>8, <1>9, <1>10, <1>11,
     <1>12, <1>13, <1>14 DEF Next, Producer, Callback

----------------------------------------------------------------------------
LEMMA ToSetConcat ==
  ASSUME NEW s \in Seq(Nat), NEW t \in Seq(Nat)
  PROVE  ToSet(s \o t) = ToSet(s) \cup ToSet(t)
<1>1. ToSet(s \o t) \subseteq ToSet(s) \cup ToSet(t)
  <2> SUFFICES ASSUME NEW i \in DOMAIN (s \o t)
               PROVE  (s \o t)[i] \in ToSet(s) \cup ToSet(t)
    BY DEF ToSet
  <2>1. i \in 1 .. Len(s) + Len(t)
    BY SMT
  <2>2. CASE i \in 1 .. Len(s)
    BY <2>2, SMT DEF ToSet
  <2>3. CASE i - Len(s) \in 1 .. Len(t)
    BY <2>1, <2>3, SMT DEF ToSet
  <2> QED
    BY <2>1, <2>2, <2>3, SMT
<1>2. ASSUME NEW i \in DOMAIN s PROVE s[i] \in ToSet(s \o t)
  <2>1. i \in DOMAIN (s \o t) /\ (s \o t)[i] = s[i]
    BY SMT
  <2> QED
    BY <2>1 DEF ToSet
<1>3. ASSUME NEW i \in DOMAIN t PROVE t[i] \in ToSet(s \o t)
  <2>1. i + Len(s) \in DOMAIN (s \o t) /\ (s \o t)[i + Len(s)] = t[i]
    BY SMT
  <2> QED
    BY <2>1 DEF ToSet
<1> QED
  BY <1>1, <1>2, <1>3 DEF ToSet

LEMMA ToSetEmpty == ToSet(<<>>) = {}
BY DEF ToSet

----------------------------------------------------------------------------
(* ExternalInv is inductive.                                               *)

LEMMA ExternalInit == Init => ExternalInv
<1> SUFFICES ASSUME Init PROVE ProducerInv /\ QueueInv
  BY DEF ExternalInv
<1>1. ProducerInv
  BY DEF Init, ProducerInv
<1>2. ~Turned /\ Base = 0 /\ count = 0 /\ Len(acceptedE) = 0
      /\ dispatchedE \in Seq(Nat) /\ Len(dispatchedE) = 0
  BY SMT DEF Init, Turned, Base
<1> QED
  BY <1>1, <1>2, CapacityAssumption, SMT DEF QueueInv

\* While the queue is used by one task at a time, all its events are known.
LEMMA AllKnown ==
  ASSUME Types, ExternalInv, ~collided, cs = "external", next <= count
  PROVE  /\ next \in 1 .. count /\ count <= MAX_PEER_EVENT_QUEUED
         /\ slots[next] = acceptedE[Len(dispatchedE) + 1]
         /\ Len(dispatchedE) + 1 \in 1 .. Len(acceptedE)
         /\ slots[next] # Zero
<1>1. /\ Base = Len(dispatchedE) + 1 - next /\ Base \in Nat
      /\ dispatchedE \in Seq(Nat)
  BY DEF ExternalInv, QueueInv, Base, Turned
<1>2. next \in 1 .. count /\ count <= MAX_PEER_EVENT_QUEUED
  BY SMT DEF Types, ExternalInv, QueueInv
<1>3. slots[next] = acceptedE[Len(dispatchedE) + 1]
  <2>1. Base + next = Len(dispatchedE) + 1
    BY <1>1, SMT DEF Types
  <2> QED
    BY <1>2, <2>1 DEF ExternalInv, QueueInv
<1>4. Len(acceptedE) >= Base + count
  BY <1>1, SMT DEF ExternalInv, QueueInv, ProducerInv, Types
<1>5. Len(dispatchedE) + 1 \in 1 .. Len(acceptedE)
  BY <1>1, <1>2, <1>4, SMT DEF Types
<1> QED
  BY <1>2, <1>3, <1>5 DEF ExternalInv, QueueInv

LEMMA ExternalStep == Types /\ ExternalInv /\ [Next]_vars => ExternalInv'
<1> SUFFICES ASSUME Types, ExternalInv, [Next]_vars, ~collided' 
             PROVE  ProducerInv' /\ QueueInv'
  BY DEF ExternalInv
<1>0. ~collided
  BY DEF Next, Producer, Callback, vars, PutStart, RequestFirst,
     OnSiblingMessage, Begin, Copy, Load, Store, Request, Enter,
     DispatchInternal, DispatchExternal, DispatchUnknown, LoopEnds, Clear,
     history
<1>p. ProducerInv /\ QueueInv
  BY <1>0 DEF ExternalInv
<1>u. UNCHANGED <<external, producers, dispatchedE, acceptedE>> /\ Base' = Base
        /\ (Turned' => next' <= count' + 1) => ProducerInv' /\ QueueInv'
  <2> SUFFICES ASSUME UNCHANGED <<external, producers, dispatchedE, acceptedE>>,
                      Base' = Base, Turned' => next' <= count' + 1
               PROVE  ProducerInv' /\ QueueInv'
    OBVIOUS
  <2>1. UNCHANGED <<slots, count, pc, reg, ev, dispatchedE, acceptedE>>
    BY DEF external, producers
  <2>2. ProducerInv'
    BY <1>p, <2>1 DEF ProducerInv
  <2> QED
    BY <1>p, <2>1, <2>2 DEF QueueInv
<1>1. CASE UNCHANGED vars
  BY <1>1, <1>u, <1>p DEF vars, Turned, Base, external, producers, QueueInv
<1>2. CASE PutStart \/ RequestFirst \/ OnSiblingMessage
  BY <1>2, <1>u, <1>p DEF PutStart, RequestFirst, OnSiblingMessage, history,
     Turned, Base, QueueInv, external
<1>3. ASSUME NEW p \in Producers, Begin(p) PROVE ProducerInv' /\ QueueInv'
  <2>1. /\ UNCHANGED <<slots, count, reg, cs, next, dispatchedE, acceptedE>>
        /\ \A q \in Producers : pc[q] = "idle"
        /\ pc' = [pc EXCEPT ![p] = IF count < MAX_PEER_EVENT_QUEUED THEN "copy" ELSE "idle"]
        /\ ev' = [ev EXCEPT ![p] = made'[2]]
    BY <1>0, <1>3 DEF Begin, external
  <2>2. made'[2] # 0
    BY <1>3, SMT DEF Begin, Types
  <2>3. Base' = Base /\ Turned' = Turned
    BY <2>1 DEF Base, Turned
  <2>4. ProducerInv'
    BY <1>p, <2>1, <2>2 DEF ProducerInv, Types, Zero
  <2> QED
    BY <1>p, <2>1, <2>3, <2>4 DEF QueueInv, Types
<1>4. ASSUME NEW p \in Producers, Copy(p) PROVE ProducerInv' /\ QueueInv'
  <2>1. /\ UNCHANGED <<count, reg, ev, cs, next, dispatchedE>>
        /\ pc[p] = "copy" /\ pc' = [pc EXCEPT ![p] = "load"]
        /\ slots' = [slots EXCEPT ![count + 1] = ev[p]]
        /\ acceptedE' = Append(acceptedE, ev[p])
    BY <1>4 DEF Copy
  <2>2. Base' = Base /\ Turned' = Turned /\ Base \in Nat
    BY <1>p, <2>1 DEF Base, Turned, QueueInv
  <2>3. \A q \in Producers : q # p => pc[q] = "idle" /\ pc'[q] = "idle"
    BY <1>p, <2>1 DEF ProducerInv, Types
  <2>4. Len(acceptedE) = Base + count
    BY <1>p, <2>1, <2>3 DEF QueueInv
  <2>5. count < MAX_PEER_EVENT_QUEUED /\ ev[p] # Zero /\ ev[p] \in Nat
    BY <1>p, <2>1 DEF ProducerInv, Types
  <2>6. /\ slots'[count + 1] = ev[p]
        /\ \A i \in 1 .. count : slots'[i] = slots[i]
    BY <2>1, <2>5, CapacityAssumption, SMT DEF Types
  <2>7. /\ Len(acceptedE') = Base + count + 1
        /\ acceptedE'[Base + count + 1] = ev[p]
        /\ \A i \in 1 .. Base + count : acceptedE'[i] = acceptedE[i]
    <3>1. /\ Len(acceptedE') = Len(acceptedE) + 1
          /\ acceptedE'[Len(acceptedE) + 1] = ev[p]
          /\ \A i \in 1 .. Len(acceptedE) : acceptedE'[i] = acceptedE[i]
      BY <2>1, <2>5, SMT DEF Types
    <3> QED
      BY <2>4, <3>1
  <2>8. ProducerInv'
    BY <1>p, <2>1, <2>2, <2>3, <2>5, <2>6, <2>7 DEF ProducerInv, Types
  <2>9. Len(dispatchedE) <= Base + count
    BY <1>p, <2>2, SMT DEF QueueInv, Base, Types
  <2>10. \A i \in 1 .. count : slots'[i] = acceptedE'[Base + i]
    BY <1>p, <2>2, <2>6, <2>7, SMT DEF QueueInv, Types
  <2>11. \A i \in 1 .. Len(dispatchedE) : dispatchedE[i] = acceptedE'[i]
    BY <1>p, <2>2, <2>7, <2>9, SMT DEF QueueInv, Types
  <2>12. ASSUME NEW i \in 1 .. Len(acceptedE') PROVE acceptedE'[i] # Zero
    <3>1. i \in 1 .. Len(acceptedE) \/ i = Base + count + 1
      BY <2>2, <2>4, <2>7, SMT DEF Types
    <3> QED
      BY <1>p, <2>4, <2>5, <2>7, <3>1 DEF QueueInv
  <2>13. pc'[p] = "load"
    BY <2>1 DEF Types
  <2> QED
    BY <1>p, <2>1, <2>2, <2>8, <2>10, <2>11, <2>12, <2>13 DEF QueueInv
<1>5. ASSUME NEW p \in Producers, Load(p) PROVE ProducerInv' /\ QueueInv'
  <2>1. /\ UNCHANGED <<slots, count, ev, cs, next, dispatchedE, acceptedE>>
        /\ pc[p] = "load" /\ pc' = [pc EXCEPT ![p] = "store"]
        /\ reg' = [reg EXCEPT ![p] = count]
    BY <1>5 DEF Load, external, history
  <2>2. Base' = Base /\ Turned' = Turned
    BY <2>1 DEF Base, Turned
  <2>3. ProducerInv'
    BY <1>p, <2>1, <2>2 DEF ProducerInv, Types
  <2>4. pc'[p] = "store"
    BY <2>1 DEF Types
  <2> QED
    BY <1>p, <2>1, <2>2, <2>3, <2>4 DEF QueueInv, Types
<1>6. ASSUME NEW p \in Producers, Store(p) PROVE ProducerInv' /\ QueueInv'
  <2>1. /\ UNCHANGED <<slots, reg, ev, cs, next, dispatchedE, acceptedE>>
        /\ pc[p] = "store" /\ pc' = [pc EXCEPT ![p] = "request"]
        /\ count' = count + 1
    BY <1>6, <1>p DEF Store, history, ProducerInv
  <2>2. Base' = Base /\ Turned' = Turned /\ Base \in Nat
    BY <1>p, <2>1 DEF Base, Turned, QueueInv
  <2>3. \A q \in Producers : q # p => pc[q] = "idle" /\ pc'[q] = "idle"
    BY <1>p, <2>1 DEF ProducerInv, Types
  <2>4. /\ count < MAX_PEER_EVENT_QUEUED /\ slots[count + 1] = ev[p]
        /\ Len(acceptedE) = Base + count + 1
        /\ acceptedE[Base + count + 1] = ev[p]
    BY <1>p, <2>1 DEF ProducerInv
  <2>5. ProducerInv'
    BY <1>p, <2>1, <2>2, <2>3 DEF ProducerInv, Types
  <2>6. count' <= MAX_PEER_EVENT_QUEUED /\ (Turned' => next' <= count' + 1)
        /\ Len(acceptedE') = Base' + count'
    BY <1>p, <2>1, <2>2, <2>4, CapacityAssumption, SMT DEF QueueInv, Types
  <2>7. \A i \in 1 .. count' : slots[i] = acceptedE[Base + i]
    <3> SUFFICES ASSUME NEW i \in 1 .. count' PROVE slots[i] = acceptedE[Base + i]
      OBVIOUS
    <3>1. CASE i = count + 1
      <4>1. Base + i = Base + count + 1
        BY <3>1, <2>2, SMT DEF Types
      <4> QED
        BY <2>4, <3>1, <4>1
    <3>2. CASE i \in 1 .. count
      BY <1>p, <3>2 DEF QueueInv
    <3> QED
      BY <2>1, <3>1, <3>2, SMT DEF Types
  <2> QED
    BY <1>p, <2>1, <2>2, <2>5, <2>6, <2>7 DEF QueueInv
<1>7. ASSUME NEW p \in Producers, Request(p) PROVE ProducerInv' /\ QueueInv'
  <2>1. /\ UNCHANGED <<slots, count, reg, ev, cs, next, dispatchedE, acceptedE>>
        /\ pc[p] = "request" /\ pc' = [pc EXCEPT ![p] = "idle"]
    BY <1>7 DEF Request, external, history
  <2>2. Base' = Base /\ Turned' = Turned
    BY <2>1 DEF Base, Turned
  <2>3. ProducerInv'
    BY <1>p, <2>1, <2>2 DEF ProducerInv, Types
  <2> QED
    BY <1>p, <2>1, <2>2, <2>3 DEF QueueInv, Types
<1>8. CASE Enter
  BY <1>8, <1>u DEF Enter, history, Turned, Base
<1>9. CASE DispatchInternal
  <2>1. Base' = Base
    BY <1>9, <1>p, SMT DEF DispatchInternal, Base, Turned, QueueInv
  <2>2. 1 <= count + 1
    BY SMT DEF Types
  <2> QED
    BY <1>9, <1>u, <2>1, <2>2 DEF DispatchInternal, history, external
<1>10. CASE DispatchExternal
  <2>1. /\ UNCHANGED <<slots, count, pc, reg, ev, cs, acceptedE>>
        /\ cs = "external" /\ next <= count /\ next' = next + 1
        /\ dispatchedE' = Append(dispatchedE, slots[next])
    BY <1>10 DEF DispatchExternal, external, producers, history
  <2>2. /\ next \in 1 .. count /\ count <= MAX_PEER_EVENT_QUEUED
        /\ slots[next] = acceptedE[Len(dispatchedE) + 1]
    BY <1>0, <2>1, AllKnown
  <2>3. slots[next] \in Nat /\ dispatchedE \in Seq(Nat)
    <3>1. next \in 1 .. MAX_PEER_EVENT_QUEUED
      BY <2>2, CapacityAssumption, SMT DEF Types
    <3> QED
      BY <1>p, <3>1 DEF Types, QueueInv
  <2>4. /\ dispatchedE' \in Seq(Nat)
        /\ Len(dispatchedE') = Len(dispatchedE) + 1
        /\ \A i \in 1 .. Len(dispatchedE) : dispatchedE'[i] = dispatchedE[i]
        /\ dispatchedE'[Len(dispatchedE) + 1] = slots[next]
    BY <2>1, <2>3, SMT
  <2>5. Base' = Base /\ Turned /\ Turned' /\ next' <= count' + 1
    BY <2>1, <2>2, <2>3, <2>4, SMT DEF Base, Turned, Types
  <2>6. ASSUME NEW i \in 1 .. Len(dispatchedE')
        PROVE  dispatchedE'[i] = acceptedE[i]
    <3>1. i \in 1 .. Len(dispatchedE) \/ i = Len(dispatchedE) + 1
      BY <2>3, <2>4, SMT
    <3> QED
      BY <1>p, <2>2, <2>4, <3>1 DEF QueueInv
  <2>7. ProducerInv'
    BY <1>p, <2>1, <2>5 DEF ProducerInv
  <2> QED
    BY <1>p, <2>1, <2>4, <2>5, <2>6, <2>7 DEF QueueInv
<1>11. CASE DispatchUnknown
  BY <1>0, <1>11, AllKnown DEF DispatchUnknown
<1>12. CASE LoopEnds
  BY <1>12, <1>u, <1>p DEF LoopEnds, history, Turned, Base, QueueInv, external
<1>13. CASE Clear
  <2>1. /\ UNCHANGED <<slots, pc, reg, ev, acceptedE, dispatchedE>>
        /\ cs = "clear" /\ ~Turned' /\ count' = 0 /\ ~(next <= count)
        /\ \A p \in Producers : pc[p] \notin {"copy", "load", "store"}
    BY <1>13 DEF Clear, Turned, producers
  <2>2. next = count + 1
    BY <1>p, <2>1, SMT DEF QueueInv, Turned, Types
  <2>3. Base' = Len(dispatchedE) /\ dispatchedE \in Seq(Nat)
    BY <1>p, <2>1 DEF Base, QueueInv
  <2>4. Len(acceptedE) = Len(dispatchedE)
    BY <1>p, <2>1, <2>2, <2>3, SMT DEF QueueInv, Base, Turned, Types
  <2>5. ProducerInv'
    BY <1>p, <2>1 DEF ProducerInv
  <2>6. Base' \in Nat /\ count' <= MAX_PEER_EVENT_QUEUED
        /\ Len(acceptedE') = Base' + count'
        /\ \A i \in 1 .. count' : slots'[i] = acceptedE'[Base' + i]
    BY <2>1, <2>3, <2>4, CapacityAssumption, SMT
  <2> QED
    BY <1>p, <2>1, <2>3, <2>5, <2>6 DEF QueueInv
<1> QED
  BY <1>1, <1>2, <1>3, <1>4, <1>5, <1>6, <1>7, <1>8, <1>9, <1>10, <1>11,
     <1>12, <1>13 DEF Next, Producer, Callback

----------------------------------------------------------------------------
(* InternalInv is inductive.                                               *)

LEMMA InternalInit == Init => InternalInv
<1> SUFFICES ASSUME Init PROVE InternalInv
  OBVIOUS
<1>1. SiblingEventsExactlyOnce
  <2>1. <<>> \o internal = internal
    BY <<>> \in Seq(Nat), TypesInit, SMT DEF Types
  <2> QED
    BY <2>1 DEF Init, SiblingEventsExactlyOnce
<1>2. SiblingMessagesNeverLost /\ ~Turned
  BY DEF Init, SiblingMessagesNeverLost, Turned
<1> QED
  BY <1>1, <1>2, BootingAssumption DEF Init, InternalInv

LEMMA InternalStep ==
  Types /\ ExternalInv /\ InternalInv /\ [Next]_vars => InternalInv'
<1> SUFFICES ASSUME Types, ExternalInv, InternalInv, [Next]_vars PROVE InternalInv'
  OBVIOUS
<1>t. /\ internal \in Seq(Nat) /\ acceptedI \in Seq(Nat)
      /\ dispatchedI \in Seq(Nat) /\ <<0>> \in Seq(Nat)
  BY SMT DEF Types
<1>s. ASSUME NEW x \in Nat
      PROVE  /\ Append(internal, x) = internal \o <<x>>
             /\ ToSet(Append(internal, x)) = ToSet(internal) \cup {x}
             /\ ToSet(Append(acceptedI, x)) = ToSet(acceptedI) \cup {x}
             /\ Append(acceptedI, x) = acceptedI \o <<x>>
             /\ dispatchedI \o (internal \o <<x>>)
                   = (dispatchedI \o internal) \o <<x>>
  <2>1. <<x>> \in Seq(Nat) /\ ToSet(<<x>>) = {x}
    BY DEF ToSet
  <2>2. Append(internal, x) = internal \o <<x>> /\ Append(acceptedI, x) = acceptedI \o <<x>>
    BY <1>t, AppendIsConcat
  <2>3. /\ ToSet(internal \o <<x>>) = ToSet(internal) \cup {x}
        /\ ToSet(acceptedI \o <<x>>) = ToSet(acceptedI) \cup {x}
    <3> DEFINE y == <<x>>
    <3>1. y \in Seq(Nat) /\ ToSet(y) = {x}
      BY <2>1
    <3> HIDE DEF y
    <3>2. /\ ToSet(internal \o y) = ToSet(internal) \cup {x}
          /\ ToSet(acceptedI \o y) = ToSet(acceptedI) \cup {x}
      BY <1>t, <3>1, ToSetConcat
    <3> QED
      BY <3>2 DEF y
  <2>4. dispatchedI \o (internal \o <<x>>) = (dispatchedI \o internal) \o <<x>>
    BY <1>t, <2>1, ConcatAssociative
  <2> QED
    BY <2>2, <2>3, <2>4
<1>u. UNCHANGED <<internal, acceptedI, dispatchedI, boot>>
        /\ (~collided' => ~collided) /\ (Turned' <=> Turned)
        => InternalInv'
  BY DEF InternalInv, SiblingEventsExactlyOnce, SiblingMessagesNeverLost, Turned
<1>1. CASE UNCHANGED vars
  BY <1>1, <1>u DEF vars, Turned
<1>2. CASE PutStart
  <2>1. /\ internal = <<>> /\ acceptedI = <<>> /\ dispatchedI = <<>>
        /\ internal' = <<0>> /\ acceptedI' = <<0>> /\ dispatchedI' = <<>>
        /\ boot' = "request" /\ (~collided' => ~Turned') /\ cs' = cs
        /\ (Turned' <=> Turned)
    <3>1. Append(<<>>, 0) = <<0>>
      OBVIOUS
    <3> QED
      BY <1>2, <3>1 DEF PutStart, InternalInv, Turned, Start
  <2>2. ToSet(<<0>>) = {0} /\ <<>> \o <<0>> = <<0>>
    BY <1>t, ConcatEmptySeq DEF ToSet
  <2> QED
    BY <2>1, <2>2 DEF InternalInv, SiblingEventsExactlyOnce, SiblingMessagesNeverLost, Turned, Start
<1>3. CASE RequestFirst
  BY <1>3 DEF RequestFirst, internals, history, InternalInv, Turned,
              SiblingEventsExactlyOnce, SiblingMessagesNeverLost
<1>4. CASE OnSiblingMessage
  <2>1. made'[1] \in Nat
    BY <1>4, SMT DEF OnSiblingMessage, Types
  <2>2. CASE UNCHANGED internals
    BY <1>4, <2>2, <1>u DEF OnSiblingMessage, internals, history, Turned
  <2>3. CASE internal' = Append(internal, made'[1])
             /\ acceptedI' = Append(acceptedI, made'[1])
    <3>1. /\ internal' = internal \o <<made'[1]>>
          /\ acceptedI' = acceptedI \o <<made'[1]>>
          /\ dispatchedI \o internal' = (dispatchedI \o internal) \o <<made'[1]>>
          /\ ToSet(internal') = ToSet(internal) \cup {made'[1]}
          /\ ToSet(acceptedI') = ToSet(acceptedI) \cup {made'[1]}
      BY <2>1, <2>3, <1>s
    <3>2. UNCHANGED <<cs, dispatchedI, boot, collided>> /\ ~Turned /\ boot # "put"
      BY <1>4 DEF OnSiblingMessage, history, Turned
    <3> QED
      BY <3>1, <3>2 DEF InternalInv, Turned, SiblingEventsExactlyOnce,
                        SiblingMessagesNeverLost
  <2> QED
    BY <1>4, <2>2, <2>3 DEF OnSiblingMessage, internals
<1>5. ASSUME NEW p \in Producers, Begin(p) \/ Producer(p) PROVE InternalInv'
  <2>1. CASE Begin(p)
    <3>1. UNCHANGED <<internal, acceptedI, dispatchedI, boot, cs>>
          /\ (~collided' => ~collided)
      BY <2>1 DEF Begin, internals
    <3> QED
      BY <3>1, <1>u DEF Turned
  <2>2. CASE Producer(p)
    BY <2>2, <1>u DEF Producer, Copy, Load, Store, Request, internals,
                      history, Turned
  <2> QED
    BY <1>5, <2>1, <2>2
<1>6. CASE Enter
  BY <1>6, <1>u DEF Enter, internals, history, Turned
<1>7. CASE DispatchInternal
  <2>1. /\ UNCHANGED <<internal, acceptedI, boot, collided>>
        /\ ~Turned /\ Turned' /\ dispatchedI' = dispatchedI \o internal
    BY <1>7 DEF DispatchInternal, internals, history, Turned
  <2>2. ToSet(dispatchedI') = ToSet(dispatchedI) \cup ToSet(internal)
    BY <2>1, <1>t, ToSetConcat
  <2>3. internal = <<>> /\ dispatchedI = <<>> => dispatchedI' = <<>>
    BY <2>1, <1>t, ConcatEmptySeq
  <2> QED
    BY <2>1, <2>2, <2>3 DEF InternalInv, Turned, SiblingEventsExactlyOnce,
                            SiblingMessagesNeverLost
<1>8. CASE DispatchExternal \/ LoopEnds
  BY <1>8, <1>u DEF DispatchExternal, LoopEnds, internals, history, Turned
<1>9. CASE DispatchUnknown
  <2>1. collided /\ collided'
    BY <1>9, AllKnown DEF DispatchUnknown, history
  <2> QED
    BY <1>9, <2>1 DEF DispatchUnknown, internals, Turned, InternalInv,
                      SiblingEventsExactlyOnce, SiblingMessagesNeverLost
<1>10. CASE Clear
  <2>1. /\ UNCHANGED <<acceptedI, dispatchedI, boot>> /\ internal' = <<>>
        /\ Turned /\ ~Turned' /\ (~collided' => ~collided)
    BY <1>10 DEF Clear, Turned
  <2>2. dispatchedI \o <<>> = dispatchedI
    BY <1>t, ConcatEmptySeq
  <2> QED
    BY <2>1, <2>2, ToSetEmpty DEF InternalInv, Turned,
                   SiblingEventsExactlyOnce, SiblingMessagesNeverLost
<1> QED
  BY <1>1, <1>2, <1>3, <1>4, <1>5, <1>6, <1>7, <1>8, <1>9, <1>10
     DEF Next, Callback

----------------------------------------------------------------------------
\* The slots from m to n and what is known of them make up a piece of s.
LEMMA Concatenated ==
  ASSUME NEW s \in Seq(Nat), NEW d \in Seq(Nat), NEW w \in Seq(Nat),
         Len(s) = Len(d) + Len(w),
         \A i \in 1 .. Len(d) : d[i] = s[i],
         \A i \in 1 .. Len(w) : w[i] = s[Len(d) + i]
  PROVE  d \o w = s
<1>1. d \o w \in Seq(Nat) /\ Len(d \o w) = Len(s)
  BY SMT
<1>2. ASSUME NEW i \in 1 .. Len(s) PROVE (d \o w)[i] = s[i]
  <2>1. CASE i \in 1 .. Len(d)
    BY <2>1, SMT
  <2>2. CASE i \notin 1 .. Len(d)
    <3> DEFINE j == i - Len(d)
    <3>1. j \in 1 .. Len(w) /\ i = Len(d) + j
      BY <2>2, SMT
    <3>2. (d \o w)[i] = w[j]
      BY <2>2, <3>1, SMT
    <3>3. w[j] = s[Len(d) + j]
      BY <3>1
    <3> QED
      BY <3>1, <3>2, <3>3
  <2> QED
    BY <2>1, <2>2
<1> QED
  BY <1>1, <1>2, SeqEqual

LEMMA ExternalSafe == Types /\ ExternalInv => PeerEventsExactlyOnce
<1> SUFFICES ASSUME Types, ExternalInv, ~collided
             PROVE  dispatchedE \o Waiting = acceptedE
  BY DEF PeerEventsExactlyOnce
<1>p. ProducerInv /\ QueueInv
  BY DEF ExternalInv
<1> DEFINE m == IF Turned THEN next ELSE 1
           q == SubSeq(slots, m, count)
           h == IF Copied = {} THEN <<>> ELSE <<ev[CHOOSE p \in Copied : TRUE]>>
<1>1. Waiting = q \o h
  BY DEF Waiting, Turned
<1>2. /\ m \in 1 .. count + 1 /\ count \in Nat
      /\ count <= MAX_PEER_EVENT_QUEUED /\ MAX_PEER_EVENT_QUEUED \in Nat
      /\ dispatchedE \in Seq(Nat) /\ Base \in Nat
      /\ Base = Len(dispatchedE) + 1 - m
  BY <1>p, CapacityAssumption, SMT DEF Types, QueueInv, Base
<1> HIDE DEF m
<1>3. /\ q \in Seq(Nat) /\ Len(q) = count + 1 - m
      /\ \A i \in 1 .. Len(q) : q[i] = slots[m + i - 1]
  <2>1. \A i \in m .. count : slots[i] \in Nat
    BY <1>2, SMT DEF Types
  <2> QED
    BY <1>2, <2>1, SubSeqProperties, SMT
<1> HIDE DEF q
<1>4. ASSUME NEW i \in 1 .. Len(q)
      PROVE  q[i] = acceptedE[Len(dispatchedE) + i]
  <2>1. m + i - 1 \in 1 .. count /\ Base + (m + i - 1) = Len(dispatchedE) + i
    BY <1>2, <1>3, SMT
  <2>2. q[i] = slots[m + i - 1]
    BY <1>3
  <2>3. slots[m + i - 1] = acceptedE[Base + (m + i - 1)]
    BY <1>p, <2>1 DEF QueueInv
  <2> QED
    BY <2>1, <2>2, <2>3
<1>5. CASE Copied = {}
  <2>1. h = <<>> /\ q \o h = q
    BY <1>3, <1>5, ConcatEmptySeq
  <2>2. Len(acceptedE) = Base + count
    BY <1>p, <1>5 DEF QueueInv, Copied
  <2>3. Len(acceptedE) = Len(dispatchedE) + Len(q)
    BY <1>2, <1>3, <2>2, SMT
  <2>4. acceptedE \in Seq(Nat)
    BY DEF Types
  <2>5. \A i \in 1 .. Len(dispatchedE) : dispatchedE[i] = acceptedE[i]
    BY <1>p DEF QueueInv
  <2>6. Waiting = q
    BY <1>1, <2>1
  <2> HIDE DEF h
  <2> QED
    BY <1>2, <1>3, <1>4, <2>6, <2>3, <2>4, <2>5, Concatenated
<1>6. CASE Copied # {}
  <2> DEFINE p == CHOOSE x \in Copied : TRUE
             w == q \o h
  <2>1. p \in Producers /\ pc[p] \in {"load", "store"}
    BY <1>6 DEF Copied
  <2>2. ev[p] \in Nat /\ Len(acceptedE) = Base + count + 1
        /\ acceptedE[Base + count + 1] = ev[p]
    BY <1>p, <2>1 DEF ProducerInv, Types
  <2>3. h = <<ev[p]>>
    BY <1>6
  <2> HIDE DEF p
  <2>4. /\ w \in Seq(Nat) /\ Len(w) = Len(q) + 1
        /\ \A i \in 1 .. Len(q) : w[i] = q[i]
        /\ w[Len(q) + 1] = ev[p]
    BY <1>3, <2>2, <2>3, SMT
  <2> HIDE DEF w
  <2>5. /\ Len(acceptedE) = Len(dispatchedE) + Len(w)
        /\ Base + count + 1 = Len(dispatchedE) + (Len(q) + 1)
    BY <1>2, <1>3, <2>2, <2>4, SMT
  <2>6. ASSUME NEW i \in 1 .. Len(w)
        PROVE  w[i] = acceptedE[Len(dispatchedE) + i]
    <3>1. i \in 1 .. Len(q) \/ i = Len(q) + 1
      BY <1>3, <2>4, SMT
    <3> QED
      BY <1>4, <2>2, <2>4, <2>5, <3>1
  <2>7. acceptedE \in Seq(Nat)
    BY DEF Types
  <2>8. \A i \in 1 .. Len(dispatchedE) : dispatchedE[i] = acceptedE[i]
    BY <1>p DEF QueueInv
  <2>9. Waiting = w
    BY <1>1 DEF w
  <2> QED
    BY <1>2, <2>4, <2>5, <2>6, <2>7, <2>8, <2>9, Concatenated
<1> QED
  BY <1>5, <1>6

----------------------------------------------------------------------------
EventsInv == Types /\ ExternalInv /\ InternalInv

LEMMA EventsInvariant == Spec => []EventsInv
<1>1. Init => EventsInv
  BY TypesInit, ExternalInit, InternalInit DEF EventsInv
<1>2. EventsInv /\ [Next]_vars => EventsInv'
  BY TypesStep, ExternalStep, InternalStep DEF EventsInv
<1> QED
  BY <1>1, <1>2, PTL DEF Spec

\* routing.h:41-42, queue_peer_message and on_critical_section: for any queue
\* length, every peer event that was not refused is dispatched once and in
\* order, as long as no two tasks use the queue at once.
THEOREM PeerEventsTheorem == Spec => []PeerEventsExactlyOnce
<1>1. EventsInv => PeerEventsExactlyOnce
  BY ExternalSafe DEF EventsInv
<1> QED
  BY <1>1, EventsInvariant, PTL

\* routing.h:49-50, on_sibling_message and on_critical_section: every sibling
\* message that was not refused is dispatched once and in order.
THEOREM SiblingEventsTheorem == Spec => []SiblingEventsExactlyOnce
<1>1. EventsInv => SiblingEventsExactlyOnce
  BY DEF EventsInv, InternalInv
<1> QED
  BY <1>1, EventsInvariant, PTL

\* on_sibling_message and on_critical_section: whatever races on the external
\* queue, no accepted sibling message is lost.
THEOREM SiblingMessagesTheorem == Spec => []SiblingMessagesNeverLost
<1>1. EventsInv => SiblingMessagesNeverLost
  BY DEF EventsInv, InternalInv
<1> QED
  BY <1>1, EventsInvariant, PTL
=============================================================================
