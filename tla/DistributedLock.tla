-------------------------- MODULE DistributedLock --------------------------
(***************************************************************************)
(* What sync.h promises its users: a critical section per component id.   *)
(* A device that requests the section is called back, and while the        *)
(* callback runs no other device runs it.  A device may also be called     *)
(* back without having asked (sync.h, first NOTE).                         *)
(***************************************************************************)
CONSTANT Dev        \* the devices of the node

VARIABLES inside,   \* the devices whose callback is running
          wants     \* the devices that asked and have not been called back

vars == <<inside, wants>>

Init == inside = {} /\ wants = {}

\* sync_request_critical_section
Request(d) ==
  /\ wants' = wants \cup {d}
  /\ UNCHANGED inside

\* The callback starts: it serves every request the device made before.
Enter(d) ==
  /\ inside = {}
  /\ inside' = {d}
  /\ wants' = wants \ {d}

\* The callback returns.
Leave(d) ==
  /\ inside = {d}
  /\ inside' = {}
  /\ UNCHANGED wants

Next == \E d \in Dev : Request(d) \/ Enter(d) \/ Leave(d)

SafeSpec == Init /\ [][Next]_vars
=============================================================================
