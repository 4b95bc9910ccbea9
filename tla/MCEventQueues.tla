--------------------------- MODULE MCEventQueues ---------------------------
(* Instances of EventQueues for TLC.                                        *)
EXTENDS EventQueues

TwoProducers == {"peer_messages", "peer_events"}

\* Bound of the instance: two sibling messages, and a third peer event only
\* beside at most one of them and while the producers have not collided.
Bound ==
  /\ made[1] <= 2
  /\ made[2] = 3 => made[1] <= 1 /\ ~collided
=============================================================================
