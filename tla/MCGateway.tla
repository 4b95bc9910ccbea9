----------------------------- MODULE MCGateway -----------------------------
(* Instances of Gateway for TLC: two boards with peers, in a node that may *)
(* be the root's or not.  Boards and networks are only ever compared.      *)
EXTENDS Gateway, TLC

AnyNode == {TRUE, FALSE}
Symmetry == Permutations(Forwarders) \cup Permutations(Networks)

\* Bound: a board that misses or repeats a broadcast counts as a peer's event.
Bound == events + faults <= MaxPeerEvents
=============================================================================
