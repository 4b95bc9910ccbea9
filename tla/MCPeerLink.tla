----------------------------- MODULE MCPeerLink -----------------------------
(* Instances of PeerLink for TLC.  Behaviours are followed until a task    *)
(* outlives its link: from there on the properties promise no more than    *)
(* what the station's handlers, which no task influences, do anyway.       *)
EXTENDS PeerLink

UntilOverlap == ~overlap
=============================================================================
