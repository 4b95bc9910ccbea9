---------------------------- MODULE MCTokenRing ----------------------------
(* Instances of TokenRing for TLC.                                         *)
EXTENDS TokenRing

OneCaller == {"peer_messages"}
AllBoards == Dev
\* The center and the second follower register while tokens already circulate.
LateBoards == Dev \ {2, N}
LossAndDup == {0, 1, 2}
=============================================================================
