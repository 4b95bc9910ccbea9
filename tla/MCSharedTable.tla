--------------------------- MODULE MCSharedTable ---------------------------
(* Instances of SharedTable, and with it of TokenRing, for TLC.             *)
EXTENDS SharedTable

OneCaller == {"app_main"}
AllBoards == Dev
\* The second board registers, and watches the table, while tokens circulate.
LateBoard == Dev \ {2}
LossAndDup == {0, 1, 2}
=============================================================================
