---------------------------- MODULE MCDiscovery ----------------------------
(* Instance of Discovery for TLC: three boards, of which the second hears  *)
(* the strongest network; the third one resets its list when the first has *)
(* just shared its measurement.  Behaviours are followed until an          *)
(* announcement comes too late.                                            *)
EXTENDS Discovery

Around == [b \in Board |-> CASE b = 0 -> [n \in Node |-> IF n = "n1" THEN 3 ELSE 0]
                             [] b = 1 -> [n \in Node |-> IF n = "n1" THEN 2 ELSE 4]
                             [] b = 2 -> [n \in Node |-> IF n = "n2" THEN 3 ELSE 0]]
Channels == [n \in Node |-> IF n = "n1" THEN 4 ELSE 2]

UntilDisturbed == ~disturbed

\* Bound: a second mishap only where the boards know what all have measured.
SecondMishap == misled => mishaps < 2
=============================================================================
