-------------------------- MODULE SiblingBroadcast --------------------------
(***************************************************************************)
(* What the boards of a node may rely on when they broadcast to their      *)
(* siblings (siblings.h): copies of a message go from board to board in    *)
(* the direction of the ring, one for each try, and may be lost on the     *)
(* way; they never overtake what their sender broadcast before; and a      *)
(* broadcast that succeeds was got by everybody, exactly once, unless its  *)
(* sender has ever waited in vain.                                         *)
(*                                                                         *)
(* This is what TokenRing assumes of a grant (up to MAX_RETRIES copies)    *)
(* and SharedTable of a refresh (it reaches the boards before some link,   *)
(* after everything that was sent earlier).                                *)
(***************************************************************************)
EXTENDS Naturals, Sequences, FiniteSets

CONSTANTS N,            \* boards in the ring
          MAX_RETRIES   \* tries of a broadcast

Board == 1 .. N

VARIABLES sent,      \* how many messages each board has begun to broadcast
          tries,     \* how often it has tried the last of them
          got,       \* the messages <<source, number>> each board got, in order
          reported,  \* the messages whose broadcast has succeeded
          late       \* the boards that have waited in vain

vars == <<sent, tries, got, reported, late>>

Init ==
  /\ sent = [b \in Board |-> 0]
  /\ tries = [b \in Board |-> 0]
  /\ got = [b \in Board |-> <<>>]
  /\ reported = {}
  /\ late = {}

Last(s) == <<s, sent[s]>>
Copies(b, m) == Cardinality({i \in 1 .. Len(got[b]) : got[b][i] = m})
\* Copies of a message of board s that have left it.
Made(s, m) == IF m = Last(s) THEN tries[s] ELSE MAX_RETRIES

\* A board begins a broadcast.
Broadcast(s) ==
  /\ sent' = [sent EXCEPT ![s] = @ + 1]
  /\ tries' = [tries EXCEPT ![s] = 1]
  /\ UNCHANGED <<got, reported, late>>

\* It tries again what has not succeeded.
Retry(s) ==
  /\ tries[s] < MAX_RETRIES
  /\ Last(s) \notin reported
  /\ tries' = [tries EXCEPT ![s] = @ + 1]
  /\ UNCHANGED <<sent, got, reported, late>>

\* A copy comes to board b, from the board before it, and is the newest
\* message of its source there.
Arrive(b, s, m) ==
  /\ s # b
  /\ \E a \in Board :
       /\ b = (a % N) + 1
       /\ Copies(b, m) < IF a = s THEN Made(s, m) ELSE Copies(a, m)
  /\ \A i \in 1 .. Len(got[b]) : got[b][i][1] = s => got[b][i][2] <= m[2]
  /\ got' = [got EXCEPT ![b] = Append(@, m)]
  /\ UNCHANGED <<sent, tries, reported, late>>

\* The sender is told that its broadcast was successful.
Succeed(s) ==
  /\ s \notin late => \A b \in Board \ {s} : Copies(b, Last(s)) = 1
  /\ reported' = reported \cup {Last(s)}
  /\ UNCHANGED <<sent, tries, got, late>>

\* It waits in vain.
WaitInVain(s) ==
  /\ late' = late \cup {s}
  /\ UNCHANGED <<sent, tries, got, reported>>

Next ==
  \E s \in Board :
    \/ Broadcast(s) \/ Retry(s) \/ Succeed(s) \/ WaitInVain(s)
    \/ \E b \in Board, n \in 1 .. sent[s] : Arrive(b, s, <<s, n>>)

Spec == Init /\ [][Next]_vars
=============================================================================
