---------------------------- MODULE SharedTable ----------------------------
(***************************************************************************)
(* The routing table that the boards of a node share                       *)
(* (components/routing/shared_state, under the lock of TokenRing).  A      *)
(* board changes its copy while it is inside the critical section and      *)
(* broadcasts the whole copy; the others overwrite theirs with it.  A      *)
(* table is the set of the changes it contains: each addition or removal   *)
(* of routes is one change.                                                *)
(*                                                                         *)
(* Every copy of a message reaches a board before the copies of the later  *)
(* ones (RingBroadcast), so that a repeated refresh changes nothing and a  *)
(* grant that follows a refresh is handled after it.                       *)
(***************************************************************************)
EXTENDS TokenRing, Sequences

CONSTANTS
  MaxChanges,   \* bound: changes of the table in a behavior
  MaxMissed     \* bound: refreshes that some board misses in a behavior

ASSUME SharedBoundsAssumption == MaxChanges \in Nat /\ MaxMissed \in Nat

VARIABLES
  copy,         \* routing_table of each board
  inbox,        \* refreshes in flight to, or queued at, each board
  changes,      \* history: changes made so far
  missed,       \* history: boards that did not get the last refresh
  failed        \* history: refreshes that some board did not get

shared == <<copy, inbox, changes, missed, failed>>
allvars == <<vars, shared>>

SharedInit ==
  /\ Init
  /\ copy = [d \in Dev |-> {}]
  /\ inbox = [d \in Dev |-> <<>>]
  /\ changes = 0 /\ missed = {} /\ failed = 0

----------------------------------------------------------------------------
\* Board e is `Away(d, e)` boards after d in the ring.
Away(d, e) == (e + N - d) % N

\* ss_refresh, broadcast_data: the table goes round the ring.  When every
\* retry fails it has reached the boards before some link, and the result is
\* ignored.  on_sibling_message drops it on a board that watches nothing yet.
Refresh(d, table) ==
  \E reach \in 0 .. N - 1 :
    LET got == {e \in registered : Away(d, e) \in 1 .. reach}
    IN  /\ inbox' = [e \in Dev |-> IF e \in got THEN Append(inbox[e], table)
                                                ELSE inbox[e]]
        /\ missed' = Present \ (got \cup {d})
        /\ failed' = IF missed' = {} THEN failed ELSE failed + 1
        /\ failed' <= MaxMissed

\* Mutant: the table is sent before it is changed.
ChangeRoutes_SendsOld(d) ==
  /\ copy' = [copy EXCEPT ![d] = @ \cup {changes + 1}]
  /\ Refresh(d, copy[d])

\* add_global_route and remove_routes_by_output: change, then refresh.
ChangeRoutes(d) ==
  /\ copy' = [copy EXCEPT ![d] = @ \cup {changes + 1}]
  /\ Refresh(d, copy'[d])

\* Once there is a second token nothing is promised about the copies, and the
\* model no longer follows them.
FollowedWhileClean ==
  IF Clean' THEN UNCHANGED shared
  ELSE /\ copy' = [d \in Dev |-> {}]
       /\ inbox' = [d \in Dev |-> <<>>]
       /\ changes' = 0 /\ missed' = {} /\ failed' = 0

\* The callback of a board inside the section changes the table; it may do so
\* several times before it returns.
InSection(d) ==
  /\ is_inside[d] /\ Clean
  /\ changes < MaxChanges
  /\ changes' = changes + 1
  /\ ChangeRoutes(d)
  /\ UNCHANGED vars

\* The sibling task of a board runs the callback of the section as well.
SiblingTaskIdle(e) == ~is_inside[e] /\ (e = Leader => pc[Sib] = "idle")

\* Mutant: the length check rejects every refresh.
Overwrite_WrongLength(e) == copy' = copy

\* on_sibling_message: memcpy over the board's own table.
Overwrite(e) == copy' = [copy EXCEPT ![e] = Head(inbox[e])]

OnRefresh(e) ==
  /\ inbox[e] # <<>>
  /\ SiblingTaskIdle(e)
  /\ Overwrite(e)
  /\ inbox' = [inbox EXCEPT ![e] = Tail(@)]
  /\ UNCHANGED <<vars, changes, missed, failed>>

\* A grant is handled after the refreshes sent before it.
EnterCaughtUp(d) ==
  /\ inbox[d] = <<>>
  /\ Enter(d)
  /\ UNCHANGED shared

RingStep ==
  \/ \E d \in Dev : Register(d) \/ FollowerRequest(d) \/ Follower(d)
  \/ \E t \in Tasks : LeaderRequest(t) \/ LeaderTask(t)
  \/ LeaderSibling

SharedNext ==
  \/ \E d \in Dev : EnterCaughtUp(d) \/ InSection(d) \/ OnRefresh(d)
  \/ RingStep /\ FollowedWhileClean

SharedSpec ==
  /\ SharedInit /\ [][SharedNext]_allvars
  /\ TaskFairness
  /\ \A d \in Dev : WF_allvars(EnterCaughtUp(d)) /\ WF_allvars(OnRefresh(d))

----------------------------------------------------------------------------
\* The lock protects the shared table: a board inside the section has every
\* change made so far in its copy, so that its own refresh erases none of
\* them.  Only a refresh that failed for good (its result is ignored at
\* shared_state.c:60), a board that was not yet there to get one, or a second
\* token can break this.
NoRouteLost ==
  (Clean /\ failed = 0)
    => \A d \in Dev : is_inside[d] => copy[d] = 1 .. changes

\* The copies end up equal on the boards that got the last refresh, whatever
\* was lost before it: the next refresh repairs what an earlier one left.
CopiesConverge ==
  <>[](Clean => \A d, e \in registered \ missed : copy[d] = copy[e])
=============================================================================
