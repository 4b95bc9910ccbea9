----------------------------- MODULE TokenRing -----------------------------
(***************************************************************************)
(* The distributed lock of components/routing/sync: one token per          *)
(* component id, issued by the center board (the leader) on request, and   *)
(* passed from board to board by broadcasts on the SPI ring.               *)
(*                                                                         *)
(* The token of one component id is modelled; the ids share no state.      *)
(* Every board runs the handlers of this module in its sibling-message     *)
(* task.  On the center other tasks (app_main, the peer-event and          *)
(* peer-message tasks: Callers) also run request_critical_section, and     *)
(* nothing protects leader.c's two variables, so what the center does is   *)
(* split into the reads and writes of those variables.                     *)
(***************************************************************************)
EXTENDS Naturals

CONSTANTS
  N,            \* N_DEVICES: orientations are 1..N, the center is N
  Present,      \* the orientations that have a board
  Callers,      \* tasks of the center that request, besides the sibling task
  Registered0,  \* boards whose callback is registered from the start
  Copies,       \* how many copies of a broadcast the retries may deliver
  MaxPending,   \* the saturation limit of requested_tokens (255)
  MaxRequests,  \* bound: request broadcasts and self requests in a behavior
  MaxFaults     \* bound: grants that are lost or duplicated in a behavior

Dev == 1 .. N
Leader == N
\* Mutant: the round starts at the second board.
North_Second == 2
North == 1      \* first_device_to_get_token
Sib == "sibling_task"
Tasks == Callers \cup {Sib}
MAX_RETRIES == 5

ASSUME NAssumption == N \in Nat /\ N >= 2
ASSUME PresentAssumption == Present \subseteq Dev /\ Leader \in Present
ASSUME RegisteredAssumption == Registered0 \subseteq Dev
ASSUME CallersAssumption == Sib \notin Callers
ASSUME CopiesAssumption == Copies \subseteq 0 .. MAX_RETRIES
ASSUME BoundsAssumption == /\ MaxPending \in Nat \ {0}
                           /\ MaxRequests \in Nat
                           /\ MaxFaults \in Nat

VARIABLES
  is_token_out,     \* sync_leader_t: a token is somewhere in the ring
  requested_tokens, \* sync_leader_t: requests to serve with later tokens
  pc, reg,          \* the center's tasks: next step, value last read
  registered,       \* boards with critical_sections[cs_id].callback set
  is_inside,        \* sync_cs_callback_t: the callback is running
  grants,           \* TOKEN_GRANTs for a device, in flight or in its queue
  requests,         \* TOKEN_REQUESTs for the center, in flight or queued
  wants,            \* history: whose request came through and is not yet served
  visited,          \* history: devices entered since the last token issue
  sent,             \* history: requests made so far
  dups, losses,     \* history: grants duplicated and lost
  raced,            \* history: a request issued a token beside another one
  overlooked        \* history: a token was retired under a request for it

leader == <<is_token_out, requested_tokens>>
tasks  == <<pc, reg>>
ring   == <<is_inside, grants>>
faults == <<dups, losses>>
vars   == <<is_token_out, requested_tokens, pc, reg, registered, is_inside,
            grants, requests, wants, visited, sent, dups, losses, raced,
            overlooked>>

Init ==
  /\ is_token_out = FALSE
  /\ requested_tokens = 0
  /\ pc = [t \in Tasks |-> "idle"]
  /\ reg = [t \in Tasks |-> 0]
  /\ registered = Registered0
  /\ is_inside = [d \in Dev |-> FALSE]
  /\ grants = [d \in Dev |-> 0]
  /\ requests = 0
  /\ wants = {}
  /\ visited = {}
  /\ sent = 0
  /\ dups = 0
  /\ losses = 0
  /\ raced = FALSE
  /\ overlooked = FALSE

----------------------------------------------------------------------------
(* Broadcasting a grant.  node_broadcast_to_siblings repeats a broadcast   *)
(* that was not acknowledged, so the destination gets it once, several     *)
(* times, or (every try failed: the result is ignored) not at all.         *)

\* g is grants without the token that the sender has just consumed.
SendGrant(g, d) ==
  \E c \in Copies :
    /\ grants' = [g EXCEPT ![d] = IF d \in Present THEN @ + c ELSE @]
    /\ dups' = IF c > 1 THEN dups + 1 ELSE dups
    /\ losses' = IF c = 0 THEN losses + 1 ELSE losses
    /\ dups' + losses' <= MaxFaults

\* (sync->orientation % N_DEVICES) + 1
Successor(d) == (d % N) + 1

\* Mutant: is_token_out is not set.
StartRound_NoFlag ==
  /\ is_token_out' = is_token_out
  /\ visited' = {}
  /\ SendGrant(grants, North)

\* The token of a round that starts goes to first_device_to_get_token.
StartRound ==
  /\ is_token_out' = TRUE
  /\ visited' = {}
  /\ SendGrant(grants, North)

----------------------------------------------------------------------------
(* Requesting the critical section.                                        *)

\* sync_register_critical_section, by rt_create while the board boots
Register(d) ==
  /\ d \in Present \ registered
  /\ registered' = registered \cup {d}
  /\ UNCHANGED <<leader, tasks, ring, requests, wants, visited, sent, faults,
                 raced, overlooked>>

\* A follower broadcasts a TOKEN_REQUEST, from any of its tasks.
FollowerRequest(d) ==
  /\ d \in registered \ {Leader}
  /\ sent < MaxRequests
  /\ sent' = sent + 1
  /\ \E c \in Copies : /\ requests' = requests + c
                       /\ wants' = IF c = 0 THEN wants ELSE wants \cup {d}
  /\ UNCHANGED <<leader, tasks, registered, ring, visited, faults, raced,
                 overlooked>>

\* The sibling task of the center handles one message at a time.
SiblingTaskFree == pc[Sib] = "idle" /\ ~is_inside[Leader]

\* Mutant: requests that find a token out are not counted.
CheckTokenOut_Forget(t) ==
  pc' = [pc EXCEPT ![t] = IF is_token_out THEN "idle" ELSE "issue"]

\* request_critical_section of the leader, first step: read is_token_out.
CheckTokenOut(t) ==
  pc' = [pc EXCEPT ![t] = IF is_token_out THEN "load" ELSE "issue"]

\* on_token_request: the center's sibling task got a TOKEN_REQUEST.
OnTokenRequest ==
  /\ SiblingTaskFree
  /\ requests > 0
  /\ requests' = requests - 1
  /\ CheckTokenOut(Sib)
  /\ UNCHANGED <<leader, reg, registered, ring, wants, visited, sent, faults,
                 raced, overlooked>>

\* A task of the center requests for the center itself: the sibling task
\* after it queued a routing message, the others at any time.
LeaderRequest(t) ==
  /\ Leader \in registered
  /\ IF t = Sib THEN SiblingTaskFree ELSE pc[t] = "idle"
  /\ sent < MaxRequests
  /\ sent' = sent + 1
  /\ wants' = wants \cup {Leader}
  /\ CheckTokenOut(t)
  /\ UNCHANGED <<leader, reg, registered, ring, requests, visited, faults,
                 raced, overlooked>>

\* A token is out: read the number of pending requests, give up at the limit.
LoadPending(t) ==
  /\ pc[t] = "load"
  /\ reg' = [reg EXCEPT ![t] = requested_tokens]
  /\ pc' = [pc EXCEPT ![t] =
              IF requested_tokens < MaxPending THEN "store" ELSE "idle"]
  /\ UNCHANGED <<leader, registered, ring, requests, wants, visited, sent,
                 faults, raced, overlooked>>

\* requested_tokens++ writes back what was read.
StorePending(t) ==
  /\ pc[t] = "store"
  /\ requested_tokens' = reg[t] + 1
  /\ pc' = [pc EXCEPT ![t] = "idle"]
  /\ overlooked' = (overlooked \/ pc[Sib] = "retire")
  /\ UNCHANGED <<is_token_out, reg, registered, ring, requests, wants,
                 visited, sent, faults, raced>>

\* No token was out when the task looked: issue_new_token.
IssueNewToken(t) ==
  /\ pc[t] = "issue"
  /\ pc' = [pc EXCEPT ![t] = "idle"]
  /\ StartRound
  /\ raced' = (raced \/ is_token_out)
  /\ UNCHANGED <<requested_tokens, reg, registered, is_inside, requests,
                 wants, sent, overlooked>>

----------------------------------------------------------------------------
(* on_token_grant: the callback, then the token goes on.                   *)

\* A grant for this device is at the head of its queue: the callback starts.
Enter(d) ==
  /\ d \in registered
  /\ grants[d] > 0
  /\ ~is_inside[d]
  /\ d = Leader => pc[Sib] = "idle"
  /\ is_inside' = [is_inside EXCEPT ![d] = TRUE]
  /\ grants' = [grants EXCEPT ![d] = @ - 1]
  /\ wants' = wants \ {d}
  /\ visited' = visited \cup {d}
  /\ UNCHANGED <<leader, tasks, registered, requests, sent, faults, raced,
                 overlooked>>

\* Follower: the callback returned, grant the token to the next orientation.
PassToken(d) ==
  /\ d # Leader
  /\ is_inside[d]
  /\ is_inside' = [is_inside EXCEPT ![d] = FALSE]
  /\ SendGrant(grants, Successor(d))
  /\ UNCHANGED <<leader, tasks, registered, requests, wants, visited, sent,
                 raced, overlooked>>

\* Mutant: the last pending request is forgotten.
ReadPending_OffByOne ==
  /\ reg' = [reg EXCEPT ![Sib] = requested_tokens]
  /\ pc' = [pc EXCEPT ![Sib] =
              IF requested_tokens > 1 THEN "reissue" ELSE "retire"]

\* Leader: the token is back, read the number of pending requests.
ReadPending ==
  /\ reg' = [reg EXCEPT ![Sib] = requested_tokens]
  /\ pc' = [pc EXCEPT ![Sib] =
              IF requested_tokens > 0 THEN "reissue" ELSE "retire"]

TokenHome ==
  /\ is_inside[Leader]
  /\ is_inside' = [is_inside EXCEPT ![Leader] = FALSE]
  /\ ReadPending
  /\ UNCHANGED <<leader, registered, grants, requests, wants, visited, sent,
                 faults, raced, overlooked>>

\* Mutant: the pending request is not taken off.
Reissue_NoDecrement ==
  /\ pc[Sib] = "reissue"
  /\ pc' = [pc EXCEPT ![Sib] = "idle"]
  /\ StartRound
  /\ UNCHANGED <<requested_tokens, reg, registered, is_inside, requests,
                 wants, sent, raced, overlooked>>

\* Requests are pending: requested_tokens-- and issue_new_token.
Reissue ==
  /\ pc[Sib] = "reissue"
  /\ pc' = [pc EXCEPT ![Sib] = "idle"]
  /\ requested_tokens' = reg[Sib] - 1
  /\ StartRound
  /\ UNCHANGED <<reg, registered, is_inside, requests, wants, sent, raced,
                 overlooked>>

\* A task has seen the token out and is going to count a request.
CountsOn(t) == pc[t] \in {"load", "store"}

\* Nothing was pending: is_token_out = false.
RetireToken ==
  /\ pc[Sib] = "retire"
  /\ pc' = [pc EXCEPT ![Sib] = "idle"]
  /\ is_token_out' = FALSE
  /\ overlooked' = (overlooked \/ \E t \in Callers : CountsOn(t))
  /\ UNCHANGED <<requested_tokens, reg, registered, ring, requests, wants,
                 visited, sent, faults, raced>>

\* Mutant: a board without a callback keeps the token.
SkipFollower_Drop(d) ==
  /\ d \in Present \ (registered \cup {Leader})
  /\ grants[d] > 0
  /\ grants' = [grants EXCEPT ![d] = @ - 1]
  /\ visited' = visited \cup {d}
  /\ UNCHANGED <<leader, tasks, registered, is_inside, requests, wants, sent,
                 faults, raced, overlooked>>

\* A board whose callback is not registered yet only passes the token on.
SkipFollower(d) ==
  /\ d \in Present \ (registered \cup {Leader})
  /\ grants[d] > 0
  /\ SendGrant([grants EXCEPT ![d] = @ - 1], Successor(d))
  /\ visited' = visited \cup {d}
  /\ UNCHANGED <<leader, tasks, registered, is_inside, requests, wants, sent,
                 raced, overlooked>>

SkipLeader ==
  /\ Leader \notin registered
  /\ grants[Leader] > 0
  /\ pc[Sib] = "idle"
  /\ grants' = [grants EXCEPT ![Leader] = @ - 1]
  /\ visited' = visited \cup {Leader}
  /\ ReadPending
  /\ UNCHANGED <<leader, registered, is_inside, requests, wants, sent,
                 faults, raced, overlooked>>

----------------------------------------------------------------------------
LeaderTask(t) == LoadPending(t) \/ StorePending(t) \/ IssueNewToken(t)

Follower(d) == PassToken(d) \/ SkipFollower(d)

LeaderSibling == OnTokenRequest \/ TokenHome \/ Reissue \/ RetireToken
                   \/ SkipLeader

Next ==
  \/ \E d \in Dev : Register(d) \/ FollowerRequest(d)
  \/ \E d \in Dev : Enter(d) \/ Follower(d)
  \/ \E t \in Tasks : LeaderRequest(t) \/ LeaderTask(t)
  \/ LeaderSibling

Spec == Init /\ [][Next]_vars

(* Every task of every board keeps running; nobody has to request.  WF on  *)
(* the message handlers is enough: a task's message stays in its queue.    *)
TaskFairness ==
  /\ \A d \in Dev : WF_vars(Follower(d))
  /\ \A t \in Tasks : WF_vars(LeaderTask(t))
  /\ WF_vars(LeaderSibling)

FairSpec == Spec /\ TaskFairness /\ \A d \in Dev : WF_vars(Enter(d))

----------------------------------------------------------------------------
(* Properties.                                                             *)

TypeOK ==
  /\ is_token_out \in BOOLEAN
  /\ requested_tokens \in 0 .. MaxPending
  /\ pc \in [Tasks -> {"idle", "load", "store", "issue", "reissue", "retire"}]
  /\ reg \in [Tasks -> 0 .. MaxPending]
  /\ registered \subseteq Dev
  /\ is_inside \in [Dev -> BOOLEAN]
  /\ grants \in [Dev -> Nat]
  /\ requests \in Nat
  /\ wants \subseteq Dev
  /\ visited \subseteq Dev
  /\ sent \in Nat
  /\ dups \in Nat /\ losses \in Nat
  /\ raced \in BOOLEAN /\ overlooked \in BOOLEAN

\* sync.h:24: the device that is called back is the only one executing the
\* callback code at that moment.
Exclusive == \A d, e \in Dev : is_inside[d] /\ is_inside[e] => d = e

\* What makes the claim of sync.h true: no retry has delivered a grant twice
\* and no two tasks of the center have issued a token each.
Clean == dups = 0 /\ ~raced

\* sync.h:24 as the protocol keeps it: mutual exclusion over the boards, for
\* any losses, interleavings of the center's tasks and absent boards.
MutualExclusion == Clean => Exclusive

\* The center is only given the token back by a round through every board:
\* the callback of each one that is registered ran since the token was issued
\* (what makes dropping requests over the limit harmless).
FullRound == Clean /\ is_inside[Leader] => visited = Dev

TokenSomewhere ==
  \/ \E d \in Dev : grants[d] > 0 \/ is_inside[d]
  \/ pc[Sib] \in {"reissue", "retire"}

\* leader.c never believes a token is out when there is none, whatever the
\* duplicates and races, as long as no broadcast failed for good: the section
\* cannot be blocked forever.
NeverBlocked == losses = 0 /\ Present = Dev /\ is_token_out => TokenSomewhere

\* Requests that wait for a later token have a token to wait for, whatever
\* tasks of the center request, lost and repeated grants and late boards: only
\* a request that leader.c counts while it retires the token (nothing makes the
\* two wait for each other) can be left without one.
NoLostWakeup == requested_tokens > 0 /\ ~overlooked => is_token_out

\* sync.h:20-23: whoever requests the section is called back, if the request
\* came through, no grant was lost for good (leader.c:24 ignores that) and no
\* token was retired under a request.
RequestsServed ==
  \A d \in Dev : []<>(d \notin wants \/ losses > 0 \/ overlooked)

\* Rounds end: with a bounded number of requests all tokens, repeated ones too,
\* die at the center or are lost, and leader.c returns to its initial state but
\* for a token it still waits for (losses) and a request it left (overlooked).
Quiesces ==
  <>[](/\ ~TokenSomewhere
       /\ losses = 0 => ~is_token_out
       /\ losses = 0 /\ ~overlooked => requested_tokens = 0)

\* The protocol implements the lock sync.h describes, as long as no retry and
\* no race has put a second token into the ring.
Lock == INSTANCE DistributedLock
          WITH inside <- {d \in Dev : is_inside[d]}
ImplementsLock == Lock!Init /\ [][Clean => Lock!Next]_(Lock!vars)
=============================================================================
