----------------------------- MODULE LockProofs -----------------------------
(***************************************************************************)
(* The distributed lock, for every number of boards from 2 on and any of   *)
(* them present, and after it the table that it protects: a step of        *)
(* SharedTable is a step of TokenRing or leaves its variables alone, so    *)
(* that what holds of the ring holds there too.                            *)
(***************************************************************************)
EXTENDS SharedTable, SequenceTheorems, TLAPS

\* What the center's tasks have read, kept inductive.
TasksOK ==
  /\ \A t \in Tasks : pc[t] = "store" => reg[t] < MaxPending
  /\ pc[Sib] = "reissue" => reg[Sib] > 0

TypeInv == TypeOK /\ TasksOK

LEMMA DevFacts ==
  /\ Leader \in Dev /\ North \in Dev /\ North # Leader
  /\ Sib \in Tasks
  /\ \A d \in Dev : Successor(d) \in Dev /\ d # Successor(d)
  /\ \A d \in Dev : d # Leader => Successor(d) = d + 1
<1>1. Leader \in Dev /\ North \in Dev /\ North # Leader /\ Sib \in Tasks
  BY NAssumption DEF Dev, Leader, North, Tasks
<1>2. ASSUME NEW d \in Dev PROVE Successor(d) \in Dev /\ d # Successor(d)
                                /\ (d # Leader => Successor(d) = d + 1)
  <2>1. CASE d = N
    BY <2>1, NAssumption, SMT DEF Dev, Leader, Successor
  <2>2. CASE d # N
    BY <2>2, NAssumption, SMT DEF Dev, Leader, Successor
  <2> QED
    BY <2>1, <2>2
<1> QED
  BY <1>1, <1>2

LEMMA SendGrantType ==
  ASSUME NEW g \in [Dev -> Nat], NEW d \in Dev, TypeOK, SendGrant(g, d)
  PROVE  /\ grants' \in [Dev -> Nat]
         /\ dups' \in Nat /\ losses' \in Nat
         /\ dups' >= dups
BY CopiesAssumption, SMT DEF SendGrant, TypeOK, MAX_RETRIES

\* Type correctness of the token ring.
THEOREM TypeCorrect == Spec => []TypeInv
<1>1. Init => TypeInv
  <2> SUFFICES ASSUME Init PROVE TypeInv
    OBVIOUS
  <2>1. TypeOK
    <3>1. 0 \in 0 .. MaxPending
      BY BoundsAssumption, SMT
    <3>2. pc \in [Tasks -> {"idle", "load", "store", "issue", "reissue",
                             "retire"}]
      BY DEF Init
    <3>3. /\ reg \in [Tasks -> 0 .. MaxPending]
          /\ is_inside \in [Dev -> BOOLEAN]
          /\ grants \in [Dev -> Nat]
      BY <3>1 DEF Init
    <3>4. /\ is_token_out \in BOOLEAN /\ raced \in BOOLEAN
          /\ overlooked \in BOOLEAN
      BY DEF Init
    <3>5. /\ requested_tokens \in 0 .. MaxPending
          /\ requests \in Nat /\ sent \in Nat /\ dups \in Nat /\ losses \in Nat
      BY <3>1, SMT DEF Init
    <3>6. registered \subseteq Dev /\ wants \subseteq Dev /\ visited \subseteq Dev
      BY RegisteredAssumption DEF Init
    <3> QED
      BY <3>2, <3>3, <3>4, <3>5, <3>6 DEF TypeOK
  <2>2. TasksOK
    BY BoundsAssumption, DevFacts, SMT DEF Init, TasksOK
  <2> QED
    BY <2>1, <2>2 DEF TypeInv
<1>2. TypeInv /\ [Next]_vars => TypeInv'
  <2> SUFFICES ASSUME TypeInv, [Next]_vars PROVE TypeInv'
    OBVIOUS
  <2> USE BoundsAssumption, DevFacts, PresentAssumption DEF TypeInv, TypeOK, TasksOK
  <2>1. ASSUME NEW d \in Dev, Register(d) PROVE TypeInv'
    BY <2>1, SMT DEF Register, leader, tasks, ring, faults
  <2>2. ASSUME NEW d \in Dev, FollowerRequest(d) PROVE TypeInv'
    BY <2>2, CopiesAssumption, SMT
       DEF FollowerRequest, leader, tasks, ring, faults, MAX_RETRIES
  <2>3. ASSUME NEW d \in Dev, Enter(d) PROVE TypeInv'
    BY <2>3, SMT DEF Enter, leader, tasks, faults
  <2>4. ASSUME NEW d \in Dev, PassToken(d) PROVE TypeInv'
    BY <2>4, SendGrantType, SMT DEF PassToken, leader, tasks
  <2>5. ASSUME NEW d \in Dev, SkipFollower(d) PROVE TypeInv'
    <3>1. [grants EXCEPT ![d] = @ - 1] \in [Dev -> Nat]
      BY <2>5, SMT DEF SkipFollower
    <3>2. grants' \in [Dev -> Nat] /\ dups' \in Nat /\ losses' \in Nat
      BY <2>5, <3>1, SendGrantType DEF SkipFollower
    <3> QED
      BY <2>5, <3>2 DEF SkipFollower, leader, tasks
  <2>6. ASSUME NEW t \in Tasks, LeaderRequest(t) PROVE TypeInv'
    BY <2>6, SMT DEF LeaderRequest, CheckTokenOut, leader, ring, faults
  <2>7. ASSUME NEW t \in Tasks, LoadPending(t) PROVE TypeInv'
    BY <2>7, SMT DEF LoadPending, leader, ring, faults
  <2>8. ASSUME NEW t \in Tasks, StorePending(t) PROVE TypeInv'
    BY <2>8, SMT DEF StorePending, ring, faults
  <2>9. ASSUME NEW t \in Tasks, IssueNewToken(t) PROVE TypeInv'
    <3>1. grants' \in [Dev -> Nat] /\ dups' \in Nat /\ losses' \in Nat
      BY <2>9, SendGrantType DEF IssueNewToken, StartRound
    <3> QED
      BY <2>9, <3>1 DEF IssueNewToken, StartRound
  <2>10. ASSUME OnTokenRequest PROVE TypeInv'
    BY <2>10, SMT DEF OnTokenRequest, CheckTokenOut, leader, ring, faults
  <2>11. ASSUME TokenHome PROVE TypeInv'
    BY <2>11, SMT DEF TokenHome, ReadPending, leader, faults
  <2>12. ASSUME Reissue PROVE TypeInv'
    <3>1. grants' \in [Dev -> Nat] /\ dups' \in Nat /\ losses' \in Nat
      BY <2>12, SendGrantType DEF Reissue, StartRound
    <3> QED
      BY <2>12, <3>1, SMT DEF Reissue, StartRound
  <2>13. ASSUME RetireToken PROVE TypeInv'
    BY <2>13 DEF RetireToken, ring, faults
  <2>14. ASSUME SkipLeader PROVE TypeInv'
    BY <2>14, SMT DEF SkipLeader, ReadPending, leader, faults
  <2>15. CASE UNCHANGED vars
    BY <2>15 DEF vars
  <2> QED
    BY <2>1, <2>2, <2>3, <2>4, <2>5, <2>6, <2>7, <2>8, <2>9, <2>10, <2>11,
       <2>12, <2>13, <2>14, <2>15
       DEF Next, Follower, LeaderTask, LeaderSibling
<1> QED
  BY <1>1, <1>2, PTL DEF Spec

----------------------------------------------------------------------------
(* Mutual exclusion.  While no grant was duplicated and no request issued  *)
(* a token beside another one there is at most one token, wherever it is:  *)
(* in flight, held by a board, or back at the center.                      *)

AtHome == pc[Sib] \in {"reissue", "retire"}

\* The only token is a grant for d; the boards before d were visited.
Flying(d) ==
  /\ grants[d] = 1
  /\ \A e \in Dev : ~is_inside[e] /\ (grants[e] > 0 => e = d)
  /\ ~AtHome
  /\ visited = 1 .. (d - 1)

\* The only token is held by d; d and the boards before it were visited.
Held(d) ==
  /\ \A e \in Dev : grants[e] = 0 /\ (is_inside[e] => e = d)
  /\ ~AtHome
  /\ visited = 1 .. d

OneToken ==
  /\ \A d \in Dev : grants[d] > 0 => Flying(d)
  /\ \A d \in Dev : is_inside[d] => Held(d)
  /\ TokenSomewhere => is_token_out

RingInv == Clean => OneToken

LEMMA VisitedNext ==
  ASSUME NEW d \in Dev
  PROVE  /\ (1 .. (d - 1)) \cup {d} = 1 .. d
         /\ d # Leader => 1 .. d = 1 .. (Successor(d) - 1)
<1>1. d \in Nat /\ d >= 1
  BY NAssumption, SMT DEF Dev
<1>2. ASSUME NEW i PROVE i \in (1 .. (d - 1)) \cup {d} <=> i \in 1 .. d
  BY <1>1, SMT
<1>3. d # Leader => Successor(d) - 1 = d
  BY <1>1, DevFacts, SMT
<1> QED
  BY <1>2, <1>3

LEMMA SendGrantOnce ==
  ASSUME NEW g \in [Dev -> Nat], NEW d \in Dev, TypeOK, SendGrant(g, d),
         \A e \in Dev : g[e] = 0, dups' = 0
  PROVE  \A e \in Dev : grants'[e] > 0 => e = d /\ grants'[e] = 1
<1>1. PICK c \in Copies : /\ grants' = [g EXCEPT ![d] =
                                          IF d \in Present THEN @ + c ELSE @]
                          /\ dups' = IF c > 1 THEN dups + 1 ELSE dups
  BY DEF SendGrant
<1>2. c \in 0 .. MAX_RETRIES
  BY CopiesAssumption
<1>3. c = 0 \/ c = 1
  BY <1>1, <1>2, SMT DEF TypeOK, MAX_RETRIES
<1> QED
  BY <1>1, <1>3, SMT

\* The token starts a round when the center had it, or there was none.
LEMMA StartRoundInv ==
  ASSUME TypeInv, StartRound, pc'[Sib] \notin {"reissue", "retire"},
         is_inside' = is_inside, dups' = 0,
         \A e \in Dev : grants[e] = 0 /\ ~is_inside[e]
  PROVE  OneToken'
<1>1. \A e \in Dev : grants'[e] > 0 => e = North /\ grants'[e] = 1
  BY SendGrantOnce, DevFacts DEF TypeInv, TypeOK, StartRound
<1>2. \A e \in Dev : ~is_inside'[e]
  OBVIOUS
<1>3. visited' = 1 .. (North - 1)
  BY SMT DEF StartRound, North
<1>4. is_token_out'
  BY DEF StartRound
<1>5. ASSUME NEW d \in Dev, grants'[d] > 0 PROVE Flying(d)'
  BY <1>1, <1>2, <1>3, <1>5 DEF Flying, AtHome
<1> QED
  BY <1>2, <1>4, <1>5 DEF OneToken

\* The steps that leave the ring alone.
LEMMA QuietStep ==
  ASSUME OneToken, UNCHANGED <<ring, visited, is_token_out>>,
         AtHome' => AtHome
  PROVE  OneToken'
BY DEF OneToken, Flying, Held, TokenSomewhere, AtHome, ring

LEMMA RingInvStep ==
  ASSUME TypeInv, TypeInv', RingInv, [Next]_vars
  PROVE  RingInv'
<1> SUFFICES ASSUME Clean' PROVE OneToken'
  BY DEF RingInv
<1> USE DevFacts
<1>0. dups' = 0 /\ ~raced'
  BY DEF Clean
<1>a. ASSUME Clean PROVE OneToken
  BY <1>a DEF RingInv
<1>1. ASSUME NEW d \in Dev, Register(d) PROVE OneToken'
  BY <1>1, <1>0, <1>a, QuietStep
     DEF Register, ring, leader, tasks, faults, AtHome, Clean
<1>2. ASSUME NEW d \in Dev, FollowerRequest(d) PROVE OneToken'
  BY <1>2, <1>0, <1>a, QuietStep
     DEF FollowerRequest, ring, leader, tasks, faults, AtHome, Clean
<1>3. ASSUME NEW t \in Tasks, LeaderRequest(t) PROVE OneToken'
  <2>1. AtHome' => AtHome
    BY <1>3 DEF LeaderRequest, CheckTokenOut, AtHome, TypeInv, TypeOK
  <2> QED
    BY <2>1, <1>3, <1>0, <1>a, QuietStep
       DEF LeaderRequest, ring, leader, faults, Clean
<1>4. ASSUME NEW t \in Tasks, LoadPending(t) PROVE OneToken'
  <2>1. AtHome' => AtHome
    BY <1>4 DEF LoadPending, AtHome, TypeInv, TypeOK
  <2> QED
    BY <2>1, <1>4, <1>0, <1>a, QuietStep
       DEF LoadPending, ring, leader, faults, Clean
<1>5. ASSUME NEW t \in Tasks, StorePending(t) PROVE OneToken'
  <2>1. AtHome' => AtHome
    BY <1>5 DEF StorePending, AtHome, TypeInv, TypeOK
  <2> QED
    BY <2>1, <1>5, <1>0, <1>a, QuietStep
       DEF StorePending, ring, faults, Clean
<1>6. ASSUME OnTokenRequest PROVE OneToken'
  <2>1. AtHome' => AtHome
    BY <1>6 DEF OnTokenRequest, CheckTokenOut, AtHome, TypeInv, TypeOK
  <2> QED
    BY <2>1, <1>6, <1>0, <1>a, QuietStep
       DEF OnTokenRequest, ring, leader, faults, Clean
<1>7. ASSUME NEW t \in Tasks, IssueNewToken(t) PROVE OneToken'
  <2>1. Clean /\ ~is_token_out
    <3>1. dups = 0
      BY <1>7, <1>0, SendGrantType, SMT
         DEF IssueNewToken, StartRound, TypeInv, TypeOK
    <3>2. ~raced /\ ~is_token_out
      BY <1>7, <1>0 DEF IssueNewToken
    <3> QED
      BY <3>1, <3>2 DEF Clean
  <2>2. ~TokenSomewhere
    BY <2>1, <1>a DEF OneToken
  <2>3. \A e \in Dev : grants[e] = 0 /\ ~is_inside[e]
    BY <2>2, SMT DEF TokenSomewhere, TypeInv, TypeOK
  <2>4. pc'[Sib] \notin {"reissue", "retire"}
    BY <1>7, <2>2 DEF IssueNewToken, TokenSomewhere, TypeInv, TypeOK
  <2> QED
    BY <1>7, <1>0, <2>3, <2>4, StartRoundInv DEF IssueNewToken
<1>8. ASSUME NEW d \in Dev, Enter(d) PROVE OneToken'
  <2>1. Flying(d) /\ TokenSomewhere /\ is_token_out
    BY <1>8, <1>0, <1>a DEF Enter, OneToken, TokenSomewhere, faults, Clean
  <2>2. \A e \in Dev : grants'[e] = 0
    BY <1>8, <2>1, SMT DEF Enter, Flying, TypeInv, TypeOK
  <2>3. \A e \in Dev : is_inside'[e] => e = d
    BY <1>8, <2>1 DEF Enter, Flying, TypeInv, TypeOK
  <2>4. visited' = 1 .. d
    BY <1>8, <2>1, VisitedNext DEF Enter, Flying
  <2>5. ~AtHome' /\ is_token_out'
    BY <1>8, <2>1 DEF Enter, Flying, AtHome, tasks, leader
  <2>6. ASSUME NEW e \in Dev, is_inside'[e] PROVE Held(e)'
    BY <2>2, <2>3, <2>4, <2>5, <2>6 DEF Held
  <2> QED
    BY <2>2, <2>5, <2>6, SMT DEF OneToken
<1>9. ASSUME NEW d \in Dev, PassToken(d) PROVE OneToken'
  <2>1. dups = 0
    BY <1>9, <1>0, SendGrantType, SMT DEF PassToken, TypeInv, TypeOK
  <2>2. Held(d) /\ is_token_out
    BY <1>9, <2>1, <1>0, <1>a
       DEF PassToken, OneToken, TokenSomewhere, Clean
  <2>3. \A e \in Dev : grants'[e] > 0 => e = Successor(d) /\ grants'[e] = 1
    BY <1>9, <1>0, <2>2, SendGrantOnce DEF PassToken, Held, TypeInv, TypeOK
  <2>4. \A e \in Dev : ~is_inside'[e]
    BY <1>9, <2>2 DEF PassToken, Held, TypeInv, TypeOK
  <2>5. visited' = 1 .. (Successor(d) - 1)
    BY <1>9, <2>2, VisitedNext DEF PassToken, Held
  <2>6. ~AtHome' /\ is_token_out'
    BY <1>9, <2>2 DEF PassToken, Held, AtHome, tasks, leader
  <2>7. ASSUME NEW e \in Dev, grants'[e] > 0 PROVE Flying(e)'
    BY <2>3, <2>4, <2>5, <2>6, <2>7 DEF Flying
  <2> QED
    BY <2>4, <2>6, <2>7 DEF OneToken
<1>10. ASSUME NEW d \in Dev, SkipFollower(d) PROVE OneToken'
  <2> DEFINE g == [grants EXCEPT ![d] = @ - 1]
  <2>1. g \in [Dev -> Nat]
    BY <1>10, SMT DEF SkipFollower, TypeInv, TypeOK
  <2>2. dups = 0
    <3> HIDE DEF g
    <3>1. SendGrant(g, Successor(d))
      BY <1>10 DEF SkipFollower, g
    <3>2. dups' >= dups
      BY <3>1, <2>1, SendGrantType DEF TypeInv
    <3> QED
      BY <3>2, <1>0, SMT DEF TypeInv, TypeOK
  <2>3. Flying(d) /\ is_token_out
    BY <1>10, <2>2, <1>0, <1>a
       DEF SkipFollower, OneToken, TokenSomewhere, Clean
  <2>4. \A e \in Dev : g[e] = 0
    <3>1. \A e \in Dev : grants[e] \in Nat
      BY DEF TypeInv, TypeOK
    <3>2. \A e \in Dev : grants[e] > 0 => e = d
      BY <2>3 DEF Flying
    <3>3. \A e \in Dev : e # d => grants[e] = 0
      BY <3>1, <3>2, SMT
    <3>4. grants[d] = 1 /\ grants \in [Dev -> Nat]
      BY <2>3 DEF Flying, TypeInv, TypeOK
    <3> QED
      BY <3>3, <3>4, SMT
  <2>5. \A e \in Dev : grants'[e] > 0 => e = Successor(d) /\ grants'[e] = 1
    <3> HIDE DEF g
    <3>1. SendGrant(g, Successor(d))
      BY <1>10 DEF SkipFollower, g
    <3> QED
      BY <3>1, <1>0, <2>1, <2>4, SendGrantOnce DEF TypeInv
  <2>6. \A e \in Dev : ~is_inside'[e]
    BY <1>10, <2>3 DEF SkipFollower, Flying
  <2>7. visited' = 1 .. (Successor(d) - 1)
    BY <1>10, <2>3, VisitedNext DEF SkipFollower, Flying
  <2>8. ~AtHome' /\ is_token_out'
    BY <1>10, <2>3 DEF SkipFollower, Flying, AtHome, tasks, leader
  <2>9. ASSUME NEW e \in Dev, grants'[e] > 0 PROVE Flying(e)'
    BY <2>5, <2>6, <2>7, <2>8, <2>9 DEF Flying
  <2> QED
    BY <2>6, <2>8, <2>9 DEF OneToken
<1>11. ASSUME TokenHome PROVE OneToken'
  <2>1. Held(Leader) /\ is_token_out
    BY <1>11, <1>0, <1>a
       DEF TokenHome, OneToken, TokenSomewhere, faults, Clean
  <2>2. \A e \in Dev : grants'[e] = 0 /\ ~is_inside'[e]
    BY <1>11, <2>1 DEF TokenHome, Held, TypeInv, TypeOK
  <2> QED
    BY <1>11, <2>1, <2>2, SMT DEF TokenHome, leader, OneToken
<1>12. ASSUME SkipLeader PROVE OneToken'
  <2>1. Flying(Leader) /\ is_token_out
    BY <1>12, <1>0, <1>a
       DEF SkipLeader, OneToken, TokenSomewhere, faults, Clean
  <2>2. \A e \in Dev : grants'[e] = 0
    BY <1>12, <2>1, SMT DEF SkipLeader, Flying, TypeInv, TypeOK
  <2>3. \A e \in Dev : ~is_inside'[e]
    BY <1>12, <2>1 DEF SkipLeader, Flying
  <2> QED
    BY <1>12, <2>1, <2>2, <2>3, SMT DEF SkipLeader, leader, OneToken
<1>13. ASSUME Reissue PROVE OneToken'
  <2>1. dups = 0
    BY <1>13, <1>0, SendGrantType, SMT DEF Reissue, StartRound, TypeInv, TypeOK
  <2>2. OneToken /\ AtHome
    BY <1>13, <2>1, <1>0, <1>a DEF Reissue, Clean, AtHome
  <2>3. \A e \in Dev : grants[e] = 0 /\ ~is_inside[e]
    BY <2>2, SMT DEF OneToken, Flying, Held, TypeInv, TypeOK
  <2>4. pc'[Sib] \notin {"reissue", "retire"}
    BY <1>13 DEF Reissue, TypeInv, TypeOK
  <2> QED
    BY <1>13, <1>0, <2>3, <2>4, StartRoundInv DEF Reissue
<1>14. ASSUME RetireToken PROVE OneToken'
  <2>1. OneToken /\ AtHome
    BY <1>14, <1>0, <1>a DEF RetireToken, faults, Clean, AtHome
  <2>2. \A e \in Dev : grants[e] = 0 /\ ~is_inside[e]
    BY <2>1, SMT DEF OneToken, Flying, Held, TypeInv, TypeOK
  <2>3. \A e \in Dev : grants'[e] = 0 /\ ~is_inside'[e]
    BY <1>14, <2>2 DEF RetireToken, ring
  <2>4. ~AtHome'
    BY <1>14 DEF RetireToken, AtHome, TypeInv, TypeOK
  <2> QED
    BY <2>3, <2>4, SMT DEF OneToken, TokenSomewhere, AtHome
<1>15. CASE UNCHANGED vars
  BY <1>15, <1>0, <1>a, QuietStep DEF vars, ring, AtHome, Clean
<1> QED
  BY <1>1, <1>2, <1>3, <1>4, <1>5, <1>6, <1>7, <1>8, <1>9, <1>10, <1>11,
     <1>12, <1>13, <1>14, <1>15
     DEF Next, Follower, LeaderTask, LeaderSibling

LEMMA RingInvInit == Init => RingInv
<1> SUFFICES ASSUME Init PROVE OneToken
  BY DEF RingInv
<1>1. \A d \in Dev : ~(grants[d] > 0) /\ ~is_inside[d]
  BY SMT DEF Init
<1>2. pc[Sib] = "idle"
  BY DevFacts DEF Init
<1> QED
  BY <1>1, <1>2 DEF OneToken, TokenSomewhere

\* While the network duplicates nothing and the center's tasks do not issue
\* two tokens, the token is unique and no two boards run the callback.
THEOREM MutualExclusionHolds == Spec => []MutualExclusion
<1>1. Init => RingInv
  BY RingInvInit
<1>2. RingInv /\ TypeInv => MutualExclusion
  BY DEF RingInv, OneToken, Held, MutualExclusion, Exclusive
<1> QED
  BY <1>1, <1>2, RingInvStep, TypeCorrect, PTL DEF Spec

\* The center gets the token back only after every board had it.
THEOREM FullRoundHolds == Spec => []FullRound
<1>1. Init => RingInv
  BY RingInvInit
<1>2. RingInv /\ TypeInv => FullRound
  BY DevFacts DEF RingInv, OneToken, Held, FullRound, Dev, Leader
<1> QED
  BY <1>1, <1>2, RingInvStep, TypeCorrect, PTL DEF Spec

----------------------------------------------------------------------------
(* The flag is_token_out is never stuck: it is set with a grant and every  *)
(* step that consumes the token hands it on, unless a broadcast is lost.   *)

LEMMA SendGrantSends ==
  ASSUME NEW g \in [Dev -> Nat], NEW d \in Present, TypeOK, SendGrant(g, d),
         losses' = 0
  PROVE  grants'[d] > 0
<1>1. PICK c \in Copies : /\ grants' = [g EXCEPT ![d] =
                                          IF d \in Present THEN @ + c ELSE @]
                          /\ losses' = IF c = 0 THEN losses + 1 ELSE losses
  BY DEF SendGrant
<1>2. c \in Nat /\ c # 0
  BY <1>1, CopiesAssumption, SMT DEF TypeOK, MAX_RETRIES
<1>3. d \in Dev
  BY PresentAssumption
<1> QED
  BY <1>1, <1>2, <1>3, SMT

LEMMA NeverBlockedStep ==
  ASSUME TypeInv, TypeInv', NeverBlocked, [Next]_vars
  PROVE  NeverBlocked'
<1> SUFFICES ASSUME losses' = 0, Present = Dev, is_token_out'
             PROVE  TokenSomewhere'
  BY DEF NeverBlocked
<1> USE DevFacts
<1>a. ASSUME losses = 0, is_token_out PROVE TokenSomewhere
  BY <1>a DEF NeverBlocked
<1>1. ASSUME UNCHANGED <<ring, faults, is_token_out>>,
             AtHome => AtHome' PROVE TokenSomewhere'
  BY <1>1, <1>a DEF ring, faults, TokenSomewhere, AtHome
<1>2. ASSUME NEW d \in Dev, Register(d) \/ FollowerRequest(d)
      PROVE  TokenSomewhere'
  BY <1>2, <1>1 DEF Register, FollowerRequest, leader, tasks, AtHome
<1>3. ASSUME NEW t \in Tasks, LeaderRequest(t) PROVE TokenSomewhere'
  <2>1. AtHome => AtHome'
    BY <1>3 DEF LeaderRequest, CheckTokenOut, SiblingTaskFree, AtHome,
                TypeInv, TypeOK
  <2> QED
    BY <2>1, <1>3, <1>1 DEF LeaderRequest, leader
<1>4. ASSUME NEW t \in Tasks, LoadPending(t) PROVE TokenSomewhere'
  <2>1. AtHome => AtHome'
    BY <1>4 DEF LoadPending, AtHome, TypeInv, TypeOK
  <2> QED
    BY <2>1, <1>4, <1>1 DEF LoadPending, leader
<1>5. ASSUME NEW t \in Tasks, StorePending(t) PROVE TokenSomewhere'
  <2>1. AtHome => AtHome'
    BY <1>5 DEF StorePending, AtHome, TypeInv, TypeOK
  <2> QED
    BY <2>1, <1>5, <1>1 DEF StorePending
<1>6. ASSUME OnTokenRequest PROVE TokenSomewhere'
  BY <1>6, <1>1 DEF OnTokenRequest, SiblingTaskFree, AtHome, leader
<1>7. ASSUME StartRound PROVE TokenSomewhere'
  BY <1>7, SendGrantSends DEF StartRound, TokenSomewhere, TypeInv, TypeOK
<1>8. ASSUME NEW d \in Dev, Enter(d) PROVE TokenSomewhere'
  BY <1>8 DEF Enter, TokenSomewhere, TypeInv, TypeOK
<1>9. ASSUME NEW d \in Dev, PassToken(d) PROVE TokenSomewhere'
  BY <1>9, SendGrantSends DEF PassToken, TokenSomewhere, TypeInv, TypeOK
<1>10. ASSUME NEW d \in Dev, SkipFollower(d) PROVE TokenSomewhere'
  <2>1. [grants EXCEPT ![d] = @ - 1] \in [Dev -> Nat]
    BY <1>10, SMT DEF SkipFollower, TypeInv, TypeOK
  <2> QED
    BY <1>10, <2>1, SendGrantSends DEF SkipFollower, TokenSomewhere, TypeInv
<1>11. ASSUME TokenHome \/ SkipLeader PROVE TokenSomewhere'
  BY <1>11 DEF TokenHome, SkipLeader, ReadPending, TokenSomewhere,
               TypeInv, TypeOK
<1>12. ASSUME RetireToken PROVE TokenSomewhere'
  BY <1>12 DEF RetireToken
<1>13. CASE UNCHANGED vars
  BY <1>13, <1>1 DEF vars, ring, faults, AtHome
<1> QED
  BY <1>2, <1>3, <1>4, <1>5, <1>6, <1>7, <1>8, <1>9, <1>10, <1>11, <1>12,
     <1>13
     DEF Next, Follower, LeaderTask, LeaderSibling, IssueNewToken, Reissue

\* With every board present and no broadcast lost for good, the center never
\* waits for a token that does not exist; duplicates and races do not matter.
THEOREM NeverBlockedHolds == Spec => []NeverBlocked
<1>1. Init => NeverBlocked
  BY DEF Init, NeverBlocked
<1> QED
  BY <1>1, NeverBlockedStep, TypeCorrect, PTL DEF Spec

----------------------------------------------------------------------------
(* No lost wakeup.  While no token was retired under a request, without a   *)
(* token nothing is counted and nobody is about to count.                  *)

WakeInv ==
  ~overlooked =>
    /\ ~is_token_out => requested_tokens = 0 /\ \A t \in Tasks : ~CountsOn(t)
    /\ pc[Sib] = "retire" => requested_tokens = 0

LEMMA WakeStep ==
  ASSUME TypeInv, TypeInv', WakeInv, [Next]_vars
  PROVE  WakeInv'
<1> SUFFICES ASSUME ~overlooked'
             PROVE  /\ ~is_token_out' => /\ requested_tokens' = 0
                                         /\ \A t \in Tasks : ~CountsOn(t)'
                    /\ pc'[Sib] = "retire" => requested_tokens' = 0
  BY DEF WakeInv
<1> DEFINE Goal == /\ ~is_token_out' => /\ requested_tokens' = 0
                                        /\ \A t \in Tasks : ~CountsOn(t)'
                   /\ pc'[Sib] = "retire" => requested_tokens' = 0
<1>0. ~overlooked
  BY DEF Next, Register, FollowerRequest, Enter, Follower, PassToken,
         SkipFollower, LeaderRequest, LeaderTask, LoadPending, StorePending,
         IssueNewToken, LeaderSibling, OnTokenRequest, TokenHome, Reissue,
         RetireToken, SkipLeader, vars
<1> USE <1>0, DevFacts DEF WakeInv, TypeInv, TypeOK, CountsOn
<1>1. ASSUME NEW d \in Dev, Register(d) \/ FollowerRequest(d) \/ Enter(d)
                              \/ Follower(d)
      PROVE  Goal
  BY <1>1 DEF Register, FollowerRequest, Enter, Follower, PassToken,
              SkipFollower, leader, tasks
<1>2. ASSUME NEW t \in Tasks, LeaderRequest(t) PROVE Goal
  BY <1>2 DEF LeaderRequest, CheckTokenOut, leader
<1>3. ASSUME NEW t \in Tasks, LoadPending(t) PROVE Goal
  BY <1>3 DEF LoadPending, leader
<1>4. ASSUME NEW t \in Tasks, StorePending(t) PROVE Goal
  <2>1. is_token_out' /\ pc[Sib] # "retire"
    BY <1>4 DEF StorePending
  <2> QED
    BY <1>4, <2>1 DEF StorePending
<1>5. ASSUME NEW t \in Tasks, IssueNewToken(t) PROVE Goal
  BY <1>5 DEF IssueNewToken, StartRound
<1>6. ASSUME OnTokenRequest PROVE Goal
  BY <1>6 DEF OnTokenRequest, CheckTokenOut, leader
<1>7. ASSUME TokenHome \/ SkipLeader PROVE Goal
  BY <1>7, SMT DEF TokenHome, SkipLeader, ReadPending, leader
<1>8. ASSUME Reissue PROVE Goal
  BY <1>8 DEF Reissue, StartRound
<1>9. ASSUME RetireToken PROVE Goal
  BY <1>9 DEF RetireToken, Tasks
<1>10. CASE UNCHANGED vars
  BY <1>10 DEF vars
<1> QED
  BY <1>1, <1>2, <1>3, <1>4, <1>5, <1>6, <1>7, <1>8, <1>9, <1>10
     DEF Next, LeaderTask, LeaderSibling

\* A counted request always has a token on its way home to serve it next,
\* whatever tasks of the center count requests, unless a token was retired
\* between a task's look at it and its count.
THEOREM NoLostWakeupHolds == Spec => []NoLostWakeup
<1>1. Init => WakeInv
  BY DevFacts, SMT DEF Init, WakeInv, CountsOn
<1>2. WakeInv /\ TypeInv => NoLostWakeup
  BY DEF WakeInv, NoLostWakeup, TypeInv, TypeOK
<1> QED
  BY <1>1, <1>2, WakeStep, TypeCorrect, PTL DEF Spec

----------------------------------------------------------------------------
(* The protocol implements the lock of sync.h as long as it stays clean.   *)

LEMMA LockStep ==
  ASSUME TypeInv, TypeInv', RingInv, Clean, [Next]_vars
  PROVE  [Lock!Next]_(Lock!vars)
<1> USE DevFacts
<1>0. OneToken
  BY DEF RingInv
<1> DEFINE in == {d \in Dev : is_inside[d]}
<1>1. ASSUME UNCHANGED <<is_inside, wants>> PROVE [Lock!Next]_(Lock!vars)
  BY <1>1 DEF Lock!vars
<1>2. ASSUME NEW d \in Dev, FollowerRequest(d)
      PROVE  [Lock!Next]_(Lock!vars)
  <2>1. is_inside' = is_inside /\ (wants' = wants \/ wants' = wants \cup {d})
    BY <1>2 DEF FollowerRequest, ring
  <2>2. CASE wants' = wants
    BY <2>1, <2>2, <1>1
  <2>3. CASE wants' = wants \cup {d}
    BY <2>1, <2>3 DEF Lock!Next, Lock!Request
  <2> QED
    BY <2>1, <2>2, <2>3
<1>3. ASSUME NEW t \in Tasks, LeaderRequest(t) PROVE Lock!Next
  BY <1>3 DEF LeaderRequest, ring, Lock!Next, Lock!Request
<1>4. ASSUME NEW d \in Dev, Enter(d) PROVE Lock!Next
  <2>1. \A e \in Dev : ~is_inside[e]
    BY <1>4, <1>0 DEF Enter, OneToken, Flying
  <2>2. in = {} /\ in' = {d}
    BY <1>4, <2>1 DEF Enter, TypeInv, TypeOK
  <2> QED
    BY <1>4, <2>2 DEF Enter, Lock!Next, Lock!Enter
<1>5. ASSUME NEW d \in Dev, is_inside[d], wants' = wants,
             is_inside' = [is_inside EXCEPT ![d] = FALSE]
      PROVE  Lock!Next
  <2>1. \A e \in Dev : is_inside[e] => e = d
    BY <1>5, <1>0 DEF OneToken, Held
  <2>2. in = {d} /\ in' = {}
    BY <1>5, <2>1 DEF TypeInv, TypeOK
  <2> QED
    BY <1>5, <2>2 DEF Lock!Next, Lock!Leave
<1>6. ASSUME NEW d \in Dev, PassToken(d) PROVE Lock!Next
  BY <1>6, <1>5 DEF PassToken
<1>7. ASSUME TokenHome PROVE Lock!Next
  BY <1>7, <1>5 DEF TokenHome
<1>8. ASSUME NEW d \in Dev, Register(d) \/ SkipFollower(d)
      PROVE  [Lock!Next]_(Lock!vars)
  BY <1>8, <1>1 DEF Register, SkipFollower, ring
<1>9. ASSUME NEW t \in Tasks, LeaderTask(t) PROVE [Lock!Next]_(Lock!vars)
  BY <1>9, <1>1 DEF LeaderTask, LoadPending, StorePending, IssueNewToken, ring
<1>10. ASSUME OnTokenRequest \/ Reissue \/ RetireToken \/ SkipLeader
       PROVE  [Lock!Next]_(Lock!vars)
  BY <1>10, <1>1 DEF OnTokenRequest, Reissue, RetireToken, SkipLeader, ring
<1>11. CASE UNCHANGED vars
  BY <1>11, <1>1 DEF vars
<1> QED
  BY <1>2, <1>3, <1>4, <1>6, <1>7, <1>8, <1>9, <1>10, <1>11
     DEF Next, Follower, LeaderSibling

\* Up to the first duplicated grant or racing token, a behavior is one of the
\* lock that sync.h describes.
THEOREM ImplementsLockWhileClean == Spec => ImplementsLock
<1>1. Init => Lock!Init
  BY DEF Init, Lock!Init
<1>2. Init => RingInv
  BY RingInvInit
<1>3. TypeInv /\ TypeInv' /\ RingInv /\ [Next]_vars
        => [Clean => Lock!Next]_(Lock!vars)
  BY LockStep
<1> QED
  BY <1>1, <1>2, <1>3, RingInvStep, TypeCorrect, PTL DEF Spec, ImplementsLock

----------------------------------------------------------------------------
(* The shared table.                                                      *)

LEMMA SharedStepIsRingStep == [SharedNext]_allvars => [Next]_vars
BY DEF SharedNext, EnterCaughtUp, InSection, OnRefresh, RingStep, allvars, Next

\* What is proved about the ring holds here as well.
LEMMA RingHolds == SharedSpec => [](TypeInv /\ RingInv)
<1>1. SharedSpec => Spec
  BY SharedStepIsRingStep, PTL DEF SharedSpec, SharedInit, Spec
<1>2. Spec => []RingInv
  BY RingInvInit, RingInvStep, TypeCorrect, PTL DEF Spec
<1> QED
  BY <1>1, <1>2, TypeCorrect, PTL

----------------------------------------------------------------------------
(* What a ring step does to the lock, as the table sees it.                *)

SentToPresent == \A d \in Dev : grants[d] > 0 \/ is_inside[d] => d \in Present

LEMMA SendGrantPresent ==
  ASSUME NEW g \in [Dev -> Nat], NEW d \in Dev, SendGrant(g, d),
         \A e \in Dev : g[e] > 0 => e \in Present
  PROVE  \A e \in Dev : grants'[e] > 0 => e \in Present
BY SMT DEF SendGrant

\* Outside Enter no board starts its callback, grants go to present boards,
\* and a ring that is clean was clean before.
LEMMA RingStepFacts ==
  ASSUME TypeInv, SentToPresent, RingStep
  PROVE  /\ \A d \in Dev : is_inside'[d] => is_inside[d]
         /\ SentToPresent'
         /\ Clean' => Clean
<1> USE DevFacts DEF TypeInv, TypeOK
<1> DEFINE Goal == /\ \A d \in Dev : is_inside'[d] => is_inside[d]
                   /\ SentToPresent'
                   /\ Clean' => Clean
<1>1. ASSUME UNCHANGED ring, dups' = dups, raced' = raced PROVE Goal
  BY <1>1 DEF ring, SentToPresent, Clean
<1>2. ASSUME NEW d \in Dev, Register(d) \/ FollowerRequest(d) PROVE Goal
  BY <1>2, <1>1 DEF Register, FollowerRequest, faults
<1>3. ASSUME NEW t \in Tasks,
             LeaderRequest(t) \/ LoadPending(t) \/ StorePending(t)
      PROVE  Goal
  BY <1>3, <1>1 DEF LeaderRequest, LoadPending, StorePending, faults
<1>4. ASSUME OnTokenRequest \/ RetireToken PROVE Goal
  BY <1>4, <1>1 DEF OnTokenRequest, RetireToken, faults
<1>5. ASSUME StartRound, is_inside' = is_inside,
             ~raced' => ~raced
      PROVE  Goal
  <2>1. \A e \in Dev : grants'[e] > 0 => e \in Present
    BY <1>5, SendGrantPresent DEF StartRound, SentToPresent
  <2>2. dups' >= dups /\ dups' \in Nat
    BY <1>5, SendGrantType DEF StartRound
  <2>3. dups' = 0 => dups = 0
    BY <2>2, SMT
  <2> QED
    BY <1>5, <2>1, <2>3 DEF SentToPresent, Clean
<1>6. ASSUME NEW t \in Tasks, IssueNewToken(t) PROVE Goal
  BY <1>6, <1>5 DEF IssueNewToken
<1>7. ASSUME Reissue PROVE Goal
  BY <1>7, <1>5 DEF Reissue
<1>8. ASSUME NEW d \in Dev, PassToken(d) PROVE Goal
  <2>1. \A e \in Dev : grants'[e] > 0 => e \in Present
    BY <1>8, SendGrantPresent DEF PassToken, SentToPresent
  <2>2. dups' >= dups /\ dups' \in Nat
    BY <1>8, SendGrantType DEF PassToken
  <2>3. dups' = 0 => dups = 0
    BY <2>2, SMT
  <2>4. \A e \in Dev : is_inside'[e] => is_inside[e]
    BY <1>8 DEF PassToken
  <2> QED
    BY <1>8, <2>1, <2>3, <2>4 DEF PassToken, SentToPresent, Clean
<1>9. ASSUME NEW d \in Dev, SkipFollower(d) PROVE Goal
  <2> DEFINE g == [grants EXCEPT ![d] = @ - 1]
  <2>1. /\ g \in [Dev -> Nat] /\ SendGrant(g, Successor(d))
        /\ is_inside' = is_inside /\ raced' = raced
        /\ \A e \in Dev : g[e] > 0 => grants[e] > 0
    BY <1>9, SMT DEF SkipFollower
  <2> HIDE DEF g
  <2>2. \A e \in Dev : grants'[e] > 0 => e \in Present
    BY <2>1, SendGrantPresent DEF SentToPresent
  <2>3. dups' >= dups /\ dups' \in Nat
    BY <2>1, SendGrantType
  <2>4. dups' = 0 => dups = 0
    BY <2>3, SMT
  <2> QED
    BY <2>1, <2>2, <2>4 DEF SentToPresent, Clean
<1>10. ASSUME TokenHome PROVE Goal
  BY <1>10 DEF TokenHome, SentToPresent, Clean, faults
<1>11. ASSUME SkipLeader PROVE Goal
  <2>1. \A e \in Dev : grants'[e] > 0 => grants[e] > 0
    BY <1>11, SMT DEF SkipLeader
  <2> QED
    BY <1>11, <2>1 DEF SkipLeader, SentToPresent, Clean, faults
<1> QED
  BY <1>2, <1>3, <1>4, <1>6, <1>7, <1>8, <1>9, <1>10, <1>11
     DEF RingStep, Follower, LeaderTask, LeaderSibling

----------------------------------------------------------------------------
(* The table.                                                              *)

SharedTypes ==
  /\ changes \in Nat /\ failed \in Nat
  /\ copy \in [Dev -> SUBSET Nat]
  /\ inbox \in [Dev -> Seq(SUBSET Nat)]

\* Once board d has handled its refreshes its copy has every change.
CaughtUp(d) ==
  IF inbox[d] = <<>> THEN copy[d] = 1 .. changes
                     ELSE inbox[d][Len(inbox[d])] = 1 .. changes

\* A board inside the section has nothing to handle, and is the only one who
\* changes the table; as long as no refresh failed every present board has
\* all changes in its copy or on the way to it.
SharedInv ==
  /\ SharedTypes
  /\ SentToPresent
  /\ Clean => \A d \in Dev : is_inside[d] => inbox[d] = <<>>
  /\ Clean /\ failed = 0 => \A d \in Present : CaughtUp(d)

LEMMA SharedInvInit == SharedInit => SharedInv
<1> SUFFICES ASSUME SharedInit PROVE SharedInv
  OBVIOUS
<1>1. \A d \in Dev : inbox[d] = <<>> /\ copy[d] = {} /\ ~is_inside[d]
                       /\ ~(grants[d] > 0)
  BY SMT DEF SharedInit, Init
<1>2. 1 .. changes = {}
  BY SMT DEF SharedInit
<1>3. SharedTypes
  BY SMT DEF SharedInit, SharedTypes
<1> QED
  BY <1>1, <1>2, <1>3, PresentAssumption
     DEF SharedInv, SentToPresent, CaughtUp

\* A board never refreshes itself.
LEMMA AwayFromItself == ASSUME NEW d \in Dev PROVE Away(d, d) = 0
BY NAssumption, SMT DEF Away, Dev

LEMMA InSectionStep ==
  ASSUME TypeInv, RingInv, SharedInv, NEW d \in Dev, InSection(d)
  PROVE  SharedInv'
<1>1. /\ is_inside[d] /\ Clean /\ changes' = changes + 1
      /\ copy' = [copy EXCEPT ![d] = @ \cup {changes + 1}]
      /\ UNCHANGED vars
  BY DEF InSection, ChangeRoutes
<1>2. PICK reach \in 0 .. N - 1 :
        LET got == {e \in registered : Away(d, e) \in 1 .. reach}
        IN  /\ inbox' = [e \in Dev |-> IF e \in got THEN Append(inbox[e], copy'[d])
                                                    ELSE inbox[e]]
            /\ missed' = Present \ (got \cup {d})
            /\ failed' = IF missed' = {} THEN failed ELSE failed + 1
  BY DEF InSection, ChangeRoutes, Refresh
<1> DEFINE got == {e \in registered : Away(d, e) \in 1 .. reach}
<1>3. /\ inbox' = [e \in Dev |-> IF e \in got THEN Append(inbox[e], copy'[d])
                                              ELSE inbox[e]]
      /\ missed' = Present \ (got \cup {d})
      /\ failed' = IF missed' = {} THEN failed ELSE failed + 1
  BY <1>2
<1>4. d \notin got
  BY AwayFromItself, SMT
<1> HIDE DEF got
<1>5. copy'[d] \in SUBSET Nat
  BY <1>1, SMT DEF SharedInv, SharedTypes
<1>6. SharedTypes'
  <2>1. changes' \in Nat /\ failed' \in Nat
    BY <1>1, <1>3, SMT DEF SharedInv, SharedTypes
  <2>2. copy' \in [Dev -> SUBSET Nat]
    BY <1>1, <1>5 DEF SharedInv, SharedTypes
  <2>3. ASSUME NEW e \in Dev
        PROVE  Append(inbox[e], copy'[d]) \in Seq(SUBSET Nat)
    BY <1>5, SMT DEF SharedInv, SharedTypes
  <2>4. inbox' \in [Dev -> Seq(SUBSET Nat)]
    BY <1>3, <2>3 DEF SharedInv, SharedTypes
  <2> QED
    BY <2>1, <2>2, <2>4 DEF SharedTypes
<1>7. SentToPresent' /\ (Clean' <=> Clean)
  BY <1>1 DEF SharedInv, SentToPresent, Clean, vars
<1>8. ASSUME NEW e \in Dev, is_inside'[e] PROVE inbox'[e] = <<>>
  <2>1. e = d
    BY <1>1, <1>8 DEF RingInv, OneToken, Held, vars
  <2> QED
    BY <1>1, <1>3, <1>4, <2>1 DEF SharedInv
<1>9. ASSUME failed' = 0, NEW e \in Present PROVE CaughtUp(e)'
  <2>1. failed = 0 /\ missed' = {}
    BY <1>3, <1>9, SMT DEF SharedInv, SharedTypes
  <2>2. e \in Dev /\ (e = d \/ e \in got)
    BY <1>3, <2>1, PresentAssumption
  <2>3. copy'[d] = 1 .. changes'
    <3>1. d \in Present /\ inbox[d] = <<>>
      BY <1>1 DEF SharedInv, SentToPresent
    <3>2. copy[d] = 1 .. changes
      BY <1>1, <2>1, <3>1 DEF SharedInv, CaughtUp
    <3>3. copy'[d] = (1 .. changes) \cup {changes + 1}
      BY <1>1, <3>2 DEF SharedInv, SharedTypes
    <3>4. (1 .. changes) \cup {changes + 1} = 1 .. (changes + 1)
      BY SMT DEF SharedInv, SharedTypes
    <3> QED
      BY <1>1, <3>3, <3>4
  <2>4. CASE e = d
    <3>1. inbox'[d] = <<>>
      BY <1>1, <1>3, <1>4 DEF SharedInv
    <3> QED
      BY <2>3, <2>4, <3>1 DEF CaughtUp
  <2>5. CASE e \in got
    <3>1. inbox'[e] = Append(inbox[e], copy'[d])
      BY <1>3, <2>2, <2>5
    <3>2. inbox[e] \in Seq(SUBSET Nat)
      BY <2>2 DEF SharedInv, SharedTypes
    <3>3. inbox'[e] # <<>> /\ inbox'[e][Len(inbox'[e])] = copy'[d]
      BY <1>5, <3>1, <3>2, SMT
    <3> QED
      BY <2>3, <3>3 DEF CaughtUp
  <2> QED
    BY <2>2, <2>4, <2>5
<1> QED
  BY <1>6, <1>7, <1>8, <1>9 DEF SharedInv

LEMMA OnRefreshStep ==
  ASSUME TypeInv, RingInv, SharedInv, NEW d \in Dev, OnRefresh(d)
  PROVE  SharedInv'
<1>1. /\ inbox[d] # <<>> /\ ~is_inside[d]
      /\ copy' = [copy EXCEPT ![d] = Head(inbox[d])]
      /\ inbox' = [inbox EXCEPT ![d] = Tail(inbox[d])]
      /\ UNCHANGED <<vars, changes, failed>>
  BY DEF OnRefresh, Overwrite, SiblingTaskIdle
<1>2. inbox[d] \in Seq(SUBSET Nat) /\ copy \in [Dev -> SUBSET Nat]
      /\ inbox \in [Dev -> Seq(SUBSET Nat)]
  BY DEF SharedInv, SharedTypes
<1>3. Head(inbox[d]) \in SUBSET Nat /\ Tail(inbox[d]) \in Seq(SUBSET Nat)
  BY <1>1, <1>2, SMT
<1>4. SharedTypes'
  BY <1>1, <1>2, <1>3 DEF SharedInv, SharedTypes
<1>5. SentToPresent' /\ (Clean' <=> Clean) /\ is_inside' = is_inside
  BY <1>1 DEF SharedInv, SentToPresent, Clean, vars
<1>6. ASSUME Clean, NEW e \in Dev, is_inside[e] PROVE inbox'[e] = <<>>
  BY <1>1, <1>2, <1>6 DEF SharedInv
<1>7. ASSUME Clean, failed = 0, NEW e \in Present PROVE CaughtUp(e)'
  <2>1. e \in Dev /\ CaughtUp(e)
    BY <1>7, PresentAssumption DEF SharedInv
  <2>2. CASE e # d
    BY <1>1, <1>2, <2>1, <2>2 DEF CaughtUp
  <2>3. CASE e = d
    <3>1. inbox[d][Len(inbox[d])] = 1 .. changes
      BY <1>1, <2>1, <2>3 DEF CaughtUp
    <3>2. inbox'[d] = Tail(inbox[d]) /\ copy'[d] = Head(inbox[d])
      BY <1>1, <1>2
    <3>3. CASE Tail(inbox[d]) = <<>>
      <4>1. Head(inbox[d]) = inbox[d][Len(inbox[d])]
        <5>1. Len(Tail(inbox[d])) = Len(inbox[d]) - 1 /\ Len(inbox[d]) \in Nat
          BY <1>1, <1>2, SMT
        <5>2. Len(inbox[d]) = 1
          <6>1. Len(Tail(inbox[d])) = 0
            BY <3>3, EmptySeq
          <6> QED
            BY <5>1, <6>1, SMT
        <5> QED
          BY <1>1, <1>2, <5>2
      <4> QED
        BY <1>1, <2>3, <3>1, <3>2, <3>3, <4>1 DEF CaughtUp
    <3>4. CASE Tail(inbox[d]) # <<>>
      <4>1. Tail(inbox[d])[Len(Tail(inbox[d]))] = inbox[d][Len(inbox[d])]
        BY <1>1, <1>2, <3>4, SMT
      <4> QED
        BY <1>1, <2>3, <3>1, <3>2, <3>4, <4>1 DEF CaughtUp
    <3> QED
      BY <3>3, <3>4
  <2> QED
    BY <2>2, <2>3
<1> QED
  BY <1>1, <1>4, <1>5, <1>6, <1>7 DEF SharedInv

LEMMA RingStepShared ==
  ASSUME TypeInv, SharedInv, RingStep, FollowedWhileClean
  PROVE  SharedInv'
<1>1. /\ \A d \in Dev : is_inside'[d] => is_inside[d]
      /\ SentToPresent'
      /\ Clean' => Clean
  BY RingStepFacts DEF SharedInv
<1>2. CASE Clean'
  <2>1. UNCHANGED shared
    BY <1>2 DEF FollowedWhileClean
  <2> QED
    BY <1>1, <1>2, <2>1 DEF SharedInv, SharedTypes, CaughtUp, shared
<1>3. CASE ~Clean'
  <2>1. SharedTypes'
    <3>1. <<>> \in Seq(SUBSET Nat) /\ {} \in SUBSET Nat /\ 0 \in Nat
      BY SMT
    <3> QED
      BY <1>3, <3>1 DEF FollowedWhileClean, SharedTypes
  <2> QED
    BY <1>1, <1>3, <2>1 DEF SharedInv
<1> QED
  BY <1>2, <1>3

LEMMA EnterStep ==
  ASSUME TypeInv, SharedInv, NEW d \in Dev, EnterCaughtUp(d)
  PROVE  SharedInv'
<1>1. /\ inbox[d] = <<>> /\ grants[d] > 0 /\ UNCHANGED shared
      /\ is_inside' = [is_inside EXCEPT ![d] = TRUE]
      /\ grants' = [grants EXCEPT ![d] = @ - 1]
      /\ Clean' <=> Clean
  BY DEF EnterCaughtUp, Enter, Clean, faults
<1>2. \A e \in Dev : is_inside'[e] => is_inside[e] \/ e = d
  BY <1>1 DEF TypeInv, TypeOK
<1>3. \A e \in Dev : grants'[e] > 0 => grants[e] > 0
  BY <1>1, SMT DEF TypeInv, TypeOK
<1>4. SentToPresent'
  BY <1>1, <1>2, <1>3 DEF SharedInv, SentToPresent
<1> QED
  BY <1>1, <1>2, <1>4 DEF SharedInv, SharedTypes, CaughtUp, shared

LEMMA SharedInvStep ==
  ASSUME TypeInv, RingInv, SharedInv, [SharedNext]_allvars
  PROVE  SharedInv'
<1>1. CASE UNCHANGED allvars
  BY <1>1 DEF allvars, shared, vars, SharedInv, SharedTypes, SentToPresent,
              CaughtUp, Clean
<1>2. CASE SharedNext
  BY <1>2, EnterStep, InSectionStep, OnRefreshStep, RingStepShared
     DEF SharedNext
<1> QED
  BY <1>1, <1>2

\* While the ring is clean and refreshes arrive, a board that changes the
\* table (add_global_route, remove_routes_by_output) starts from every change
\* made before, so that its refresh overwrites none (shared_state.c).
THEOREM NoRouteLostHolds == SharedSpec => []NoRouteLost
<1>1. TypeInv /\ RingInv /\ SharedInv => NoRouteLost
  BY PresentAssumption
     DEF SharedInv, SentToPresent, CaughtUp, NoRouteLost
<1>2. SharedSpec => []SharedInv
  <2>1. (TypeInv /\ RingInv) /\ SharedInv /\ [SharedNext]_allvars => SharedInv'
    BY SharedInvStep
  <2> QED
    BY <2>1, RingHolds, SharedInvInit, PTL DEF SharedSpec
<1> QED
  BY <1>1, <1>2, RingHolds, PTL
=============================================================================
