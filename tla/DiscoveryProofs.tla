-------------------------- MODULE DiscoveryProofs --------------------------
(***************************************************************************)
(* Theorems about Discovery, for any boards, any nodes around them, any    *)
(* delays (a slot being longer than the time to listen) and any mishaps.   *)
(***************************************************************************)
EXTENDS Discovery, SequenceTheorems, FiniteSetTheorems, WellFoundedInduction,
        NaturalsInduction, TLAPS

Loss == {"LOST", "TOOMANY"}
Event == {"GOT_IP"} \cup Loss
Step == {"start", "measure", "listen", "wait", "loop", "scan", "none"}

Message ==
  [type : {"rssi"}, from : Board, rssi : Nat]
  \cup [type : {"channels"}, from : Board, net : Node,
        formation : {formation_1, formation_2}]
  \cup [type : {"provision"}, from : Board]

StationState ==
  [active : BOOLEAN, full : BOOLEAN, retry : Nat, net : Node \cup {NoNode},
   client : BOOLEAN]

Types ==
  /\ task \in [Board -> [pc : Step, timer : Nat]]
  /\ rssi \in [Board -> [Device -> Nat]]
  /\ sta \in [Board -> StationState]
  /\ radio \in [Board -> {"idle", "connecting", "up"}]
  /\ events \in [Board -> Seq(Event)]
  /\ sta_lock \in [Board -> BOOLEAN]
  /\ suggested \in [Board -> 1 .. 11]
  /\ inbox \in [Board -> Seq(Message)]
  /\ provided \in [Board -> BOOLEAN]
  /\ offered \in [Board -> BOOLEAN]
  /\ ap \in [Board -> 0 .. 11]
  /\ misled \in BOOLEAN /\ disturbed \in BOOLEAN
  /\ mishaps \in Nat

----------------------------------------------------------------------------
(* The station of a board and the events before its handler.               *)

Rests(b) ==
  ~sta[b].active /\ ~sta[b].full /\ radio[b] = "idle" /\ events[b] = <<>>

Associating(b) ==
  /\ sta[b].active /\ ~sta[b].full /\ ~sta[b].client
  /\ radio[b] = "connecting" /\ events[b] = <<>>

Associated(b) ==
  /\ sta[b].active /\ radio[b] = "up"
  /\ \/ events[b] = <<"GOT_IP">> /\ ~sta[b].client
     \/ events[b] = <<>> /\ sta[b].full

Losing(b) ==
  /\ sta[b].active /\ radio[b] = "idle"
  /\ \E r \in Loss : \/ events[b] = <<r>>
                     \/ events[b] = <<"GOT_IP", r>> /\ ~sta[b].client

IsAp(b) == ap[b] # NoAp

Station(b) ==
  /\ Rests(b) \/ Associating(b) \/ Associated(b) \/ Losing(b)
  /\ sta[b].active => sta[b].net \in Node
  /\ sta[b].client => IsAp(b) \/ sta[b].full
  /\ task[b].pc = "scan" => ~sta[b].active
  /\ IsAp(b) => Rests(b) /\ task[b].pc = "none" /\ provided[b]

StationInv == \A b \in Board : Station(b)

----------------------------------------------------------------------------
(* Turns.                                                                  *)

Past(c) == task[c].pc \notin {"start", "measure"}

\* Whose measurement a board has, or will have, has measured.
HeardInv ==
  \A b \in Board :
    /\ \A c \in Board : rssi[b][c] # Unknown => Past(c)
    /\ \A i \in 1 .. Len(inbox[b]) :
         inbox[b][i].type = "rssi" => Past(inbox[b][i].from)

Wait(b) == Place(b) * SLOT

\* Board c scans before board b: it does so already or will start to.
Sooner(c, b) ==
  /\ task[b].pc = "wait" =>
       /\ task[c].pc = "listen" => task[c].timer + Wait(c) < task[b].timer
       /\ task[c].pc = "wait" => task[c].timer < task[b].timer
  /\ task[b].pc \in {"loop", "scan"} => task[c].pc \in {"loop", "scan", "none"}

TurnInv ==
  ~misled =>
    /\ \A b \in Board : task[b].pc = "wait" => task[b].timer <= Wait(b)
    /\ \A b, c \in Board : task[b].pc \in {"wait", "loop", "scan"} => Past(c)
    /\ \A b, c \in Board : Place(c) < Place(b) => Sooner(c, b)

ListenInv == \A b \in Board : task[b].pc = "listen" => task[b].timer <= LISTEN_TIME

----------------------------------------------------------------------------
(* Announcements.                                                          *)

Silent(q) == \A i \in 1 .. Len(q) : q[i].type = "rssi"
Announces(q) == \E i \in 1 .. Len(q) : q[i].type = "channels"

\* The last announcement of line q has formation f.
LastSays(q, f) ==
  \A i \in 1 .. Len(q) :
    q[i].type = "channels" /\ (\A j \in i + 1 .. Len(q) : q[j].type # "channels")
      => q[i].formation = f

\* A disabled board has no connection and does not get one.
Quiet(b) ==
  /\ task[b].pc # "scan" /\ ~sta[b].full /\ radio[b] = "idle"
  /\ \/ events[b] = <<>>
     \/ sta[b].retry = MAX_RETRIES /\ \E r \in Loss : events[b] = <<r>>

NoneYet ==
  \A b \in Board :
    /\ ~IsAp(b) /\ ~provided[b] /\ ~offered[b] /\ ~sta_lock[b] /\ ~sta[b].client
    /\ Silent(inbox[b])

\* A board that is not the one that announced: it knows, or will hear of it
\* before it is connected, or it has become an access point.
Follows(b) ==
  /\ ~sta[b].client
  /\ provided[b] => IsAp(b)
  /\ Announces(inbox[b]) \/ sta_lock[b] \/ IsAp(b)
  /\ sta_lock[b] => Quiet(b)

\* What it will do with its access point.
Suggests(b, f) ==
  /\ LastSays(inbox[b], f)
  /\ ~Announces(inbox[b]) => suggested[b] = ChannelIn(f, b)

Sole(u) ==
  /\ ~sta_lock[u] /\ ~IsAp(u) /\ ~offered[u] /\ Silent(inbox[u])
  /\ \A b \in Board \ {u} :
       /\ Follows(b)
       /\ sta[u].client /\ ~IsAp(b)
            => Suggests(b, Formation(Channel[sta[u].net]))

SoleInv == ~disturbed => NoneYet \/ \E u \in Board : Sole(u)

DiscoveryInv ==
  Types /\ StationInv /\ HeardInv /\ ListenInv /\ TurnInv /\ SoleInv

----------------------------------------------------------------------------
(* Numbers.                                                                *)

LEMMA SmallestElement ==
  ASSUME NEW T \in SUBSET Nat, T # {}
  PROVE  \E x \in T : \A y \in T : x <= y
<1> DEFINE R == OpToRel(<, Nat)
<1>1. IsWellFoundedOn(R, Nat)
  BY NatLessThanWellFounded, Zenon
<1>2. \A x, y \in Nat : <<y, x>> \in R <=> y < x
  BY DEF OpToRel
<1> HIDE DEF R
<1>3. PICK x \in T : \A y \in T : ~(<<y, x>> \in R)
  BY <1>1, WFMin
<1>4. ASSUME NEW y \in T PROVE x <= y
  <2>1. ~(y < x)
    BY <1>2, <1>3
  <2> QED
    BY <2>1, SMT
<1> QED
  BY <1>3, <1>4

LEMMA MinFacts ==
  ASSUME NEW T \in SUBSET Nat, T # {}
  PROVE  Min(T) \in T /\ \A y \in T : Min(T) <= y
BY SmallestElement DEF Min

\* By induction on the size, as a smallest set without a maximum.
LEMMA GreatestElement ==
  ASSUME NEW S \in SUBSET Nat, IsFiniteSet(S), S # {}
  PROVE  \E x \in S : \A y \in S : x >= y
<1> DEFINE Bad(X) == X # {} /\ ~ \E x \in X : \A y \in X : x >= y
           K == {k \in Nat : \E X \in SUBSET S : Bad(X) /\ Cardinality(X) = k}
<1>1. \A X \in SUBSET S : IsFiniteSet(X) /\ Cardinality(X) \in Nat
  BY FS_Subset, FS_CardinalityType
<1>2. SUFFICES ASSUME K # {} PROVE FALSE
  <2>1. S \in SUBSET S /\ Cardinality(S) \in Nat
    BY <1>1
  <2>2. K = {} => ~Bad(S)
    BY <2>1
  <2> QED
    BY <1>2, <2>2
<1>3. K \in SUBSET Nat
  OBVIOUS
<1>4. PICK k \in K : \A j \in K : k <= j
  BY <1>2, <1>3, SmallestElement
<1>5. PICK X \in SUBSET S : Bad(X) /\ Cardinality(X) = k
  BY <1>4
<1>6. PICK x \in X : TRUE
  BY <1>5
<1>7. /\ X \ {x} \in SUBSET S
      /\ Cardinality(X \ {x}) = Cardinality(X) - 1
  BY <1>1, <1>6, FS_RemoveElement
<1>8. Cardinality(X \ {x}) \notin K
  <2>1. k \in Nat /\ Cardinality(X \ {x}) = k - 1
    BY <1>3, <1>4, <1>5, <1>7
  <2> QED
    BY <1>4, <2>1, SMT
<1>9. ~Bad(X \ {x})
  BY <1>1, <1>7, <1>8
<1>10. CASE X \ {x} = {}
  <2>1. \A y \in X : y = x
    BY <1>10
  <2> QED
    BY <1>5, <1>6, <2>1
<1>11. CASE X \ {x} # {}
  <2>1. PICK z \in X \ {x} : \A y \in X \ {x} : z >= y
    BY <1>9, <1>11
  <2>2. x \in Nat /\ z \in Nat /\ X \subseteq Nat
    BY <1>6
  <2>3. CASE x >= z
    <3>1. \A y \in X : x >= y
      BY <2>1, <2>2, <2>3
    <3> QED
      BY <1>5, <1>6, <3>1
  <2>4. CASE ~(x >= z)
    <3>1. \A y \in X : z >= y
      BY <2>1, <2>2, <2>4
    <3> QED
      BY <1>5, <2>1, <3>1
  <2> QED
    BY <2>3, <2>4
<1> QED
  BY <1>10, <1>11

LEMMA MaxFacts ==
  ASSUME NEW S \in SUBSET Nat, IsFiniteSet(S), S # {}
  PROVE  Max(S) \in S
BY GreatestElement DEF Max

\* What a board may measure.
LEMMA SignalFacts ==
  ASSUME NEW b \in Board, NEW A \in SUBSET Node
  PROVE  Max({Signal[b][n] : n \in A} \cup {NoSignal}) \in Nat \ {Unknown}
<1> DEFINE S == {Signal[b][n] : n \in A}
<1>1. IsFiniteSet(A)
  BY NodesAssumption, FS_Subset
<1>2. IsFiniteSet(S)
  <2> DEFINE f == [n \in A |-> Signal[b][n]]
  <2>1. f \in Surjection(A, S)
    BY DEF Surjection
  <2> QED
    BY <1>1, <2>1, FS_Surjection
<1>3. \A n \in A : Signal[b][n] \in Nat \ {Unknown}
  BY NodesAssumption
<1>4. S \subseteq Nat \ {Unknown}
  BY <1>3
<1>5. NoSignal \in Nat /\ NoSignal # Unknown
  BY DEF NoSignal, Unknown
<1> HIDE DEF S
<1>6. IsFiniteSet(S \cup {NoSignal})
  BY <1>2, FS_AddElement
<1>7. S \cup {NoSignal} \in SUBSET Nat /\ S \cup {NoSignal} # {}
  BY <1>4, <1>5
<1>8. Max(S \cup {NoSignal}) \in S \cup {NoSignal}
  BY <1>6, <1>7, MaxFacts
<1> QED
  BY <1>4, <1>5, <1>8 DEF S

LEMMA BoardFacts == Board \subseteq Device /\ Device = 0 .. 3
BY BoardsAssumption DEF Board, Device

LEMMA MeasuredFacts ==
  /\ Measured \in [Device -> Nat]
  /\ \A b \in Board : Measured[b] # Unknown
<1>1. \A b \in Board :
        Max({Signal[b][n] : n \in Node} \cup {NoSignal}) \in Nat \ {Unknown}
  BY SignalFacts
<1>2. Unknown \in Nat
  BY DEF Unknown
<1> QED
  BY <1>1, <1>2, BoardFacts DEF Measured

LEMMA StrongestFacts ==
  ASSUME NEW list \in [Device -> Nat]
  PROVE  Strongest(list) \in Device
<1> DEFINE S == {list[d] : d \in Device}
           B(b) == \A c \in Device : list[c] < list[b] \/ (list[c] = list[b] /\ b <= c)
<1>1. PICK x \in Device : \A c \in Device : list[x] >= list[c]
  <2> DEFINE W(x) == \A c \in Device : list[x] >= list[c]
  <2>1. 0 \in Device /\ 1 \in Device /\ 2 \in Device /\ 3 \in Device
    BY BoardFacts
  <2>2. \A c \in Device : c = 0 \/ c = 1 \/ c = 2 \/ c = 3
    BY BoardFacts
  <2>3. list[0] \in Nat /\ list[1] \in Nat /\ list[2] \in Nat /\ list[3] \in Nat
    BY <2>1
  <2>4. W(0) \/ W(1) \/ W(2) \/ W(3)
    BY <2>2, <2>3
  <2> QED
    BY <2>1, <2>4
<1>2. DEFINE T == {d \in Device : list[d] = list[x]}
<1>3. T \in SUBSET Nat /\ T # {}
  BY <1>1, BoardFacts
<1>4. PICK b \in T : \A c \in T : b <= c
  BY <1>3, SmallestElement
<1>5. b \in Device /\ B(b)
  BY <1>1, <1>4
<1> HIDE DEF B
<1>6. \E d \in Device : B(d)
  BY <1>5
<1> QED
  BY <1>6 DEF Strongest, B

LEMMA PlaceFacts ==
  /\ \A b \in Board : Place(b) \in 0 .. 3 /\ Turn(b, Measured) = Place(b)
  /\ \A b \in Board : Wait(b) \in Nat
  /\ \A b, c \in Board : Place(c) < Place(b) => Wait(c) + SLOT <= Wait(b)
<1>1. Strongest(Measured) \in 0 .. 3
  BY MeasuredFacts, StrongestFacts, BoardFacts
<1>2. \A b \in 0 .. 3 : b \in Board => b \in 0 .. 3
  OBVIOUS
<1>3. ASSUME NEW b \in Board, NEW s, s = Strongest(Measured)
      PROVE  Place(b) \in 0 .. 3 /\ Turn(b, Measured) = Place(b)
  <2>1. b \in 0 .. 3 /\ s \in 0 .. 3
    BY <1>1, <1>3, BoardFacts
  <2>2. Place(b) = IF b >= s THEN b - s ELSE b + 4 - s
    BY <1>3 DEF Place
  <2>3. Turn(b, Measured) = (b - s + 4) % 4
    BY <1>3 DEF Turn
  <2>4. (b - s + 4) % 4 = IF b >= s THEN b - s ELSE b + 4 - s
    BY <2>1, SMT
  <2> QED
    BY <2>1, <2>2, <2>3, <2>4
<1>4. SLOT \in Nat
  BY TimesAssumption
<1>5. \A p, q \in 0 .. 3 : p * SLOT \in Nat /\ (p < q => p * SLOT + SLOT <= q * SLOT)
  <2>1. /\ 0 * SLOT = 0 /\ 1 * SLOT = SLOT /\ 2 * SLOT = SLOT + SLOT
        /\ 3 * SLOT = SLOT + SLOT + SLOT
    BY <1>4
  <2>2. \A p \in 0 .. 3 : p = 0 \/ p = 1 \/ p = 2 \/ p = 3
    OBVIOUS
  <2> QED
    BY <1>4, <2>1, <2>2
<1> QED
  BY <1>3, <1>5 DEF Wait

\* select_formation stays away from the channel of the connection.
LEMMA FormationFacts ==
  ASSUME NEW c \in 1 .. 11, NEW b \in Board
  PROVE  /\ Formation(c) \in {formation_1, formation_2}
         /\ ChannelIn(Formation(c), b) # c
<1>1. b \in 0 .. 3
  BY BoardFacts
<1>2. b = 0 \/ b = 1 \/ b = 2 \/ b = 3
  BY <1>1
<1>3. /\ formation_1[1] = 1 /\ formation_1[2] = 7 /\ formation_1[3] = 4
      /\ formation_1[4] = 10
      /\ formation_2[1] = 5 /\ formation_2[2] = 11 /\ formation_2[3] = 8
      /\ formation_2[4] = 2
  BY DEF formation_1, formation_2
<1>4. CASE \E i \in 1 .. 4 : formation_1[i] = c
  <2>1. Formation(c) = formation_2
    BY <1>4 DEF Formation
  <2>2. c \in {1, 7, 4, 10}
    BY <1>3, <1>4
  <2> QED
    BY <1>2, <1>3, <2>1, <2>2 DEF ChannelIn
<1>5. CASE ~ \E i \in 1 .. 4 : formation_1[i] = c
  <2>1. Formation(c) = formation_1
    BY <1>5 DEF Formation
  <2>2. b + 1 \in 1 .. 4
    BY <1>2
  <2> QED
    BY <1>5, <2>1, <2>2 DEF ChannelIn
<1> QED
  BY <1>4, <1>5

LEMMA ChannelFacts ==
  ASSUME NEW f \in {formation_1, formation_2}, NEW b \in Board
  PROVE  ChannelIn(f, b) \in 1 .. 11
<1>1. b = 0 \/ b = 1 \/ b = 2 \/ b = 3
  BY BoardFacts
<1>2. /\ formation_1[1] = 1 /\ formation_1[2] = 7 /\ formation_1[3] = 4
      /\ formation_1[4] = 10
      /\ formation_2[1] = 5 /\ formation_2[2] = 11 /\ formation_2[3] = 8
      /\ formation_2[4] = 2
  BY DEF formation_1, formation_2
<1> QED
  BY <1>1, <1>2 DEF ChannelIn

----------------------------------------------------------------------------
(* What the steps do.                                                      *)

LEMMA TailFacts ==
  ASSUME NEW S, NEW q \in Seq(S), q # <<>>
  PROVE  /\ Tail(q) \in Seq(S) /\ Head(q) = q[1] /\ Head(q) \in S
         /\ Len(q) \in Nat \ {0} /\ Len(Tail(q)) = Len(q) - 1
         /\ \A i \in 1 .. Len(q) - 1 : Tail(q)[i] = q[i + 1]
BY HeadTailProperties, LenProperties, EmptySeq, SMT

LEMMA AppendFacts ==
  ASSUME NEW S, NEW q \in Seq(S), NEW e \in S
  PROVE  /\ Append(q, e) \in Seq(S)
         /\ Len(q) \in Nat /\ Len(Append(q, e)) = Len(q) + 1
         /\ \A i \in 1 .. Len(q) : Append(q, e)[i] = q[i]
         /\ Append(q, e)[Len(q) + 1] = e
BY AppendProperties, LenProperties

LEMMA AppendSecond ==
  ASSUME NEW x, NEW y
  PROVE  Append(<<x>>, y) = <<x, y>>
<1> DEFINE s == <<x>>
           u == <<x, y>>
<1>1. /\ s \in Seq({x, y}) /\ u \in Seq({x, y}) /\ Len(s) = 1 /\ Len(u) = 2
      /\ s[1] = x /\ u[1] = x /\ u[2] = y
  BY SMT
<1> HIDE DEF s, u
<1>2. /\ Append(s, y) \in Seq({x, y}) /\ Len(Append(s, y)) = 2
      /\ Append(s, y)[1] = x /\ Append(s, y)[2] = y
  BY <1>1, AppendProperties, SMT
<1>3. \A i \in 1 .. 2 : Append(s, y)[i] = u[i]
  BY <1>1, <1>2, SMT
<1>4. Append(s, y) = u
  BY <1>1, <1>2, <1>3, SeqEqual
<1> QED
  BY <1>4 DEF s, u

\* The lines of events that occur.
LEMMA EventFacts ==
  /\ <<>> \in Seq(Event) /\ <<"GOT_IP">> \in Seq(Event)
  /\ Append(<<>>, "GOT_IP") = <<"GOT_IP">>
  /\ Tail(<<"GOT_IP">>) = <<>> /\ Head(<<"GOT_IP">>) = "GOT_IP"
  /\ \A r \in Loss :
       /\ <<r>> \in Seq(Event) /\ <<"GOT_IP", r>> \in Seq(Event)
       /\ Append(<<>>, r) = <<r>> /\ Append(<<"GOT_IP">>, r) = <<"GOT_IP", r>>
       /\ Tail(<<r>>) = <<>> /\ Head(<<r>>) = r /\ r # "GOT_IP"
       /\ Tail(<<"GOT_IP", r>>) = <<r>> /\ Head(<<"GOT_IP", r>>) = "GOT_IP"
       /\ <<r>> # <<>> /\ <<"GOT_IP", r>> # <<>>
  /\ <<"GOT_IP">> # <<>>
<1>1. "GOT_IP" \in Event /\ \A r \in Loss : r \in Event /\ r # "GOT_IP"
  BY DEF Event, Loss
<1>2. /\ <<>> \in Seq(Event) /\ <<"GOT_IP">> \in Seq(Event)
      /\ Append(<<>>, "GOT_IP") = <<"GOT_IP">>
      /\ Tail(<<"GOT_IP">>) = <<>> /\ Head(<<"GOT_IP">>) = "GOT_IP"
      /\ <<"GOT_IP">> # <<>>
  BY <1>1
<1>3. ASSUME NEW r \in Loss
      PROVE  /\ <<r>> \in Seq(Event) /\ <<"GOT_IP", r>> \in Seq(Event)
             /\ Append(<<>>, r) = <<r>> /\ Tail(<<r>>) = <<>> /\ Head(<<r>>) = r
             /\ Append(<<"GOT_IP">>, r) = <<"GOT_IP", r>>
             /\ Tail(<<"GOT_IP", r>>) = <<r>> /\ Head(<<"GOT_IP", r>>) = "GOT_IP"
             /\ <<r>> # <<>> /\ <<"GOT_IP", r>> # <<>>
  <2>1. r \in Event
    BY <1>1
  <2>2. <<r>> \in Seq(Event) /\ <<"GOT_IP", r>> \in Seq(Event)
    BY <1>1, <2>1
  <2>3. Append(<<>>, r) = <<r>> /\ Tail(<<r>>) = <<>> /\ Head(<<r>>) = r
    OBVIOUS
  <2>4. Append(<<"GOT_IP">>, r) = <<"GOT_IP", r>>
    BY AppendSecond
  <2>5. Tail(<<"GOT_IP", r>>) = <<r>> /\ Head(<<"GOT_IP", r>>) = "GOT_IP"
    OBVIOUS
  <2>6. <<r>> # <<>> /\ <<"GOT_IP", r>> # <<>>
    OBVIOUS
  <2> QED
    BY <2>2, <2>3, <2>4, <2>5, <2>6
<1> QED
  BY <1>1, <1>2, <1>3

LEMMA StaSet ==
  ASSUME Types, NEW b \in Board, NEW s \in StationState,
         sta' = [sta EXCEPT ![b] = s]
  PROVE  /\ sta' \in [Board -> StationState] /\ sta'[b] = s
         /\ \A c \in Board : c # b => sta'[c] = sta[c]
BY DEF Types

LEMMA ConnectSta ==
  ASSUME Types, NEW b \in Board, NEW n \in Node, StationConnect(b, n)
  PROVE  /\ sta' \in [Board -> StationState]
         /\ \A c \in Board : c # b => sta'[c] = sta[c]
         /\ sta'[b].active /\ sta'[b].net = n
         /\ sta'[b].full = sta[b].full /\ sta'[b].client = sta[b].client
<1> DEFINE s == [sta[b] EXCEPT !.active = TRUE, !.retry = 0, !.net = n]
<1>1. sta' = [sta EXCEPT ![b] = s]
  BY Zenon DEF StationConnect, Types
<1>2. sta[b] \in StationState
  BY DEF Types
<1>3. /\ s \in StationState /\ s.active /\ s.net = n
      /\ s.full = sta[b].full /\ s.client = sta[b].client
  BY <1>2 DEF StationState
<1> HIDE DEF s
<1> QED
  BY <1>1, <1>3, StaSet

LEMMA DisconnectedSta ==
  ASSUME Types, NEW b \in Board, NEW r \in Loss, OnDisconnected(b, r)
  PROVE  /\ sta' \in [Board -> StationState]
         /\ \A c \in Board : c # b => sta'[c] = sta[c]
         /\ ~sta'[b].full /\ sta'[b].net = sta[b].net
         /\ sta'[b].client <=> sta[b].client /\ ~sta[b].full
         /\ IF Retry(b, r) < MAX_RETRIES
            THEN sta'[b].active = sta[b].active /\ Connecting(b)
            ELSE ~sta'[b].active /\ UNCHANGED radio
         /\ Retry(b, r) \in Nat
<1>1. sta[b] \in StationState
  BY DEF Types
<1>2. Retry(b, r) \in Nat
  BY <1>1, LimitsAssumption DEF StationState, Retry
<1> DEFINE cl == sta[b].client /\ ~sta[b].full
           k == Retry(b, r) + 1
<1>c. cl \in BOOLEAN /\ k \in Nat
  BY <1>2
<1>3. CASE Retry(b, r) < MAX_RETRIES
  <2> DEFINE s == [sta[b] EXCEPT !.full = FALSE, !.client = cl, !.retry = k]
  <2>1. sta' = [sta EXCEPT ![b] = s] /\ Connecting(b)
    BY <1>3, Zenon DEF OnDisconnected, Types
  <2> HIDE DEF cl, k
  <2>2. /\ s \in StationState /\ ~s.full /\ s.net = sta[b].net
        /\ s.client = cl /\ s.active = sta[b].active
    BY <1>1, <1>c DEF StationState
  <2> HIDE DEF s
  <2>3. /\ sta' \in [Board -> StationState] /\ sta'[b] = s
        /\ \A c \in Board : c # b => sta'[c] = sta[c]
    BY <2>1, <2>2, StaSet
  <2> QED
    BY <1>2, <1>3, <2>1, <2>2, <2>3 DEF cl
<1>4. CASE ~(Retry(b, r) < MAX_RETRIES)
  <2> DEFINE s == [sta[b] EXCEPT !.full = FALSE, !.client = cl,
                                 !.retry = 0, !.active = FALSE]
  <2>1. sta' = [sta EXCEPT ![b] = s] /\ UNCHANGED radio
    BY <1>4, Zenon DEF OnDisconnected, Types
  <2> HIDE DEF cl
  <2>2. /\ s \in StationState /\ ~s.full /\ s.net = sta[b].net
        /\ s.client = cl /\ ~s.active
    BY <1>1, <1>c DEF StationState
  <2> HIDE DEF s
  <2>3. /\ sta' \in [Board -> StationState] /\ sta'[b] = s
        /\ \A c \in Board : c # b => sta'[c] = sta[c]
    BY <2>1, <2>2, StaSet
  <2> QED
    BY <1>2, <1>4, <2>1, <2>2, <2>3 DEF cl
<1> QED
  BY <1>3, <1>4

LEMMA LeaseSta ==
  ASSUME Types, NEW b \in Board, OnLease(b)
  PROVE  /\ sta' \in [Board -> StationState]
         /\ \A c \in Board : c # b => sta'[c] = sta[c]
         /\ sta'[b].full /\ sta'[b].net = sta[b].net
         /\ sta'[b].client = sta[b].client /\ sta'[b].active = sta[b].active
<1> DEFINE s == [sta[b] EXCEPT !.full = TRUE]
<1>1. sta' = [sta EXCEPT ![b] = s]
  BY Zenon DEF OnLease, Types
<1>2. sta[b] \in StationState
  BY DEF Types
<1>3. /\ s \in StationState /\ s.full /\ s.net = sta[b].net
      /\ s.client = sta[b].client /\ s.active = sta[b].active
  BY <1>2 DEF StationState
<1> HIDE DEF s
<1> QED
  BY <1>1, <1>3, StaSet

LEMMA StaticSta ==
  ASSUME Types, NEW b \in Board, OnStaticAddress(b)
  PROVE  /\ sta' \in [Board -> StationState]
         /\ \A c \in Board : c # b => sta'[c] = sta[c]
         /\ sta'[b].client /\ sta'[b].net = sta[b].net
         /\ sta'[b].full = sta[b].full /\ sta'[b].active = sta[b].active
<1> DEFINE s == [sta[b] EXCEPT !.client = TRUE, !.retry = 0]
<1>1. sta' = [sta EXCEPT ![b] = s]
  BY Zenon DEF OnStaticAddress, Types
<1>2. sta[b] \in StationState
  BY DEF Types
<1>3. /\ s \in StationState /\ s.client /\ s.net = sta[b].net
      /\ s.full = sta[b].full /\ s.active = sta[b].active
  BY <1>2 DEF StationState
<1> HIDE DEF s
<1> QED
  BY <1>1, <1>3, StaSet

LEMMA DisableSta ==
  ASSUME Types, NEW b \in Board, StationDisconnect(b)
  PROVE  /\ sta' \in [Board -> StationState]
         /\ \A c \in Board : c # b => sta'[c] = sta[c]
         /\ sta'[b].client = sta[b].client /\ sta'[b].net = sta[b].net
         /\ sta'[b].full = sta[b].full /\ sta'[b].active = sta[b].active
         /\ sta[b].active => sta'[b].retry = MAX_RETRIES
<1> DEFINE n == IF sta[b].active THEN MAX_RETRIES ELSE sta[b].retry
           s == [sta[b] EXCEPT !.retry = n]
<1>1. sta' = [sta EXCEPT ![b] = s]
  BY Zenon DEF StationDisconnect, Types
<1>2. sta[b] \in StationState
  BY DEF Types
<1>3. n \in Nat /\ (sta[b].active => n = MAX_RETRIES)
  BY <1>2, LimitsAssumption DEF StationState
<1> HIDE DEF n
<1>4. /\ s \in StationState /\ s.client = sta[b].client /\ s.net = sta[b].net
      /\ s.full = sta[b].full /\ s.active = sta[b].active /\ s.retry = n
  BY <1>2, <1>3 DEF StationState
<1> HIDE DEF s
<1> QED
  BY <1>1, <1>3, <1>4, StaSet

LEMMA ResetSta ==
  ASSUME Types, NEW b \in Board, StationReset(b)
  PROVE  /\ sta' \in [Board -> StationState]
         /\ \A c \in Board : c # b => sta'[c] = sta[c]
         /\ ~sta'[b].full /\ ~sta'[b].active
         /\ sta'[b].client = sta[b].client /\ sta'[b].net = sta[b].net
<1> DEFINE s == [sta[b] EXCEPT !.full = FALSE, !.active = FALSE]
<1>1. sta' = [sta EXCEPT ![b] = s]
  BY Zenon DEF StationReset, Types
<1>2. sta[b] \in StationState
  BY DEF Types
<1>3. /\ s \in StationState /\ ~s.full /\ ~s.active
      /\ s.client = sta[b].client /\ s.net = sta[b].net
  BY <1>2 DEF StationState
<1> HIDE DEF s
<1> QED
  BY <1>1, <1>3, StaSet

\* A broadcast fills the lines of the siblings.
LEMMA BroadcastFacts ==
  ASSUME Types, NEW b \in Board, NEW m \in Message, Broadcast(b, m)
  PROVE  /\ inbox' \in [Board -> Seq(Message)] /\ mishaps' \in Nat
         /\ inbox'[b] = inbox[b]
         /\ \A c \in Board : inbox'[c] = inbox[c] \/ inbox'[c] = Append(inbox[c], m)
         /\ mishaps' = mishaps =>
              \A c \in Board \ {b} : inbox'[c] = Append(inbox[c], m)
<1>1. PICK R \in SUBSET (Board \ {b}) :
        /\ IF R = Board \ {b} THEN UNCHANGED mishaps ELSE Mishap
        /\ inbox' = [c \in Board |-> IF c \in R THEN Append(inbox[c], m)
                                                ELSE inbox[c]]
  BY DEF Broadcast
<1>2. \A c \in Board : inbox[c] \in Seq(Message)
  BY DEF Types
<1>3. \A c \in Board : Append(inbox[c], m) \in Seq(Message)
  BY <1>2, AppendFacts
<1>4. /\ inbox' \in [Board -> Seq(Message)] /\ inbox'[b] = inbox[b]
      /\ \A c \in Board : inbox'[c] = inbox[c] \/ inbox'[c] = Append(inbox[c], m)
      /\ \A c \in R : inbox'[c] = Append(inbox[c], m)
  BY <1>1, <1>2, <1>3
<1>5. mishaps' \in Nat /\ (mishaps' = mishaps => R = Board \ {b})
  BY <1>1 DEF Types, Mishap
<1> QED
  BY <1>4, <1>5

\* The sibling-message task takes the first message of its line.
LEMMA TakeFacts ==
  ASSUME Types, NEW b \in Board, inbox[b] # <<>>, TakeMessage(b)
  PROVE  /\ inbox' \in [Board -> Seq(Message)] /\ inbox'[b] = Tail(inbox[b])
         /\ \A c \in Board : c # b => inbox'[c] = inbox[c]
         /\ Head(inbox[b]) \in Message
<1>1. inbox[b] \in Seq(Message)
  BY DEF Types
<1>2. Tail(inbox[b]) \in Seq(Message) /\ Head(inbox[b]) \in Message
  BY <1>1, TailFacts
<1> QED
  BY <1>2 DEF Types, TakeMessage

----------------------------------------------------------------------------
(* Types, and what a step of one board leaves alone.                       *)

\* The three branches of the station's event handler.
Handles(b, x) ==
  /\ events[b] # <<>> /\ Head(events[b]) = x
  /\ UNCHANGED <<task, rssi, sta_lock, routing, misled>>
Disconnects(b, r) == Handles(b, r) /\ OnDisconnected(b, r)
Leases(b) == Handles(b, "GOT_IP") /\ ~sta[b].full /\ OnLease(b)
Connects(b) == Handles(b, "GOT_IP") /\ sta[b].full /\ OnStaticAddress(b)

BoardStep(b) ==
  \/ StartsTask(b) \/ Measures(b) \/ Prioritizes(b) \/ EntersLoop(b)
  \/ StartsScan(b) \/ EndsScan(b)
  \/ Associates(b) \/ \E r \in Loss : Fails(b, r)
  \/ \E r \in Loss : Disconnects(b, r)
  \/ Leases(b) \/ Connects(b)
  \/ OnRssi(b) \/ OnChannels(b) \/ OnProvision(b)
  \/ Handshake(b) \/ BecomesAp(b)

LEMMA NextCases ==
  ASSUME [Next]_vars
  PROVE  UNCHANGED vars \/ Tick \/ \E b \in Board : BoardStep(b)
<1>1. ASSUME NEW b \in Board, StationEvent(b)
      PROVE  (\E r \in Loss : Disconnects(b, r)) \/ Leases(b) \/ Connects(b)
  <2>1. /\ events[b] # <<>> /\ UNCHANGED <<task, rssi, sta_lock, routing, misled>>
        /\ \/ Head(events[b]) \in Loss /\ OnDisconnected(b, Head(events[b]))
           \/ Head(events[b]) = "GOT_IP" /\ ~sta[b].full /\ OnLease(b)
           \/ Head(events[b]) = "GOT_IP" /\ sta[b].full /\ OnStaticAddress(b)
    BY <1>1, Zenon DEF StationEvent, Loss
  <2> QED
    BY <2>1, Zenon DEF Disconnects, Leases, Connects, Handles
<1> QED
  BY <1>1, Zenon
  DEF Next, BoardStep, StationTask, Driver, Sibling, Loss

Others(b) ==
  \A c \in Board : c # b =>
    /\ task'[c] = task[c] /\ sta'[c] = sta[c] /\ radio'[c] = radio[c]
    /\ events'[c] = events[c] /\ sta_lock'[c] = sta_lock[c]
    /\ suggested'[c] = suggested[c] /\ provided'[c] = provided[c]
    /\ offered'[c] = offered[c] /\ ap'[c] = ap[c]

LEMMA GoesFacts ==
  ASSUME Types, NEW b \in Board, NEW p \in Step, NEW t \in Nat, Goes(b, p, t)
  PROVE  /\ task' \in [Board -> [pc : Step, timer : Nat]]
         /\ task'[b].pc = p /\ task'[b].timer = t
         /\ \A c \in Board : c # b => task'[c] = task[c]
<1>1. task' = [task EXCEPT ![b] = [pc |-> p, timer |-> t]]
  BY DEF Goes
<1>2. [pc |-> p, timer |-> t] \in [pc : Step, timer : Nat]
  OBVIOUS
<1> QED
  BY <1>1, <1>2 DEF Types

LEMMA TurnFacts == \A b \in Board, list \in [Device -> Nat] : Turn(b, list) \in 0 .. 3
<1> SUFFICES ASSUME NEW b \in Board, NEW list \in [Device -> Nat]
             PROVE  Turn(b, list) \in 0 .. 3
  OBVIOUS
<1>1. Strongest(list) \in 0 .. 3 /\ b \in 0 .. 3
  BY StrongestFacts, BoardFacts
<1> QED
  BY <1>1, SMT DEF Turn

LEMMA MessageFacts ==
  ASSUME NEW b \in Board
  PROVE  /\ \A x \in Nat : [type |-> "rssi", from |-> b, rssi |-> x] \in Message
         /\ [type |-> "provision", from |-> b] \in Message
         /\ sta[b].net \in Node => Announced(b) \in Message
         /\ \A m \in Message : m.type \in {"rssi", "channels", "provision"}
         /\ \A m \in Message : m.from \in Board
         /\ \A m \in Message : m.type = "rssi" => m.rssi \in Nat
         /\ \A m \in Message :
              m.type = "channels" => m.formation \in {formation_1, formation_2}
<1>1. \A x \in Nat : [type |-> "rssi", from |-> b, rssi |-> x] \in Message
  BY DEF Message
<1>2. [type |-> "provision", from |-> b] \in Message
  BY DEF Message
<1>3. ASSUME sta[b].net \in Node PROVE Announced(b) \in Message
  <2>1. Channel[sta[b].net] \in 1 .. 11
    BY <1>3, NodesAssumption
  <2>2. Formation(Channel[sta[b].net]) \in {formation_1, formation_2}
    BY <2>1, FormationFacts
  <2> QED
    BY <1>3, <2>2 DEF Message, Announced
<1>4. ASSUME NEW m \in Message
      PROVE  /\ m.type \in {"rssi", "channels", "provision"} /\ m.from \in Board
             /\ m.type = "rssi" => m.rssi \in Nat
             /\ m.type = "channels" => m.formation \in {formation_1, formation_2}
  BY <1>4 DEF Message
<1> QED
  BY <1>1, <1>2, <1>3, <1>4

\* A board with an event before its handler is active.
LEMMA HandlesActive ==
  ASSUME NEW b \in Board, Station(b), events[b] # <<>>
  PROVE  sta[b].active /\ sta[b].net \in Node
BY DEF Station, Rests, Associating, Associated, Losing

LEMMA BoardStepTypes ==
  ASSUME Types, StationInv, NEW b \in Board, BoardStep(b)
  PROVE  Types' /\ Others(b)
<1> DEFINE G == Types' /\ Others(b)
<1>t. /\ SCAN_TIME \in Nat /\ LISTEN_TIME \in Nat /\ SLOT \in Nat
      /\ \A p \in 0 .. 3 : p * SLOT \in Nat
  BY TimesAssumption
<1>1. ASSUME StartsTask(b) PROVE G
  <2>1. Goes(b, "measure", SCAN_TIME) /\ "measure" \in Step
    BY <1>1 DEF StartsTask, Step
  <2>2. /\ task' \in [Board -> [pc : Step, timer : Nat]]
        /\ \A c \in Board : c # b => task'[c] = task[c]
    BY <1>t, <2>1, GoesFacts
  <2>3. [c \in Device |-> Unknown] \in [Device -> Nat]
    BY DEF Unknown
  <2>4. rssi' \in [Board -> [Device -> Nat]]
    BY <1>1, <2>3 DEF StartsTask, Types
  <2>5. UNCHANGED <<station, sta_lock, managers, inbox, routing, history>>
    BY <1>1 DEF StartsTask
  <2> QED
    BY <2>2, <2>4, <2>5
    DEF Types, Others, station, managers, routing, history
<1>2. ASSUME Measures(b) PROVE G
  <2>1. PICK best : /\ best = Max(Hears(b))
                    /\ rssi' = [rssi EXCEPT ![b][b] = best]
                    /\ Broadcast(b, [type |-> "rssi", from |-> b, rssi |-> best])
                    /\ Goes(b, "listen", LISTEN_TIME)
                    /\ UNCHANGED <<station, sta_lock, managers, routing, misled,
                                   disturbed>>
    BY <1>2, Zenon DEF Measures
  <2>2. best \in Nat
    <3>1. Allowed(b) \in SUBSET Node
      BY DEF Allowed
    <3> QED
      BY <2>1, <3>1, SignalFacts DEF Hears
  <2>3. [type |-> "rssi", from |-> b, rssi |-> best] \in Message
    BY <2>2, MessageFacts
  <2>4. inbox' \in [Board -> Seq(Message)] /\ mishaps' \in Nat
    BY <2>1, <2>3, BroadcastFacts
  <2>5. /\ task' \in [Board -> [pc : Step, timer : Nat]]
        /\ \A c \in Board : c # b => task'[c] = task[c]
    <3>1. "listen" \in Step
      BY DEF Step
    <3> QED
      BY <1>t, <2>1, <3>1, GoesFacts
  <2>6. rssi' \in [Board -> [Device -> Nat]]
    <3> DEFINE l == [rssi[b] EXCEPT ![b] = best]
    <3>1. rssi' = [rssi EXCEPT ![b] = l]
      BY <2>1, Zenon DEF Types
    <3>2. l \in [Device -> Nat]
      BY <2>2, BoardFacts DEF Types
    <3> HIDE DEF l
    <3> QED
      BY <3>1, <3>2 DEF Types
  <2> QED
    BY <2>1, <2>4, <2>5, <2>6
    DEF Types, Others, station, managers, routing
<1>3. ASSUME Prioritizes(b) PROVE G
  <2>1. /\ Goes(b, "wait", Turn(b, rssi[b]) * SLOT)
        /\ misled' = (misled \/ rssi[b] # Measured)
        /\ UNCHANGED <<rssi, station, sta_lock, managers, inbox, routing,
                       disturbed, mishaps>>
    BY <1>3 DEF Prioritizes
  <2>2. Turn(b, rssi[b]) * SLOT \in Nat
    BY <1>t, TurnFacts DEF Types
  <2>3. /\ task' \in [Board -> [pc : Step, timer : Nat]]
        /\ \A c \in Board : c # b => task'[c] = task[c]
    <3>1. "wait" \in Step
      BY DEF Step
    <3> QED
      BY <2>1, <2>2, <3>1, GoesFacts
  <2>4. misled' \in BOOLEAN
    BY <2>1
  <2> QED
    BY <2>1, <2>3, <2>4 DEF Types, Others, station, managers, routing
<1>4. ASSUME EntersLoop(b) \/ StartsScan(b) PROVE G
  <2>1. /\ Goes(b, "loop", 0) \/ Goes(b, "scan", 0)
        /\ UNCHANGED <<rssi, station, sta_lock, managers, inbox, routing, history>>
    BY <1>4 DEF EntersLoop, StartsScan
  <2>2. "loop" \in Step /\ "scan" \in Step /\ 0 \in Nat
    BY DEF Step
  <2>3. /\ task' \in [Board -> [pc : Step, timer : Nat]]
        /\ \A c \in Board : c # b => task'[c] = task[c]
    BY <2>1, <2>2, GoesFacts
  <2> QED
    BY <2>1, <2>3 DEF Types, Others, station, managers, routing, history
<1>5. ASSUME EndsScan(b) PROVE G
  <2>1. /\ Goes(b, "loop", 0)
        /\ UNCHANGED <<rssi, events, sta_lock, managers, inbox, routing, history>>
        /\ UNCHANGED <<sta, radio>> \/ \E n \in Node : StationConnect(b, n)
    BY <1>5 DEF EndsScan, Allowed
  <2>2. "loop" \in Step /\ 0 \in Nat
    BY DEF Step
  <2>3. /\ task' \in [Board -> [pc : Step, timer : Nat]]
        /\ \A c \in Board : c # b => task'[c] = task[c]
    BY <2>1, <2>2, GoesFacts
  <2>4. /\ sta' \in [Board -> StationState]
        /\ \A c \in Board : c # b => sta'[c] = sta[c]
    BY <2>1, ConnectSta DEF Types
  <2>5. /\ radio' \in [Board -> {"idle", "connecting", "up"}]
        /\ \A c \in Board : c # b => radio'[c] = radio[c]
    BY <2>1 DEF Types, StationConnect, Connecting
  <2> QED
    BY <2>1, <2>3, <2>4, <2>5 DEF Types, Others, managers, routing, history
<1>6. ASSUME Associates(b) PROVE G
  <2>1. events[b] \in Seq(Event) /\ "GOT_IP" \in Event
    BY DEF Types, Event
  <2>2. Append(events[b], "GOT_IP") \in Seq(Event)
    BY <2>1, AppendFacts
  <2>3. events' = [events EXCEPT ![b] = Append(events[b], "GOT_IP")]
    BY <1>6 DEF Associates
  <2>4. events' \in [Board -> Seq(Event)] /\ \A c \in Board : c # b => events'[c] = events[c]
    BY <2>2, <2>3 DEF Types
  <2>5. /\ radio' \in [Board -> {"idle", "connecting", "up"}]
        /\ \A c \in Board : c # b => radio'[c] = radio[c]
        /\ UNCHANGED <<task, rssi, sta, sta_lock, managers, inbox, routing, history>>
    BY <1>6 DEF Types, Associates
  <2> QED
    BY <2>4, <2>5 DEF Types, Others, managers, routing, history
<1>7. ASSUME NEW r \in Loss, Fails(b, r) PROVE G
  <2>1. events[b] \in Seq(Event) /\ r \in Event
    BY DEF Types, Event
  <2>2. Append(events[b], r) \in Seq(Event)
    BY <2>1, AppendFacts
  <2>3. events' = [events EXCEPT ![b] = Append(events[b], r)]
    BY <1>7 DEF Fails
  <2>4. events' \in [Board -> Seq(Event)] /\ \A c \in Board : c # b => events'[c] = events[c]
    BY <2>2, <2>3 DEF Types
  <2>5. /\ radio' \in [Board -> {"idle", "connecting", "up"}]
        /\ \A c \in Board : c # b => radio'[c] = radio[c]
        /\ mishaps' \in Nat
        /\ UNCHANGED <<task, rssi, sta, sta_lock, managers, inbox, routing, misled,
                       disturbed>>
    BY <1>7 DEF Types, Fails, Mishap
  <2> QED
    BY <2>4, <2>5 DEF Types, Others, managers, routing
\* The rest of a line of events.
<1>e. ASSUME NEW x, Handles(b, x)
      PROVE  /\ Tail(events[b]) \in Seq(Event)
             /\ UNCHANGED <<task, rssi, sta_lock, routing, misled>>
             /\ sta[b].net \in Node
  <2>1. events[b] \in Seq(Event) /\ events[b] # <<>>
    BY <1>e DEF Types, Handles
  <2> QED
    BY <1>e, <2>1, TailFacts, HandlesActive DEF Handles, StationInv
<1>8. ASSUME NEW r \in Loss, Disconnects(b, r) PROVE G
  <2>1. /\ OnDisconnected(b, r) /\ Tail(events[b]) \in Seq(Event)
        /\ UNCHANGED <<task, rssi, sta_lock, routing, misled>>
    BY <1>8, <1>e DEF Disconnects
  <2>2. /\ sta' \in [Board -> StationState]
        /\ \A c \in Board : c # b => sta'[c] = sta[c]
    BY <2>1, DisconnectedSta
  <2>3. Connecting(b) \/ UNCHANGED radio
    BY <2>1, DisconnectedSta
  <2>4. /\ radio' \in [Board -> {"idle", "connecting", "up"}]
        /\ \A c \in Board : c # b => radio'[c] = radio[c]
    BY <2>3 DEF Types, Connecting
  <2>5. /\ events' = [events EXCEPT ![b] = Tail(events[b])]
        /\ UNCHANGED <<suggested, blocked, inbox, mishaps, disturbed>>
    BY <2>1 DEF OnDisconnected
  <2> QED
    BY <2>1, <2>2, <2>4, <2>5 DEF Types, Others, routing
<1>9. ASSUME Leases(b) PROVE G
  <2>1. /\ OnLease(b) /\ Tail(events[b]) \in Seq(Event)
        /\ UNCHANGED <<task, rssi, sta_lock, routing, misled>>
    BY <1>9, <1>e DEF Leases
  <2>2. /\ sta' \in [Board -> StationState]
        /\ \A c \in Board : c # b => sta'[c] = sta[c]
    BY <2>1, LeaseSta
  <2>3. Append(Tail(events[b]), "GOT_IP") \in Seq(Event)
    BY <2>1, AppendFacts DEF Event
  <2>4. /\ \/ events' = [events EXCEPT ![b] = Tail(events[b])]
           \/ events' = [events EXCEPT ![b] = Append(Tail(events[b]), "GOT_IP")]
        /\ UNCHANGED <<radio, managers, inbox, mishaps, disturbed>>
    BY <2>1 DEF OnLease
  <2>5. events' \in [Board -> Seq(Event)] /\ \A c \in Board : c # b => events'[c] = events[c]
    BY <2>1, <2>3, <2>4 DEF Types
  <2> QED
    BY <2>1, <2>2, <2>4, <2>5 DEF Types, Others, managers, routing
<1>10. ASSUME Connects(b) PROVE G
  <2>1. /\ OnStaticAddress(b) /\ Tail(events[b]) \in Seq(Event) /\ sta[b].net \in Node
        /\ UNCHANGED <<task, rssi, sta_lock, routing, misled>>
    BY <1>10, <1>e DEF Connects
  <2>2. /\ sta' \in [Board -> StationState]
        /\ \A c \in Board : c # b => sta'[c] = sta[c]
    BY <2>1, StaticSta
  <2>3. Broadcast(b, Announced(b)) /\ Announced(b) \in Message
    BY <2>1, MessageFacts DEF OnStaticAddress
  <2>4. inbox' \in [Board -> Seq(Message)] /\ mishaps' \in Nat
    BY <2>3, BroadcastFacts
  <2>5. ChannelIn(Formation(Channel[sta[b].net]), b) \in 1 .. 11
    <3>1. Channel[sta[b].net] \in 1 .. 11
      BY <2>1, NodesAssumption
    <3> QED
      BY <3>1, FormationFacts, ChannelFacts
  <2>6. /\ suggested' = [suggested EXCEPT ![b] =
                            ChannelIn(Formation(Channel[sta[b].net]), b)]
        /\ disturbed' = (disturbed \/ mishaps' # mishaps \/ Overtaken(b))
        /\ events' = [events EXCEPT ![b] = Tail(events[b])]
        /\ UNCHANGED radio
    BY <2>1 DEF OnStaticAddress
  <2>7. /\ suggested' \in [Board -> 1 .. 11] /\ disturbed' \in BOOLEAN
        /\ \A c \in Board : c # b => suggested'[c] = suggested[c]
    BY <2>5, <2>6 DEF Types
  <2>8. events' \in [Board -> Seq(Event)] /\ \A c \in Board : c # b => events'[c] = events[c]
    BY <2>1, <2>6 DEF Types
  <2> QED
    BY <2>1, <2>2, <2>4, <2>6, <2>7, <2>8 DEF Types, Others, routing
<1>m. ASSUME NEW x, Received(b, x), TakeMessage(b)
      PROVE  /\ inbox' \in [Board -> Seq(Message)]
             /\ Head(inbox[b]) \in Message /\ Head(inbox[b]).type = x
  BY <1>m, TakeFacts DEF Received
<1>11. ASSUME OnRssi(b) PROVE G
  <2>1. PICK m : /\ m = Head(inbox[b])
                 /\ Received(b, "rssi") /\ TakeMessage(b)
                 /\ rssi' = [rssi EXCEPT ![b][m.from] = m.rssi]
                 /\ UNCHANGED <<task, station, sta_lock, managers, routing, history>>
    BY <1>11, Zenon DEF OnRssi
  <2>2. inbox' \in [Board -> Seq(Message)] /\ m \in Message /\ m.type = "rssi"
    BY <1>m, <2>1
  <2>3. m.from \in Board /\ m.rssi \in Nat
    BY <2>2, MessageFacts
  <2>4. rssi' \in [Board -> [Device -> Nat]]
    <3> DEFINE l == [rssi[b] EXCEPT ![m.from] = m.rssi]
    <3>1. rssi' = [rssi EXCEPT ![b] = l]
      BY <2>1, Zenon DEF Types
    <3>2. l \in [Device -> Nat]
      BY <2>3, BoardFacts DEF Types
    <3> HIDE DEF l
    <3> QED
      BY <3>1, <3>2 DEF Types
  <2> QED
    BY <2>1, <2>2, <2>4 DEF Types, Others, station, managers, routing, history
<1>12. ASSUME OnChannels(b) PROVE G
  <2>1. PICK m :
          /\ m = Head(inbox[b])
          /\ Received(b, "channels") /\ TakeMessage(b)
          /\ UNCHANGED <<task, rssi, full, routing, misled, mishaps>>
          /\ IF provided[b] THEN UNCHANGED <<station, sta_lock, suggested, disturbed>>
             ELSE /\ Disable(b)
                  /\ suggested' = [suggested EXCEPT ![b] = ChannelIn(m.formation, b)]
                  /\ disturbed' = (disturbed \/ BeyondLock(b))
    BY <1>12, Zenon DEF OnChannels
  <2>2. inbox' \in [Board -> Seq(Message)] /\ m \in Message /\ m.type = "channels"
    BY <1>m, <2>1
  <2>3. CASE provided[b]
    BY <2>1, <2>2, <2>3 DEF Types, Others, station, routing
  <2>4. CASE ~provided[b]
    <3>1. ChannelIn(m.formation, b) \in 1 .. 11
      BY <2>2, MessageFacts, ChannelFacts
    <3>2. /\ suggested' \in [Board -> 1 .. 11] /\ disturbed' \in BOOLEAN
          /\ \A c \in Board : c # b => suggested'[c] = suggested[c]
      BY <2>1, <2>4, <3>1 DEF Types
    <3>3. /\ StationDisconnect(b) /\ sta_lock' \in [Board -> BOOLEAN]
          /\ \A c \in Board : c # b => sta_lock'[c] = sta_lock[c]
      BY <2>1, <2>4 DEF Types, Disable
    <3>4. /\ sta' \in [Board -> StationState]
          /\ \A c \in Board : c # b => sta'[c] = sta[c]
      BY <3>3, DisableSta
    <3>5. \/ UNCHANGED <<radio, events>>
          \/ /\ radio' = [radio EXCEPT ![b] = "idle"]
             /\ events' = [events EXCEPT ![b] = Append(events[b], "LOST")]
      BY <3>3 DEF StationDisconnect
    <3>6. Append(events[b], "LOST") \in Seq(Event)
      <4>1. events[b] \in Seq(Event) /\ "LOST" \in Event
        BY DEF Types, Event, Loss
      <4> QED
        BY <4>1, AppendFacts
    <3>7. /\ radio' \in [Board -> {"idle", "connecting", "up"}]
          /\ events' \in [Board -> Seq(Event)]
          /\ \A c \in Board : c # b => radio'[c] = radio[c] /\ events'[c] = events[c]
      <4>1. CASE UNCHANGED <<radio, events>>
        BY <4>1 DEF Types
      <4>2. CASE /\ radio' = [radio EXCEPT ![b] = "idle"]
                 /\ events' = [events EXCEPT ![b] = Append(events[b], "LOST")]
        <5>1. /\ radio' \in [Board -> {"idle", "connecting", "up"}]
              /\ \A c \in Board : c # b => radio'[c] = radio[c]
          BY <4>2 DEF Types
        <5>2. /\ events' \in [Board -> Seq(Event)]
              /\ \A c \in Board : c # b => events'[c] = events[c]
          BY <3>6, <4>2 DEF Types
        <5> QED
          BY <5>1, <5>2
      <4> QED
        BY <3>5, <4>1, <4>2
    <3> QED
      BY <2>1, <2>2, <3>2, <3>3, <3>4, <3>7 DEF Types, Others, routing
  <2> QED
    BY <2>3, <2>4
<1>13. ASSUME OnProvision(b) PROVE G
  <2>1. /\ Received(b, "provision") /\ TakeMessage(b)
        /\ offered' = [offered EXCEPT ![b] = TRUE]
        /\ UNCHANGED <<task, rssi, station, sta_lock, managers, provided, ap, history>>
    BY <1>13 DEF OnProvision
  <2>2. inbox' \in [Board -> Seq(Message)]
    BY <1>m, <2>1
  <2> QED
    BY <2>1, <2>2 DEF Types, Others, station, managers, history
<1>14. ASSUME Handshake(b) PROVE G
  <2>1. /\ provided' = [provided EXCEPT ![b] = TRUE]
        /\ Broadcast(b, [type |-> "provision", from |-> b])
        /\ UNCHANGED <<task, rssi, station, sta_lock, managers, offered, ap, misled,
                       disturbed>>
    BY <1>14 DEF Handshake
  <2>2. inbox' \in [Board -> Seq(Message)] /\ mishaps' \in Nat
    BY <2>1, MessageFacts, BroadcastFacts
  <2> QED
    BY <2>1, <2>2 DEF Types, Others, station, managers
<1>15. ASSUME BecomesAp(b) PROVE G
  <2>1. /\ provided' = [provided EXCEPT ![b] = TRUE]
        /\ ap' = [ap EXCEPT ![b] = suggested[b]]
        /\ StationReset(b)
        /\ UNCHANGED <<rssi, managers, inbox, offered, history>>
    BY <1>15 DEF BecomesAp
  <2>2. /\ sta' \in [Board -> StationState]
        /\ \A c \in Board : c # b => sta'[c] = sta[c]
    BY <2>1, ResetSta
  <2>3. /\ Goes(b, "none", 0) /\ "none" \in Step /\ 0 \in Nat
        /\ radio' = [radio EXCEPT ![b] = "idle"]
        /\ events' = [events EXCEPT ![b] = <<>>]
        /\ sta_lock' = [sta_lock EXCEPT ![b] = FALSE]
    BY <2>1 DEF StationReset, Step
  <2>4. /\ task' \in [Board -> [pc : Step, timer : Nat]]
        /\ \A c \in Board : c # b => task'[c] = task[c]
    BY <2>3, GoesFacts
  <2>5. /\ ap' \in [Board -> 0 .. 11]
        /\ \A c \in Board : c # b => ap'[c] = ap[c] /\ provided'[c] = provided[c]
        /\ provided' \in [Board -> BOOLEAN]
    BY <2>1 DEF Types
  <2>6. /\ radio' \in [Board -> {"idle", "connecting", "up"}]
        /\ events' \in [Board -> Seq(Event)] /\ sta_lock' \in [Board -> BOOLEAN]
        /\ \A c \in Board : c # b =>
             /\ radio'[c] = radio[c] /\ events'[c] = events[c]
             /\ sta_lock'[c] = sta_lock[c]
    BY <2>3, EventFacts DEF Types
  <2> QED
    BY <2>1, <2>2, <2>4, <2>5, <2>6 DEF Types, Others, managers, history
<1> HIDE DEF G
<1>16. G
  BY <1>1, <1>2, <1>3, <1>4, <1>5, <1>6, <1>7, <1>8, <1>9, <1>10, <1>11, <1>12,
     <1>13, <1>14, <1>15, Zenon DEF BoardStep
<1> QED
  BY <1>16 DEF G

LEMMA TickFacts ==
  ASSUME Types, Tick
  PROVE  /\ task' \in [Board -> [pc : Step, timer : Nat]]
         /\ \E d \in Nat : \A b \in Board :
              /\ task'[b].pc = task[b].pc
              /\ b \in Timed => /\ d <= task[b].timer
                                /\ task'[b].timer = task[b].timer - d
         /\ UNCHANGED <<rssi, station, sta_lock, managers, inbox, routing, history>>
<1> DEFINE T == {task[b].timer : b \in Timed}
<1>1. PICK d : /\ d = Min(T) /\ Timed # {}
               /\ task' = [b \in Board |-> IF b \in Timed
                                            THEN [task[b] EXCEPT !.timer = @ - d]
                                            ELSE task[b]]
               /\ UNCHANGED <<rssi, station, sta_lock, managers, inbox, routing,
                              history>>
  BY Zenon DEF Tick
<1>2. \A b \in Board : task[b] \in [pc : Step, timer : Nat]
  BY DEF Types
<1>3. Timed \subseteq Board
  BY DEF Timed
<1>4. T \in SUBSET Nat /\ T # {}
  BY <1>1, <1>2, <1>3
<1>5. d \in Nat /\ \A b \in Timed : d <= task[b].timer
  BY <1>1, <1>4, MinFacts
<1>6. ASSUME NEW b \in Board
      PROVE  /\ task'[b] \in [pc : Step, timer : Nat]
             /\ task'[b].pc = task[b].pc
             /\ b \in Timed => task'[b].timer = task[b].timer - d
  <2>1. CASE b \in Timed
    <3>1. task'[b] = [task[b] EXCEPT !.timer = task[b].timer - d]
      BY <1>1, <2>1
    <3>2. task[b].timer - d \in Nat
      BY <1>2, <1>5, <2>1
    <3> QED
      BY <1>2, <2>1, <3>1, <3>2
  <2>2. CASE b \notin Timed
    BY <1>1, <1>2, <2>2
  <2> QED
    BY <2>1, <2>2
<1>7. task' = [b \in Board |-> task'[b]]
  BY <1>1
<1> QED
  BY <1>1, <1>5, <1>6, <1>7

LEMMA TypesStep ==
  ASSUME Types, StationInv, [Next]_vars
  PROVE  Types'
<1>1. CASE UNCHANGED vars
  BY <1>1 DEF Types, vars, station, managers, routing, history
<1>2. CASE Tick
  BY <1>2, TickFacts DEF Types, station, managers, routing, history
<1>3. CASE \E b \in Board : BoardStep(b)
  BY <1>3, BoardStepTypes
<1> QED
  BY <1>1, <1>2, <1>3, NextCases

----------------------------------------------------------------------------
(* The station.                                                            *)

LEMMA StationFrame ==
  ASSUME NEW c, Station(c),
         task'[c].pc = task[c].pc, sta'[c] = sta[c], radio'[c] = radio[c],
         events'[c] = events[c], provided'[c] = provided[c], ap'[c] = ap[c]
  PROVE  Station(c)'
BY DEF Station, Rests, Associating, Associated, Losing, IsAp

\* Steps of the task that do not touch the station.
LEMMA StationTaskFrame ==
  ASSUME NEW c, Station(c), ~IsAp(c), task'[c].pc # "scan" \/ ~sta[c].active,
         sta'[c] = sta[c], radio'[c] = radio[c],
         events'[c] = events[c], provided'[c] = provided[c], ap'[c] = ap[c]
  PROVE  Station(c)'
BY DEF Station, Rests, Associating, Associated, Losing, IsAp

LEMMA BoardStation ==
  ASSUME Types, StationInv, NEW b \in Board, BoardStep(b)
  PROVE  Station(b)'
<1> DEFINE G == Station(b)'
<1>0. Station(b)
  BY DEF StationInv
<1>s. sta[b] \in StationState /\ sta'[b] \in StationState
  BY BoardStepTypes DEF Types
\* A step of the task: the board is not an access point.
<1>a. ASSUME NEW p \in Step, NEW t \in Nat, Goes(b, p, t), task[b].pc # "none",
             p # "scan" \/ ~sta[b].active, UNCHANGED <<station, routing>>
      PROVE  G
  <2>1. task'[b].pc = p
    BY <1>a, GoesFacts
  <2>2. ~IsAp(b)
    BY <1>0, <1>a DEF Station
  <2> QED
    BY <1>0, <1>a, <2>1, <2>2, StationTaskFrame DEF station, routing
<1>1. ASSUME StartsTask(b) \/ Measures(b) \/ Prioritizes(b) \/ EntersLoop(b)
      PROVE  G
  <2>1. /\ task[b].pc # "none" /\ UNCHANGED <<station, routing>>
        /\ \/ Goes(b, "measure", SCAN_TIME) \/ Goes(b, "listen", LISTEN_TIME)
           \/ Goes(b, "wait", Turn(b, rssi[b]) * SLOT) \/ Goes(b, "loop", 0)
    BY <1>1 DEF StartsTask, Measures, Prioritizes, EntersLoop, Due
  <2>2. /\ SCAN_TIME \in Nat /\ LISTEN_TIME \in Nat /\ 0 \in Nat
        /\ Turn(b, rssi[b]) * SLOT \in Nat
    <3>1. Turn(b, rssi[b]) \in 0 .. 3
      BY TurnFacts DEF Types
    <3> QED
      BY <3>1, TimesAssumption
  <2>3. {"measure", "listen", "wait", "loop"} \subseteq Step
    BY DEF Step
  <2> QED
    BY <1>a, <2>1, <2>2, <2>3
<1>2. ASSUME StartsScan(b) PROVE G
  <2>1. /\ task[b].pc # "none" /\ UNCHANGED <<station, routing>> /\ ~sta[b].active
        /\ Goes(b, "scan", 0) /\ 0 \in Nat /\ "scan" \in Step
    BY <1>2 DEF StartsScan, Step
  <2> QED
    BY <1>a, <2>1
<1>3. ASSUME EndsScan(b) PROVE G
  <2>1. /\ task[b].pc = "scan" /\ Goes(b, "loop", 0)
        /\ UNCHANGED events /\ UNCHANGED routing
        /\ UNCHANGED <<sta, radio>> \/ \E n \in Node : StationConnect(b, n)
    BY <1>3 DEF EndsScan, Allowed
  <2>2. 0 \in Nat /\ "loop" \in Step
    BY DEF Step
  <2>3. CASE UNCHANGED <<sta, radio>>
    BY <1>a, <2>1, <2>2, <2>3 DEF station
  <2>4. CASE \E n \in Node : StationConnect(b, n)
    <3>1. PICK n \in Node : StationConnect(b, n)
      BY <2>4
    <3>2. task'[b].pc = "loop"
      BY <2>1, <2>2, GoesFacts
    <3>3. Rests(b) /\ ~IsAp(b) /\ ~sta[b].client
      BY <1>0, <2>1 DEF Station, Rests, Associating, Associated, Losing
    <3>4. /\ sta'[b].active /\ sta'[b].net = n
          /\ sta'[b].full = sta[b].full /\ sta'[b].client = sta[b].client
      BY <3>1, ConnectSta
    <3>5. radio'[b] = "connecting"
      BY <3>1, <3>3 DEF StationConnect, Connecting, Rests, Types
    <3>6. Associating(b)' /\ ~IsAp(b)'
      BY <2>1, <3>3, <3>4, <3>5 DEF Associating, Rests, IsAp, routing
    <3> QED
      BY <3>2, <3>4, <3>6 DEF Station, Associating
  <2> QED
    BY <2>1, <2>3, <2>4
<1>4. ASSUME Associates(b) PROVE G
  <2>1. /\ radio[b] = "connecting" /\ radio'[b] = "up"
        /\ events'[b] = Append(events[b], "GOT_IP")
        /\ UNCHANGED <<task, sta, routing>>
    BY <1>4 DEF Associates, Types
  <2>2. Associating(b) /\ ~IsAp(b)
    BY <1>0, <2>1 DEF Station, Rests, Associating, Associated, Losing
  <2>3. events'[b] = <<"GOT_IP">>
    BY <2>1, <2>2, EventFacts DEF Associating
  <2>4. Associated(b)' /\ ~IsAp(b)'
    BY <2>1, <2>2, <2>3 DEF Associated, Associating, IsAp, routing
  <2> QED
    BY <1>0, <2>1, <2>2, <2>4 DEF Station, Associating
<1>l. ASSUME NEW r \in Loss, radio[b] # "idle", radio'[b] = "idle",
             events'[b] = Append(events[b], r), ap'[b] = ap[b],
             task'[b].pc = task[b].pc,
             sta'[b].active = sta[b].active, sta'[b].full = sta[b].full,
             sta'[b].client = sta[b].client, sta'[b].net = sta[b].net
      PROVE  G
  <2>1. Associating(b) \/ Associated(b)
    BY <1>0, <1>l DEF Station, Rests, Losing
  <2>2. sta[b].active /\ ~IsAp(b)
    BY <1>0, <2>1, <1>l DEF Station, Rests, Associating, Associated
  <2>3. \/ events'[b] = <<r>>
        \/ events'[b] = <<"GOT_IP", r>> /\ ~sta[b].client
    BY <1>l, <2>1, EventFacts DEF Associating, Associated
  <2>4. Losing(b)' /\ ~IsAp(b)'
    BY <1>l, <2>2, <2>3 DEF Losing, IsAp
  <2> QED
    BY <1>0, <1>l, <2>2, <2>4 DEF Station, IsAp
<1>5. ASSUME NEW r \in Loss, Fails(b, r) PROVE G
  <2>1. /\ radio[b] # "idle" /\ radio'[b] = "idle"
        /\ events'[b] = Append(events[b], r) /\ UNCHANGED <<task, sta, routing>>
    BY <1>5 DEF Fails, Types
  <2> QED
    BY <1>l, <2>1 DEF routing
<1>6. ASSUME NEW r \in Loss, Disconnects(b, r) PROVE G
  <2>1. /\ OnDisconnected(b, r) /\ events[b] # <<>> /\ Head(events[b]) = r
        /\ UNCHANGED <<task, routing>>
    BY <1>6 DEF Disconnects, Handles
  <2>2. /\ ~sta'[b].full /\ sta'[b].net = sta[b].net
        /\ sta'[b].client <=> sta[b].client /\ ~sta[b].full
        /\ \/ sta'[b].active = sta[b].active /\ Connecting(b)
           \/ ~sta'[b].active /\ UNCHANGED radio
    BY <2>1, DisconnectedSta
  <2>3. events'[b] = Tail(events[b])
    BY <2>1 DEF OnDisconnected, Types
  <2>4. Losing(b) /\ ~IsAp(b) /\ events[b] = <<r>>
    BY <1>0, <2>1, EventFacts DEF Station, Rests, Associating, Associated, Losing
  <2>5. events'[b] = <<>> /\ ~sta'[b].client /\ ~IsAp(b)'
    BY <1>0, <2>1, <2>2, <2>3, <2>4, EventFacts DEF Station, IsAp, routing
  <2>6. CASE sta'[b].active = sta[b].active /\ Connecting(b)
    <3>1. radio'[b] = "connecting"
      BY <2>4, <2>6 DEF Connecting, Losing, Types
    <3>2. Associating(b)'
      BY <2>2, <2>4, <2>5, <2>6, <3>1 DEF Associating, Losing
    <3> QED
      BY <1>0, <2>1, <2>2, <2>4, <2>5, <2>6, <3>2 DEF Station, Losing
  <2>7. CASE ~sta'[b].active /\ UNCHANGED radio
    <3>1. Rests(b)'
      BY <2>2, <2>4, <2>5, <2>7 DEF Rests, Losing
    <3> QED
      BY <2>5, <2>7, <3>1 DEF Station
  <2> QED
    BY <2>2, <2>6, <2>7
<1>7. ASSUME Leases(b) PROVE G
  <2>1. /\ OnLease(b) /\ events[b] # <<>> /\ Head(events[b]) = "GOT_IP"
        /\ ~sta[b].full /\ UNCHANGED <<task, routing>>
    BY <1>7 DEF Leases, Handles
  <2>2. /\ sta'[b].full /\ sta'[b].net = sta[b].net
        /\ sta'[b].client = sta[b].client /\ sta'[b].active = sta[b].active
    BY <2>1, LeaseSta
  <2>3. /\ UNCHANGED radio
        /\ events'[b] = IF radio[b] = "up" THEN Append(Tail(events[b]), "GOT_IP")
                                           ELSE Tail(events[b])
    BY <2>1 DEF OnLease, Types
  <2>4. ~IsAp(b) /\ ~IsAp(b)' /\ sta[b].active
    BY <1>0, <2>1 DEF Station, Rests, IsAp, routing, Associated, Associating, Losing
  <2>5. CASE Associated(b)
    <3>1. radio[b] = "up" /\ events[b] = <<"GOT_IP">> /\ ~sta[b].client
      BY <2>1, <2>5 DEF Associated
    <3>2. events'[b] = <<"GOT_IP">>
      BY <2>3, <3>1, EventFacts
    <3>3. Associated(b)'
      BY <2>2, <2>3, <2>4, <3>1, <3>2 DEF Associated
    <3> QED
      BY <1>0, <2>1, <2>2, <2>4, <3>3 DEF Station
  <2>6. CASE Losing(b)
    <3>1. PICK r \in Loss : /\ radio[b] = "idle"
                            /\ events[b] = <<"GOT_IP", r>> /\ ~sta[b].client
      BY <2>1, <2>6, EventFacts DEF Losing
    <3>2. events'[b] = <<r>>
      BY <2>3, <3>1, EventFacts
    <3>3. Losing(b)'
      BY <2>2, <2>3, <2>4, <3>1, <3>2 DEF Losing
    <3> QED
      BY <1>0, <2>1, <2>2, <2>4, <3>3 DEF Station
  <2> QED
    BY <1>0, <2>1, <2>5, <2>6 DEF Station, Rests, Associating
<1>8. ASSUME Connects(b) PROVE G
  <2>1. /\ OnStaticAddress(b) /\ events[b] # <<>> /\ Head(events[b]) = "GOT_IP"
        /\ sta[b].full /\ UNCHANGED <<task, routing>>
    BY <1>8 DEF Connects, Handles
  <2>2. /\ sta'[b].client /\ sta'[b].net = sta[b].net
        /\ sta'[b].full = sta[b].full /\ sta'[b].active = sta[b].active
    BY <2>1, StaticSta
  <2>3. UNCHANGED radio /\ events'[b] = Tail(events[b])
    BY <2>1 DEF OnStaticAddress, Types
  <2>4. ~IsAp(b) /\ ~IsAp(b)' /\ sta[b].active
    BY <1>0, <2>1 DEF Station, Rests, IsAp, routing, Associated, Associating, Losing
  <2>5. CASE Associated(b)
    <3>1. events'[b] = <<>> /\ radio[b] = "up"
      BY <2>1, <2>3, <2>5, EventFacts DEF Associated
    <3>2. Associated(b)'
      BY <2>1, <2>2, <2>3, <2>4, <3>1 DEF Associated
    <3> QED
      BY <1>0, <2>1, <2>2, <2>4, <3>2 DEF Station
  <2>6. CASE Losing(b)
    <3>1. PICK r \in Loss : radio[b] = "idle" /\ events[b] = <<"GOT_IP", r>>
      BY <2>1, <2>6, EventFacts DEF Losing
    <3>2. events'[b] = <<r>>
      BY <2>3, <3>1, EventFacts
    <3>3. Losing(b)'
      BY <2>2, <2>3, <2>4, <3>1, <3>2 DEF Losing
    <3> QED
      BY <1>0, <2>1, <2>2, <2>4, <3>3 DEF Station
  <2> QED
    BY <1>0, <2>1, <2>5, <2>6 DEF Station, Rests, Associating
<1>9. ASSUME OnRssi(b) \/ OnProvision(b) PROVE G
  <2>1. UNCHANGED <<task, station, provided, ap>>
    BY <1>9 DEF OnRssi, OnProvision, routing
  <2> QED
    BY <1>0, <2>1, StationFrame DEF station
<1>10. ASSUME OnChannels(b) PROVE G
  <2>1. /\ UNCHANGED <<task, routing>>
        /\ UNCHANGED station \/ Disable(b)
    BY <1>10, Zenon DEF OnChannels
  <2>2. CASE UNCHANGED station
    BY <1>0, <2>1, <2>2, StationFrame DEF station, routing
  <2>3. CASE Disable(b)
    <3>1. StationDisconnect(b)
      BY <2>3 DEF Disable
    <3>2. /\ sta'[b].client = sta[b].client /\ sta'[b].net = sta[b].net
          /\ sta'[b].full = sta[b].full /\ sta'[b].active = sta[b].active
      BY <3>1, DisableSta
    <3>3. CASE sta[b].active /\ radio[b] # "idle"
      <4>1. radio'[b] = "idle" /\ events'[b] = Append(events[b], "LOST")
        BY <3>1, <3>3 DEF StationDisconnect, Types
      <4>2. "LOST" \in Loss
        BY DEF Loss
      <4> QED
        BY <1>l, <2>1, <3>2, <3>3, <4>1, <4>2 DEF routing
    <3>4. CASE ~(sta[b].active /\ radio[b] # "idle")
      <4>1. UNCHANGED <<radio, events>>
        BY <3>1, <3>4 DEF StationDisconnect
      <4> QED
        BY <1>0, <2>1, <3>2, <4>1
        DEF Station, Rests, Associating, Associated, Losing, IsAp, routing
    <3> QED
      BY <3>3, <3>4
  <2> QED
    BY <2>1, <2>2, <2>3
<1>11. ASSUME Handshake(b) PROVE G
  <2>1. UNCHANGED <<task, station, ap>> /\ provided'[b]
    BY <1>11 DEF Handshake, Types
  <2> QED
    BY <1>0, <2>1 DEF Station, Rests, Associating, Associated, Losing, IsAp, station
<1>12. ASSUME BecomesAp(b) PROVE G
  <2>1. StationReset(b) /\ provided'[b] /\ ap'[b] = suggested[b]
    BY <1>12 DEF BecomesAp, Types
  <2>2. ~sta'[b].full /\ ~sta'[b].active
    BY <2>1, ResetSta
  <2>3. radio'[b] = "idle" /\ events'[b] = <<>> /\ Goes(b, "none", 0)
    BY <2>1 DEF StationReset, Types
  <2>4. task'[b].pc = "none"
    <3>1. "none" \in Step /\ 0 \in Nat
      BY DEF Step
    <3> QED
      BY <2>3, <3>1, GoesFacts
  <2>5. IsAp(b)'
    <3>1. suggested[b] \in 1 .. 11
      BY DEF Types
    <3> QED
      BY <2>1, <3>1 DEF IsAp, NoAp
  <2> QED
    BY <2>1, <2>2, <2>3, <2>4, <2>5 DEF Station, Rests
<1> HIDE DEF G
<1>13. G
  BY <1>1, <1>2, <1>3, <1>4, <1>5, <1>6, <1>7, <1>8, <1>9, <1>10, <1>11, <1>12,
     Zenon DEF BoardStep
<1> QED
  BY <1>13 DEF G

LEMMA StationStep ==
  ASSUME Types, StationInv, [Next]_vars
  PROVE  StationInv'
<1>1. CASE UNCHANGED vars \/ Tick
  <2>1. /\ \A c \in Board : task'[c].pc = task[c].pc
        /\ UNCHANGED <<station, routing>>
    BY <1>1, TickFacts DEF vars
  <2> QED
    BY <2>1, StationFrame DEF StationInv, station, routing
<1>2. ASSUME NEW b \in Board, BoardStep(b) PROVE StationInv'
  <2>1. Others(b) /\ Station(b)'
    BY <1>2, BoardStepTypes, BoardStation
  <2>2. ASSUME NEW c \in Board, c # b PROVE Station(c)'
    BY <2>1, <2>2, StationFrame DEF Others, StationInv
  <2> QED
    BY <2>1, <2>2 DEF StationInv
<1> QED
  BY <1>1, <1>2, NextCases

----------------------------------------------------------------------------
(* Turns.                                                                  *)

\* What a step does to the task of its board.
Moves(b, p, q, t) == Due(b, p) /\ task'[b].pc = q /\ task'[b].timer = t

LEMMA TaskCases ==
  ASSUME Types, NEW b \in Board, BoardStep(b)
  PROVE  /\ UNCHANGED misled \/ Prioritizes(b)
         /\ \/ task'[b] = task[b]
            \/ StartsTask(b) /\ Moves(b, "start", "measure", SCAN_TIME)
            \/ Measures(b) /\ Moves(b, "measure", "listen", LISTEN_TIME)
            \/ Prioritizes(b) /\ Moves(b, "listen", "wait", Turn(b, rssi[b]) * SLOT)
            \/ Moves(b, "wait", "loop", 0)
            \/ /\ task[b].pc \in {"loop", "scan"} /\ task'[b].pc \in {"loop", "scan"}
            \/ task'[b].pc = "none"
<1>1. UNCHANGED misled \/ Prioritizes(b)
  BY DEF BoardStep, StartsTask, Measures, EntersLoop, StartsScan, EndsScan,
         Associates, Fails, Disconnects, Leases, Connects, Handles, OnRssi,
         OnChannels, OnProvision, Handshake, BecomesAp, history
<1>2. /\ SCAN_TIME \in Nat /\ LISTEN_TIME \in Nat /\ 0 \in Nat
      /\ Turn(b, rssi[b]) * SLOT \in Nat
  <2>1. Turn(b, rssi[b]) \in 0 .. 3
    BY TurnFacts DEF Types
  <2> QED
    BY <2>1, TimesAssumption
<1>3. Step = {"start", "measure", "listen", "wait", "loop", "scan", "none"}
  BY DEF Step
<1>4. StartsTask(b) => Moves(b, "start", "measure", SCAN_TIME)
  BY <1>2, <1>3, GoesFacts DEF StartsTask, Moves
<1>5. Measures(b) => Moves(b, "measure", "listen", LISTEN_TIME)
  BY <1>2, <1>3, GoesFacts DEF Measures, Moves
<1>6. Prioritizes(b) => Moves(b, "listen", "wait", Turn(b, rssi[b]) * SLOT)
  BY <1>2, <1>3, GoesFacts DEF Prioritizes, Moves
<1>7. EntersLoop(b) => Moves(b, "wait", "loop", 0)
  BY <1>2, <1>3, GoesFacts DEF EntersLoop, Moves
<1>8. StartsScan(b) \/ EndsScan(b) =>
        task[b].pc \in {"loop", "scan"} /\ task'[b].pc \in {"loop", "scan"}
  BY <1>2, <1>3, GoesFacts DEF StartsScan, EndsScan
<1>9. BecomesAp(b) => task'[b].pc = "none"
  BY <1>2, <1>3, GoesFacts DEF BecomesAp, StationReset
<1>10. \/ StartsTask(b) \/ Measures(b) \/ Prioritizes(b) \/ EntersLoop(b)
       \/ StartsScan(b) \/ EndsScan(b) \/ BecomesAp(b) \/ task'[b] = task[b]
  BY DEF BoardStep, Associates, Fails, Disconnects, Leases, Connects, Handles,
         OnRssi, OnChannels, OnProvision, Handshake
<1> QED
  BY <1>1, <1>4, <1>5, <1>6, <1>7, <1>8, <1>9, <1>10, Zenon

LEMMA PastKept ==
  ASSUME Types, StationInv, NEW b \in Board, BoardStep(b), NEW c \in Board, Past(c)
  PROVE  Past(c)'
<1>1. Others(b)
  BY BoardStepTypes
<1> QED
  BY <1>1, TaskCases DEF Others, Past, Moves, Due

\* Who has sent what is on a line has measured.
HeardLine(q) == \A i \in 1 .. Len(q) : q[i].type = "rssi" => Past(q[i].from)

LEMMA HeardStep ==
  ASSUME Types, StationInv, HeardInv, [Next]_vars
  PROVE  HeardInv'
<1>0. \A b \in Board :
        /\ HeardLine(inbox[b]) /\ inbox[b] \in Seq(Message)
        /\ rssi[b] \in [Device -> Nat]
  BY DEF Types, HeardInv, HeardLine
<1>1. CASE UNCHANGED vars \/ Tick
  <2>1. /\ \A c \in Board : task'[c].pc = task[c].pc
        /\ UNCHANGED <<rssi, inbox>>
    BY <1>1, TickFacts DEF vars
  <2>2. \A b \in Board : \A i \in 1 .. Len(inbox[b]) : inbox[b][i].from \in Board
    <3> SUFFICES ASSUME NEW b \in Board, NEW i \in 1 .. Len(inbox[b])
                 PROVE  inbox[b][i].from \in Board
      OBVIOUS
    <3>1. inbox[b][i] \in Message
      BY <1>0, ElementOfSeq
    <3> QED
      BY <3>1, MessageFacts
  <2> QED
    BY <2>1, <2>2 DEF HeardInv, Past
<1>2. ASSUME NEW b \in Board, BoardStep(b) PROVE HeardInv'
  <2>0. /\ \A c \in Board : Past(c) => Past(c)'
        /\ inbox' \in [Board -> Seq(Message)]
    BY <1>2, PastKept, BoardStepTypes DEF Types
  <2>1. ASSUME NEW c \in Board, NEW q \in Seq(Message), HeardLine(q), inbox'[c] = q
        PROVE  HeardLine(inbox[c])'
    <3> SUFFICES ASSUME NEW i \in 1 .. Len(q), q[i].type = "rssi"
                 PROVE  Past(q[i].from)'
      BY <2>1 DEF HeardLine
    <3>1. q[i] \in Message
      BY ElementOfSeq
    <3>2. q[i].from \in Board
      BY <3>1, MessageFacts
    <3> QED
      BY <2>0, <2>1, <3>2 DEF HeardLine
  \* A message of the board is put on a line.
  <2>2. ASSUME NEW c \in Board, NEW m \in Message, m.type = "rssi" => Past(m.from)',
               inbox'[c] = Append(inbox[c], m)
        PROVE  HeardLine(inbox[c])'
    <3>0. PICK q, s : q = inbox[c] /\ s = Append(q, m)
      OBVIOUS
    <3>1. /\ q \in Seq(Message) /\ Len(q) \in Nat /\ Len(s) = Len(q) + 1
          /\ \A i \in 1 .. Len(q) : s[i] = q[i]
          /\ s[Len(q) + 1] = m
      BY <1>0, <3>0, AppendFacts
    <3>2. \A i \in 1 .. Len(q) : q[i].from \in Board
      <4> SUFFICES ASSUME NEW i \in 1 .. Len(q) PROVE q[i].from \in Board
        OBVIOUS
      <4>1. q[i] \in Message
        BY <3>1, ElementOfSeq
      <4> QED
        BY <4>1, MessageFacts
    <3>3. \A i \in 1 .. Len(q) : q[i].type = "rssi" => Past(q[i].from)'
      BY <1>0, <2>0, <3>0, <3>2 DEF HeardLine
    <3>4. \A i \in 1 .. Len(s) : s[i].type = "rssi" => Past(s[i].from)'
      <4> SUFFICES ASSUME NEW i \in 1 .. Len(s), s[i].type = "rssi"
                   PROVE  Past(s[i].from)'
        OBVIOUS
      <4>1. i \in 1 .. Len(q) \/ i = Len(q) + 1
        BY <3>1
      <4> QED
        BY <2>2, <3>1, <3>3, <4>1
    <3>5. inbox'[c] = s
      BY <2>2, <3>0
    <3> QED
      BY <3>4, <3>5 DEF HeardLine
  <2>3. ASSUME NEW m \in Message, Broadcast(b, m), m.type = "rssi" => Past(m.from)'
        PROVE  \A c \in Board : HeardLine(inbox[c])'
    <3>1. \A c \in Board : inbox'[c] = inbox[c] \/ inbox'[c] = Append(inbox[c], m)
      BY <2>3, BroadcastFacts
    <3> QED
      BY <1>0, <2>1, <2>2, <2>3, <3>1
  \* A message is taken from a line.
  <2>4. ASSUME TakeMessage(b), inbox[b] # <<>>
        PROVE  \A c \in Board : HeardLine(inbox[c])'
    <3>1. \A c \in Board : c # b => HeardLine(inbox[c])'
      BY <1>0, <2>1, <2>4, TakeFacts
    <3> DEFINE q == inbox[b]
    <3>2. /\ q \in Seq(Message) /\ Tail(q) \in Seq(Message) /\ Len(q) \in Nat
          /\ Len(Tail(q)) = Len(q) - 1
          /\ \A i \in 1 .. Len(q) - 1 : Tail(q)[i] = q[i + 1]
      BY <1>0, <2>4, TailFacts
    <3>3. inbox'[b] = Tail(q) /\ HeardLine(q)
      BY <1>0, <2>4, TakeFacts
    <3> HIDE DEF q
    <3>4. HeardLine(Tail(q))
      <4> SUFFICES ASSUME NEW i \in 1 .. Len(Tail(q)), Tail(q)[i].type = "rssi"
                   PROVE  Past(Tail(q)[i].from)
        BY DEF HeardLine
      <4>1. i + 1 \in 1 .. Len(q) /\ Tail(q)[i] = q[i + 1]
        BY <3>2
      <4> QED
        BY <3>3, <4>1 DEF HeardLine
    <3>5. HeardLine(inbox[b])'
      BY <2>1, <3>2, <3>3, <3>4
    <3> QED
      BY <3>1, <3>5
  <2>5. ASSUME UNCHANGED inbox PROVE \A c \in Board : HeardLine(inbox[c])'
    BY <1>0, <2>1, <2>5
  \* The list of the board.
  <2>6. ASSUME UNCHANGED rssi
        PROVE  \A c, d \in Board : rssi'[c][d] # Unknown => Past(d)'
    BY <2>0, <2>6 DEF HeardInv
  <2>7. ASSUME NEW d \in Board, NEW x \in Nat, rssi' = [rssi EXCEPT ![b][d] = x], Past(d)'
        PROVE  \A c, e \in Board : rssi'[c][e] # Unknown => Past(e)'
    <3>1. \A c, e \in Board : c # b \/ e # d => rssi'[c][e] = rssi[c][e]
      <4> DEFINE l == [rssi[b] EXCEPT ![d] = x]
      <4>1. rssi' = [rssi EXCEPT ![b] = l]
        BY <2>7, Zenon DEF Types
      <4>2. \A e \in Board : e # d => l[e] = rssi[b][e]
        BY <1>0, BoardFacts
      <4> HIDE DEF l
      <4> QED
        BY <4>1, <4>2 DEF Types
    <3> QED
      BY <2>0, <2>7, <3>1 DEF HeardInv
  <2> DEFINE L == \A c \in Board : HeardLine(inbox[c])'
             M == \A c, d \in Board : rssi'[c][d] # Unknown => Past(d)'
  <2>8. CASE StartsTask(b)
    <3>1. L
      BY <2>5, <2>8 DEF StartsTask
    <3>2. \A c, d \in Board : rssi'[c][d] # Unknown => rssi[c][d] # Unknown
      BY <2>8, BoardFacts DEF StartsTask, Types
    <3> QED
      BY <2>0, <3>1, <3>2 DEF HeardInv, HeardLine
  <2>9. CASE Measures(b)
    <3>1. PICK best : /\ best = Max(Hears(b))
                      /\ rssi' = [rssi EXCEPT ![b][b] = best]
                      /\ Broadcast(b, [type |-> "rssi", from |-> b, rssi |-> best])
      BY <2>9, Zenon DEF Measures
    <3>2. best \in Nat
      <4>1. Allowed(b) \in SUBSET Node
        BY DEF Allowed
      <4> QED
        BY <3>1, <4>1, SignalFacts DEF Hears
    <3>3. Past(b)'
      <4>1. Goes(b, "listen", LISTEN_TIME) /\ "listen" \in Step /\ LISTEN_TIME \in Nat
        BY <2>9, TimesAssumption DEF Measures, Step
      <4> QED
        BY <4>1, GoesFacts DEF Past
    <3> DEFINE m == [type |-> "rssi", from |-> b, rssi |-> best]
    <3>4. m \in Message /\ m.from = b
      BY <3>2, MessageFacts
    <3>5. L
      BY <2>3, <3>1, <3>3, <3>4
    <3>6. M
      BY <2>7, <3>1, <3>2, <3>3
    <3> QED
      BY <3>5, <3>6 DEF HeardInv, HeardLine
  <2>10. CASE OnRssi(b)
    <3>1. PICK m : /\ m = Head(inbox[b])
                   /\ inbox[b] # <<>> /\ m.type = "rssi" /\ TakeMessage(b)
                   /\ rssi' = [rssi EXCEPT ![b][m.from] = m.rssi]
      BY <2>10, Zenon DEF OnRssi, Received
    <3>2. m \in Message /\ m = inbox[b][1] /\ Len(inbox[b]) \in Nat \ {0}
      BY <1>0, <3>1, TailFacts
    <3>3. m.from \in Board /\ m.rssi \in Nat
      BY <3>1, <3>2, MessageFacts
    <3>4. 1 \in 1 .. Len(inbox[b])
      BY <3>2
    <3>5. Past(m.from)'
      BY <1>0, <2>0, <3>1, <3>2, <3>3, <3>4 DEF HeardLine
    <3>6. M
      BY <2>7, <3>1, <3>3, <3>5
    <3>7. L
      BY <2>4, <3>1
    <3> QED
      BY <3>6, <3>7 DEF HeardInv, HeardLine
  <2>11. CASE Connects(b)
    <3>1. Broadcast(b, Announced(b)) /\ UNCHANGED rssi /\ events[b] # <<>>
      BY <2>11 DEF Connects, OnStaticAddress, Handles
    <3>2. Announced(b) \in Message /\ Announced(b).type # "rssi"
      BY <3>1, HandlesActive, MessageFacts DEF StationInv, Announced
    <3> QED
      BY <2>3, <2>6, <3>1, <3>2 DEF HeardInv, HeardLine
  <2>12. CASE Handshake(b)
    <3> DEFINE m == [type |-> "provision", from |-> b]
    <3>1. Broadcast(b, m) /\ UNCHANGED rssi
      BY <2>12 DEF Handshake
    <3>2. m \in Message /\ m.type # "rssi"
      BY MessageFacts
    <3> QED
      BY <2>3, <2>6, <3>1, <3>2 DEF HeardInv, HeardLine
  <2>13. CASE OnChannels(b) \/ OnProvision(b)
    <3>1. UNCHANGED rssi /\ TakeMessage(b) /\ inbox[b] # <<>>
      BY <2>13 DEF OnChannels, OnProvision, Received
    <3> QED
      BY <2>4, <2>6, <3>1 DEF HeardInv, HeardLine
  <2>14. CASE UNCHANGED <<rssi, inbox>>
    BY <2>5, <2>6, <2>14 DEF HeardInv, HeardLine
  <2>15. \/ StartsTask(b) \/ Measures(b) \/ OnRssi(b) \/ Connects(b) \/ Handshake(b)
         \/ OnChannels(b) \/ OnProvision(b) \/ UNCHANGED <<rssi, inbox>>
    BY <1>2 DEF BoardStep, Prioritizes, EntersLoop, StartsScan, EndsScan,
                Associates, Fails, Disconnects, OnDisconnected, Leases, OnLease,
                Handles, BecomesAp
  <2> QED
    BY <2>8, <2>9, <2>10, <2>11, <2>12, <2>13, <2>14, <2>15
<1> QED
  BY <1>1, <1>2, NextCases

LEMMA ListenStep ==
  ASSUME Types, StationInv, ListenInv, [Next]_vars
  PROVE  ListenInv'
<1>1. CASE UNCHANGED vars
  BY <1>1 DEF ListenInv, vars
<1>2. CASE Tick
  <2> SUFFICES ASSUME NEW b \in Board, task'[b].pc = "listen"
               PROVE  task'[b].timer <= LISTEN_TIME
    BY DEF ListenInv
  <2>1. PICK d \in Nat :
          /\ task'[b].pc = task[b].pc
          /\ b \in Timed => /\ d <= task[b].timer
                            /\ task'[b].timer = task[b].timer - d
    BY <1>2, TickFacts
  <2>2. b \in Timed /\ task[b].timer <= LISTEN_TIME
    BY <2>1 DEF Timed, ListenInv
  <2>3. task[b].timer \in Nat /\ LISTEN_TIME \in Nat
    BY TimesAssumption DEF Types
  <2> QED
    BY <2>1, <2>2, <2>3
<1>3. ASSUME NEW b \in Board, BoardStep(b) PROVE ListenInv'
  <2>1. Others(b)
    BY <1>3, BoardStepTypes
  <2>2. task'[b].pc = "listen" => task'[b].timer <= LISTEN_TIME
    BY <1>3, TaskCases, TimesAssumption DEF ListenInv, Moves
  <2> QED
    BY <2>1, <2>2 DEF Others, ListenInv
<1> QED
  BY <1>1, <1>2, <1>3, NextCases

\* The parts of TurnInv.
Waits == \A b \in Board : task[b].pc = "wait" => task[b].timer <= Wait(b)
AllPast ==
  \A b, c \in Board : task[b].pc \in {"wait", "loop", "scan"} => Past(c)
AllSooner == \A b, c \in Board : Place(c) < Place(b) => Sooner(c, b)

LEMMA TurnBoardStep ==
  ASSUME Types, StationInv, HeardInv, ListenInv, Waits, AllPast, AllSooner,
         NEW b \in Board, BoardStep(b), ~misled'
  PROVE  Waits' /\ AllPast' /\ AllSooner'
<1>0. /\ \A c \in Board : c # b => task'[c] = task[c]
      /\ \A c \in Board : Past(c) => Past(c)'
  BY BoardStepTypes, PastKept DEF Others
<1>n. /\ \A c \in Board : task[c].timer \in Nat /\ task[c].pc \in Step
      /\ \A c \in Board : task'[c].timer \in Nat /\ task'[c].pc \in Step
      /\ \A c \in Board : Wait(c) \in Nat /\ Place(c) \in 0 .. 3
      /\ LISTEN_TIME \in Nat /\ SLOT \in Nat /\ LISTEN_TIME < SLOT
  BY BoardStepTypes, PlaceFacts, TimesAssumption DEF Types
<1> DEFINE G == Waits' /\ AllPast' /\ AllSooner'
<1>1. CASE task'[b] = task[b]
  <2>1. \A c \in Board : task'[c] = task[c]
    BY <1>0, <1>1
  <2> QED
    BY <2>1 DEF Waits, AllPast, AllSooner, Sooner, Past
\* A board that has not measured keeps all from waiting.
<1>2. CASE ~Past(b) /\ task'[b].pc \in {"measure", "listen"}
  <2>1. \A c \in Board : task[c].pc \notin {"wait", "loop", "scan"}
    BY <1>2 DEF AllPast
  <2>2. \A c \in Board : task'[c].pc \notin {"wait", "loop", "scan"}
    BY <1>0, <1>2, <2>1
  <2> QED
    BY <2>2 DEF Waits, AllPast, AllSooner, Sooner
<1>3. CASE Prioritizes(b) /\ Moves(b, "listen", "wait", Turn(b, rssi[b]) * SLOT)
  <2>1. rssi[b] = Measured
    BY <1>3 DEF Prioritizes
  <2>2. /\ task[b].pc = "listen" /\ task[b].timer = 0
        /\ task'[b].pc = "wait" /\ task'[b].timer = Wait(b)
    BY <1>3, <2>1, PlaceFacts DEF Moves, Due, Wait
  <2>3. \A c \in Board : Past(c)
    BY <2>1, MeasuredFacts DEF HeardInv
  <2>4. Waits'
    BY <1>0, <1>n, <2>2 DEF Waits
  <2>5. AllPast'
    BY <1>0, <2>3 DEF AllPast
  <2>6. ASSUME NEW c \in Board, Place(c) < Place(b) PROVE Sooner(c, b)'
    <3>1. c # b /\ Wait(c) + SLOT <= Wait(b)
      BY <1>n, <2>6, PlaceFacts
    <3>2. task'[c] = task[c]
      BY <1>0, <3>1
    <3>3. task[c].pc = "listen" => task[c].timer + Wait(c) < Wait(b)
      BY <1>n, <3>1 DEF ListenInv
    <3>4. task[c].pc = "wait" => task[c].timer < Wait(b)
      BY <1>n, <3>1 DEF Waits
    <3> QED
      BY <2>2, <3>2, <3>3, <3>4 DEF Sooner
  <2>7. ASSUME NEW d \in Board, Place(b) < Place(d) PROVE Sooner(b, d)'
    <3>1. d # b
      BY <1>n, <2>7
    <3>2. task'[d] = task[d] /\ Sooner(b, d)
      BY <1>0, <2>7, <3>1 DEF AllSooner
    <3>3. task[d].pc = "wait" => 0 + Wait(b) < task[d].timer
      BY <2>2, <3>2 DEF Sooner
    <3>4. task[d].pc = "wait" => Wait(b) < task[d].timer
      BY <1>n, <3>3
    <3> QED
      BY <2>2, <3>2, <3>4 DEF Sooner
  <2>8. ASSUME NEW c \in Board, NEW d \in Board, c # b, d # b, Place(c) < Place(d)
        PROVE  Sooner(c, d)'
    BY <1>0, <2>8 DEF AllSooner, Sooner
  <2>9. AllSooner'
    <3> SUFFICES ASSUME NEW d \in Board, NEW c \in Board, Place(c) < Place(d)
                 PROVE  Sooner(c, d)'
      BY DEF AllSooner
    <3> QED
      BY <1>n, <2>6, <2>7, <2>8
  <2> QED
    BY <2>4, <2>5, <2>9
<1>4. CASE Moves(b, "wait", "loop", 0)
  <2>1. task[b].pc = "wait" /\ task[b].timer = 0 /\ task'[b].pc = "loop"
    BY <1>4 DEF Moves, Due
  <2>2. \A c \in Board : Past(c)
    BY <2>1 DEF AllPast
  <2>3. Waits' /\ AllPast'
    BY <1>0, <2>1, <2>2 DEF Waits, AllPast
  <2>4. ASSUME NEW c \in Board, Place(c) < Place(b) PROVE Sooner(c, b)'
    <3>1. c # b /\ Sooner(c, b) /\ task'[c] = task[c]
      BY <1>0, <1>n, <2>4 DEF AllSooner
    <3>2. task[c].pc \notin {"listen", "wait"}
      BY <1>n, <2>1, <3>1 DEF Sooner
    <3>3. task[c].pc \in {"loop", "scan", "none"}
      BY <1>n, <2>2, <3>2 DEF Past, Step
    <3> QED
      BY <2>1, <3>1, <3>3 DEF Sooner
  <2>5. ASSUME NEW d \in Board, NEW c \in Board, d # b, Place(c) < Place(d)
        PROVE  Sooner(c, d)'
    BY <1>0, <2>1, <2>5 DEF AllSooner, Sooner
  <2> QED
    BY <2>3, <2>4, <2>5 DEF AllSooner
<1>5. CASE task[b].pc \in {"loop", "scan"} /\ task'[b].pc \in {"loop", "scan"}
  <2>1. Waits' /\ AllPast'
    BY <1>0, <1>5 DEF Waits, AllPast
  <2>2. ASSUME NEW d \in Board, NEW c \in Board, Place(c) < Place(d)
        PROVE  Sooner(c, d)'
    BY <1>0, <1>5, <2>2 DEF AllSooner, Sooner
  <2> QED
    BY <2>1, <2>2 DEF AllSooner
<1>6. CASE task'[b].pc = "none"
  <2>1. Waits' /\ AllPast'
    BY <1>0, <1>6 DEF Waits, AllPast, Past
  <2>2. ASSUME NEW d \in Board, NEW c \in Board, Place(c) < Place(d)
        PROVE  Sooner(c, d)'
    BY <1>0, <1>6, <2>2 DEF AllSooner, Sooner
  <2> QED
    BY <2>1, <2>2 DEF AllSooner
<1>7. \/ task'[b] = task[b]
      \/ ~Past(b) /\ task'[b].pc \in {"measure", "listen"}
      \/ Prioritizes(b) /\ Moves(b, "listen", "wait", Turn(b, rssi[b]) * SLOT)
      \/ Moves(b, "wait", "loop", 0)
      \/ task[b].pc \in {"loop", "scan"} /\ task'[b].pc \in {"loop", "scan"}
      \/ task'[b].pc = "none"
  BY TaskCases, Zenon DEF Moves, Due, Past
<1> QED
  BY <1>1, <1>2, <1>3, <1>4, <1>5, <1>6, <1>7

LEMMA TurnStep ==
  ASSUME Types, StationInv, HeardInv, ListenInv, TurnInv, [Next]_vars
  PROVE  TurnInv'
<1>1. CASE UNCHANGED vars
  BY <1>1 DEF TurnInv, vars, history, Sooner, Past
<1>2. CASE Tick
  <2> SUFFICES ASSUME ~misled PROVE Waits' /\ AllPast' /\ AllSooner'
    BY <1>2, TickFacts DEF TurnInv, Waits, AllPast, AllSooner, history
  <2>0. Waits /\ AllPast /\ AllSooner
    BY DEF TurnInv, Waits, AllPast, AllSooner
  <2>1. PICK e \in Nat : \A b \in Board :
          /\ task'[b].pc = task[b].pc
          /\ b \in Timed => /\ e <= task[b].timer
                            /\ task'[b].timer = task[b].timer - e
    BY <1>2, TickFacts
  <2>2. \A b \in Board : Wait(b) \in Nat /\ task[b].timer \in Nat
    BY PlaceFacts DEF Types
  <2>3. \A b \in Board : task[b].pc \in {"listen", "wait"} => b \in Timed
    BY DEF Timed
  <2>4. Waits'
    <3> SUFFICES ASSUME NEW b \in Board, task'[b].pc = "wait"
                 PROVE  task'[b].timer <= Wait(b)
      BY DEF Waits
    <3>1. task[b].timer <= Wait(b) /\ task'[b].timer = task[b].timer - e
      BY <2>0, <2>1, <2>3 DEF Waits
    <3> QED
      BY <2>2, <3>1
  <2>5. AllPast'
    BY <2>0, <2>1 DEF AllPast, Past
  <2>6. ASSUME NEW b \in Board, NEW c \in Board, Place(c) < Place(b)
        PROVE  Sooner(c, b)'
    <3>1. Sooner(c, b)
      BY <2>0, <2>6 DEF AllSooner
    <3>2. CASE task[b].pc = "wait"
      <4>1. task'[b].timer = task[b].timer - e
        BY <2>1, <2>3, <3>2
      <4>2. task[c].pc \in {"listen", "wait"} => task'[c].timer = task[c].timer - e
        BY <2>1, <2>3
      <4>3. task[c].pc = "listen" => task'[c].timer + Wait(c) < task'[b].timer
        BY <2>2, <3>1, <3>2, <4>1, <4>2 DEF Sooner
      <4>4. task[c].pc = "wait" => task'[c].timer < task'[b].timer
        BY <2>2, <3>1, <3>2, <4>1, <4>2 DEF Sooner
      <4> QED
        BY <2>1, <3>2, <4>3, <4>4 DEF Sooner
    <3>3. CASE task[b].pc # "wait"
      BY <2>1, <3>1, <3>3 DEF Sooner
    <3> QED
      BY <3>2, <3>3
  <2> QED
    BY <2>4, <2>5, <2>6 DEF AllSooner
<1>3. ASSUME NEW b \in Board, BoardStep(b) PROVE TurnInv'
  <2> SUFFICES ASSUME ~misled' PROVE Waits' /\ AllPast' /\ AllSooner'
    BY DEF TurnInv, Waits, AllPast, AllSooner
  <2>1. ~misled
    BY <1>3, TaskCases DEF Prioritizes
  <2>2. Waits /\ AllPast /\ AllSooner
    BY <2>1 DEF TurnInv, Waits, AllPast, AllSooner
  <2> QED
    BY <1>3, <2>2, TurnBoardStep
<1> QED
  BY <1>1, <1>2, <1>3, NextCases

----------------------------------------------------------------------------
(* Announcements.                                                          *)

LEMMA LineAppend ==
  ASSUME NEW q \in Seq(Message), NEW m \in Message, NEW f
  PROVE  /\ Silent(q) /\ m.type = "rssi" => Silent(Append(q, m))
         /\ Announces(Append(q, m)) <=> Announces(q) \/ m.type = "channels"
         /\ m.type # "channels" /\ LastSays(q, f) => LastSays(Append(q, m), f)
         /\ m.type = "channels" /\ m.formation = f => LastSays(Append(q, m), f)
<1> DEFINE s == Append(q, m)
<1>1. /\ Len(q) \in Nat /\ Len(s) = Len(q) + 1
      /\ \A i \in 1 .. Len(q) : s[i] = q[i]
      /\ s[Len(q) + 1] = m
  BY AppendFacts
<1> HIDE DEF s
<1>2. \A i \in 1 .. Len(s) : i \in 1 .. Len(q) \/ i = Len(q) + 1
  BY <1>1
<1>3. \A i \in 1 .. Len(q) : i \in 1 .. Len(s)
  BY <1>1
<1>4. Len(q) + 1 \in 1 .. Len(s)
  BY <1>1
<1>5. Silent(q) /\ m.type = "rssi" => Silent(s)
  BY <1>1, <1>2 DEF Silent
<1>6. Announces(s) <=> Announces(q) \/ m.type = "channels"
  <2>1. Announces(s) => Announces(q) \/ m.type = "channels"
    BY <1>1, <1>2 DEF Announces
  <2>2. Announces(q) => Announces(s)
    BY <1>1, <1>3 DEF Announces
  <2>3. m.type = "channels" => Announces(s)
    BY <1>1, <1>4 DEF Announces
  <2> QED
    BY <2>1, <2>2, <2>3
<1>7. ASSUME m.type # "channels", LastSays(q, f) PROVE LastSays(s, f)
  <2> SUFFICES ASSUME NEW i \in 1 .. Len(s), s[i].type = "channels",
                      \A j \in i + 1 .. Len(s) : s[j].type # "channels"
               PROVE  s[i].formation = f
    BY DEF LastSays
  <2>1. i \in 1 .. Len(q) /\ q[i] = s[i]
    BY <1>1, <1>2, <1>7
  <2>2. ASSUME NEW j \in i + 1 .. Len(q) PROVE q[j].type # "channels"
    <3>1. j \in i + 1 .. Len(s) /\ j \in 1 .. Len(q)
      BY <1>1, <2>1
    <3> QED
      BY <1>1, <3>1
  <2> QED
    BY <1>7, <2>1, <2>2 DEF LastSays
<1>8. ASSUME m.type = "channels", m.formation = f PROVE LastSays(s, f)
  <2> SUFFICES ASSUME NEW i \in 1 .. Len(s), s[i].type = "channels",
                      \A j \in i + 1 .. Len(s) : s[j].type # "channels"
               PROVE  s[i].formation = f
    BY DEF LastSays
  <2>1. CASE i \in 1 .. Len(q)
    <3>1. Len(q) + 1 \in i + 1 .. Len(s)
      BY <1>1, <2>1
    <3> QED
      BY <1>1, <1>8, <3>1
  <2> QED
    BY <1>1, <1>2, <1>8, <2>1
<1> QED
  BY <1>5, <1>6, <1>7, <1>8 DEF s

LEMMA LineTail ==
  ASSUME NEW q \in Seq(Message), q # <<>>, NEW f
  PROVE  /\ Silent(q) => Silent(Tail(q)) /\ Head(q).type = "rssi"
         /\ Announces(q) <=> Head(q).type = "channels" \/ Announces(Tail(q))
         /\ LastSays(q, f) => LastSays(Tail(q), f)
         /\ LastSays(q, f) /\ Head(q).type = "channels" /\ ~Announces(Tail(q))
              => Head(q).formation = f
<1> DEFINE s == Tail(q)
<1>1. /\ Head(q) = q[1] /\ Len(q) \in Nat \ {0} /\ Len(s) = Len(q) - 1
      /\ \A i \in 1 .. Len(q) - 1 : s[i] = q[i + 1]
  BY TailFacts
<1> HIDE DEF s
<1>2. \A i \in 1 .. Len(s) : i + 1 \in 1 .. Len(q) /\ s[i] = q[i + 1]
  BY <1>1
<1>3. \A i \in 1 .. Len(q) : i = 1 \/ (i - 1 \in 1 .. Len(s) /\ s[i - 1] = q[i])
  BY <1>1
<1>4. 1 \in 1 .. Len(q)
  BY <1>1
<1>5. Silent(q) => Silent(s) /\ Head(q).type = "rssi"
  BY <1>1, <1>2, <1>4 DEF Silent
<1>6. Announces(q) <=> Head(q).type = "channels" \/ Announces(s)
  <2>1. Announces(q) => Head(q).type = "channels" \/ Announces(s)
    BY <1>1, <1>3 DEF Announces
  <2>2. Announces(s) => Announces(q)
    BY <1>2 DEF Announces
  <2>3. Head(q).type = "channels" => Announces(q)
    BY <1>1, <1>4 DEF Announces
  <2> QED
    BY <2>1, <2>2, <2>3
<1>7. ASSUME LastSays(q, f) PROVE LastSays(s, f)
  <2> SUFFICES ASSUME NEW i \in 1 .. Len(s), s[i].type = "channels",
                      \A j \in i + 1 .. Len(s) : s[j].type # "channels"
               PROVE  s[i].formation = f
    BY DEF LastSays
  <2>1. i + 1 \in 1 .. Len(q) /\ q[i + 1] = s[i]
    BY <1>2
  <2>2. ASSUME NEW j \in (i + 1) + 1 .. Len(q) PROVE q[j].type # "channels"
    <3>1. j - 1 \in i + 1 .. Len(s) /\ q[j] = s[j - 1]
      BY <1>1, <1>3
    <3> QED
      BY <3>1
  <2> QED
    BY <1>7, <2>1, <2>2 DEF LastSays
<1>8. ASSUME LastSays(q, f), Head(q).type = "channels", ~Announces(s)
      PROVE  Head(q).formation = f
  <2>1. ASSUME NEW j \in 1 + 1 .. Len(q) PROVE q[j].type # "channels"
    <3>1. j - 1 \in 1 .. Len(s) /\ q[j] = s[j - 1]
      BY <1>1, <1>3
    <3> QED
      BY <1>8, <3>1 DEF Announces
  <2> QED
    BY <1>1, <1>4, <1>8, <2>1 DEF LastSays
<1> QED
  BY <1>5, <1>6, <1>7, <1>8 DEF s

LEMMA OvertakenIs ==
  ASSUME Types, NEW b \in Board
  PROVE  Overtaken(b) <=> Announces(inbox[b])
<1>1. inbox[b] \in Seq(Message)
  BY DEF Types
<1>2. DOMAIN inbox[b] = 1 .. Len(inbox[b])
  BY <1>1, LenProperties
<1> QED
  BY <1>2 DEF Overtaken, Announces, ToSet

\* The parts of Sole.
Alone(u) == ~sta_lock[u] /\ ~IsAp(u) /\ ~offered[u] /\ Silent(inbox[u])
Plan(u) == Formation(Channel[sta[u].net])
Member(u, b) ==
  Follows(b) /\ (sta[u].client /\ ~IsAp(b) => Suggests(b, Plan(u)))

LEMMA SoleIs ==
  \A u \in Board : Sole(u) <=> Alone(u) /\ \A b \in Board \ {u} : Member(u, b)
BY DEF Sole, Alone, Member, Plan

\* Nothing happens to the board, except for a message in its line.
Same(c) ==
  /\ task'[c] = task[c] /\ sta'[c] = sta[c] /\ radio'[c] = radio[c]
  /\ events'[c] = events[c] /\ sta_lock'[c] = sta_lock[c]
  /\ suggested'[c] = suggested[c] /\ provided'[c] = provided[c]
  /\ offered'[c] = offered[c] /\ ap'[c] = ap[c]

LEMMA FollowsFrame ==
  ASSUME Types, NEW c \in Board, Same(c), Follows(c), NEW m \in Message,
         inbox'[c] = inbox[c] \/ inbox'[c] = Append(inbox[c], m)
  PROVE  Follows(c)'
<1>1. inbox[c] \in Seq(Message)
  BY DEF Types
<1>2. Announces(inbox[c]) => Announces(inbox[c])'
  BY <1>1, LineAppend DEF Announces
<1> QED
  BY <1>2 DEF Follows, Same, Quiet, IsAp

LEMMA SuggestsFrame ==
  ASSUME Types, NEW c \in Board, suggested'[c] = suggested[c], NEW f,
         Suggests(c, f), NEW m \in Message, m.type # "channels",
         inbox'[c] = inbox[c] \/ inbox'[c] = Append(inbox[c], m)
  PROVE  LastSays(inbox'[c], f) /\ (~Announces(inbox'[c]) => suggested'[c] = ChannelIn(f, c))
<1>1. inbox[c] \in Seq(Message)
  BY DEF Types
<1>2. LastSays(inbox'[c], f) /\ (Announces(inbox[c]) => Announces(inbox'[c]))
  BY <1>1, LineAppend DEF Suggests
<1> QED
  BY <1>2 DEF Suggests

\* The connection of board u is the same, or gone.
Keeps(u) == sta'[u].client => sta[u].client /\ sta'[u].net = sta[u].net

LEMMA MemberFrame ==
  ASSUME Types, NEW u \in Board, NEW c \in Board, Same(c), Member(u, c), Keeps(u),
         NEW m \in Message, m.type # "channels",
         inbox'[c] = inbox[c] \/ inbox'[c] = Append(inbox[c], m)
  PROVE  Member(u, c)'
<1>1. Follows(c)'
  BY FollowsFrame DEF Member
<1>2. ASSUME sta'[u].client, ~IsAp(c)' PROVE Suggests(c, Plan(u))'
  <2>1. PICK f : f = Plan(u)
    OBVIOUS
  <2>2. Plan(u)' = f
    BY <1>2, <2>1 DEF Plan, Keeps
  <2>3. Suggests(c, f)
    BY <1>2, <2>1 DEF Member, Keeps, IsAp, Same
  <2>4. /\ LastSays(inbox'[c], f)
        /\ ~Announces(inbox'[c]) => suggested'[c] = ChannelIn(f, c)
    BY <2>3, SuggestsFrame DEF Same
  <2> QED
    BY <2>2, <2>4 DEF Suggests, LastSays, Announces
<1> QED
  BY <1>1, <1>2 DEF Member

LEMMA AloneFrame ==
  ASSUME Types, NEW u \in Board, Alone(u), sta_lock'[u] = sta_lock[u],
         ap'[u] = ap[u], offered'[u] = offered[u],
         NEW m \in Message, m.type = "rssi",
         inbox'[u] = inbox[u] \/ inbox'[u] = Append(inbox[u], m)
  PROVE  Alone(u)'
<1>1. inbox[u] \in Seq(Message)
  BY DEF Types
<1>2. Silent(inbox'[u])
  BY <1>1, LineAppend DEF Alone
<1> QED
  BY <1>2 DEF Alone, IsAp, Silent

\* Every line is as before, or has a message m more.
Lines(b, m) ==
  /\ inbox'[b] = inbox[b]
  /\ \A c \in Board : inbox'[c] = inbox[c] \/ inbox'[c] = Append(inbox[c], m)

\* Steps of the task and of the station short of a connection.
Local(b) ==
  \/ StartsTask(b) \/ Measures(b) \/ Prioritizes(b) \/ EntersLoop(b)
  \/ StartsScan(b) \/ EndsScan(b)
  \/ Associates(b) \/ \E r \in Loss : Fails(b, r)
  \/ \E r \in Loss : Disconnects(b, r)
  \/ Leases(b)

LEMMA LocalFacts ==
  ASSUME Types, StationInv, NEW b \in Board, Local(b)
  PROVE  /\ UNCHANGED <<sta_lock, suggested, routing, disturbed>>
         /\ \E m \in Message : m.type = "rssi" /\ Lines(b, m)
<1>1. PICK m \in Message : m.type = "rssi"
  <2>1. [type |-> "rssi", from |-> b, rssi |-> 0] \in Message
    BY MessageFacts
  <2> QED
    BY <2>1
<1>2. CASE Measures(b)
  <2>1. PICK x : /\ x = Max(Hears(b))
                 /\ Broadcast(b, [type |-> "rssi", from |-> b, rssi |-> x])
                 /\ UNCHANGED <<sta_lock, managers, routing, disturbed>>
    BY <1>2, Zenon DEF Measures
  <2>2. x \in Nat
    <3>1. Allowed(b) \in SUBSET Node
      BY DEF Allowed
    <3> QED
      BY <2>1, <3>1, SignalFacts DEF Hears
  <2>3. [type |-> "rssi", from |-> b, rssi |-> x] \in Message
    BY <2>2, MessageFacts
  <2>4. Lines(b, [type |-> "rssi", from |-> b, rssi |-> x])
    BY <2>1, <2>3, BroadcastFacts DEF Lines
  <2> QED
    BY <2>1, <2>3, <2>4 DEF managers
<1>3. CASE ~Measures(b)
  <2>1. UNCHANGED <<sta_lock, suggested, routing, disturbed, inbox>>
    BY <1>3, Zenon DEF Local, StartsTask, Prioritizes, EntersLoop, StartsScan, EndsScan,
       Associates, Fails, Disconnects, Leases, Handles, OnDisconnected, OnLease,
       managers, history
  <2> QED
    BY <1>1, <2>1 DEF Lines
<1> QED
  BY <1>2, <1>3

\* Such a step makes no connection, and a disabled board stays as it is.
LEMMA LocalStation ==
  ASSUME Types, StationInv, NEW b \in Board, Local(b)
  PROVE  /\ sta'[b].client => sta[b].client /\ sta'[b].net = sta[b].net
         /\ sta_lock[b] /\ Quiet(b) => Quiet(b)'
<1> DEFINE G == /\ sta'[b].client => sta[b].client /\ sta'[b].net = sta[b].net
                /\ sta_lock[b] /\ Quiet(b) => Quiet(b)'
<1>0. Station(b)
  BY DEF StationInv
<1>1. ASSUME StartsTask(b) \/ Measures(b) \/ Prioritizes(b) \/ EntersLoop(b)
      PROVE  G
  <2>1. /\ UNCHANGED station
        /\ \/ Goes(b, "measure", SCAN_TIME) \/ Goes(b, "listen", LISTEN_TIME)
           \/ Goes(b, "wait", Turn(b, rssi[b]) * SLOT) \/ Goes(b, "loop", 0)
    BY <1>1 DEF StartsTask, Measures, Prioritizes, EntersLoop
  <2>2. task'[b].pc # "scan"
    BY <2>1 DEF Goes, Types
  <2> QED
    BY <2>1, <2>2 DEF Quiet, station
<1>2. ASSUME StartsScan(b) PROVE G
  BY <1>2 DEF StartsScan, station
<1>3. ASSUME EndsScan(b) PROVE G
  <2>1. /\ task[b].pc = "scan"
        /\ UNCHANGED <<sta, radio>> \/ \E n \in Node : StationConnect(b, n)
    BY <1>3 DEF EndsScan, Allowed
  <2>2. ~sta[b].client
    BY <1>0, <2>1 DEF Station, Rests, Associating, Associated, Losing
  <2>3. sta'[b].client = sta[b].client
    BY <2>1, ConnectSta
  <2> QED
    BY <2>1, <2>2, <2>3 DEF Quiet
<1>4. ASSUME Associates(b) \/ \E r \in Loss : Fails(b, r) PROVE G
  <2>1. UNCHANGED sta /\ radio[b] # "idle"
    BY <1>4 DEF Associates, Fails
  <2> QED
    BY <2>1 DEF Quiet
<1>5. ASSUME NEW r \in Loss, Disconnects(b, r) PROVE G
  <2>1. /\ OnDisconnected(b, r) /\ events[b] # <<>> /\ UNCHANGED task
    BY <1>5 DEF Disconnects, Handles
  <2>2. /\ ~sta'[b].full
        /\ sta'[b].client <=> sta[b].client /\ ~sta[b].full
        /\ Retry(b, r) < MAX_RETRIES \/ UNCHANGED radio
    BY <2>1, DisconnectedSta
  <2>3. ~sta'[b].client
    BY <1>0, <2>1, <2>2 DEF Station, Rests
  <2>4. ASSUME Quiet(b) PROVE Quiet(b)'
    <3>1. PICK s \in Loss : sta[b].retry = MAX_RETRIES /\ events[b] = <<s>>
      BY <2>1, <2>4 DEF Quiet
    <3>2. Retry(b, r) = MAX_RETRIES
      BY <3>1 DEF Retry
    <3>3. UNCHANGED radio
      BY <2>2, <3>2, LimitsAssumption
    <3>4. events'[b] = Tail(events[b])
      BY <2>1 DEF OnDisconnected, Types
    <3>5. events'[b] = <<>>
      BY <3>1, <3>4, EventFacts
    <3> QED
      BY <2>1, <2>2, <2>4, <3>3, <3>5 DEF Quiet
  <2> QED
    BY <2>3, <2>4
<1>6. ASSUME Leases(b) PROVE G
  <2>1. /\ OnLease(b) /\ events[b] # <<>> /\ Head(events[b]) = "GOT_IP"
    BY <1>6 DEF Leases, Handles
  <2>2. sta'[b].net = sta[b].net /\ sta'[b].client = sta[b].client
    BY <2>1, LeaseSta
  <2>3. ~Quiet(b)
    BY <2>1, EventFacts DEF Quiet
  <2> QED
    BY <2>2, <2>3
<1> HIDE DEF G
<1>7. G
  BY <1>1, <1>2, <1>3, <1>4, <1>5, <1>6, Zenon DEF Local
<1> QED
  BY <1>7 DEF G

OneAtMost == NoneYet \/ \E u \in Board : Sole(u)

\* The boards that a step of board b does not concern.
LEMMA SoleRest ==
  ASSUME Types, NEW b \in Board, NEW u \in Board, Others(b), Sole(u), Keeps(u),
         NEW m \in Message, m.type # "channels",
         \A c \in Board : c # b => inbox'[c] = inbox[c] \/ inbox'[c] = Append(inbox[c], m)
  PROVE  \A c \in Board \ {u} : c # b => Member(u, c)'
<1> SUFFICES ASSUME NEW c \in Board \ {u}, c # b PROVE Member(u, c)'
  OBVIOUS
<1>1. Same(c)
  BY DEF Others, Same
<1>2. Member(u, c)
  BY SoleIs
<1> QED
  BY <1>1, <1>2, MemberFrame

LEMMA LocalSole ==
  ASSUME Types, StationInv, NEW b \in Board, Local(b), Others(b), OneAtMost
  PROVE  OneAtMost'
<1>1. PICK m \in Message : m.type = "rssi" /\ Lines(b, m)
  BY LocalFacts
<1>2. UNCHANGED <<sta_lock, suggested, routing>>
  BY LocalFacts
<1>3. /\ sta'[b].client => sta[b].client /\ sta'[b].net = sta[b].net
      /\ sta_lock[b] /\ Quiet(b) => Quiet(b)'
  BY LocalStation
<1>4. \A c \in Board : inbox[c] \in Seq(Message)
  BY DEF Types
<1>5. CASE NoneYet
  <2>1. ASSUME NEW c \in Board PROVE Silent(inbox[c])'
    <3>1. Silent(inbox[c]) /\ (inbox'[c] = inbox[c] \/ inbox'[c] = Append(inbox[c], m))
      BY <1>1, <1>5 DEF NoneYet, Lines
    <3>2. Silent(inbox'[c])
      BY <1>1, <1>4, <3>1, LineAppend
    <3> QED
      BY <3>2 DEF Silent
  <2>2. \A c \in Board : ~sta'[c].client
    BY <1>3, <1>5 DEF NoneYet, Others
  <2>3. NoneYet'
    BY <1>2, <1>5, <2>1, <2>2 DEF NoneYet, IsAp, routing
  <2> QED
    BY <2>3 DEF OneAtMost
<1>6. ASSUME NEW u \in Board, Sole(u) PROVE OneAtMost'
  <2>1. Keeps(u)
    BY <1>3 DEF Keeps, Others
  <2>2. \A c \in Board \ {u} : c # b => Member(u, c)'
    BY <1>1, <1>6, <2>1, SoleRest DEF Lines
  <2>3. Alone(u)'
    <3>1. Alone(u)
      BY <1>6, SoleIs
    <3> QED
      BY <1>1, <1>2, <3>1, AloneFrame DEF Lines, routing
  <2>4. ASSUME b # u PROVE Member(u, b)'
    <3>1. Member(u, b)
      BY <1>6, <2>4, SoleIs
    <3>2. inbox'[b] = inbox[b]
      BY <1>1 DEF Lines
    <3>3. Follows(b)'
      BY <1>2, <1>3, <3>1, <3>2 DEF Member, Follows, IsAp, routing, Announces
    <3>4. sta'[u] = sta[u]
      BY <2>4 DEF Others
    <3> QED
      BY <1>2, <3>1, <3>2, <3>3, <3>4
      DEF Member, Suggests, Plan, IsAp, routing, LastSays, Announces
  <2>5. Sole(u)'
    <3>1. \A c \in Board \ {u} : Member(u, c)'
      BY <2>2, <2>4
    <3> QED
      BY <2>3, <3>1 DEF Sole, Alone, Member, Plan
  <2> QED
    BY <2>5 DEF OneAtMost
<1> QED
  BY <1>5, <1>6 DEF OneAtMost

LEMMA ConnectsSole ==
  ASSUME Types, StationInv, NEW b \in Board, Connects(b), Others(b), OneAtMost,
         ~disturbed'
  PROVE  OneAtMost'
<1>0. Station(b)
  BY DEF StationInv
<1>1. /\ OnStaticAddress(b) /\ events[b] # <<>> /\ Head(events[b]) = "GOT_IP"
      /\ UNCHANGED <<task, sta_lock, routing>>
  BY DEF Connects, Handles
<1>2. mishaps' = mishaps /\ ~Overtaken(b)
  BY <1>1 DEF OnStaticAddress
<1>3. sta[b].net \in Node /\ ~IsAp(b) /\ ~Quiet(b)
  <2>1. ~IsAp(b)
    BY <1>0, <1>1 DEF Station, Rests
  <2>2. ~Quiet(b)
    BY <1>1, EventFacts DEF Quiet
  <2> QED
    BY <1>0, <1>1, <2>1, <2>2, HandlesActive
<1>4. PICK m \in Message : m = Announced(b)
  BY <1>3, MessageFacts
<1>5. m.type = "channels" /\ m.formation = Plan(b)
  BY <1>4 DEF Announced, Plan
<1>6. Broadcast(b, m)
  BY <1>1, <1>4 DEF OnStaticAddress
<1>7. /\ inbox'[b] = inbox[b]
      /\ \A c \in Board \ {b} : inbox'[c] = Append(inbox[c], m)
  BY <1>2, <1>6, BroadcastFacts
<1>8. sta'[b].client /\ sta'[b].net = sta[b].net
  BY <1>1, StaticSta
<1>9. ~Announces(inbox[b])
  BY <1>2, OvertakenIs
<1>10. ~sta_lock[b] /\ ~offered[b] /\ Silent(inbox[b])
  <2>1. CASE NoneYet
    BY <2>1 DEF NoneYet
  <2>2. CASE \E u \in Board : Sole(u)
    <3>1. PICK u \in Board : Sole(u)
      BY <2>2
    <3>2. CASE u = b
      BY <3>1, <3>2 DEF Sole
    <3>3. CASE u # b
      <4>1. Follows(b)
        BY <3>1, <3>3, SoleIs DEF Member
      <4> QED
        BY <1>3, <1>9, <4>1 DEF Follows
    <3> QED
      BY <3>2, <3>3
  <2> QED
    BY <2>1, <2>2 DEF OneAtMost
<1>11. ASSUME NEW c \in Board \ {b} PROVE Member(b, c)'
  <2>1. /\ ~sta[c].client /\ (provided[c] => IsAp(c))
        /\ sta_lock[c] => Quiet(c)
    <3>1. CASE NoneYet
      BY <3>1 DEF NoneYet
    <3>2. ASSUME NEW u \in Board, Sole(u), u # c PROVE Follows(c)
      BY <3>2, SoleIs DEF Member
    <3>3. ASSUME Sole(c) PROVE FALSE
      <4>1. Follows(b)
        BY <3>3, SoleIs DEF Member
      <4> QED
        BY <1>3, <1>9, <1>10, <4>1 DEF Follows
    <3> QED
      BY <3>1, <3>2, <3>3 DEF OneAtMost, Follows
  <2>2. Same(c)
    BY DEF Others, Same
  <2>3. Announces(inbox'[c]) /\ LastSays(inbox'[c], Plan(b))
    <3>1. inbox[c] \in Seq(Message) /\ inbox'[c] = Append(inbox[c], m)
      BY <1>7 DEF Types
    <3> QED
      BY <1>5, <3>1, LineAppend
  <2>4. Announces(inbox[c])'
    BY <2>3 DEF Announces
  <2>5. Follows(c)'
    BY <2>1, <2>2, <2>4 DEF Follows, Same, Quiet, IsAp
  <2>6. Plan(b)' = Plan(b)
    BY <1>8 DEF Plan
  <2>7. Suggests(c, Plan(b))'
    BY <2>3, <2>4, <2>6 DEF Suggests, LastSays
  <2> QED
    BY <2>5, <2>7 DEF Member
<1>12. Alone(b)'
  BY <1>1, <1>3, <1>7, <1>10 DEF Alone, IsAp, Silent, routing
<1>13. Sole(b)'
  BY <1>11, <1>12 DEF Sole, Alone, Member, Plan
<1> QED
  BY <1>13 DEF OneAtMost

\* A message of the own line is taken.
LEMMA TakesLine ==
  ASSUME Types, NEW b \in Board, NEW f, NEW type, Received(b, type), TakeMessage(b)
  PROVE  /\ Head(inbox[b]).type = type
         /\ Silent(inbox[b]) => Silent(inbox'[b]) /\ type = "rssi"
         /\ Announces(inbox[b]) <=> type = "channels" \/ Announces(inbox'[b])
         /\ LastSays(inbox[b], f) => LastSays(inbox'[b], f)
         /\ LastSays(inbox[b], f) /\ type = "channels" /\ ~Announces(inbox'[b])
              => Head(inbox[b]).formation = f
         /\ \A c \in Board : c # b => inbox'[c] = inbox[c]
<1>1. inbox[b] \in Seq(Message) /\ inbox[b] # <<>> /\ Head(inbox[b]).type = type
  BY DEF Types, Received
<1>2. inbox'[b] = Tail(inbox[b]) /\ \A c \in Board : c # b => inbox'[c] = inbox[c]
  BY <1>1, TakeFacts
<1> QED
  BY <1>1, <1>2, LineTail

LEMMA OnRssiSole ==
  ASSUME Types, NEW b \in Board, OnRssi(b), Others(b), OneAtMost
  PROVE  OneAtMost'
<1>1. /\ Received(b, "rssi") /\ TakeMessage(b)
      /\ UNCHANGED <<task, sta, radio, events, sta_lock, suggested, routing>>
  BY DEF OnRssi, station, managers
<1>2. PICK m \in Message : m.type = "rssi"
  <2>1. [type |-> "rssi", from |-> b, rssi |-> 0] \in Message
    BY MessageFacts
  <2> QED
    BY <2>1
<1>3. /\ Silent(inbox[b]) => Silent(inbox'[b])
      /\ \A c \in Board : c # b => inbox'[c] = inbox[c]
  BY <1>1, TakesLine
<1>4. CASE NoneYet
  <2>1. ASSUME NEW c \in Board PROVE Silent(inbox[c])'
    <3>1. Silent(inbox'[c])
      BY <1>3, <1>4 DEF NoneYet
    <3> QED
      BY <3>1 DEF Silent
  <2> QED
    BY <1>1, <1>4, <2>1 DEF OneAtMost, NoneYet, IsAp, routing
<1>5. ASSUME NEW u \in Board, Sole(u) PROVE OneAtMost'
  <2>1. Keeps(u)
    BY <1>1 DEF Keeps
  <2>2. \A c \in Board \ {u} : c # b => Member(u, c)'
    BY <1>2, <1>3, <1>5, <2>1, SoleRest
  <2>3. Alone(u)'
    <3>1. Silent(inbox'[u])
      BY <1>3, <1>5 DEF Sole
    <3> QED
      BY <1>1, <1>5, <3>1 DEF Sole, Alone, IsAp, Silent, routing
  <2>4. ASSUME b # u PROVE Member(u, b)'
    <3>1. Member(u, b)
      BY <1>5, <2>4, SoleIs
    <3>2. PICK f : f = Plan(u)
      OBVIOUS
    <3>3. /\ Announces(inbox[b]) <=> Announces(inbox'[b])
          /\ LastSays(inbox[b], f) => LastSays(inbox'[b], f)
      BY <1>1, TakesLine
    <3>4. Follows(b)'
      <4>1. Announces(inbox[b])' <=> Announces(inbox'[b])
        BY DEF Announces
      <4> QED
        BY <1>1, <3>1, <3>3, <4>1 DEF Member, Follows, Quiet, IsAp, routing
    <3>5. Plan(u)' = f
      BY <1>1, <3>2 DEF Plan
    <3>6. ASSUME sta'[u].client, ~IsAp(b)' PROVE Suggests(b, Plan(u))'
      <4>1. Suggests(b, f)
        BY <1>1, <3>1, <3>2, <3>6 DEF Member, IsAp, routing
      <4>2. /\ LastSays(inbox'[b], f)
            /\ ~Announces(inbox'[b]) => suggested'[b] = ChannelIn(f, b)
        BY <1>1, <3>3, <4>1 DEF Suggests
      <4> QED
        BY <3>5, <4>2 DEF Suggests, LastSays, Announces
    <3> QED
      BY <3>4, <3>6 DEF Member
  <2>5. Sole(u)'
    <3>1. \A c \in Board \ {u} : Member(u, c)'
      BY <2>2, <2>4
    <3> QED
      BY <2>3, <3>1 DEF Sole, Alone, Member, Plan
  <2> QED
    BY <2>5 DEF OneAtMost
<1> QED
  BY <1>4, <1>5 DEF OneAtMost

\* An announcement that comes in time leaves the board quiet.
LEMMA DisableQuiet ==
  ASSUME Types, StationInv, NEW b \in Board, Disable(b), ~BeyondLock(b), UNCHANGED task
  PROVE  Quiet(b)' /\ sta'[b].client = sta[b].client
<1>0. Station(b)
  BY DEF StationInv
<1>1. StationDisconnect(b)
  BY DEF Disable
<1>2. /\ sta'[b].client = sta[b].client /\ sta'[b].full = sta[b].full
      /\ sta[b].active => sta'[b].retry = MAX_RETRIES
  BY <1>1, DisableSta
<1>3. task[b].pc # "scan" /\ ~sta[b].full /\ "GOT_IP" \notin ToSet(events[b])
  BY DEF BeyondLock
<1>4. \A q : "GOT_IP" \in ToSet(<<"GOT_IP">>) /\ "GOT_IP" \in ToSet(<<"GOT_IP", q>>)
  BY DEF ToSet
<1>5. Rests(b) \/ Associating(b)
      \/ (radio[b] = "idle" /\ sta[b].active /\ \E r \in Loss : events[b] = <<r>>)
  BY <1>0, <1>3, <1>4 DEF Station, Associated, Losing
<1>6. CASE Associating(b)
  <2>1. sta[b].active /\ radio[b] # "idle" /\ events[b] = <<>>
    BY <1>6 DEF Associating
  <2>2. radio'[b] = "idle" /\ events'[b] = Append(events[b], "LOST")
    BY <1>1, <2>1 DEF StationDisconnect, Types
  <2>3. "LOST" \in Loss
    BY DEF Loss
  <2>4. events'[b] = <<"LOST">>
    BY <2>1, <2>2, <2>3, EventFacts
  <2> QED
    BY <1>2, <1>3, <2>1, <2>2, <2>3, <2>4 DEF Quiet
<1>7. CASE ~Associating(b)
  <2>1. /\ radio[b] = "idle"
        /\ \/ events[b] = <<>>
           \/ sta[b].active /\ \E r \in Loss : events[b] = <<r>>
    BY <1>5, <1>7 DEF Rests
  <2>2. UNCHANGED <<radio, events>>
    BY <1>1, <2>1 DEF StationDisconnect
  <2> QED
    BY <1>2, <1>3, <2>1, <2>2 DEF Quiet
<1> QED
  BY <1>6, <1>7

\* The board that takes an announcement is not the one that announced.
LEMMA NotSilent ==
  ASSUME Types, NEW b \in Board, NEW type, type # "rssi", Received(b, type),
         TakeMessage(b), OneAtMost
  PROVE  ~NoneYet /\ \A u \in Board : Sole(u) => u # b
<1>1. ~Silent(inbox[b])
  BY TakesLine
<1> QED
  BY <1>1 DEF NoneYet, Sole

LEMMA OnChannelsSole ==
  ASSUME Types, StationInv, NEW b \in Board, OnChannels(b), Others(b), OneAtMost,
         ~disturbed'
  PROVE  OneAtMost'
<1>1. PICK m : m = Head(inbox[b])
  OBVIOUS
<1>2. /\ Received(b, "channels") /\ TakeMessage(b) /\ UNCHANGED <<task, routing>>
      /\ IF provided[b] THEN UNCHANGED <<station, sta_lock, suggested>>
         ELSE /\ Disable(b) /\ ~BeyondLock(b)
              /\ suggested' = [suggested EXCEPT ![b] = ChannelIn(m.formation, b)]
  BY <1>1, Zenon DEF OnChannels
<1>3. ~NoneYet /\ \A u \in Board : Sole(u) => u # b
  BY <1>2, NotSilent
<1>4. PICK u \in Board : Sole(u) /\ u # b
  BY <1>3 DEF OneAtMost
<1>5. Member(u, b)
  BY <1>4, SoleIs
<1>6. \A c \in Board : c # b => inbox'[c] = inbox[c]
  BY <1>2, TakesLine
<1>7. sta'[u] = sta[u] /\ Keeps(u)
  BY <1>4 DEF Others, Keeps
<1>8. \A c \in Board \ {u} : c # b => Member(u, c)'
  <2>1. PICK r \in Message : r.type # "channels"
    <3>1. [type |-> "provision", from |-> b] \in Message
      BY MessageFacts
    <3> QED
      BY <3>1
  <2> QED
    BY <1>4, <1>6, <1>7, <2>1, SoleRest
<1>9. Alone(u)'
  <2>1. /\ sta_lock'[u] = sta_lock[u] /\ ap'[u] = ap[u] /\ offered'[u] = offered[u]
        /\ inbox'[u] = inbox[u]
    BY <1>4, <1>6 DEF Others
  <2> QED
    BY <1>4, <2>1 DEF Sole, Alone, IsAp, Silent
<1>10. Member(u, b)'
  <2>1. CASE provided[b]
    <3>1. IsAp(b) /\ IsAp(b)'
      BY <1>2, <1>5, <2>1 DEF Member, Follows, IsAp, routing
    <3>2. Follows(b)'
      BY <1>2, <1>5, <2>1, <3>1 DEF Member, Follows, Quiet, station
    <3> QED
      BY <3>1, <3>2 DEF Member
  <2>2. CASE ~provided[b]
    <3>1. Disable(b) /\ ~BeyondLock(b) /\ UNCHANGED task
      BY <1>2, <2>2
    <3>2. Quiet(b)' /\ ~sta'[b].client
      BY <1>5, <3>1, DisableQuiet DEF Member, Follows
    <3>3. sta_lock'[b]
      BY <3>1 DEF Disable, Types
    <3>4. Follows(b)'
      BY <1>2, <2>2, <3>2, <3>3 DEF Follows, routing
    <3>5. ASSUME sta'[u].client, ~IsAp(b)' PROVE Suggests(b, Plan(u))'
      <4>1. PICK f : f = Plan(u)
        OBVIOUS
      <4>2. Plan(u)' = f
        BY <1>7, <4>1 DEF Plan
      <4>3. LastSays(inbox[b], f)
        BY <1>2, <1>5, <1>7, <3>5, <4>1 DEF Member, Suggests, IsAp, routing
      <4>4. LastSays(inbox'[b], f) /\ (~Announces(inbox'[b]) => m.formation = f)
        BY <1>1, <1>2, <4>3, TakesLine
      <4>5. suggested'[b] = ChannelIn(m.formation, b)
        BY <1>2, <2>2 DEF Types
      <4> QED
        BY <4>2, <4>4, <4>5 DEF Suggests, LastSays, Announces
    <3> QED
      BY <3>4, <3>5 DEF Member
  <2> QED
    BY <2>1, <2>2
<1>11. Sole(u)'
  BY <1>8, <1>9, <1>10 DEF Sole, Alone, Member, Plan
<1> QED
  BY <1>11 DEF OneAtMost

LEMMA OnProvisionSole ==
  ASSUME Types, NEW b \in Board, OnProvision(b), Others(b), OneAtMost
  PROVE  OneAtMost'
<1>1. /\ Received(b, "provision") /\ TakeMessage(b)
      /\ UNCHANGED <<task, sta, radio, events, sta_lock, suggested, provided, ap>>
  BY DEF OnProvision, station, managers
<1>2. ~NoneYet /\ \A u \in Board : Sole(u) => u # b
  BY <1>1, NotSilent
<1>3. PICK u \in Board : Sole(u) /\ u # b
  BY <1>2 DEF OneAtMost
<1>4. Member(u, b)
  BY <1>3, SoleIs
<1>5. PICK f : f = Plan(u)
  OBVIOUS
<1>6. /\ \A c \in Board : c # b => inbox'[c] = inbox[c]
      /\ Announces(inbox[b]) <=> Announces(inbox'[b])
      /\ LastSays(inbox[b], f) => LastSays(inbox'[b], f)
  BY <1>1, TakesLine
<1>7. \A c \in Board \ {u} : c # b => Member(u, c)'
  <2>1. PICK r \in Message : r.type # "channels"
    <3>1. [type |-> "provision", from |-> b] \in Message
      BY MessageFacts
    <3> QED
      BY <3>1
  <2>2. Keeps(u)
    BY <1>1 DEF Keeps
  <2> QED
    BY <1>3, <1>6, <2>1, <2>2, SoleRest
<1>8. Alone(u)'
  <2>1. /\ sta_lock'[u] = sta_lock[u] /\ ap'[u] = ap[u] /\ offered'[u] = offered[u]
        /\ inbox'[u] = inbox[u]
    BY <1>3, <1>6 DEF Others
  <2> QED
    BY <1>3, <2>1 DEF Sole, Alone, IsAp, Silent
<1>9. Follows(b)'
  <2>1. Announces(inbox[b])' <=> Announces(inbox'[b])
    BY DEF Announces
  <2> QED
    BY <1>1, <1>4, <1>6, <2>1 DEF Member, Follows, Quiet, IsAp
<1>10. ASSUME sta'[u].client, ~IsAp(b)' PROVE Suggests(b, Plan(u))'
  <2>1. Suggests(b, f)
    BY <1>1, <1>4, <1>5, <1>10 DEF Member, IsAp
  <2>2. /\ LastSays(inbox'[b], f)
        /\ ~Announces(inbox'[b]) => suggested'[b] = ChannelIn(f, b)
    BY <1>1, <1>6, <2>1 DEF Suggests
  <2>3. Plan(u)' = f
    BY <1>1, <1>5 DEF Plan
  <2> QED
    BY <2>2, <2>3 DEF Suggests, LastSays, Announces
<1>11. Sole(u)'
  BY <1>7, <1>8, <1>9, <1>10 DEF Sole, Alone, Member, Plan
<1> QED
  BY <1>11 DEF OneAtMost

\* Only the board that is connected is provisioned by another node.
LEMMA HandshakeSole ==
  ASSUME Types, NEW b \in Board, Handshake(b), Others(b), OneAtMost
  PROVE  OneAtMost'
<1>1. PICK m : m = [type |-> "provision", from |-> b]
  OBVIOUS
<1>2. /\ sta[b].client /\ Broadcast(b, m)
      /\ UNCHANGED <<sta, sta_lock, offered, ap>>
  BY <1>1, Zenon DEF Handshake, station
<1>3. m \in Message /\ m.type # "channels"
  BY <1>1, MessageFacts
<1>4. PICK u \in Board : Sole(u)
  BY <1>2 DEF OneAtMost, NoneYet
<1>5. u = b
  BY <1>2, <1>4, SoleIs DEF Member, Follows
<1>6. /\ inbox'[b] = inbox[b]
      /\ \A c \in Board : inbox'[c] = inbox[c] \/ inbox'[c] = Append(inbox[c], m)
  BY <1>2, <1>3, BroadcastFacts
<1>7. Keeps(b)
  BY <1>2 DEF Keeps
<1>8. \A c \in Board \ {b} : Member(b, c)'
  BY <1>3, <1>4, <1>5, <1>6, <1>7, SoleRest
<1>9. Alone(b)'
  BY <1>2, <1>4, <1>5, <1>6 DEF Sole, Alone, IsAp, Silent
<1>10. Sole(b)'
  BY <1>8, <1>9 DEF Sole, Alone, Member, Plan
<1> QED
  BY <1>10 DEF OneAtMost

LEMMA BecomesApSole ==
  ASSUME Types, NEW b \in Board, BecomesAp(b), Others(b), OneAtMost
  PROVE  OneAtMost'
<1>1. /\ offered[b] /\ StationReset(b) /\ ap'[b] = suggested[b] /\ UNCHANGED inbox
  BY DEF BecomesAp, Types
<1>2. PICK u \in Board : Sole(u)
  BY <1>1 DEF OneAtMost, NoneYet
<1>3. u # b
  BY <1>1, <1>2 DEF Sole
<1>4. Member(u, b)
  BY <1>2, <1>3, SoleIs
<1>5. \A c \in Board \ {u} : c # b => Member(u, c)'
  <2>1. PICK r \in Message : r.type # "channels"
    <3>1. [type |-> "provision", from |-> b] \in Message
      BY MessageFacts
    <3> QED
      BY <3>1
  <2>2. Keeps(u)
    BY <1>3 DEF Keeps, Others
  <2> QED
    BY <1>1, <1>2, <2>1, <2>2, SoleRest
<1>6. Alone(u)'
  <2>1. /\ sta_lock'[u] = sta_lock[u] /\ ap'[u] = ap[u] /\ offered'[u] = offered[u]
        /\ inbox'[u] = inbox[u]
    BY <1>1, <1>3 DEF Others
  <2> QED
    BY <1>2, <2>1 DEF Sole, Alone, IsAp, Silent
<1>7. Member(u, b)'
  <2>1. suggested[b] \in 1 .. 11
    BY DEF Types
  <2>2. IsAp(b)'
    BY <1>1, <2>1 DEF IsAp, NoAp
  <2>3. sta'[b].client = sta[b].client
    BY <1>1, ResetSta
  <2>4. ~sta_lock'[b]
    BY <1>1 DEF StationReset, Types
  <2> QED
    BY <1>4, <2>2, <2>3, <2>4 DEF Member, Follows
<1>8. Sole(u)'
  BY <1>5, <1>6, <1>7 DEF Sole, Alone, Member, Plan
<1> QED
  BY <1>8 DEF OneAtMost

LEMMA SoleStep ==
  ASSUME Types, StationInv, SoleInv, [Next]_vars
  PROVE  SoleInv'
<1>1. CASE UNCHANGED vars
  BY <1>1
  DEF SoleInv, NoneYet, Sole, Follows, Suggests, Quiet, IsAp, Silent, Announces,
      LastSays, vars, station, managers, routing, history
<1>2. CASE Tick
  <2>1. /\ \A c \in Board : task'[c].pc = task[c].pc
        /\ UNCHANGED <<sta, radio, events, sta_lock, suggested, inbox, provided,
                       offered, ap, disturbed>>
    BY <1>2, TickFacts DEF station, managers, routing, history
  <2>2. NoneYet => NoneYet'
    BY <2>1 DEF NoneYet, IsAp, Silent
  <2>3. \A c \in Board : Follows(c) => Follows(c)'
    BY <2>1 DEF Follows, Quiet, IsAp, Announces
  <2>4. \A u \in Board : Sole(u) => Sole(u)'
    BY <2>1, <2>3 DEF Sole, Suggests, IsAp, Silent, Announces, LastSays
  <2> QED
    BY <2>1, <2>2, <2>4 DEF SoleInv
<1>3. ASSUME NEW b \in Board, BoardStep(b) PROVE SoleInv'
  <2> SUFFICES ASSUME ~disturbed' PROVE OneAtMost'
    BY DEF SoleInv, OneAtMost
  <2>1. Others(b)
    BY <1>3, BoardStepTypes
  <2>2. disturbed => disturbed'
    <3>1. CASE Local(b)
      BY <3>1, LocalFacts
    <3>2. CASE ~Local(b)
      BY <1>3, <3>2, Zenon
      DEF BoardStep, Local, Connects, OnStaticAddress, OnRssi, OnChannels,
          OnProvision, Handshake, BecomesAp, history
    <3> QED
      BY <3>1, <3>2
  <2>3. OneAtMost
    BY <2>2 DEF SoleInv, OneAtMost
  <2>4. CASE Local(b)
    BY <2>1, <2>3, <2>4, LocalSole
  <2>5. CASE Connects(b)
    BY <2>1, <2>3, <2>5, ConnectsSole
  <2>6. CASE OnRssi(b)
    BY <2>1, <2>3, <2>6, OnRssiSole
  <2>7. CASE OnChannels(b)
    BY <2>1, <2>3, <2>7, OnChannelsSole
  <2>8. CASE OnProvision(b)
    BY <2>1, <2>3, <2>8, OnProvisionSole
  <2>9. CASE Handshake(b)
    BY <2>1, <2>3, <2>9, HandshakeSole
  <2>10. CASE BecomesAp(b)
    BY <2>1, <2>3, <2>10, BecomesApSole
  <2> QED
    BY <1>3, <2>4, <2>5, <2>6, <2>7, <2>8, <2>9, <2>10, Zenon DEF BoardStep, Local
<1> QED
  BY <1>1, <1>2, <1>3, NextCases

----------------------------------------------------------------------------
(* The theorems.                                                           *)

LEMMA DiscoveryInvInit ==
  ASSUME Init
  PROVE  DiscoveryInv
<1>1. PICK skew \in [Board -> Skew] :
        task = [b \in Board |-> [pc |-> "start",
                                 timer |-> b * START_DELAY + skew[b]]]
  BY DEF Init
<1>2. ASSUME NEW b \in Board PROVE b * START_DELAY + skew[b] \in Nat
  <2>1. b \in Nat /\ START_DELAY \in Nat /\ skew[b] \in Nat
    <3>1. b \in 0 .. 3
      BY BoardFacts
    <3>2. START_DELAY \in Nat /\ Skew \subseteq Nat /\ skew[b] \in Skew
      BY TimesAssumption
    <3>3. b \in Nat
      BY <3>1
    <3>4. skew[b] \in Nat
      BY <3>2, Zenon
    <3> QED
      BY <3>2, <3>3, <3>4
  <2>2. b * START_DELAY \in Nat
    BY <2>1
  <2> QED
    BY <2>1, <2>2
<1>3. task \in [Board -> [pc : Step, timer : Nat]]
  BY <1>1, <1>2 DEF Step
<1>4. \A b \in Board : task[b].pc = "start"
  BY <1>1
<1>5. /\ \A b \in Board : inbox[b] = <<>> /\ events[b] = <<>>
      /\ \A b \in Board : radio[b] = "idle" /\ ~sta_lock[b] /\ ap[b] = NoAp
      /\ \A b \in Board : ~provided[b] /\ ~offered[b]
      /\ \A b \in Board : ~sta[b].active /\ ~sta[b].full /\ ~sta[b].client
      /\ \A b \in Board, c \in Device : rssi[b][c] = Unknown
  BY DEF Init
<1>6. Types
  <2>1. suggested \in [Board -> 1 .. 11]
    BY ChannelFacts DEF Init
  <2>2. sta \in [Board -> StationState]
    BY DEF Init, StationState
  <2>3. inbox \in [Board -> Seq(Message)] /\ events \in [Board -> Seq(Event)]
    BY DEF Init
  <2>4. rssi \in [Board -> [Device -> Nat]] /\ ap \in [Board -> 0 .. 11]
    BY DEF Init, Unknown, NoAp
  <2>5. /\ radio \in [Board -> {"idle", "connecting", "up"}]
        /\ sta_lock \in [Board -> BOOLEAN] /\ provided \in [Board -> BOOLEAN]
        /\ offered \in [Board -> BOOLEAN]
    BY DEF Init
  <2>6. misled \in BOOLEAN /\ disturbed \in BOOLEAN /\ mishaps \in Nat
    BY DEF Init
  <2> QED
    BY <1>3, <2>1, <2>2, <2>3, <2>4, <2>5, <2>6, Zenon DEF Types
<1>7. StationInv
  BY <1>4, <1>5 DEF StationInv, Station, Rests, IsAp
<1>8. Len(<<>>) = 0
  OBVIOUS
<1>9. HeardInv
  BY <1>5, <1>8, BoardFacts DEF HeardInv
<1>10. ListenInv
  BY <1>4 DEF ListenInv
<1>11. TurnInv
  BY <1>4 DEF TurnInv, Sooner
<1>12. NoneYet
  BY <1>5, <1>8 DEF NoneYet, IsAp, Silent
<1> QED
  BY <1>6, <1>7, <1>9, <1>10, <1>11, <1>12 DEF DiscoveryInv, SoleInv

LEMMA DiscoveryInvStep ==
  ASSUME DiscoveryInv, [Next]_vars
  PROVE  DiscoveryInv'
BY TypesStep, StationStep, HeardStep, ListenStep, TurnStep, SoleStep DEF DiscoveryInv

(* The invariant holds for any number of mishaps, and at any time.         *)
THEOREM DiscoveryInvariant == Spec => []DiscoveryInv
BY DiscoveryInvInit, DiscoveryInvStep, PTL DEF Spec

\* The board that is connected is the one that announced last.
LEMMA UplinkIsSole ==
  ASSUME DiscoveryInv, ~disturbed, NEW u \in Uplinks
  PROVE  u \in Board /\ sta[u].client /\ Sole(u)
<1>1. u \in Board /\ sta[u].client /\ ~IsAp(u)
  BY DEF Uplinks, IsAp
<1>2. PICK v \in Board : Sole(v)
  BY <1>1 DEF DiscoveryInv, SoleInv, NoneYet
<1>3. v = u
  BY <1>1, <1>2, SoleIs DEF Member, Follows
<1> QED
  BY <1>1, <1>2, <1>3

(* Disabling the siblings' stations (channel_manager.c) leaves one board   *)
(* connected, as long as every announcement comes in time.                 *)
THEOREM OneUplinkHolds == Spec => []OneUplink
<1>1. ASSUME DiscoveryInv PROVE OneUplink
  <2> SUFFICES ASSUME ~disturbed
               PROVE  /\ \A b, c \in Uplinks : b = c
                      /\ \A b \in Uplinks : ~sta_lock[b]
    BY DEF OneUplink
  <2>1. \A b \in Uplinks : b \in Board /\ sta[b].client /\ Sole(b)
    BY <1>1, UplinkIsSole
  <2>2. ASSUME NEW b \in Uplinks, NEW c \in Uplinks, b # c PROVE FALSE
    <3>1. Member(b, c)
      BY <2>1, <2>2, SoleIs
    <3> QED
      BY <2>1, <3>1 DEF Member, Follows
  <2>3. \A b \in Uplinks : ~sta_lock[b]
    BY <2>1 DEF Sole
  <2> QED
    BY <2>2, <2>3
<1> QED
  BY <1>1, DiscoveryInvariant, PTL

(* Boards scan in the order of their places (pm_get_suggested_priority),   *)
(* as far as each knew what all had measured.                              *)
THEOREM InTurnHolds == Spec => []InTurn
<1>1. ASSUME DiscoveryInv PROVE InTurn
  <2> SUFFICES ASSUME ~misled, NEW b \in Board, NEW c \in Board,
                      task[b].pc \in {"loop", "scan"},
                      task[c].pc \in {"start", "measure", "listen", "wait"}
               PROVE  Place(b) <= Place(c)
    BY DEF InTurn
  <2>1. Place(b) \in 0 .. 3 /\ Place(c) \in 0 .. 3
    BY PlaceFacts
  <2>2. ~(Place(c) < Place(b))
    BY <1>1 DEF DiscoveryInv, TurnInv, Sooner
  <2> QED
    BY <2>1, <2>2
<1> QED
  BY <1>1, DiscoveryInvariant, PTL

(* An access point that starts while the node is connected does not share  *)
(* the channel of the connection (select_formation, node_set_as_ap).       *)
THEOREM ApartFromUplinkHolds == Spec => ApartFromUplink
<1> DEFINE A == \A b \in Board, u \in Uplinks :
                  ap'[b] # ap[b] /\ ~disturbed /\ ~Overtaken(b)
                    => ap'[b] # Channel[sta[u].net]
<1>1. ASSUME DiscoveryInv, [Next]_vars PROVE [A]_vars
  <2> SUFFICES ASSUME NEW b \in Board, NEW u \in Uplinks, ap'[b] # ap[b],
                      ~disturbed, ~Overtaken(b)
               PROVE  ap'[b] # Channel[sta[u].net]
    BY Zenon
  <2>0. Types /\ StationInv
    BY <1>1 DEF DiscoveryInv
  <2>1. u \in Board /\ sta[u].client /\ Sole(u)
    BY <1>1, UplinkIsSole
  <2>2. PICK c \in Board : BoardStep(c)
    <3>1. CASE UNCHANGED vars
      BY <3>1 DEF vars, routing
    <3>2. CASE Tick
      BY <3>2 DEF Tick, routing
    <3> QED
      BY <1>1, <3>1, <3>2, NextCases
  <2>3. BecomesAp(b)
    <3>1. c = b
      BY <2>0, <2>2, BoardStepTypes DEF Others
    <3>2. CASE Local(b)
      BY <2>0, <3>2, LocalFacts DEF routing
    <3>3. CASE ~Local(b) /\ ~BecomesAp(b)
      <4>1. UNCHANGED ap
        BY <2>2, <3>1, <3>3, Zenon
        DEF BoardStep, Local, Connects, Handles, OnRssi, OnChannels, OnProvision,
            Handshake, routing
      <4> QED
        BY <4>1
    <3> QED
      BY <3>2, <3>3
  <2>4. offered[b] /\ ~provided[b] /\ ap'[b] = suggested[b]
    BY <2>0, <2>3 DEF BecomesAp, Types
  <2>5. u # b
    BY <2>1, <2>4 DEF Sole
  <2>6. ~IsAp(b)
    BY <2>0, <2>4 DEF StationInv, Station
  <2>7. ~Announces(inbox[b])
    BY <2>0, OvertakenIs
  <2>8. suggested[b] = ChannelIn(Plan(u), b)
    BY <2>1, <2>5, <2>6, <2>7, SoleIs DEF Member, Suggests
  <2>9. sta[u].net \in Node
    BY <2>0, <2>1 DEF StationInv, Station, Rests, Associating, Associated, Losing, Sole
  <2>10. Channel[sta[u].net] \in 1 .. 11
    BY <2>9, NodesAssumption
  <2> QED
    BY <2>4, <2>8, <2>10, FormationFacts DEF Plan
<1> QED
  BY <1>1, DiscoveryInvariant, PTL DEF Spec, ApartFromUplink
=============================================================================
