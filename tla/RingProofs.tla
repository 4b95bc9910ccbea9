----------------------------- MODULE RingProofs -----------------------------
(***************************************************************************)
(* Theorems about the ring link: RingBroadcast, for any number of boards   *)
(* from 2 on, any TTL that is enough for them, any queues, retries,        *)
(* broadcasts and losses, and BufferPool, for any pool, any queue sizes    *)
(* and any number of packets.                                              *)
(***************************************************************************)
EXTENDS RingBroadcast, BufferPool, SequenceTheorems, FiniteSetTheorems, TLAPS

Packet == [src : Board, msg : Nat, ttl : Nat]
Pair == Board \X Nat

Types ==
  /\ link \in [Board -> Seq(Packet)]
  /\ queue \in [Board -> Seq(Pair)] /\ took \in [Board -> Seq(Pair)]
  /\ handling \in [Board -> BOOLEAN]
  /\ sender \in [Board -> Task \cup {None}]
  /\ phase \in [Board -> {"idle", "send", "wait", "clear"}]
  /\ msg \in [Board -> Nat] /\ try \in [Board -> Nat]
  /\ result \in [Board -> BOOLEAN]
  /\ s_broadcast_task \in [Board -> Task \cup {None}]
  /\ notified \in [Board -> [Task -> Nat]]
  /\ ack \in [Board -> Task \cup {None}]
  /\ reported \subseteq Pair
  /\ late \subseteq Board

----------------------------------------------------------------------------
(* The order of messages.                                                  *)

\* The messages on link b.
Line(b) == [i \in 1 .. Len(link[b]) |-> Message(link[b][i])]

\* The messages of each source are in order.
Ordered(q) ==
  \A i, j \in 1 .. Len(q) : i < j /\ q[i][1] = q[j][1] => q[i][2] <= q[j][2]

LinesOrdered == \A b \in Board : Ordered(Line(b)) /\ Ordered(Received(b))

\* What is further along the ring was sent earlier.
SentEarlier ==
  \A b, c \in Board, s \in Board, x, y \in Nat :
    /\ <<s, x>> \in ToSet(Line(b)) /\ Dist(s, b) < Dist(s, c)
    /\ <<s, y>> \in ToSet(Line(c))
    => y <= x

\* So was what a board has got, compared to what is still to come by it.
GotEarlier ==
  \A b, c \in Board, s \in Board, x, y \in Nat :
    /\ <<s, x>> \in ToSet(Line(b)) /\ Dist(s, b) <= Dist(s, c)
    /\ <<s, y>> \in ToSet(Received(c))
    => y <= x

NothingNewer ==
  \A b \in Board, s \in Board, x \in Nat :
    <<s, x>> \in ToSet(Line(b)) \cup ToSet(Received(b)) => x <= msg[s]

OrderInv == LinesOrdered /\ SentEarlier /\ GotEarlier /\ NothingNewer

----------------------------------------------------------------------------
(* One try.                                                                *)

\* A packet of board s on link c.
Flies(s, c, i) == i \in 1 .. Len(link[c]) /\ link[c][i].src = s

\* How often board b got the message that board s broadcasts.
Got(s, b) == Times(b, <<s, msg[s]>>)

\* Before a board's first timeout it has one packet on the ring at most, and
\* only while it waits.  The boards behind the packet got the message once.
OnePacket(s) ==
  /\ \A c, d \in Board, i, j \in Nat :
       Flies(s, c, i) /\ Flies(s, d, j) => c = d /\ i = j
  /\ \A c \in Board, i \in Nat : Flies(s, c, i) =>
       /\ phase[s] = "wait" /\ ack[s] = None /\ notified[s] = Silent
       /\ link[c][i].msg = msg[s] /\ link[c][i].ttl = TTL + 1 - Dist(s, c)
       /\ \A b \in Board \ {s} :
            Got(s, b) = IF Dist(s, b) < Dist(s, c) THEN 1 ELSE 0

\* When it has come back all boards got the message.
CameBack(s) ==
  /\ ack[s] # None => ack[s] = sender[s] /\ notified[s] = Silent
  /\ notified[s] # Silent => notified[s] = [Silent EXCEPT ![sender[s]] = 1]
  /\ ack[s] # None \/ notified[s] # Silent =>
       phase[s] = "wait" /\ \A b \in Board \ {s} : Got(s, b) = 1

Phases(s) ==
  /\ phase[s] = "wait" => s_broadcast_task[s] = sender[s]
  /\ phase[s] = "idle" <=> sender[s] = None
  /\ phase[s] = "send" \/ (phase[s] = "clear" /\ ~result[s]) =>
       \A b \in Board \ {s} : Got(s, b) = 0
  /\ phase[s] = "clear" /\ result[s] => \A b \in Board \ {s} : Got(s, b) = 1

Reports(s) ==
  \A m \in Nat : <<s, m>> \in reported =>
    /\ m <= msg[s] /\ (m = msg[s] => phase[s] = "idle")
    /\ \A b \in Board \ {s} : Times(b, <<s, m>>) = 1

Try(s) == OnePacket(s) /\ CameBack(s) /\ Phases(s) /\ Reports(s)

TryInv == \A s \in Board \ late : Try(s)

BroadcastInv == Types /\ OrderInv /\ TryInv

----------------------------------------------------------------------------
(* The ring.                                                               *)

LEMMA NextIs ==
  ASSUME NEW b \in Board
  PROVE  /\ Next_(b) \in Board /\ Next_(b) # b
         /\ Next_(b) = IF b = N THEN 1 ELSE b + 1
<1> USE RingAssumption
<1>1. CASE b = N
  <2>1. N % N = 0
    BY SMT
  <2> QED
    BY <1>1, <2>1 DEF Next_, Board
<1>2. CASE b # N
  <2>1. b \in 1 .. N - 1
    BY <1>2 DEF Board
  <2>2. b % N = b
    BY <2>1, SMT
  <2> QED
    BY <2>1, <2>2 DEF Next_, Board
<1> QED
  BY <1>1, <1>2

LEMMA DistIs ==
  ASSUME NEW s \in Board, NEW b \in Board
  PROVE  /\ Dist(s, b) \in 1 .. N
         /\ Dist(s, b) = N <=> b = s
         /\ b = s => Dist(s, Next_(b)) = 1
         /\ b # s => Dist(s, Next_(b)) = Dist(s, b) + 1
BY RingAssumption, NextIs, SMT DEF Dist, Board

LEMMA DistIsOne ==
  ASSUME NEW s \in Board, NEW b \in Board, NEW c \in Board,
         Dist(s, b) = Dist(s, c)
  PROVE  b = c
BY RingAssumption, SMT DEF Dist, Board

----------------------------------------------------------------------------
(* Lines of messages.                                                      *)

LEMMA ConcatAppend ==
  ASSUME NEW S, NEW s \in Seq(S), NEW t \in Seq(S), NEW e \in S
  PROVE  s \o Append(t, e) = Append(s \o t, e)
<1> DEFINE l == s \o Append(t, e)
           r == Append(s \o t, e)
<1>1. /\ Append(t, e) \in Seq(S) /\ Len(Append(t, e)) = Len(t) + 1
      /\ Append(t, e)[Len(t) + 1] = e /\ Len(t) \in Nat /\ Len(s) \in Nat
      /\ \A i \in 1 .. Len(t) : Append(t, e)[i] = t[i]
  BY AppendProperties
<1>2. /\ s \o t \in Seq(S) /\ Len(s \o t) = Len(s) + Len(t)
      /\ \A i \in 1 .. Len(s) + Len(t) :
           (s \o t)[i] = IF i <= Len(s) THEN s[i] ELSE t[i - Len(s)]
  BY ConcatProperties
<1>3. /\ l \in Seq(S) /\ Len(l) = Len(s) + (Len(t) + 1)
      /\ \A i \in 1 .. Len(s) + (Len(t) + 1) :
           l[i] = IF i <= Len(s) THEN s[i] ELSE Append(t, e)[i - Len(s)]
  BY <1>1, ConcatProperties
<1>4. /\ r \in Seq(S) /\ Len(r) = Len(s) + Len(t) + 1
      /\ r[Len(s) + Len(t) + 1] = e
      /\ \A i \in 1 .. Len(s) + Len(t) : r[i] = (s \o t)[i]
  BY <1>2, AppendProperties
<1> HIDE DEF l, r
<1>5. ASSUME NEW i \in 1 .. Len(l) PROVE l[i] = r[i]
  <2>1. CASE i <= Len(s)
    <3>1. i \in 1 .. Len(s) + (Len(t) + 1) /\ i \in 1 .. Len(s) + Len(t)
      BY <2>1, <1>1, <1>3
    <3>2. l[i] = s[i] /\ r[i] = (s \o t)[i] /\ (s \o t)[i] = s[i]
      BY <2>1, <3>1, <1>2, <1>3, <1>4, Zenon
    <3> QED
      BY <3>2
  <2>2. CASE i > Len(s) /\ i <= Len(s) + Len(t)
    <3>1. /\ i - Len(s) \in 1 .. Len(t) /\ ~(i <= Len(s))
          /\ i \in 1 .. Len(s) + (Len(t) + 1) /\ i \in 1 .. Len(s) + Len(t)
      BY <2>2, <1>1
    <3>2. l[i] = Append(t, e)[i - Len(s)] /\ r[i] = t[i - Len(s)]
      BY <3>1, <1>2, <1>3, <1>4
    <3> QED
      BY <3>1, <3>2, <1>1
  <2>3. CASE i = Len(s) + Len(t) + 1
    BY <2>3, <1>1, <1>3, <1>4
  <2> QED
    BY <2>1, <2>2, <2>3, <1>1, <1>3
<1>6. Len(l) = Len(r)
  BY <1>1, <1>3, <1>4
<1>7. l = r
  BY <1>3, <1>4, <1>5, <1>6, SeqEqual
<1> QED
  BY <1>7 DEF l, r

LEMMA ConcatShift ==
  ASSUME NEW S, NEW s \in Seq(S), NEW t \in Seq(S), t # <<>>
  PROVE  Append(s, Head(t)) \o Tail(t) = s \o t
<1> DEFINE a == Append(s, Head(t))
           u == Tail(t)
           l == a \o u
           r == s \o t
<1>1. /\ u \in Seq(S) /\ Len(u) = Len(t) - 1 /\ Len(t) \in Nat \ {0}
      /\ Head(t) \in S /\ Head(t) = t[1]
      /\ \A i \in 1 .. Len(u) : u[i] = t[i + 1]
  BY HeadTailProperties, EmptySeq
<1>2. /\ a \in Seq(S) /\ Len(a) = Len(s) + 1 /\ Len(s) \in Nat
      /\ a[Len(s) + 1] = Head(t)
      /\ \A i \in 1 .. Len(s) : a[i] = s[i]
  BY <1>1, AppendProperties
<1> HIDE DEF a, u
<1>3. /\ l \in Seq(S) /\ Len(l) = Len(a) + Len(u)
      /\ \A i \in 1 .. Len(a) + Len(u) :
           l[i] = IF i <= Len(a) THEN a[i] ELSE u[i - Len(a)]
  BY <1>1, <1>2, ConcatProperties
<1>4. /\ r \in Seq(S) /\ Len(r) = Len(s) + Len(t)
      /\ \A i \in 1 .. Len(s) + Len(t) :
           r[i] = IF i <= Len(s) THEN s[i] ELSE t[i - Len(s)]
  BY ConcatProperties
<1> HIDE DEF l, r
<1>5. ASSUME NEW i \in 1 .. Len(l) PROVE l[i] = r[i]
  <2>0. i \in 1 .. Len(a) + Len(u) /\ i \in 1 .. Len(s) + Len(t)
    BY <1>1, <1>2, <1>3
  <2>1. CASE i <= Len(s)
    <3>1. i <= Len(a) /\ i \in 1 .. Len(s)
      BY <2>1, <1>2, <2>0
    <3>2. l[i] = a[i] /\ r[i] = s[i]
      BY <2>0, <2>1, <3>1, <1>3, <1>4
    <3> QED
      BY <3>1, <3>2, <1>2
  <2>2. CASE i = Len(s) + 1
    <3>1. i <= Len(a) /\ ~(i <= Len(s)) /\ i - Len(s) = 1
      BY <2>2, <1>2
    <3>2. l[i] = a[i] /\ r[i] = t[1]
      BY <2>0, <3>1, <1>3, <1>4
    <3> QED
      BY <2>2, <3>2, <1>1, <1>2
  <2>3. CASE i > Len(s) + 1
    <3>1. /\ i - Len(a) \in 1 .. Len(u) /\ ~(i <= Len(a)) /\ ~(i <= Len(s))
          /\ i - Len(a) + 1 = i - Len(s)
          /\ i \in 1 .. Len(a) + Len(u) /\ i \in 1 .. Len(s) + Len(t)
      BY <2>3, <1>1, <1>2, <1>3
    <3>2. l[i] = u[i - Len(a)] /\ r[i] = t[i - Len(s)]
      BY <3>1, <1>3, <1>4
    <3>3. u[i - Len(a)] = t[i - Len(a) + 1]
      BY <3>1, <1>1
    <3> QED
      BY <3>1, <3>2, <3>3
  <2> QED
    BY <2>1, <2>2, <2>3, <1>2, <1>3
<1>6. Len(l) = Len(r)
  BY <1>1, <1>2, <1>3, <1>4
<1>7. l = r
  BY <1>3, <1>4, <1>5, <1>6, SeqEqual
<1> QED
  BY <1>7 DEF l, r, a, u

LEMMA AppendLine ==
  ASSUME NEW q \in Seq(Pair), NEW s \in Board, NEW x \in Nat
  PROVE  /\ Append(q, <<s, x>>) \in Seq(Pair)
         /\ ToSet(Append(q, <<s, x>>)) = ToSet(q) \cup {<<s, x>>}
         /\ Ordered(q) /\ (\A y \in Nat : <<s, y>> \in ToSet(q) => y <= x)
              => Ordered(Append(q, <<s, x>>))
<1> DEFINE p == Append(q, <<s, x>>)
<1>0. <<s, x>> \in Pair
  BY DEF Pair
<1>1. /\ p \in Seq(Pair) /\ Len(q) \in Nat /\ Len(p) = Len(q) + 1
      /\ p[Len(q) + 1] = <<s, x>> /\ \A i \in 1 .. Len(q) : p[i] = q[i]
  BY <1>0, AppendProperties
<1>2. DOMAIN p = 1 .. Len(p) /\ DOMAIN q = 1 .. Len(q)
  BY <1>1, LenProperties
<1> HIDE DEF p
<1>3. ToSet(p) = ToSet(q) \cup {<<s, x>>}
  <2>1. ASSUME NEW e \in ToSet(p) PROVE e \in ToSet(q) \cup {<<s, x>>}
    <3>1. PICK i \in 1 .. Len(p) : e = p[i]
      BY <1>2 DEF ToSet
    <3>2. CASE i \in 1 .. Len(q)
      BY <3>1, <3>2, <1>1, <1>2 DEF ToSet
    <3>3. CASE i = Len(q) + 1
      BY <3>1, <3>3, <1>1
    <3> QED
      BY <3>2, <3>3, <1>1
  <2>2. ASSUME NEW e \in ToSet(q) PROVE e \in ToSet(p)
    <3>1. PICK i \in 1 .. Len(q) : e = q[i]
      BY <1>2 DEF ToSet
    <3>2. i \in 1 .. Len(p) /\ p[i] = e
      BY <3>1, <1>1
    <3> QED
      BY <3>2, <1>2 DEF ToSet
  <2>3. <<s, x>> \in ToSet(p)
    <3>1. Len(p) \in 1 .. Len(p) /\ p[Len(p)] = <<s, x>>
      BY <1>1
    <3> QED
      BY <3>1, <1>2 DEF ToSet
  <2> QED
    BY <2>1, <2>2, <2>3
<1>4. ASSUME Ordered(q), \A y \in Nat : <<s, y>> \in ToSet(q) => y <= x,
             NEW i \in 1 .. Len(p), NEW j \in 1 .. Len(p), i < j,
             p[i][1] = p[j][1]
      PROVE  p[i][2] <= p[j][2]
  <2>1. i \in 1 .. Len(q) /\ p[i] = q[i] /\ q[i] \in Pair
    BY <1>1, <1>4, ElementOfSeq
  <2>2. CASE j \in 1 .. Len(q)
    BY <2>1, <2>2, <1>1, <1>4 DEF Ordered
  <2>3. CASE j = Len(q) + 1
    <3>1. p[j][1] = s /\ p[j][2] = x
      BY <2>3, <1>1
    <3>2. q[i][1] = s
      BY <2>1, <3>1, <1>4
    <3>3. q[i] = <<q[i][1], q[i][2]>> /\ q[i][2] \in Nat
      BY <2>1 DEF Pair
    <3>4. q[i] \in ToSet(q)
      BY <2>1, <1>2 DEF ToSet
    <3> QED
      BY <3>1, <3>2, <3>3, <3>4, <2>1, <1>4
  <2> QED
    BY <2>2, <2>3, <1>1
<1> QED
  BY <1>1, <1>3, <1>4 DEF Ordered, p

LEMMA TailLine ==
  ASSUME NEW q \in Seq(Pair), q # <<>>
  PROVE  /\ Tail(q) \in Seq(Pair) /\ Head(q) \in Pair
         /\ ToSet(Tail(q)) \subseteq ToSet(q) /\ Head(q) \in ToSet(q)
         /\ Ordered(q) => Ordered(Tail(q))
         /\ Ordered(q) => \A y \in Nat : <<Head(q)[1], y>> \in ToSet(Tail(q))
                                           => Head(q)[2] <= y
<1> DEFINE t == Tail(q)
<1>1. /\ t \in Seq(Pair) /\ Len(q) \in Nat \ {0} /\ Len(t) = Len(q) - 1
      /\ Head(q) = q[1] /\ \A i \in 1 .. Len(t) : t[i] = q[i + 1]
      /\ \A i \in 1 .. Len(q) : q[i] \in Pair
  BY HeadTailProperties, EmptySeq, ElementOfSeq
<1>2. DOMAIN t = 1 .. Len(t) /\ DOMAIN q = 1 .. Len(q)
  BY <1>1, LenProperties
<1> HIDE DEF t
<1>3. 1 \in 1 .. Len(q) /\ \A i \in 1 .. Len(t) : i + 1 \in 1 .. Len(q)
  BY <1>1
<1>4. ToSet(t) \subseteq ToSet(q) /\ Head(q) \in ToSet(q) /\ Head(q) \in Pair
  BY <1>1, <1>2, <1>3 DEF ToSet
<1>5. Ordered(q) => Ordered(t)
  BY <1>1, <1>3 DEF Ordered
<1>6. ASSUME Ordered(q), NEW y \in Nat, <<Head(q)[1], y>> \in ToSet(t)
      PROVE  Head(q)[2] <= y
  <2>1. PICK i \in 1 .. Len(t) : <<Head(q)[1], y>> = t[i]
    BY <1>2, <1>6 DEF ToSet
  <2>2. q[i + 1][1] = q[1][1] /\ q[i + 1][2] = y
    BY <2>1, <1>1
  <2>3. i + 1 \in 1 .. Len(q) /\ 1 < i + 1
    BY <1>3
  <2> QED
    BY <2>2, <2>3, <1>1, <1>3, <1>6 DEF Ordered
<1> QED
  BY <1>1, <1>4, <1>5, <1>6 DEF t
\* What is on a link, as a line of messages.
LEMMA LineIs ==
  ASSUME NEW b \in Board, link[b] \in Seq(Packet)
  PROVE  /\ Line(b) \in Seq(Pair) /\ Len(Line(b)) = Len(link[b])
         /\ \A i \in 1 .. Len(link[b]) : Line(b)[i] = Message(link[b][i])
<1>1. Len(link[b]) \in Nat /\ \A i \in 1 .. Len(link[b]) : link[b][i] \in Packet
  BY ElementOfSeq, LenProperties
<1>2. \A p \in Packet : Message(p) \in Pair
  BY DEF Packet, Message, Pair
<1>3. Line(b) \in [1 .. Len(link[b]) -> Pair]
  BY <1>1, <1>2 DEF Line
<1>4. Line(b) \in Seq(Pair)
  BY <1>1, <1>3, SeqDef
<1> QED
  BY <1>1, <1>3, <1>4, LenProperties DEF Line

LEMMA LineAppend ==
  ASSUME NEW b \in Board, NEW p \in Packet, link[b] \in Seq(Packet),
         link'[b] = Append(link[b], p)
  PROVE  Line(b)' = Append(Line(b), Message(p))
<1>1. Message(p) \in Pair
  BY DEF Packet, Message, Pair
<1>2. /\ Line(b) \in Seq(Pair) /\ Len(Line(b)) = Len(link[b])
      /\ \A i \in 1 .. Len(link[b]) : Line(b)[i] = Message(link[b][i])
  BY LineIs
<1>3. /\ link'[b] \in Seq(Packet) /\ Len(link'[b]) = Len(link[b]) + 1
      /\ link'[b][Len(link[b]) + 1] = p /\ Len(link[b]) \in Nat
      /\ \A i \in 1 .. Len(link[b]) : link'[b][i] = link[b][i]
  BY AppendProperties
<1> DEFINE a == Append(Line(b), Message(p))
<1>4. /\ a \in Seq(Pair) /\ Len(a) = Len(Line(b)) + 1
      /\ a[Len(Line(b)) + 1] = Message(p)
      /\ \A i \in 1 .. Len(Line(b)) : a[i] = Line(b)[i]
  BY <1>1, <1>2, AppendProperties
<1> DEFINE l == [i \in 1 .. Len(link'[b]) |-> Message(link'[b][i])]
<1>5. a = [i \in 1 .. Len(a) |-> a[i]]
  BY <1>4, LenProperties
<1> HIDE DEF a
<1>6. Len(a) = Len(link'[b])
  BY <1>2, <1>3, <1>4
<1>7. \A i \in 1 .. Len(link'[b]) : a[i] = Message(link'[b][i])
  BY <1>2, <1>3, <1>4
<1>8. a = [i \in 1 .. Len(link'[b]) |-> Message(link'[b][i])]
  BY <1>5, <1>6, <1>7
<1> QED
  BY <1>8 DEF Line, a

LEMMA LineTail ==
  ASSUME NEW b \in Board, link[b] \in Seq(Packet), link[b] # <<>>,
         link'[b] = Tail(link[b])
  PROVE  /\ Line(b)' = Tail(Line(b)) /\ Line(b) # <<>>
         /\ Head(Line(b)) = Message(Head(link[b])) /\ Head(link[b]) \in Packet
<1>1. /\ Line(b) \in Seq(Pair) /\ Len(Line(b)) = Len(link[b])
      /\ \A i \in 1 .. Len(link[b]) : Line(b)[i] = Message(link[b][i])
  BY LineIs
<1>2. /\ link'[b] \in Seq(Packet) /\ Len(link'[b]) = Len(link[b]) - 1
      /\ Len(link[b]) \in Nat \ {0} /\ Head(link[b]) = link[b][1]
      /\ \A i \in 1 .. Len(link'[b]) : link'[b][i] = link[b][i + 1]
      /\ Head(link[b]) \in Packet
  BY HeadTailProperties, EmptySeq
<1>3. Line(b) # <<>>
  BY <1>1, <1>2, EmptySeq
<1> DEFINE t == Tail(Line(b))
<1>4. /\ t \in Seq(Pair) /\ Len(t) = Len(Line(b)) - 1
      /\ Head(Line(b)) = Line(b)[1]
      /\ \A i \in 1 .. Len(t) : t[i] = Line(b)[i + 1]
  BY <1>1, <1>3, HeadTailProperties
<1>5. t = [i \in 1 .. Len(t) |-> t[i]]
  BY <1>4, LenProperties
<1> HIDE DEF t
<1>6. Len(t) = Len(link'[b])
  BY <1>1, <1>2, <1>4
<1>7. \A i \in 1 .. Len(link'[b]) : t[i] = Message(link'[b][i])
  BY <1>1, <1>2, <1>4
<1>8. t = [i \in 1 .. Len(link'[b]) |-> Message(link'[b][i])]
  BY <1>5, <1>6, <1>7
<1>9. Head(Line(b)) = Message(Head(link[b]))
  BY <1>1, <1>2, <1>4
<1> QED
  BY <1>2, <1>3, <1>8, <1>9 DEF Line, t

\* A message that is queued comes last of what the board got; taking one does
\* not change that.
LEMMA ReceivedType ==
  ASSUME NEW b \in Board, queue[b] \in Seq(Pair), took[b] \in Seq(Pair)
  PROVE  Received(b) \in Seq(Pair)
BY ConcatProperties DEF Received

LEMMA ReceivedAppend ==
  ASSUME NEW b \in Board, NEW m \in Pair, queue[b] \in Seq(Pair),
         took[b] \in Seq(Pair), queue'[b] = Append(queue[b], m),
         took'[b] = took[b]
  PROVE  Received(b)' = Append(Received(b), m)
<1>1. \A t, q \in Seq(Pair), e \in Pair : t \o Append(q, e) = Append(t \o q, e)
  BY ConcatAppend
<1> QED
  BY <1>1, Zenon DEF Received

LEMMA ReceivedTake ==
  ASSUME NEW b \in Board, queue[b] \in Seq(Pair), took[b] \in Seq(Pair),
         queue[b] # <<>>, queue'[b] = Tail(queue[b]),
         took'[b] = Append(took[b], Head(queue[b]))
  PROVE  Received(b)' = Received(b)
<1>1. Append(took[b], Head(queue[b])) \o Tail(queue[b]) = took[b] \o queue[b]
  BY ConcatShift
<1> QED
  BY <1>1 DEF Received
\* How often a message is in a line.
Count(q, m) == Cardinality({i \in 1 .. Len(q) : q[i] = m})

LEMMA CountAppend ==
  ASSUME NEW q \in Seq(Pair), NEW m \in Pair, NEW p \in Pair
  PROVE  /\ Count(q, m) \in Nat
         /\ Count(Append(q, p), m) = IF p = m THEN Count(q, m) + 1 ELSE Count(q, m)
<1> DEFINE a == Append(q, p)
           S == {i \in 1 .. Len(q) : q[i] = m}
           T == {i \in 1 .. Len(a) : a[i] = m}
<1>1. /\ Len(a) = Len(q) + 1 /\ Len(q) \in Nat /\ a[Len(q) + 1] = p
      /\ \A i \in 1 .. Len(q) : a[i] = q[i]
  BY AppendProperties
<1> HIDE DEF a
<1>2. IsFiniteSet(S)
  <2>1. IsFiniteSet(1 .. Len(q))
    BY <1>1, FS_Interval
  <2> QED
    BY <2>1, FS_Subset
<1>3. Cardinality(S) \in Nat
  BY <1>2, FS_CardinalityType
<1>4. CASE p = m
  <2>1. T = S \cup {Len(q) + 1} /\ Len(q) + 1 \notin S
    BY <1>1, <1>4
  <2>2. Cardinality(T) = Cardinality(S) + 1
    BY <2>1, <1>2, FS_AddElement
  <2> QED
    BY <1>3, <1>4, <2>2 DEF Count, a
<1>5. CASE p # m
  <2>1. T = S
    BY <1>1, <1>5
  <2> QED
    BY <1>3, <1>5, <2>1 DEF Count, a
<1> QED
  BY <1>4, <1>5

LEMMA CountZero ==
  ASSUME NEW q \in Seq(Pair), NEW m \in Pair, m \notin ToSet(q)
  PROVE  Count(q, m) = 0
<1>1. DOMAIN q = 1 .. Len(q)
  BY LenProperties
<1>2. {i \in 1 .. Len(q) : q[i] = m} = {}
  BY <1>1 DEF ToSet
<1> QED
  BY <1>2, FS_EmptySet DEF Count

LEMMA TimesIs == \A b \in Board : \A m : Times(b, m) = Count(Received(b), m)
BY DEF Times, Count
----------------------------------------------------------------------------
(* What the steps do to the links and the queues.                          *)

Unmoved == UNCHANGED <<link, queue, took, msg>>

LEMMA UnmovedFacts ==
  ASSUME Unmoved
  PROVE  \A b \in Board : Line(b)' = Line(b) /\ Received(b)' = Received(b)
BY DEF Unmoved, Line, Received

\* The packet at the head of link b is gone.
Removes(b) ==
  /\ link[b] # <<>> /\ link' = [link EXCEPT ![b] = Tail(@)]
  /\ UNCHANGED <<queue, took, msg>>

LEMMA RemovesFacts ==
  ASSUME Types, NEW b \in Board, Removes(b)
  PROVE  /\ link' \in [Board -> Seq(Packet)]
         /\ link'[b] = Tail(link[b]) /\ Line(b)' = Tail(Line(b))
         /\ Line(b) \in Seq(Pair) /\ Line(b) # <<>>
         /\ \A c \in Board : c # b => link'[c] = link[c] /\ Line(c)' = Line(c)
         /\ \A c \in Board : Received(c)' = Received(c)
<1>1. link[b] \in Seq(Packet) /\ link[b] # <<>>
  BY DEF Types, Removes
<1>2. Tail(link[b]) \in Seq(Packet)
  BY <1>1, HeadTailProperties
<1>3. /\ link' \in [Board -> Seq(Packet)] /\ link'[b] = Tail(link[b])
      /\ \A c \in Board : c # b => link'[c] = link[c]
  BY <1>2 DEF Types, Removes
<1>4. Line(b)' = Tail(Line(b)) /\ Line(b) # <<>>
  BY <1>1, <1>3, LineTail
<1>5. \A c \in Board : c # b => Line(c)' = Line(c)
  BY <1>3 DEF Line
<1>6. \A c \in Board : Received(c)' = Received(c)
  BY DEF Removes, Received
<1>7. Line(b) \in Seq(Pair)
  BY <1>1, LineIs
<1> QED
  BY <1>3, <1>4, <1>5, <1>6, <1>7

Sent(b) == [src |-> b, msg |-> msg[b], ttl |-> TTL]

LEMMA SendFacts ==
  ASSUME Types, NEW b \in Board, Send(b), NEW n, n = Next_(b)
  PROVE  /\ Sent(b) \in Packet /\ n \in Board /\ n # b
         /\ link' \in [Board -> Seq(Packet)]
         /\ link'[n] = Append(link[n], Sent(b))
         /\ Line(n)' = Append(Line(n), <<b, msg[b]>>)
         /\ \A c \in Board : c # n => link'[c] = link[c] /\ Line(c)' = Line(c)
         /\ \A c \in Board : Received(c)' = Received(c)
<1>1. n \in Board /\ n # b
  BY NextIs
<1>2. Sent(b) \in Packet /\ Message(Sent(b)) = <<b, msg[b]>>
  BY RingAssumption DEF Types, Sent, Packet, Message
<1>3. link' = [link EXCEPT ![n] = Append(@, Sent(b))]
  BY DEF Send, Sent
<1>4. Append(link[n], Sent(b)) \in Seq(Packet) /\ link[n] \in Seq(Packet)
  BY <1>1, <1>2, AppendProperties DEF Types
<1> HIDE DEF Sent
<1>5. /\ link' \in [Board -> Seq(Packet)] /\ link'[n] = Append(link[n], Sent(b))
      /\ \A c \in Board : c # n => link'[c] = link[c]
  BY <1>1, <1>3, <1>4 DEF Types
<1>6. Line(n)' = Append(Line(n), <<b, msg[b]>>)
  BY <1>1, <1>2, <1>4, <1>5, LineAppend
<1>7. \A c \in Board : c # n => Line(c)' = Line(c)
  BY <1>5 DEF Line
<1>8. \A c \in Board : Received(c)' = Received(c)
  BY DEF Send, sibling, Received
<1> QED
  BY <1>1, <1>2, <1>5, <1>6, <1>7, <1>8

Older(p) == [p EXCEPT !.ttl = @ - 1]

LEMMA ForwardFacts ==
  ASSUME Types, NEW b \in Board, Forward(b), NEW n, n = Next_(b),
         NEW p, p = Head(link[b])
  PROVE  /\ n \in Board /\ n # b /\ p \in Packet /\ p.src # b
         /\ link[b] # <<>> /\ p = link[b][1]
         /\ Line(b) \in Seq(Pair) /\ Line(b) # <<>>
         /\ Head(Line(b)) = <<p.src, p.msg>>
         /\ link' \in [Board -> Seq(Packet)] /\ queue' \in [Board -> Seq(Pair)]
         /\ link'[b] = Tail(link[b]) /\ Line(b)' = Tail(Line(b))
         /\ p.ttl = 0 => link'[n] = link[n] /\ Line(n)' = Line(n)
         /\ p.ttl # 0 => /\ link'[n] = Append(link[n], Older(p))
                         /\ Line(n)' = Append(Line(n), <<p.src, p.msg>>)
                         /\ Older(p) \in Packet /\ Older(p).src = p.src
                         /\ Older(p).msg = p.msg /\ Older(p).ttl = p.ttl - 1
         /\ \A c \in Board : c # n /\ c # b => link'[c] = link[c] /\ Line(c)' = Line(c)
         /\ Received(b)' = Append(Received(b), <<p.src, p.msg>>)
         /\ \A c \in Board : c # b => Received(c)' = Received(c)
<1>1. n \in Board /\ n # b
  BY NextIs
<1>2. /\ link[b] # <<>> /\ p.src # b
      /\ link' = [link EXCEPT ![b] = Tail(@),
                              ![n] = IF p.ttl = 0 THEN @ ELSE Append(@, Older(p))]
      /\ queue' = [queue EXCEPT ![b] = Append(@, <<p.src, p.msg>>)]
      /\ UNCHANGED took
  BY Zenon DEF Forward, Foreign, Head_, Deliver, Message, Expired, Older
<1>3. link[b] \in Seq(Packet) /\ link[n] \in Seq(Packet)
  BY <1>1 DEF Types
<1>4. p \in Packet /\ Tail(link[b]) \in Seq(Packet) /\ p = link[b][1]
  BY <1>2, <1>3, HeadTailProperties
<1>5. p.ttl # 0 => /\ Older(p) \in Packet /\ Older(p).src = p.src
                   /\ Older(p).msg = p.msg /\ Older(p).ttl = p.ttl - 1
  BY <1>4 DEF Older, Packet
<1>6. p.ttl # 0 => Append(link[n], Older(p)) \in Seq(Packet)
  BY <1>3, <1>5, AppendProperties
<1> HIDE DEF Older
<1> DEFINE new == IF p.ttl = 0 THEN link[n] ELSE Append(link[n], Older(p))
<1>7. new \in Seq(Packet)
  BY <1>3, <1>6
<1>8. link' = [link EXCEPT ![b] = Tail(link[b]), ![n] = new]
  BY <1>1, <1>2 DEF Types
<1> HIDE DEF new
<1>9. /\ link' \in [Board -> Seq(Packet)]
      /\ link'[b] = Tail(link[b]) /\ link'[n] = new
      /\ \A c \in Board : c # n /\ c # b => link'[c] = link[c]
  BY <1>1, <1>4, <1>7, <1>8 DEF Types
<1>10. <<p.src, p.msg>> \in Pair
  BY <1>4 DEF Packet, Pair
<1>11. queue[b] \in Seq(Pair) /\ took[b] \in Seq(Pair)
  BY DEF Types
<1>12. Append(queue[b], <<p.src, p.msg>>) \in Seq(Pair)
  BY <1>10, <1>11, AppendProperties
<1>13. /\ queue' \in [Board -> Seq(Pair)]
       /\ queue'[b] = Append(queue[b], <<p.src, p.msg>>)
       /\ \A c \in Board : c # b => queue'[c] = queue[c]
  BY <1>2, <1>12 DEF Types
<1>14. Received(b)' = Append(Received(b), <<p.src, p.msg>>)
  BY <1>2, <1>10, <1>11, <1>13, ReceivedAppend
<1>15. \A c \in Board : c # b => Received(c)' = Received(c)
  BY <1>2, <1>13 DEF Received
<1>16. /\ Line(b)' = Tail(Line(b)) /\ Line(b) # <<>>
       /\ Head(Line(b)) = <<p.src, p.msg>>
  BY <1>2, <1>3, <1>9, LineTail DEF Message
<1>17. \A c \in Board : link'[c] = link[c] => Line(c)' = Line(c)
  BY DEF Line
<1>18. p.ttl # 0 => Line(n)' = Append(Line(n), <<p.src, p.msg>>)
  BY <1>1, <1>3, <1>5, <1>9, LineAppend DEF Message, new
<1>19. Line(b) \in Seq(Pair)
  BY <1>3, LineIs
<1> QED
  BY <1>1, <1>2, <1>4, <1>5, <1>9, <1>13, <1>14, <1>15, <1>16, <1>17, <1>18,
     <1>19 DEF new
\* A packet that is not used up goes on to the next board.
LEMMA ForwardAppends ==
  ASSUME Types, NEW b \in Board, Forward(b), NEW n, n = Next_(b),
         NEW p, p = Head(link[b]), p.ttl # 0
  PROVE  link'[n] = Append(link[n], Older(p))
<1>1. n \in Board /\ n # b
  BY NextIs
<1>2. link' = [link EXCEPT ![b] = Tail(@),
                           ![n] = IF p.ttl = 0 THEN @ ELSE Append(@, Older(p))]
  BY Zenon DEF Forward, Head_, Expired, Older
<1> DEFINE new == Append(link[n], Older(p))
<1>3. link' = [link EXCEPT ![b] = Tail(link[b]), ![n] = new]
  BY <1>1, <1>2 DEF Types
<1> HIDE DEF new
<1>4. link'[n] = new
  BY <1>1, <1>3 DEF Types
<1> QED
  BY <1>4 DEF new

----------------------------------------------------------------------------
(* The order is kept.                                                      *)

\* Lines get shorter, and messages newer.
LEMMA OrderShrinks ==
  ASSUME Types, Types', OrderInv,
         \A b \in Board : /\ Ordered(Line(b)')
                          /\ ToSet(Line(b)') \subseteq ToSet(Line(b))
                          /\ Received(b)' = Received(b)
                          /\ msg[b] <= msg'[b]
  PROVE  OrderInv'
<1>1. LinesOrdered'
  BY DEF OrderInv, LinesOrdered
<1>2. SentEarlier' /\ GotEarlier'
  BY DEF OrderInv, SentEarlier, GotEarlier
<1>3. NothingNewer'
  <2> SUFFICES ASSUME NEW b \in Board, NEW s \in Board, NEW x \in Nat,
                      <<s, x>> \in ToSet(Line(b)') \cup ToSet(Received(b)')
               PROVE  x <= msg'[s]
    BY DEF NothingNewer
  <2>1. x <= msg[s]
    BY DEF OrderInv, NothingNewer
  <2>2. msg[s] \in Nat /\ msg'[s] \in Nat /\ msg[s] <= msg'[s]
    BY DEF Types
  <2> QED
    BY <2>1, <2>2
<1> QED
  BY <1>1, <1>2, <1>3 DEF OrderInv

LEMMA OrderUnmoved ==
  ASSUME OrderInv, Unmoved
  PROVE  OrderInv'
<1>1. \A b \in Board : Line(b)' = Line(b) /\ Received(b)' = Received(b)
  BY UnmovedFacts
<1>2. LinesOrdered'
  BY <1>1 DEF OrderInv, LinesOrdered
<1>3. SentEarlier' /\ GotEarlier'
  BY <1>1 DEF OrderInv, SentEarlier, GotEarlier
<1>4. NothingNewer'
  BY <1>1 DEF OrderInv, NothingNewer, Unmoved
<1> QED
  BY <1>2, <1>3, <1>4 DEF OrderInv

LEMMA OrderRemoves ==
  ASSUME Types, Types', OrderInv, NEW b \in Board, Removes(b)
  PROVE  OrderInv'
<1>1. /\ Line(b)' = Tail(Line(b)) /\ Line(b) \in Seq(Pair) /\ Line(b) # <<>>
      /\ \A c \in Board : c # b => Line(c)' = Line(c)
      /\ \A c \in Board : Received(c)' = Received(c)
  BY RemovesFacts
<1>2. Ordered(Line(b)') /\ ToSet(Line(b)') \subseteq ToSet(Line(b))
  BY <1>1, TailLine DEF OrderInv, LinesOrdered
<1>3. \A c \in Board : /\ Ordered(Line(c)')
                       /\ ToSet(Line(c)') \subseteq ToSet(Line(c))
  BY <1>1, <1>2 DEF OrderInv, LinesOrdered
<1>4. \A c \in Board : msg[c] <= msg'[c]
  BY DEF Removes, Types
<1> QED
  BY <1>1, <1>3, <1>4, OrderShrinks

\* The newest message comes last on the first link.
LEMMA OrderSend ==
  ASSUME Types, Types', OrderInv, NEW b \in Board, Send(b)
  PROVE  OrderInv'
<1> DEFINE n == Next_(b)
           m == msg[b]
<1>1. /\ n \in Board /\ Line(n)' = Append(Line(n), <<b, m>>)
      /\ \A c \in Board : c # n => Line(c)' = Line(c)
      /\ \A c \in Board : Received(c)' = Received(c)
  BY SendFacts
<1>2. m \in Nat /\ Dist(b, n) = 1
  BY DistIs DEF Types
<1>3. Line(n) \in Seq(Pair)
  BY <1>1, LineIs DEF Types
<1>4. msg' = msg
  BY DEF Send
<1> HIDE DEF n, m
<1>5. \A c \in Board, x \in Nat :
        <<b, x>> \in ToSet(Line(c)) \cup ToSet(Received(c)) => x <= m
  BY DEF OrderInv, NothingNewer, m
<1>6. /\ ToSet(Line(n)') = ToSet(Line(n)) \cup {<<b, m>>}
      /\ Ordered(Line(n)')
  BY <1>1, <1>2, <1>3, <1>5, AppendLine DEF OrderInv, LinesOrdered
<1>7. LinesOrdered'
  BY <1>1, <1>6 DEF OrderInv, LinesOrdered
<1>8. ASSUME NEW c \in Board, NEW s \in Board, NEW x \in Nat,
             <<s, x>> \in ToSet(Line(c)')
      PROVE  <<s, x>> \in ToSet(Line(c)) \/ (c = n /\ s = b /\ x = m)
  <2>1. CASE c = n
    BY <2>1, <1>6, <1>8
  <2>2. CASE c # n
    BY <2>2, <1>1, <1>8
  <2> QED
    BY <2>1, <2>2
<1>9. SentEarlier'
  <2> SUFFICES ASSUME NEW d \in Board, NEW c \in Board, NEW s \in Board,
                      NEW x \in Nat, NEW y \in Nat,
                      <<s, x>> \in ToSet(Line(d)'), Dist(s, d) < Dist(s, c),
                      <<s, y>> \in ToSet(Line(c)')
               PROVE  y <= x
    BY DEF SentEarlier
  <2>1. CASE c = n /\ s = b
    BY <2>1, <1>2, DistIs
  <2>2. CASE ~(c = n /\ s = b)
    <3>1. <<s, y>> \in ToSet(Line(c))
      BY <2>2, <1>8
    <3> QED
      BY <3>1, <1>5, <1>8 DEF OrderInv, SentEarlier
  <2> QED
    BY <2>1, <2>2
<1>10. GotEarlier'
  <2> SUFFICES ASSUME NEW d \in Board, NEW c \in Board, NEW s \in Board,
                      NEW x \in Nat, NEW y \in Nat,
                      <<s, x>> \in ToSet(Line(d)'), Dist(s, d) <= Dist(s, c),
                      <<s, y>> \in ToSet(Received(c))
               PROVE  y <= x
    BY <1>1 DEF GotEarlier
  <2> QED
    BY <1>5, <1>8 DEF OrderInv, GotEarlier
<1>11. NothingNewer'
  <2> SUFFICES ASSUME NEW c \in Board, NEW s \in Board, NEW x \in Nat,
                      <<s, x>> \in ToSet(Line(c)') \cup ToSet(Received(c))
               PROVE  x <= msg[s]
    BY <1>1, <1>4 DEF NothingNewer
  <2>1. CASE <<s, x>> \in ToSet(Line(c)) \cup ToSet(Received(c))
    BY <2>1 DEF OrderInv, NothingNewer
  <2>2. CASE s = b /\ x = m
    BY <2>2, <1>2 DEF m
  <2> QED
    BY <2>1, <2>2, <1>8
<1> QED
  BY <1>7, <1>9, <1>10, <1>11 DEF OrderInv

\* The oldest message of a link goes behind those of the next one.
LEMMA OrderForward ==
  ASSUME Types, Types', OrderInv, NEW b \in Board, Forward(b)
  PROVE  OrderInv'
<1> DEFINE n == Next_(b)
<1>0. PICK p : p = Head(link[b])
  OBVIOUS
<1> DEFINE u == p.src
           m == p.msg
<1>1. /\ n \in Board /\ n # b /\ p \in Packet /\ u # b
      /\ Line(b) \in Seq(Pair) /\ Line(b) # <<>> /\ Head(Line(b)) = <<u, m>>
      /\ Line(b)' = Tail(Line(b))
      /\ p.ttl = 0 => Line(n)' = Line(n)
      /\ p.ttl # 0 => Line(n)' = Append(Line(n), <<u, m>>)
      /\ \A c \in Board : c # n /\ c # b => Line(c)' = Line(c)
      /\ Received(b)' = Append(Received(b), <<u, m>>)
      /\ \A c \in Board : c # b => Received(c)' = Received(c)
  BY <1>0, ForwardFacts
<1>2. u \in Board /\ m \in Nat
  BY <1>1 DEF Packet
<1>3. Line(n) \in Seq(Pair) /\ Received(b) \in Seq(Pair)
  BY <1>1, LineIs, ReceivedType DEF Types
<1>4. Dist(u, n) = Dist(u, b) + 1 /\ \A c \in Board : Dist(u, c) \in Nat
  BY <1>1, <1>2, DistIs
<1>5. msg' = msg
  BY DEF Forward, sending
<1> HIDE DEF n, u, m
<1>6. /\ ToSet(Line(b)') \subseteq ToSet(Line(b)) /\ Ordered(Line(b)')
      /\ <<u, m>> \in ToSet(Line(b))
      /\ \A y \in Nat : <<u, y>> \in ToSet(Line(b)') => m <= y
  <2>1. Ordered(Line(b))
    BY DEF OrderInv, LinesOrdered
  <2>2. Head(Line(b))[1] = u /\ Head(Line(b))[2] = m
    BY <1>1
  <2>3. /\ ToSet(Tail(Line(b))) \subseteq ToSet(Line(b))
        /\ Head(Line(b)) \in ToSet(Line(b)) /\ Ordered(Tail(Line(b)))
        /\ \A y \in Nat : <<Head(Line(b))[1], y>> \in ToSet(Tail(Line(b)))
                             => Head(Line(b))[2] <= y
    BY <2>1, <1>1, TailLine
  <2> QED
    BY <2>2, <2>3, <1>1
<1>7. /\ ToSet(Line(n)') \subseteq ToSet(Line(n)) \cup {<<u, m>>}
      /\ Ordered(Line(n)')
  <2>1. \A y \in Nat : <<u, y>> \in ToSet(Line(n)) => y <= m
    BY <1>1, <1>2, <1>4, <1>6 DEF OrderInv, SentEarlier
  <2>2. Ordered(Line(n))
    BY <1>1 DEF OrderInv, LinesOrdered
  <2>3. /\ ToSet(Append(Line(n), <<u, m>>)) = ToSet(Line(n)) \cup {<<u, m>>}
        /\ Ordered(Append(Line(n), <<u, m>>))
    BY <2>1, <2>2, <1>2, <1>3, AppendLine
  <2>4. CASE p.ttl = 0
    BY <2>2, <2>4, <1>1
  <2>5. CASE p.ttl # 0
    BY <2>3, <2>5, <1>1
  <2> QED
    BY <2>4, <2>5
<1>8. /\ ToSet(Received(b)') = ToSet(Received(b)) \cup {<<u, m>>}
      /\ Ordered(Received(b)')
  <2>1. \A y \in Nat : <<u, y>> \in ToSet(Received(b)) => y <= m
    BY <1>2, <1>4, <1>6 DEF OrderInv, GotEarlier
  <2>2. Ordered(Received(b))
    BY DEF OrderInv, LinesOrdered
  <2> QED
    BY <2>1, <2>2, <1>1, <1>2, <1>3, AppendLine
<1>9. LinesOrdered'
  BY <1>1, <1>6, <1>7, <1>8 DEF OrderInv, LinesOrdered
<1>10. ASSUME NEW c \in Board, NEW s \in Board, NEW x \in Nat,
              <<s, x>> \in ToSet(Line(c)')
       PROVE  <<s, x>> \in ToSet(Line(c)) \/ (c = n /\ s = u /\ x = m)
  <2>1. CASE c = n
    BY <2>1, <1>7, <1>10
  <2>2. CASE c = b
    BY <2>2, <1>6, <1>10
  <2>3. CASE c # n /\ c # b
    BY <2>3, <1>1, <1>10
  <2> QED
    BY <2>1, <2>2, <2>3
<1>11. ASSUME NEW c \in Board, NEW s \in Board, NEW x \in Nat,
              <<s, x>> \in ToSet(Received(c)')
       PROVE  <<s, x>> \in ToSet(Received(c)) \/ (c = b /\ s = u /\ x = m)
  <2>1. CASE c = b
    BY <2>1, <1>8, <1>11
  <2>2. CASE c # b
    BY <2>2, <1>1, <1>11
  <2> QED
    BY <2>1, <2>2
<1>12. SentEarlier'
  <2> SUFFICES ASSUME NEW d \in Board, NEW c \in Board, NEW s \in Board,
                      NEW x \in Nat, NEW y \in Nat,
                      <<s, x>> \in ToSet(Line(d)'), Dist(s, d) < Dist(s, c),
                      <<s, y>> \in ToSet(Line(c)')
               PROVE  y <= x
    BY DEF SentEarlier
  <2>1. CASE <<s, x>> \in ToSet(Line(d)) /\ <<s, y>> \in ToSet(Line(c))
    BY <2>1 DEF OrderInv, SentEarlier
  <2>2. CASE d = n /\ s = u /\ x = m
    \* y is further than the next link
    <3>1. <<u, y>> \in ToSet(Line(c))
      BY <2>2, <1>4, <1>10
    <3>2. Dist(u, b) < Dist(u, c)
      BY <2>2, <1>4
    <3> QED
      BY <2>2, <3>1, <3>2, <1>2, <1>6 DEF OrderInv, SentEarlier
  <2>3. CASE c = n /\ s = u /\ y = m
    \* x is on link b or before it
    <3>1. <<u, x>> \in ToSet(Line(d)) /\ Dist(u, d) <= Dist(u, b)
      BY <2>3, <1>4, <1>10
    <3>2. CASE d = b
      BY <2>3, <3>2, <1>6
    <3>3. CASE d # b
      <4>1. Dist(u, d) < Dist(u, b)
        BY <3>1, <3>3, <1>2, <1>4, DistIsOne
      <4> QED
        BY <2>3, <3>1, <4>1, <1>2, <1>6 DEF OrderInv, SentEarlier
    <3> QED
      BY <3>2, <3>3
  <2> QED
    BY <2>1, <2>2, <2>3, <1>10
<1>13. GotEarlier'
  <2> SUFFICES ASSUME NEW d \in Board, NEW c \in Board, NEW s \in Board,
                      NEW x \in Nat, NEW y \in Nat,
                      <<s, x>> \in ToSet(Line(d)'), Dist(s, d) <= Dist(s, c),
                      <<s, y>> \in ToSet(Received(c)')
               PROVE  y <= x
    BY DEF GotEarlier
  <2>1. CASE <<s, x>> \in ToSet(Line(d)) /\ <<s, y>> \in ToSet(Received(c))
    BY <2>1 DEF OrderInv, GotEarlier
  <2>2. CASE d = n /\ s = u /\ x = m
    <3>1. <<u, y>> \in ToSet(Received(c)) /\ Dist(u, b) <= Dist(u, c)
      BY <2>2, <1>1, <1>4, <1>11
    <3> QED
      BY <2>2, <3>1, <1>2, <1>6 DEF OrderInv, GotEarlier
  <2>3. CASE c = b /\ s = u /\ y = m
    <3>1. <<u, x>> \in ToSet(Line(d)) /\ Dist(u, d) <= Dist(u, b)
      BY <2>3, <1>4, <1>10
    <3>2. CASE d = b
      BY <2>3, <3>2, <1>6
    <3>3. CASE d # b
      <4>1. Dist(u, d) < Dist(u, b)
        BY <3>1, <3>3, <1>2, <1>4, DistIsOne
      <4> QED
        BY <2>3, <3>1, <4>1, <1>2, <1>6 DEF OrderInv, SentEarlier
    <3> QED
      BY <3>2, <3>3
  <2> QED
    BY <2>1, <2>2, <2>3, <1>10, <1>11
<1>14. NothingNewer'
  <2>1. m <= msg[u]
    BY <1>2, <1>6 DEF OrderInv, NothingNewer
  <2> SUFFICES ASSUME NEW c \in Board, NEW s \in Board, NEW x \in Nat,
                      <<s, x>> \in ToSet(Line(c)') \cup ToSet(Received(c)')
               PROVE  x <= msg[s]
    BY <1>5 DEF NothingNewer
  <2>2. CASE <<s, x>> \in ToSet(Line(c)) \cup ToSet(Received(c))
    BY <2>2 DEF OrderInv, NothingNewer
  <2>3. CASE s = u /\ x = m
    BY <2>1, <2>3
  <2> QED
    BY <2>2, <2>3, <1>10, <1>11
<1> QED
  BY <1>9, <1>12, <1>13, <1>14 DEF OrderInv
----------------------------------------------------------------------------
(* Types.                                                                  *)

LEMMA TakeFacts ==
  ASSUME Types, NEW b \in Board, Take(b)
  PROVE  /\ queue' \in [Board -> Seq(Pair)] /\ took' \in [Board -> Seq(Pair)]
         /\ \A c \in Board : Received(c)' = Received(c)
<1>1. queue[b] \in Seq(Pair) /\ took[b] \in Seq(Pair) /\ queue[b] # <<>>
  BY DEF Types, Take
<1>2. Tail(queue[b]) \in Seq(Pair) /\ Head(queue[b]) \in Pair
  BY <1>1, HeadTailProperties
<1>3. Append(took[b], Head(queue[b])) \in Seq(Pair)
  BY <1>1, <1>2, AppendProperties
<1>4. /\ queue' = [queue EXCEPT ![b] = Tail(queue[b])]
      /\ took' = [took EXCEPT ![b] = Append(took[b], Head(queue[b]))]
  BY DEF Take, Types
<1>5. /\ queue' \in [Board -> Seq(Pair)] /\ took' \in [Board -> Seq(Pair)]
      /\ queue'[b] = Tail(queue[b])
      /\ took'[b] = Append(took[b], Head(queue[b]))
      /\ \A c \in Board : c # b => queue'[c] = queue[c] /\ took'[c] = took[c]
  BY <1>2, <1>3, <1>4 DEF Types
<1>6. Received(b)' = Received(b)
  BY <1>1, <1>5, ReceivedTake
<1>7. \A c \in Board : c # b => Received(c)' = Received(c)
  BY <1>5 DEF Received
<1> QED
  BY <1>5, <1>6, <1>7

LEMMA TypesInit == Init => Types
<1>1. <<>> \in Seq(Packet) /\ <<>> \in Seq(Pair)
  BY EmptySeq
<1> QED
  BY <1>1 DEF Init, Types, Silent

LEMMA TypesStep ==
  ASSUME Types, [Next]_vars
  PROVE  Types'
<1>1. CASE UNCHANGED vars
  BY <1>1 DEF Types, vars
<1>2. ASSUME NEW b \in Board, NEW t \in Senders[b], Start(b, t) PROVE Types'
  <2>1. t \in Task
    BY LimitsAssumption
  <2>2. msg' \in [Board -> Nat]
    BY <1>2 DEF Types, Start
  <2> QED
    BY <1>2, <2>1, <2>2 DEF Types, Start, sibling
<1>3. ASSUME NEW b \in Board, Send(b) PROVE Types'
  <2>1. link' \in [Board -> Seq(Packet)]
    BY <1>3, SendFacts
  <2> QED
    BY <1>3, <2>1 DEF Types, Send, sibling
<1>4. ASSUME NEW b \in Board, SendFails(b) PROVE Types'
  BY <1>4 DEF Types, SendFails, sibling
<1>5. ASSUME NEW b \in Board, Notified(b) PROVE Types'
  BY <1>5 DEF Types, Notified, sibling
<1>6. ASSUME NEW b \in Board, Timeout(b) PROVE Types'
  BY <1>6 DEF Types, Timeout, sibling
<1>7. ASSUME NEW b \in Board, Clear(b) PROVE Types'
  <2>1. reported' \subseteq Pair
    BY <1>7 DEF Types, Clear, Pair
  <2>2. /\ try' \in [Board -> Nat] /\ sender' \in [Board -> Task \cup {None}]
        /\ phase' \in [Board -> {"idle", "send", "wait", "clear"}]
    <3>1. CASE result[b] \/ LastTry(b)
      BY <1>7, <3>1 DEF Types, Clear
    <3>2. CASE ~(result[b] \/ LastTry(b))
      <4>1. /\ phase' = [phase EXCEPT ![b] = "send"] /\ sender' = sender
            /\ try' = [try EXCEPT ![b] = @ + 1]
        BY <1>7, <3>2 DEF Clear
      <4>2. try[b] + 1 \in Nat
        BY DEF Types
      <4> QED
        BY <4>1, <4>2 DEF Types
    <3> QED
      BY <3>1, <3>2
  <2> QED
    BY <1>7, <2>1, <2>2 DEF Types, Clear, sibling
<1>8. ASSUME NEW b \in Board, Forward(b) PROVE Types'
  <2>1. link' \in [Board -> Seq(Packet)] /\ queue' \in [Board -> Seq(Pair)]
    BY <1>8, ForwardFacts
  <2> QED
    BY <1>8, <2>1 DEF Types, Forward, sending
<1>9. ASSUME NEW b \in Board, AckDropped(b) \/ AckAccepted(b) \/ Lose(b)
      PROVE  Types'
  <2>1. Removes(b)
    BY <1>9 DEF AckDropped, AckAccepted, Lose, Own, Removes, sibling, sending
  <2>2. link' \in [Board -> Seq(Packet)]
    BY <2>1, RemovesFacts
  <2>3. ack' \in [Board -> Task \cup {None}]
    BY <1>9 DEF AckDropped, AckAccepted, Lose, Types
  <2> QED
    BY <1>9, <2>2, <2>3
    DEF Types, AckDropped, AckAccepted, Lose, sibling, sending
<1>10. ASSUME NEW b \in Board, Notify(b) PROVE Types'
  BY <1>10 DEF Types, Notify, sibling, sending
<1>11. ASSUME NEW b \in Board, Take(b) PROVE Types'
  <2>1. queue' \in [Board -> Seq(Pair)] /\ took' \in [Board -> Seq(Pair)]
    BY <1>11, TakeFacts
  <2> QED
    BY <1>11, <2>1 DEF Types, Take, sending
<1>12. ASSUME NEW b \in Board, Return(b) PROVE Types'
  BY <1>12 DEF Types, Return, sending
<1> QED
  BY <1>1, <1>2, <1>3, <1>4, <1>5, <1>6, <1>7, <1>8, <1>9, <1>10, <1>11, <1>12,
     Zenon
  DEF Next, Sender, RingLink, Sibling

----------------------------------------------------------------------------
(* Tries.                                                                  *)

SameSender(s) ==
  /\ phase'[s] = phase[s] /\ sender'[s] = sender[s] /\ msg'[s] = msg[s]
  /\ result'[s] = result[s] /\ s_broadcast_task'[s] = s_broadcast_task[s]
  /\ notified'[s] = notified[s] /\ ack'[s] = ack[s]
  /\ \A m \in Nat : <<s, m>> \in reported' <=> <<s, m>> \in reported

\* A board with which nothing happens, while its packet may get lost; k says
\* by how many places packets move up.
LEMMA TryFrame ==
  ASSUME NEW s \in Board, Types, Try(s), SameSender(s), NEW k \in [Board -> {0, 1}],
         \A c \in Board, i \in Nat : Flies(s, c, i)' =>
            Flies(s, c, i + k[c]) /\ link'[c][i] = link[c][i + k[c]],
         \A b \in Board, m \in Nat : Times(b, <<s, m>>)' = Times(b, <<s, m>>)
  PROVE  Try(s)'
<1>1. msg[s] \in Nat /\ msg'[s] = msg[s]
  BY DEF Types, SameSender
<1>2. \A b \in Board : Got(s, b)' = Got(s, b)
  BY <1>1 DEF Got
<1>3. OnePacket(s)'
  <2>1. ASSUME NEW c \in Board, NEW d \in Board, NEW i \in Nat, NEW j \in Nat,
               Flies(s, c, i)', Flies(s, d, j)'
        PROVE  c = d /\ i = j
    <3>1. /\ Flies(s, c, i + k[c]) /\ Flies(s, d, j + k[d])
          /\ i + k[c] \in Nat /\ j + k[d] \in Nat /\ k[c] \in Nat /\ k[d] \in Nat
      BY <2>1
    <3>2. c = d /\ i + k[c] = j + k[d]
      BY <3>1 DEF Try, OnePacket
    <3> QED
      BY <3>1, <3>2
  <2>2. ASSUME NEW c \in Board, NEW i \in Nat, Flies(s, c, i)'
        PROVE  /\ phase'[s] = "wait" /\ ack'[s] = None /\ notified'[s] = Silent
               /\ link'[c][i].msg = msg'[s]
               /\ link'[c][i].ttl = TTL + 1 - Dist(s, c)
               /\ \A b \in Board \ {s} :
                    Got(s, b)' = IF Dist(s, b) < Dist(s, c) THEN 1 ELSE 0
    <3>1. /\ Flies(s, c, i + k[c]) /\ i + k[c] \in Nat
          /\ link'[c][i] = link[c][i + k[c]]
      BY <2>2
    <3> QED
      BY <3>1, <1>1, <1>2 DEF Try, OnePacket, SameSender
  <2> QED
    BY <2>1, <2>2 DEF OnePacket
<1>4. CameBack(s)'
  BY <1>2 DEF Try, CameBack, SameSender
<1>5. Phases(s)'
  BY <1>2 DEF Try, Phases, SameSender
<1>6. Reports(s)'
  BY DEF Try, Reports, SameSender
<1> QED
  BY <1>3, <1>4, <1>5, <1>6 DEF Try

\* Nothing moves.
LEMMA TryStays ==
  ASSUME NEW s \in Board, Types, Try(s), SameSender(s), link' = link,
         \A b \in Board : Received(b)' = Received(b)
  PROVE  Try(s)'
<1> DEFINE k == [c \in Board |-> 0]
<1>1. k \in [Board -> {0, 1}] /\ \A c \in Board : k[c] = 0
  OBVIOUS
<1>2. \A b \in Board, m \in Nat : Times(b, <<s, m>>)' = Times(b, <<s, m>>)
  BY DEF Times
<1> HIDE DEF k
<1>3. ASSUME NEW c \in Board, NEW i \in Nat, Flies(s, c, i)'
      PROVE  Flies(s, c, i + k[c]) /\ link'[c][i] = link[c][i + k[c]]
  <2>1. i + k[c] = i
    BY <1>1
  <2> QED
    BY <2>1, <1>3 DEF Flies
<1> QED
  BY <1>1, <1>2, <1>3, TryFrame

\* A packet is gone.
LEMMA TryRemoves ==
  ASSUME NEW s \in Board, Types, Try(s), SameSender(s), NEW b \in Board,
         Removes(b)
  PROVE  Try(s)'
<1> DEFINE k == [c \in Board |-> IF c = b THEN 1 ELSE 0]
<1>1. k \in [Board -> {0, 1}] /\ k[b] = 1 /\ \A c \in Board : c # b => k[c] = 0
  OBVIOUS
<1>2. /\ link'[b] = Tail(link[b])
      /\ \A c \in Board : c # b => link'[c] = link[c]
      /\ \A c \in Board : Received(c)' = Received(c)
  BY RemovesFacts
<1>3. \A c \in Board, m \in Nat : Times(c, <<s, m>>)' = Times(c, <<s, m>>)
  BY <1>2 DEF Times
<1> HIDE DEF k
<1>4. /\ Len(link'[b]) = Len(link[b]) - 1 /\ Len(link[b]) \in Nat \ {0}
      /\ \A i \in 1 .. Len(link'[b]) : link'[b][i] = link[b][i + 1]
  BY <1>2, HeadTailProperties, EmptySeq DEF Types, Removes
<1>5. ASSUME NEW c \in Board, NEW i \in Nat, Flies(s, c, i)'
      PROVE  Flies(s, c, i + k[c]) /\ link'[c][i] = link[c][i + k[c]]
  <2>1. CASE c = b
    <3>1. i \in 1 .. Len(link'[b]) /\ i + k[c] = i + 1 /\ i + 1 \in 1 .. Len(link[b])
      BY <2>1, <1>1, <1>4, <1>5 DEF Flies
    <3> QED
      BY <2>1, <3>1, <1>4, <1>5 DEF Flies
  <2>2. CASE c # b
    <3>1. i + k[c] = i
      BY <2>2, <1>1
    <3> QED
      BY <3>1, <2>2, <1>2, <1>5 DEF Flies
  <2> QED
    BY <2>1, <2>2
<1> QED
  BY <1>1, <1>3, <1>5, TryFrame
\* What Received says about the future.
LEMMA NotYet ==
  ASSUME Types, OrderInv, NEW s \in Board, NEW b \in Board, NEW m \in Nat,
         m > msg[s]
  PROVE  Times(b, <<s, m>>) = 0
<1>1. <<s, m>> \in Pair /\ Received(b) \in Seq(Pair) /\ msg[s] \in Nat
  BY ReceivedType DEF Types, Pair
<1>2. <<s, m>> \notin ToSet(Received(b))
  BY <1>1 DEF OrderInv, NothingNewer
<1> QED
  BY <1>1, <1>2, CountZero, TimesIs

\* The steps of the board that broadcasts.
LEMMA TryStart ==
  ASSUME Types, Types', OrderInv, NEW b \in Board, Try(b),
         NEW t \in Senders[b], Start(b, t)
  PROVE  Try(b)'
<1>1. /\ phase[b] = "idle" /\ phase'[b] = "send" /\ msg'[b] = msg[b] + 1
      /\ sender'[b] = t /\ t # None /\ msg[b] \in Nat
  <2>1. t \in Task
    BY LimitsAssumption
  <2> QED
    BY <2>1 DEF Types, Start, Try, Phases, Task, None, Sib, App
<1>2. UNCHANGED <<link, queue, took, notified, ack, reported>>
  BY DEF Start, sibling
<1>3. ack[b] = None /\ notified[b] = Silent /\ \A c \in Board, i \in Nat : ~Flies(b, c, i)
  BY <1>1 DEF Try, CameBack, OnePacket
<1>4. \A c \in Board : Received(c)' = Received(c)
  BY <1>2 DEF Received
<1>5. \A c \in Board, m \in Nat : Times(c, <<b, m>>)' = Times(c, <<b, m>>)
  BY <1>4 DEF Times
<1>6. msg[b] + 1 \in Nat /\ msg[b] + 1 > msg[b]
  BY <1>1
<1>7. \A c \in Board : Got(b, c)' = 0
  BY <1>1, <1>5, <1>6, NotYet DEF Got
<1>8. OnePacket(b)'
  BY <1>2, <1>3 DEF OnePacket, Flies
<1>9. CameBack(b)'
  BY <1>2, <1>3 DEF CameBack
<1>10. Phases(b)'
  BY <1>1, <1>7 DEF Phases
<1>11. Reports(b)'
  <2> SUFFICES ASSUME NEW m \in Nat, <<b, m>> \in reported
               PROVE  /\ m <= msg[b] + 1 /\ m # msg[b] + 1
                      /\ \A c \in Board \ {b} : Times(c, <<b, m>>)' = 1
    BY <1>1, <1>2 DEF Reports
  <2>1. m <= msg[b] /\ \A c \in Board \ {b} : Times(c, <<b, m>>) = 1
    BY DEF Try, Reports
  <2> QED
    BY <2>1, <1>1, <1>5
<1> QED
  BY <1>8, <1>9, <1>10, <1>11 DEF Try

LEMMA TrySend ==
  ASSUME Types, Types', OrderInv, NEW b \in Board, Try(b), Send(b)
  PROVE  Try(b)'
<1>1. /\ phase[b] = "send" /\ phase'[b] = "wait"
      /\ s_broadcast_task'[b] = sender[b]
      /\ UNCHANGED <<sender, msg, result, notified, ack, reported>>
  BY DEF Types, Send
<1>2. ack[b] = None /\ notified[b] = Silent /\ \A c \in Board, i \in Nat : ~Flies(b, c, i)
  BY <1>1 DEF Try, CameBack, OnePacket
<1>3. PICK n : n = Next_(b)
  OBVIOUS
<1>4. /\ n \in Board /\ link'[n] = Append(link[n], Sent(b)) /\ Sent(b) \in Packet
      /\ \A c \in Board : c # n => link'[c] = link[c]
      /\ \A c \in Board : Received(c)' = Received(c)
  BY <1>3, SendFacts
<1>5. /\ Len(link[n]) \in Nat /\ Len(link'[n]) = Len(link[n]) + 1
      /\ link'[n][Len(link[n]) + 1] = Sent(b)
      /\ \A i \in 1 .. Len(link[n]) : link'[n][i] = link[n][i]
  <2>1. link[n] \in Seq(Packet)
    BY <1>4 DEF Types
  <2> QED
    BY <2>1, <1>4, AppendProperties
<1>6. Sent(b).msg = msg[b] /\ Sent(b).ttl = TTL
  BY DEF Sent
<1>7. ASSUME NEW c \in Board, NEW i \in Nat, Flies(b, c, i)'
      PROVE  c = n /\ i = Len(link[n]) + 1
  <2>1. CASE c # n
    BY <2>1, <1>2, <1>4, <1>7 DEF Flies
  <2>2. CASE c = n /\ i \in 1 .. Len(link[n])
    BY <2>2, <1>2, <1>5, <1>7 DEF Flies
  <2> QED
    BY <2>1, <2>2, <1>5, <1>7 DEF Flies
<1>8. \A c \in Board, m \in Nat : Times(c, <<b, m>>)' = Times(c, <<b, m>>)
  BY <1>4 DEF Times
<1>9. \A c \in Board \ {b} : Got(b, c)' = 0
  BY <1>1, <1>8 DEF Got, Try, Phases, Types
<1>10. Dist(b, n) = 1 /\ \A c \in Board : ~(Dist(b, c) < Dist(b, n))
  BY <1>3, DistIs
<1>11. TTL = TTL + 1 - Dist(b, n)
  BY <1>10, RingAssumption
<1>12. OnePacket(b)'
  <2>1. \A c, d \in Board, i, j \in Nat :
          Flies(b, c, i)' /\ Flies(b, d, j)' => c = d /\ i = j
    BY <1>7
  <2>2. ASSUME NEW c \in Board, NEW i \in Nat, Flies(b, c, i)'
        PROVE  /\ link'[c][i].msg = msg'[b]
               /\ link'[c][i].ttl = TTL + 1 - Dist(b, c)
               /\ \A d \in Board \ {b} :
                    Got(b, d)' = IF Dist(b, d) < Dist(b, c) THEN 1 ELSE 0
    BY <2>2, <1>1, <1>5, <1>6, <1>7, <1>9, <1>10, <1>11
  <2> QED
    BY <2>1, <2>2, <1>1, <1>2 DEF OnePacket
<1>13. CameBack(b)'
  BY <1>1, <1>2 DEF CameBack
<1>14. Phases(b)'
  BY <1>1 DEF Try, Phases
<1>15. Reports(b)'
  BY <1>1, <1>8 DEF Try, Reports
<1> QED
  BY <1>12, <1>13, <1>14, <1>15 DEF Try

\* Steps in which no packet moves.
LEMMA TryOwn ==
  ASSUME Types, Types', NEW b \in Board, Try(b),
         SendFails(b) \/ Notified(b) \/ Clear(b) \/ Notify(b)
  PROVE  Try(b)'
<1>1. UNCHANGED <<link, queue, took, msg>>
  BY DEF SendFails, Notified, Clear, Notify, sibling, sending
<1>2. /\ \A c \in Board, m \in Nat : Times(c, <<b, m>>)' = Times(c, <<b, m>>)
      /\ \A c \in Board : Got(b, c)' = Got(b, c)
  BY <1>1 DEF Times, Received, Got
<1>3. \A c \in Board, i \in Nat : Flies(b, c, i)' <=> Flies(b, c, i)
  BY <1>1 DEF Flies
<1>4. CASE SendFails(b)
  <2>1. /\ phase[b] = "send" /\ phase'[b] = "clear" /\ ~result'[b]
        /\ UNCHANGED <<sender, notified, ack, reported>>
    BY <1>4 DEF SendFails, Types
  <2>2. OnePacket(b)'
    BY <2>1, <1>1, <1>3 DEF Try, OnePacket
  <2>3. CameBack(b)'
    BY <2>1, <1>2 DEF Try, CameBack
  <2>4. Phases(b)'
    BY <2>1, <1>2 DEF Try, Phases
  <2>5. Reports(b)'
    BY <2>1, <1>1, <1>2 DEF Try, Reports
  <2> QED
    BY <2>2, <2>3, <2>4, <2>5 DEF Try
<1>5. CASE Notified(b)
  <2>1. /\ phase[b] = "wait" /\ phase'[b] = "clear" /\ result'[b]
        /\ notified[b] # Silent /\ notified'[b] = Silent
        /\ UNCHANGED <<sender, ack, reported>>
    <3>1. /\ phase[b] = "wait" /\ sender[b] # None /\ notified[b] # Silent
          /\ notified[b] = [Silent EXCEPT ![sender[b]] = 1]
      BY <1>5 DEF Notified, Notes, Types, Silent, Try, CameBack, Phases
    <3>2. Notes(b) = 1 /\ sender[b] \in Task
      BY <3>1 DEF Notes, Silent, Types
    <3>3. notified'[b] = [notified[b] EXCEPT ![sender[b]] = 0]
      BY <1>5 DEF Notified, Types
    <3>4. notified'[b] = Silent
      BY <3>1, <3>2, <3>3 DEF Silent
    <3> QED
      BY <1>5, <3>1, <3>2, <3>4 DEF Notified, Types
  <2>2. /\ notified'[b] = Silent /\ ack[b] = None
        /\ \A c \in Board \ {b} : Got(b, c) = 1
        /\ \A c \in Board, i \in Nat : ~Flies(b, c, i)
    BY <2>1 DEF Try, CameBack, OnePacket
  <2>3. OnePacket(b)'
    BY <2>2, <1>3 DEF OnePacket
  <2>4. CameBack(b)'
    BY <2>1, <2>2 DEF CameBack
  <2>5. Phases(b)'
    BY <2>1, <2>2, <1>2 DEF Try, Phases
  <2>6. Reports(b)'
    BY <2>1, <1>1, <1>2 DEF Try, Reports
  <2> QED
    BY <2>3, <2>4, <2>5, <2>6 DEF Try
<1>6. CASE Clear(b)
  <2>1. /\ phase[b] = "clear" /\ UNCHANGED <<result, notified, ack>>
        /\ \/ phase'[b] = "idle" /\ sender'[b] = None
           \/ /\ phase'[b] = "send" /\ sender'[b] = sender[b] /\ ~result[b]
        /\ reported' = IF result[b] THEN reported \cup {<<b, msg[b]>>}
                       ELSE reported
    BY <1>6 DEF Clear, Types
  <2>2. /\ ack[b] = None /\ notified[b] = Silent /\ sender[b] # None
        /\ \A c \in Board, i \in Nat : ~Flies(b, c, i)
    BY <2>1 DEF Try, CameBack, OnePacket, Phases
  <2>3. OnePacket(b)'
    BY <2>2, <1>3 DEF OnePacket
  <2>4. CameBack(b)'
    BY <2>1, <2>2 DEF CameBack
  <2>5. Phases(b)'
    BY <2>1, <2>2, <1>2 DEF Try, Phases
  <2>6. Reports(b)'
    <3> SUFFICES ASSUME NEW m \in Nat, <<b, m>> \in reported'
                 PROVE  /\ m <= msg[b] /\ (m = msg[b] => phase'[b] = "idle")
                        /\ \A c \in Board \ {b} : Times(c, <<b, m>>) = 1
      BY <1>1, <1>2 DEF Reports
    <3>1. CASE <<b, m>> \in reported
      BY <3>1, <2>1 DEF Try, Reports
    <3>2. CASE <<b, m>> \notin reported
      <4>1. m = msg[b] /\ result[b]
        BY <3>2, <2>1
      <4>2. \A c \in Board \ {b} : Got(b, c) = 1
        BY <4>1, <2>1 DEF Try, Phases
      <4> QED
        BY <4>1, <4>2, <2>1 DEF Got
    <3> QED
      BY <3>1, <3>2
  <2> QED
    BY <2>3, <2>4, <2>5, <2>6 DEF Try
<1>7. CASE Notify(b)
  <2>1. /\ ack[b] # None /\ ack'[b] = None
        /\ notified'[b] = [notified[b] EXCEPT ![ack[b]] = @ + 1]
        /\ UNCHANGED <<phase, sender, result, s_broadcast_task, reported>>
    BY <1>7 DEF Notify, sending, Types
  <2>2. /\ phase[b] = "wait" /\ notified[b] = Silent /\ ack[b] = sender[b]
        /\ \A c \in Board \ {b} : Got(b, c) = 1
        /\ \A c \in Board, i \in Nat : ~Flies(b, c, i)
    BY <2>1 DEF Try, CameBack, OnePacket
  <2>7. notified'[b] = [Silent EXCEPT ![sender[b]] = 1]
    <3>1. ack[b] \in Task
      BY <2>1 DEF Types
    <3>2. Silent[sender[b]] + 1 = 1
      BY <2>2, <3>1 DEF Silent
    <3>3. notified'[b] = [Silent EXCEPT ![sender[b]] = Silent[sender[b]] + 1]
      BY <2>1, <2>2
    <3> QED
      BY <3>2, <3>3
  <2>3. OnePacket(b)'
    BY <2>2, <1>3 DEF OnePacket
  <2>4. CameBack(b)'
    BY <2>1, <2>2, <2>7, <1>2 DEF CameBack
  <2>5. Phases(b)'
    BY <2>1, <1>2 DEF Try, Phases
  <2>6. Reports(b)'
    BY <2>1, <1>1, <1>2 DEF Try, Reports
  <2> QED
    BY <2>3, <2>4, <2>5, <2>6 DEF Try
<1> QED
  BY <1>4, <1>5, <1>6, <1>7

\* The packet is back: it has been at all the other boards.
LEMMA TryAck ==
  ASSUME Types, NEW b \in Board, Try(b), AckAccepted(b)
  PROVE  Try(b)'
<1>1. /\ Removes(b) /\ Head(link[b]).src = b
      /\ ack'[b] = s_broadcast_task[b] /\ s_broadcast_task[b] # None
      /\ UNCHANGED <<phase, sender, msg, result, s_broadcast_task, notified,
                     reported>>
  BY DEF AckAccepted, Own, Head_, Removes, sibling, sending, Types
<1>2. /\ link'[b] = Tail(link[b])
      /\ \A c \in Board : c # b => link'[c] = link[c]
      /\ \A c \in Board : Received(c)' = Received(c)
  BY <1>1, RemovesFacts
<1>3. /\ \A c \in Board, m \in Nat : Times(c, <<b, m>>)' = Times(c, <<b, m>>)
      /\ \A c \in Board : Got(b, c)' = Got(b, c)
  BY <1>1, <1>2 DEF Times, Got
<1>4. /\ Len(link'[b]) = Len(link[b]) - 1 /\ Len(link[b]) \in Nat \ {0}
      /\ \A i \in 1 .. Len(link'[b]) : link'[b][i] = link[b][i + 1]
      /\ Head(link[b]) = link[b][1]
  BY <1>1, <1>2, HeadTailProperties, EmptySeq DEF Types, Removes
<1>5. Flies(b, b, 1)
  BY <1>1, <1>4 DEF Flies
<1>6. /\ phase[b] = "wait" /\ ack[b] = None /\ notified[b] = Silent
      /\ \A c \in Board \ {b} :
           Got(b, c) = IF Dist(b, c) < Dist(b, b) THEN 1 ELSE 0
  BY <1>5 DEF Try, OnePacket
<1>7. \A c \in Board \ {b} : Dist(b, c) < Dist(b, b)
  BY DistIs
<1>8. \A c \in Board \ {b} : Got(b, c) = 1
  BY <1>6, <1>7
<1>9. ASSUME NEW c \in Board, NEW i \in Nat, Flies(b, c, i)' PROVE FALSE
  <2>1. CASE c = b
    <3>1. Flies(b, b, i + 1) /\ i + 1 # 1 /\ i + 1 \in Nat
      BY <2>1, <1>4, <1>9 DEF Flies
    <3> QED
      BY <3>1, <1>5 DEF Try, OnePacket
  <2>2. CASE c # b
    <3>1. Flies(b, c, i)
      BY <2>2, <1>2, <1>9 DEF Flies
    <3> QED
      BY <2>2, <3>1, <1>5 DEF Try, OnePacket
  <2> QED
    BY <2>1, <2>2
<1>10. OnePacket(b)'
  BY <1>9 DEF OnePacket
<1>11. CameBack(b)'
  BY <1>1, <1>3, <1>6, <1>8 DEF Try, Phases, CameBack
<1>12. Phases(b)'
  BY <1>1, <1>3 DEF Try, Phases
<1>13. Reports(b)'
  BY <1>1, <1>3 DEF Try, Reports
<1> QED
  BY <1>10, <1>11, <1>12, <1>13 DEF Try
\* A packet that is forwarded, of another board or of this one.
LEMMA TryForward ==
  ASSUME Types, NEW b \in Board, Forward(b), NEW s \in Board, Try(s)
  PROVE  Try(s)'
<1>1. PICK n, p : n = Next_(b) /\ p = Head(link[b])
  OBVIOUS
<1> DEFINE u == p.src
           m == p.msg
<1>2. /\ n \in Board /\ n # b /\ p \in Packet /\ u # b
      /\ link[b] # <<>> /\ p = link[b][1] /\ link'[b] = Tail(link[b])
      /\ p.ttl = 0 => link'[n] = link[n]
      /\ p.ttl # 0 => /\ link'[n] = Append(link[n], Older(p))
                      /\ Older(p) \in Packet /\ Older(p).src = u
                      /\ Older(p).msg = m /\ Older(p).ttl = p.ttl - 1
      /\ \A c \in Board : c # n /\ c # b => link'[c] = link[c]
      /\ Received(b)' = Append(Received(b), <<u, m>>)
      /\ \A c \in Board : c # b => Received(c)' = Received(c)
  <2>1. /\ n \in Board /\ n # b /\ p \in Packet /\ u # b
        /\ link[b] # <<>> /\ p = link[b][1] /\ link'[b] = Tail(link[b])
        /\ p.ttl = 0 => link'[n] = link[n]
        /\ \A c \in Board : c # n /\ c # b => link'[c] = link[c]
    BY <1>1, ForwardFacts
  <2>2. p.ttl # 0 => /\ link'[n] = Append(link[n], Older(p))
                     /\ Older(p) \in Packet /\ Older(p).src = u
                     /\ Older(p).msg = m /\ Older(p).ttl = p.ttl - 1
    <3>1. p.ttl # 0 => link'[n] = Append(link[n], Older(p))
      <4> SUFFICES ASSUME p.ttl # 0 PROVE link'[n] = Append(link[n], Older(p))
        OBVIOUS
      <4> QED
        BY <1>1, ForwardAppends, Zenon
    <3>2. p.ttl # 0 => /\ Older(p) \in Packet /\ Older(p).src = u
                       /\ Older(p).msg = m /\ Older(p).ttl = p.ttl - 1
      BY <2>1 DEF Older, Packet
    <3> QED
      BY <3>1, <3>2
  <2>3. /\ Received(b)' = Append(Received(b), <<u, m>>)
        /\ \A c \in Board : c # b => Received(c)' = Received(c)
    BY <1>1, ForwardFacts
  <2> QED
    BY <2>1, <2>2, <2>3
<1>3. u \in Board /\ m \in Nat /\ p.ttl \in Nat /\ <<u, m>> \in Pair
  BY <1>2 DEF Packet, Pair
<1>4. UNCHANGED <<sender, phase, msg, result, s_broadcast_task, notified, ack,
                  reported>>
  BY DEF Forward, sending
<1> HIDE DEF u, m
<1>5. /\ Len(link'[b]) = Len(link[b]) - 1 /\ Len(link[b]) \in Nat \ {0}
      /\ \A i \in 1 .. Len(link'[b]) : link'[b][i] = link[b][i + 1]
  BY <1>2, HeadTailProperties, EmptySeq DEF Types
<1>6. Len(link[n]) \in Nat /\ link[n] \in Seq(Packet)
  BY <1>2, LenProperties DEF Types
<1>7. p.ttl # 0 =>
        /\ Len(link'[n]) = Len(link[n]) + 1
        /\ link'[n][Len(link[n]) + 1] = Older(p)
        /\ \A i \in 1 .. Len(link[n]) : link'[n][i] = link[n][i]
  BY <1>2, <1>6, AppendProperties
<1>8. ASSUME NEW c \in Board, NEW x \in Board, NEW y \in Nat
      PROVE  /\ Times(c, <<x, y>>) \in Nat
             /\ Times(c, <<x, y>>)' = IF c = b /\ x = u /\ y = m
                                      THEN Times(c, <<x, y>>) + 1
                                      ELSE Times(c, <<x, y>>)
  <2>1. <<x, y>> \in Pair /\ Received(c) \in Seq(Pair)
    BY ReceivedType DEF Types, Pair
  <2>2. /\ Count(Received(c), <<x, y>>) \in Nat
        /\ Count(Append(Received(c), <<u, m>>), <<x, y>>) =
             IF <<u, m>> = <<x, y>> THEN Count(Received(c), <<x, y>>) + 1
                                    ELSE Count(Received(c), <<x, y>>)
    BY <2>1, <1>3, CountAppend
  <2>3. /\ Times(c, <<x, y>>) = Count(Received(c), <<x, y>>)
        /\ Times(c, <<x, y>>)' = Count(Received(c)', <<x, y>>)
    BY DEF Times, Count
  <2>4. <<u, m>> = <<x, y>> <=> x = u /\ y = m
    OBVIOUS
  <2>5. CASE c = b
    BY <2>2, <2>3, <2>4, <2>5, <1>2
  <2>6. CASE c # b
    BY <2>2, <2>3, <2>6, <1>2
  <2> QED
    BY <2>5, <2>6
\* where the packets of link' come from
<1>9. ASSUME NEW c \in Board, NEW i \in Nat, Flies(s, c, i)'
      PROVE  \/ c = b /\ Flies(s, b, i + 1) /\ link'[c][i] = link[c][i + 1]
             \/ c # b /\ Flies(s, c, i) /\ link'[c][i] = link[c][i]
             \/ /\ c = n /\ i = Len(link[n]) + 1 /\ s = u /\ p.ttl # 0
                /\ link'[c][i] = Older(p)
  <2>1. CASE c = b
    <3>1. i \in 1 .. Len(link'[b]) /\ i + 1 \in 1 .. Len(link[b])
      BY <2>1, <1>5, <1>9 DEF Flies
    <3> QED
      BY <2>1, <3>1, <1>5, <1>9 DEF Flies
  <2>2. CASE c # b /\ c # n
    BY <2>2, <1>2, <1>9 DEF Flies
  <2>3. CASE c = n /\ p.ttl = 0
    BY <2>3, <1>2, <1>9 DEF Flies
  <2>4. CASE c = n /\ p.ttl # 0 /\ i \in 1 .. Len(link[n])
    BY <2>4, <1>2, <1>7, <1>9 DEF Flies
  <2>5. CASE c = n /\ p.ttl # 0 /\ i \notin 1 .. Len(link[n])
    <3>1. i = Len(link[n]) + 1
      BY <2>5, <1>6, <1>7, <1>9 DEF Flies
    <3> QED
      BY <2>5, <3>1, <1>2, <1>7, <1>9 DEF Flies
  <2> QED
    BY <2>1, <2>2, <2>3, <2>4, <2>5
<1>10. CASE s # u
  <2> DEFINE k == [c \in Board |-> IF c = b THEN 1 ELSE 0]
  <2>1. k \in [Board -> {0, 1}] /\ k[b] = 1 /\ \A c \in Board : c # b => k[c] = 0
    OBVIOUS
  <2> HIDE DEF k
  <2>2. ASSUME NEW c \in Board, NEW i \in Nat, Flies(s, c, i)'
        PROVE  Flies(s, c, i + k[c]) /\ link'[c][i] = link[c][i + k[c]]
    <3>1. CASE c = b
      BY <3>1, <2>1, <2>2, <1>2, <1>9, <1>10
    <3>2. CASE c # b
      <4>1. i + k[c] = i
        BY <3>2, <2>1
      <4> QED
        BY <3>2, <4>1, <2>2, <1>9, <1>10
    <3> QED
      BY <3>1, <3>2
  <2>3. \A c \in Board, y \in Nat : Times(c, <<s, y>>)' = Times(c, <<s, y>>)
    BY <1>8, <1>10
  <2>4. SameSender(s)
    BY <1>4 DEF SameSender
  <2> QED
    BY <2>1, <2>2, <2>3, <2>4, TryFrame
<1>11. CASE s = u
  <2>1. Flies(u, b, 1)
    BY <1>2, <1>5 DEF Flies, u
  <2>2. /\ phase[u] = "wait" /\ ack[u] = None /\ notified[u] = Silent
        /\ m = msg[u] /\ p.ttl = TTL + 1 - Dist(u, b)
        /\ \A c \in Board \ {u} :
             Got(u, c) = IF Dist(u, c) < Dist(u, b) THEN 1 ELSE 0
    BY <2>1, <1>2, <1>11 DEF Try, OnePacket, m
  <2>3. /\ Dist(u, b) \in 1 .. N - 1 /\ Dist(u, n) = Dist(u, b) + 1
        /\ \A c \in Board : Dist(u, c) \in 1 .. N
        /\ \A c \in Board : Dist(u, c) = Dist(u, b) => c = b
    <3>1. \A c \in Board : Dist(u, c) \in 1 .. N
      BY <1>3, DistIs
    <3>2. Dist(u, n) = Dist(u, b) + 1 /\ Dist(u, b) # N
      BY <1>1, <1>2, <1>3, DistIs
    <3>3. \A c \in Board : Dist(u, c) = Dist(u, b) => c = b
      BY <1>3, DistIsOne
    <3> QED
      BY <3>1, <3>2, <3>3, RingAssumption
  <2>4. p.ttl # 0 /\ p.ttl - 1 = TTL + 1 - Dist(u, n)
    BY <2>2, <2>3, RingAssumption
  <2>5. ASSUME NEW c \in Board, NEW i \in Nat, Flies(u, c, i)'
        PROVE  c = n /\ i = Len(link[n]) + 1 /\ link'[c][i] = Older(p)
    <3>1. ~Flies(u, b, i + 1)
      <4>1. i + 1 # 1 /\ i + 1 \in Nat
        BY <2>5 DEF Flies
      <4> QED
        BY <4>1, <2>1, <1>11 DEF Try, OnePacket
    <3>2. c # b => ~Flies(u, c, i)
      BY <2>1, <1>11 DEF Try, OnePacket
    <3> QED
      BY <3>1, <3>2, <2>5, <1>9, <1>11
  <2>6. ASSUME NEW c \in Board \ {u}
        PROVE  Got(u, c)' = IF Dist(u, c) < Dist(u, n) THEN 1 ELSE 0
    <3>1. Got(u, c)' = IF c = b THEN Got(u, c) + 1 ELSE Got(u, c)
      BY <1>3, <1>4, <1>8, <2>2 DEF Got
    <3>2. CASE c = b
      <4>1. ~(Dist(u, c) < Dist(u, b)) /\ Dist(u, c) < Dist(u, n)
        BY <3>2, <2>3
      <4>2. Got(u, c) = 0
        BY <4>1, <2>2
      <4> QED
        BY <3>1, <3>2, <4>1, <4>2
    <3>3. CASE c # b
      <4>1. Dist(u, c) < Dist(u, b) <=> Dist(u, c) < Dist(u, n)
        BY <3>3, <2>3
      <4> QED
        BY <3>1, <3>3, <4>1, <2>2
    <3> QED
      BY <3>2, <3>3
  <2>7. OnePacket(u)'
    <3>1. \A c, d \in Board, i, j \in Nat :
            Flies(u, c, i)' /\ Flies(u, d, j)' => c = d /\ i = j
      BY <2>5
    <3>2. ASSUME NEW c \in Board, NEW i \in Nat, Flies(u, c, i)'
          PROVE  /\ link'[c][i].msg = msg'[u]
                 /\ link'[c][i].ttl = TTL + 1 - Dist(u, c)
                 /\ \A d \in Board \ {u} :
                      Got(u, d)' = IF Dist(u, d) < Dist(u, c) THEN 1 ELSE 0
      BY <3>2, <2>2, <2>4, <2>5, <2>6, <1>2, <1>4
    <3> QED
      BY <3>1, <3>2, <2>2, <1>4 DEF OnePacket, u
  <2>8. CameBack(u)'
    BY <2>2, <1>4 DEF CameBack, u
  <2>9. Phases(u)'
    BY <2>2, <1>4, <1>11 DEF Try, Phases, u
  <2>10. Reports(u)'
    <3> SUFFICES ASSUME NEW y \in Nat, <<u, y>> \in reported
                 PROVE  /\ y <= msg[u] /\ (y = msg[u] => phase[u] = "idle")
                        /\ \A c \in Board \ {u} : Times(c, <<u, y>>)' = 1
      BY <1>4 DEF Reports, u
    <3>1. /\ y <= msg[u] /\ (y = msg[u] => phase[u] = "idle")
          /\ \A c \in Board \ {u} : Times(c, <<u, y>>) = 1
      BY <1>11 DEF Try, Reports
    <3>2. y # m
      BY <3>1, <2>2
    <3> QED
      BY <3>1, <3>2, <1>3, <1>8
  <2> QED
    BY <2>7, <2>8, <2>9, <2>10, <1>11 DEF Try, u
<1> QED
  BY <1>10, <1>11
----------------------------------------------------------------------------
(* The invariant and the theorems.                                         *)

LEMMA BroadcastInvInit == Init => BroadcastInv
<1> SUFFICES ASSUME Init PROVE BroadcastInv
  OBVIOUS
<1>1. Types
  BY TypesInit
<1>2. \A b \in Board : link[b] = <<>> /\ took[b] = <<>> /\ queue[b] = <<>>
  BY DEF Init
<1>3. \A b \in Board : Len(link[b]) = 0 /\ Received(b) = <<>>
  <2>1. <<>> \o <<>> = <<>> /\ Len(<<>>) = 0
    BY SMT
  <2> QED
    BY <2>1, <1>2 DEF Received
<1>4. \A b \in Board : Line(b) = <<>>
  <2>1. \A b \in Board : Line(b) \in Seq(Pair) /\ Len(Line(b)) = 0
    BY <1>1, <1>3, LineIs DEF Types
  <2> QED
    BY <2>1, EmptySeq
<1>5. ToSet(<<>>) = {} /\ Ordered(<<>>)
  BY DEF ToSet, Ordered
<1>6. OrderInv
  BY <1>3, <1>4, <1>5
  DEF OrderInv, LinesOrdered, SentEarlier, GotEarlier, NothingNewer
<1>7. ASSUME NEW s \in Board PROVE Try(s)
  <2>1. OnePacket(s)
    BY <1>3 DEF OnePacket, Flies
  <2>2. CameBack(s) /\ Phases(s) /\ Reports(s)
    BY DEF Init, CameBack, Phases, Reports
  <2> QED
    BY <2>1, <2>2 DEF Try
<1> QED
  BY <1>1, <1>6, <1>7 DEF BroadcastInv, TryInv

LEMMA BroadcastInvStep == BroadcastInv /\ [Next]_vars => BroadcastInv'
<1> SUFFICES ASSUME Types, OrderInv, TryInv, [Next]_vars PROVE BroadcastInv'
  BY DEF BroadcastInv
<1>1. Types'
  BY TypesStep
\* One board acts; the tries of the others stay what they were.
<1>2. ASSUME NEW s \in Board \ late', late \subseteq late'
      PROVE  s \in Board /\ Try(s)
  BY <1>2 DEF TryInv
<1>3. CASE UNCHANGED vars
  <2>1. OrderInv'
    BY <1>3, OrderUnmoved DEF vars, Unmoved
  <2>2. ASSUME NEW s \in Board \ late' PROVE Try(s)'
    BY <2>2, <1>2, <1>3, TryStays DEF vars, SameSender, Received
  <2> QED
    BY <1>1, <2>1, <2>2 DEF BroadcastInv, TryInv
<1>4. ASSUME NEW b \in Board, NEW t \in Senders[b], Start(b, t)
      PROVE  BroadcastInv'
  <2>1. /\ UNCHANGED <<link, queue, took, late>>
        /\ msg' = [msg EXCEPT ![b] = @ + 1]
    BY <1>4 DEF Start, sibling
  <2>2. \A c \in Board : Line(c)' = Line(c) /\ Received(c)' = Received(c)
    BY <2>1 DEF Line, Received
  <2>3. ASSUME NEW c \in Board PROVE msg[c] <= msg'[c]
    <3>1. msg[c] \in Nat /\ msg'[c] = IF c = b THEN msg[c] + 1 ELSE msg[c]
      BY <2>1 DEF Types
    <3> QED
      BY <3>1
  <2>4. OrderInv'
    BY <2>2, <2>3, <1>1, OrderShrinks DEF OrderInv, LinesOrdered
  <2>5. ASSUME NEW s \in Board \ late' PROVE Try(s)'
    <3>1. CASE s = b
      BY <3>1, <2>1, <1>1, <1>2, <1>4, TryStart
    <3>2. CASE s # b
      <4>1. SameSender(s)
        BY <3>2, <1>4 DEF SameSender, Start, Types
      <4> QED
        BY <4>1, <2>1, <2>2, <1>2, TryStays
    <3> QED
      BY <3>1, <3>2
  <2> QED
    BY <1>1, <2>4, <2>5 DEF BroadcastInv, TryInv
<1>5. ASSUME NEW b \in Board, Send(b) PROVE BroadcastInv'
  <2>1. OrderInv'
    BY <1>1, <1>5, OrderSend
  <2>2. late' = late
    BY <1>5 DEF Send
  <2>3. ASSUME NEW s \in Board \ late' PROVE Try(s)'
    <3>1. CASE s = b
      BY <3>1, <2>2, <1>1, <1>2, <1>5, TrySend
    <3>2. CASE s # b
      <4>1. SameSender(s)
        BY <3>2, <1>5 DEF SameSender, Send, Types
      <4>2. PICK n : n = Next_(b)
        OBVIOUS
      <4>3. /\ n \in Board /\ link'[n] = Append(link[n], Sent(b))
            /\ Sent(b) \in Packet
            /\ \A c \in Board : c # n => link'[c] = link[c]
            /\ \A c \in Board : Received(c)' = Received(c)
        BY <4>2, <1>5, SendFacts
      <4>4. link[n] \in Seq(Packet) /\ Sent(b).src = b
        BY <4>3 DEF Types, Sent
      <4>5. /\ Len(link[n]) \in Nat /\ Len(link'[n]) = Len(link[n]) + 1
            /\ link'[n][Len(link[n]) + 1] = Sent(b)
            /\ \A i \in 1 .. Len(link[n]) : link'[n][i] = link[n][i]
        BY <4>3, <4>4, AppendProperties
      <4> DEFINE k == [c \in Board |-> 0]
      <4>6. k \in [Board -> {0, 1}] /\ \A c \in Board : k[c] = 0
        OBVIOUS
      <4> HIDE DEF k
      <4>7. ASSUME NEW c \in Board, NEW i \in Nat, Flies(s, c, i)'
            PROVE  Flies(s, c, i + k[c]) /\ link'[c][i] = link[c][i + k[c]]
        <5>1. i + k[c] = i
          BY <4>6
        <5>2. CASE c # n
          BY <5>1, <5>2, <4>3, <4>7 DEF Flies
        <5>3. CASE c = n
          <6>1. i \in 1 .. Len(link[n])
            BY <5>3, <3>2, <4>4, <4>5, <4>7 DEF Flies
          <6> QED
            BY <5>1, <5>3, <6>1, <4>5, <4>7 DEF Flies
        <5> QED
          BY <5>2, <5>3
      <4>8. \A c \in Board, m \in Nat : Times(c, <<s, m>>)' = Times(c, <<s, m>>)
        BY <4>3 DEF Times
      <4> QED
        BY <4>1, <4>6, <4>7, <4>8, <2>2, <1>2, TryFrame
    <3> QED
      BY <3>1, <3>2
  <2> QED
    BY <1>1, <2>1, <2>3 DEF BroadcastInv, TryInv
<1>6. ASSUME NEW b \in Board,
             \/ SendFails(b) \/ Notified(b) \/ Clear(b) \/ Notify(b)
             \/ Timeout(b)
      PROVE  BroadcastInv'
  <2>1. Unmoved
    BY <1>6
    DEF Unmoved, SendFails, Notified, Clear, Notify, Timeout, sibling, sending
  <2>2. OrderInv'
    BY <2>1, OrderUnmoved
  <2>3. late \subseteq late' /\ (Timeout(b) => b \in late')
    BY <1>6 DEF SendFails, Notified, Clear, Notify, Timeout
  <2>4. ASSUME NEW s \in Board \ late' PROVE Try(s)'
    <3>1. CASE s = b
      <4>1. SendFails(b) \/ Notified(b) \/ Clear(b) \/ Notify(b)
        BY <3>1, <2>3, <2>4, <1>6
      <4> QED
        BY <4>1, <3>1, <2>3, <1>1, <1>2, TryOwn
    <3>2. CASE s # b
      <4>1. CASE SendFails(b)
        BY <3>2, <4>1, <2>1, <2>3, <1>2, UnmovedFacts, TryStays
        DEF SendFails, SameSender, Types, Unmoved
      <4>2. CASE Notified(b)
        BY <3>2, <4>2, <2>1, <2>3, <1>2, UnmovedFacts, TryStays
        DEF Notified, SameSender, Types, Unmoved
      <4>3. CASE Clear(b)
        <5>1. SameSender(s)
          BY <3>2, <4>3 DEF Clear, SameSender, Types
        <5> QED
          BY <5>1, <2>1, <2>3, <1>2, UnmovedFacts, TryStays DEF Unmoved
      <4>4. CASE Notify(b)
        BY <3>2, <4>4, <2>1, <2>3, <1>2, UnmovedFacts, TryStays
        DEF Notify, sending, SameSender, Types, Unmoved
      <4>5. CASE Timeout(b)
        BY <3>2, <4>5, <2>1, <2>3, <1>2, UnmovedFacts, TryStays
        DEF Timeout, SameSender, Types, Unmoved
      <4> QED
        BY <1>6, <4>1, <4>2, <4>3, <4>4, <4>5
    <3> QED
      BY <3>1, <3>2
  <2> QED
    BY <1>1, <2>2, <2>4 DEF BroadcastInv, TryInv
<1>7. ASSUME NEW b \in Board, Forward(b) PROVE BroadcastInv'
  <2>1. OrderInv'
    BY <1>1, <1>7, OrderForward
  <2>2. late' = late
    BY <1>7 DEF Forward
  <2>3. ASSUME NEW s \in Board \ late' PROVE Try(s)'
    BY <2>2, <1>2, <1>7, TryForward
  <2> QED
    BY <1>1, <2>1, <2>3 DEF BroadcastInv, TryInv
<1>8. ASSUME NEW b \in Board, AckDropped(b) \/ AckAccepted(b) \/ Lose(b)
      PROVE  BroadcastInv'
  <2>1. Removes(b) /\ late' = late
    BY <1>8 DEF AckDropped, AckAccepted, Lose, Own, Removes, sibling, sending
  <2>2. OrderInv'
    BY <2>1, <1>1, OrderRemoves
  <2>3. ASSUME NEW s \in Board \ late' PROVE Try(s)'
    <3>1. CASE s = b /\ AckAccepted(b)
      BY <3>1, <2>1, <1>2, TryAck
    <3>2. CASE s # b \/ ~AckAccepted(b)
      <4>1. SameSender(s)
        BY <3>2, <1>8
        DEF AckDropped, AckAccepted, Lose, SameSender, sending, Types
      <4> QED
        BY <4>1, <2>1, <1>2, TryRemoves
    <3> QED
      BY <3>1, <3>2
  <2> QED
    BY <1>1, <2>2, <2>3 DEF BroadcastInv, TryInv
<1>9. ASSUME NEW b \in Board, Take(b) \/ Return(b) PROVE BroadcastInv'
  <2>1. /\ UNCHANGED <<link, sending, notified, ack, reported, late>>
        /\ \A c \in Board : Received(c)' = Received(c)
    <3>1. CASE Take(b)
      BY <3>1, TakeFacts DEF Take
    <3>2. CASE Return(b)
      BY <3>2 DEF Return, Received
    <3> QED
      BY <1>9, <3>1, <3>2
  <2>2. \A c \in Board : Line(c)' = Line(c) /\ msg'[c] = msg[c]
    BY <2>1 DEF Line, sending
  <2>3. OrderInv'
    <3>1. \A c \in Board : msg[c] <= msg'[c]
      BY <2>2 DEF Types
    <3> QED
      BY <2>1, <2>2, <3>1, <1>1, OrderShrinks DEF OrderInv, LinesOrdered
  <2>4. ASSUME NEW s \in Board \ late' PROVE Try(s)'
    BY <2>1, <1>2, TryStays DEF sending, SameSender
  <2> QED
    BY <1>1, <2>3, <2>4 DEF BroadcastInv, TryInv
<1> QED
  BY <1>3, <1>4, <1>5, <1>6, <1>7, <1>8, <1>9, Zenon
  DEF Next, Sender, RingLink, Sibling

(* The invariant: types, the order along the ring, and what is true of a   *)
(* board's broadcasts until one of them times out.                         *)
THEOREM BroadcastInvariant == Spec => []BroadcastInv
BY BroadcastInvInit, BroadcastInvStep, PTL DEF Spec

(* The handlers of a board see the messages of another one in the order in *)
(* which they were broadcast, whatever is lost, sent again or acknowledged *)
(* late (node_broadcast_to_siblings, broadcast_handler).                   *)
THEOREM InOrderHolds == Spec => []InOrder
<1>1. BroadcastInv => InOrder
  <2> SUFFICES ASSUME BroadcastInv, NEW b \in Board,
                      NEW i \in 1 .. Len(took[b]), NEW j \in 1 .. Len(took[b]),
                      i < j, took[b][i][1] = took[b][j][1]
               PROVE  took[b][i][2] <= took[b][j][2]
    BY DEF InOrder
  <2>1. took[b] \in Seq(Pair) /\ queue[b] \in Seq(Pair) /\ Ordered(Received(b))
    BY DEF BroadcastInv, Types, OrderInv, LinesOrdered
  <2>2. /\ Len(Received(b)) = Len(took[b]) + Len(queue[b])
        /\ \A l \in 1 .. Len(took[b]) + Len(queue[b]) :
             Received(b)[l] = IF l <= Len(took[b]) THEN took[b][l]
                              ELSE queue[b][l - Len(took[b])]
    BY <2>1, ConcatProperties DEF Received
  <2>3. Len(took[b]) \in Nat /\ Len(queue[b]) \in Nat
    BY <2>1, LenProperties
  <2>4. ASSUME NEW l \in 1 .. Len(took[b])
        PROVE  l \in 1 .. Len(Received(b)) /\ Received(b)[l] = took[b][l]
    <3> DEFINE x == Len(took[b])
               y == Len(queue[b])
    <3>1. x \in Nat /\ y \in Nat /\ l \in 1 .. x
      BY <2>3
    <3> HIDE DEF x, y
    <3>2. l \in 1 .. x + y /\ l <= x
      BY <3>1
    <3>3. l \in 1 .. Len(took[b]) + Len(queue[b]) /\ l <= Len(took[b])
      BY <3>2 DEF x, y
    <3> QED
      BY <3>3, <2>2
  <2> QED
    BY <2>1, <2>4 DEF Ordered
<1> QED
  BY <1>1, BroadcastInvariant, PTL

(* siblings.h, for a board none of whose broadcasts has timed out: one     *)
(* that returns true was got by every other board, and once.               *)
THEOREM SuccessUntilTimeoutHolds == Spec => []SuccessUntilTimeout
<1>1. BroadcastInv => SuccessUntilTimeout
  <2> SUFFICES ASSUME BroadcastInv, NEW m \in reported, m[1] \notin late,
                      NEW b \in Board \ {m[1]}
               PROVE  Times(b, m) = 1
    BY DEF SuccessUntilTimeout
  <2>1. m[1] \in Board /\ m[2] \in Nat /\ m = <<m[1], m[2]>>
    BY DEF BroadcastInv, Types, Pair
  <2>2. Reports(m[1])
    BY <2>1 DEF BroadcastInv, TryInv, Try
  <2>3. \A x \in Nat : <<m[1], x>> \in reported => Times(b, <<m[1], x>>) = 1
    BY <2>2 DEF Reports
  <2> QED
    BY <2>1, <2>3
<1> QED
  BY <1>1, BroadcastInvariant, PTL

----------------------------------------------------------------------------
(* Copies.                                                                 *)

\* How many copies of message m of board s have left it.
Left(s, m) ==
  IF m > msg[s] THEN 0
  ELSE IF m < msg[s] THEN MAX_RETRIES
  ELSE IF phase[s] = "send" THEN try[s] - 1 ELSE try[s]

\* The copies that board c has got, or will get if no more are lost.
Coming(c, m) == Count(Received(c), m) + Count(Line(c), m)

\* The copies of message m of board s that board a may have passed on.
Passed(a, s, m) == IF a = s THEN Left(s, m) ELSE Count(Received(a), <<s, m>>)

\* No board gets more copies than the board before it, nor the first one more
\* than there were tries.
CopiesInv ==
  \A s, a \in Board, m \in Nat :
    Next_(a) # s => Coming(Next_(a), <<s, m>>) <= Passed(a, s, m)

TriesInv ==
  \A s \in Board :
    /\ try[s] <= MAX_RETRIES
    /\ phase[s] # "idle" =>
         try[s] >= 1 /\ msg[s] >= 1 /\ <<s, msg[s]>> \notin reported
    /\ \A m \in Nat : <<s, m>> \in reported => m <= msg[s]

\* The first message is number 1.
NumbersInv == \A c \in Board : \A m \in ToSet(Line(c)) : m[2] >= 1

LEMMA CountTail ==
  ASSUME NEW q \in Seq(Pair), NEW m \in Pair
  PROVE  /\ Count(q, m) \in Nat
         /\ q # <<>> =>
              /\ Count(Tail(q), m) \in Nat
              /\ Count(q, m) = IF Head(q) = m THEN Count(Tail(q), m) + 1
                                              ELSE Count(Tail(q), m)
<1> DEFINE S == {i \in 1 .. Len(q) : q[i] = m}
<1>1. Count(q, m) \in Nat
  BY CountAppend
<1>2. CASE q # <<>>
  <2> DEFINE t == Tail(q)
             T == {i \in 1 .. Len(t) : t[i] = m}
             U == S \ {1}
             f == [i \in T |-> i + 1]
  <2>1. /\ t \in Seq(Pair) /\ Len(t) = Len(q) - 1 /\ Len(q) \in Nat \ {0}
        /\ \A i \in 1 .. Len(t) : t[i] = q[i + 1]
        /\ Head(q) = q[1]
    BY <1>2, HeadTailProperties, EmptySeq
  <2>2. Count(t, m) \in Nat
    BY <2>1, CountAppend
  <2> HIDE DEF t
  <2>3. IsFiniteSet(S) /\ IsFiniteSet(T)
    <3>1. IsFiniteSet(1 .. Len(q)) /\ IsFiniteSet(1 .. Len(t))
      BY <2>1, FS_Interval
    <3> QED
      BY <3>1, FS_Subset
  <2>4. \A i \in T : i + 1 \in U
    BY <2>1
  <2>5. \A j \in U : j - 1 \in T /\ (j - 1) + 1 = j
    BY <2>1
  <2>6. f \in Bijection(T, U)
    <3>1. f \in [T -> U]
      BY <2>4
    <3>2. \A i, j \in T : f[i] = f[j] => i = j
      BY DEF T
    <3>3. \A j \in U : \E i \in T : f[i] = j
      <4> SUFFICES ASSUME NEW j \in U PROVE \E i \in T : f[i] = j
        OBVIOUS
      <4>1. j - 1 \in T /\ f[j - 1] = j
        BY <2>5
      <4> QED
        BY <4>1
    <3> QED
      BY <3>1, <3>2, <3>3 DEF Bijection, Injection, IsInjective, Surjection
  <2>7. Cardinality(U) = Cardinality(T)
    <3>1. IsFiniteSet(U)
      BY <2>3, FS_Subset
    <3> QED
      BY <2>3, <2>6, <3>1, FS_Bijection DEF ExistsBijection
  <2>8. CASE Head(q) = m
    <3>1. S = U \cup {1} /\ 1 \notin U
      BY <2>1, <2>8
    <3>2. Cardinality(S) = Cardinality(U) + 1
      <4>1. IsFiniteSet(U)
        BY <2>3, FS_Subset
      <4> QED
        BY <3>1, <4>1, FS_AddElement
    <3> QED
      BY <1>1, <2>2, <2>7, <2>8, <3>2 DEF Count, t
  <2>9. CASE Head(q) # m
    <3>1. S = U
      BY <2>1, <2>9
    <3> QED
      BY <1>1, <2>2, <2>7, <2>9, <3>1 DEF Count, t
  <2> QED
    BY <2>8, <2>9
<1> QED
  BY <1>1, <1>2

LEMMA NextIsInjective ==
  ASSUME NEW a \in Board, NEW b \in Board, Next_(a) = Next_(b)
  PROVE  a = b
BY NextIs, SMT DEF Board

\* The counts are numbers.
LEMMA CopiesTypes ==
  ASSUME Types, NEW c \in Board, NEW m \in Pair
  PROVE  Count(Received(c), m) \in Nat /\ Count(Line(c), m) \in Nat
<1>1. Received(c) \in Seq(Pair)
  BY ReceivedType DEF Types
<1>2. Line(c) \in Seq(Pair)
  BY LineIs DEF Types
<1> QED
  BY <1>1, <1>2, CountTail

LEMMA LeftType ==
  ASSUME Types, NEW s \in Board, NEW m \in Nat
  PROVE  Left(s, m) \in Int
BY LimitsAssumption, SMT DEF Left, Types

\* Nothing is lost by a step that takes packets away or makes new copies.
LEMMA CopiesFrame ==
  ASSUME Types, Types', CopiesInv,
         \A s \in Board, m \in Nat : Left(s, m) <= Left(s, m)',
         \A c \in Board : Received(c)' = Received(c),
         \A c \in Board, m \in Pair :
           Count(Line(c), m)' \in Nat /\ Count(Line(c), m)' <= Count(Line(c), m)
  PROVE  CopiesInv'
<1> SUFFICES ASSUME NEW s \in Board, NEW a \in Board, NEW m \in Nat,
                    Next_(a) # s
             PROVE  Coming(Next_(a), <<s, m>>)' <= Passed(a, s, m)'
  BY DEF CopiesInv
<1>1. PICK n : n = Next_(a)
  OBVIOUS
<1>2. n \in Board /\ <<s, m>> \in Pair
  BY <1>1, NextIs DEF Pair
<1>3. /\ Count(Received(n), <<s, m>>) \in Nat
      /\ Count(Line(n), <<s, m>>) \in Nat /\ Count(Line(n), <<s, m>>)' \in Nat
      /\ Count(Received(a), <<s, m>>) \in Nat
      /\ Left(s, m) \in Int /\ Left(s, m)' \in Int
  <2>1. Left(s, m)' \in Int
    <3>1. msg'[s] \in Nat /\ try'[s] \in Nat /\ MAX_RETRIES \in Nat
      BY LimitsAssumption DEF Types
    <3> QED
      BY <3>1, SMT DEF Left
  <2> QED
    BY <1>2, <2>1, CopiesTypes, LeftType
<1>4. /\ Count(Received(n), <<s, m>>)' = Count(Received(n), <<s, m>>)
      /\ Count(Received(a), <<s, m>>)' = Count(Received(a), <<s, m>>)
  BY <1>2 DEF Count
<1>5. Coming(n, <<s, m>>) <= Passed(a, s, m)
  BY <1>1 DEF CopiesInv
<1>6. Coming(n, <<s, m>>)' <= Coming(n, <<s, m>>)
  BY <1>2, <1>3, <1>4, SMT DEF Coming
<1>7. Passed(a, s, m) <= Passed(a, s, m)'
  BY <1>3, <1>4, SMT DEF Passed
<1>8. /\ Coming(n, <<s, m>>) \in Int /\ Coming(n, <<s, m>>)' \in Int
      /\ Passed(a, s, m) \in Int /\ Passed(a, s, m)' \in Int
  BY <1>3, <1>4, SMT DEF Coming, Passed
<1>9. Coming(n, <<s, m>>)' <= Passed(a, s, m)'
  BY <1>5, <1>6, <1>7, <1>8, SMT
<1> QED
  BY <1>1, <1>9

\* What the steps do to the counts.
LEMMA RemovesCounts ==
  ASSUME Types, NEW b \in Board, Removes(b)
  PROVE  \A c \in Board, m \in Pair :
           Count(Line(c), m)' \in Nat /\ Count(Line(c), m)' <= Count(Line(c), m)
<1> SUFFICES ASSUME NEW c \in Board, NEW m \in Pair
             PROVE  /\ Count(Line(c), m)' \in Nat
                    /\ Count(Line(c), m)' <= Count(Line(c), m)
  OBVIOUS
<1>1. Count(Line(c), m) \in Nat
  BY CopiesTypes
<1>2. CASE c = b
  <2>1. /\ Line(b)' = Tail(Line(b)) /\ Line(b) \in Seq(Pair)
        /\ Line(b) # <<>>
    BY RemovesFacts
  <2>2. Count(Line(b), m)' = Count(Tail(Line(b)), m)
    BY <2>1 DEF Count
  <2>3. /\ Count(Tail(Line(b)), m) \in Nat
        /\ \/ Count(Line(b), m) = Count(Tail(Line(b)), m) + 1
           \/ Count(Line(b), m) = Count(Tail(Line(b)), m)
    BY <2>1, CountTail
  <2> QED
    BY <1>2, <2>2, <2>3
<1>3. CASE c # b
  <2>1. Line(c)' = Line(c)
    BY <1>3, RemovesFacts
  <2> QED
    BY <1>1, <2>1 DEF Count
<1> QED
  BY <1>2, <1>3

LEMMA SendCounts ==
  ASSUME Types, NEW b \in Board, Send(b), NEW c \in Board, NEW m \in Pair
  PROVE  /\ Count(Received(c), m)' = Count(Received(c), m)
         /\ c = Next_(b) /\ m = <<b, msg[b]>> =>
              Count(Line(c), m)' = Count(Line(c), m) + 1
         /\ c # Next_(b) \/ m # <<b, msg[b]>> =>
              Count(Line(c), m)' = Count(Line(c), m)
<1>1. PICK n : n = Next_(b)
  OBVIOUS
<1>2. /\ n \in Board /\ Line(n)' = Append(Line(n), <<b, msg[b]>>)
      /\ \A d \in Board : d # n => Line(d)' = Line(d)
      /\ \A d \in Board : Received(d)' = Received(d)
  BY <1>1, SendFacts
<1>3. Count(Received(c), m)' = Count(Received(c), m)
  BY <1>2 DEF Count
<1>4. CASE c # n
  <2>1. Line(c)' = Line(c)
    BY <1>2, <1>4
  <2> QED
    BY <1>1, <1>3, <1>4, <2>1 DEF Count
<1>5. CASE c = n
  <2>1. Line(n) \in Seq(Pair) /\ <<b, msg[b]>> \in Pair
    BY <1>2, LineIs DEF Types, Pair
  <2>2. Count(Line(n), m)' = Count(Append(Line(n), <<b, msg[b]>>), m)
    BY <1>2 DEF Count
  <2>3. Count(Append(Line(n), <<b, msg[b]>>), m)
          = IF <<b, msg[b]>> = m THEN Count(Line(n), m) + 1 ELSE Count(Line(n), m)
    BY <2>1, CountAppend
  <2> QED
    BY <1>1, <1>3, <1>5, <2>2, <2>3
<1> QED
  BY <1>4, <1>5

LEMMA ForwardCounts ==
  ASSUME Types, NEW b \in Board, Forward(b), NEW n, n = Next_(b),
         NEW x, x = Message(Head(link[b])), NEW c \in Board, NEW m \in Pair
  PROVE  /\ Count(Received(c), m)' = IF c = b /\ m = x
                                     THEN Count(Received(c), m) + 1
                                     ELSE Count(Received(c), m)
         /\ Count(Line(c), m)' \in Nat
         /\ c = b /\ m = x => Count(Line(c), m) = Count(Line(c), m)' + 1
         /\ c = n /\ m = x => Count(Line(c), m)' <= Count(Line(c), m) + 1
         /\ m # x \/ (c # n /\ c # b) => Count(Line(c), m)' = Count(Line(c), m)
<1>1. PICK p : p = Head(link[b])
  OBVIOUS
<1>2. /\ n \in Board /\ n # b /\ p \in Packet /\ x = <<p.src, p.msg>>
      /\ Line(b) \in Seq(Pair) /\ Line(b) # <<>>
      /\ Head(Line(b)) = x /\ Line(b)' = Tail(Line(b))
      /\ \A d \in Board : d # n /\ d # b => Line(d)' = Line(d)
      /\ Received(b)' = Append(Received(b), x)
      /\ \A d \in Board : d # b => Received(d)' = Received(d)
  <2>1. x = <<p.src, p.msg>>
    BY <1>1 DEF Message
  <2>2. /\ n \in Board /\ n # b /\ p \in Packet
        /\ Line(b) \in Seq(Pair) /\ Line(b) # <<>>
        /\ Head(Line(b)) = <<p.src, p.msg>> /\ Line(b)' = Tail(Line(b))
        /\ \A d \in Board : d # n /\ d # b => Line(d)' = Line(d)
    BY <1>1, ForwardFacts
  <2>3. /\ Received(b)' = Append(Received(b), <<p.src, p.msg>>)
        /\ \A d \in Board : d # b => Received(d)' = Received(d)
    BY <1>1, ForwardFacts
  <2> QED
    BY <2>1, <2>2, <2>3
<1>3. Line(n)' = Line(n) \/ Line(n)' = Append(Line(n), x)
  <2>1. CASE p.ttl = 0
    BY <1>1, <2>1, ForwardFacts
  <2>2. CASE p.ttl # 0
    <3>1. Line(n)' = Append(Line(n), <<p.src, p.msg>>)
      BY <1>1, <2>2, ForwardFacts
    <3> QED
      BY <1>2, <3>1
  <2> QED
    BY <2>1, <2>2
<1>4. x \in Pair
  BY <1>2 DEF Packet, Pair
<1>5. Count(Line(c), m) \in Nat /\ Count(Received(c), m) \in Nat
  BY CopiesTypes
<1>6. Count(Received(c), m)' = IF c = b /\ m = x
                               THEN Count(Received(c), m) + 1
                               ELSE Count(Received(c), m)
  <2>1. CASE c = b
    <3>1. Received(b) \in Seq(Pair)
      BY ReceivedType DEF Types
    <3>2. Count(Received(b), m)' = Count(Append(Received(b), x), m)
      BY <1>2 DEF Count
    <3> QED
      BY <1>4, <2>1, <3>1, <3>2, CountAppend
  <2>2. CASE c # b
    <3>1. Received(c)' = Received(c)
      BY <1>2, <2>2
    <3> QED
      BY <2>2, <3>1 DEF Count
  <2> QED
    BY <2>1, <2>2
<1>7. CASE c = b
  <2>1. Count(Line(b), m)' = Count(Tail(Line(b)), m)
    BY <1>2 DEF Count
  <2>2. /\ Count(Tail(Line(b)), m) \in Nat
        /\ Count(Line(b), m) = IF x = m THEN Count(Tail(Line(b)), m) + 1
                                        ELSE Count(Tail(Line(b)), m)
    BY <1>2, CountTail
  <2> QED
    BY <1>2, <1>6, <1>7, <2>1, <2>2
<1>8. CASE c = n
  <2>1. CASE Line(n)' = Line(n)
    <3>1. Count(Line(n), m)' = Count(Line(n), m)
      BY <2>1 DEF Count
    <3> QED
      BY <1>2, <1>5, <1>6, <1>8, <3>1
  <2>2. CASE Line(n)' = Append(Line(n), x)
    <3>1. Count(Line(n), m)' = Count(Append(Line(n), x), m)
      BY <2>2 DEF Count
    <3>2. Line(n) \in Seq(Pair)
      BY <1>2, LineIs DEF Types
    <3>3. Count(Append(Line(n), x), m)
            = IF x = m THEN Count(Line(n), m) + 1 ELSE Count(Line(n), m)
      BY <1>4, <3>2, CountAppend
    <3>4. /\ m = x => Count(Line(c), m)' = Count(Line(c), m) + 1
          /\ m # x => Count(Line(c), m)' = Count(Line(c), m)
      BY <1>8, <3>1, <3>3
    <3> QED
      BY <1>2, <1>5, <1>6, <1>8, <3>4
  <2> QED
    BY <1>3, <2>1, <2>2
<1>9. CASE c # b /\ c # n
  <2>1. Line(c)' = Line(c)
    BY <1>2, <1>9
  <2>2. Count(Line(c), m)' = Count(Line(c), m)
    BY <2>1 DEF Count
  <2> QED
    BY <1>5, <1>6, <1>9, <2>2
<1> QED
  BY <1>7, <1>8, <1>9

LEMMA LeftKept ==
  ASSUME NEW s, NEW m, msg'[s] = msg[s], try'[s] = try[s],
         phase'[s] = "send" <=> phase[s] = "send"
  PROVE  Left(s, m)' = Left(s, m)
BY DEF Left

\* No step takes back a copy that has left.
LEMMA LeftGrows ==
  ASSUME Types, TriesInv, [Next]_vars, NEW s \in Board, NEW m \in Nat
  PROVE  Left(s, m) <= Left(s, m)'
<1>1. Left(s, m) \in Int
  BY LeftType
<1>2. CASE msg'[s] = msg[s] /\ try'[s] = try[s] /\ phase'[s] = phase[s]
  <2>1. Left(s, m)' = Left(s, m)
    BY <1>2, LeftKept
  <2> QED
    BY <1>1, <2>1
<1>3. /\ msg[s] \in Nat /\ try[s] \in Nat /\ MAX_RETRIES \in Nat \ {0}
      /\ try[s] <= MAX_RETRIES
  BY LimitsAssumption DEF Types, TriesInv
<1>4. ASSUME NEW b \in Board, NEW t \in Senders[b], Start(b, t)
      PROVE  Left(s, m) <= Left(s, m)'
  <2>1. CASE s = b
    <3>1. msg'[s] = msg[s] + 1 /\ try'[s] = 1 /\ phase'[s] = "send"
      BY <1>4, <2>1 DEF Start, Types
    <3> QED
      BY <1>3, <3>1, SMT DEF Left
  <2>2. CASE s # b
    BY <1>2, <1>4, <2>2 DEF Start, Types
  <2> QED
    BY <2>1, <2>2
<1>5. ASSUME NEW b \in Board, Sender(b) PROVE Left(s, m) <= Left(s, m)'
  <2>1. CASE s # b
    <3>1. msg'[s] = msg[s] /\ try'[s] = try[s] /\ phase'[s] = phase[s]
      BY <1>5, <2>1
      DEF Sender, Send, SendFails, Notified, Timeout, Clear, Types
    <3> QED
      BY <3>1, <1>2
  <2>2. CASE s = b /\ (Send(b) \/ SendFails(b) \/ Notified(b) \/ Timeout(b))
    <3>1. msg'[s] = msg[s] /\ try'[s] = try[s] /\ phase'[s] # "send"
      BY <2>2 DEF Send, SendFails, Notified, Timeout, Types
    <3> QED
      BY <1>3, <3>1, SMT DEF Left
  <2>3. CASE s = b /\ Clear(b)
    <3>1. /\ msg'[s] = msg[s] /\ phase[s] = "clear"
          /\ \/ phase'[s] = "idle" /\ try'[s] = try[s]
             \/ phase'[s] = "send" /\ try'[s] = try[s] + 1
      BY <2>3 DEF Clear, Types
    <3> QED
      BY <1>3, <3>1, SMT DEF Left
  <2> QED
    BY <1>5, <2>1, <2>2, <2>3 DEF Sender
<1>6. ASSUME NEW b \in Board, RingLink(b) \/ Sibling(b) \/ Lose(b)
      PROVE  Left(s, m) <= Left(s, m)'
  <2>1. UNCHANGED sending
    BY <1>6
    DEF RingLink, Forward, AckDropped, AckAccepted, Notify, Sibling, Take,
        Return, Lose
  <2> QED
    BY <2>1, <1>2 DEF sending
<1>7. CASE UNCHANGED vars
  BY <1>2, <1>7 DEF vars
<1> QED
  BY <1>4, <1>5, <1>6, <1>7 DEF Next

LEMMA TriesStep ==
  ASSUME Types, TriesInv, [Next]_vars
  PROVE  TriesInv'
<1> SUFFICES ASSUME NEW s \in Board
             PROVE  /\ try'[s] <= MAX_RETRIES
                    /\ phase'[s] # "idle" => /\ try'[s] >= 1 /\ msg'[s] >= 1
                                             /\ <<s, msg'[s]>> \notin reported'
                    /\ \A m \in Nat : <<s, m>> \in reported' => m <= msg'[s]
  BY Zenon DEF TriesInv
<1>1. /\ msg[s] \in Nat /\ try[s] \in Nat /\ MAX_RETRIES \in Nat \ {0}
      /\ try[s] <= MAX_RETRIES
      /\ phase[s] # "idle" =>
           try[s] >= 1 /\ msg[s] >= 1 /\ <<s, msg[s]>> \notin reported
      /\ \A m \in Nat : <<s, m>> \in reported => m <= msg[s]
  BY LimitsAssumption DEF Types, TriesInv
<1> DEFINE Goal == /\ try'[s] <= MAX_RETRIES
                   /\ phase'[s] # "idle" => /\ try'[s] >= 1 /\ msg'[s] >= 1
                                            /\ <<s, msg'[s]>> \notin reported'
                   /\ \A m \in Nat : <<s, m>> \in reported' => m <= msg'[s]
<1>2. CASE /\ msg'[s] = msg[s] /\ try'[s] = try[s]
           /\ phase'[s] # "idle" => phase[s] # "idle"
           /\ \A m : <<s, m>> \in reported' => <<s, m>> \in reported
  BY <1>1, <1>2
<1>3. ASSUME NEW b \in Board, NEW t \in Senders[b], Start(b, t) PROVE Goal
  <2>1. CASE s = b
    <3>1. /\ msg'[s] = msg[s] + 1 /\ try'[s] = 1 /\ reported' = reported
      BY <1>3, <2>1 DEF Start, Types
    <3> QED
      BY <1>1, <3>1
  <2>2. CASE s # b
    BY <1>2, <1>3, <2>2 DEF Start, Types
  <2> QED
    BY <2>1, <2>2
<1>4. ASSUME NEW b \in Board,
             Send(b) \/ SendFails(b) \/ Notified(b) \/ Timeout(b)
      PROVE  Goal
  BY <1>2, <1>4 DEF Send, SendFails, Notified, Timeout, Types
<1>5. ASSUME NEW b \in Board, Clear(b) PROVE Goal
  <2>1. CASE s # b
    <3>1. /\ msg'[s] = msg[s] /\ try'[s] = try[s] /\ phase'[s] = phase[s]
          /\ \A m : <<s, m>> \in reported' => <<s, m>> \in reported
      BY <1>5, <2>1 DEF Clear, Types
    <3> QED
      BY <3>1, <1>2
  <2>2. CASE s = b /\ result[b]
    <3>1. /\ msg'[s] = msg[s] /\ try'[s] = try[s] /\ phase'[s] = "idle"
          /\ reported' = reported \cup {<<s, msg[s]>>}
      BY <1>5, <2>2 DEF Clear, Types
    <3> QED
      BY <1>1, <3>1
  <2>3. CASE s = b /\ ~result[b] /\ LastTry(b)
    BY <1>2, <1>5, <2>3 DEF Clear, Types
  <2>4. CASE s = b /\ ~result[b] /\ ~LastTry(b)
    <3>1. /\ msg'[s] = msg[s] /\ try'[s] = try[s] + 1 /\ reported' = reported
          /\ phase[s] = "clear" /\ ~(try[s] >= MAX_RETRIES)
      BY <1>5, <2>4 DEF Clear, Types, LastTry
    <3> QED
      BY <1>1, <3>1
  <2> QED
    BY <2>1, <2>2, <2>3, <2>4
<1>6. ASSUME NEW b \in Board, RingLink(b) \/ Sibling(b) \/ Lose(b) PROVE Goal
  <2>1. UNCHANGED <<sending, reported>>
    BY <1>6
    DEF RingLink, Forward, AckDropped, AckAccepted, Notify, Sibling, Take,
        Return, Lose
  <2> QED
    BY <2>1, <1>2 DEF sending
<1>7. CASE UNCHANGED vars
  BY <1>2, <1>7 DEF vars
<1> QED
  BY <1>3, <1>4, <1>5, <1>6, <1>7 DEF Next, Sender

LEMMA NumbersStep ==
  ASSUME Types, TriesInv, NumbersInv, [Next]_vars
  PROVE  NumbersInv'
<1>1. CASE \A c \in Board : Line(c)' = Line(c)
  BY <1>1 DEF NumbersInv
<1>2. CASE link' = link
  BY <1>1, <1>2 DEF Line
<1>3. ASSUME NEW b \in Board, Send(b) PROVE NumbersInv'
  <2>1. PICK n : n = Next_(b)
    OBVIOUS
  <2>2. /\ n \in Board /\ Line(n)' = Append(Line(n), <<b, msg[b]>>)
        /\ \A c \in Board : c # n => Line(c)' = Line(c)
    BY <1>3, <2>1, SendFacts
  <2>3. msg[b] \in Nat /\ msg[b] >= 1
    BY <1>3 DEF Send, TriesInv, Types
  <2>4. Line(n) \in Seq(Pair)
    BY <2>2, LineIs DEF Types
  <2>5. ToSet(Line(n))' = ToSet(Line(n)) \cup {<<b, msg[b]>>}
    <3>1. ToSet(Append(Line(n), <<b, msg[b]>>))
            = ToSet(Line(n)) \cup {<<b, msg[b]>>}
      BY <2>3, <2>4, AppendLine
    <3>2. ToSet(Line(n))' = ToSet(Append(Line(n), <<b, msg[b]>>))
      BY <2>2 DEF ToSet
    <3> QED
      BY <3>1, <3>2
  <2>6. ASSUME NEW c \in Board, NEW m \in ToSet(Line(c))' PROVE m[2] >= 1
    <3>1. CASE c = n
      BY <2>3, <2>5, <2>6, <3>1 DEF NumbersInv
    <3>2. CASE c # n
      BY <2>2, <2>6, <3>2 DEF NumbersInv
    <3> QED
      BY <3>1, <3>2
  <2> QED
    BY <2>6 DEF NumbersInv
<1>4. ASSUME NEW b \in Board, Removes(b) PROVE NumbersInv'
  <2>1. /\ Line(b)' = Tail(Line(b)) /\ Line(b) \in Seq(Pair) /\ Line(b) # <<>>
        /\ \A c \in Board : c # b => Line(c)' = Line(c)
    BY <1>4, RemovesFacts
  <2>2. ToSet(Tail(Line(b))) \subseteq ToSet(Line(b))
    BY <2>1, TailLine
  <2>3. ToSet(Line(b))' \subseteq ToSet(Line(b))
    BY <2>1, <2>2
  <2>4. ASSUME NEW c \in Board, NEW m \in ToSet(Line(c))' PROVE m[2] >= 1
    BY <2>1, <2>3, <2>4 DEF NumbersInv
  <2> QED
    BY <2>4 DEF NumbersInv
<1>5. ASSUME NEW b \in Board, Forward(b) PROVE NumbersInv'
  <2>1. PICK n, p : n = Next_(b) /\ p = Head(link[b])
    OBVIOUS
  <2>2. /\ n \in Board /\ n # b /\ p \in Packet
        /\ Line(b) \in Seq(Pair) /\ Line(b) # <<>>
        /\ Head(Line(b)) = <<p.src, p.msg>> /\ Line(b)' = Tail(Line(b))
        /\ \A d \in Board : d # n /\ d # b => Line(d)' = Line(d)
    BY <1>5, <2>1, ForwardFacts
  <2>3. /\ ToSet(Line(b))' \subseteq ToSet(Line(b))
        /\ <<p.src, p.msg>> \in ToSet(Line(b))
    BY <2>2, TailLine
  <2>4. p.src \in Board /\ p.msg \in Nat /\ p.msg >= 1
    <3>1. p.src \in Board /\ p.msg \in Nat
      BY <2>2 DEF Packet
    <3>2. <<p.src, p.msg>>[2] >= 1
      BY <2>3, <1>5 DEF NumbersInv
    <3> QED
      BY <3>1, <3>2
  <2>5. ToSet(Line(n))' \subseteq ToSet(Line(n)) \cup {<<p.src, p.msg>>}
    <3>1. CASE p.ttl = 0
      <4>1. Line(n)' = Line(n)
        BY <1>5, <2>1, <3>1, ForwardFacts
      <4> QED
        BY <4>1
    <3>2. CASE p.ttl # 0
      <4>1. Line(n)' = Append(Line(n), <<p.src, p.msg>>)
        BY <1>5, <2>1, <3>2, ForwardFacts
      <4>2. Line(n) \in Seq(Pair)
        BY <2>2, LineIs DEF Types
      <4>3. ToSet(Append(Line(n), <<p.src, p.msg>>))
              = ToSet(Line(n)) \cup {<<p.src, p.msg>>}
        BY <2>4, <4>2, AppendLine
      <4>4. ToSet(Line(n))' = ToSet(Append(Line(n), <<p.src, p.msg>>))
        BY <4>1 DEF ToSet
      <4> QED
        BY <4>3, <4>4
    <3> QED
      BY <3>1, <3>2
  <2>6. ASSUME NEW c \in Board, NEW m \in ToSet(Line(c))' PROVE m[2] >= 1
    <3>1. CASE c = n
      BY <2>4, <2>5, <2>6, <3>1 DEF NumbersInv
    <3>2. CASE c = b
      BY <2>3, <2>6, <3>2 DEF NumbersInv
    <3>3. CASE c # n /\ c # b
      BY <2>2, <2>6, <3>3 DEF NumbersInv
    <3> QED
      BY <3>1, <3>2, <3>3
  <2> QED
    BY <2>6 DEF NumbersInv
<1>6. ASSUME NEW b \in Board, AckDropped(b) \/ AckAccepted(b) \/ Lose(b)
      PROVE  Removes(b)
  BY <1>6 DEF AckDropped, AckAccepted, Lose, Own, Removes, sibling, sending
<1>7. ASSUME NEW b \in Board,
             \/ \E t \in Senders[b] : Start(b, t)
             \/ SendFails(b) \/ Notified(b) \/ Timeout(b) \/ Clear(b)
             \/ Notify(b) \/ Sibling(b)
      PROVE  link' = link
  BY <1>7
  DEF Start, SendFails, Notified, Timeout, Clear, Notify, Sibling, Take, Return
<1>8. CASE UNCHANGED vars
  BY <1>2, <1>8 DEF vars
<1> QED
  BY <1>2, <1>3, <1>4, <1>5, <1>6, <1>7, <1>8 DEF Next, Sender, RingLink

LEMMA LeftGrowsTyped ==
  ASSUME Types, Types', TriesInv, [Next]_vars
  PROVE  \A s \in Board, m \in Nat :
           /\ Left(s, m) \in Int /\ Left(s, m)' \in Int
           /\ Left(s, m) <= Left(s, m)'
<1> SUFFICES ASSUME NEW s \in Board, NEW m \in Nat
             PROVE  /\ Left(s, m) \in Int /\ Left(s, m)' \in Int
                    /\ Left(s, m) <= Left(s, m)'
  OBVIOUS
<1>1. msg'[s] \in Nat /\ try'[s] \in Nat /\ MAX_RETRIES \in Nat
  BY LimitsAssumption DEF Types
<1>2. Left(s, m)' \in Int
  BY <1>1, SMT DEF Left
<1> QED
  BY <1>2, LeftType, LeftGrows

LEMMA CopiesStep ==
  ASSUME Types, Types', TriesInv, CopiesInv, [Next]_vars
  PROVE  CopiesInv'
<1>1. \A s \in Board, m \in Nat :
        /\ Left(s, m) \in Int /\ Left(s, m)' \in Int
        /\ Left(s, m) <= Left(s, m)'
  BY LeftGrowsTyped
<1>2. CASE \A c \in Board : Line(c)' = Line(c) /\ Received(c)' = Received(c)
  <2>1. ASSUME NEW c \in Board, NEW m \in Pair
        PROVE  /\ Count(Line(c), m)' \in Nat
               /\ Count(Line(c), m)' <= Count(Line(c), m)
    <3>1. Count(Line(c), m)' = Count(Line(c), m)
      BY <1>2 DEF Count
    <3> QED
      BY <3>1, CopiesTypes
  <2> QED
    BY <1>1, <1>2, <2>1, CopiesFrame
<1>3. ASSUME NEW b \in Board, Removes(b) PROVE CopiesInv'
  <2>1. \A c \in Board : Received(c)' = Received(c)
    BY <1>3, RemovesFacts
  <2> QED
    BY <1>1, <1>3, <2>1, RemovesCounts, CopiesFrame
<1>4. ASSUME NEW b \in Board, Send(b) PROVE CopiesInv'
  <2> SUFFICES ASSUME NEW s \in Board, NEW a \in Board, NEW m \in Nat,
                      Next_(a) # s
               PROVE  Coming(Next_(a), <<s, m>>)' <= Passed(a, s, m)'
    BY DEF CopiesInv
  <2>1. PICK c, x : c = Next_(a) /\ x = <<s, m>>
    OBVIOUS
  <2>2. c \in Board /\ x \in Pair
    BY <2>1, NextIs DEF Pair
  <2>3. /\ Count(Received(c), x) \in Nat /\ Count(Line(c), x) \in Nat
        /\ Count(Received(a), x) \in Nat
        /\ Count(Received(c), x)' = Count(Received(c), x)
        /\ Count(Received(a), x)' = Count(Received(a), x)
    BY <1>4, <2>2, CopiesTypes, SendCounts
  <2>4. Count(Received(c), x) + Count(Line(c), x) <= Passed(a, s, m)
    BY <2>1 DEF CopiesInv, Coming
  <2>5. CASE a = b /\ s = b /\ m = msg[b]
    <3>1. Count(Line(c), x)' = Count(Line(c), x) + 1
      BY <1>4, <2>1, <2>2, <2>5, SendCounts
    <3>2. Left(s, m)' = Left(s, m) + 1
      <4>1. /\ msg'[b] = msg[b] /\ try'[b] = try[b] /\ phase[b] = "send"
            /\ phase'[b] = "wait" /\ try[b] \in Nat /\ msg[b] \in Nat
        BY <1>4 DEF Send, Types
      <4> QED
        BY <2>5, <4>1, SMT DEF Left
    <3>3. Count(Received(c), x)' + Count(Line(c), x)' <= Passed(a, s, m)'
      BY <1>1, <2>3, <2>4, <2>5, <3>1, <3>2, SMT DEF Passed
    <3> QED
      BY <2>1, <3>3 DEF Coming
  <2>6. CASE ~(a = b /\ s = b /\ m = msg[b])
    <3>1. Count(Line(c), x)' = Count(Line(c), x)
      <4>1. c # Next_(b) \/ x # <<b, msg[b]>>
        BY <2>1, <2>6, NextIsInjective
      <4> QED
        BY <1>4, <2>2, <4>1, SendCounts
    <3>2. Passed(a, s, m) <= Passed(a, s, m)'
      BY <1>1, <2>1, <2>3 DEF Passed
    <3>3. Passed(a, s, m) \in Int /\ Passed(a, s, m)' \in Int
      BY <1>1, <2>1, <2>3 DEF Passed
    <3>4. Count(Received(c), x)' + Count(Line(c), x)' <= Passed(a, s, m)'
      BY <2>3, <2>4, <3>1, <3>2, <3>3, SMT
    <3> QED
      BY <2>1, <3>4 DEF Coming
  <2> QED
    BY <2>5, <2>6
<1>5. ASSUME NEW b \in Board, Forward(b) PROVE CopiesInv'
  <2> SUFFICES ASSUME NEW s \in Board, NEW a \in Board, NEW m \in Nat,
                      Next_(a) # s
               PROVE  Coming(Next_(a), <<s, m>>)' <= Passed(a, s, m)'
    BY DEF CopiesInv
  <2>1. PICK c, x, n, h : /\ c = Next_(a) /\ x = <<s, m>> /\ n = Next_(b)
                          /\ h = Message(Head(link[b]))
    OBVIOUS
  <2>2. /\ c \in Board /\ x \in Pair /\ n \in Board /\ n # b /\ c # a
        /\ c = n <=> a = b
    BY <2>1, NextIs, NextIsInjective DEF Pair
  <2>3. /\ Count(Received(c), x) \in Nat /\ Count(Line(c), x) \in Nat
        /\ Count(Received(a), x) \in Nat
    BY <2>2, CopiesTypes
  <2>4. Count(Received(c), x) + Count(Line(c), x) <= Passed(a, s, m)
    BY <2>1 DEF CopiesInv, Coming
  <2>5. /\ Count(Received(c), x)' = IF c = b /\ x = h
                                    THEN Count(Received(c), x) + 1
                                    ELSE Count(Received(c), x)
        /\ Count(Line(c), x)' \in Nat
        /\ c = b /\ x = h => Count(Line(c), x) = Count(Line(c), x)' + 1
        /\ c = n /\ x = h => Count(Line(c), x)' <= Count(Line(c), x) + 1
        /\ x # h \/ (c # n /\ c # b) => Count(Line(c), x)' = Count(Line(c), x)
    BY <1>5, <2>1, <2>2, ForwardCounts
  <2>6. Count(Received(a), x)' = IF a = b /\ x = h
                                 THEN Count(Received(a), x) + 1
                                 ELSE Count(Received(a), x)
    BY <1>5, <2>1, <2>2, ForwardCounts
  <2>7. Left(s, m)' = Left(s, m)
    BY <1>5, LeftKept DEF Forward, sending
  <2>8. x = h => s # b
    <3>1. PICK p : p = Head(link[b])
      OBVIOUS
    <3>2. p.src # b /\ h = <<p.src, p.msg>>
      BY <1>5, <2>1, <3>1 DEF Forward, Foreign, Head_, Message
    <3> QED
      BY <2>1, <3>2
  <2>9. Passed(a, s, m) = (IF a = s THEN Left(s, m) ELSE Count(Received(a), x))
    BY <2>1 DEF Passed
  <2>10. Passed(a, s, m)'
           = (IF a = s THEN Left(s, m)' ELSE Count(Received(a), x)')
    BY <2>1 DEF Passed
  <2>11. Count(Received(c), x)' + Count(Line(c), x)' <= Passed(a, s, m)'
    <3>1. CASE x # h
      BY <1>1, <2>3, <2>4, <2>5, <2>6, <2>7, <2>9, <2>10, <3>1, SMT
    <3>2. CASE x = h /\ c = b
      BY <1>1, <2>2, <2>3, <2>4, <2>5, <2>6, <2>7, <2>9, <2>10, <3>2, SMT
    <3>3. CASE x = h /\ c = n
      BY <1>1, <2>2, <2>3, <2>4, <2>5, <2>6, <2>7, <2>8, <2>9, <2>10, <3>3, SMT
    <3>4. CASE x = h /\ c # b /\ c # n
      BY <1>1, <2>2, <2>3, <2>4, <2>5, <2>6, <2>7, <2>9, <2>10, <3>4, SMT
    <3> QED
      BY <3>1, <3>2, <3>3, <3>4
  <2> QED
    BY <2>1, <2>11 DEF Coming
<1>6. ASSUME NEW b \in Board, AckDropped(b) \/ AckAccepted(b) \/ Lose(b)
      PROVE  Removes(b)
  BY <1>6 DEF AckDropped, AckAccepted, Lose, Own, Removes, sibling, sending
<1>7. ASSUME NEW b \in Board,
             \/ \E t \in Senders[b] : Start(b, t)
             \/ SendFails(b) \/ Notified(b) \/ Timeout(b) \/ Clear(b)
             \/ Notify(b) \/ Return(b)
      PROVE  CopiesInv'
  <2>1. UNCHANGED <<link, queue, took>>
    BY <1>7
    DEF Start, SendFails, Notified, Timeout, Clear, Notify, Return, sibling
  <2> QED
    BY <1>2, <2>1 DEF Line, Received
<1>8. ASSUME NEW b \in Board, Take(b) PROVE CopiesInv'
  <2>1. \A c \in Board : Received(c)' = Received(c)
    BY <1>8, TakeFacts
  <2>2. link' = link
    BY <1>8 DEF Take
  <2> QED
    BY <1>2, <2>1, <2>2 DEF Line
<1>9. CASE UNCHANGED vars
  BY <1>2, <1>9 DEF vars, Line, Received
<1> QED
  BY <1>3, <1>4, <1>5, <1>6, <1>7, <1>8, <1>9
  DEF Next, Sender, RingLink, Sibling

(* What the tries bound, board by board.                                   *)
AlongInv ==
  \A s, b \in Board, m \in Nat : s # b =>
    /\ Count(Received(b), <<s, m>>) <= Left(s, m)
    /\ \A c \in Board : c # s /\ Dist(s, b) < Dist(s, c) =>
         Count(Received(c), <<s, m>>) <= Count(Received(b), <<s, m>>)

\* Nothing arrives: the bound can only grow.
LEMMA AlongFrame ==
  ASSUME Types, AlongInv, \A c \in Board : Received(c)' = Received(c),
         \A s \in Board, m \in Nat :
           Left(s, m) \in Int /\ Left(s, m)' \in Int /\ Left(s, m) <= Left(s, m)'
  PROVE  AlongInv'
<1> SUFFICES ASSUME NEW s \in Board, NEW b \in Board, NEW m \in Nat, s # b
             PROVE  /\ Count(Received(b), <<s, m>>)' <= Left(s, m)'
                    /\ \A c \in Board : c # s /\ Dist(s, b) < Dist(s, c) =>
                         Count(Received(c), <<s, m>>)'
                           <= Count(Received(b), <<s, m>>)'
  BY Zenon DEF AlongInv, Dist
<1>1. <<s, m>> \in Pair
  BY DEF Pair
<1>2. \A c \in Board :
        /\ Count(Received(c), <<s, m>>)' = Count(Received(c), <<s, m>>)
        /\ Count(Received(c), <<s, m>>) \in Nat
  BY <1>1, CopiesTypes DEF Count
<1>3. /\ Count(Received(b), <<s, m>>) <= Left(s, m)
      /\ \A c \in Board : c # s /\ Dist(s, b) < Dist(s, c) =>
           Count(Received(c), <<s, m>>) <= Count(Received(b), <<s, m>>)
  BY Zenon DEF AlongInv
<1> QED
  BY <1>2, <1>3

\* A packet that is passed on: the board before has had more copies.
LEMMA ForwardAhead ==
  ASSUME Types, CopiesInv, NEW b \in Board, Forward(b),
         NEW s \in Board, NEW m \in Nat, Message(Head(link[b])) = <<s, m>>
  PROVE  /\ s # b /\ <<s, m>> \in ToSet(Line(b))
         /\ \E a \in Board : /\ Next_(a) = b
                            /\ Count(Received(b), <<s, m>>) < Passed(a, s, m)
<1>1. PICK n, p : n = Next_(b) /\ p = Head(link[b])
  OBVIOUS
<1>2. /\ p \in Packet /\ p.src # b /\ Line(b) \in Seq(Pair) /\ Line(b) # <<>>
      /\ Head(Line(b)) = <<p.src, p.msg>>
  BY <1>1, ForwardFacts
<1>3. <<p.src, p.msg>> = <<s, m>> /\ s = p.src
  <2>1. Message(p) = <<s, m>>
    BY <1>1
  <2> QED
    BY <2>1 DEF Message
<1>4. <<s, m>> \in Pair /\ <<s, m>> \in ToSet(Line(b))
  <2>1. Head(Line(b)) \in ToSet(Line(b))
    BY <1>2, TailLine
  <2> QED
    BY <1>2, <1>3, <2>1 DEF Pair
<1>5. PICK a \in Board : b = (a % N) + 1
  <2>1. CASE b = 1
    <3>1. N \in Board /\ N % N = 0
      BY RingAssumption, SMT DEF Board
    <3> QED
      BY <2>1, <3>1
  <2>2. CASE b # 1
    <3>1. b - 1 \in Board /\ b - 1 \in 1 .. N - 1
      BY <2>2, RingAssumption DEF Board
    <3>2. (b - 1) % N = b - 1
      BY <3>1, RingAssumption, SMT
    <3>3. b = ((b - 1) % N) + 1
      BY <3>1, <3>2 DEF Board
    <3> QED
      BY <3>1, <3>3
  <2> QED
    BY <2>1, <2>2
<1>6. Next_(a) = b
  BY <1>5 DEF Next_
<1>7. Count(Received(b), <<s, m>>) + Count(Line(b), <<s, m>>) <= Passed(a, s, m)
  BY <1>2, <1>3, <1>6 DEF CopiesInv, Coming
<1>8. /\ Count(Received(b), <<s, m>>) \in Nat
      /\ Count(Tail(Line(b)), <<s, m>>) \in Nat
      /\ Count(Line(b), <<s, m>>) = Count(Tail(Line(b)), <<s, m>>) + 1
  BY <1>2, <1>3, <1>4, CountTail, CopiesTypes
<1>9. Passed(a, s, m) \in Int
  BY <1>4, LeftType, CopiesTypes DEF Passed
<1>10. Count(Received(b), <<s, m>>) < Passed(a, s, m)
  BY <1>7, <1>8, <1>9, SMT
<1> QED
  BY <1>2, <1>3, <1>4, <1>6, <1>10

LEMMA AlongForward ==
  ASSUME Types, CopiesInv, AlongInv, NEW b \in Board, Forward(b)
  PROVE  AlongInv'
<1>1. PICK n, h : n = Next_(b) /\ h = Message(Head(link[b]))
  OBVIOUS
<1>2. PICK s \in Board, m \in Nat : h = <<s, m>> /\ s # b
  <2>1. PICK p : p = Head(link[b])
    OBVIOUS
  <2>2. p \in Packet /\ p.src # b
    BY <1>1, <2>1, ForwardFacts
  <2>3. h = <<p.src, p.msg>>
    BY <1>1, <2>1 DEF Message
  <2> QED
    BY <2>2, <2>3 DEF Packet
<1>3. h \in Pair
  BY <1>2 DEF Pair
<1>4. \A c \in Board, t \in Board, k \in Nat :
        /\ Count(Received(c), <<t, k>>) \in Nat
        /\ Count(Received(c), <<t, k>>)' = IF c = b /\ <<t, k>> = h
                                           THEN Count(Received(c), <<t, k>>) + 1
                                           ELSE Count(Received(c), <<t, k>>)
        /\ Left(t, k)' = Left(t, k) /\ Left(t, k) \in Int
  <2> SUFFICES ASSUME NEW c \in Board, NEW t \in Board, NEW k \in Nat
               PROVE  /\ Count(Received(c), <<t, k>>) \in Nat
                      /\ Count(Received(c), <<t, k>>)' =
                           IF c = b /\ <<t, k>> = h
                           THEN Count(Received(c), <<t, k>>) + 1
                           ELSE Count(Received(c), <<t, k>>)
                      /\ Left(t, k)' = Left(t, k) /\ Left(t, k) \in Int
    BY Zenon
  <2>1. <<t, k>> \in Pair
    BY DEF Pair
  <2>2. Left(t, k)' = Left(t, k)
    BY LeftKept DEF Forward, sending
  <2>3. Count(Received(c), <<t, k>>)' =
          IF c = b /\ <<t, k>> = h THEN Count(Received(c), <<t, k>>) + 1
                                   ELSE Count(Received(c), <<t, k>>)
    BY <1>1, <2>1, ForwardCounts
  <2> QED
    BY <2>1, <2>2, <2>3, CopiesTypes, LeftType
\* The board before b has had more copies.
<1>5. PICK a \in Board : /\ Next_(a) = b
                         /\ Count(Received(b), h) < Passed(a, s, m)
  BY <1>1, <1>2, ForwardAhead
<1> SUFFICES ASSUME NEW t \in Board, NEW d \in Board, NEW k \in Nat, t # d
             PROVE  /\ Count(Received(d), <<t, k>>)' <= Left(t, k)'
                    /\ \A c \in Board : c # t /\ Dist(t, d) < Dist(t, c) =>
                         Count(Received(c), <<t, k>>)'
                           <= Count(Received(d), <<t, k>>)'
  BY Zenon DEF AlongInv, Dist
<1>6. /\ Count(Received(d), <<t, k>>) <= Left(t, k)
      /\ \A c \in Board : c # t /\ Dist(t, d) < Dist(t, c) =>
           Count(Received(c), <<t, k>>) <= Count(Received(d), <<t, k>>)
  BY DEF AlongInv
<1>7. CASE <<t, k>> # h
  BY <1>4, <1>6, <1>7
<1>8. CASE <<t, k>> = h
  <2>1. t = s /\ k = m
    BY <1>2, <1>8
  <2>2. a # s => Count(Received(b), h) + 1 <= Count(Received(a), h)
    BY <1>2, <1>4, <1>5 DEF Passed
  <2>3. a = s => Count(Received(b), h) + 1 <= Left(s, m)
    BY <1>2, <1>4, <1>5 DEF Passed
  <2>4. a # s => Count(Received(a), h) <= Left(s, m)
    BY <1>2 DEF AlongInv
  <2>5. Count(Received(d), <<t, k>>)' <= Left(t, k)'
    <3>1. CASE d = b
      <4>1. Count(Received(b), h) + 1 <= Left(s, m)
        BY <1>2, <1>4, <2>2, <2>3, <2>4
      <4> QED
        BY <1>4, <1>8, <2>1, <3>1, <4>1
    <3>2. CASE d # b
      BY <1>4, <1>6, <3>2
    <3> QED
      BY <3>1, <3>2
  <2>6. ASSUME NEW c \in Board, c # t, Dist(t, d) < Dist(t, c)
        PROVE  Count(Received(c), <<t, k>>)' <= Count(Received(d), <<t, k>>)'
    <3>1. Dist(t, d) \in Nat /\ Dist(t, c) \in Nat /\ Dist(t, d) >= 1
      BY DistIs
    <3>2. Count(Received(c), <<t, k>>) <= Count(Received(d), <<t, k>>)
      BY <1>6, <2>6
    <3>3. CASE c # b
      BY <1>4, <3>2, <3>3
    <3>4. CASE c = b
      <4>1. a # s
        <5>1. a = s => Dist(s, b) = 1
          BY <1>5, DistIs
        <5> QED
          BY <2>1, <2>6, <3>1, <3>4, <5>1
      <4>2. Dist(s, b) = Dist(s, a) + 1 /\ Dist(s, a) \in Nat
        BY <1>5, <4>1, DistIs
      <4>3. Count(Received(a), h) <= Count(Received(d), h)
        <5>1. CASE d = a
          BY <1>2, <1>4, <5>1
        <5>2. CASE d # a
          <6>1. Dist(s, d) # Dist(s, a)
            BY <5>2, DistIsOne
          <6>2. Dist(s, d) < Dist(s, a)
            BY <2>1, <2>6, <3>1, <3>4, <4>2, <6>1
          <6> QED
            BY <1>6, <1>8, <2>1, <4>1, <6>2
        <5> QED
          BY <5>1, <5>2
      <4>4. d # b
        BY <2>6, <3>1, <3>4
      <4> QED
        BY <1>2, <1>4, <1>8, <2>1, <2>2, <3>4, <4>1, <4>3, <4>4
    <3> QED
      BY <3>3, <3>4
  <2> QED
    BY <2>5, <2>6
<1> QED
  BY <1>7, <1>8

LEMMA AlongStep ==
  ASSUME Types, Types', TriesInv, CopiesInv, AlongInv, [Next]_vars
  PROVE  AlongInv'
<1>1. \A s \in Board, m \in Nat :
        /\ Left(s, m) \in Int /\ Left(s, m)' \in Int
        /\ Left(s, m) <= Left(s, m)'
  BY LeftGrowsTyped
<1>2. CASE \A c \in Board : Received(c)' = Received(c)
  BY <1>1, <1>2, AlongFrame
<1>3. ASSUME NEW b \in Board,
             \/ \E t \in Senders[b] : Start(b, t)
             \/ Sender(b) \/ AckDropped(b) \/ AckAccepted(b) \/ Notify(b)
             \/ Lose(b) \/ Return(b)
      PROVE  AlongInv'
  <2>1. UNCHANGED <<queue, took>>
    BY <1>3
    DEF Start, Sender, Send, SendFails, Notified, Timeout, Clear, AckDropped,
        AckAccepted, Notify, Lose, Return, sibling
  <2> QED
    BY <1>2, <2>1 DEF Received
<1>4. ASSUME NEW b \in Board, Take(b) PROVE AlongInv'
  BY <1>2, <1>4, TakeFacts
<1>5. CASE UNCHANGED vars
  BY <1>2, <1>5 DEF vars, Received
<1> QED
  BY <1>3, <1>4, <1>5, AlongForward DEF Next, RingLink, Sibling

\* The instance has its own name for the library's operator.
LEMMA SiblingCardinality == \A S : Siblings!Cardinality(S) = Cardinality(S)
BY DEF Siblings!Cardinality, Cardinality

\* A copy count of siblings.h is the count of what a board received.
LEMMA SiblingCopies ==
  ASSUME NEW b \in Board, NEW m
  PROVE  Siblings!Copies(b, m) = Count(Received(b), m)
<1>1. [c \in Board |-> Received(c)][b] = Received(b)
  OBVIOUS
<1>2. Siblings!Copies(b, m)
        = Siblings!Cardinality({i \in 1 .. Len(Received(b)) : Received(b)[i] = m})
  BY <1>1, Zenon DEF Siblings!Copies
<1> QED
  BY <1>2, SiblingCardinality DEF Count

\* A packet that is passed on is a copy that arrives: the board before has
\* had more of them, and nothing newer of the same source has been got.
LEMMA ForwardIsArrival ==
  ASSUME Types, OrderInv, CopiesInv, TriesInv, NumbersInv,
         NEW b \in Board, Forward(b)
  PROVE  Siblings!Next
<1>1. PICK n, p : n = Next_(b) /\ p = Head(link[b])
  OBVIOUS
<1> DEFINE s == p.src
           k == p.msg
           h == <<s, k>>
<1>2. /\ p \in Packet /\ h = Message(Head(link[b]))
      /\ Received(b)' = Append(Received(b), h)
  <2>1. p \in Packet /\ Received(b)' = Append(Received(b), h)
    BY <1>1, ForwardFacts
  <2> QED
    BY <1>1, <2>1 DEF Message
<1>3. \A c \in Board : c # b => Received(c)' = Received(c)
  BY <1>1, ForwardFacts
<1>4. s \in Board /\ k \in Nat /\ h \in Pair
  BY <1>2 DEF Packet, Pair
<1> HIDE DEF s, k
<1>5. PICK a \in Board : Next_(a) = b /\ Count(Received(b), h) < Passed(a, s, k)
  BY <1>2, <1>4, ForwardAhead
<1>6. s # b /\ h \in ToSet(Line(b))
  BY <1>2, <1>4, ForwardAhead
<1>7. b = (a % N) + 1
  BY <1>5 DEF Next_
<1>8. k \in 1 .. msg[s]
  <2>1. k <= msg[s]
    BY <1>4, <1>6 DEF OrderInv, NothingNewer
  <2>2. h[2] >= 1
    BY <1>6 DEF NumbersInv
  <2>3. msg[s] \in Nat
    BY <1>4 DEF Types
  <2> QED
    BY <1>4, <2>1, <2>2, <2>3
<1>9. Siblings!Copies(b, h)
        < IF a = s THEN Siblings!Made(s, h) ELSE Siblings!Copies(a, h)
  <2>1. CASE a = s
    <3>1. Left(s, k) <= Siblings!Made(s, h) /\ Siblings!Made(s, h) \in Int
      <4>1. /\ h = Siblings!Last(s) <=> k = msg[s]
        BY <1>4 DEF Siblings!Last
      <4>2. /\ msg[s] \in Nat /\ try[s] \in Nat /\ MAX_RETRIES \in Nat
            /\ k <= msg[s]
        BY <1>4, <1>8, LimitsAssumption DEF Types
      <4> QED
        BY <1>4, <4>1, <4>2, SMT DEF Left, Siblings!Made
    <3>2. Left(s, k) \in Int /\ Count(Received(b), h) \in Nat
      BY <1>4, LeftType, CopiesTypes
    <3>3. Count(Received(b), h) < Left(s, k)
      BY <1>5, <2>1 DEF Passed
    <3>4. Count(Received(b), h) < Siblings!Made(s, h)
      BY <3>1, <3>2, <3>3, SMT
    <3> QED
      BY <2>1, <3>4, SiblingCopies
  <2>2. CASE a # s
    BY <1>5, <2>2, SiblingCopies DEF Passed
  <2> QED
    BY <2>1, <2>2
<1>10. ASSUME NEW i \in 1 .. Len(Received(b)), Received(b)[i][1] = s
       PROVE  Received(b)[i][2] <= h[2]
  <2>1. Received(b) \in Seq(Pair)
    BY ReceivedType DEF Types
  <2>2. /\ Received(b)[i] \in Pair /\ DOMAIN Received(b) = 1 .. Len(Received(b))
    BY <2>1, ElementOfSeq, LenProperties
  <2>3. PICK y \in Nat : Received(b)[i] = <<s, y>>
    BY <2>2, <1>10 DEF Pair
  <2>4. <<s, y>> \in ToSet(Received(b))
    BY <2>2, <2>3 DEF ToSet
  <2>5. Dist(s, b) <= Dist(s, b)
    BY <1>4, DistIs
  <2>6. y <= k
    BY <1>4, <1>6, <2>4, <2>5 DEF OrderInv, GotEarlier
  <2> QED
    BY <2>3, <2>6
<1>11. [c \in Board |-> Received(c)]'
         = [[c \in Board |-> Received(c)] EXCEPT ![b] = Append(@, h)]
  BY <1>2, <1>3
<1>12. UNCHANGED <<msg, try, reported, late>>
  BY DEF Forward, sending
<1>13. Siblings!Arrive(b, s, h)
  <2>1. \A i \in 1 .. Len([c \in Board |-> Received(c)][b]) :
          [c \in Board |-> Received(c)][b][i][1] = s
            => [c \in Board |-> Received(c)][b][i][2] <= h[2]
    BY <1>10
  <2>2. \E x \in Siblings!Board :
          /\ b = (x % N) + 1
          /\ Siblings!Copies(b, h)
               < IF x = s THEN Siblings!Made(s, h) ELSE Siblings!Copies(x, h)
    BY <1>7, <1>9 DEF Siblings!Board, Board
  <2>3. s # b
    BY <1>6
  <2> QED
    BY <1>11, <1>12, <2>1, <2>2, <2>3, Zenon
    DEF Siblings!Arrive, Siblings!Board, Board
<1> QED
  BY <1>4, <1>8, <1>13 DEF Siblings!Next, Siblings!Board, Board

LEMMA SiblingsStep ==
  ASSUME BroadcastInv, CopiesInv, TriesInv, NumbersInv, [Next]_vars
  PROVE  [Siblings!Next]_(Siblings!vars)
<1> USE DEF Siblings!Board
<1>1. CASE /\ UNCHANGED <<msg, try, reported, late>>
           /\ \A b \in Board : Received(b)' = Received(b)
  <2>1. [b \in Board |-> Received(b)]' = [b \in Board |-> Received(b)]
    BY <1>1
  <2> QED
    BY <1>1, <2>1 DEF Siblings!vars, Board
<1>2. ASSUME NEW b \in Board, NEW t \in Senders[b], Start(b, t)
      PROVE  Siblings!Next
  <2>1. [c \in Board |-> Received(c)]' = [c \in Board |-> Received(c)]
    BY <1>2 DEF Start, sibling, Received
  <2>2. Siblings!Broadcast(b)
    BY <1>2, <2>1 DEF Start, Siblings!Broadcast, Board
  <2> QED
    BY <2>2 DEF Siblings!Next, Board
<1>3. ASSUME NEW b \in Board, Timeout(b) PROVE Siblings!Next
  <2>1. [c \in Board |-> Received(c)]' = [c \in Board |-> Received(c)]
    BY <1>3 DEF Timeout, sibling, Received
  <2>2. Siblings!WaitInVain(b)
    BY <1>3, <2>1 DEF Timeout, Siblings!WaitInVain, Board
  <2> QED
    BY <2>2 DEF Siblings!Next, Board
<1>4. ASSUME NEW b \in Board, Clear(b)
      PROVE  [Siblings!Next]_(Siblings!vars)
  <2>1. \A c \in Board : Received(c)' = Received(c)
    BY <1>4 DEF Clear, sibling, Received
  <2>2. [c \in Board |-> Received(c)]' = [c \in Board |-> Received(c)]
    BY <2>1
  <2>3. CASE result[b]
    <3>1. ASSUME b \notin late, NEW c \in Board \ {b}
          PROVE  Siblings!Copies(c, Siblings!Last(b)) = 1
      <4>1. Got(b, c) = 1
        BY <1>4, <2>3, <3>1 DEF Clear, BroadcastInv, TryInv, Try, Phases
      <4>2. Siblings!Copies(c, Siblings!Last(b)) = Got(b, c)
        BY SiblingCopies, TimesIs DEF Siblings!Last, Got
      <4> QED
        BY <4>1, <4>2
    <3>2. /\ UNCHANGED <<msg, try, late>>
          /\ reported' = reported \cup {Siblings!Last(b)}
      BY <1>4, <2>3 DEF Clear, Siblings!Last
    <3>3. Siblings!Succeed(b)
      BY <2>2, <3>1, <3>2 DEF Siblings!Succeed, Board
    <3> QED
      BY <3>3 DEF Siblings!Next, Board
  <2>4. CASE ~result[b] /\ LastTry(b)
    BY <1>1, <1>4, <2>1, <2>4 DEF Clear
  <2>5. CASE ~result[b] /\ ~LastTry(b)
    <3>1. /\ UNCHANGED <<msg, late, reported>>
          /\ try' = [try EXCEPT ![b] = @ + 1] /\ phase[b] = "clear"
      BY <1>4, <2>5 DEF Clear
    <3>2. try[b] < MAX_RETRIES
      <4>1. try[b] \in Nat /\ MAX_RETRIES \in Nat
        BY LimitsAssumption DEF BroadcastInv, Types
      <4> QED
        BY <2>5, <4>1 DEF LastTry
    <3>3. Siblings!Last(b) \notin reported
      BY <3>1 DEF TriesInv, Siblings!Last
    <3>4. Siblings!Retry(b)
      BY <2>2, <3>1, <3>2, <3>3 DEF Siblings!Retry, Board
    <3> QED
      BY <3>4 DEF Siblings!Next, Board
  <2> QED
    BY <2>3, <2>4, <2>5
<1>5. ASSUME NEW b \in Board, Forward(b) PROVE Siblings!Next
  BY <1>5, ForwardIsArrival DEF BroadcastInv
<1>6. ASSUME NEW b \in Board,
             \/ Send(b) \/ SendFails(b) \/ Notified(b)
             \/ AckDropped(b) \/ AckAccepted(b) \/ Notify(b) \/ Lose(b)
             \/ Return(b)
      PROVE  [Siblings!Next]_(Siblings!vars)
  <2>1. UNCHANGED <<msg, try, reported, late, queue, took>>
    BY <1>6
    DEF Send, SendFails, Notified, AckDropped, AckAccepted, Notify, Lose,
        Return, sibling, sending
  <2> QED
    BY <1>1, <2>1 DEF Received
<1>7. ASSUME NEW b \in Board, Take(b)
      PROVE  [Siblings!Next]_(Siblings!vars)
  <2>1. UNCHANGED <<msg, try, reported, late>>
    BY <1>7 DEF Take, sending
  <2>2. \A c \in Board : Received(c)' = Received(c)
    BY <1>7, TakeFacts DEF BroadcastInv
  <2> QED
    BY <1>1, <2>1, <2>2
<1>8. CASE UNCHANGED vars
  BY <1>1, <1>8 DEF vars, Received
<1> QED
  BY <1>2, <1>3, <1>4, <1>5, <1>6, <1>7, <1>8
  DEF Next, Sender, RingLink, Sibling

\* The invariant of copies and tries.
CopyInv == BroadcastInv /\ CopiesInv /\ TriesInv /\ NumbersInv /\ AlongInv

LEMMA CopyInvInit == Init => CopyInv
<1> SUFFICES ASSUME Init PROVE CopyInv
  OBVIOUS
<1>1. BroadcastInv
  BY BroadcastInvInit
<1>2. \A b \in Board : Line(b) = <<>> /\ Received(b) = <<>>
  <2>1. \A b \in Board : Line(b) \in Seq(Pair) /\ Len(Line(b)) = 0
    <3>1. \A b \in Board : link[b] = <<>> /\ Len(link[b]) = 0
      <4>1. Len(<<>>) = 0
        BY SMT
      <4> QED
        BY <4>1 DEF Init
    <3> QED
      BY <1>1, <3>1, LineIs DEF BroadcastInv, Types
  <2>2. <<>> \o <<>> = <<>>
    BY SMT
  <2> QED
    BY <2>1, <2>2, EmptySeq DEF Init, Received
<1>3. \A m \in Pair : Count(<<>>, m) = 0
  <2>1. <<>> \in Seq(Pair) /\ ToSet(<<>>) = {}
    BY EmptySeq DEF ToSet
  <2> QED
    BY <2>1, CountZero
<1>4. NumbersInv
  BY <1>2 DEF NumbersInv, ToSet
<1>5. TriesInv
  BY LimitsAssumption DEF Init, TriesInv
<1>6. CopiesInv
  <2> SUFFICES ASSUME NEW s \in Board, NEW a \in Board, NEW m \in Nat
               PROVE  Coming(Next_(a), <<s, m>>) <= Passed(a, s, m)
    BY DEF CopiesInv
  <2>1. PICK c : c = Next_(a)
    OBVIOUS
  <2>2. c \in Board /\ <<s, m>> \in Pair
    BY <2>1, NextIs DEF Pair
  <2>3. Coming(c, <<s, m>>) = 0 /\ Count(Received(a), <<s, m>>) = 0
    BY <1>2, <1>3, <2>2 DEF Coming
  <2>4. Left(s, m) >= 0
    BY LimitsAssumption, SMT DEF Init, Left
  <2> QED
    BY <2>1, <2>3, <2>4 DEF Passed
<1>7. AlongInv
  <2> SUFFICES ASSUME NEW s \in Board, NEW b \in Board, NEW m \in Nat
               PROVE  /\ Count(Received(b), <<s, m>>) <= Left(s, m)
                      /\ \A c \in Board : Count(Received(c), <<s, m>>)
                                           <= Count(Received(b), <<s, m>>)
    BY Zenon DEF AlongInv
  <2>1. <<s, m>> \in Pair
    BY DEF Pair
  <2>2. \A c \in Board : Count(Received(c), <<s, m>>) = 0
    BY <1>2, <1>3, <2>1
  <2>3. Left(s, m) >= 0
    BY LimitsAssumption, SMT DEF Init, Left
  <2> QED
    BY <2>2, <2>3
<1> QED
  BY <1>1, <1>4, <1>5, <1>6, <1>7 DEF CopyInv

LEMMA CopyInvariant == Spec => []CopyInv
<1>1. CopyInv /\ [Next]_vars => CopyInv'
  <2> SUFFICES ASSUME CopyInv, [Next]_vars PROVE CopyInv'
    OBVIOUS
  <2>1. BroadcastInv'
    BY BroadcastInvStep DEF CopyInv
  <2>2. TriesInv' /\ NumbersInv'
    BY TriesStep, NumbersStep DEF CopyInv, BroadcastInv
  <2>3. CopiesInv'
    BY <2>1, CopiesStep DEF CopyInv, BroadcastInv
  <2>4. AlongInv'
    BY <2>1, AlongStep DEF CopyInv, BroadcastInv
  <2> QED
    BY <2>1, <2>2, <2>3, <2>4 DEF CopyInv
<1> QED
  BY <1>1, CopyInvInit, PTL DEF Spec

(* However many copies the retries of node_broadcast_to_siblings make and   *)
(* wherever they are lost, no board gets more of them than there were tries *)
(* nor than a board nearer to the sender.                                   *)
THEOREM CopiesAlongRingHolds == Spec => []CopiesAlongRing
<1>1. CopyInv => CopiesAlongRing
  <2> SUFFICES ASSUME CopyInv, NEW s \in Board, NEW b \in Board \ {s},
                      NEW m \in 1 .. msg[s]
               PROVE  /\ Times(b, <<s, m>>)
                           <= IF m = msg[s] THEN try[s] ELSE MAX_RETRIES
                      /\ \A c \in Board \ {s} : Dist(s, b) < Dist(s, c) =>
                           Times(c, <<s, m>>) <= Times(b, <<s, m>>)
    BY Zenon DEF CopiesAlongRing
  <2>1. /\ msg[s] \in Nat /\ try[s] \in Nat /\ MAX_RETRIES \in Nat
        /\ m \in Nat /\ m <= msg[s]
    BY LimitsAssumption DEF CopyInv, BroadcastInv, Types
  <2>2. /\ Count(Received(b), <<s, m>>) <= Left(s, m)
        /\ \A c \in Board : c # s /\ Dist(s, b) < Dist(s, c) =>
             Count(Received(c), <<s, m>>) <= Count(Received(b), <<s, m>>)
    BY <2>1 DEF CopyInv, AlongInv
  <2>3. Left(s, m) <= IF m = msg[s] THEN try[s] ELSE MAX_RETRIES
    BY <2>1, SMT DEF Left
  <2>4. Count(Received(b), <<s, m>>) \in Nat /\ Left(s, m) \in Int
    BY <2>1, CopiesTypes, LeftType DEF CopyInv, BroadcastInv, Pair
  <2>5. Count(Received(b), <<s, m>>)
          <= IF m = msg[s] THEN try[s] ELSE MAX_RETRIES
    BY <2>1, <2>2, <2>3, <2>4, SMT
  <2> QED
    BY <2>2, <2>5, TimesIs
<1> QED
  BY <1>1, CopyInvariant, PTL

(* The ring with its retries, losses and late acknowledgements implements  *)
(* the broadcast of siblings.h: a copy for each try at most, from board to *)
(* board, in order, and a success that means delivery until a timeout.     *)
THEOREM ImplementsSiblingsHolds == Spec => ImplementsSiblings
<1>1. Init => Siblings!Init
  <2> SUFFICES ASSUME Init PROVE Siblings!Init
    OBVIOUS
  <2>1. \A b \in Board : Received(b) = <<>>
    <3>1. <<>> \o <<>> = <<>>
      BY SMT
    <3> QED
      BY <3>1 DEF Init, Received
  <2>2. [b \in Board |-> Received(b)] = [b \in Board |-> <<>>]
    BY <2>1
  <2> QED
    BY <2>2 DEF Init, Siblings!Init, Siblings!Board, Board
<1>2. CopyInv /\ [Next]_vars => [Siblings!Next]_(Siblings!vars)
  BY SiblingsStep DEF CopyInv
<1> QED
  BY <1>1, <1>2, CopyInvariant, PTL DEF Spec, ImplementsSiblings, Siblings!Spec

----------------------------------------------------------------------------
(* The buffers of the receive path.                                        *)

Payload == [kind : Kinds, seq : Nat]

PoolTypes ==
  /\ free_buf_queue \in Seq(Buffers) /\ spi_rx_queue \in Seq(Buffers)
  /\ internal_queue \in Seq(Buffers) /\ netif_queue \in Seq(Buffers)
  /\ spi \in Buffers \cup {NoBuffer} /\ process \in Buffers \cup {NoBuffer}
  /\ internal \in Buffers \cup {NoBuffer} /\ netif \in Buffers \cup {NoBuffer}
  /\ payload \in [Buffers -> Payload]
  /\ received \in Nat
  /\ handled \in Seq(Payload)

LEMMA PoolIsFinite == NUM_BUFFERS \in Nat
BY BuffersAssumption, FS_CardinalityType DEF NUM_BUFFERS

LEMMA PoolTypesInit == PoolInit => PoolTypes
<1> SUFFICES ASSUME PoolInit PROVE PoolTypes
  OBVIOUS
<1>1. SetToSeq(Buffers) \in [1 .. Cardinality(Buffers) -> Buffers]
  <2>1. \E f \in [1 .. Cardinality(Buffers) -> Buffers] : IsInjective(f)
    <3>1. PICK f \in Bijection(1 .. Cardinality(Buffers), Buffers) : TRUE
      BY BuffersAssumption, FS_CardinalityType DEF ExistsBijection
    <3> QED
      BY <3>1 DEF Bijection, Injection, IsInjective
  <2> QED
    BY <2>1 DEF SetToSeq
<1>2. SetToSeq(Buffers) \in Seq(Buffers)
  BY <1>1, PoolIsFinite, SeqDef DEF NUM_BUFFERS
<1>3. payload \in [Buffers -> Payload]
  BY SMT DEF PoolInit, Payload, Kinds
<1> QED
  BY <1>2, <1>3, EmptySeq DEF PoolInit, PoolTypes

\* A task takes the first buffer of a queue.
LEMMA TakeFirst ==
  ASSUME NEW q \in Seq(Buffers), q # <<>>
  PROVE  /\ Head(q) \in Buffers /\ Head(q) # NoBuffer
         /\ Tail(q) \in Seq(Buffers) /\ Len(q) = Len(Tail(q)) + 1
         /\ <<Head(q)>> \o Tail(q) = q
<1>1. Head(q) \in Buffers /\ Tail(q) \in Seq(Buffers) /\ Len(Tail(q)) = Len(q) - 1
      /\ Len(q) \in Nat /\ Len(q) > 0
  BY HeadTailProperties, SMT
<1>2. <<Head(q)>> \o Tail(q) = q
  BY SMT
<1> QED
  BY <1>1, <1>2, BuffersAssumption, SMT

LEMMA PoolTypesStep == PoolTypes /\ [PoolNext]_poolvars => PoolTypes'
<1> SUFFICES ASSUME PoolTypes, [PoolNext]_poolvars PROVE PoolTypes'
  OBVIOUS
<1> USE DEF PoolTypes
<1>a. ASSUME NEW q \in Seq(Buffers), NEW b \in Buffers
      PROVE  Append(q, b) \in Seq(Buffers)
  BY AppendProperties
<1>f. ASSUME NEW b \in Buffers, FreeRxBuffer(b)
      PROVE  free_buf_queue' \in Seq(Buffers)
  BY <1>a, <1>f DEF FreeRxBuffer
<1>h. ASSUME NEW b \in Buffers
      PROVE  Append(handled, payload[b]) \in Seq(Payload)
  BY AppendProperties
<1>1. CASE UNCHANGED poolvars
  BY <1>1 DEF poolvars
<1>2. CASE Poll
  BY <1>2, TakeFirst DEF Poll, queues
<1>3. CASE PollFails
  BY <1>3, <1>f DEF PollFails, queues
<1>4. ASSUME NEW k \in Kinds, Receive(k) PROVE PoolTypes'
  <2>1. spi \in Buffers
    BY <1>4 DEF Receive
  <2>2. received' \in Nat /\ payload' \in [Buffers -> Payload]
    BY <1>4, <2>1, SMT DEF Receive, Payload
  <2>3. free_buf_queue' \in Seq(Buffers) /\ spi_rx_queue' \in Seq(Buffers)
    BY <1>4, <1>a, <1>f, <2>1 DEF Receive
  <2> QED
    BY <1>4, <2>2, <2>3 DEF Receive, queues
<1>5. CASE Fetch
  BY <1>5, TakeFirst DEF Fetch, queues
<1>6. CASE DropBroken \/ DropFull
  BY <1>6, <1>f DEF DropBroken, DropFull, Overflows, queues
<1>7. CASE QueueInternal
  BY <1>7, <1>a DEF QueueInternal, pool
<1>8. CASE QueueNetif
  BY <1>8, <1>a DEF QueueNetif, pool
<1>9. CASE InternalStart
  BY <1>9, TakeFirst DEF InternalStart, pool
<1>10. CASE InternalDone
  BY <1>10, <1>f, <1>h DEF InternalDone, queues
<1>11. CASE NetifStart
  BY <1>11, TakeFirst DEF NetifStart, pool
<1>12. CASE NetifDone
  BY <1>12, <1>f, <1>h DEF NetifDone, queues
<1> QED
  BY <1>1, <1>2, <1>3, <1>4, <1>5, <1>6, <1>7, <1>8, <1>9, <1>10, <1>11,
     <1>12 DEF PoolNext, Process, Internal, Netif

----------------------------------------------------------------------------
(* Sequences and the sets of their elements.                               *)

LEMMA ToSetConcat ==
  ASSUME NEW S, NEW s \in Seq(S), NEW t \in Seq(S)
  PROVE  ToSet(s \o t) = ToSet(s) \cup ToSet(t)
<1>1. ToSet(s \o t) \subseteq ToSet(s) \cup ToSet(t)
  <2> SUFFICES ASSUME NEW i \in DOMAIN (s \o t)
               PROVE  (s \o t)[i] \in ToSet(s) \cup ToSet(t)
    BY DEF ToSet
  <2>1. i \in 1 .. Len(s) + Len(t)
    BY SMT
  <2>2. CASE i \in 1 .. Len(s)
    BY <2>2, SMT DEF ToSet
  <2>3. CASE i - Len(s) \in 1 .. Len(t)
    BY <2>1, <2>3, SMT DEF ToSet
  <2> QED
    BY <2>1, <2>2, <2>3, SMT
<1>2. ASSUME NEW i \in DOMAIN s PROVE s[i] \in ToSet(s \o t)
  <2>1. i \in DOMAIN (s \o t) /\ (s \o t)[i] = s[i]
    BY SMT
  <2> QED
    BY <2>1 DEF ToSet
<1>3. ASSUME NEW i \in DOMAIN t PROVE t[i] \in ToSet(s \o t)
  <2>1. i + Len(s) \in DOMAIN (s \o t) /\ (s \o t)[i + Len(s)] = t[i]
    BY SMT
  <2> QED
    BY <2>1 DEF ToSet
<1> QED
  BY <1>1, <1>2, <1>3 DEF ToSet

LEMMA ToSetAppend ==
  ASSUME NEW S, NEW s \in Seq(S), NEW x \in S
  PROVE  ToSet(Append(s, x)) = ToSet(s) \cup {x}
<1> DEFINE y == <<x>>
<1>1. y \in Seq(S) /\ ToSet(y) = {x} /\ Append(s, x) = s \o y
  BY AppendIsConcat DEF ToSet
<1> HIDE DEF y
<1> QED
  BY <1>1, ToSetConcat

LEMMA ToSetFirst ==
  ASSUME NEW q \in Seq(Buffers), q # <<>>
  PROVE  ToSet(q) = ToSet(Tail(q)) \cup {Head(q)}
<1> DEFINE y == <<Head(q)>>
<1>1. y \in Seq(Buffers) /\ ToSet(y) = {Head(q)} /\ y \o Tail(q) = q
      /\ Tail(q) \in Seq(Buffers)
  BY TakeFirst DEF ToSet
<1> DEFINE t == Tail(q)
<1>2. t \in Seq(Buffers) /\ q = y \o t
  BY <1>1
<1> HIDE DEF y, t
<1>3. ToSet(y \o t) = ToSet(y) \cup ToSet(t)
  BY <1>1, <1>2, ToSetConcat
<1> QED
  BY <1>1, <1>2, <1>3 DEF t

LEMMA ToSetIn ==
  ASSUME NEW S, NEW s \in Seq(S)
  PROVE  ToSet(s) \subseteq S
BY SMT DEF ToSet

\* A sequence has no more elements than its length.
LEMMA ToSetSize ==
  ASSUME NEW S, NEW s \in Seq(S)
  PROVE  IsFiniteSet(ToSet(s)) /\ Cardinality(ToSet(s)) <= Len(s)
<1>1. Len(s) \in Nat /\ DOMAIN s = 1 .. Len(s) /\ s \in [1 .. Len(s) -> S]
  BY SMT
<1>2. s \in Surjection(1 .. Len(s), ToSet(s))
  BY <1>1 DEF Surjection, ToSet
<1>3. IsFiniteSet(1 .. Len(s)) /\ Cardinality(1 .. Len(s)) = Len(s)
  <2>1. 1 \in Int /\ Len(s) \in Int
    BY <1>1
  <2>2. IsFiniteSet(1 .. Len(s))
        /\ Cardinality(1 .. Len(s)) = IF 1 > Len(s) THEN 0 ELSE Len(s) - 1 + 1
    BY <2>1, FS_Interval, Zenon
  <2> QED
    BY <1>1, <2>2, SMT
<1> QED
  BY <1>2, <1>3, FS_Surjection

----------------------------------------------------------------------------
(* Conserved is inductive: each step moves one buffer.                     *)

Number(b) == IF b = NoBuffer THEN 0 ELSE 1
Single(b) == {b} \ {NoBuffer}

LEMMA HeldIs ==
  ASSUME NEW b \in Buffers \cup {NoBuffer}
  PROVE  /\ Held(b) \in Seq(Buffers)
         /\ Len(Held(b)) = Number(b)
         /\ ToSet(Held(b)) = Single(b)
<1>1. CASE b = NoBuffer
  BY <1>1 DEF Held, Number, Single, ToSet
<1>2. CASE b # NoBuffer
  <2>1. Held(b) = <<b>> /\ Number(b) = 1 /\ Single(b) = {b}
    BY <1>2 DEF Held, Number, Single
  <2>2. <<b>> \in Seq(Buffers) /\ Len(<<b>>) = 1 /\ ToSet(<<b>>) = {b}
    BY <1>2 DEF ToSet
  <2> QED
    BY <2>1, <2>2
<1> QED
  BY <1>1, <1>2

\* What follows the buffers a in Everywhere.
Chain(a) ==
  a \o spi_rx_queue \o Held(process)
    \o internal_queue \o Held(internal) \o netif_queue \o Held(netif)
InUse == Len(spi_rx_queue) + Number(process) + Len(internal_queue)
           + Number(internal) + Len(netif_queue) + Number(netif)
Used == ToSet(spi_rx_queue) \cup Single(process) \cup ToSet(internal_queue)
          \cup Single(internal) \cup ToSet(netif_queue) \cup Single(netif)

LEMMA ChainIs ==
  ASSUME PoolTypes, NEW a \in Seq(Buffers)
  PROVE  /\ Chain(a) \in Seq(Buffers)
         /\ Len(Chain(a)) = Len(a) + InUse
         /\ ToSet(Chain(a)) = ToSet(a) \cup Used
         /\ InUse \in Nat
<1> DEFINE c == Held(process)
           e == Held(internal)
           g == Held(netif)
           s1 == a \o spi_rx_queue
           s2 == s1 \o c
           s3 == s2 \o internal_queue
           s4 == s3 \o e
           s5 == s4 \o netif_queue
           s6 == s5 \o g
<1>t. /\ spi_rx_queue \in Seq(Buffers) /\ internal_queue \in Seq(Buffers)
      /\ netif_queue \in Seq(Buffers)
      /\ Len(spi_rx_queue) \in Nat /\ Len(internal_queue) \in Nat
      /\ Len(netif_queue) \in Nat /\ Len(a) \in Nat
      /\ Number(process) \in Nat /\ Number(internal) \in Nat
      /\ Number(netif) \in Nat
  BY LenProperties DEF PoolTypes, Number
<1>p. c \in Seq(Buffers) /\ Len(c) = Number(process) /\ ToSet(c) = Single(process)
  BY HeldIs DEF PoolTypes
<1>i. e \in Seq(Buffers) /\ Len(e) = Number(internal) /\ ToSet(e) = Single(internal)
  BY HeldIs DEF PoolTypes
<1>n. g \in Seq(Buffers) /\ Len(g) = Number(netif) /\ ToSet(g) = Single(netif)
  BY HeldIs DEF PoolTypes
<1>c. ASSUME NEW s \in Seq(Buffers), NEW t \in Seq(Buffers)
      PROVE  /\ s \o t \in Seq(Buffers) /\ Len(s \o t) = Len(s) + Len(t)
             /\ ToSet(s \o t) = ToSet(s) \cup ToSet(t)
  BY ConcatProperties, ToSetConcat
<1>1. s1 = a \o spi_rx_queue /\ s2 = s1 \o c /\ s3 = s2 \o internal_queue
      /\ s4 = s3 \o e /\ s5 = s4 \o netif_queue /\ s6 = s5 \o g
  OBVIOUS
<1>2. Chain(a) = s6
  BY DEF Chain
<1> HIDE DEF c, e, g, s1, s2, s3, s4, s5, s6
<1>3. /\ s1 \in Seq(Buffers) /\ Len(s1) = Len(a) + Len(spi_rx_queue)
      /\ ToSet(s1) = ToSet(a) \cup ToSet(spi_rx_queue)
  BY <1>t, <1>c, <1>1
<1>4. /\ s2 \in Seq(Buffers) /\ Len(s2) = Len(s1) + Number(process)
      /\ ToSet(s2) = ToSet(s1) \cup Single(process)
  BY <1>p, <1>c, <1>1, <1>3
<1>5. /\ s3 \in Seq(Buffers) /\ Len(s3) = Len(s2) + Len(internal_queue)
      /\ ToSet(s3) = ToSet(s2) \cup ToSet(internal_queue)
  BY <1>t, <1>c, <1>1, <1>4
<1>6. /\ s4 \in Seq(Buffers) /\ Len(s4) = Len(s3) + Number(internal)
      /\ ToSet(s4) = ToSet(s3) \cup Single(internal)
  <2>1. ToSet(s3 \o e) = ToSet(s3) \cup ToSet(e)
    BY <1>i, <1>5, ToSetConcat
  <2>2. s3 \o e \in Seq(Buffers) /\ Len(s3 \o e) = Len(s3) + Len(e)
    BY <1>i, <1>5, ConcatProperties
  <2> QED
    BY <1>i, <1>1, <2>1, <2>2
<1>7. /\ s5 \in Seq(Buffers) /\ Len(s5) = Len(s4) + Len(netif_queue)
      /\ ToSet(s5) = ToSet(s4) \cup ToSet(netif_queue)
  BY <1>t, <1>c, <1>1, <1>6
<1>8. /\ s6 \in Seq(Buffers) /\ Len(s6) = Len(s5) + Number(netif)
      /\ ToSet(s6) = ToSet(s5) \cup Single(netif)
  <2>1. ToSet(s5 \o g) = ToSet(s5) \cup ToSet(g)
    BY <1>n, <1>7, ToSetConcat
  <2>2. s5 \o g \in Seq(Buffers) /\ Len(s5 \o g) = Len(s5) + Len(g)
    BY <1>n, <1>7, ConcatProperties
  <2> QED
    BY <1>n, <1>1, <2>1, <2>2
<1>9. Len(s6) = Len(a) + InUse /\ InUse \in Nat
  <2>1. Len(s6) = Len(a) + Len(spi_rx_queue) + Number(process)
          + Len(internal_queue) + Number(internal) + Len(netif_queue)
          + Number(netif)
    BY <1>3, <1>4, <1>5, <1>6, <1>7, <1>8
  <2> QED
    BY <1>t, <2>1, SMT DEF InUse
<1>10. ToSet(s6) = ToSet(a) \cup Used
  BY <1>3, <1>4, <1>5, <1>6, <1>7, <1>8 DEF Used
<1> QED
  BY <1>2, <1>8, <1>9, <1>10

LEMMA EverywhereIs ==
  ASSUME PoolTypes
  PROVE  /\ Len(Everywhere) = Len(free_buf_queue) + Number(spi) + InUse
         /\ ToSet(Everywhere)
              = ToSet(free_buf_queue) \cup Single(spi) \cup Used
         /\ InUse \in Nat
<1> DEFINE h == Held(spi)
           a == free_buf_queue \o h
<1>1. Everywhere = Chain(a)
  BY DEF Everywhere, Chain
<1>2. h \in Seq(Buffers) /\ Len(h) = Number(spi) /\ ToSet(h) = Single(spi)
      /\ free_buf_queue \in Seq(Buffers) /\ a = free_buf_queue \o h
  BY HeldIs DEF PoolTypes
<1> HIDE DEF h, a
<1>3. a \in Seq(Buffers) /\ Len(a) = Len(free_buf_queue) + Len(h)
  BY <1>2, ConcatProperties
<1>4. ToSet(a) = ToSet(free_buf_queue) \cup ToSet(h)
  BY <1>2, ToSetConcat
<1>5. /\ Len(Chain(a)) = Len(a) + InUse /\ InUse \in Nat
      /\ ToSet(Chain(a)) = ToSet(a) \cup Used
  BY <1>3, ChainIs
<1> QED
  BY <1>1, <1>2, <1>3, <1>4, <1>5

\* The pool in terms of its parts.
PoolInv ==
  /\ Len(free_buf_queue) + Number(spi) + InUse = NUM_BUFFERS
  /\ ToSet(free_buf_queue) \cup Single(spi) \cup Used = Buffers

LEMMA ConservedIs == PoolTypes => (Conserved <=> PoolInv)
BY EverywhereIs DEF Conserved, PoolInv

\* No other task has the buffer that is received into.
LEMMA SpiIsAlone ==
  ASSUME PoolTypes, PoolInv, spi # NoBuffer
  PROVE  spi \notin ToSet(free_buf_queue) \cup Used
<1> SUFFICES ASSUME spi \in ToSet(free_buf_queue) \cup Used PROVE FALSE
  OBVIOUS
<1>1. /\ Chain(free_buf_queue) \in Seq(Buffers)
      /\ Len(Chain(free_buf_queue)) = Len(free_buf_queue) + InUse
      /\ ToSet(Chain(free_buf_queue)) = ToSet(free_buf_queue) \cup Used
      /\ InUse \in Nat /\ free_buf_queue \in Seq(Buffers)
  BY ChainIs DEF PoolTypes
<1>2. ToSet(Chain(free_buf_queue)) = Buffers
  BY <1>1 DEF PoolInv, Single
<1>3. Cardinality(Buffers) <= Len(free_buf_queue) + InUse
  BY <1>1, <1>2, ToSetSize
<1>4. Number(spi) = 1 /\ Len(free_buf_queue) \in Nat
  BY <1>1, LenProperties DEF Number
<1> QED
  BY <1>1, <1>3, <1>4, PoolIsFinite, SMT DEF PoolInv, NUM_BUFFERS

LEMMA PoolInvInit == PoolInit => PoolInv
<1> SUFFICES ASSUME PoolInit PROVE PoolInv
  OBVIOUS
<1>1. PICK f \in Bijection(1 .. Cardinality(Buffers), Buffers) : TRUE
  BY BuffersAssumption, FS_CardinalityType DEF ExistsBijection
<1>2. \E g \in [1 .. Cardinality(Buffers) -> Buffers] : IsInjective(g)
  BY <1>1 DEF Bijection, Injection, IsInjective
<1>3. /\ free_buf_queue \in [1 .. Cardinality(Buffers) -> Buffers]
      /\ IsInjective(free_buf_queue)
  BY <1>2 DEF PoolInit, SetToSeq
<1>4. free_buf_queue \in Injection(1 .. Cardinality(Buffers), Buffers)
  BY <1>3 DEF Injection, IsInjective
<1>5. Cardinality(Buffers) \in Nat
  BY PoolIsFinite DEF NUM_BUFFERS
<1>6. Cardinality(1 .. Cardinality(Buffers)) = Cardinality(Buffers)
  <2>1. Cardinality(1 .. Cardinality(Buffers)) =
          IF 1 > Cardinality(Buffers) THEN 0 ELSE Cardinality(Buffers) - 1 + 1
    BY <1>5, FS_Interval
  <2> QED
    BY <1>5, <2>1, SMT
<1>7. free_buf_queue \in Surjection(1 .. Cardinality(Buffers), Buffers)
  BY <1>4, <1>6, BuffersAssumption, FS_Injection
<1>8. ToSet(free_buf_queue) = Buffers
  BY <1>3, <1>7 DEF Surjection, ToSet
<1>9. Len(free_buf_queue) = NUM_BUFFERS
  BY <1>3, <1>5, SMT DEF NUM_BUFFERS
<1>10. Number(spi) = 0 /\ InUse = 0
  BY SMT DEF PoolInit, InUse, Number
<1>11. Single(spi) = {} /\ Used = {}
  BY DEF PoolInit, Used, Single, ToSet
<1> QED
  BY <1>8, <1>9, <1>10, <1>11, PoolIsFinite DEF PoolInv

\* There is always room for a buffer that a task gives back.
LEMMA GivesBack ==
  ASSUME PoolTypes, PoolInv, NEW b \in Buffers, FreeRxBuffer(b),
         Number(spi) + InUse > 0
  PROVE  /\ Len(free_buf_queue') = Len(free_buf_queue) + 1
         /\ ToSet(free_buf_queue') = ToSet(free_buf_queue) \cup {b}
<1>1. /\ free_buf_queue \in Seq(Buffers) /\ Len(free_buf_queue) \in Nat
      /\ Number(spi) \in Nat /\ InUse \in Nat
  BY LenProperties, ChainIs DEF PoolTypes, Number
<1>2. Len(free_buf_queue) < NUM_BUFFERS
  BY <1>1, SMT DEF PoolInv
<1>3. free_buf_queue' = Append(free_buf_queue, b)
  BY <1>2 DEF FreeRxBuffer
<1> QED
  BY <1>1, <1>3, ToSetAppend, AppendProperties

LEMMA PoolInvStep == PoolTypes /\ PoolInv /\ [PoolNext]_poolvars => PoolInv'
<1> SUFFICES ASSUME PoolTypes, PoolInv, [PoolNext]_poolvars PROVE PoolInv'
  OBVIOUS
<1>t. /\ free_buf_queue \in Seq(Buffers) /\ spi_rx_queue \in Seq(Buffers)
      /\ internal_queue \in Seq(Buffers) /\ netif_queue \in Seq(Buffers)
      /\ spi \in Buffers \cup {NoBuffer} /\ process \in Buffers \cup {NoBuffer}
      /\ internal \in Buffers \cup {NoBuffer} /\ netif \in Buffers \cup {NoBuffer}
  BY DEF PoolTypes
<1>l. /\ Len(free_buf_queue) \in Nat /\ Len(spi_rx_queue) \in Nat
      /\ Len(internal_queue) \in Nat /\ Len(netif_queue) \in Nat
  BY <1>t, LenProperties
<1>e. /\ Number(NoBuffer) = 0 /\ Single(NoBuffer) = {}
      /\ \A b \in Buffers : Number(b) = 1 /\ Single(b) = {b}
      /\ Number(spi) \in Nat /\ Number(process) \in Nat
      /\ Number(internal) \in Nat /\ Number(netif) \in Nat
  BY BuffersAssumption DEF Number, Single
<1>a. ASSUME NEW q \in Seq(Buffers), NEW b \in Buffers
      PROVE  /\ Len(Append(q, b)) = Len(q) + 1
             /\ ToSet(Append(q, b)) = ToSet(q) \cup {b}
  BY ToSetAppend, AppendProperties
<1>f. ASSUME NEW q \in Seq(Buffers), q # <<>>
      PROVE  /\ Head(q) \in Buffers /\ Len(q) = Len(Tail(q)) + 1
             /\ Len(Tail(q)) \in Nat
             /\ ToSet(q) = ToSet(Tail(q)) \cup {Head(q)}
  BY <1>f, TakeFirst, ToSetFirst, LenProperties
<1>g. ASSUME NEW b \in Buffers, FreeRxBuffer(b),
             b \in {spi, process, internal, netif}
      PROVE  /\ Len(free_buf_queue') = Len(free_buf_queue) + 1
             /\ ToSet(free_buf_queue') = ToSet(free_buf_queue) \cup {b}
  <2>1. Number(spi) + InUse > 0
    <3> DEFINE s == Number(spi)
               p == Number(process)
               i == Number(internal)
               n == Number(netif)
               r == Len(spi_rx_queue)
               q == Len(internal_queue)
               w == Len(netif_queue)
    <3>1. s = 1 \/ p = 1 \/ i = 1 \/ n = 1
      BY <1>g, <1>e
    <3>2. /\ s \in Nat /\ p \in Nat /\ i \in Nat /\ n \in Nat
          /\ r \in Nat /\ q \in Nat /\ w \in Nat
      BY <1>l, <1>e
    <3>3. InUse = r + p + q + i + w + n
      BY DEF InUse
    <3> HIDE DEF s, p, i, n, r, q, w
    <3>4. s + (r + p + q + i + w + n) > 0
      BY <3>1, <3>2, SMT
    <3> QED
      BY <3>3, <3>4 DEF s
  <2> QED
    BY <1>g, <2>1, GivesBack
<1>1. CASE UNCHANGED poolvars
  BY <1>1 DEF poolvars, PoolInv, InUse, Used
<1>2. CASE Poll
  <2>1. UNCHANGED <<spi_rx_queue, internal_queue, netif_queue, process, internal,
                    netif>>
        /\ spi = NoBuffer /\ spi' = Head(free_buf_queue) /\ spi' \in Buffers
        /\ Len(free_buf_queue) = Len(free_buf_queue') + 1
        /\ Len(free_buf_queue') \in Nat
        /\ ToSet(free_buf_queue) = ToSet(free_buf_queue') \cup {spi'}
    BY <1>2, <1>t, <1>f DEF Poll, queues
  <2>2. InUse' = InUse /\ Used' = Used
    BY <2>1 DEF InUse, Used
  <2>3. Len(free_buf_queue') + Number(spi') + InUse' = NUM_BUFFERS
    BY <2>1, <2>2, <1>e, <1>l, SMT DEF PoolInv, InUse
  <2> QED
    BY <2>1, <2>2, <2>3, <1>e DEF PoolInv
<1>3. CASE PollFails
  <2>1. UNCHANGED <<spi_rx_queue, internal_queue, netif_queue, process, internal,
                    netif>>
        /\ spi \in Buffers /\ spi' = NoBuffer /\ FreeRxBuffer(spi)
    BY <1>3, <1>t DEF PollFails, queues
  <2>2. InUse' = InUse /\ Used' = Used
    BY <2>1 DEF InUse, Used
  <2>3. /\ Len(free_buf_queue') = Len(free_buf_queue) + 1
        /\ ToSet(free_buf_queue') = ToSet(free_buf_queue) \cup {spi}
    BY <2>1, <1>g
  <2>4. Len(free_buf_queue') + Number(spi') + InUse' = NUM_BUFFERS
    BY <2>1, <2>2, <2>3, <1>e, <1>l, SMT DEF PoolInv, InUse
  <2> QED
    BY <2>1, <2>2, <2>3, <2>4, <1>e DEF PoolInv
<1>4. ASSUME NEW k \in Kinds, Receive(k) PROVE PoolInv'
  <2>1. UNCHANGED <<internal_queue, netif_queue, process, internal, netif>>
        /\ spi \in Buffers /\ spi' = NoBuffer
    BY <1>4, <1>t DEF Receive, queues
  <2>2. CASE spi_rx_queue' = Append(spi_rx_queue, spi) /\ UNCHANGED free_buf_queue
    <3>1. /\ Len(spi_rx_queue') = Len(spi_rx_queue) + 1
          /\ ToSet(spi_rx_queue') = ToSet(spi_rx_queue) \cup {spi}
      BY <2>1, <2>2, <1>a, <1>t
    <3>2. Len(free_buf_queue') + Number(spi') + InUse' = NUM_BUFFERS
      BY <2>1, <2>2, <3>1, <1>e, <1>l, SMT DEF PoolInv, InUse
    <3>3. ToSet(free_buf_queue') \cup Single(spi') \cup Used' = Buffers
      BY <2>1, <2>2, <3>1, <1>e DEF PoolInv, Used
    <3> QED
      BY <3>2, <3>3 DEF PoolInv
  <2>3. CASE FreeRxBuffer(spi) /\ UNCHANGED spi_rx_queue
    <3>1. /\ Len(free_buf_queue') = Len(free_buf_queue) + 1
          /\ ToSet(free_buf_queue') = ToSet(free_buf_queue) \cup {spi}
      BY <2>1, <2>3, <1>g
    <3>2. Len(free_buf_queue') + Number(spi') + InUse' = NUM_BUFFERS
      BY <2>1, <2>3, <3>1, <1>e, <1>l, SMT DEF PoolInv, InUse
    <3>3. ToSet(free_buf_queue') \cup Single(spi') \cup Used' = Buffers
      BY <2>1, <2>3, <3>1, <1>e DEF PoolInv, Used
    <3> QED
      BY <3>2, <3>3 DEF PoolInv
  <2> QED
    BY <1>4, <2>2, <2>3 DEF Receive
<1>5. CASE Fetch
  <2>1. UNCHANGED <<free_buf_queue, spi, internal_queue, netif_queue, internal, netif>>
        /\ process = NoBuffer /\ process' \in Buffers
        /\ Len(spi_rx_queue) = Len(spi_rx_queue') + 1
        /\ Len(spi_rx_queue') \in Nat
        /\ ToSet(spi_rx_queue) = ToSet(spi_rx_queue') \cup {process'}
    BY <1>5, <1>t, <1>f DEF Fetch, queues
  <2>2. InUse' = InUse
    BY <2>1, <1>e, <1>l, SMT DEF InUse
  <2>3. Used' = Used
    BY <2>1, <1>e DEF Used
  <2> QED
    BY <2>1, <2>2, <2>3 DEF PoolInv
<1>6. CASE DropBroken \/ DropFull
  <2>1. UNCHANGED <<spi_rx_queue, spi, internal_queue, netif_queue, internal, netif>>
        /\ process \in Buffers /\ process' = NoBuffer /\ FreeRxBuffer(process)
    BY <1>6, <1>t DEF DropBroken, DropFull, Overflows, queues
  <2>2. /\ Len(free_buf_queue') = Len(free_buf_queue) + 1
        /\ ToSet(free_buf_queue') = ToSet(free_buf_queue) \cup {process}
    BY <2>1, <1>g
  <2>3. Len(free_buf_queue') + Number(spi') + InUse' = NUM_BUFFERS
    <3> DEFINE f == Len(free_buf_queue)
               u == InUse
               v == InUse'
               n == Number(spi)
    <3>1. v + 1 = u /\ u \in Nat /\ v \in Nat
      BY <2>1, <1>e, <1>l, SMT DEF InUse
    <3>2. /\ Number(spi') = n /\ Len(free_buf_queue') = f + 1
          /\ n \in Nat /\ f \in Nat
      BY <2>1, <2>2, <1>e, <1>l
    <3>3. f + n + u = NUM_BUFFERS
      BY DEF PoolInv
    <3> HIDE DEF f, u, v, n
    <3>4. f + 1 + n + v = NUM_BUFFERS
      BY <3>1, <3>2, <3>3, SMT
    <3> QED
      BY <3>2, <3>4 DEF v
  <2>4. ToSet(free_buf_queue') \cup Single(spi') \cup Used' = Buffers
    BY <2>1, <2>2, <1>e DEF PoolInv, Used
  <2> QED
    BY <2>3, <2>4 DEF PoolInv
<1>7. CASE QueueInternal
  <2>1. UNCHANGED <<free_buf_queue, spi_rx_queue, spi, netif_queue, internal, netif>>
        /\ process \in Buffers /\ process' = NoBuffer
        /\ Len(internal_queue') = Len(internal_queue) + 1
        /\ ToSet(internal_queue') = ToSet(internal_queue) \cup {process}
    BY <1>7, <1>t, <1>a DEF QueueInternal, pool
  <2>2. InUse' = InUse
    BY <2>1, <1>e, <1>l, SMT DEF InUse
  <2>3. Used' = Used
    BY <2>1, <1>e DEF Used
  <2> QED
    BY <2>1, <2>2, <2>3 DEF PoolInv
<1>8. CASE QueueNetif
  <2>1. UNCHANGED <<free_buf_queue, spi_rx_queue, spi, internal_queue, internal, netif>>
        /\ process \in Buffers /\ process' = NoBuffer
        /\ Len(netif_queue') = Len(netif_queue) + 1
        /\ ToSet(netif_queue') = ToSet(netif_queue) \cup {process}
    BY <1>8, <1>t, <1>a DEF QueueNetif, pool
  <2>2. InUse' = InUse
    BY <2>1, <1>e, <1>l, SMT DEF InUse
  <2>3. Used' = Used
    BY <2>1, <1>e DEF Used
  <2> QED
    BY <2>1, <2>2, <2>3 DEF PoolInv
<1>9. CASE InternalStart
  <2>1. UNCHANGED <<free_buf_queue, spi, spi_rx_queue, netif_queue, process, netif>>
        /\ internal = NoBuffer /\ internal' \in Buffers
        /\ Len(internal_queue) = Len(internal_queue') + 1
        /\ Len(internal_queue') \in Nat
        /\ ToSet(internal_queue) = ToSet(internal_queue') \cup {internal'}
    BY <1>9, <1>t, <1>f DEF InternalStart, pool
  <2>2. InUse' = InUse
    BY <2>1, <1>e, <1>l, SMT DEF InUse
  <2>3. Used' = Used
    BY <2>1, <1>e DEF Used
  <2> QED
    BY <2>1, <2>2, <2>3 DEF PoolInv
<1>10. CASE InternalDone
  <2>1. UNCHANGED <<spi_rx_queue, spi, internal_queue, netif_queue, process, netif>>
        /\ internal \in Buffers /\ internal' = NoBuffer /\ FreeRxBuffer(internal)
    BY <1>10, <1>t DEF InternalDone, queues
  <2>2. /\ Len(free_buf_queue') = Len(free_buf_queue) + 1
        /\ ToSet(free_buf_queue') = ToSet(free_buf_queue) \cup {internal}
    BY <2>1, <1>g
  <2>3. Len(free_buf_queue') + Number(spi') + InUse' = NUM_BUFFERS
    BY <2>1, <2>2, <1>e, <1>l, SMT DEF PoolInv, InUse
  <2>4. ToSet(free_buf_queue') \cup Single(spi') \cup Used' = Buffers
    BY <2>1, <2>2, <1>e DEF PoolInv, Used
  <2> QED
    BY <2>3, <2>4 DEF PoolInv
<1>11. CASE NetifStart
  <2>1. UNCHANGED <<free_buf_queue, spi, spi_rx_queue, internal_queue, process, internal>>
        /\ netif = NoBuffer /\ netif' \in Buffers
        /\ Len(netif_queue) = Len(netif_queue') + 1
        /\ Len(netif_queue') \in Nat
        /\ ToSet(netif_queue) = ToSet(netif_queue') \cup {netif'}
    BY <1>11, <1>t, <1>f DEF NetifStart, pool
  <2>2. InUse' = InUse
    <3>1. Number(netif) = 0 /\ Number(netif') = 1
      BY <2>1, <1>e
    <3> QED
      BY <2>1, <3>1, <1>e, <1>l, SMT DEF InUse
  <2>3. Used' = Used
    BY <2>1, <1>e DEF Used
  <2> QED
    BY <2>1, <2>2, <2>3 DEF PoolInv
<1>12. CASE NetifDone
  <2>1. UNCHANGED <<spi_rx_queue, spi, internal_queue, netif_queue, process, internal>>
        /\ netif \in Buffers /\ netif' = NoBuffer /\ FreeRxBuffer(netif)
    BY <1>12, <1>t DEF NetifDone, queues
  <2>2. /\ Len(free_buf_queue') = Len(free_buf_queue) + 1
        /\ ToSet(free_buf_queue') = ToSet(free_buf_queue) \cup {netif}
    BY <2>1, <1>g
  <2>3. Len(free_buf_queue') + Number(spi') + InUse' = NUM_BUFFERS
    BY <2>1, <2>2, <1>e, <1>l, SMT DEF PoolInv, InUse
  <2>4. ToSet(free_buf_queue') \cup Single(spi') \cup Used' = Buffers
    BY <2>1, <2>2, <1>e DEF PoolInv, Used
  <2> QED
    BY <2>3, <2>4 DEF PoolInv
<1> QED
  BY <1>1, <1>2, <1>3, <1>4, <1>5, <1>6, <1>7, <1>8, <1>9, <1>10, <1>11,
     <1>12 DEF PoolNext, Process, Internal, Netif

----------------------------------------------------------------------------
(* HandledInOrder.  The packets of one task go through the pipeline in the *)
(* order they were received in.                                            *)

SortedBy(data, s) ==
  \A i, j \in 1 .. Len(s) : i < j => data[s[i]].seq < data[s[j]].seq

\* The buffers between the SPI slave and the process task, and those between
\* it and the end of the internal and of the netif task, oldest first.
Arrived == Held(process) \o spi_rx_queue
InternalLine == Held(internal) \o internal_queue
NetifLine == Held(netif) \o netif_queue

Before(data, s, t) ==
  \A a \in ToSet(s), b \in ToSet(t) : data[a].seq < data[b].seq

\* The three stages il, nl and ar are in order, behind the packets in h.
Order(il, nl, ar, data, n, h) ==
  /\ SortedBy(data, il) /\ SortedBy(data, nl) /\ SortedBy(data, ar)
  /\ Before(data, il, ar) /\ Before(data, nl, ar)
  /\ \A b \in ToSet(il) \cup ToSet(nl) \cup ToSet(ar) : data[b].seq <= n
  /\ \A b \in ToSet(il) : data[b].kind = "internal"
  /\ \A b \in ToSet(nl) : data[b].kind = "netif"
  /\ \A i \in 1 .. Len(h) :
       /\ h[i].kind # "broken" /\ h[i].seq <= n
       /\ \A b \in ToSet(ar) : h[i].seq < data[b].seq
       /\ h[i].kind = "internal"
            => \A b \in ToSet(il) : h[i].seq < data[b].seq
       /\ h[i].kind = "netif"
            => \A b \in ToSet(nl) : h[i].seq < data[b].seq
  /\ \A i, j \in 1 .. Len(h) :
       i < j /\ h[i].kind = h[j].kind => h[i].seq < h[j].seq

PoolOrderInv ==
  Order(InternalLine, NetifLine, Arrived, payload, received, handled)

LEMMA SortedConcat ==
  ASSUME NEW data \in [Buffers -> Payload],
         NEW s \in Seq(Buffers), NEW t \in Seq(Buffers)
  PROVE  SortedBy(data, s \o t)
           <=> /\ SortedBy(data, s) /\ SortedBy(data, t)
               /\ \A a \in ToSet(s), b \in ToSet(t) : data[a].seq < data[b].seq
<1> DEFINE u == s \o t
<1>1. /\ Len(s) \in Nat /\ Len(t) \in Nat /\ Len(u) = Len(s) + Len(t)
      /\ \A i \in 1 .. Len(s) : i \in 1 .. Len(u) /\ u[i] = s[i]
      /\ \A i \in 1 .. Len(t) :
           Len(s) + i \in 1 .. Len(u) /\ u[Len(s) + i] = t[i]
      /\ DOMAIN s = 1 .. Len(s) /\ DOMAIN t = 1 .. Len(t)
  BY SMT
<1>2. ASSUME NEW i \in 1 .. Len(u)
      PROVE  i \in 1 .. Len(s) \/ \E k \in 1 .. Len(t) : i = Len(s) + k
  <2>1. i \notin 1 .. Len(s) => i - Len(s) \in 1 .. Len(t) /\ i = Len(s) + (i - Len(s))
    BY <1>1, SMT
  <2> QED
    BY <2>1
<1> HIDE DEF u
<1>3. ASSUME SortedBy(data, u)
      PROVE  /\ SortedBy(data, s) /\ SortedBy(data, t)
             /\ \A a \in ToSet(s), b \in ToSet(t) : data[a].seq < data[b].seq
  <2>1. SortedBy(data, s)
    BY <1>1, <1>3 DEF SortedBy
  <2>2. SortedBy(data, t)
    <3> SUFFICES ASSUME NEW i \in 1 .. Len(t), NEW j \in 1 .. Len(t), i < j
                 PROVE  data[t[i]].seq < data[t[j]].seq
      BY DEF SortedBy
    <3>1. Len(s) + i < Len(s) + j
      BY <1>1, SMT
    <3> QED
      BY <1>1, <1>3, <3>1 DEF SortedBy
  <2>3. ASSUME NEW i \in 1 .. Len(s), NEW j \in 1 .. Len(t)
        PROVE  data[s[i]].seq < data[t[j]].seq
    <3>1. i < Len(s) + j
      BY <1>1, SMT
    <3> QED
      BY <1>1, <1>3, <3>1 DEF SortedBy
  <2> QED
    BY <1>1, <2>1, <2>2, <2>3 DEF ToSet
<1>4. ASSUME SortedBy(data, s), SortedBy(data, t),
             \A a \in ToSet(s), b \in ToSet(t) : data[a].seq < data[b].seq
      PROVE  SortedBy(data, u)
  <2> SUFFICES ASSUME NEW i \in 1 .. Len(u), NEW j \in 1 .. Len(u), i < j
               PROVE  data[u[i]].seq < data[u[j]].seq
    BY DEF SortedBy
  <2>1. CASE i \in 1 .. Len(s) /\ j \in 1 .. Len(s)
    BY <1>1, <1>4, <2>1 DEF SortedBy
  <2>2. ASSUME i \in 1 .. Len(s), NEW k \in 1 .. Len(t), j = Len(s) + k
        PROVE  data[u[i]].seq < data[u[j]].seq
    <3>1. s[i] \in ToSet(s) /\ t[k] \in ToSet(t)
      BY <1>1, <2>2 DEF ToSet
    <3> QED
      BY <1>1, <1>4, <2>2, <3>1
  <2>3. ASSUME NEW k \in 1 .. Len(t), i = Len(s) + k,
               NEW m \in 1 .. Len(t), j = Len(s) + m
        PROVE  data[u[i]].seq < data[u[j]].seq
    <3>1. k < m
      BY <1>1, <2>3, SMT
    <3> QED
      BY <1>1, <1>4, <2>3, <3>1 DEF SortedBy
  <2>4. ASSUME NEW k \in 1 .. Len(t), i = Len(s) + k, j \in 1 .. Len(s)
        PROVE  FALSE
    BY <1>1, <2>4, SMT
  <2> QED
    BY <1>2, <2>1, <2>2, <2>3, <2>4
<1> QED
  BY <1>3, <1>4 DEF u

\* The order depends on the payloads of the buffers in the sequence only.
LEMMA SortedSame ==
  ASSUME NEW old, NEW new, NEW s \in Seq(Buffers),
         \A b \in ToSet(s) : new[b].seq = old[b].seq,
         SortedBy(old, s)
  PROVE  SortedBy(new, s)
<1>1. \A i \in 1 .. Len(s) : s[i] \in ToSet(s)
  BY SMT DEF ToSet
<1> QED
  BY <1>1 DEF SortedBy

LEMMA LinesAre ==
  ASSUME PoolTypes
  PROVE  /\ Arrived \in Seq(Buffers) /\ InternalLine \in Seq(Buffers)
         /\ NetifLine \in Seq(Buffers)
         /\ ToSet(Arrived) = Single(process) \cup ToSet(spi_rx_queue)
         /\ ToSet(InternalLine) = Single(internal) \cup ToSet(internal_queue)
         /\ ToSet(NetifLine) = Single(netif) \cup ToSet(netif_queue)
         /\ Used = ToSet(Arrived) \cup ToSet(InternalLine) \cup ToSet(NetifLine)
<1>1. ASSUME NEW b \in Buffers \cup {NoBuffer}, NEW q \in Seq(Buffers)
      PROVE  /\ Held(b) \o q \in Seq(Buffers)
             /\ ToSet(Held(b) \o q) = Single(b) \cup ToSet(q)
  <2> DEFINE h == Held(b)
  <2>1. h \in Seq(Buffers) /\ ToSet(h) = Single(b)
    BY HeldIs
  <2> HIDE DEF h
  <2>2. h \o q \in Seq(Buffers) /\ ToSet(h \o q) = ToSet(h) \cup ToSet(q)
    BY <2>1, ToSetConcat, ConcatProperties
  <2> QED
    BY <2>1, <2>2 DEF h
<1>2. /\ Arrived \in Seq(Buffers)
      /\ ToSet(Arrived) = Single(process) \cup ToSet(spi_rx_queue)
  BY <1>1 DEF PoolTypes, Arrived
<1>3. /\ InternalLine \in Seq(Buffers)
      /\ ToSet(InternalLine) = Single(internal) \cup ToSet(internal_queue)
  BY <1>1 DEF PoolTypes, InternalLine
<1>4. /\ NetifLine \in Seq(Buffers)
      /\ ToSet(NetifLine) = Single(netif) \cup ToSet(netif_queue)
  BY <1>1 DEF PoolTypes, NetifLine
<1> QED
  BY <1>2, <1>3, <1>4 DEF Used

\* A task that takes the next buffer leaves its line as it is.
LEMMA LineKept ==
  ASSUME NEW q \in Seq(Buffers), q # <<>>
  PROVE  Held(Head(q)) \o Tail(q) = Held(NoBuffer) \o q
<1>1. Held(Head(q)) = <<Head(q)>> /\ Held(NoBuffer) = <<>>
  BY TakeFirst DEF Held
<1> QED
  BY <1>1, TakeFirst, ConcatEmptySeq

\* A sequence in order without its first element.
LEMMA SortedFirst ==
  ASSUME NEW data \in [Buffers -> Payload], NEW x \in Buffers,
         NEW t \in Seq(Buffers)
  PROVE  /\ <<x>> \o t \in Seq(Buffers)
         /\ ToSet(<<x>> \o t) = {x} \cup ToSet(t)
         /\ SortedBy(data, <<x>> \o t)
              => /\ SortedBy(data, t)
                 /\ \A b \in ToSet(t) : data[x].seq < data[b].seq
<1> DEFINE y == <<x>>
<1>1. y \in Seq(Buffers) /\ ToSet(y) = {x}
  BY DEF ToSet
<1> HIDE DEF y
<1>2. y \o t \in Seq(Buffers) /\ ToSet(y \o t) = ToSet(y) \cup ToSet(t)
  BY <1>1, ToSetConcat, ConcatProperties
<1>3. SortedBy(data, y \o t)
       => /\ SortedBy(data, t)
          /\ \A a \in ToSet(y), b \in ToSet(t) : data[a].seq < data[b].seq
  BY <1>1, SortedConcat
<1> QED
  BY <1>1, <1>2, <1>3 DEF y

\* A sequence in order with a newer element at its end.
LEMMA SortedLast ==
  ASSUME NEW data \in [Buffers -> Payload], NEW x \in Buffers,
         NEW s \in Seq(Buffers), SortedBy(data, s),
         \A a \in ToSet(s) : data[a].seq < data[x].seq
  PROVE  SortedBy(data, Append(s, x))
<1> DEFINE y == <<x>>
<1>1. y \in Seq(Buffers) /\ ToSet(y) = {x} /\ Append(s, x) = s \o y
  BY AppendIsConcat DEF ToSet
<1>2. SortedBy(data, y)
  BY SMT DEF SortedBy
<1> HIDE DEF y
<1>3. \A a \in ToSet(s), b \in ToSet(y) : data[a].seq < data[b].seq
  BY <1>1
<1> QED
  BY <1>1, <1>2, <1>3, SortedConcat

LEMMA OrderInit == PoolInit => PoolOrderInv
<1> SUFFICES ASSUME PoolInit PROVE PoolOrderInv
  OBVIOUS
<1>1. Held(NoBuffer) = <<>> /\ <<>> \o <<>> = <<>>
  BY EmptySeq, ConcatEmptySeq DEF Held
<1>2. /\ Arrived = <<>> /\ InternalLine = <<>> /\ NetifLine = <<>>
      /\ handled = <<>>
  BY <1>1 DEF PoolInit, Arrived, InternalLine, NetifLine
<1>3. ToSet(<<>>) = {} /\ Len(<<>>) = 0
  BY DEF ToSet
<1> QED
  BY <1>2, <1>3, SMT DEF PoolOrderInv, Order, SortedBy, Before

\* Steps that overwrite a buffer which is in no stage.
LEMMA OrderReceived ==
  ASSUME NEW il \in Seq(Buffers), NEW nl \in Seq(Buffers), NEW ar \in Seq(Buffers),
         NEW data \in [Buffers -> Payload], NEW n \in Nat, NEW h \in Seq(Payload),
         NEW x \in Buffers \ (ToSet(il) \cup ToSet(nl) \cup ToSet(ar)),
         NEW k \in Kinds, Order(il, nl, ar, data, n, h)
  PROVE  LET new == [data EXCEPT ![x] = [kind |-> k, seq |-> n + 1]] IN
         /\ Order(il, nl, ar, new, n + 1, h)
         /\ Order(il, nl, Append(ar, x), new, n + 1, h)
<1> DEFINE new == [data EXCEPT ![x] = [kind |-> k, seq |-> n + 1]]
           last == Append(ar, x)
<1>1. /\ ToSet(il) \subseteq Buffers /\ ToSet(nl) \subseteq Buffers
      /\ ToSet(ar) \subseteq Buffers
  BY ToSetIn
<1>2. /\ new \in [Buffers -> Payload] /\ new[x].seq = n + 1
      /\ \A b \in ToSet(il) \cup ToSet(nl) \cup ToSet(ar) : new[b] = data[b]
  BY <1>1, SMT DEF Payload
<1>3. /\ \A b \in Buffers : data[b].seq \in Nat
      /\ \A i \in 1 .. Len(h) : h[i].seq \in Nat
  <2>1. \A b \in Buffers : data[b] \in Payload
    OBVIOUS
  <2>2. \A i \in 1 .. Len(h) : h[i] \in Payload
    BY ElementOfSeq
  <2> QED
    BY <2>1, <2>2 DEF Payload
<1> HIDE DEF new
<1>4. Order(il, nl, ar, new, n + 1, h)
  <2>1. SortedBy(new, il) /\ SortedBy(new, nl) /\ SortedBy(new, ar)
    BY <1>2, SortedSame DEF Order
  <2>2. /\ Before(new, il, ar) /\ Before(new, nl, ar)
        /\ \A b \in ToSet(il) : new[b].kind = "internal"
        /\ \A b \in ToSet(nl) : new[b].kind = "netif"
    BY <1>2 DEF Order, Before
  <2>3. \A b \in ToSet(il) \cup ToSet(nl) \cup ToSet(ar) : new[b].seq <= n + 1
    BY <1>1, <1>2, <1>3, SMT DEF Order
  <2>4. \A i \in 1 .. Len(h) : h[i].seq <= n + 1
    BY <1>3, SMT DEF Order
  <2>5. ASSUME NEW i \in 1 .. Len(h)
        PROVE  /\ h[i].kind # "broken"
               /\ \A b \in ToSet(ar) : h[i].seq < new[b].seq
               /\ h[i].kind = "internal"
                    => \A b \in ToSet(il) : h[i].seq < new[b].seq
               /\ h[i].kind = "netif"
                    => \A b \in ToSet(nl) : h[i].seq < new[b].seq
    BY <1>2 DEF Order
  <2>6. \A i, j \in 1 .. Len(h) :
          i < j /\ h[i].kind = h[j].kind => h[i].seq < h[j].seq
    BY DEF Order
  <2> QED
    BY <2>1, <2>2, <2>3, <2>4, <2>5, <2>6 DEF Order
<1>5. last \in Seq(Buffers) /\ ToSet(last) = ToSet(ar) \cup {x}
  BY ToSetAppend, AppendProperties
<1>6. /\ \A b \in ToSet(il) \cup ToSet(nl) \cup ToSet(ar) : new[b].seq < new[x].seq
      /\ \A i \in 1 .. Len(h) : h[i].seq < new[x].seq
      /\ new[x].seq <= n + 1
  BY <1>1, <1>2, <1>3, SMT DEF Order
<1>7. SortedBy(new, last)
  BY <1>2, <1>4, <1>6, SortedLast DEF Order
<1> HIDE DEF last
<1>8. Order(il, nl, last, new, n + 1, h)
  BY <1>4, <1>5, <1>6, <1>7 DEF Order, Before
<1> QED
  BY <1>4, <1>8 DEF new, last

\* The first buffer leaves the stage ar, for nowhere, for il or for nl.
LEMMA OrderProcessed ==
  ASSUME NEW il \in Seq(Buffers), NEW nl \in Seq(Buffers), NEW ar \in Seq(Buffers),
         NEW data \in [Buffers -> Payload], NEW n \in Nat, NEW h \in Seq(Payload),
         NEW x \in Buffers, Order(il, nl, <<x>> \o ar, data, n, h)
  PROVE  /\ Order(il, nl, ar, data, n, h)
         /\ data[x].kind = "internal" => Order(Append(il, x), nl, ar, data, n, h)
         /\ data[x].kind = "netif" => Order(il, Append(nl, x), ar, data, n, h)
<1> DEFINE all == <<x>> \o ar
<1>1. /\ ToSet(all) = {x} \cup ToSet(ar)
      /\ SortedBy(data, ar) /\ \A b \in ToSet(ar) : data[x].seq < data[b].seq
  BY SortedFirst DEF Order
<1>o. Order(il, nl, all, data, n, h)
  OBVIOUS
<1> HIDE DEF all
<1>2. Order(il, nl, ar, data, n, h)
  BY <1>o, <1>1 DEF Order, Before
<1>3. ASSUME data[x].kind = "internal"
      PROVE  Order(Append(il, x), nl, ar, data, n, h)
  <2> DEFINE new == Append(il, x)
  <2>1. new \in Seq(Buffers) /\ ToSet(new) = ToSet(il) \cup {x}
    BY ToSetAppend, AppendProperties
  <2>2. SortedBy(data, new)
    BY <1>o, <1>1, SortedLast DEF Order, Before
  <2> HIDE DEF new
  <2>3. Order(new, nl, ar, data, n, h)
    BY <1>o, <1>1, <1>2, <1>3, <2>1, <2>2 DEF Order, Before
  <2> QED
    BY <2>3 DEF new
<1>4. ASSUME data[x].kind = "netif"
      PROVE  Order(il, Append(nl, x), ar, data, n, h)
  <2> DEFINE new == Append(nl, x)
  <2>1. new \in Seq(Buffers) /\ ToSet(new) = ToSet(nl) \cup {x}
    BY ToSetAppend, AppendProperties
  <2>2. SortedBy(data, new)
    BY <1>o, <1>1, SortedLast DEF Order, Before
  <2> HIDE DEF new
  <2>3. Order(il, new, ar, data, n, h)
    BY <1>o, <1>1, <1>2, <1>4, <2>1, <2>2 DEF Order, Before
  <2> QED
    BY <2>3 DEF new
<1> QED
  BY <1>2, <1>3, <1>4

\* A task has handled the first buffer of its stage.
LEMMA OrderHandled ==
  ASSUME NEW il \in Seq(Buffers), NEW nl \in Seq(Buffers), NEW ar \in Seq(Buffers),
         NEW data \in [Buffers -> Payload], NEW n \in Nat, NEW h \in Seq(Payload),
         NEW x \in Buffers
  PROVE  /\ Order(<<x>> \o il, nl, ar, data, n, h)
              => Order(il, nl, ar, data, n, Append(h, data[x]))
         /\ Order(il, <<x>> \o nl, ar, data, n, h)
              => Order(il, nl, ar, data, n, Append(h, data[x]))
<1> DEFINE new == Append(h, data[x])
<1>1. /\ new \in Seq(Payload) /\ Len(new) = Len(h) + 1 /\ new[Len(h) + 1] = data[x]
      /\ \A i \in 1 .. Len(h) : new[i] = h[i]
      /\ Len(h) \in Nat
  BY AppendProperties, LenProperties
<1>2. ASSUME NEW i \in 1 .. Len(new)
      PROVE  i \in 1 .. Len(h) \/ i = Len(h) + 1
  BY <1>1, SMT
<1>3. \A i \in 1 .. Len(h) : ~(Len(h) + 1 < i)
  BY <1>1, SMT
<1>4. ~(Len(h) + 1 < Len(h) + 1)
  BY <1>1, SMT
<1> HIDE DEF new
<1>5. ASSUME Order(<<x>> \o il, nl, ar, data, n, h)
      PROVE  Order(il, nl, ar, data, n, new)
  <2> DEFINE all == <<x>> \o il
  <2>1. /\ ToSet(all) = {x} \cup ToSet(il)
        /\ SortedBy(data, il) /\ \A b \in ToSet(il) : data[x].seq < data[b].seq
    BY <1>5, SortedFirst DEF Order
  <2>o. Order(all, nl, ar, data, n, h)
    BY <1>5
  <2> HIDE DEF all
  <2>2. Order(il, nl, ar, data, n, h)
    BY <2>o, <2>1 DEF Order, Before
  <2>3. /\ data[x].kind = "internal" /\ data[x].seq <= n
        /\ \A b \in ToSet(ar) : data[x].seq < data[b].seq
        /\ \A i \in 1 .. Len(h) : h[i].kind = "internal" => h[i].seq < data[x].seq
    BY <2>o, <2>1 DEF Order, Before
  <2>4. ASSUME NEW i \in 1 .. Len(new), NEW j \in 1 .. Len(new), i < j,
               new[i].kind = new[j].kind
        PROVE  new[i].seq < new[j].seq
    BY <1>1, <1>2, <1>3, <1>4, <2>2, <2>3, <2>4 DEF Order
  <2>5. ASSUME NEW i \in 1 .. Len(new)
        PROVE  /\ new[i].kind # "broken" /\ new[i].seq <= n
               /\ \A b \in ToSet(ar) : new[i].seq < data[b].seq
               /\ new[i].kind = "internal"
                    => \A b \in ToSet(il) : new[i].seq < data[b].seq
               /\ new[i].kind = "netif"
                    => \A b \in ToSet(nl) : new[i].seq < data[b].seq
    <3>1. CASE i \in 1 .. Len(h)
      BY <1>1, <2>2, <3>1 DEF Order
    <3>2. CASE i = Len(h) + 1
      BY <1>1, <2>1, <2>3, <3>2
    <3> QED
      BY <1>2, <3>1, <3>2
  <2> QED
    BY <2>2, <2>4, <2>5 DEF Order
<1>6. ASSUME Order(il, <<x>> \o nl, ar, data, n, h)
      PROVE  Order(il, nl, ar, data, n, new)
  <2> DEFINE all == <<x>> \o nl
  <2>1. /\ ToSet(all) = {x} \cup ToSet(nl)
        /\ SortedBy(data, nl) /\ \A b \in ToSet(nl) : data[x].seq < data[b].seq
    BY <1>6, SortedFirst DEF Order
  <2>o. Order(il, all, ar, data, n, h)
    BY <1>6
  <2> HIDE DEF all
  <2>2. Order(il, nl, ar, data, n, h)
    BY <2>o, <2>1 DEF Order, Before
  <2>3. /\ data[x].kind = "netif" /\ data[x].seq <= n
        /\ \A b \in ToSet(ar) : data[x].seq < data[b].seq
        /\ \A i \in 1 .. Len(h) : h[i].kind = "netif" => h[i].seq < data[x].seq
    BY <2>o, <2>1 DEF Order, Before
  <2>4. ASSUME NEW i \in 1 .. Len(new), NEW j \in 1 .. Len(new), i < j,
               new[i].kind = new[j].kind
        PROVE  new[i].seq < new[j].seq
    BY <1>1, <1>2, <1>3, <1>4, <2>2, <2>3, <2>4 DEF Order
  <2>5. ASSUME NEW i \in 1 .. Len(new)
        PROVE  /\ new[i].kind # "broken" /\ new[i].seq <= n
               /\ \A b \in ToSet(ar) : new[i].seq < data[b].seq
               /\ new[i].kind = "internal"
                    => \A b \in ToSet(il) : new[i].seq < data[b].seq
               /\ new[i].kind = "netif"
                    => \A b \in ToSet(nl) : new[i].seq < data[b].seq
    <3>1. CASE i \in 1 .. Len(h)
      BY <1>1, <2>2, <3>1 DEF Order
    <3>2. CASE i = Len(h) + 1
      BY <1>1, <2>1, <2>3, <3>2
    <3> QED
      BY <1>2, <3>1, <3>2
  <2> QED
    BY <2>2, <2>4, <2>5 DEF Order
<1> QED
  BY <1>5, <1>6 DEF new

LEMMA OrderStep == PoolTypes /\ PoolInv /\ PoolOrderInv /\ [PoolNext]_poolvars => PoolOrderInv'
<1> SUFFICES ASSUME PoolTypes, PoolInv, PoolOrderInv, [PoolNext]_poolvars PROVE PoolOrderInv'
  OBVIOUS
<1>t. /\ spi_rx_queue \in Seq(Buffers) /\ internal_queue \in Seq(Buffers)
      /\ netif_queue \in Seq(Buffers)
      /\ spi \in Buffers \cup {NoBuffer} /\ process \in Buffers \cup {NoBuffer}
      /\ internal \in Buffers \cup {NoBuffer} /\ netif \in Buffers \cup {NoBuffer}
      /\ payload \in [Buffers -> Payload] /\ received \in Nat
      /\ handled \in Seq(Payload)
  BY DEF PoolTypes
<1>a. /\ Arrived \in Seq(Buffers) /\ InternalLine \in Seq(Buffers)
      /\ NetifLine \in Seq(Buffers)
      /\ Used = ToSet(Arrived) \cup ToSet(InternalLine) \cup ToSet(NetifLine)
  BY LinesAre
<1>o. Order(InternalLine, NetifLine, Arrived, payload, received, handled)
  BY DEF PoolOrderInv
<1>u. UNCHANGED <<InternalLine, NetifLine, Arrived, payload, received, handled>>
        => PoolOrderInv'
  BY <1>o DEF PoolOrderInv
<1>h. ASSUME NEW b \in Buffers, NEW q \in Seq(Buffers)
      PROVE  Held(b) \o q = <<b>> \o q /\ Held(NoBuffer) \o q = q
  BY BuffersAssumption, ConcatEmptySeq DEF Held
<1>q. ASSUME NEW b \in Buffers \cup {NoBuffer}, NEW q \in Seq(Buffers), NEW x \in Buffers
      PROVE  Held(b) \o Append(q, x) = Append(Held(b) \o q, x)
  <2> DEFINE h == Held(b)
  <2>1. h \in Seq(Buffers) /\ <<x>> \in Seq(Buffers)
    BY HeldIs
  <2> HIDE DEF h
  <2>2. Append(q, x) = q \o <<x>> /\ Append(h \o q, x) = (h \o q) \o <<x>>
    BY <2>1, AppendIsConcat, ConcatProperties
  <2>3. (h \o q) \o <<x>> = h \o (q \o <<x>>)
    BY <2>1, ConcatAssociative
  <2> QED
    BY <2>2, <2>3 DEF h
<1>1. CASE UNCHANGED poolvars
  BY <1>1, <1>u DEF poolvars, InternalLine, NetifLine, Arrived
<1>2. CASE Poll \/ PollFails
  BY <1>2, <1>u DEF Poll, PollFails, queues, InternalLine, NetifLine, Arrived
<1>3. ASSUME NEW k \in Kinds, Receive(k) PROVE PoolOrderInv'
  <2>1. /\ UNCHANGED <<internal_queue, netif_queue, process, internal, netif, handled>>
        /\ spi \in Buffers /\ spi # NoBuffer /\ received' = received + 1
        /\ payload' = [payload EXCEPT ![spi] = [kind |-> k, seq |-> received + 1]]
        /\ \/ spi_rx_queue' = Append(spi_rx_queue, spi)
           \/ spi_rx_queue' = spi_rx_queue
    BY <1>3, <1>t DEF Receive, queues
  <2>2. spi \notin ToSet(Arrived) \cup ToSet(InternalLine) \cup ToSet(NetifLine)
    BY <2>1, <1>a, SpiIsAlone
  <2>3. InternalLine' = InternalLine /\ NetifLine' = NetifLine
    BY <2>1 DEF InternalLine, NetifLine
  <2>4. Arrived' = Append(Arrived, spi) \/ Arrived' = Arrived
    <3>1. Held(process) \o Append(spi_rx_queue, spi)
            = Append(Held(process) \o spi_rx_queue, spi)
      BY <2>1, <1>q, <1>t
    <3>2. CASE spi_rx_queue' = Append(spi_rx_queue, spi)
      BY <2>1, <3>1, <3>2 DEF Arrived
    <3>3. CASE spi_rx_queue' = spi_rx_queue
      BY <2>1, <3>3 DEF Arrived
    <3> QED
      BY <2>1, <3>2, <3>3
  <2>5. /\ Order(InternalLine, NetifLine, Arrived, payload', received', handled)
        /\ Order(InternalLine, NetifLine, Append(Arrived, spi), payload', received',
                 handled)
    BY <1>a, <1>o, <1>t, <2>1, <2>2, OrderReceived
  <2> QED
    BY <2>1, <2>3, <2>4, <2>5 DEF PoolOrderInv
<1>4. CASE Fetch
  <2>1. /\ UNCHANGED <<internal_queue, netif_queue, internal, netif, payload,
                       received, handled>>
        /\ process = NoBuffer /\ spi_rx_queue # <<>>
        /\ process' = Head(spi_rx_queue) /\ spi_rx_queue' = Tail(spi_rx_queue)
    BY <1>4 DEF Fetch, queues
  <2>2. Arrived' = Arrived
    BY <2>1, <1>t, LineKept DEF Arrived
  <2> QED
    BY <2>1, <2>2, <1>u DEF InternalLine, NetifLine
<1>5. CASE DropBroken \/ DropFull
  <2>1. /\ UNCHANGED <<spi_rx_queue, internal_queue, netif_queue, internal, netif,
                       payload, received, handled>>
        /\ process \in Buffers /\ process' = NoBuffer
    BY <1>5, <1>t DEF DropBroken, DropFull, Overflows, queues
  <2>2. Arrived = <<process>> \o spi_rx_queue /\ Arrived' = spi_rx_queue
    BY <2>1, <1>t, <1>h DEF Arrived
  <2>3. Order(InternalLine, NetifLine, spi_rx_queue, payload, received, handled)
    BY <1>a, <1>o, <1>t, <2>1, <2>2, OrderProcessed
  <2>4. InternalLine' = InternalLine /\ NetifLine' = NetifLine
    BY <2>1 DEF InternalLine, NetifLine
  <2> QED
    BY <2>1, <2>2, <2>3, <2>4 DEF PoolOrderInv
<1>6. CASE QueueInternal
  <2>1. /\ UNCHANGED <<spi_rx_queue, netif_queue, internal, netif,
                       payload, received, handled>>
        /\ process \in Buffers /\ process' = NoBuffer
        /\ payload[process].kind = "internal"
        /\ internal_queue' = Append(internal_queue, process)
    BY <1>6, <1>t DEF QueueInternal, pool
  <2>2. Arrived = <<process>> \o spi_rx_queue /\ Arrived' = spi_rx_queue
    BY <2>1, <1>t, <1>h DEF Arrived
  <2>3. Order(Append(InternalLine, process), NetifLine, spi_rx_queue, payload,
              received, handled)
    BY <1>a, <1>o, <1>t, <2>1, <2>2, OrderProcessed
  <2>4. InternalLine' = Append(InternalLine, process)
    BY <2>1, <1>t, <1>q DEF InternalLine
  <2>5. NetifLine' = NetifLine
    BY <2>1 DEF NetifLine
  <2> QED
    BY <2>1, <2>2, <2>3, <2>4, <2>5 DEF PoolOrderInv
<1>7. CASE QueueNetif
  <2>1. /\ UNCHANGED <<spi_rx_queue, internal_queue, internal, netif,
                       payload, received, handled>>
        /\ process \in Buffers /\ process' = NoBuffer
        /\ payload[process].kind = "netif"
        /\ netif_queue' = Append(netif_queue, process)
    BY <1>7, <1>t DEF QueueNetif, pool
  <2>2. Arrived = <<process>> \o spi_rx_queue /\ Arrived' = spi_rx_queue
    BY <2>1, <1>t, <1>h DEF Arrived
  <2>3. Order(InternalLine, Append(NetifLine, process), spi_rx_queue, payload,
              received, handled)
    BY <1>a, <1>o, <1>t, <2>1, <2>2, OrderProcessed
  <2>4. NetifLine' = Append(NetifLine, process)
    BY <2>1, <1>t, <1>q DEF NetifLine
  <2>5. InternalLine' = InternalLine
    BY <2>1 DEF InternalLine
  <2> QED
    BY <2>1, <2>2, <2>3, <2>4, <2>5 DEF PoolOrderInv
<1>8. CASE InternalStart
  <2>1. /\ UNCHANGED <<spi_rx_queue, netif_queue, process, netif, payload,
                       received, handled>>
        /\ internal = NoBuffer /\ internal_queue # <<>>
        /\ internal' = Head(internal_queue) /\ internal_queue' = Tail(internal_queue)
    BY <1>8 DEF InternalStart, pool
  <2>2. InternalLine' = InternalLine
    BY <2>1, <1>t, LineKept DEF InternalLine
  <2> QED
    BY <2>1, <2>2, <1>u DEF Arrived, NetifLine
<1>9. CASE NetifStart
  <2>1. /\ UNCHANGED <<spi_rx_queue, internal_queue, process, internal, payload,
                       received, handled>>
        /\ netif = NoBuffer /\ netif_queue # <<>>
        /\ netif' = Head(netif_queue) /\ netif_queue' = Tail(netif_queue)
    BY <1>9 DEF NetifStart, pool
  <2>2. NetifLine' = NetifLine
    BY <2>1, <1>t, LineKept DEF NetifLine
  <2> QED
    BY <2>1, <2>2, <1>u DEF Arrived, InternalLine
<1>10. CASE InternalDone
  <2>1. /\ UNCHANGED <<spi_rx_queue, internal_queue, netif_queue, process, netif,
                       payload, received>>
        /\ internal \in Buffers /\ internal' = NoBuffer
        /\ handled' = Append(handled, payload[internal])
    BY <1>10, <1>t DEF InternalDone, queues
  <2>2. InternalLine = <<internal>> \o internal_queue
        /\ InternalLine' = internal_queue
    BY <2>1, <1>t, <1>h DEF InternalLine
  <2>3. Arrived' = Arrived /\ NetifLine' = NetifLine
    BY <2>1 DEF Arrived, NetifLine
  <2>4. Order(internal_queue, NetifLine, Arrived, payload, received, handled')
    BY <1>a, <1>o, <1>t, <2>1, <2>2, OrderHandled
  <2> QED
    BY <2>1, <2>2, <2>3, <2>4 DEF PoolOrderInv
<1>11. CASE NetifDone
  <2>1. /\ UNCHANGED <<spi_rx_queue, internal_queue, netif_queue, process, internal,
                       payload, received>>
        /\ netif \in Buffers /\ netif' = NoBuffer
        /\ handled' = Append(handled, payload[netif])
    BY <1>11, <1>t DEF NetifDone, queues
  <2>2. NetifLine = <<netif>> \o netif_queue /\ NetifLine' = netif_queue
    BY <2>1, <1>t, <1>h DEF NetifLine
  <2>3. Arrived' = Arrived /\ InternalLine' = InternalLine
    BY <2>1 DEF Arrived, InternalLine
  <2>4. Order(InternalLine, netif_queue, Arrived, payload, received, handled')
    BY <1>a, <1>o, <1>t, <2>1, <2>2, OrderHandled
  <2> QED
    BY <2>1, <2>2, <2>3, <2>4 DEF PoolOrderInv
<1> QED
  BY <1>1, <1>2, <1>3, <1>4, <1>5, <1>6, <1>7, <1>8, <1>9, <1>10, <1>11
     DEF PoolNext, Process, Internal, Netif

----------------------------------------------------------------------------
BufferInv == PoolTypes /\ PoolInv /\ PoolOrderInv

LEMMA BufferInvariant == PoolSpec => []BufferInv
<1>1. PoolInit => BufferInv
  BY PoolTypesInit, PoolInvInit, OrderInit DEF BufferInv
<1>2. BufferInv /\ [PoolNext]_poolvars => BufferInv'
  BY PoolTypesStep, PoolInvStep, OrderStep DEF BufferInv
<1> QED
  BY <1>1, <1>2, PTL DEF PoolSpec

\* spi.c, ring_link.c, ring_link_internal.c, ring_link_netif.c: for any pool and
\* any queues, every buffer is in exactly one place.
THEOREM ConservedTheorem == PoolSpec => []Conserved
<1>1. BufferInv => Conserved
  BY ConservedIs DEF BufferInv
<1> QED
  BY <1>1, BufferInvariant, PTL

\* The same files: each task handles its packets once and in the order they
\* were received in, and no broken one.
THEOREM HandledInOrderTheorem == PoolSpec => []HandledInOrder
<1>1. BufferInv => HandledInOrder
  BY DEF BufferInv, PoolOrderInv, Order, HandledInOrder
<1> QED
  BY <1>1, BufferInvariant, PTL
=============================================================================
