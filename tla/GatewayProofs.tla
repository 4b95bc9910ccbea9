---------------------------- MODULE GatewayProofs ----------------------------
(***************************************************************************)
(* Theorems about Gateway, for any boards, any networks, any distances and  *)
(* any number of events from peers, in the root node and in another.        *)
(***************************************************************************)
EXTENDS Gateway, SequenceTheorems, FiniteSetTheorems, TLAPS

----------------------------------------------------------------------------
(* Events and what a queue of them may hold.                               *)

SiblingEvents ==
  [id : {"ON_START"}]
  \cup [id : {"PROVISION"}, network : Networks \cup {RootNetwork},
        dtr : 1 .. MaxDtr + 1]
  \cup [id : {"SEND_NEW_GATEWAY_REQUEST"}, hag : Seq(Networks)]
  \cup [id : {"NEW_GATEWAY_WINNER"}, dtr : 1 .. MaxDtr + 1]

PeerEvents ==
  [id : {"CONNECTED", "LOST"}]
  \cup [id : {"HANDSHAKE"}, external : Networks \cup {Zero},
        provided : Networks \cup {Zero}, dtr : 0 .. MaxDtr]
  \cup [id : {"NEW_GATEWAY_REQUEST"}, hag : Seq(Networks)]
  \cup [id : {"NEW_GATEWAY_RESPONSE"}, dtr : 1 .. MaxDtr]

Has(s, id) == \E i \in 1 .. Len(s) : s[i].id = id

OnlyStarts(s) == \A i \in 1 .. Len(s) : s[i].id = "ON_START"

\* The first event of s that is not ON_START is one of ids.
Leads(s, ids) ==
  \E i \in 1 .. Len(s) :
    s[i].id \in ids /\ \A j \in 1 .. i - 1 : s[j].id = "ON_START"

\* A PROVISION of s comes before everything but ON_START and others of them.
ProvisionFirst(s) ==
  \A i \in 1 .. Len(s) : s[i].id = "PROVISION"
     => \A j \in 1 .. i - 1 : s[j].id \in {"ON_START", "PROVISION"}

\* A PROVISION of s with network n, or only with those of the root node.
Offers(s, n) == \E i \in 1 .. Len(s) : s[i].id = "PROVISION" /\ s[i].network = n
NearRoot(s) == \A i \in 1 .. Len(s) :
                 s[i].id = "PROVISION" => s[i].network = RootNetwork /\ s[i].dtr = 1

\* A peer's request comes after its handshake, a handshake provides a network.
GreetsFirst(s) ==
  \A i \in 1 .. Len(s) : s[i].id = "NEW_GATEWAY_REQUEST"
     => \E j \in 1 .. i - 1 : s[j].id = "HANDSHAKE"
Provides(s) ==
  \A i \in 1 .. Len(s) : s[i].id = "HANDSHAKE" => s[i].provided \in Networks

\* t is s with any number of copies of e behind it.
Grows(s, e, t) ==
  /\ Len(t) >= Len(s)
  /\ \A i \in 1 .. Len(s) : t[i] = s[i]
  /\ \A i \in Len(s) + 1 .. Len(t) : t[i] = e

LEMMA ConcatFacts ==
  ASSUME NEW S, NEW s \in Seq(S)
  PROVE  /\ \A a \in S : s \o <<a>> = Append(s, a)
         /\ \A a, b \in S : s \o <<a, b>> = Append(Append(s, a), b)
         /\ \A a, b, c \in S :
              s \o <<a, b, c>> = Append(Append(Append(s, a), b), c)
BY SMT

LEMMA AppendGrows ==
  ASSUME NEW S, NEW s \in Seq(S), NEW e \in S
  PROVE  /\ Append(s, e) \in Seq(S) /\ Grows(s, e, Append(s, e))
         /\ Len(Append(s, e)) > Len(s)
BY SMT DEF Grows

LEMMA CopiesGrow ==
  ASSUME NEW S, NEW s \in Seq(S), NEW e \in S, NEW n \in Nat
  PROVE  /\ s \o Copies(e, n) \in Seq(S) /\ Grows(s, e, s \o Copies(e, n))
         /\ n # 0 => Len(s \o Copies(e, n)) > Len(s)
<1> DEFINE r == Copies(e, n)
           t == s \o r
<1>1. r \in Seq(S) /\ Len(r) = n /\ \A i \in 1 .. n : r[i] = e
  BY SMT DEF Copies
<1> HIDE DEF r
<1>2. /\ t \in Seq(S) /\ Len(t) = Len(s) + n /\ Len(s) \in Nat
      /\ \A i \in 1 .. Len(s) : t[i] = s[i]
      /\ \A i \in Len(s) + 1 .. Len(s) + n : t[i] = r[i - Len(s)]
  BY <1>1, SMT
<1> HIDE DEF t
<1>3. \A i \in Len(s) + 1 .. Len(t) : t[i] = e
  <2> SUFFICES ASSUME NEW i \in Len(s) + 1 .. Len(t) PROVE t[i] = e
    OBVIOUS
  <2>1. i \in Len(s) + 1 .. Len(s) + n /\ i - Len(s) \in 1 .. n
    BY <1>2, SMT
  <2> QED
    BY <1>1, <1>2, <2>1
<1>4. Len(t) >= Len(s) /\ (n # 0 => Len(t) > Len(s))
  BY <1>2, SMT
<1>5. t \in Seq(S) /\ Grows(s, e, t) /\ (n # 0 => Len(t) > Len(s))
  BY <1>2, <1>3, <1>4 DEF Grows
<1> QED
  BY <1>5 DEF t, r

LEMMA TailFacts ==
  ASSUME NEW S, NEW s \in Seq(S), s # <<>>
  PROVE  /\ Tail(s) \in Seq(S) /\ Head(s) = s[1] /\ Head(s) \in S
         /\ Len(s) \in Nat \ {0} /\ Len(Tail(s)) = Len(s) - 1
         /\ \A i \in 1 .. Len(s) - 1 : Tail(s)[i] = s[i + 1]
BY SMT

LEMMA HasGrows ==
  ASSUME NEW S, NEW s \in Seq(S), NEW e \in S, NEW t \in Seq(S), Grows(s, e, t),
         NEW id
  PROVE  /\ Has(s, id) => Has(t, id)
         /\ Has(t, id) => Has(s, id) \/ e.id = id
         /\ e.id = id /\ Len(t) > Len(s) => Has(t, id)
BY SMT DEF Has, Grows

LEMMA HasFacts ==
  ASSUME NEW S, NEW s \in Seq(S), NEW id
  PROVE  /\ ~Has(<<>>, id)
         /\ s # <<>> => (Has(s, id) <=> Head(s).id = id \/ Has(Tail(s), id))
<1>1. ~Has(<<>>, id)
  BY SMT DEF Has
<1>2. ASSUME s # <<>>
      PROVE  Has(s, id) <=> Head(s).id = id \/ Has(Tail(s), id)
  <2> DEFINE t == Tail(s)
  <2>1. /\ Head(s) = s[1] /\ Len(s) \in Nat \ {0} /\ Len(t) = Len(s) - 1
        /\ \A i \in 1 .. Len(s) - 1 : t[i] = s[i + 1]
    BY <1>2, TailFacts
  <2> HIDE DEF t
  <2>2. ASSUME Has(s, id), s[1].id # id PROVE Has(t, id)
    <3>1. PICK i \in 1 .. Len(s) : s[i].id = id
      BY <2>2 DEF Has
    <3>2. i - 1 \in 1 .. Len(t) /\ t[i - 1] = s[i]
      BY <2>1, <2>2, <3>1, SMT
    <3> QED
      BY <3>1, <3>2 DEF Has
  <2>3. ASSUME Has(t, id) PROVE Has(s, id)
    <3>1. PICK i \in 1 .. Len(t) : t[i].id = id
      BY <2>3 DEF Has
    <3>2. i + 1 \in 1 .. Len(s) /\ s[i + 1] = t[i]
      BY <2>1, <3>1, SMT
    <3> QED
      BY <3>1, <3>2 DEF Has
  <2>4. 1 \in 1 .. Len(s)
    BY <2>1, SMT
  <2>5. Has(s, id) <=> Head(s).id = id \/ Has(t, id)
    BY <2>1, <2>2, <2>3, <2>4 DEF Has
  <2> QED
    BY <2>5 DEF t
<1> QED
  BY <1>1, <1>2

LEMMA OffersGrows ==
  ASSUME NEW S, NEW s \in Seq(S), NEW e \in S, NEW t \in Seq(S), Grows(s, e, t),
         NEW n
  PROVE  /\ Offers(s, n) => Offers(t, n)
         /\ Offers(t, n) => Offers(s, n) \/ (e.id = "PROVISION" /\ e.network = n)
         /\ e.id = "PROVISION" /\ e.network = n /\ Len(t) > Len(s) => Offers(t, n)
BY SMT DEF Offers, Grows

LEMMA OffersFacts ==
  ASSUME NEW S, NEW s \in Seq(S), NEW n
  PROVE  /\ s # <<>> => (Offers(s, n)
                <=> \/ Head(s).id = "PROVISION" /\ Head(s).network = n
                    \/ Offers(Tail(s), n))
         /\ Offers(s, n) => Has(s, "PROVISION")
         /\ ~Offers(<<>>, n)
<1>1. ASSUME s # <<>>
      PROVE  Offers(s, n) <=> \/ Head(s).id = "PROVISION" /\ Head(s).network = n
                              \/ Offers(Tail(s), n)
  <2> DEFINE t == Tail(s)
             Is(e) == e.id = "PROVISION" /\ e.network = n
  <2>1. /\ Head(s) = s[1] /\ Len(s) \in Nat \ {0} /\ Len(t) = Len(s) - 1
        /\ \A i \in 1 .. Len(s) - 1 : t[i] = s[i + 1]
    BY <1>1, TailFacts
  <2> HIDE DEF t
  <2>2. ASSUME Offers(s, n), ~Is(s[1]) PROVE Offers(t, n)
    <3>1. PICK i \in 1 .. Len(s) : Is(s[i])
      BY <2>2 DEF Offers
    <3>2. i - 1 \in 1 .. Len(t) /\ t[i - 1] = s[i]
      BY <2>1, <2>2, <3>1, SMT
    <3> QED
      BY <3>1, <3>2 DEF Offers
  <2>3. ASSUME Offers(t, n) PROVE Offers(s, n)
    <3>1. PICK i \in 1 .. Len(t) : Is(t[i])
      BY <2>3 DEF Offers
    <3>2. i + 1 \in 1 .. Len(s) /\ s[i + 1] = t[i]
      BY <2>1, <3>1, SMT
    <3> QED
      BY <3>1, <3>2 DEF Offers
  <2>4. 1 \in 1 .. Len(s)
    BY <2>1, SMT
  <2>5. Offers(s, n) <=> Is(Head(s)) \/ Offers(t, n)
    BY <2>1, <2>2, <2>3, <2>4 DEF Offers
  <2> QED
    BY <2>5 DEF t
<1>2. Offers(s, n) => Has(s, "PROVISION")
  BY DEF Offers, Has
<1>3. ~Offers(<<>>, n)
  BY SMT DEF Offers
<1> QED
  BY <1>1, <1>2, <1>3

LEMMA OnlyStartsFacts ==
  ASSUME NEW S, NEW s \in Seq(S)
  PROVE  /\ OnlyStarts(<<>>)
         /\ \A e \in S : e.id = "ON_START" => OnlyStarts(<<e>>)
         /\ s # <<>> /\ OnlyStarts(s)
              => Head(s).id = "ON_START" /\ OnlyStarts(Tail(s))
         /\ OnlyStarts(s) => \A id : id # "ON_START" => ~Has(s, id)
<1>1. OnlyStarts(<<>>) /\ \A e \in S : e.id = "ON_START" => OnlyStarts(<<e>>)
  BY SMT DEF OnlyStarts
<1>2. ASSUME s # <<>>, OnlyStarts(s)
      PROVE  Head(s).id = "ON_START" /\ OnlyStarts(Tail(s))
  <2> DEFINE t == Tail(s)
  <2>1. /\ Head(s) = s[1] /\ Len(s) \in Nat \ {0} /\ Len(t) = Len(s) - 1
        /\ \A i \in 1 .. Len(s) - 1 : t[i] = s[i + 1]
    BY <1>2, TailFacts
  <2> HIDE DEF t
  <2>2. Head(s).id = "ON_START" /\ OnlyStarts(t)
    BY <2>1, <1>2, SMT DEF OnlyStarts
  <2> QED
    BY <2>2 DEF t
<1>3. OnlyStarts(s) => \A id : id # "ON_START" => ~Has(s, id)
  BY DEF OnlyStarts, Has
<1> QED
  BY <1>1, <1>2, <1>3

LEMMA LeadsGrows ==
  ASSUME NEW S, NEW s \in Seq(S), NEW e \in S, NEW t \in Seq(S), Grows(s, e, t),
         NEW ids,
         \/ Leads(s, ids)
         \/ OnlyStarts(s) /\ e.id \in ids /\ Len(t) > Len(s)
  PROVE  Leads(t, ids)
<1>1. /\ Len(s) \in Nat /\ Len(t) \in Nat /\ Len(t) >= Len(s)
      /\ \A i \in 1 .. Len(s) : t[i] = s[i]
      /\ \A i \in Len(s) + 1 .. Len(t) : t[i] = e
  BY DEF Grows
<1>2. CASE Leads(s, ids)
  <2>1. PICK i \in 1 .. Len(s) :
          s[i].id \in ids /\ \A j \in 1 .. i - 1 : s[j].id = "ON_START"
    BY <1>2 DEF Leads
  <2>2. i \in 1 .. Len(t) /\ \A j \in 1 .. i - 1 : j \in 1 .. Len(s)
    BY <1>1, <2>1, SMT
  <2>3. t[i].id \in ids /\ \A j \in 1 .. i - 1 : t[j].id = "ON_START"
    BY <1>1, <2>1, <2>2
  <2> QED
    BY <2>2, <2>3, Zenon DEF Leads
<1>3. CASE OnlyStarts(s) /\ e.id \in ids /\ Len(t) > Len(s)
  <2> DEFINE k == Len(s) + 1
  <2>1. k \in 1 .. Len(t) /\ t[k] = e /\ k - 1 = Len(s)
    BY <1>1, <1>3, SMT
  <2>2. \A j \in 1 .. k - 1 : t[j].id = "ON_START"
    BY <1>1, <1>3, <2>1 DEF OnlyStarts
  <2> HIDE DEF k
  <2>3. t[k].id \in ids
    BY <1>3, <2>1
  <2> QED
    BY <2>1, <2>2, <2>3, Zenon DEF Leads
<1> QED
  BY <1>2, <1>3

LEMMA LeadsFacts ==
  ASSUME NEW S, NEW s \in Seq(S), NEW ids, "ON_START" \notin ids
  PROVE  /\ ~Leads(<<>>, ids)
         /\ s # <<>> /\ Leads(s, ids) /\ Head(s).id \notin ids
              => Head(s).id = "ON_START" /\ Leads(Tail(s), ids)
         /\ Leads(s, ids) => ~OnlyStarts(s)
<1>1. ~Leads(<<>>, ids)
  BY SMT DEF Leads
<1>2. ASSUME s # <<>>, Leads(s, ids), Head(s).id \notin ids
      PROVE  Head(s).id = "ON_START" /\ Leads(Tail(s), ids)
  <2> DEFINE t == Tail(s)
  <2>1. /\ Head(s) = s[1] /\ Len(s) \in Nat \ {0} /\ Len(t) = Len(s) - 1
        /\ \A i \in 1 .. Len(s) - 1 : t[i] = s[i + 1]
    BY <1>2, TailFacts
  <2> HIDE DEF t
  <2>2. PICK i \in 1 .. Len(s) :
          s[i].id \in ids /\ \A j \in 1 .. i - 1 : s[j].id = "ON_START"
    BY <1>2 DEF Leads
  <2>3. /\ i # 1 /\ i - 1 \in 1 .. Len(t) /\ t[i - 1] = s[i]
        /\ 1 \in 1 .. i - 1
        /\ \A j \in 1 .. (i - 1) - 1 : j + 1 \in 1 .. i - 1 /\ t[j] = s[j + 1]
    BY <2>1, <2>2, <1>2, SMT
  <2>4. Head(s).id = "ON_START"
    BY <2>1, <2>2, <2>3
  <2>5. /\ t[i - 1].id \in ids
        /\ \A j \in 1 .. (i - 1) - 1 : t[j].id = "ON_START"
    BY <2>2, <2>3
  <2>6. Leads(t, ids)
    BY <2>3, <2>5 DEF Leads
  <2> QED
    BY <2>4, <2>6 DEF t
<1>3. Leads(s, ids) => ~OnlyStarts(s)
  BY DEF Leads, OnlyStarts
<1> QED
  BY <1>1, <1>2, <1>3

LEMMA ProvisionFirstGrows ==
  ASSUME NEW S, NEW s \in Seq(S), NEW e \in S, NEW t \in Seq(S), Grows(s, e, t),
         ProvisionFirst(s), e.id # "PROVISION" \/ OnlyStarts(s)
  PROVE  ProvisionFirst(t)
<1>1. /\ Len(s) \in Nat /\ Len(t) \in Nat
      /\ \A i \in 1 .. Len(s) : t[i] = s[i]
      /\ \A i \in Len(s) + 1 .. Len(t) : t[i] = e
  BY DEF Grows
<1> SUFFICES ASSUME NEW i \in 1 .. Len(t), t[i].id = "PROVISION",
                    NEW j \in 1 .. i - 1
             PROVE  t[j].id \in {"ON_START", "PROVISION"}
  BY DEF ProvisionFirst
<1>2. CASE i \in 1 .. Len(s)
  <2>1. j \in 1 .. Len(s)
    BY <1>1, <1>2, SMT
  <2> QED
    BY <1>1, <1>2, <2>1 DEF ProvisionFirst
<1>3. CASE i \notin 1 .. Len(s)
  <2>1. t[i] = e
    BY <1>1, <1>3, SMT
  <2>2. e.id = "PROVISION" /\ OnlyStarts(s)
    BY <2>1
  <2>3. CASE j \in 1 .. Len(s)
    BY <1>1, <2>2, <2>3 DEF OnlyStarts
  <2>4. CASE j \notin 1 .. Len(s)
    <3>1. t[j] = e
      BY <1>1, <2>4, SMT
    <3> QED
      BY <2>2, <3>1
  <2> QED
    BY <2>3, <2>4
<1> QED
  BY <1>2, <1>3

LEMMA ProvisionFirstFacts ==
  ASSUME NEW S, NEW s \in Seq(S), ProvisionFirst(s), s # <<>>
  PROVE  /\ ProvisionFirst(Tail(s))
         /\ Head(s).id \notin {"ON_START", "PROVISION"} => ~Has(Tail(s), "PROVISION")
<1> DEFINE t == Tail(s)
<1>1. /\ Head(s) = s[1] /\ Len(s) \in Nat \ {0} /\ Len(t) = Len(s) - 1
      /\ \A i \in 1 .. Len(s) - 1 : t[i] = s[i + 1]
  BY TailFacts
<1> HIDE DEF t
<1>2. ASSUME NEW i \in 1 .. Len(t), t[i].id = "PROVISION"
      PROVE  /\ Head(s).id \in {"ON_START", "PROVISION"}
             /\ \A j \in 1 .. i - 1 : t[j].id \in {"ON_START", "PROVISION"}
  <2>1. /\ i + 1 \in 1 .. Len(s) /\ s[i + 1] = t[i] /\ 1 \in 1 .. (i + 1) - 1
        /\ \A j \in 1 .. i - 1 : j + 1 \in 1 .. (i + 1) - 1 /\ t[j] = s[j + 1]
    BY <1>1, SMT
  <2>2. \A j \in 1 .. (i + 1) - 1 : s[j].id \in {"ON_START", "PROVISION"}
    BY <1>2, <2>1 DEF ProvisionFirst
  <2> QED
    BY <1>1, <2>1, <2>2
<1>3. ProvisionFirst(t)
  BY <1>2 DEF ProvisionFirst
<1>4. Head(s).id \notin {"ON_START", "PROVISION"} => ~Has(t, "PROVISION")
  BY <1>2 DEF Has
<1> QED
  BY <1>3, <1>4 DEF t

LEMMA NearRootGrows ==
  ASSUME NEW S, NEW s \in Seq(S), NEW e \in S, NEW t \in Seq(S), Grows(s, e, t),
         NearRoot(s),
         e.id = "PROVISION" => e.network = RootNetwork /\ e.dtr = 1
  PROVE  NearRoot(t)
BY SMT DEF NearRoot, Grows

LEMMA NearRootFacts ==
  ASSUME NEW S, NEW s \in Seq(S), NearRoot(s)
  PROVE  /\ s # <<>> =>
              /\ NearRoot(Tail(s))
              /\ Head(s).id = "PROVISION"
                   => Head(s).network = RootNetwork /\ Head(s).dtr = 1
         /\ \A n : Offers(s, n) => n = RootNetwork
<1>1. ASSUME s # <<>>
      PROVE  /\ NearRoot(Tail(s))
             /\ Head(s).id = "PROVISION"
                  => Head(s).network = RootNetwork /\ Head(s).dtr = 1
  <2> DEFINE t == Tail(s)
  <2>1. /\ Head(s) = s[1] /\ Len(s) \in Nat \ {0} /\ Len(t) = Len(s) - 1
        /\ \A i \in 1 .. Len(s) - 1 : t[i] = s[i + 1]
    BY <1>1, TailFacts
  <2> HIDE DEF t
  <2>2. /\ NearRoot(t)
        /\ Head(s).id = "PROVISION"
             => Head(s).network = RootNetwork /\ Head(s).dtr = 1
    BY <2>1, SMT DEF NearRoot
  <2> QED
    BY <2>2 DEF t
<1>2. \A n : Offers(s, n) => n = RootNetwork
  BY DEF Offers, NearRoot
<1> QED
  BY <1>1, <1>2

LEMMA GreetsFirstGrows ==
  ASSUME NEW S, NEW s \in Seq(S), NEW e \in S, NEW t \in Seq(S), Grows(s, e, t),
         GreetsFirst(s), e.id = "NEW_GATEWAY_REQUEST" => Has(s, "HANDSHAKE")
  PROVE  GreetsFirst(t)
<1>1. /\ Len(s) \in Nat /\ Len(t) \in Nat
      /\ \A i \in 1 .. Len(s) : t[i] = s[i]
      /\ \A i \in Len(s) + 1 .. Len(t) : t[i] = e
  BY DEF Grows
<1> SUFFICES ASSUME NEW i \in 1 .. Len(t), t[i].id = "NEW_GATEWAY_REQUEST"
             PROVE  \E j \in 1 .. i - 1 : t[j].id = "HANDSHAKE"
  BY DEF GreetsFirst
<1>2. CASE i \in 1 .. Len(s)
  <2>1. PICK j \in 1 .. i - 1 : s[j].id = "HANDSHAKE"
    BY <1>1, <1>2 DEF GreetsFirst
  <2>2. j \in 1 .. Len(s)
    BY <1>1, <1>2, SMT
  <2> QED
    BY <1>1, <2>1, <2>2
<1>3. CASE i \notin 1 .. Len(s)
  <2>1. t[i] = e /\ \A j \in 1 .. Len(s) : j \in 1 .. i - 1
    BY <1>1, <1>3, SMT
  <2>2. PICK j \in 1 .. Len(s) : s[j].id = "HANDSHAKE"
    BY <2>1 DEF Has
  <2> QED
    BY <1>1, <2>1, <2>2
<1> QED
  BY <1>2, <1>3

LEMMA GreetsFirstFacts ==
  ASSUME NEW S, NEW s \in Seq(S), GreetsFirst(s), s # <<>>
  PROVE  /\ Head(s).id # "NEW_GATEWAY_REQUEST"
         /\ Head(s).id # "HANDSHAKE" => GreetsFirst(Tail(s))
<1> DEFINE t == Tail(s)
<1>1. /\ Head(s) = s[1] /\ Len(s) \in Nat \ {0} /\ Len(t) = Len(s) - 1
      /\ \A i \in 1 .. Len(s) - 1 : t[i] = s[i + 1]
  BY TailFacts
<1> HIDE DEF t
<1>2. Head(s).id # "NEW_GATEWAY_REQUEST"
  <2>1. 1 \in 1 .. Len(s) /\ 1 .. 1 - 1 = {}
    BY <1>1, SMT
  <2> QED
    BY <1>1, <2>1 DEF GreetsFirst
<1>3. ASSUME Head(s).id # "HANDSHAKE", NEW i \in 1 .. Len(t),
             t[i].id = "NEW_GATEWAY_REQUEST"
      PROVE  \E j \in 1 .. i - 1 : t[j].id = "HANDSHAKE"
  <2>1. i + 1 \in 1 .. Len(s) /\ s[i + 1] = t[i]
    BY <1>1, SMT
  <2>2. PICK j \in 1 .. (i + 1) - 1 : s[j].id = "HANDSHAKE"
    BY <1>3, <2>1 DEF GreetsFirst
  <2>3. j # 1
    BY <1>1, <1>3, <2>2
  <2>4. j - 1 \in 1 .. i - 1 /\ t[j - 1] = s[j]
    BY <1>1, <2>2, <2>3, SMT
  <2> QED
    BY <2>2, <2>4
<1> QED
  BY <1>2, <1>3 DEF t, GreetsFirst

LEMMA ProvidesGrows ==
  ASSUME NEW S, NEW s \in Seq(S), NEW e \in S, NEW t \in Seq(S), Grows(s, e, t),
         Provides(s), e.id = "HANDSHAKE" => e.provided \in Networks
  PROVE  Provides(t)
BY SMT DEF Provides, Grows

LEMMA ProvidesFacts ==
  ASSUME NEW S, NEW s \in Seq(S), Provides(s), s # <<>>
  PROVE  /\ Provides(Tail(s))
         /\ Head(s).id = "HANDSHAKE" => Head(s).provided \in Networks
<1> DEFINE t == Tail(s)
<1>1. /\ Head(s) = s[1] /\ Len(s) \in Nat \ {0} /\ Len(t) = Len(s) - 1
      /\ \A i \in 1 .. Len(s) - 1 : t[i] = s[i + 1]
  BY TailFacts
<1> HIDE DEF t
<1>2. Provides(t) /\ (Head(s).id = "HANDSHAKE" => Head(s).provided \in Networks)
  BY <1>1, SMT DEF Provides
<1> QED
  BY <1>2 DEF t

----------------------------------------------------------------------------
(* The inductive invariant.                                                *)

Types ==
  /\ TypeOK
  /\ internal \in [Board -> Seq(SiblingEvents)]
  /\ external \in [Board -> Seq(PeerEvents)]

IsWithout(f) == global_state[f] = "WITHOUT_NETWORK"

\* A board without a network knows nothing of its peer's requests.
WithoutInv ==
  \A f \in Forwarders : IsWithout(f) =>
    /\ dtr[f] = 0 /\ ~is_local_root[f] /\ f \notin asked
    /\ node_network[f] = Zero
    /\ link[f] = "greeted" => Has(external[f], "HANDSHAKE")
    /\ GreetsFirst(external[f]) /\ Provides(external[f])

TurnInv ==
  /\ phase = "external" /\ turn \in Forwarders /\ ~is_root => internal[turn] = <<>>
  /\ phase = "timeout" =>
       /\ turn = Center /\ is_root /\ internal[Center] # <<>>
       /\ Head(internal[Center]).id = "SEND_NEW_GATEWAY_REQUEST"

\* A board of the root node gets the root's network and distance 1 together,
\* and no peer talks to it before.
RootBoard(f) ==
  /\ ~is_local_root[f] /\ global_state[f] # "ON_GW_REQUEST"
  /\ node_network[f] # Zero => node_network[f] = RootNetwork /\ dtr[f] = 1
  /\ node_network[f] = Zero => /\ external[f] = <<>> /\ link[f] = "down"
                               /\ local_state[f] = "NOT_CONNECTED"
RootInv ==
  /\ is_root => \A f \in Forwarders : RootBoard(f) /\ NearRoot(internal[f])
  /\ ~is_root => ~gateway_requested

\* The node's boards get to know of a network: the root's from its center, the
\* others from the first board that has one.
Informed ==
  IF is_root THEN ~Has(internal[Center], "ON_START")
  ELSE \E f \in Forwarders : ~IsWithout(f)
Informers == IF is_root THEN {"PROVISION"} ELSE {"PROVISION", "NEW_GATEWAY_WINNER"}

\* Before that nothing is queued, and after it the news comes first at every
\* board without a network, before anything its own peer says.
Provisioned(f) ==
  IsWithout(f) \/ (global_state[f] = "WITH_NETWORK" /\ node_network[f] # Zero)
Started ==
  /\ ~Informed =>
       /\ \A f \in Forwarders : OnlyStarts(internal[f]) /\ IsWithout(f)
       /\ is_root => internal[Center] = <<[id |-> "ON_START"]>>
       /\ ~gateway_requested
  /\ Informed =>
       \A f \in Forwarders : IsWithout(f) => Leads(internal[f], Informers)
  /\ \A f \in Forwarders :
       /\ ProvisionFirst(internal[f])
       /\ Has(internal[f], "PROVISION") => Provisioned(f)
StartInv == RolesTold => Started

\* A network that a board has, or is about to have.
Holds(f, n) == node_network[f] = n \/ Offers(internal[f], n)
Nets == Networks \cup {RootNetwork}

\* There is only one, and while a PROVISION is on its way no board chooses
\* another; the boards that are told of all roles have it as well.
SameNetwork ==
  /\ \A f, g \in Forwarders : \A n, m \in Nets : Holds(f, n) /\ Holds(g, m) => n = m
  /\ ~is_root => \A f, g \in Forwarders : \A n \in Nets :
       Holds(f, n) /\ IsWithout(g) => Has(internal[g], "PROVISION")
NetworkSpread ==
  \A f, g \in Forwarders : \A n \in Nets : Holds(f, n) => Holds(g, n)
NetworkInv == /\ "PROVISION" \notin missed => SameNetwork
              /\ RolesTold => NetworkSpread

\* Of two local roots one is at distance 1, or about to hear of the other; a
\* local root that is not the default gateway of the node is about to step
\* down, or else the gateway waits for an answer.
Hears(f) == Has(internal[f], "NEW_GATEWAY_WINNER")
TwoRoots(f, g) ==
  /\ ~(dtr[f] = 1 /\ dtr[g] = 1)
  /\ dtr[f] # 1 /\ dtr[g] # 1 => Hears(f) \/ Hears(g)
GatewayOf(f) ==
  /\ default_gateway = f => is_local_root[f] \/ global_state[f] = "ON_GW_REQUEST"
  /\ is_local_root[f] /\ dtr[f] # 1 /\ default_gateway # f =>
       Hears(f) \/ global_state[default_gateway] = "ON_GW_REQUEST"
GatewayInPlace ==
  \A f \in Forwarders : /\ default_gateway = f => ~Hears(f)
                        /\ is_local_root[f] => default_gateway # Center
RootsApart ==
  RolesTold => \A f, g \in LocalRoots : f # g => TwoRoots(f, g)
GatewayFollows ==
  RolesTold /\ ~zero_route => \A f \in Forwarders : GatewayOf(f)
RootsInv == ~is_root => GatewayInPlace /\ RootsApart /\ GatewayFollows

\* A request that was not answered is on its way to the root's timer, or the
\* board waits.
CenterAsked ==
  IF phase = "timeout"
  THEN Has(Tail(internal[Center]), "SEND_NEW_GATEWAY_REQUEST")
  ELSE Has(internal[Center], "SEND_NEW_GATEWAY_REQUEST")
RequestTold == missed \cap {"SEND_NEW_GATEWAY_REQUEST", "NEW_GATEWAY_WINNER"} = {}
AskedInv ==
  \A f \in asked :
    IF is_root
    THEN RequestTold => gateway_requested \/ Hears(f) \/ CenterAsked
    ELSE RolesTold => global_state[f] = "ON_GW_REQUEST" \/ dtr[f] = 1

GatewayInv ==
  /\ Types /\ WithoutInv /\ TurnInv /\ RootInv /\ StartInv
  /\ NetworkInv /\ RootsInv /\ AskedInv

----------------------------------------------------------------------------
(* What the steps do to the queues.                                        *)

QueueTypes == /\ internal \in [Board -> Seq(SiblingEvents)]
              /\ external \in [Board -> Seq(PeerEvents)]

Takes(b, id) ==
  /\ internal[b] # <<>> /\ Head(internal[b]).id = id
  /\ internal'[b] = Tail(internal[b])
  /\ \A c \in Board : c # b => internal'[c] = internal[c]

PeerTakes(f, id) ==
  /\ external[f] # <<>> /\ Head(external[f]).id = id
  /\ external'[f] = Tail(external[f])
  /\ \A c \in Board : c # f => external'[c] = external[c]

\* Every other board gets copies of e, and one at least unless the history says
\* that some board missed it.
Spreads(b, e) ==
  \A c \in Board : c # b =>
    /\ Grows(internal[c], e, internal'[c])
    /\ e.id \notin missed' => Len(internal'[c]) > Len(internal[c])
Sends(f, e) == internal'[f] = internal[f] /\ Spreads(f, e)

\* What was missed stays missed, so that the parts of the invariant that speak
\* of boards that missed nothing held before the step.
Told == /\ RolesTold' => RolesTold
        /\ RequestTold' => RequestTold
        /\ "PROVISION" \notin missed' => "PROVISION" \notin missed
        /\ ~zero_route' => ~zero_route

LEMMA BoardFacts ==
  /\ Center \in Board /\ Center \notin Forwarders /\ None \notin Board
  /\ \A f \in Forwarders : f \in Board /\ f # Center
  /\ \A b \in Board : b = Center \/ b \in Forwarders
BY ForwardersAssumption DEF Board, Center, None

LEMMA NetworkFacts ==
  /\ Zero \notin Networks /\ RootNetwork \notin Networks /\ Zero # RootNetwork
  /\ Zero \notin Nets
BY NetworksAssumption DEF Zero, RootNetwork, Nets

LEMMA SiblingTaken ==
  ASSUME QueueTypes, NEW b \in Board, NEW id, Sibling(b, id), HandledSibling(b)
  PROVE  QueueTypes' /\ Takes(b, id) /\ external' = external
<1>1. Tail(internal[b]) \in Seq(SiblingEvents)
  BY TailFacts DEF QueueTypes, Sibling
<1>2. internal' = [internal EXCEPT ![b] = Tail(@)] /\ external' = external
  BY DEF HandledSibling
<1>3. internal' \in [Board -> Seq(SiblingEvents)]
  BY <1>1, <1>2 DEF QueueTypes
<1>4. /\ internal'[b] = Tail(internal[b])
      /\ \A c \in Board : c # b => internal'[c] = internal[c]
  BY <1>2 DEF QueueTypes
<1> QED
  BY <1>2, <1>3, <1>4 DEF QueueTypes, Takes, Sibling

LEMMA PeerQueueTaken ==
  ASSUME QueueTypes, NEW f \in Forwarders, NEW id, Peer(f, id),
         external' = [external EXCEPT ![f] = Tail(@)]
  PROVE  external' \in [Board -> Seq(PeerEvents)] /\ PeerTakes(f, id)
<1>1. f \in Board /\ Tail(external[f]) \in Seq(PeerEvents)
  BY TailFacts, BoardFacts DEF QueueTypes, Peer
<1>2. external' \in [Board -> Seq(PeerEvents)]
  BY <1>1 DEF QueueTypes
<1>3. /\ external'[f] = Tail(external[f])
      /\ \A c \in Board : c # f => external'[c] = external[c]
  BY <1>1 DEF QueueTypes
<1> QED
  BY <1>2, <1>3 DEF PeerTakes, Peer

LEMMA PeerTaken ==
  ASSUME QueueTypes, NEW f \in Forwarders, NEW id, Peer(f, id), HandledPeer(f)
  PROVE  QueueTypes' /\ PeerTakes(f, id) /\ internal' = internal
BY PeerQueueTaken DEF HandledPeer, QueueTypes

LEMMA BroadcastFacts ==
  ASSUME QueueTypes, NEW b \in Board, NEW e \in SiblingEvents,
         NEW rest \in Seq(SiblingEvents), Broadcasts(b, e, rest)
  PROVE  /\ internal' \in [Board -> Seq(SiblingEvents)]
         /\ internal'[b] = rest
         /\ Spreads(b, e)
<1>1. PICK copies \in [Board \ {b} -> 0 .. MAX_RETRIES] :
        /\ internal' = [c \in Board |-> IF c = b THEN rest
                                        ELSE internal[c] \o Copies(e, copies[c])]
        /\ missed' = missed
             \cup {k \in {e.id} : \E c \in Board \ {b} : copies[c] = 0}
  BY DEF Broadcasts
<1>2. ASSUME NEW c \in Board, c # b
      PROVE  /\ internal[c] \o Copies(e, copies[c]) \in Seq(SiblingEvents)
             /\ Grows(internal[c], e, internal[c] \o Copies(e, copies[c]))
             /\ copies[c] # 0 =>
                  Len(internal[c] \o Copies(e, copies[c])) > Len(internal[c])
  <2>1. copies[c] \in 0 .. MAX_RETRIES /\ internal[c] \in Seq(SiblingEvents)
    BY <1>1, <1>2 DEF QueueTypes
  <2>2. copies[c] \in Nat
    BY <2>1, LimitsAssumption, SMT
  <2> QED
    BY <2>1, <2>2, CopiesGrow
<1>3. \A c \in Board : internal'[c] = IF c = b THEN rest
                                      ELSE internal[c] \o Copies(e, copies[c])
  BY <1>1, Zenon
<1>4. internal' \in [Board -> Seq(SiblingEvents)]
  BY <1>1, <1>2, Zenon
<1>5. ASSUME e.id \notin missed', NEW c \in Board, c # b PROVE copies[c] # 0
  BY <1>1, <1>5
<1>6. Spreads(b, e)
  BY <1>2, <1>3, <1>5, Zenon DEF Spreads
<1> QED
  BY <1>3, <1>4, <1>6

LEMMA PeerTakenAndSent ==
  ASSUME QueueTypes, NEW f \in Forwarders, NEW id, Peer(f, id),
         NEW e \in SiblingEvents, HandledPeerWith(f, e)
  PROVE  QueueTypes' /\ PeerTakes(f, id) /\ Sends(f, e)
<1>1. f \in Board /\ internal[f] \in Seq(SiblingEvents)
  BY BoardFacts DEF QueueTypes
<1>2. internal' \in [Board -> Seq(SiblingEvents)] /\ Sends(f, e)
  BY <1>1, BroadcastFacts DEF HandledPeerWith, Sends
<1>3. external' \in [Board -> Seq(PeerEvents)] /\ PeerTakes(f, id)
  BY PeerQueueTaken DEF HandledPeerWith
<1> QED
  BY <1>2, <1>3 DEF QueueTypes

LEMMA BroadcastMisses ==
  ASSUME NEW b, NEW e, NEW rest, Broadcasts(b, e, rest)
  PROVE  missed \subseteq missed'
BY DEF Broadcasts

LEMMA StepTold ==
  ASSUME [Next]_vars
  PROVE  Told
<1> DEFINE Kept == missed \subseteq missed' /\ (~zero_route' => ~zero_route)
<1> SUFFICES Kept
  BY DEF Told, RolesTold, RequestTold
<1>1. ASSUME NEW f \in Forwarders,
             \/ PeerConnects(f) \/ PeerGreets(f) \/ PeerRequests(f)
             \/ PeerResponds(f) \/ PeerIsLost(f) \/ PeerReturns(f)
      PROVE  Kept
  <2>1. \A seq, l : PeerEvent(f, seq, l) => Kept
    BY DEF PeerEvent, history, delivery
  <2> HIDE DEF Kept
  <2> QED
    BY <1>1, <2>1, Zenon DEF PeerConnects, PeerGreets, PeerRequests, PeerResponds,
       PeerIsLost, PeerReturns
<1>2. CASE (\E b \in Board : Enter(b)) \/ ToExternal \/ Leave \/ UNCHANGED vars
  BY <1>2 DEF Enter, ToExternal, Leave, history, delivery, vars
<1>3. CASE Tick
  BY <1>3, BroadcastMisses DEF Tick, history, delivery
<1>4. CASE RootStart \/ RootRequested \/ RootTimeout \/ HomeProvisioned
           \/ \E b \in Board : NoHandler(b)
  BY <1>4, BroadcastMisses DEF RootStart, RootRequested, RootTimeout,
     HomeProvisioned, NoHandler, HandledSibling, history, delivery
<1>5. ASSUME NEW f \in Forwarders,
             \/ SkipProvision(f) \/ OnProvision(f)
             \/ OnSendNewGatewayRequest(f) \/ OnNewGatewayWinner(f)
      PROVE  Kept
  <2>1. missed' = missed /\ zero_route' = zero_route
    <3>1. CASE SkipProvision(f)
      BY <3>1 DEF SkipProvision, HandledSibling, history, delivery
    <3>2. CASE OnProvision(f)
      BY <3>2 DEF OnProvision, HandledSibling, history, delivery
    <3>3. CASE OnSendNewGatewayRequest(f)
      BY <3>3 DEF OnSendNewGatewayRequest, HandledSibling, history, delivery
    <3>4. CASE OnNewGatewayWinner(f)
      BY <3>4 DEF OnNewGatewayWinner, HandledSibling, delivery
    <3> QED
      BY <1>5, <3>1, <3>2, <3>3, <3>4
  <2> QED
    BY <2>1
<1>6. ASSUME NEW f \in Forwarders,
             \/ OnPeerConnected(f)
             \/ OnHandshakeProvision(f) \/ OnHandshakeRedundant(f)
             \/ OnNewGatewayRequest(f) \/ OnNewGatewayResponse(f)
             \/ OnPeerLost(f)
      PROVE  Kept
  <2>1. CASE OnPeerConnected(f)
    BY <2>1, BroadcastMisses DEF OnPeerConnected, HandledPeer, history, delivery
  <2>2. CASE OnHandshakeProvision(f)
    BY <2>2, BroadcastMisses DEF OnHandshakeProvision, HandledPeerWith, history, delivery
  <2>3. CASE OnHandshakeRedundant(f)
    BY <2>3, BroadcastMisses DEF OnHandshakeRedundant, HandledPeer, history, delivery
  <2>4. CASE OnNewGatewayRequest(f)
    BY <2>4, BroadcastMisses DEF OnNewGatewayRequest, HandledPeer, HandledPeerWith, history, delivery
  <2>5. CASE OnNewGatewayResponse(f)
    BY <2>5, BroadcastMisses DEF OnNewGatewayResponse, HandledPeer, HandledPeerWith, history, delivery
  <2>6. CASE OnPeerLost(f)
    BY <2>6, BroadcastMisses DEF OnPeerLost, HandledPeer, HandledPeerWith, history, delivery
  <2> QED
    BY <1>6, <2>1, <2>2, <2>3, <2>4, <2>5, <2>6
<1> QED
  BY <1>1, <1>2, <1>3, <1>4, <1>5, <1>6 DEF Next, Environment, Handler
LEMMA EventFacts ==
  /\ \A n \in Networks \cup {RootNetwork}, d \in 1 .. MaxDtr + 1 :
       /\ Provision(n, d) \in SiblingEvents
       /\ Provision(n, d).id = "PROVISION"
       /\ Provision(n, d).network = n /\ Provision(n, d).dtr = d
  /\ \A hag \in Seq(Networks) :
       Request(hag) \in SiblingEvents
       /\ Request(hag).id = "SEND_NEW_GATEWAY_REQUEST"
  /\ \A d \in 1 .. MaxDtr + 1 :
       /\ Winner(d) \in SiblingEvents
       /\ Winner(d).id = "NEW_GATEWAY_WINNER" /\ Winner(d).dtr = d
  /\ \A e \in SiblingEvents :
       /\ e.id \in {"ON_START", "PROVISION", "SEND_NEW_GATEWAY_REQUEST",
                    "NEW_GATEWAY_WINNER"}
       /\ e.id = "PROVISION" => /\ e.network \in Networks \cup {RootNetwork}
                                /\ e.dtr \in 1 .. MaxDtr + 1
       /\ e.id = "SEND_NEW_GATEWAY_REQUEST" => e.hag \in Seq(Networks)
       /\ e.id = "NEW_GATEWAY_WINNER" => e.dtr \in 1 .. MaxDtr + 1
<1>1. \A n \in Networks \cup {RootNetwork}, d \in 1 .. MaxDtr + 1 :
       /\ Provision(n, d) \in SiblingEvents
       /\ Provision(n, d).id = "PROVISION"
       /\ Provision(n, d).network = n /\ Provision(n, d).dtr = d
  BY DEF Provision, SiblingEvents
<1>2. \A hag \in Seq(Networks) :
       Request(hag) \in SiblingEvents
       /\ Request(hag).id = "SEND_NEW_GATEWAY_REQUEST"
  BY DEF Request, SiblingEvents
<1>3. \A d \in 1 .. MaxDtr + 1 :
       /\ Winner(d) \in SiblingEvents
       /\ Winner(d).id = "NEW_GATEWAY_WINNER" /\ Winner(d).dtr = d
  BY DEF Winner, SiblingEvents
<1>4. ASSUME NEW e \in SiblingEvents
      PROVE
       /\ e.id \in {"ON_START", "PROVISION", "SEND_NEW_GATEWAY_REQUEST",
                    "NEW_GATEWAY_WINNER"}
       /\ e.id = "PROVISION" => /\ e.network \in Networks \cup {RootNetwork}
                                /\ e.dtr \in 1 .. MaxDtr + 1
       /\ e.id = "SEND_NEW_GATEWAY_REQUEST" => e.hag \in Seq(Networks)
       /\ e.id = "NEW_GATEWAY_WINNER" => e.dtr \in 1 .. MaxDtr + 1
  BY DEF SiblingEvents
<1> QED
  BY <1>1, <1>2, <1>3, <1>4

LEMMA PeerEventFacts ==
  /\ \A e \in PeerEvents :
       /\ e.id = "HANDSHAKE" => /\ e.external \in Networks \cup {Zero}
                                /\ e.provided \in Networks \cup {Zero}
                                /\ e.dtr \in 0 .. MaxDtr
       /\ e.id = "NEW_GATEWAY_REQUEST" => e.hag \in Seq(Networks)
       /\ e.id = "NEW_GATEWAY_RESPONSE" => e.dtr \in 1 .. MaxDtr
  /\ Connected \in PeerEvents /\ Connected.id = "CONNECTED"
  /\ [id |-> "LOST"] \in PeerEvents
  /\ \A f, h : h \in Handshakes(f) =>
       /\ h \in PeerEvents /\ h.id = "HANDSHAKE"
       /\ global_state[f] = "WITHOUT_NETWORK" => h.provided \in Networks
  /\ \A d \in 1 .. MaxDtr : [id |-> "NEW_GATEWAY_RESPONSE", dtr |-> d] \in PeerEvents
  /\ \A n \in Networks, l \in 1 .. MaxHag :
       [id |-> "NEW_GATEWAY_REQUEST", hag |-> [i \in 1 .. l |-> n]] \in PeerEvents
<1>1. ASSUME NEW e \in PeerEvents
      PROVE
       /\ e.id = "HANDSHAKE" => /\ e.external \in Networks \cup {Zero}
                                /\ e.provided \in Networks \cup {Zero}
                                /\ e.dtr \in 0 .. MaxDtr
       /\ e.id = "NEW_GATEWAY_REQUEST" => e.hag \in Seq(Networks)
       /\ e.id = "NEW_GATEWAY_RESPONSE" => e.dtr \in 1 .. MaxDtr
  BY DEF PeerEvents
<1>2. /\ Connected \in PeerEvents /\ Connected.id = "CONNECTED"
      /\ [id |-> "LOST"] \in PeerEvents
  BY DEF PeerEvents, Connected
<1>3. ASSUME NEW f, NEW h, h \in Handshakes(f)
      PROVE  /\ h \in PeerEvents /\ h.id = "HANDSHAKE"
             /\ global_state[f] = "WITHOUT_NETWORK" => h.provided \in Networks
  BY <1>3 DEF Handshakes, Handshake, PeerEvents
<1>4. \A d \in 1 .. MaxDtr : [id |-> "NEW_GATEWAY_RESPONSE", dtr |-> d] \in PeerEvents
  BY DEF PeerEvents
<1>5. ASSUME NEW n \in Networks, NEW l \in 1 .. MaxHag
      PROVE  [id |-> "NEW_GATEWAY_REQUEST", hag |-> [i \in 1 .. l |-> n]] \in PeerEvents
  <2>1. l \in Nat
    BY LimitsAssumption, SMT
  <2>2. [i \in 1 .. l |-> n] \in Seq(Networks)
    BY <2>1, SMT
  <2> QED
    BY <2>2 DEF PeerEvents
<1> QED
  BY <1>1, <1>2, <1>3, <1>4, <1>5

\* Every board that has a turn sends to the others; the root's center takes its
\* event and sends as well.

LEMMA CenterEffects ==
  ASSUME QueueTypes
  PROVE  /\ RootStart =>
              /\ QueueTypes' /\ external' = external
              /\ internal[Center] # <<>> /\ Head(internal[Center]).id = "ON_START"
              /\ internal'[Center] = Tail(internal[Center])
              /\ Spreads(Center, Provision(RootNetwork, 1))
              /\ Provision(RootNetwork, 1) \in SiblingEvents
         /\ RootRequested => /\ internal' = internal /\ external' = external
                             /\ phase = "internal" /\ internal[Center] # <<>>
                             /\ Head(internal[Center]).id = "SEND_NEW_GATEWAY_REQUEST"
         /\ RootTimeout /\ internal[Center] # <<>> =>
              /\ QueueTypes' /\ external' = external
              /\ internal'[Center] = Tail(internal[Center])
              /\ \A f \in Forwarders : internal'[f] = internal[f]
         /\ HomeProvisioned => /\ QueueTypes' /\ Takes(Center, "PROVISION")
                               /\ external' = external
<1> USE BoardFacts
<1>1. ASSUME RootStart
      PROVE  /\ QueueTypes' /\ external' = external
             /\ internal[Center] # <<>> /\ Head(internal[Center]).id = "ON_START"
             /\ internal'[Center] = Tail(internal[Center])
             /\ Spreads(Center, Provision(RootNetwork, 1))
             /\ Provision(RootNetwork, 1) \in SiblingEvents
  <2>1. Provision(RootNetwork, 1) \in SiblingEvents
    <3>1. 1 \in 1 .. MaxDtr + 1
      BY LimitsAssumption, SMT
    <3> QED
      BY <3>1, EventFacts
  <2>2. internal[Center] # <<>> /\ Head(internal[Center]).id = "ON_START"
    BY <1>1 DEF RootStart, Sibling
  <2>3. Tail(internal[Center]) \in Seq(SiblingEvents)
    BY <2>2, TailFacts DEF QueueTypes
  <2>4. /\ Broadcasts(Center, Provision(RootNetwork, 1), Tail(internal[Center]))
        /\ external' = external
    BY <1>1 DEF RootStart
  <2>5. /\ internal' \in [Board -> Seq(SiblingEvents)]
        /\ internal'[Center] = Tail(internal[Center])
        /\ Spreads(Center, Provision(RootNetwork, 1))
    BY <2>1, <2>3, <2>4, BroadcastFacts
  <2> QED
    BY <2>1, <2>2, <2>4, <2>5 DEF QueueTypes
<1>2. RootRequested => /\ internal' = internal /\ external' = external
                       /\ phase = "internal" /\ internal[Center] # <<>>
                       /\ Head(internal[Center]).id = "SEND_NEW_GATEWAY_REQUEST"
  BY DEF RootRequested, Sibling, queues, table
<1>3. ASSUME RootTimeout, internal[Center] # <<>>
      PROVE  /\ QueueTypes' /\ external' = external
             /\ internal'[Center] = Tail(internal[Center])
             /\ \A f \in Forwarders : internal'[f] = internal[f]
  <2>1. Tail(internal[Center]) \in Seq(SiblingEvents)
    BY <1>3, TailFacts DEF QueueTypes
  <2>2. /\ internal' = [internal EXCEPT ![Center] = Tail(@)]
        /\ external' = external
    BY <1>3 DEF RootTimeout, HandledSibling
  <2>3. QueueTypes'
    BY <2>1, <2>2 DEF QueueTypes
  <2> QED
    BY <2>2, <2>3 DEF QueueTypes
<1>4. ASSUME HomeProvisioned
      PROVE  QueueTypes' /\ Takes(Center, "PROVISION") /\ external' = external
  <2>1. Sibling(Center, "PROVISION") /\ HandledSibling(Center)
    BY <1>4 DEF HomeProvisioned
  <2> QED
    BY <2>1, SiblingTaken
<1> QED
  BY <1>1, <1>2, <1>3, <1>4

LEMMA TickEffects ==
  ASSUME QueueTypes, Tick
  PROVE  /\ QueueTypes' /\ external' = external
         /\ internal'[Center] = internal[Center]
         /\ \/ Spreads(Center, Winner(1)) /\ Winner(1) \in SiblingEvents
            \/ internal' = internal /\ gateway_requested' = gateway_requested
<1> USE BoardFacts
<1>1. CASE gateway_requested_timeout <= 1
  <2>1. Winner(1) \in SiblingEvents
    <3>1. 1 \in 1 .. MaxDtr + 1
      BY LimitsAssumption, SMT
    <3> QED
      BY <3>1, EventFacts
  <2>2. /\ Broadcasts(Center, Winner(1), internal[Center])
        /\ external' = external
    BY <1>1 DEF Tick
  <2>3. internal[Center] \in Seq(SiblingEvents)
    BY DEF QueueTypes
  <2>4. /\ internal' \in [Board -> Seq(SiblingEvents)]
        /\ internal'[Center] = internal[Center]
        /\ Spreads(Center, Winner(1))
    BY <2>1, <2>2, <2>3, BroadcastFacts
  <2> QED
    BY <2>1, <2>2, <2>4 DEF QueueTypes
<1>2. CASE ~(gateway_requested_timeout <= 1)
  BY <1>2 DEF Tick, QueueTypes
<1> QED
  BY <1>1, <1>2

LEMMA ForwarderEffects ==
  ASSUME QueueTypes, NEW f \in Forwarders
  PROVE  /\ SkipProvision(f) \/ OnProvision(f) =>
              QueueTypes' /\ Takes(f, "PROVISION") /\ external' = external
         /\ OnSendNewGatewayRequest(f) =>
              /\ QueueTypes' /\ Takes(f, "SEND_NEW_GATEWAY_REQUEST")
              /\ external' = external
         /\ OnNewGatewayWinner(f) =>
              /\ QueueTypes' /\ Takes(f, "NEW_GATEWAY_WINNER")
              /\ external' = external
<1> USE BoardFacts
<1>1. ASSUME SkipProvision(f) \/ OnProvision(f)
      PROVE  QueueTypes' /\ Takes(f, "PROVISION") /\ external' = external
  <2>1. Sibling(f, "PROVISION") /\ HandledSibling(f)
    BY <1>1 DEF SkipProvision, OnProvision
  <2> QED
    BY <2>1, SiblingTaken
<1>2. ASSUME OnSendNewGatewayRequest(f)
      PROVE  /\ QueueTypes' /\ Takes(f, "SEND_NEW_GATEWAY_REQUEST")
             /\ external' = external
  <2>1. Sibling(f, "SEND_NEW_GATEWAY_REQUEST") /\ HandledSibling(f)
    BY <1>2 DEF OnSendNewGatewayRequest
  <2> QED
    BY <2>1, SiblingTaken
<1>3. ASSUME OnNewGatewayWinner(f)
      PROVE  /\ QueueTypes' /\ Takes(f, "NEW_GATEWAY_WINNER")
             /\ external' = external
  <2>1. Sibling(f, "NEW_GATEWAY_WINNER") /\ HandledSibling(f)
    BY <1>3 DEF OnNewGatewayWinner
  <2> QED
    BY <2>1, SiblingTaken
<1> QED
  BY <1>1, <1>2, <1>3

LEMMA NoHandlerEffects ==
  ASSUME QueueTypes, NEW b \in Board, NoHandler(b)
  PROVE  /\ QueueTypes' /\ external' = external
         /\ \/ b = Center /\ ~is_root
               /\ \E id \in {"ON_START", "SEND_NEW_GATEWAY_REQUEST",
                             "NEW_GATEWAY_WINNER"} : Takes(Center, id)
            \/ b \in Forwarders /\ Takes(b, "ON_START")
<1>1. PICK id : /\ Sibling(b, id)
                /\ \/ b = Center /\ ~is_root
                      /\ id \in {"ON_START", "SEND_NEW_GATEWAY_REQUEST",
                                 "NEW_GATEWAY_WINNER"}
                   \/ b \in Forwarders /\ id = "ON_START"
  BY DEF NoHandler
<1>2. HandledSibling(b)
  BY DEF NoHandler
<1>3. QueueTypes' /\ Takes(b, id) /\ external' = external
  BY <1>1, <1>2, SiblingTaken
<1> QED
  BY <1>1, <1>3

LEMMA PeerEffects ==
  ASSUME QueueTypes, NEW f \in Forwarders
  PROVE  /\ OnPeerConnected(f) =>
              QueueTypes' /\ PeerTakes(f, "CONNECTED") /\ internal' = internal
         /\ OnHandshakeProvision(f) /\ Head(external[f]).provided \in Networks =>
              /\ QueueTypes' /\ PeerTakes(f, "HANDSHAKE")
              /\ Head(external[f]).dtr \in 0 .. MaxDtr
              /\ LET e == Head(external[f]) IN
                   /\ Sends(f, Provision(e.provided, e.dtr + 1))
                   /\ Provision(e.provided, e.dtr + 1) \in SiblingEvents
         /\ OnHandshakeRedundant(f) =>
              QueueTypes' /\ PeerTakes(f, "HANDSHAKE") /\ internal' = internal
         /\ OnNewGatewayRequest(f) =>
              /\ QueueTypes' /\ PeerTakes(f, "NEW_GATEWAY_REQUEST")
              /\ \/ ~PassesOn(f) /\ internal' = internal
                 \/ PassesOn(f) /\ Sends(f, Request(Head(external[f]).hag))
              /\ Head(external[f]).hag \in Seq(Networks)
         /\ OnNewGatewayResponse(f) =>
              /\ QueueTypes' /\ PeerTakes(f, "NEW_GATEWAY_RESPONSE")
              /\ Head(external[f]).dtr \in 1 .. MaxDtr
              /\ \/ ~Improves(f, Head(external[f]).dtr) /\ internal' = internal
                 \/ /\ Improves(f, Head(external[f]).dtr)
                    /\ Sends(f, Winner(Head(external[f]).dtr + 1))
         /\ OnPeerLost(f) =>
              /\ QueueTypes' /\ PeerTakes(f, "LOST")
              /\ \/ ~is_local_root[f] /\ internal' = internal
                 \/ is_local_root[f] /\ Sends(f, Request(<<>>))
<1> USE BoardFacts
<1> DEFINE e == Head(external[f])
<1>0. external[f] # <<>> => e \in PeerEvents
  BY TailFacts DEF QueueTypes
<1> HIDE DEF e
<1>1. ASSUME OnPeerConnected(f)
      PROVE  QueueTypes' /\ PeerTakes(f, "CONNECTED") /\ internal' = internal
  <2>1. Peer(f, "CONNECTED") /\ HandledPeer(f)
    BY <1>1 DEF OnPeerConnected
  <2> QED
    BY <2>1, PeerTaken
<1>2. ASSUME OnHandshakeProvision(f), e.provided \in Networks
      PROVE  /\ QueueTypes' /\ PeerTakes(f, "HANDSHAKE")
             /\ e.dtr \in 0 .. MaxDtr
             /\ Sends(f, Provision(e.provided, e.dtr + 1))
             /\ Provision(e.provided, e.dtr + 1) \in SiblingEvents
  <2>1. /\ Peer(f, "HANDSHAKE")
        /\ HandledPeerWith(f, Provision(e.provided, e.dtr + 1))
    BY <1>2 DEF OnHandshakeProvision, e
  <2>2. e.dtr \in 0 .. MaxDtr
    BY <1>0, <2>1, PeerEventFacts DEF Peer, e
  <2>3. e.dtr + 1 \in 1 .. MaxDtr + 1
    BY <2>2, LimitsAssumption, SMT
  <2>4. Provision(e.provided, e.dtr + 1) \in SiblingEvents
    BY <1>2, <2>3, EventFacts
  <2> QED
    BY <2>1, <2>2, <2>4, PeerTakenAndSent
<1>3. ASSUME OnHandshakeRedundant(f)
      PROVE  QueueTypes' /\ PeerTakes(f, "HANDSHAKE") /\ internal' = internal
  <2>1. Peer(f, "HANDSHAKE") /\ HandledPeer(f)
    BY <1>3 DEF OnHandshakeRedundant
  <2> QED
    BY <2>1, PeerTaken
<1>4. ASSUME OnNewGatewayRequest(f)
      PROVE  /\ QueueTypes' /\ PeerTakes(f, "NEW_GATEWAY_REQUEST")
             /\ \/ ~PassesOn(f) /\ internal' = internal
                \/ PassesOn(f) /\ Sends(f, Request(e.hag))
             /\ e.hag \in Seq(Networks)
  <2>1. /\ Peer(f, "NEW_GATEWAY_REQUEST")
        /\ \/ PassesOn(f) /\ HandledPeerWith(f, Request(e.hag))
           \/ ~PassesOn(f) /\ HandledPeer(f)
    BY <1>4 DEF OnNewGatewayRequest, e
  <2>2. e.hag \in Seq(Networks)
    BY <1>0, <2>1, PeerEventFacts DEF Peer, e
  <2>3. CASE PassesOn(f)
    <3>1. Request(e.hag) \in SiblingEvents
      BY <2>2, EventFacts
    <3>2. HandledPeerWith(f, Request(e.hag))
      BY <2>1, <2>3
    <3> QED
      BY <2>1, <2>2, <2>3, <3>1, <3>2, PeerTakenAndSent
  <2>4. CASE ~PassesOn(f)
    <3>1. HandledPeer(f)
      BY <2>1, <2>4
    <3> QED
      BY <2>1, <2>2, <2>4, <3>1, PeerTaken
  <2> QED
    BY <2>3, <2>4
<1>5. ASSUME OnNewGatewayResponse(f)
      PROVE  /\ QueueTypes' /\ PeerTakes(f, "NEW_GATEWAY_RESPONSE")
             /\ e.dtr \in 1 .. MaxDtr
             /\ \/ ~Improves(f, e.dtr) /\ internal' = internal
                \/ Improves(f, e.dtr) /\ Sends(f, Winner(e.dtr + 1))
  <2>1. /\ Peer(f, "NEW_GATEWAY_RESPONSE")
        /\ \/ Improves(f, e.dtr) /\ HandledPeerWith(f, Winner(e.dtr + 1))
           \/ ~Improves(f, e.dtr) /\ HandledPeer(f)
    BY <1>5 DEF OnNewGatewayResponse, e
  <2>2. e.dtr \in 1 .. MaxDtr
    BY <1>0, <2>1, PeerEventFacts DEF Peer, e
  <2>3. CASE Improves(f, e.dtr)
    <3>1. e.dtr + 1 \in 1 .. MaxDtr + 1
      BY <2>2, LimitsAssumption, SMT
    <3>2. Winner(e.dtr + 1) \in SiblingEvents
      BY <3>1, EventFacts
    <3>3. HandledPeerWith(f, Winner(e.dtr + 1))
      BY <2>1, <2>3
    <3> QED
      BY <2>1, <2>2, <2>3, <3>2, <3>3, PeerTakenAndSent
  <2>4. CASE ~Improves(f, e.dtr)
    <3>1. HandledPeer(f)
      BY <2>1, <2>4
    <3> QED
      BY <2>1, <2>2, <2>4, <3>1, PeerTaken
  <2> QED
    BY <2>3, <2>4
<1>6. ASSUME OnPeerLost(f)
      PROVE  /\ QueueTypes' /\ PeerTakes(f, "LOST")
             /\ \/ ~is_local_root[f] /\ internal' = internal
                \/ is_local_root[f] /\ Sends(f, Request(<<>>))
  <2>1. /\ Peer(f, "LOST")
        /\ \/ is_local_root[f] /\ HandledPeerWith(f, Request(<<>>))
           \/ ~is_local_root[f] /\ HandledPeer(f)
    BY <1>6 DEF OnPeerLost
  <2>2. CASE is_local_root[f]
    <3>1. Request(<<>>) \in SiblingEvents
      <4>1. <<>> \in Seq(Networks)
        OBVIOUS
      <4> QED
        BY <4>1, EventFacts
    <3>2. HandledPeerWith(f, Request(<<>>))
      BY <2>1, <2>2
    <3> QED
      BY <2>1, <2>2, <3>1, <3>2, PeerTakenAndSent
  <2>3. CASE ~is_local_root[f]
    <3>1. HandledPeer(f)
      BY <2>1, <2>3
    <3> QED
      BY <2>1, <2>3, <3>1, PeerTaken
  <2> QED
    BY <2>2, <2>3
<1> QED
  BY <1>1, <1>2, <1>3, <1>4, <1>5, <1>6 DEF e

\* What keeps a board's peer queue in order while the board has no network.
Ordered(f) ==
  /\ link[f] = "greeted" => Has(external[f], "HANDSHAKE")
  /\ GreetsFirst(external[f]) /\ Provides(external[f])

PeerStep(f) == \/ PeerConnects(f) \/ PeerGreets(f) \/ PeerRequests(f)
               \/ PeerResponds(f) \/ PeerIsLost(f) \/ PeerReturns(f)

LEMMA OrderedAppend ==
  ASSUME NEW s \in Seq(PeerEvents), NEW e \in PeerEvents, GreetsFirst(s), Provides(s),
         e.id = "NEW_GATEWAY_REQUEST" => Has(s, "HANDSHAKE"),
         e.id = "HANDSHAKE" => e.provided \in Networks
  PROVE  /\ Append(s, e) \in Seq(PeerEvents)
         /\ GreetsFirst(Append(s, e)) /\ Provides(Append(s, e))
         /\ Has(s, "HANDSHAKE") \/ e.id = "HANDSHAKE" => Has(Append(s, e), "HANDSHAKE")
BY AppendGrows, GreetsFirstGrows, ProvidesGrows, HasGrows

LEMMA PeerEventEffects ==
  ASSUME QueueTypes, TypeOK, NEW f \in Forwarders, NEW seq \in Seq(PeerEvents),
         NEW l \in {"down", "up", "greeted"}, PeerEvent(f, seq, l)
  PROVE  /\ QueueTypes' /\ internal' = internal
         /\ external'[f] = external[f] \o seq
         /\ \A c \in Board : c # f => external'[c] = external[c]
         /\ link' \in [Forwarders -> {"down", "up", "greeted", "closing"}]
         /\ link'[f] = l
         /\ \A g \in Forwarders : g # f => link'[g] = link[g]
         /\ UNCHANGED <<is_root, forwarder, center, table, section, history,
                 missed>>
<1>1. f \in Board
  BY BoardFacts
<1>2. external[f] \o seq \in Seq(PeerEvents)
  BY <1>1, SMT DEF QueueTypes
<1>3. external' = [external EXCEPT ![f] = @ \o seq]
  BY DEF PeerEvent
<1>4. external' \in [Board -> Seq(PeerEvents)]
  BY <1>1, <1>2, <1>3 DEF QueueTypes
<1>5. internal' = internal
  BY DEF PeerEvent
<1>6. /\ external'[f] = external[f] \o seq
      /\ \A c \in Board : c # f => external'[c] = external[c]
  BY <1>1, <1>3 DEF QueueTypes
<1>7. /\ link' \in [Forwarders -> {"down", "up", "greeted", "closing"}]
      /\ link'[f] = l
      /\ \A g \in Forwarders : g # f => link'[g] = link[g]
  BY DEF PeerEvent, TypeOK
<1>8. UNCHANGED <<is_root, forwarder, center, table, section, history,
                 missed>>
  BY DEF PeerEvent, delivery
<1> QED
  BY <1>4, <1>5, <1>6, <1>7, <1>8 DEF QueueTypes

\* What a step of f's peer does to the node.
PeerChange(f) ==
  /\ QueueTypes' /\ internal' = internal
  /\ \A c \in Board : c # f => external'[c] = external[c]
  /\ link' \in [Forwarders -> {"down", "up", "greeted", "closing"}]
  /\ \A g \in Forwarders : g # f => link'[g] = link[g]
  /\ UNCHANGED <<is_root, forwarder, center, table, section, history,
                 missed>>
  /\ is_root /\ link[f] = "down" => node_network[f] # Zero
  /\ global_state[f] = "WITHOUT_NETWORK" /\ Ordered(f) => Ordered(f)'

LEMMA PeerStepEffects ==
  ASSUME QueueTypes, TypeOK, NEW f \in Forwarders, PeerStep(f)
  PROVE  PeerChange(f)
<1> DEFINE lost == [id |-> "LOST"]
           New(seq, l) ==
             /\ PeerEvent(f, seq, l)
             /\ is_root /\ link[f] = "down" => node_network[f] # Zero
<1>0. external[f] \in Seq(PeerEvents)
  BY BoardFacts DEF QueueTypes
<1>1. lost \in PeerEvents /\ lost.id = "LOST" /\ Connected \in PeerEvents
      /\ Connected.id = "CONNECTED"
  BY PeerEventFacts
<1> HIDE DEF lost
<1>2. ASSUME NEW e \in PeerEvents, NEW l \in {"down", "up", "greeted"},
             New(<<e>>, l),
             e.id = "NEW_GATEWAY_REQUEST" => link[f] = "greeted",
             e.id = "HANDSHAKE" =>
               (global_state[f] = "WITHOUT_NETWORK" => e.provided \in Networks),
             l = "greeted" => link[f] = "greeted" \/ e.id = "HANDSHAKE"
      PROVE  PeerChange(f)
  <2>1. <<e>> \in Seq(PeerEvents)
    BY SMT
  <2>2. external[f] \o <<e>> = Append(external[f], e)
    BY <1>0, ConcatFacts
  <2>3. external'[f] = Append(external[f], e) /\ link'[f] = l
    BY <1>2, <2>1, <2>2, PeerEventEffects
  <2>4. global_state[f] = "WITHOUT_NETWORK" /\ Ordered(f) => Ordered(f)'
    BY <1>0, <1>2, <2>3, OrderedAppend DEF Ordered
  <2> QED
    BY <1>2, <2>1, <2>4, PeerEventEffects DEF PeerChange
<1>3. ASSUME NEW h \in Handshakes(f), New(<<h, Connected>>, "greeted")
      PROVE  PeerChange(f)
  <2>1. h \in PeerEvents /\ h.id = "HANDSHAKE"
        /\ (global_state[f] = "WITHOUT_NETWORK" => h.provided \in Networks)
    BY PeerEventFacts
  <2>2. <<h, Connected>> \in Seq(PeerEvents)
    BY <1>1, <2>1, SMT
  <2> DEFINE t == Append(external[f], h)
  <2>3. external[f] \o <<h, Connected>> = Append(t, Connected)
    BY <1>0, <1>1, <2>1, ConcatFacts
  <2>4. external'[f] = Append(t, Connected) /\ link'[f] = "greeted"
    BY <1>3, <2>2, <2>3, PeerEventEffects
  <2>5. ASSUME global_state[f] = "WITHOUT_NETWORK", Ordered(f) PROVE Ordered(f)'
    <3>1. /\ t \in Seq(PeerEvents) /\ GreetsFirst(t) /\ Provides(t)
          /\ Has(t, "HANDSHAKE")
      BY <1>0, <2>1, <2>5, OrderedAppend DEF Ordered
    <3> HIDE DEF t
    <3> QED
      BY <1>1, <2>4, <3>1, OrderedAppend DEF Ordered
  <2> QED
    BY <1>3, <2>2, <2>5, PeerEventEffects DEF PeerChange
<1>4. ASSUME NEW h \in Handshakes(f), New(<<h, lost, Connected>>, "greeted")
      PROVE  PeerChange(f)
  <2>1. h \in PeerEvents /\ h.id = "HANDSHAKE"
        /\ (global_state[f] = "WITHOUT_NETWORK" => h.provided \in Networks)
    BY PeerEventFacts
  <2>2. <<h, lost, Connected>> \in Seq(PeerEvents)
    BY <1>1, <2>1, SMT
  <2> DEFINE t == Append(external[f], h)
             u == Append(t, lost)
  <2>3. external[f] \o <<h, lost, Connected>> = Append(u, Connected)
    BY <1>0, <1>1, <2>1, ConcatFacts
  <2>4. external'[f] = Append(u, Connected) /\ link'[f] = "greeted"
    BY <1>4, <2>2, <2>3, PeerEventEffects
  <2>5. ASSUME global_state[f] = "WITHOUT_NETWORK", Ordered(f) PROVE Ordered(f)'
    <3>1. /\ t \in Seq(PeerEvents) /\ GreetsFirst(t) /\ Provides(t)
          /\ Has(t, "HANDSHAKE")
      BY <1>0, <2>1, <2>5, OrderedAppend DEF Ordered
    <3> HIDE DEF t
    <3>2. /\ u \in Seq(PeerEvents) /\ GreetsFirst(u) /\ Provides(u)
          /\ Has(u, "HANDSHAKE")
      BY <1>1, <3>1, OrderedAppend
    <3> HIDE DEF u
    <3> QED
      BY <1>1, <2>4, <3>2, OrderedAppend DEF Ordered
  <2> QED
    BY <1>4, <2>2, <2>5, PeerEventEffects DEF PeerChange
<1> HIDE DEF New
<1>5. CASE PeerConnects(f)
  <2>1. \/ New(<<Connected>>, "up")
        \/ \E h \in Handshakes(f) : New(<<h, Connected>>, "greeted")
    BY <1>5 DEF PeerConnects, New
  <2>2. CASE New(<<Connected>>, "up")
    BY <1>1, <1>2, <2>2
  <2> QED
    BY <1>3, <2>1, <2>2
<1>6. CASE PeerGreets(f)
  <2>1. PICK h \in Handshakes(f) : New(<<h>>, "greeted")
    BY <1>6 DEF PeerGreets, New
  <2>2. h \in PeerEvents /\ h.id = "HANDSHAKE"
        /\ (global_state[f] = "WITHOUT_NETWORK" => h.provided \in Networks)
    BY PeerEventFacts
  <2> QED
    BY <1>2, <2>1, <2>2
<1>7. CASE PeerRequests(f)
  <2> DEFINE Req(n, k) == [id |-> "NEW_GATEWAY_REQUEST", hag |-> [i \in 1 .. k |-> n]]
  <2>1. PICK n \in Networks, k \in 1 .. MaxHag :
          New(<<Req(n, k)>>, "greeted") /\ link[f] = "greeted"
    BY <1>7 DEF PeerRequests, New
  <2>2. Req(n, k) \in PeerEvents
    BY PeerEventFacts
  <2>3. Req(n, k).id = "NEW_GATEWAY_REQUEST"
    OBVIOUS
  <2> HIDE DEF Req
  <2> QED
    BY <1>2, <2>1, <2>2, <2>3
<1>8. CASE PeerResponds(f)
  <2> DEFINE Res(d) == [id |-> "NEW_GATEWAY_RESPONSE", dtr |-> d]
  <2>1. PICK d \in 1 .. MaxDtr :
          New(<<Res(d)>>, link[f]) /\ link[f] \in {"up", "greeted"}
    BY <1>8 DEF PeerResponds, New
  <2>2. Res(d) \in PeerEvents
    BY PeerEventFacts
  <2>3. Res(d).id = "NEW_GATEWAY_RESPONSE"
    OBVIOUS
  <2> HIDE DEF Res
  <2> QED
    BY <1>2, <2>1, <2>2, <2>3
<1>9. CASE PeerIsLost(f)
  <2>1. New(<<lost>>, "down")
    BY <1>9 DEF PeerIsLost, New, lost
  <2> QED
    BY <1>1, <1>2, <2>1
<1>10. CASE PeerReturns(f)
  <2>1. \E h \in Handshakes(f) : New(<<h, lost, Connected>>, "greeted")
    BY <1>10 DEF PeerReturns, New, lost
  <2> QED
    BY <1>4, <2>1
<1> QED
  BY <1>5, <1>6, <1>7, <1>8, <1>9, <1>10 DEF PeerStep


----------------------------------------------------------------------------
(* Type correctness, with the invariant that a handshake which provides a  *)
(* network really names one.                                               *)

LEMMA ProvidedNetwork ==
  ASSUME QueueTypes, WithoutInv, NEW f \in Forwarders, OnHandshakeProvision(f)
  PROVE  Head(external[f]).provided \in Networks
<1>1. /\ IsWithout(f) /\ external[f] # <<>>
      /\ Head(external[f]).id = "HANDSHAKE"
  BY DEF OnHandshakeProvision, Peer, IsWithout
<1>2. external[f] \in Seq(PeerEvents) /\ Provides(external[f])
  BY <1>1, BoardFacts DEF WithoutInv, QueueTypes
<1> QED
  BY <1>1, <1>2, ProvidesFacts

LEMMA HeadIsEvent ==
  ASSUME QueueTypes, NEW b \in Board, internal[b] # <<>>
  PROVE  Head(internal[b]) \in SiblingEvents
BY TailFacts DEF QueueTypes

LEMMA SetTypes ==
  ASSUME TypeOK, NEW f \in Forwarders,
         NEW g \in {"WITHOUT_NETWORK", "WITH_NETWORK", "ON_GW_REQUEST"},
         NEW root \in BOOLEAN, NEW d \in 0 .. MaxDtr + 2, Set(f, g, root, d)
  PROVE  /\ global_state' \in
              [Forwarders -> {"WITHOUT_NETWORK", "WITH_NETWORK", "ON_GW_REQUEST"}]
         /\ is_local_root' \in [Forwarders -> BOOLEAN]
         /\ dtr' \in [Forwarders -> 0 .. MaxDtr + 2]
         /\ global_state'[f] = g /\ is_local_root'[f] = root /\ dtr'[f] = d
         /\ \A h \in Forwarders : h # f =>
              /\ global_state'[h] = global_state[h]
              /\ is_local_root'[h] = is_local_root[h] /\ dtr'[h] = dtr[h]
BY DEF TypeOK, Set

LEMMA RouteTypes ==
  ASSUME TypeOK, NEW o \in Board
  PROVE  /\ \A S : AddGlobalRoutes(S, o) =>
              default_gateway' \in Board /\ routes' \in [Known -> Board \cup {None}]
         /\ RemoveRoutesByOutput(o) =>
              default_gateway' \in Board /\ routes' \in [Known -> Board \cup {None}]
BY DEF TypeOK, AddGlobalRoutes, RemoveRoutesByOutput

LEMMA HandlerTypes ==
  ASSUME Types, WithoutInv, TurnInv, Handler
  PROVE  Types'
<1> USE BoardFacts, LimitsAssumption
<1>0. QueueTypes /\ TypeOK
  BY DEF Types, QueueTypes
<1>a. 0 \in 0 .. MaxDtr + 2
  BY SMT
<1>b. \A d \in 0 .. MaxDtr : d \in 0 .. MaxDtr + 2 /\ d + 1 \in 1 .. MaxDtr + 1
  BY SMT
<1>c. \A d \in 1 .. MaxDtr : d + 1 \in 0 .. MaxDtr + 2 /\ d + 1 \in 1 .. MaxDtr + 1
  BY SMT
<1>d. \A d \in 1 .. MaxDtr + 1 : d \in 0 .. MaxDtr + 2 /\ d + 1 \in 0 .. MaxDtr + 2
  BY SMT
<1>1. CASE RootStart
  <2>1. QueueTypes'
    BY <1>0, <1>1, CenterEffects
  <2>2. TypeOK'
    BY <1>0, <1>1, RouteTypes DEF RootStart, TypeOK, forwarder, center, section, peers, history
  <2> QED
    BY <2>1, <2>2 DEF Types, QueueTypes
<1>2. CASE RootRequested
  BY <1>2, <1>0 DEF Types, RootRequested, TypeOK, forwarder, table, queues, peers, history
<1>3. CASE RootTimeout
  <2>1. QueueTypes'
    BY <1>0, <1>3, CenterEffects DEF TurnInv, RootTimeout
  <2>2. TypeOK'
    BY <1>0, <1>3 DEF RootTimeout, TypeOK, forwarder, table, peers, history
  <2> QED
    BY <2>1, <2>2 DEF Types, QueueTypes
<1>4. CASE HomeProvisioned
  <2>1. QueueTypes'
    BY <1>0, <1>4, CenterEffects
  <2>2. TypeOK'
    BY <1>0, <1>4, RouteTypes
       DEF HomeProvisioned, TypeOK, forwarder, table, section, peers, history
  <2> QED
    BY <2>1, <2>2 DEF Types, QueueTypes
<1>5. ASSUME NEW b \in Board, NoHandler(b) PROVE Types'
  <2>1. QueueTypes'
    BY <1>0, <1>5, NoHandlerEffects
  <2>2. TypeOK'
    BY <1>0, <1>5
       DEF NoHandler, TypeOK, forwarder, center, table, section, peers, history
  <2> QED
    BY <2>1, <2>2 DEF Types, QueueTypes
<1>6. ASSUME NEW f \in Forwarders, SkipProvision(f) PROVE Types'
  <2>1. QueueTypes'
    BY <1>0, <1>6, ForwarderEffects
  <2>2. TypeOK'
    BY <1>0, <1>6
       DEF SkipProvision, TypeOK, forwarder, center, table, section, peers, history
  <2> QED
    BY <2>1, <2>2 DEF Types, QueueTypes
<1>7. ASSUME NEW f \in Forwarders, OnProvision(f) PROVE Types'
  <2> DEFINE e == Head(internal[f])
  <2>1. QueueTypes'
    BY <1>0, <1>7, ForwarderEffects
  <2>2. e \in SiblingEvents /\ e.id = "PROVISION"
    BY <1>0, <1>7, HeadIsEvent DEF OnProvision, Sibling
  <2>3. e.network \in Networks \cup {RootNetwork} /\ e.dtr \in 0 .. MaxDtr + 2
    BY <2>2, <1>d, EventFacts
  <2>4. Set(f, "WITH_NETWORK", FALSE, e.dtr)
        /\ node_network' = [node_network EXCEPT ![f] = e.network]
    BY <1>7 DEF OnProvision
  <2> HIDE DEF e
  <2>5. TypeOK'
    <3>1. /\ node_network' \in [Forwarders -> Networks \cup {Zero, RootNetwork}]
          /\ link' \in [Forwarders -> {"down", "up", "greeted", "closing"}]
      BY <1>0, <1>7, <2>3, <2>4 DEF OnProvision, TypeOK
    <3> QED
      BY <1>0, <1>7, <2>3, <2>4, <3>1, SetTypes
         DEF OnProvision, TypeOK, center, table, section, history
  <2> QED
    BY <2>1, <2>5 DEF Types, QueueTypes
<1>8. ASSUME NEW f \in Forwarders, OnSendNewGatewayRequest(f) PROVE Types'
  <2>1. QueueTypes'
    BY <1>0, <1>8, ForwarderEffects
  <2>2. is_local_root[f] \in BOOLEAN
    BY <1>0 DEF TypeOK
  <2>3. /\ global_state' \in
              [Forwarders -> {"WITHOUT_NETWORK", "WITH_NETWORK", "ON_GW_REQUEST"}]
        /\ is_local_root' \in [Forwarders -> BOOLEAN]
        /\ dtr' \in [Forwarders -> 0 .. MaxDtr + 2]
    <3>1. CASE Forwards(f, Head(internal[f]).hag)
      BY <3>1, <1>0, <1>8, <1>a, <2>2, SetTypes DEF OnSendNewGatewayRequest
    <3>2. CASE ~Forwards(f, Head(internal[f]).hag)
      BY <3>2, <1>0, <1>8 DEF OnSendNewGatewayRequest, TypeOK
    <3> QED
      BY <3>1, <3>2
  <2>4. TypeOK'
    BY <1>0, <1>8, <2>3
       DEF OnSendNewGatewayRequest, TypeOK, center, table, section, peers, history
  <2> QED
    BY <2>1, <2>4 DEF Types, QueueTypes
<1>9. ASSUME NEW f \in Forwarders, OnNewGatewayWinner(f) PROVE Types'
  <2> DEFINE e == Head(internal[f])
  <2>1. QueueTypes'
    BY <1>0, <1>9, ForwarderEffects
  <2>2. e \in SiblingEvents /\ e.id = "NEW_GATEWAY_WINNER"
    BY <1>0, <1>9, HeadIsEvent DEF OnNewGatewayWinner, Sibling
  <2>3. e.dtr + 1 \in 0 .. MaxDtr + 2
    BY <2>2, <1>d, EventFacts
  <2>4. /\ global_state' \in
              [Forwarders -> {"WITHOUT_NETWORK", "WITH_NETWORK", "ON_GW_REQUEST"}]
        /\ is_local_root' \in [Forwarders -> BOOLEAN]
        /\ dtr' \in [Forwarders -> 0 .. MaxDtr + 2]
    <3>1. CASE dtr[f] # 1
      BY <3>1, <1>0, <1>9, <2>3, SetTypes DEF OnNewGatewayWinner
    <3>2. CASE dtr[f] = 1
      BY <3>2, <1>0, <1>9 DEF OnNewGatewayWinner, TypeOK
    <3> QED
      BY <3>1, <3>2
  <2>5. TypeOK'
    BY <1>0, <1>9, <2>4 DEF OnNewGatewayWinner, TypeOK, center, table, section, peers
  <2> QED
    BY <2>1, <2>5 DEF Types, QueueTypes
<1>10. ASSUME NEW f \in Forwarders, OnPeerConnected(f) PROVE Types'
  <2>1. QueueTypes'
    BY <1>0, <1>10, PeerEffects
  <2>2. TypeOK'
    BY <1>0, <1>10 DEF OnPeerConnected, TypeOK, center, table, section, peers, history
  <2> QED
    BY <2>1, <2>2 DEF Types, QueueTypes
<1>11. ASSUME NEW f \in Forwarders, OnHandshakeProvision(f) PROVE Types'
  <2> DEFINE e == Head(external[f])
  <2>1. e.provided \in Networks
    BY <1>0, <1>11, ProvidedNetwork
  <2>2. QueueTypes' /\ e.dtr \in 0 .. MaxDtr
    BY <1>0, <1>11, <2>1, PeerEffects
  <2>3. Set(f, "WITH_NETWORK", TRUE, e.dtr)
        /\ node_network' = [node_network EXCEPT ![f] = e.provided]
    BY <1>11 DEF OnHandshakeProvision
  <2> HIDE DEF e
  <2>4. TypeOK'
    <3>1. node_network' \in [Forwarders -> Networks \cup {Zero, RootNetwork}]
      BY <1>0, <2>1, <2>3 DEF TypeOK
    <3> QED
      BY <1>0, <1>b, <1>11, <2>2, <2>3, <3>1, SetTypes, RouteTypes
         DEF OnHandshakeProvision, TypeOK, center, section, peers, history
  <2> QED
    BY <2>2, <2>4 DEF Types, QueueTypes
<1>12. ASSUME NEW f \in Forwarders, OnHandshakeRedundant(f) PROVE Types'
  <2>1. QueueTypes'
    BY <1>0, <1>12, PeerEffects
  <2>2. TypeOK'
    BY <1>0, <1>12, RouteTypes
       DEF OnHandshakeRedundant, TypeOK, forwarder, center, section, peers, history
  <2> QED
    BY <2>1, <2>2 DEF Types, QueueTypes
<1>13. ASSUME NEW f \in Forwarders, OnNewGatewayRequest(f) PROVE Types'
  <2>1. QueueTypes'
    BY <1>0, <1>13, PeerEffects
  <2>2. is_local_root[f] \in BOOLEAN
    BY <1>0 DEF TypeOK
  <2>3. /\ global_state' \in
              [Forwarders -> {"WITHOUT_NETWORK", "WITH_NETWORK", "ON_GW_REQUEST"}]
        /\ is_local_root' \in [Forwarders -> BOOLEAN]
        /\ dtr' \in [Forwarders -> 0 .. MaxDtr + 2]
    <3>1. CASE StartsWaiting(f)
      BY <3>1, <1>0, <1>13, <1>a, <2>2, SetTypes DEF OnNewGatewayRequest
    <3>2. CASE ~StartsWaiting(f)
      BY <3>2, <1>0, <1>13 DEF OnNewGatewayRequest, TypeOK
    <3> QED
      BY <3>1, <3>2
  <2>4. default_gateway' \in Board /\ routes' \in [Known -> Board \cup {None}]
    BY <1>0, <1>13, RouteTypes DEF OnNewGatewayRequest
  <2>5. TypeOK'
    BY <1>0, <1>13, <2>3, <2>4 DEF OnNewGatewayRequest, TypeOK, center, section, peers
  <2> QED
    BY <2>1, <2>5 DEF Types, QueueTypes
<1>14. ASSUME NEW f \in Forwarders, OnNewGatewayResponse(f) PROVE Types'
  <2> DEFINE d == Head(external[f]).dtr
  <2>1. QueueTypes' /\ d \in 1 .. MaxDtr
    BY <1>0, <1>14, PeerEffects
  <2>2. \/ Set(f, "WITH_NETWORK", TRUE, d + 1) /\ AddGlobalRoutes({Zero}, f)
        \/ UNCHANGED <<global_state, is_local_root, dtr, table>>
    BY <1>14 DEF OnNewGatewayResponse
  <2> HIDE DEF d
  <2>3. /\ global_state' \in
              [Forwarders -> {"WITHOUT_NETWORK", "WITH_NETWORK", "ON_GW_REQUEST"}]
        /\ is_local_root' \in [Forwarders -> BOOLEAN]
        /\ dtr' \in [Forwarders -> 0 .. MaxDtr + 2]
        /\ default_gateway' \in Board /\ routes' \in [Known -> Board \cup {None}]
    <3>1. CASE Set(f, "WITH_NETWORK", TRUE, d + 1) /\ AddGlobalRoutes({Zero}, f)
      BY <3>1, <1>0, <1>c, <2>1, SetTypes, RouteTypes
    <3>2. CASE UNCHANGED <<global_state, is_local_root, dtr, table>>
      BY <3>2, <1>0 DEF TypeOK, table
    <3> QED
      BY <2>2, <3>1, <3>2
  <2>4. TypeOK'
    BY <1>0, <1>14, <2>3 DEF OnNewGatewayResponse, TypeOK, center, section, peers
  <2> QED
    BY <2>1, <2>4 DEF Types, QueueTypes
<1>15. ASSUME NEW f \in Forwarders, OnPeerLost(f) PROVE Types'
  <2>1. QueueTypes'
    BY <1>0, <1>15, PeerEffects
  <2>2. /\ global_state' \in
              [Forwarders -> {"WITHOUT_NETWORK", "WITH_NETWORK", "ON_GW_REQUEST"}]
        /\ is_local_root' \in [Forwarders -> BOOLEAN]
        /\ dtr' \in [Forwarders -> 0 .. MaxDtr + 2]
    <3>1. CASE is_local_root[f]
      BY <3>1, <1>0, <1>15, <1>a, SetTypes DEF OnPeerLost
    <3>2. CASE ~is_local_root[f]
      BY <3>2, <1>0, <1>15 DEF OnPeerLost, TypeOK
    <3> QED
      BY <3>1, <3>2
  <2>3. default_gateway' \in Board /\ routes' \in [Known -> Board \cup {None}]
    BY <1>0, <1>15, RouteTypes DEF OnPeerLost
  <2>4. TypeOK'
    BY <1>0, <1>15, <2>2, <2>3 DEF OnPeerLost, TypeOK, center, section, peers
  <2> QED
    BY <2>1, <2>4 DEF Types, QueueTypes
<1> QED
  BY <1>1, <1>2, <1>3, <1>4, <1>5, <1>6, <1>7, <1>8, <1>9, <1>10, <1>11,
     <1>12, <1>13, <1>14, <1>15 DEF Handler

----------------------------------------------------------------------------
(* What the order of the queues says of a board that handles an event.     *)

LEMMA PeerFacts ==
  ASSUME QueueTypes, WithoutInv, TurnInv, RootInv, NEW f \in Forwarders, NEW id,
         Peer(f, id)
  PROVE  /\ is_root => ~IsWithout(f) /\ node_network[f] # Zero /\ dtr[f] = 1
         /\ ~is_root => internal[f] = <<>>
         /\ id = "NEW_GATEWAY_REQUEST" => ~IsWithout(f)
<1>1. external[f] \in Seq(PeerEvents) /\ external[f] # <<>> /\ Head(external[f]).id = id
  BY BoardFacts DEF QueueTypes, Peer
<1>2. IsWithout(f) => GreetsFirst(external[f]) /\ node_network[f] = Zero
  BY DEF WithoutInv
<1>3. id = "NEW_GATEWAY_REQUEST" => ~IsWithout(f)
  BY <1>1, <1>2, GreetsFirstFacts
<1>4. is_root => node_network[f] # Zero /\ dtr[f] = 1
  BY <1>1 DEF RootInv, RootBoard
<1>5. ~is_root => internal[f] = <<>>
  BY DEF TurnInv, Peer
<1> QED
  BY <1>2, <1>3, <1>4, <1>5

LEMMA ResponseFacts ==
  ASSUME QueueTypes, TypeOK, WithoutInv, TurnInv, RootInv, NEW f \in Forwarders,
         OnNewGatewayResponse(f), Improves(f, Head(external[f]).dtr)
  PROVE  ~is_root
<1>1. Head(external[f]).dtr \in 1 .. MaxDtr
  BY PeerEffects
<1>2. Peer(f, "NEW_GATEWAY_RESPONSE")
  BY DEF OnNewGatewayResponse
<1>3. is_root => dtr[f] = 1
  BY <1>2, PeerFacts
<1>4. is_root => ~Improves(f, Head(external[f]).dtr)
  BY <1>1, <1>3, LimitsAssumption, SMT DEF Improves
<1> QED
  BY <1>4

LEMMA SiblingFacts ==
  ASSUME QueueTypes, Started, NEW f \in Forwarders, NEW id, Sibling(f, id),
         id # "ON_START"
  PROVE  /\ IsWithout(f) => Informed /\ id \in Informers
         /\ id = "PROVISION" => Provisioned(f)
         /\ id # "PROVISION" => ~Has(Tail(internal[f]), "PROVISION")
<1> DEFINE q == internal[f]
<1>1. /\ q \in Seq(SiblingEvents) /\ q # <<>> /\ Head(q).id = id
  BY BoardFacts DEF QueueTypes, Sibling
<1>2. ~OnlyStarts(q)
  BY <1>1, OnlyStartsFacts
<1>3. Has(q, id)
  BY <1>1, HasFacts
<1>4. Leads(q, Informers) => id \in Informers
  <2>1. "ON_START" \notin Informers
    BY DEF Informers
  <2> QED
    BY <1>1, <2>1, LeadsFacts
<1>5. id # "PROVISION" => ~Has(Tail(q), "PROVISION")
  BY <1>1, ProvisionFirstFacts DEF Started
<1> QED
  BY <1>2, <1>3, <1>4, <1>5 DEF Started

----------------------------------------------------------------------------
(* How the node gets its network: StartInv.                                *)

LEMMA StartKept ==
  ASSUME Started, is_root' = is_root, \A b \in Board : internal'[b] = internal[b],
         gateway_requested' => gateway_requested \/ Informed,
         \A f \in Forwarders :
           /\ IsWithout(f)' <=> IsWithout(f)
           /\ Has(internal[f], "PROVISION") /\ Provisioned(f) => Provisioned(f)'
  PROVE  Started' /\ (Informed' <=> Informed)
<1>1. Informed' <=> Informed
  BY BoardFacts DEF Informed
<1>2. Informers' = Informers
  BY DEF Informers
<1>3. \A f \in Forwarders : internal'[f] = internal[f]
  BY BoardFacts
<1>4. is_root => internal'[Center] = internal[Center]
  BY BoardFacts
<1>5. ~Informed' => /\ \A f \in Forwarders : OnlyStarts(internal'[f]) /\ IsWithout(f)'
                    /\ is_root' => internal'[Center] = <<[id |-> "ON_START"]>>
                    /\ ~gateway_requested'
  BY <1>1, <1>3, <1>4 DEF Started
<1>6. Informed' => \A f \in Forwarders : IsWithout(f)' => Leads(internal'[f], Informers')
  BY <1>1, <1>2, <1>3 DEF Started
<1>7. \A f \in Forwarders : /\ ProvisionFirst(internal'[f])
                            /\ Has(internal'[f], "PROVISION") => Provisioned(f)'
  BY <1>3 DEF Started
<1> QED
  BY <1>1, <1>5, <1>6, <1>7 DEF Started

LEMMA StartTaken ==
  ASSUME QueueTypes, Started, NEW b \in Board, NEW id, Takes(b, id),
         is_root' = is_root, gateway_requested' = gateway_requested,
         b = Center /\ is_root => id # "ON_START",
         id = "ON_START" => \A f \in Forwarders : IsWithout(f)' <=> IsWithout(f),
         \A f \in Forwarders : f # b => /\ IsWithout(f)' <=> IsWithout(f)
                                        /\ Provisioned(f) => Provisioned(f)',
         b \in Forwarders =>
           /\ IsWithout(b)' => IsWithout(b)
           /\ id \in Informers => ~IsWithout(b)'
           /\ id \in {"ON_START", "PROVISION"} => (Provisioned(b) => Provisioned(b)')
  PROVE  Started'
<1> DEFINE q == internal[b]
           t == Tail(internal[b])
<1>1. /\ q \in Seq(SiblingEvents) /\ q # <<>> /\ Head(q).id = id
      /\ internal'[b] = t /\ \A c \in Board : c # b => internal'[c] = internal[c]
  BY DEF QueueTypes, Takes
<1>2. /\ \A i : Has(t, i) => Has(q, i)
      /\ Has(q, id)
  BY <1>1, HasFacts
<1>3. OnlyStarts(q) => id = "ON_START" /\ OnlyStarts(t)
  BY <1>1, OnlyStartsFacts
<1>4. Leads(q, Informers) /\ id \notin Informers => Leads(t, Informers)
  <2>1. "ON_START" \notin Informers
    BY DEF Informers
  <2> QED
    BY <1>1, <2>1, LeadsFacts
<1>5. ASSUME b \in Forwarders
      PROVE  /\ ProvisionFirst(t)
             /\ Has(t, "PROVISION") => Provisioned(b)'
  <2>1. ProvisionFirst(q) /\ (Has(q, "PROVISION") => Provisioned(b))
    BY <1>5 DEF Started
  <2>2. /\ ProvisionFirst(t)
        /\ id \notin {"ON_START", "PROVISION"} => ~Has(t, "PROVISION")
    BY <1>1, <2>1, ProvisionFirstFacts
  <2> QED
    BY <1>2, <1>5, <2>1, <2>2
<1> HIDE DEF q, t
<1>6. internal[b] = q
  BY DEF q
<1>7. Informers' = Informers
  BY DEF Informers
<1>8. ASSUME NEW f \in Forwarders
      PROVE  /\ ProvisionFirst(internal'[f])
             /\ Has(internal'[f], "PROVISION") => Provisioned(f)'
  <2>1. CASE f = b
    BY <1>1, <1>5, <2>1
  <2>2. CASE f # b
    BY <1>1, <2>2, BoardFacts DEF Started
  <2> QED
    BY <2>1, <2>2
<1>9. CASE ~Informed
  <2>1. b \in Forwarders => id = "ON_START"
    BY <1>3, <1>6, <1>9 DEF Started
  <2>2. ~(b = Center /\ is_root)
    <3>1. <<[id |-> "ON_START"]>> # <<>> /\ Head(<<[id |-> "ON_START"]>>).id = "ON_START"
      BY SMT
    <3> QED
      BY <1>1, <1>6, <1>9, <3>1 DEF Started
  <2>3. \A f \in Forwarders : IsWithout(f)' /\ OnlyStarts(internal'[f])
    BY <1>1, <1>3, <1>6, <1>9, <2>1, BoardFacts DEF Started
  <2>4. ~Informed'
    BY <1>1, <1>9, <2>2, <2>3, BoardFacts DEF Informed
  <2>5. is_root => internal'[Center] = <<[id |-> "ON_START"]>>
    BY <1>1, <1>9, <2>2, BoardFacts DEF Started
  <2>6. ~gateway_requested'
    BY <1>9 DEF Started
  <2> QED
    BY <1>8, <2>3, <2>4, <2>5, <2>6 DEF Started
<1>10. CASE Informed
  <2>1. Informed'
    <3>1. CASE is_root
      BY <1>1, <1>2, <1>6, <1>10, <3>1, BoardFacts DEF Informed
    <3>2. CASE ~is_root
      BY <1>10, <3>2, BoardFacts DEF Informed
    <3> QED
      BY <3>1, <3>2
  <2>2. ASSUME NEW f \in Forwarders, IsWithout(f)'
        PROVE  Leads(internal'[f], Informers)
    <3>1. Leads(internal[f], Informers)
      BY <1>10, <2>2 DEF Started
    <3> QED
      BY <1>1, <1>4, <1>6, <2>2, <3>1, BoardFacts
  <2> QED
    BY <1>7, <1>8, <2>1, <2>2 DEF Started
<1> QED
  BY <1>9, <1>10

LEMMA StartSent ==
  ASSUME QueueTypes, QueueTypes', RolesTold', Started,
         NEW f \in Forwarders, NEW e \in SiblingEvents,
         Sends(f, e), is_root' = is_root, gateway_requested' = gateway_requested,
         e.id # "ON_START", is_root => e.id = "SEND_NEW_GATEWAY_REQUEST",
         internal[f] = <<>> \/ (Provisioned(f) => Provisioned(f)'),
         IsWithout(f) => internal[f] = <<>>,
         ~IsWithout(f)',
         \A g \in Forwarders : g # f => /\ IsWithout(g)' <=> IsWithout(g)
                                        /\ Provisioned(g) => Provisioned(g)',
         e.id = "PROVISION" => IsWithout(f),
         e.id = "SEND_NEW_GATEWAY_REQUEST" => ~IsWithout(f)
  PROVE  Started'
<1>1. /\ internal'[f] = internal[f] /\ internal[f] \in Seq(SiblingEvents)
      /\ \A c \in Board : c # f =>
           /\ internal[c] \in Seq(SiblingEvents) /\ internal'[c] \in Seq(SiblingEvents)
           /\ Grows(internal[c], e, internal'[c])
           /\ e.id \in {"PROVISION", "NEW_GATEWAY_WINNER"} =>
                Len(internal'[c]) > Len(internal[c])
  BY BoardFacts DEF QueueTypes, Sends, Spreads, RolesTold
<1>2. "ON_START" \notin Informers /\ Informers' = Informers
      /\ Informers \subseteq {"PROVISION", "NEW_GATEWAY_WINNER"}
  BY DEF Informers
<1>3. IsWithout(f) => ~Informed
  BY <1>1, <1>2, LeadsFacts DEF Started
<1>4. ~Informed => IsWithout(f) /\ ~is_root /\ e.id \in Informers
  <2>1. ~Informed => IsWithout(f)
    BY DEF Started
  <2>2. e.id \in {"PROVISION", "SEND_NEW_GATEWAY_REQUEST", "NEW_GATEWAY_WINNER"}
    BY EventFacts
  <2> QED
    BY <2>1, <2>2 DEF Informers
<1>5. Informed'
  <2>1. CASE is_root
    <3>1. /\ Grows(internal[Center], e, internal'[Center])
          /\ internal[Center] \in Seq(SiblingEvents)
          /\ internal'[Center] \in Seq(SiblingEvents)
      BY <1>1, BoardFacts
    <3>2. Has(internal'[Center], "ON_START") => Has(internal[Center], "ON_START")
      BY <3>1, HasGrows
    <3> QED
      BY <1>4, <2>1, <3>2 DEF Informed
  <2>2. CASE ~is_root
    BY <2>2 DEF Informed
  <2> QED
    BY <2>1, <2>2
<1>6. ASSUME NEW g \in Forwarders, g # f
      PROVE  /\ IsWithout(g)' => Leads(internal'[g], Informers)
             /\ ProvisionFirst(internal'[g])
             /\ Has(internal'[g], "PROVISION") => Provisioned(g)'
  <2> DEFINE q == internal[g]
             t == internal'[g]
  <2>1. /\ q \in Seq(SiblingEvents) /\ t \in Seq(SiblingEvents) /\ Grows(q, e, t)
        /\ e.id \in Informers => Len(t) > Len(q)
    BY <1>1, <1>2, <1>6, BoardFacts
  <2>2. /\ ProvisionFirst(q)
        /\ Has(q, "PROVISION") => Provisioned(g)
    BY DEF Started
  <2>3. ~Informed => OnlyStarts(q) /\ IsWithout(g)
    BY DEF Started
  <2>4. Informed /\ IsWithout(g) => Leads(q, Informers)
    BY DEF Started
  <2> HIDE DEF q, t
  <2>5. IsWithout(g)' => Leads(t, Informers)
    <3>1. CASE Informed
      BY <1>6, <2>1, <2>4, <3>1, LeadsGrows
    <3>2. CASE ~Informed
      BY <1>4, <2>1, <2>3, <3>2, LeadsGrows
    <3> QED
      BY <3>1, <3>2
  <2>6. ProvisionFirst(t)
    BY <1>3, <2>1, <2>2, <2>3, ProvisionFirstGrows
  <2>7. Has(t, "PROVISION") => Provisioned(g)'
    <3>1. Has(t, "PROVISION") => Has(q, "PROVISION") \/ e.id = "PROVISION"
      BY <2>1, HasGrows
    <3>2. e.id = "PROVISION" => Provisioned(g)
      BY <1>3, <2>3 DEF Provisioned
    <3> QED
      BY <1>6, <2>2, <3>1, <3>2
  <2> QED
    BY <2>5, <2>6, <2>7 DEF t
<1>7. /\ ProvisionFirst(internal'[f])
      /\ Has(internal'[f], "PROVISION") => Provisioned(f)'
  <2>1. ProvisionFirst(internal[f]) /\ (Has(internal[f], "PROVISION") => Provisioned(f))
    BY DEF Started
  <2>2. internal[f] = <<>> => ~Has(internal[f], "PROVISION")
    BY <1>1, HasFacts
  <2> QED
    BY <1>1, <2>1, <2>2
<1>8. \A g \in Forwarders :
         /\ IsWithout(g)' => Leads(internal'[g], Informers)
         /\ ProvisionFirst(internal'[g])
         /\ Has(internal'[g], "PROVISION") => Provisioned(g)'
  BY <1>6, <1>7
<1> QED
  BY <1>2, <1>5, <1>8 DEF Started


LEMMA HandlerStart ==
  ASSUME GatewayInv, Types', Handler, Told
  PROVE  StartInv'
<1> USE BoardFacts
<1> SUFFICES ASSUME RolesTold' PROVE Started'
  BY DEF StartInv
<1>0. /\ QueueTypes /\ QueueTypes' /\ TypeOK /\ Started /\ WithoutInv /\ TurnInv
      /\ RootInv
  BY DEF GatewayInv, Types, QueueTypes, StartInv, Told
<1>1. CASE RootStart
  <2> DEFINE e == Provision(RootNetwork, 1)
  <2>1. /\ internal[Center] # <<>> /\ Head(internal[Center]).id = "ON_START"
        /\ internal'[Center] = Tail(internal[Center])
        /\ Spreads(Center, e) /\ e \in SiblingEvents
    BY <1>0, <1>1, CenterEffects
  <2>2. e.id = "PROVISION"
    BY DEF Provision
  <2> HIDE DEF e
  <2>3. is_root /\ UNCHANGED <<is_root, global_state, node_network, gateway_requested>>
    BY <1>1 DEF RootStart, forwarder, center
  <2>4. ~Informed
    BY <1>0, <2>1, <2>3, HasFacts DEF Informed, QueueTypes
  <2>5. /\ internal[Center] = <<[id |-> "ON_START"]>>
        /\ \A f \in Forwarders : IsWithout(f) /\ OnlyStarts(internal[f])
                                 /\ ProvisionFirst(internal[f])
    BY <1>0, <2>3, <2>4 DEF Started
  <2>6. internal'[Center] = <<>>
    BY <2>1, <2>5, SMT
  <2>7. Informed'
    <3>1. ~Has(<<>>, "ON_START")
      BY SMT DEF Has
    <3> QED
      BY <2>3, <2>6, <3>1 DEF Informed
  <2>8. ASSUME NEW f \in Forwarders
        PROVE  /\ Leads(internal'[f], Informers)
               /\ ProvisionFirst(internal'[f])
    <3>1. /\ internal[f] \in Seq(SiblingEvents) /\ internal'[f] \in Seq(SiblingEvents)
          /\ Grows(internal[f], e, internal'[f])
          /\ Len(internal'[f]) > Len(internal[f])
      BY <1>0, <2>1, <2>2 DEF QueueTypes, Spreads, RolesTold
    <3>2. "PROVISION" \in Informers
      BY DEF Informers
    <3>3. Leads(internal'[f], Informers)
      BY <2>1, <2>2, <2>5, <3>1, <3>2, LeadsGrows
    <3>4. ProvisionFirst(internal'[f])
      BY <2>1, <2>2, <2>5, <3>1, ProvisionFirstGrows
    <3> QED
      BY <3>3, <3>4
  <2>9. Informers' = Informers
    BY <2>3 DEF Informers
  <2>10. \A f \in Forwarders : IsWithout(f)' /\ Provisioned(f)'
    BY <2>3, <2>5 DEF IsWithout, Provisioned
  <2> QED
    BY <2>7, <2>8, <2>9, <2>10 DEF Started
<1>2. CASE RootRequested
  <2>1. /\ internal' = internal /\ internal[Center] # <<>>
        /\ Head(internal[Center]).id = "SEND_NEW_GATEWAY_REQUEST"
    BY <1>0, <1>2, CenterEffects
  <2>2. UNCHANGED <<is_root, global_state, node_network>> /\ is_root
    BY <1>2 DEF RootRequested, forwarder
  <2>3. Informed
    <3>1. Head(<<[id |-> "ON_START"]>>).id = "ON_START"
      BY SMT
    <3> QED
      BY <1>0, <2>1, <2>2, <3>1 DEF Started
  <2>4. \A f \in Forwarders : /\ IsWithout(f)' <=> IsWithout(f)
                              /\ Provisioned(f) => Provisioned(f)'
    BY <2>2 DEF IsWithout, Provisioned
  <2> QED
    BY <1>0, <2>1, <2>2, <2>3, <2>4, StartKept
<1>3. CASE RootTimeout
  <2>1. /\ internal[Center] # <<>>
        /\ Head(internal[Center]).id = "SEND_NEW_GATEWAY_REQUEST"
    BY <1>0, <1>3 DEF TurnInv, RootTimeout
  <2>2. Takes(Center, "SEND_NEW_GATEWAY_REQUEST")
    BY <1>0, <1>3, <2>1, CenterEffects DEF Takes
  <2>3. UNCHANGED <<is_root, global_state, node_network, gateway_requested>>
    BY <1>3 DEF RootTimeout, forwarder
  <2>4. \A f \in Forwarders : /\ IsWithout(f)' <=> IsWithout(f)
                              /\ Provisioned(f) => Provisioned(f)'
    BY <2>3 DEF IsWithout, Provisioned
  <2> QED
    BY <1>0, <2>2, <2>3, <2>4, StartTaken
<1>4. CASE HomeProvisioned
  <2>1. Takes(Center, "PROVISION")
    BY <1>0, <1>4, CenterEffects
  <2>2. ~is_root /\ UNCHANGED <<is_root, global_state, node_network, gateway_requested>>
    BY <1>4 DEF HomeProvisioned, forwarder
  <2>3. \A f \in Forwarders : /\ IsWithout(f)' <=> IsWithout(f)
                              /\ Provisioned(f) => Provisioned(f)'
    BY <2>2 DEF IsWithout, Provisioned
  <2> QED
    BY <1>0, <2>1, <2>2, <2>3, StartTaken
<1>5. ASSUME NEW b \in Board, NoHandler(b) PROVE Started'
  <2>1. PICK id : Takes(b, id) /\ (b = Center => ~is_root)
                  /\ (b \in Forwarders => id = "ON_START")
    BY <1>0, <1>5, NoHandlerEffects
  <2>2. UNCHANGED <<is_root, global_state, node_network, gateway_requested>>
    BY <1>5 DEF NoHandler, forwarder, center
  <2>3. \A f \in Forwarders : /\ IsWithout(f)' <=> IsWithout(f)
                              /\ Provisioned(f) => Provisioned(f)'
    BY <2>2 DEF IsWithout, Provisioned
  <2>4. "ON_START" \notin Informers
    BY DEF Informers
  <2> QED
    BY <1>0, <2>1, <2>2, <2>3, <2>4, StartTaken
<1>6. ASSUME NEW f \in Forwarders, SkipProvision(f) PROVE Started'
  <2>1. Takes(f, "PROVISION")
    BY <1>0, <1>6, ForwarderEffects
  <2>2. ~IsWithout(f) /\ UNCHANGED <<is_root, global_state, node_network, gateway_requested>>
    BY <1>6 DEF SkipProvision, IsWithout, forwarder, center
  <2>3. \A g \in Forwarders : /\ IsWithout(g)' <=> IsWithout(g)
                              /\ Provisioned(g) => Provisioned(g)'
    BY <2>2 DEF IsWithout, Provisioned
  <2> QED
    BY <1>0, <2>1, <2>2, <2>3, StartTaken
<1>7. ASSUME NEW f \in Forwarders, OnProvision(f) PROVE Started'
  <2> DEFINE e == Head(internal[f])
  <2>1. Takes(f, "PROVISION")
    BY <1>0, <1>7, ForwarderEffects
  <2>2. /\ Set(f, "WITH_NETWORK", FALSE, e.dtr)
        /\ node_network' = [node_network EXCEPT ![f] = e.network]
        /\ UNCHANGED <<is_root, gateway_requested>>
        /\ Sibling(f, "PROVISION")
    BY <1>7 DEF OnProvision, center
  <2>3. e.network # Zero
    <3>1. e \in SiblingEvents /\ e.id = "PROVISION"
      BY <1>0, <2>2, HeadIsEvent DEF Sibling
    <3> QED
      BY <3>1, EventFacts, NetworkFacts DEF Nets
  <2> HIDE DEF e
  <2>4. /\ ~IsWithout(f)' /\ Provisioned(f)'
        /\ \A g \in Forwarders : g # f => /\ IsWithout(g)' <=> IsWithout(g)
                                          /\ Provisioned(g) => Provisioned(g)'
    BY <1>0, <2>2, <2>3 DEF Set, IsWithout, Provisioned, TypeOK
  <2> QED
    BY <1>0, <2>1, <2>2, <2>4, StartTaken
<1>8. ASSUME NEW f \in Forwarders, OnSendNewGatewayRequest(f) PROVE Started'
  <2>1. Takes(f, "SEND_NEW_GATEWAY_REQUEST")
    BY <1>0, <1>8, ForwarderEffects
  <2>2. Sibling(f, "SEND_NEW_GATEWAY_REQUEST")
        /\ UNCHANGED <<is_root, gateway_requested, node_network>>
    BY <1>8 DEF OnSendNewGatewayRequest, center
  <2>3. \/ Set(f, "ON_GW_REQUEST", is_local_root[f], 0)
        \/ UNCHANGED global_state
    BY <1>8 DEF OnSendNewGatewayRequest
  <2>4. ~IsWithout(f)
    <3>1. "SEND_NEW_GATEWAY_REQUEST" \notin Informers
      BY DEF Informers
    <3> QED
      BY <1>0, <2>2, <3>1, SiblingFacts
  <2>5. /\ \A g \in Forwarders : IsWithout(g)' <=> IsWithout(g)
        /\ \A g \in Forwarders : g # f => (Provisioned(g) => Provisioned(g)')
    BY <1>0, <2>2, <2>3, <2>4 DEF Set, IsWithout, Provisioned, TypeOK
  <2>6. "SEND_NEW_GATEWAY_REQUEST" \notin Informers
    BY DEF Informers
  <2> QED
    BY <1>0, <2>1, <2>2, <2>5, <2>6, StartTaken
<1>9. ASSUME NEW f \in Forwarders, OnNewGatewayWinner(f) PROVE Started'
  <2>1. Takes(f, "NEW_GATEWAY_WINNER")
    BY <1>0, <1>9, ForwarderEffects
  <2>2. UNCHANGED <<is_root, gateway_requested, node_network>>
    BY <1>9 DEF OnNewGatewayWinner, center
  <2>3. \/ dtr[f] # 1
           /\ Set(f, "WITH_NETWORK", FALSE, Head(internal[f]).dtr + 1)
        \/ dtr[f] = 1 /\ UNCHANGED global_state
    BY <1>9 DEF OnNewGatewayWinner
  <2>4. IsWithout(f) => dtr[f] = 0
    BY <1>0 DEF WithoutInv, IsWithout
  <2>5. /\ ~IsWithout(f)'
        /\ \A g \in Forwarders : g # f => /\ IsWithout(g)' <=> IsWithout(g)
                                          /\ Provisioned(g) => Provisioned(g)'
    <3>1. CASE dtr[f] # 1
      BY <1>0, <2>2, <2>3, <3>1 DEF Set, IsWithout, Provisioned, TypeOK
    <3>2. CASE dtr[f] = 1
      BY <2>2, <2>3, <2>4, <3>2 DEF IsWithout, Provisioned
    <3> QED
      BY <3>1, <3>2
  <2> QED
    BY <1>0, <2>1, <2>2, <2>5, StartTaken
<1>10. ASSUME NEW f \in Forwarders, OnPeerConnected(f) PROVE Started'
  <2>1. internal' = internal
    BY <1>0, <1>10, PeerEffects
  <2>2. UNCHANGED <<is_root, global_state, node_network, gateway_requested>>
    BY <1>10 DEF OnPeerConnected, center
  <2> QED
    BY <1>0, <2>1, <2>2, StartKept DEF IsWithout, Provisioned
<1>11. ASSUME NEW f \in Forwarders, OnHandshakeProvision(f) PROVE Started'
  <2> DEFINE h == Head(external[f])
             e == Provision(h.provided, h.dtr + 1)
  <2>1. h.provided \in Networks
    BY <1>0, <1>11, ProvidedNetwork
  <2>2. Sends(f, e) /\ h.dtr \in 0 .. MaxDtr
    BY <1>0, <1>11, <2>1, PeerEffects
  <2>3. e \in SiblingEvents /\ e.id = "PROVISION"
    <3>1. h.dtr + 1 \in 1 .. MaxDtr + 1
      BY <2>2, LimitsAssumption, SMT
    <3> QED
      BY <2>1, <3>1, EventFacts
  <2>4. /\ Peer(f, "HANDSHAKE") /\ IsWithout(f)
        /\ Set(f, "WITH_NETWORK", TRUE, h.dtr)
        /\ UNCHANGED <<is_root, gateway_requested>>
        /\ node_network' = [node_network EXCEPT ![f] = h.provided]
    BY <1>11 DEF OnHandshakeProvision, center, IsWithout
  <2> HIDE DEF e, h
  <2>5. ~is_root /\ internal[f] = <<>>
    BY <1>0, <2>4, PeerFacts
  <2>6. /\ ~IsWithout(f)'
        /\ \A g \in Forwarders : g # f => /\ IsWithout(g)' <=> IsWithout(g)
                                          /\ Provisioned(g) => Provisioned(g)'
    BY <1>0, <2>4 DEF Set, IsWithout, Provisioned, TypeOK
  <2> QED
    BY <1>0, <2>2, <2>3, <2>4, <2>5, <2>6, StartSent
<1>12. ASSUME NEW f \in Forwarders, OnHandshakeRedundant(f) PROVE Started'
  <2>1. internal' = internal
    BY <1>0, <1>12, PeerEffects
  <2>2. UNCHANGED <<is_root, global_state, node_network, gateway_requested>>
    BY <1>12 DEF OnHandshakeRedundant, center, forwarder
  <2> QED
    BY <1>0, <2>1, <2>2, StartKept DEF IsWithout, Provisioned
<1>13. ASSUME NEW f \in Forwarders, OnNewGatewayRequest(f) PROVE Started'
  <2> DEFINE e == Request(Head(external[f]).hag)
  <2>1. /\ \/ internal' = internal
           \/ Sends(f, e)
        /\ Head(external[f]).hag \in Seq(Networks)
    BY <1>0, <1>13, PeerEffects
  <2>2. e \in SiblingEvents /\ e.id = "SEND_NEW_GATEWAY_REQUEST"
    BY <2>1, EventFacts
  <2>3. /\ Peer(f, "NEW_GATEWAY_REQUEST") /\ UNCHANGED <<is_root, gateway_requested, node_network>>
        /\ \/ dtr[f] # 1 /\ Set(f, "ON_GW_REQUEST", is_local_root[f], 0)
           \/ UNCHANGED global_state
    BY <1>13 DEF OnNewGatewayRequest, StartsWaiting, center
  <2> HIDE DEF e
  <2>4. ~IsWithout(f)
    BY <1>0, <2>3, PeerFacts
  <2>5. /\ \A g \in Forwarders : IsWithout(g)' <=> IsWithout(g)
        /\ \A g \in Forwarders : g # f => (Provisioned(g) => Provisioned(g)')
    BY <1>0, <2>3, <2>4 DEF Set, IsWithout, Provisioned, TypeOK
  <2>6. internal[f] = <<>> \/ (Provisioned(f) => Provisioned(f)')
    <3>1. CASE is_root
      <4>1. dtr[f] = 1
        BY <1>0, <2>3, <3>1, PeerFacts
      <4> QED
        BY <2>3, <4>1 DEF Provisioned, IsWithout
    <3>2. CASE ~is_root
      BY <1>0, <2>3, <3>2, PeerFacts
    <3> QED
      BY <3>1, <3>2
  <2>7. CASE internal' = internal
    <3>1. internal[f] = <<>> => ~Has(internal[f], "PROVISION")
      BY SMT DEF Has
    <3>2. \A g \in Forwarders :
            Has(internal[g], "PROVISION") /\ Provisioned(g) => Provisioned(g)'
      BY <2>5, <2>6, <3>1
    <3> QED
      BY <1>0, <2>3, <2>5, <2>7, <3>2, StartKept
  <2>8. CASE Sends(f, e)
    BY <1>0, <2>2, <2>3, <2>4, <2>5, <2>6, <2>8, StartSent
  <2> QED
    BY <2>1, <2>7, <2>8
<1>14. ASSUME NEW f \in Forwarders, OnNewGatewayResponse(f) PROVE Started'
  <2> DEFINE d == Head(external[f]).dtr
             e == Winner(d + 1)
  <2>1. /\ \/ ~Improves(f, d) /\ internal' = internal
           \/ Improves(f, d) /\ Sends(f, e)
        /\ d \in 1 .. MaxDtr
    BY <1>0, <1>14, PeerEffects
  <2>2. e \in SiblingEvents /\ e.id = "NEW_GATEWAY_WINNER"
    <3>1. d + 1 \in 1 .. MaxDtr + 1
      BY <2>1, LimitsAssumption, SMT
    <3> QED
      BY <3>1, EventFacts
  <2>3. /\ Peer(f, "NEW_GATEWAY_RESPONSE") /\ UNCHANGED <<is_root, gateway_requested, node_network>>
        /\ \/ Improves(f, d) /\ Set(f, "WITH_NETWORK", TRUE, d + 1)
           \/ ~Improves(f, d) /\ UNCHANGED global_state
    BY <1>14 DEF OnNewGatewayResponse, center
  <2>4. Improves(f, d) => ~is_root
    BY <1>0, <1>14, ResponseFacts
  <2> HIDE DEF d, e
  <2>5. CASE Improves(f, d)
    <3>1. ~is_root /\ internal[f] = <<>>
      BY <1>0, <2>3, <2>4, <2>5, PeerFacts
    <3>2. /\ ~IsWithout(f)'
          /\ \A g \in Forwarders : g # f => /\ IsWithout(g)' <=> IsWithout(g)
                                            /\ Provisioned(g) => Provisioned(g)'
      BY <1>0, <2>3, <2>5 DEF Set, IsWithout, Provisioned, TypeOK
    <3> QED
      BY <1>0, <2>1, <2>2, <2>3, <2>5, <3>1, <3>2, StartSent
  <2>6. CASE ~Improves(f, d)
    BY <1>0, <2>1, <2>3, <2>6, StartKept DEF IsWithout, Provisioned
  <2> QED
    BY <2>5, <2>6
<1>15. ASSUME NEW f \in Forwarders, OnPeerLost(f) PROVE Started'
  <2> DEFINE e == Request(<<>>)
  <2>1. \/ ~is_local_root[f] /\ internal' = internal
        \/ is_local_root[f] /\ Sends(f, e)
    BY <1>0, <1>15, PeerEffects
  <2>2. e \in SiblingEvents /\ e.id = "SEND_NEW_GATEWAY_REQUEST"
    <3>1. <<>> \in Seq(Networks)
      OBVIOUS
    <3> QED
      BY <3>1, EventFacts
  <2>3. /\ Peer(f, "LOST") /\ UNCHANGED <<is_root, gateway_requested, node_network>>
        /\ \/ is_local_root[f] /\ Set(f, "ON_GW_REQUEST", FALSE, 0)
           \/ ~is_local_root[f] /\ UNCHANGED global_state
    BY <1>15 DEF OnPeerLost, center
  <2> HIDE DEF e
  <2>4. CASE ~is_local_root[f]
    BY <1>0, <2>1, <2>3, <2>4, StartKept DEF IsWithout, Provisioned
  <2>5. CASE is_local_root[f]
    <3>1. ~IsWithout(f) /\ ~is_root
      BY <1>0, <2>5 DEF WithoutInv, RootInv, RootBoard
    <3>2. internal[f] = <<>>
      BY <1>0, <2>3, <3>1, PeerFacts
    <3>3. /\ \A g \in Forwarders : IsWithout(g)' <=> IsWithout(g)
          /\ \A g \in Forwarders : g # f => (Provisioned(g) => Provisioned(g)')
      BY <1>0, <2>3, <2>5, <3>1 DEF Set, IsWithout, Provisioned, TypeOK
    <3> QED
      BY <1>0, <2>1, <2>2, <2>3, <2>5, <3>1, <3>2, <3>3, StartSent
  <2> QED
    BY <2>4, <2>5
<1> QED
  BY <1>1, <1>2, <1>3, <1>4, <1>5, <1>6, <1>7, <1>8, <1>9, <1>10, <1>11,
     <1>12, <1>13, <1>14, <1>15 DEF Handler
----------------------------------------------------------------------------
(* Boards without a network: WithoutInv.                                   *)

\* Nothing that WithoutInv says of f is disturbed.
Untouched(f) ==
  /\ IsWithout(f)
  /\ dtr'[f] = dtr[f] /\ is_local_root'[f] = is_local_root[f]
  /\ node_network'[f] = node_network[f]
  /\ f \in asked' => f \in asked
  /\ link'[f] = link[f]
  /\ \/ external'[f] = external[f]
     \/ \E id \in {"CONNECTED", "LOST", "NEW_GATEWAY_RESPONSE"} : PeerTakes(f, id)

LEMMA WithoutFrame ==
  ASSUME QueueTypes, WithoutInv,
         \A f \in Forwarders : IsWithout(f)' => Untouched(f)
  PROVE  WithoutInv'
<1> SUFFICES ASSUME NEW f \in Forwarders, IsWithout(f)'
             PROVE  /\ dtr'[f] = 0 /\ ~is_local_root'[f] /\ f \notin asked'
                    /\ node_network'[f] = Zero
                    /\ link'[f] = "greeted" => Has(external'[f], "HANDSHAKE")
                    /\ GreetsFirst(external'[f]) /\ Provides(external'[f])
  BY DEF WithoutInv, IsWithout
<1>1. Untouched(f)
  OBVIOUS
<1>2. /\ dtr[f] = 0 /\ ~is_local_root[f] /\ f \notin asked
      /\ node_network[f] = Zero
      /\ link[f] = "greeted" => Has(external[f], "HANDSHAKE")
      /\ GreetsFirst(external[f]) /\ Provides(external[f])
  BY <1>1 DEF Untouched, IsWithout, WithoutInv
<1>3. CASE external'[f] = external[f]
  BY <1>1, <1>2, <1>3 DEF Untouched
<1>4. ASSUME NEW id \in {"CONNECTED", "LOST", "NEW_GATEWAY_RESPONSE"}, PeerTakes(f, id)
      PROVE  /\ link'[f] = "greeted" => Has(external'[f], "HANDSHAKE")
             /\ GreetsFirst(external'[f]) /\ Provides(external'[f])
  <2> DEFINE q == external[f]
  <2>1. /\ q \in Seq(PeerEvents) /\ q # <<>> /\ Head(q).id = id
        /\ external'[f] = Tail(q) /\ id # "HANDSHAKE"
    BY <1>4, BoardFacts DEF PeerTakes, QueueTypes
  <2>2. Has(q, "HANDSHAKE") => Has(Tail(q), "HANDSHAKE")
    BY <2>1, HasFacts
  <2>3. GreetsFirst(Tail(q))
    BY <1>2, <2>1, GreetsFirstFacts
  <2>4. Provides(Tail(q))
    BY <1>2, <2>1, ProvidesFacts
  <2> QED
    BY <1>1, <1>2, <2>1, <2>2, <2>3, <2>4 DEF Untouched
<1>5. CASE external'[f] # external[f]
  BY <1>1, <1>2, <1>4, <1>5 DEF Untouched
<1> QED
  BY <1>3, <1>5

LEMMA HandlerWithout ==
  ASSUME GatewayInv, Handler
  PROVE  WithoutInv'
<1> USE BoardFacts
<1>0. /\ QueueTypes /\ TypeOK /\ WithoutInv /\ TurnInv /\ RootInv
  BY DEF GatewayInv, Types, QueueTypes
<1>1. CASE RootStart
  <2>1. external' = external
    BY <1>0, <1>1, CenterEffects
  <2> QED
    BY <1>0, <1>1, <2>1, WithoutFrame
       DEF RootStart, forwarder, peers, history, Untouched, IsWithout
<1>2. CASE RootRequested
  BY <1>0, <1>2, WithoutFrame
     DEF RootRequested, forwarder, queues, peers, history, Untouched, IsWithout
<1>3. CASE RootTimeout
  <2>1. external' = external
    BY <1>0, <1>3, CenterEffects DEF TurnInv, RootTimeout
  <2> QED
    BY <1>0, <1>3, <2>1, WithoutFrame
       DEF RootTimeout, forwarder, peers, history, Untouched, IsWithout
<1>4. CASE HomeProvisioned
  <2>1. external' = external
    BY <1>0, <1>4, CenterEffects
  <2> QED
    BY <1>0, <1>4, <2>1, WithoutFrame
       DEF HomeProvisioned, forwarder, peers, history, Untouched, IsWithout
<1>5. ASSUME NEW b \in Board, NoHandler(b) PROVE WithoutInv'
  <2>1. external' = external
    BY <1>0, <1>5, NoHandlerEffects
  <2> QED
    BY <1>0, <1>5, <2>1, WithoutFrame
       DEF NoHandler, forwarder, peers, history, Untouched, IsWithout
<1>6. ASSUME NEW f \in Forwarders, SkipProvision(f) PROVE WithoutInv'
  <2>1. external' = external
    BY <1>0, <1>6, ForwarderEffects
  <2> QED
    BY <1>0, <1>6, <2>1, WithoutFrame
       DEF SkipProvision, forwarder, peers, history, Untouched, IsWithout
<1>7. ASSUME NEW f \in Forwarders, OnProvision(f) PROVE WithoutInv'
  <2>1. external' = external
    BY <1>0, <1>7, ForwarderEffects
  <2>2. /\ Set(f, "WITH_NETWORK", FALSE, Head(internal[f]).dtr)
        /\ node_network' = [node_network EXCEPT ![f] = Head(internal[f]).network]
        /\ link' = [link EXCEPT ![f] = IF @ = "down" THEN @ ELSE "closing"]
        /\ UNCHANGED <<is_root, asked>>
    BY <1>7 DEF OnProvision, history
  <2>3. \A g \in Forwarders : IsWithout(g)' => Untouched(g)
    BY <1>0, <2>1, <2>2 DEF Set, TypeOK, Untouched, IsWithout
  <2> QED
    BY <1>0, <2>2, <2>3, WithoutFrame
<1>8. ASSUME NEW f \in Forwarders, OnSendNewGatewayRequest(f) PROVE WithoutInv'
  <2>1. external' = external
    BY <1>0, <1>8, ForwarderEffects
  <2>2. /\ \/ Set(f, "ON_GW_REQUEST", is_local_root[f], 0)
           \/ UNCHANGED <<global_state, is_local_root, dtr>>
        /\ UNCHANGED <<is_root, node_network, asked, link>>
    BY <1>8 DEF OnSendNewGatewayRequest, history, peers
  <2>3. \A g \in Forwarders : IsWithout(g)' => Untouched(g)
    BY <1>0, <2>1, <2>2 DEF Set, TypeOK, Untouched, IsWithout
  <2> QED
    BY <1>0, <2>2, <2>3, WithoutFrame
<1>9. ASSUME NEW f \in Forwarders, OnNewGatewayWinner(f) PROVE WithoutInv'
  <2>1. external' = external
    BY <1>0, <1>9, ForwarderEffects
  <2>2. /\ \/ Set(f, "WITH_NETWORK", FALSE, Head(internal[f]).dtr + 1)
           \/ UNCHANGED <<global_state, is_local_root, dtr>>
        /\ UNCHANGED <<is_root, node_network, link>> /\ asked' = asked \ {f}
    BY <1>9 DEF OnNewGatewayWinner, peers
  <2>3. \A g \in Forwarders : IsWithout(g)' => Untouched(g)
    BY <1>0, <2>1, <2>2 DEF Set, TypeOK, Untouched, IsWithout
  <2> QED
    BY <1>0, <2>2, <2>3, WithoutFrame
<1>10. ASSUME NEW f \in Forwarders, OnPeerConnected(f) PROVE WithoutInv'
  <2>1. PeerTakes(f, "CONNECTED")
    BY <1>0, <1>10, PeerEffects
  <2>2. UNCHANGED <<is_root, global_state, is_local_root, dtr, node_network, link, asked>>
    BY <1>10 DEF OnPeerConnected, peers, history
  <2>3. \A g \in Forwarders : IsWithout(g)' => Untouched(g)
    BY <1>0, <2>1, <2>2 DEF Untouched, IsWithout, PeerTakes
  <2> QED
    BY <1>0, <2>2, <2>3, WithoutFrame
<1>11. ASSUME NEW f \in Forwarders, OnHandshakeProvision(f) PROVE WithoutInv'
  <2> DEFINE h == Head(external[f])
  <2>1. h.provided \in Networks
    BY <1>0, <1>11, ProvidedNetwork
  <2>2. PeerTakes(f, "HANDSHAKE")
    BY <1>0, <1>11, <2>1, PeerEffects
  <2>3. /\ Set(f, "WITH_NETWORK", TRUE, h.dtr)
        /\ node_network' = [node_network EXCEPT ![f] = h.provided]
        /\ UNCHANGED <<is_root, asked, link>>
    BY <1>11 DEF OnHandshakeProvision, peers, history
  <2> HIDE DEF h
  <2>4. \A g \in Forwarders : IsWithout(g)' => Untouched(g)
    BY <1>0, <2>2, <2>3 DEF Set, TypeOK, Untouched, IsWithout, PeerTakes
  <2> QED
    BY <1>0, <2>3, <2>4, WithoutFrame
<1>12. ASSUME NEW f \in Forwarders, OnHandshakeRedundant(f) PROVE WithoutInv'
  <2>1. PeerTakes(f, "HANDSHAKE")
    BY <1>0, <1>12, PeerEffects
  <2>2. /\ UNCHANGED <<is_root, global_state, is_local_root, dtr, node_network, link, asked>>
        /\ ~IsWithout(f)
    BY <1>12 DEF OnHandshakeRedundant, forwarder, peers, history, IsWithout
  <2>3. \A g \in Forwarders : IsWithout(g)' => Untouched(g)
    BY <1>0, <2>1, <2>2 DEF Untouched, IsWithout, PeerTakes
  <2> QED
    BY <1>0, <2>2, <2>3, WithoutFrame
<1>13. ASSUME NEW f \in Forwarders, OnNewGatewayRequest(f) PROVE WithoutInv'
  <2>1. PeerTakes(f, "NEW_GATEWAY_REQUEST")
    BY <1>0, <1>13, PeerEffects
  <2>2. /\ Peer(f, "NEW_GATEWAY_REQUEST")
        /\ \/ Set(f, "ON_GW_REQUEST", is_local_root[f], 0)
           \/ UNCHANGED <<global_state, is_local_root, dtr>>
        /\ asked' = asked \cup {f} /\ UNCHANGED <<is_root, node_network, link>>
    BY <1>13 DEF OnNewGatewayRequest, peers
  <2>3. ~IsWithout(f)
    BY <1>0, <2>2, PeerFacts
  <2>4. \A g \in Forwarders : IsWithout(g)' => Untouched(g)
    BY <1>0, <2>1, <2>2, <2>3 DEF Set, TypeOK, Untouched, IsWithout, PeerTakes
  <2> QED
    BY <1>0, <2>2, <2>4, WithoutFrame
<1>14. ASSUME NEW f \in Forwarders, OnNewGatewayResponse(f) PROVE WithoutInv'
  <2>1. PeerTakes(f, "NEW_GATEWAY_RESPONSE")
    BY <1>0, <1>14, PeerEffects
  <2>2. /\ \/ Set(f, "WITH_NETWORK", TRUE, Head(external[f]).dtr + 1)
           \/ UNCHANGED <<global_state, is_local_root, dtr>>
        /\ asked' = asked \ {f} /\ UNCHANGED <<is_root, node_network, link>>
    BY <1>14 DEF OnNewGatewayResponse, peers
  <2>3. \A g \in Forwarders : IsWithout(g)' => Untouched(g)
    BY <1>0, <2>1, <2>2 DEF Set, TypeOK, Untouched, IsWithout, PeerTakes
  <2> QED
    BY <1>0, <2>2, <2>3, WithoutFrame
<1>15. ASSUME NEW f \in Forwarders, OnPeerLost(f) PROVE WithoutInv'
  <2>1. PeerTakes(f, "LOST")
    BY <1>0, <1>15, PeerEffects
  <2>2. /\ \/ Set(f, "ON_GW_REQUEST", FALSE, 0)
           \/ UNCHANGED <<global_state, is_local_root, dtr>>
        /\ asked' = asked \ {f} /\ UNCHANGED <<is_root, node_network, link>>
    BY <1>15 DEF OnPeerLost, peers
  <2>3. \A g \in Forwarders : IsWithout(g)' => Untouched(g)
    BY <1>0, <2>1, <2>2 DEF Set, TypeOK, Untouched, IsWithout, PeerTakes
  <2> QED
    BY <1>0, <2>2, <2>3, WithoutFrame
<1> QED
  BY <1>1, <1>2, <1>3, <1>4, <1>5, <1>6, <1>7, <1>8, <1>9, <1>10, <1>11,
     <1>12, <1>13, <1>14, <1>15 DEF Handler

----------------------------------------------------------------------------
(* The turn and the root's boards: TurnInv and RootInv.                    *)

PeerHandler(f) ==
  \/ OnPeerConnected(f) \/ OnHandshakeProvision(f) \/ OnHandshakeRedundant(f)
  \/ OnNewGatewayRequest(f) \/ OnNewGatewayResponse(f) \/ OnPeerLost(f)

LEMMA PeerHandlerFacts ==
  ASSUME QueueTypes, WithoutInv, NEW f \in Forwarders, PeerHandler(f)
  PROVE  /\ turn = f /\ phase = "external" /\ internal'[f] = internal[f]
         /\ external[f] # <<>> /\ \E id : Peer(f, id)
         /\ UNCHANGED <<is_root, center, section, peers>>
<1>1. \E id : Peer(f, id)
  BY DEF PeerHandler, OnPeerConnected, OnHandshakeProvision, OnHandshakeRedundant,
         OnNewGatewayRequest, OnNewGatewayResponse, OnPeerLost
<1>2. UNCHANGED <<is_root, center, section, peers>>
  BY DEF PeerHandler, OnPeerConnected, OnHandshakeProvision, OnHandshakeRedundant,
         OnNewGatewayRequest, OnNewGatewayResponse, OnPeerLost
<1>3. internal'[f] = internal[f]
  <2>1. OnHandshakeProvision(f) => Head(external[f]).provided \in Networks
    BY ProvidedNetwork
  <2> QED
    BY <2>1, PeerEffects DEF PeerHandler, Sends
<1> QED
  BY <1>1, <1>2, <1>3 DEF Peer

LEMMA HandlerTurn ==
  ASSUME GatewayInv, Handler
  PROVE  TurnInv'
<1>0. /\ QueueTypes /\ WithoutInv /\ TurnInv
  BY DEF GatewayInv, Types, QueueTypes
<1>1. ASSUME NEW f \in Forwarders, PeerHandler(f) PROVE TurnInv'
  <2>1. /\ phase = "external" /\ internal'[f] = internal[f] /\ turn = f
        /\ UNCHANGED <<is_root, turn, phase>>
    BY <1>0, <1>1, PeerHandlerFacts DEF section
  <2> QED
    BY <1>0, <2>1 DEF TurnInv
<1>2. CASE RootRequested
  <2>1. /\ internal' = internal /\ internal[Center] # <<>>
        /\ Head(internal[Center]).id = "SEND_NEW_GATEWAY_REQUEST"
    BY <1>0, <1>2, CenterEffects
  <2>2. phase' = "timeout" /\ turn' = Center /\ is_root'
    BY <1>2 DEF RootRequested, Sibling
  <2> QED
    BY <2>1, <2>2 DEF TurnInv
<1>3. CASE RootTimeout
  BY <1>3 DEF RootTimeout, TurnInv
<1>4. ASSUME phase = "internal", UNCHANGED phase PROVE TurnInv'
  BY <1>4 DEF TurnInv
<1>5. CASE RootStart \/ HomeProvisioned \/ \E b \in Board : NoHandler(b)
  BY <1>4, <1>5 DEF RootStart, HomeProvisioned, NoHandler, Sibling, section
<1>6. ASSUME NEW f \in Forwarders,
             \/ SkipProvision(f) \/ OnProvision(f)
             \/ OnSendNewGatewayRequest(f) \/ OnNewGatewayWinner(f)
      PROVE  TurnInv'
  BY <1>4, <1>6 DEF SkipProvision, OnProvision, OnSendNewGatewayRequest,
                    OnNewGatewayWinner, Sibling, section
<1> QED
  BY <1>1, <1>2, <1>3, <1>5, <1>6 DEF Handler, PeerHandler

LEMMA RootFrame ==
  ASSUME QueueTypes, QueueTypes', RootInv, is_root, is_root' = is_root,
         NEW e \in SiblingEvents,
         e.id = "PROVISION" => e.network = RootNetwork /\ e.dtr = 1,
         \A f \in Forwarders :
           /\ \/ internal'[f] = internal[f]
              \/ internal[f] # <<>> /\ internal'[f] = Tail(internal[f])
              \/ Grows(internal[f], e, internal'[f])
           /\ \/ RootBoard(f)'
              \/ UNCHANGED <<is_local_root[f], global_state[f], node_network[f],
                             dtr[f], external[f], link[f], local_state[f]>>
  PROVE  RootInv'
<1> SUFFICES ASSUME NEW f \in Forwarders PROVE RootBoard(f)' /\ NearRoot(internal'[f])
  BY DEF RootInv
<1>1. RootBoard(f)'
  BY DEF RootInv, RootBoard
<1>2. /\ internal[f] \in Seq(SiblingEvents) /\ internal'[f] \in Seq(SiblingEvents)
      /\ NearRoot(internal[f])
  BY BoardFacts DEF QueueTypes, RootInv
<1>3. NearRoot(internal'[f])
  BY <1>2, NearRootFacts, NearRootGrows
<1> QED
  BY <1>1, <1>3

LEMMA HandlerRoot ==
  ASSUME GatewayInv, Types', Handler
  PROVE  RootInv'
<1> USE BoardFacts
<1>0. /\ QueueTypes /\ QueueTypes' /\ TypeOK /\ WithoutInv /\ TurnInv /\ RootInv
  BY DEF GatewayInv, Types, QueueTypes
<1>1. is_root' = is_root
  BY DEF Handler, RootStart, RootRequested, RootTimeout, HomeProvisioned, NoHandler,
         SkipProvision, OnProvision, OnSendNewGatewayRequest, OnNewGatewayWinner,
         OnPeerConnected, OnHandshakeProvision, OnHandshakeRedundant,
         OnNewGatewayRequest, OnNewGatewayResponse, OnPeerLost
<1>2. is_root \/ gateway_requested' = gateway_requested
  BY <1>0 DEF Handler, RootStart, RootRequested, RootTimeout, HomeProvisioned,
         NoHandler, TurnInv, center,
         SkipProvision, OnProvision, OnSendNewGatewayRequest, OnNewGatewayWinner,
         OnPeerConnected, OnHandshakeProvision, OnHandshakeRedundant,
         OnNewGatewayRequest, OnNewGatewayResponse, OnPeerLost
<1>3. CASE ~is_root
  BY <1>0, <1>1, <1>2, <1>3 DEF RootInv
<1> DEFINE start == [id |-> "ON_START"]
<1>4. start \in SiblingEvents /\ start.id # "PROVISION"
  BY DEF SiblingEvents
<1> HIDE DEF start
<1>5. ASSUME is_root,
             \A f \in Forwarders :
               \/ internal'[f] = internal[f]
               \/ internal[f] # <<>> /\ internal'[f] = Tail(internal[f]),
             \A f \in Forwarders :
               \/ RootBoard(f)'
               \/ UNCHANGED <<is_local_root[f], global_state[f], node_network[f],
                              dtr[f], external[f], link[f], local_state[f]>>
      PROVE  RootInv'
  BY <1>0, <1>1, <1>4, <1>5, RootFrame
<1>6. ASSUME is_root, RootStart PROVE RootInv'
  <2> DEFINE e == Provision(RootNetwork, 1)
  <2>1. e \in SiblingEvents /\ Spreads(Center, e) /\ external' = external
    BY <1>0, <1>6, CenterEffects
  <2>2. e.network = RootNetwork /\ e.dtr = 1
    BY DEF Provision
  <2> HIDE DEF e
  <2>3. UNCHANGED <<forwarder, link>>
    BY <1>6 DEF RootStart, peers
  <2> QED
    BY <1>0, <1>1, <1>6, <2>1, <2>2, <2>3, RootFrame DEF Spreads, forwarder
<1>7. ASSUME is_root, RootRequested \/ RootTimeout PROVE RootInv'
  <2>1. /\ \A f \in Forwarders : internal'[f] = internal[f]
        /\ external' = external
    BY <1>0, <1>7, CenterEffects DEF TurnInv, RootTimeout
  <2>2. UNCHANGED <<forwarder, link>>
    BY <1>7 DEF RootRequested, RootTimeout, peers
  <2> QED
    BY <1>5, <1>7, <2>1, <2>2 DEF forwarder
<1>8. ASSUME is_root, NEW b \in Board, NoHandler(b) PROVE RootInv'
  <2>1. PICK id : Takes(b, id) /\ external' = external
    BY <1>0, <1>8, NoHandlerEffects
  <2>2. UNCHANGED <<forwarder, link>>
    BY <1>8 DEF NoHandler, peers
  <2> QED
    BY <1>5, <1>8, <2>1, <2>2 DEF Takes, forwarder
<1>9. ASSUME is_root, NEW f \in Forwarders, SkipProvision(f) PROVE RootInv'
  <2>1. Takes(f, "PROVISION") /\ external' = external
    BY <1>0, <1>9, ForwarderEffects
  <2>2. UNCHANGED <<forwarder, link>>
    BY <1>9 DEF SkipProvision, peers
  <2> QED
    BY <1>5, <1>9, <2>1, <2>2 DEF Takes, forwarder
<1>10. ASSUME is_root, NEW f \in Forwarders, OnProvision(f) PROVE RootInv'
  <2> DEFINE e == Head(internal[f])
  <2>1. Takes(f, "PROVISION") /\ external' = external
    BY <1>0, <1>10, ForwarderEffects
  <2>2. /\ Set(f, "WITH_NETWORK", FALSE, e.dtr)
        /\ node_network' = [node_network EXCEPT ![f] = e.network]
        /\ link' = [link EXCEPT ![f] = IF @ = "down" THEN @ ELSE "closing"]
        /\ local_state' = local_state
    BY <1>10 DEF OnProvision
  <2>3. e.dtr = 1 /\ e.network = RootNetwork
    <3>1. /\ internal[f] \in Seq(SiblingEvents) /\ NearRoot(internal[f])
          /\ internal[f] # <<>> /\ e.id = "PROVISION"
      BY <1>0, <1>10, <2>1 DEF QueueTypes, RootInv, Takes
    <3> QED
      BY <3>1, NearRootFacts
  <2> HIDE DEF e
  <2>4. RootBoard(f)'
    BY <1>0, <2>2, <2>3, NetworkFacts DEF Set, RootBoard, TypeOK
  <2>5. \A g \in Forwarders : g # f =>
          UNCHANGED <<is_local_root[g], global_state[g], node_network[g], dtr[g],
                      external[g], link[g], local_state[g]>>
    BY <1>0, <2>1, <2>2 DEF Set, TypeOK
  <2> QED
    BY <1>5, <1>10, <2>1, <2>4, <2>5 DEF Takes
<1>11. ASSUME is_root, NEW f \in Forwarders, OnSendNewGatewayRequest(f) PROVE RootInv'
  <2>1. Takes(f, "SEND_NEW_GATEWAY_REQUEST") /\ external' = external
    BY <1>0, <1>11, ForwarderEffects
  <2>2. ~Forwards(f, Head(internal[f]).hag)
    BY <1>0, <1>11 DEF Forwards, RootInv, RootBoard
  <2>3. UNCHANGED <<forwarder, link>>
    BY <1>11, <2>2 DEF OnSendNewGatewayRequest, peers, forwarder
  <2> QED
    BY <1>5, <1>11, <2>1, <2>3 DEF Takes, forwarder
<1>12. ASSUME is_root, NEW f \in Forwarders, OnNewGatewayWinner(f) PROVE RootInv'
  <2>1. Takes(f, "NEW_GATEWAY_WINNER") /\ external' = external
    BY <1>0, <1>12, ForwarderEffects
  <2>2. /\ \/ dtr[f] = 1 /\ UNCHANGED <<global_state, is_local_root, dtr>>
           \/ dtr[f] # 1 /\ Set(f, "WITH_NETWORK", FALSE, Head(internal[f]).dtr + 1)
        /\ UNCHANGED <<local_state, node_network, link>>
    BY <1>12 DEF OnNewGatewayWinner, peers
  <2>3. RootBoard(f)
    BY <1>0, <1>12 DEF RootInv
  <2>4. RootBoard(f)'
    BY <1>0, <2>1, <2>2, <2>3 DEF Set, RootBoard, TypeOK
  <2>5. \A g \in Forwarders : g # f =>
          UNCHANGED <<is_local_root[g], global_state[g], node_network[g], dtr[g],
                      external[g], link[g], local_state[g]>>
    BY <1>0, <2>1, <2>2 DEF Set, TypeOK
  <2> QED
    BY <1>5, <1>12, <2>1, <2>4, <2>5 DEF Takes
<1>13. ASSUME is_root, NEW f \in Forwarders, PeerHandler(f) PROVE RootInv'
  <2>1. ~IsWithout(f) /\ node_network[f] # Zero /\ dtr[f] = 1
    BY <1>0, <1>13, PeerHandlerFacts, PeerFacts
  <2>2. RootBoard(f)
    BY <1>0, <1>13 DEF RootInv
  <2>3. ~OnHandshakeProvision(f)
    BY <2>1 DEF OnHandshakeProvision, IsWithout
  <2>4. ~(OnNewGatewayResponse(f) /\ Improves(f, Head(external[f]).dtr))
    BY <1>0, <1>13, ResponseFacts
  <2>5. /\ UNCHANGED <<global_state, is_local_root, node_network, dtr, link>>
        /\ \A g \in Forwarders : g # f => UNCHANGED local_state[g]
    <3>1. CASE OnPeerConnected(f)
      BY <1>0, <3>1 DEF OnPeerConnected, peers, TypeOK
    <3>2. CASE OnHandshakeRedundant(f)
      BY <3>2 DEF OnHandshakeRedundant, forwarder, peers
    <3>3. CASE OnNewGatewayRequest(f)
      BY <2>1, <3>3 DEF OnNewGatewayRequest, StartsWaiting, peers
    <3>4. CASE OnNewGatewayResponse(f)
      BY <2>4, <3>4 DEF OnNewGatewayResponse, peers
    <3>5. CASE OnPeerLost(f)
      BY <1>0, <2>2, <3>5 DEF OnPeerLost, RootBoard, peers, TypeOK
    <3> QED
      BY <1>13, <2>3, <3>1, <3>2, <3>3, <3>4, <3>5 DEF PeerHandler
  <2>6. PICK id : PeerTakes(f, id)
    BY <1>0, <1>13, <2>3, PeerEffects DEF PeerHandler
  <2>7. \E e \in SiblingEvents : /\ e.id # "PROVISION"
                                 /\ internal' = internal \/ Sends(f, e)
    <3>1. CASE OnNewGatewayRequest(f)
      <4> DEFINE e == Request(Head(external[f]).hag)
      <4>1. /\ internal' = internal \/ Sends(f, e)
            /\ Head(external[f]).hag \in Seq(Networks)
        BY <1>0, <3>1, PeerEffects
      <4>2. e \in SiblingEvents /\ e.id # "PROVISION"
        BY <4>1, EventFacts
      <4> QED
        BY <4>1, <4>2
    <3>2. CASE ~OnNewGatewayRequest(f)
      <4>1. internal' = internal
        BY <1>0, <1>13, <2>2, <2>3, <2>4, <3>2, PeerEffects DEF PeerHandler, RootBoard
      <4> QED
        BY <1>4, <4>1
    <3> QED
      BY <3>1, <3>2
  <2>8. RootBoard(f)'
    BY <2>1, <2>2, <2>5 DEF RootBoard
  <2>9. \A g \in Forwarders : g # f =>
          UNCHANGED <<is_local_root[g], global_state[g], node_network[g], dtr[g],
                      external[g], link[g], local_state[g]>>
    BY <2>5, <2>6 DEF PeerTakes
  <2> QED
    BY <1>0, <1>1, <1>13, <2>7, <2>8, <2>9, RootFrame DEF Sends, Spreads
<1> QED
  BY <1>3, <1>6, <1>7, <1>8, <1>9, <1>10, <1>11, <1>12, <1>13
     DEF Handler, PeerHandler, HomeProvisioned

----------------------------------------------------------------------------
(* One network: NetworkInv.                                                *)

\* A step that leaves the networks of the boards and on their way as they are.
HoldsKept ==
  \A f \in Forwarders :
    /\ \A n \in Nets : Holds(f, n)' <=> Holds(f, n)
    /\ Has(internal[f], "PROVISION") => Has(internal'[f], "PROVISION")

LEMMA HoldsSame ==
  ASSUME \A f \in Forwarders : internal'[f] = internal[f],
         node_network' = node_network
  PROVE  HoldsKept
BY DEF HoldsKept, Holds

LEMMA HoldsTaken ==
  ASSUME QueueTypes, NEW b \in Board, NEW id, id # "PROVISION",
         Takes(b, id), node_network' = node_network
  PROVE  HoldsKept
<1>1. ASSUME NEW f \in Forwarders
      PROVE  /\ \A n : Offers(internal'[f], n) <=> Offers(internal[f], n)
             /\ Has(internal[f], "PROVISION") => Has(internal'[f], "PROVISION")
  <2>1. CASE f = b
    <3>1. /\ internal[f] \in Seq(SiblingEvents) /\ internal[f] # <<>>
          /\ Head(internal[f]).id # "PROVISION" /\ internal'[f] = Tail(internal[f])
      BY <2>1 DEF QueueTypes, Takes
    <3> QED
      BY <3>1, OffersFacts, HasFacts
  <2>2. CASE f # b
    BY <2>2, BoardFacts DEF Takes
  <2> QED
    BY <2>1, <2>2
<1> QED
  BY <1>1 DEF HoldsKept, Holds

LEMMA HoldsSent ==
  ASSUME QueueTypes, QueueTypes', NEW f \in Forwarders, NEW e \in SiblingEvents,
         e.id # "PROVISION", Sends(f, e), node_network' = node_network
  PROVE  HoldsKept
<1>1. ASSUME NEW g \in Forwarders
      PROVE  /\ \A n : Offers(internal'[g], n) <=> Offers(internal[g], n)
             /\ Has(internal[g], "PROVISION") => Has(internal'[g], "PROVISION")
  <2>1. CASE g = f
    BY <2>1 DEF Sends
  <2>2. CASE g # f
    <3>1. /\ internal[g] \in Seq(SiblingEvents) /\ internal'[g] \in Seq(SiblingEvents)
          /\ Grows(internal[g], e, internal'[g])
      BY <2>2, BoardFacts DEF QueueTypes, Sends, Spreads
    <3> QED
      BY <3>1, OffersGrows, HasGrows
  <2> QED
    BY <2>1, <2>2
<1> QED
  BY <1>1 DEF HoldsKept, Holds

LEMMA HandlerHolds ==
  ASSUME GatewayInv, Types', Handler, ~RootStart,
         \A f \in Forwarders : /\ ~SkipProvision(f) /\ ~OnProvision(f)
                               /\ ~OnHandshakeProvision(f)
  PROVE  HoldsKept
<1> USE BoardFacts
<1>0. QueueTypes /\ QueueTypes' /\ TurnInv
  BY DEF GatewayInv, Types, QueueTypes
<1>1. CASE RootRequested
  <2>1. internal' = internal
    BY <1>0, <1>1, CenterEffects
  <2> QED
    BY <1>1, <2>1, HoldsSame DEF RootRequested, forwarder
<1>2. CASE RootTimeout
  <2>1. \A f \in Forwarders : internal'[f] = internal[f]
    BY <1>0, <1>2, CenterEffects DEF TurnInv, RootTimeout
  <2> QED
    BY <1>2, <2>1, HoldsSame DEF RootTimeout, forwarder
<1>3. CASE HomeProvisioned
  <2>1. \A f \in Forwarders : internal'[f] = internal[f]
    BY <1>0, <1>3, CenterEffects DEF Takes
  <2> QED
    BY <1>3, <2>1, HoldsSame DEF HomeProvisioned, forwarder
<1>4. ASSUME NEW b \in Board, NoHandler(b) PROVE HoldsKept
  <2>1. PICK id : id # "PROVISION" /\ Takes(b, id)
    BY <1>0, <1>4, NoHandlerEffects
  <2>2. node_network' = node_network
    BY <1>4 DEF NoHandler, forwarder
  <2> QED
    BY <1>0, <2>1, <2>2, HoldsTaken
<1>5. ASSUME NEW f \in Forwarders, OnSendNewGatewayRequest(f) PROVE HoldsKept
  <2>1. Takes(f, "SEND_NEW_GATEWAY_REQUEST")
    BY <1>0, <1>5, ForwarderEffects
  <2> QED
    BY <1>0, <1>5, <2>1, HoldsTaken DEF OnSendNewGatewayRequest
<1>6. ASSUME NEW f \in Forwarders, OnNewGatewayWinner(f) PROVE HoldsKept
  <2>1. Takes(f, "NEW_GATEWAY_WINNER")
    BY <1>0, <1>6, ForwarderEffects
  <2> QED
    BY <1>0, <1>6, <2>1, HoldsTaken DEF OnNewGatewayWinner
<1>7. ASSUME NEW f \in Forwarders, OnPeerConnected(f) \/ OnHandshakeRedundant(f)
      PROVE  HoldsKept
  <2>1. internal' = internal
    BY <1>0, <1>7, PeerEffects
  <2> QED
    BY <1>7, <2>1, HoldsSame DEF OnPeerConnected, OnHandshakeRedundant, forwarder
<1>8. ASSUME NEW f \in Forwarders, OnNewGatewayRequest(f) PROVE HoldsKept
  <2> DEFINE e == Request(Head(external[f]).hag)
  <2>1. /\ internal' = internal \/ Sends(f, e)
        /\ Head(external[f]).hag \in Seq(Networks)
    BY <1>0, <1>8, PeerEffects
  <2>2. e \in SiblingEvents /\ e.id # "PROVISION"
    BY <2>1, EventFacts
  <2>3. node_network' = node_network
    BY <1>8 DEF OnNewGatewayRequest
  <2> HIDE DEF e
  <2> QED
    BY <1>0, <2>1, <2>2, <2>3, HoldsSame, HoldsSent
<1>9. ASSUME NEW f \in Forwarders, OnNewGatewayResponse(f) PROVE HoldsKept
  <2> DEFINE d == Head(external[f]).dtr
             e == Winner(d + 1)
  <2>1. (internal' = internal \/ Sends(f, e)) /\ d \in 1 .. MaxDtr
    BY <1>0, <1>9, PeerEffects
  <2>2. e \in SiblingEvents /\ e.id # "PROVISION"
    <3>1. d + 1 \in 1 .. MaxDtr + 1
      BY <2>1, LimitsAssumption, SMT
    <3> QED
      BY <3>1, EventFacts
  <2>3. node_network' = node_network
    BY <1>9 DEF OnNewGatewayResponse
  <2> HIDE DEF d, e
  <2> QED
    BY <1>0, <2>1, <2>2, <2>3, HoldsSame, HoldsSent
<1>10. ASSUME NEW f \in Forwarders, OnPeerLost(f) PROVE HoldsKept
  <2> DEFINE e == Request(<<>>)
  <2>1. internal' = internal \/ Sends(f, e)
    BY <1>0, <1>10, PeerEffects
  <2>2. e \in SiblingEvents /\ e.id # "PROVISION"
    <3>1. <<>> \in Seq(Networks)
      OBVIOUS
    <3> QED
      BY <3>1, EventFacts
  <2>3. node_network' = node_network
    BY <1>10 DEF OnPeerLost
  <2> HIDE DEF e
  <2> QED
    BY <1>0, <2>1, <2>2, <2>3, HoldsSame, HoldsSent
<1> QED
  BY <1>1, <1>2, <1>3, <1>4, <1>5, <1>6, <1>7, <1>8, <1>9, <1>10 DEF Handler

LEMMA HandlerStays ==
  ASSUME TypeOK, Handler
  PROVE  is_root' = is_root /\ \A g \in Forwarders : IsWithout(g)' => IsWithout(g)
<1>1. is_root' = is_root
  BY DEF Handler, RootStart, RootRequested, RootTimeout, HomeProvisioned, NoHandler,
         SkipProvision, OnProvision, OnSendNewGatewayRequest, OnNewGatewayWinner,
         OnPeerConnected, OnHandshakeProvision, OnHandshakeRedundant,
         OnNewGatewayRequest, OnNewGatewayResponse, OnPeerLost
<1>2. \/ global_state' = global_state
      \/ \E f \in Forwarders : \E root, d :
           Set(f, "WITH_NETWORK", root, d) \/ Set(f, "ON_GW_REQUEST", root, d)
  <2>1. CASE RootStart \/ RootRequested \/ RootTimeout \/ HomeProvisioned
             \/ \E b \in Board : NoHandler(b)
    BY <2>1 DEF RootStart, RootRequested, RootTimeout, HomeProvisioned, NoHandler,
       forwarder
  <2>2. ASSUME NEW f \in Forwarders,
               \/ SkipProvision(f) \/ OnProvision(f)
               \/ OnSendNewGatewayRequest(f) \/ OnNewGatewayWinner(f)
        PROVE  \/ global_state' = global_state
               \/ \E root, d : \/ Set(f, "WITH_NETWORK", root, d)
                               \/ Set(f, "ON_GW_REQUEST", root, d)
    BY <2>2, Zenon DEF SkipProvision, OnProvision, OnSendNewGatewayRequest,
       OnNewGatewayWinner, forwarder
  <2>3. ASSUME NEW f \in Forwarders,
               \/ OnPeerConnected(f)
               \/ OnHandshakeProvision(f) \/ OnHandshakeRedundant(f)
               \/ OnNewGatewayRequest(f) \/ OnNewGatewayResponse(f)
               \/ OnPeerLost(f)
        PROVE  \/ global_state' = global_state
               \/ \E root, d : \/ Set(f, "WITH_NETWORK", root, d)
                               \/ Set(f, "ON_GW_REQUEST", root, d)
    BY <2>3, Zenon DEF OnPeerConnected, OnHandshakeProvision, OnHandshakeRedundant,
       OnNewGatewayRequest, OnNewGatewayResponse, OnPeerLost, forwarder
  <2> QED
    BY <2>1, <2>2, <2>3 DEF Handler
<1>3. \A g \in Forwarders : IsWithout(g)' => IsWithout(g)
  BY <1>2 DEF Set, IsWithout, TypeOK
<1> QED
  BY <1>1, <1>3

LEMMA NetworkFrame ==
  ASSUME HoldsKept, is_root' = is_root,
         \A g \in Forwarders : IsWithout(g)' => IsWithout(g)
  PROVE  (SameNetwork => SameNetwork') /\ (NetworkSpread => NetworkSpread')
<1>1. SameNetwork => SameNetwork'
  BY DEF HoldsKept, SameNetwork
<1>2. NetworkSpread => NetworkSpread'
  BY DEF HoldsKept, NetworkSpread
<1> QED
  BY <1>1, <1>2

\* The root node has but one network.
OnlyRootNetwork ==
  \A f \in Forwarders : \A n \in Nets : Holds(f, n) => n = RootNetwork

LEMMA RootNetworks ==
  QueueTypes /\ RootInv /\ is_root => SameNetwork /\ OnlyRootNetwork
<1> SUFFICES ASSUME QueueTypes, RootInv, is_root PROVE SameNetwork /\ OnlyRootNetwork
  OBVIOUS
<1>1. ASSUME NEW f \in Forwarders, NEW n \in Nets, Holds(f, n) PROVE n = RootNetwork
  <2>1. /\ internal[f] \in Seq(SiblingEvents) /\ NearRoot(internal[f])
        /\ node_network[f] # Zero => node_network[f] = RootNetwork
    BY BoardFacts DEF QueueTypes, RootInv, RootBoard
  <2> QED
    BY <1>1, <2>1, NearRootFacts, NetworkFacts DEF Holds
<1> QED
  BY <1>1 DEF SameNetwork, OnlyRootNetwork

\* The first PROVISION of a queue is taken: nothing is lost of what the board
\* holds when it takes the network, and nothing new comes up when it skips it.
LEMMA ProvisionTaken ==
  ASSUME QueueTypes, TypeOK, NEW f \in Forwarders, Takes(f, "PROVISION"), SameNetwork,
         LET m == Head(internal[f]).network IN
           \/ node_network' = [node_network EXCEPT ![f] = m]
           \/ node_network' = node_network /\ node_network[f] # Zero
  PROVE  \A g \in Forwarders : \A n \in Nets : Holds(g, n)' <=> Holds(g, n)
<1> DEFINE q == internal[f]
           m == Head(q).network
<1>1. /\ q \in Seq(SiblingEvents) /\ q # <<>> /\ Head(q).id = "PROVISION"
      /\ internal'[f] = Tail(q)
      /\ \A g \in Forwarders : g # f => internal'[g] = internal[g]
  BY BoardFacts DEF QueueTypes, Takes
<1>2. m \in Nets
  BY <1>1, HeadIsEvent, EventFacts, BoardFacts DEF Nets
<1>3. \A n : Offers(q, n) <=> n = m \/ Offers(Tail(q), n)
  BY <1>1, OffersFacts
<1>4. /\ \/ node_network'[f] = m
         \/ node_network'[f] = node_network[f] /\ node_network[f] \in Nets
      /\ \A g \in Forwarders : g # f => node_network'[g] = node_network[g]
  BY DEF TypeOK, Nets
<1>5. internal[f] = q
  OBVIOUS
<1> HIDE DEF m, q
<1>6. \A n \in Nets : Holds(f, n) => n = m
  BY <1>2, <1>3, <1>5 DEF SameNetwork, Holds
<1>7. Holds(f, m)
  BY <1>3, <1>5 DEF Holds
<1>8. ASSUME NEW n \in Nets PROVE Holds(f, n)' <=> Holds(f, n)
  <2>1. Holds(f, n)' => Holds(f, n)
    BY <1>1, <1>3, <1>4, <1>5, <1>7 DEF Holds
  <2>2. node_network'[f] = m
    BY <1>4, <1>6 DEF Holds
  <2> QED
    BY <1>6, <2>1, <2>2 DEF Holds
<1>9. \A g \in Forwarders : g # f => \A n \in Nets : Holds(g, n)' <=> Holds(g, n)
  BY <1>1, <1>4 DEF Holds
<1> QED
  BY <1>8, <1>9

LEMMA HandshakeNetwork ==
  ASSUME GatewayInv, Types', NEW f \in Forwarders, OnHandshakeProvision(f),
         "PROVISION" \notin missed', "PROVISION" \notin missed
  PROVE  SameNetwork' /\ NetworkSpread'
<1> USE BoardFacts
<1>0. /\ QueueTypes /\ QueueTypes' /\ TypeOK /\ WithoutInv /\ TurnInv /\ RootInv
      /\ SameNetwork
  BY DEF GatewayInv, Types, QueueTypes, NetworkInv
<1> DEFINE h == Head(external[f])
           m == h.provided
           e == Provision(m, h.dtr + 1)
<1>1. m \in Networks
  BY <1>0, ProvidedNetwork
<1>2. Sends(f, e) /\ e \in SiblingEvents
  BY <1>0, <1>1, PeerEffects
<1>3. e.id = "PROVISION" /\ e.network = m
  BY DEF Provision
<1>4. /\ Peer(f, "HANDSHAKE") /\ IsWithout(f)
      /\ node_network' = [node_network EXCEPT ![f] = m]
      /\ Set(f, "WITH_NETWORK", TRUE, h.dtr)
  BY DEF OnHandshakeProvision, IsWithout
<1> HIDE DEF e, h, m
<1>5. ~is_root /\ internal[f] = <<>>
  BY <1>0, <1>4, PeerFacts
<1>6. \A g \in Forwarders : \A n \in Nets : ~Holds(g, n)
  <2>1. ~Has(internal[f], "PROVISION")
    BY <1>5, SMT DEF Has
  <2> QED
    BY <1>0, <1>4, <1>5, <2>1 DEF SameNetwork
<1>7. /\ node_network'[f] = m
      /\ \A g \in Forwarders : g # f => node_network'[g] = node_network[g]
      /\ ~IsWithout(f)'
  BY <1>0, <1>4 DEF TypeOK, Set, IsWithout
<1>8. ASSUME NEW g \in Forwarders, g # f
      PROVE  /\ Has(internal'[g], "PROVISION")
             /\ \A n \in Nets : Holds(g, n)' <=> n = m
  <2>1. /\ internal[g] \in Seq(SiblingEvents) /\ internal'[g] \in Seq(SiblingEvents)
        /\ Grows(internal[g], e, internal'[g])
        /\ Len(internal'[g]) > Len(internal[g])
    BY <1>0, <1>2, <1>3, <1>8 DEF QueueTypes, Sends, Spreads
  <2>2. Has(internal'[g], "PROVISION")
    BY <1>2, <1>3, <2>1, HasGrows
  <2>3. \A n : Offers(internal'[g], n) <=> Offers(internal[g], n) \/ n = m
    BY <1>2, <1>3, <2>1, OffersGrows
  <2> QED
    BY <1>6, <1>7, <1>8, <2>2, <2>3 DEF Holds
<1>9. \A n \in Nets : Holds(f, n)' <=> n = m
  <2>1. \A n \in Nets : ~Offers(internal'[f], n)
    BY <1>2, <1>6 DEF Sends, Holds
  <2> QED
    BY <1>7, <2>1 DEF Holds
<1>10. \A g \in Forwarders : \A n \in Nets : Holds(g, n)' <=> n = m
  BY <1>8, <1>9
<1>11. SameNetwork'
  BY <1>7, <1>8, <1>10 DEF SameNetwork
<1>12. NetworkSpread'
  BY <1>10 DEF NetworkSpread
<1> QED
  BY <1>11, <1>12

LEMMA HandlerNetwork ==
  ASSUME GatewayInv, Types', RootInv', Handler, Told
  PROVE  NetworkInv'
<1> USE BoardFacts
<1>0. /\ QueueTypes /\ QueueTypes' /\ TypeOK /\ RootInv
      /\ "PROVISION" \notin missed => SameNetwork
      /\ RolesTold => NetworkSpread /\ Started
  BY DEF GatewayInv, Types, QueueTypes, NetworkInv, StartInv
<1>1. is_root' = is_root /\ \A g \in Forwarders : IsWithout(g)' => IsWithout(g)
  BY <1>0, HandlerStays
<1>2. RolesTold' => "PROVISION" \notin missed'
  BY DEF RolesTold
<1> DEFINE Goal == /\ "PROVISION" \notin missed' => SameNetwork'
                   /\ RolesTold' => NetworkSpread'
<1> SUFFICES Goal
  BY DEF NetworkInv
<1>3. ASSUME HoldsKept PROVE Goal
  BY <1>0, <1>1, <1>3, NetworkFrame DEF Told
<1>4. ASSUME RootStart PROVE Goal
  <2> DEFINE e == Provision(RootNetwork, 1)
  <2>1. Spreads(Center, e) /\ e \in SiblingEvents
    BY <1>0, <1>4, CenterEffects
  <2>2. e.id = "PROVISION" /\ e.network = RootNetwork
    BY DEF Provision
  <2> HIDE DEF e
  <2>3. is_root'
    BY <1>1, <1>4 DEF RootStart
  <2>4. SameNetwork' /\ OnlyRootNetwork'
    BY <1>0, <2>3, RootNetworks, PTL
  <2>5. ASSUME RolesTold', NEW f \in Forwarders PROVE Offers(internal'[f], RootNetwork)
    <3>1. /\ internal[f] \in Seq(SiblingEvents) /\ internal'[f] \in Seq(SiblingEvents)
          /\ Grows(internal[f], e, internal'[f])
          /\ Len(internal'[f]) > Len(internal[f])
      BY <1>0, <1>2, <2>1, <2>2, <2>5 DEF QueueTypes, Spreads
    <3> QED
      BY <2>1, <2>2, <3>1, OffersGrows
  <2>6. RolesTold' => NetworkSpread'
    BY <2>4, <2>5 DEF NetworkSpread, OnlyRootNetwork, Holds
  <2> QED
    BY <2>4, <2>6
<1>5. ASSUME NEW f \in Forwarders, SkipProvision(f) PROVE Goal
  <2>1. Takes(f, "PROVISION")
    BY <1>0, <1>5, ForwarderEffects
  <2>2. node_network' = node_network /\ ~IsWithout(f) /\ Sibling(f, "PROVISION")
    BY <1>5 DEF SkipProvision, IsWithout, forwarder
  <2>3. \A g \in Forwarders :
          /\ \A n \in Nets : Holds(g, n)' => Holds(g, n)
          /\ g # f => internal'[g] = internal[g]
    <3>1. /\ internal[f] \in Seq(SiblingEvents) /\ internal[f] # <<>>
          /\ internal'[f] = Tail(internal[f])
          /\ \A g \in Forwarders : g # f => internal'[g] = internal[g]
      BY <1>0, <2>1 DEF QueueTypes, Takes
    <3>2. \A n : Offers(Tail(internal[f]), n) => Offers(internal[f], n)
      BY <3>1, OffersFacts
    <3> QED
      BY <2>2, <3>1, <3>2 DEF Holds
  <2>4. "PROVISION" \notin missed' => SameNetwork'
    BY <1>0, <1>1, <2>2, <2>3 DEF SameNetwork, Told
  <2>5. ASSUME RolesTold' PROVE NetworkSpread'
    <3>1. SameNetwork /\ NetworkSpread /\ Started
      BY <1>0, <1>2, <2>5 DEF Told
    <3>2. node_network[f] # Zero
      BY <1>0, <2>2, <3>1, SiblingFacts DEF Provisioned
    <3>3. \A g \in Forwarders : \A n \in Nets : Holds(g, n)' <=> Holds(g, n)
      BY <1>0, <2>1, <2>2, <3>1, <3>2, ProvisionTaken
    <3> QED
      BY <3>1, <3>3 DEF NetworkSpread
  <2> QED
    BY <2>4, <2>5
<1>6. ASSUME NEW f \in Forwarders, OnProvision(f) PROVE Goal
  <2>1. Takes(f, "PROVISION")
    BY <1>0, <1>6, ForwarderEffects
  <2>2. /\ node_network' = [node_network EXCEPT ![f] = Head(internal[f]).network]
        /\ Set(f, "WITH_NETWORK", FALSE, Head(internal[f]).dtr)
    BY <1>6 DEF OnProvision
  <2>3. ~IsWithout(f)' /\ \A g \in Forwarders : g # f => internal'[g] = internal[g]
    BY <1>0, <2>1, <2>2 DEF Takes, Set, IsWithout, TypeOK
  <2>4. SameNetwork => \A g \in Forwarders : \A n \in Nets : Holds(g, n)' <=> Holds(g, n)
    BY <1>0, <2>1, <2>2, ProvisionTaken
  <2>5. "PROVISION" \notin missed' => SameNetwork'
    BY <1>0, <1>1, <2>3, <2>4 DEF SameNetwork, Told
  <2>6. RolesTold' => NetworkSpread'
    BY <1>0, <1>2, <2>4 DEF NetworkSpread, Told
  <2> QED
    BY <2>5, <2>6
<1>7. ASSUME NEW f \in Forwarders, OnHandshakeProvision(f) PROVE Goal
  BY <1>2, <1>7, HandshakeNetwork DEF Told
<1> QED
  BY <1>3, <1>4, <1>5, <1>6, <1>7, HandlerHolds

----------------------------------------------------------------------------
(* One local root: RootsInv.                                               *)

LEMMA HearsTaken ==
  ASSUME QueueTypes, NEW b \in Board, NEW id, Takes(b, id)
  PROVE  /\ id # "NEW_GATEWAY_WINNER" =>
              \A f \in Forwarders : Hears(f)' <=> Hears(f)
         /\ \A f \in Forwarders : f # b => (Hears(f)' <=> Hears(f))
         /\ \A f \in Forwarders : Hears(f)' => Hears(f)
<1>1. internal[b] \in Seq(SiblingEvents)
  BY DEF QueueTypes
<1>2. /\ id # "NEW_GATEWAY_WINNER" => (Hears(b)' <=> Hears(b))
      /\ Hears(b)' => Hears(b)
  BY <1>1, HasFacts DEF Takes, Hears
<1>3. \A f \in Forwarders : f # b => (Hears(f)' <=> Hears(f))
  BY BoardFacts DEF Takes, Hears
<1> QED
  BY <1>2, <1>3

LEMMA HearsSent ==
  ASSUME QueueTypes, QueueTypes', NEW f \in Forwarders, NEW e \in SiblingEvents,
         Sends(f, e)
  PROVE  /\ Hears(f)' <=> Hears(f)
         /\ \A g \in Forwarders : g # f =>
              /\ Hears(g) => Hears(g)'
              /\ e.id # "NEW_GATEWAY_WINNER" => (Hears(g)' <=> Hears(g))
              /\ e.id = "NEW_GATEWAY_WINNER" /\ e.id \notin missed' => Hears(g)'
<1>1. Hears(f)' <=> Hears(f)
  BY DEF Sends, Hears
<1>2. ASSUME NEW g \in Forwarders, g # f
      PROVE  /\ Hears(g) => Hears(g)'
             /\ e.id # "NEW_GATEWAY_WINNER" => (Hears(g)' <=> Hears(g))
             /\ e.id = "NEW_GATEWAY_WINNER" /\ e.id \notin missed' => Hears(g)'
  <2>1. /\ internal[g] \in Seq(SiblingEvents) /\ internal'[g] \in Seq(SiblingEvents)
        /\ Grows(internal[g], e, internal'[g])
        /\ e.id \notin missed' => Len(internal'[g]) > Len(internal[g])
    BY <1>2, BoardFacts DEF QueueTypes, Sends, Spreads
  <2> QED
    BY <2>1, HasGrows DEF Hears
<1> QED
  BY <1>1, <1>2

\* No board becomes a local root, and none that stays one forgets a winner.
RootsKept ==
  \A f \in Forwarders : is_local_root'[f] =>
    /\ is_local_root[f] /\ (dtr'[f] = 1 <=> dtr[f] = 1)
    /\ Hears(f) => Hears(f)'

Leading(f) == is_local_root[f] \/ global_state[f] = "ON_GW_REQUEST"

LEMMA RootsApartFrame ==
  ASSUME RootsApart, Told, RootsKept
  PROVE  RootsApart'
<1> SUFFICES ASSUME RolesTold', NEW f \in Forwarders, NEW g \in Forwarders,
                    is_local_root'[f], is_local_root'[g], f # g
             PROVE  TwoRoots(f, g)'
  BY DEF RootsApart, LocalRoots
<1>1. TwoRoots(f, g)
  BY DEF RootsApart, LocalRoots, Told, RootsKept
<1> QED
  BY <1>1 DEF TwoRoots, RootsKept

LEMMA RootsFrame ==
  ASSUME RootsInv, TypeOK, ~is_root, Told, RootsKept,
         default_gateway' = default_gateway,
         \A f \in Forwarders : Hears(f)' => Hears(f),
         RolesTold =>
           \A f \in Forwarders : f = default_gateway =>
             /\ Leading(f) => Leading(f)'
             /\ global_state[f] = "ON_GW_REQUEST" =>
                  global_state'[f] = "ON_GW_REQUEST"
  PROVE  RootsInv'
<1>1. GatewayInPlace'
  BY DEF RootsInv, GatewayInPlace, RootsKept
<1>2. RootsApart'
  BY RootsApartFrame DEF RootsInv
<1>3. ASSUME RolesTold', ~zero_route', NEW f \in Forwarders PROVE GatewayOf(f)'
  <2>1. /\ GatewayOf(f) /\ RolesTold
        /\ is_local_root[f] => default_gateway # Center
    BY <1>3 DEF RootsInv, GatewayFollows, GatewayInPlace, Told
  <2>2. default_gateway' = f => is_local_root'[f] \/ global_state'[f] = "ON_GW_REQUEST"
    BY <2>1 DEF GatewayOf, Leading
  <2>3. ASSUME is_local_root'[f], dtr'[f] # 1, default_gateway' # f
        PROVE  Hears(f)' \/ global_state'[default_gateway'] = "ON_GW_REQUEST"
    <3>1. Hears(f) \/ global_state[default_gateway] = "ON_GW_REQUEST"
      BY <2>1, <2>3 DEF GatewayOf, RootsKept
    <3>2. default_gateway \in Forwarders
      BY <2>1, <2>3, BoardFacts DEF RootsKept, TypeOK
    <3> QED
      BY <2>1, <2>3, <3>1, <3>2 DEF RootsKept
  <2> QED
    BY <2>2, <2>3 DEF GatewayOf
<1> QED
  BY <1>1, <1>2, <1>3 DEF RootsInv, GatewayFollows

LEMMA HandlerRoots ==
  ASSUME GatewayInv, Types', Handler, Told
  PROVE  RootsInv'
<1> USE BoardFacts
<1>0. /\ QueueTypes /\ QueueTypes' /\ TypeOK /\ StartInv /\ WithoutInv /\ TurnInv
      /\ RootInv /\ RootsInv
  BY DEF GatewayInv, Types, QueueTypes
<1>1. is_root' = is_root
  BY <1>0, HandlerStays
<1>2. CASE is_root
  BY <1>1, <1>2 DEF RootsInv
<1> SUFFICES ASSUME ~is_root PROVE RootsInv'
  BY <1>2
<1>3. ~(RootStart \/ RootRequested \/ RootTimeout)
  BY <1>0 DEF RootStart, RootRequested, RootTimeout, TurnInv
<1>4. CASE HomeProvisioned
  <2>1. Takes(Center, "PROVISION")
    BY <1>0, <1>4, CenterEffects
  <2>2. default_gateway' = default_gateway /\ UNCHANGED forwarder
    BY <1>4 DEF HomeProvisioned, AddGlobalRoutes, Zero, HomeNetwork, table
  <2>3. \A f \in Forwarders : Hears(f)' <=> Hears(f)
    BY <1>0, <2>1, HearsTaken
  <2> QED
    BY <1>0, <2>2, <2>3, RootsFrame DEF forwarder, RootsKept, Leading
<1>5. ASSUME NEW b \in Board, NoHandler(b) PROVE RootsInv'
  <2>1. PICK id : Takes(b, id) /\ (b \in Forwarders => id = "ON_START")
    BY <1>0, <1>5, NoHandlerEffects
  <2>2. \A f \in Forwarders : Hears(f)' <=> Hears(f)
    <3>1. CASE b \in Forwarders
      BY <1>0, <2>1, <3>1, HearsTaken
    <3>2. CASE b \notin Forwarders
      BY <1>0, <2>1, <3>2, HearsTaken
    <3> QED
      BY <3>1, <3>2
  <2>3. UNCHANGED <<default_gateway, forwarder>>
    BY <1>5 DEF NoHandler, table
  <2> QED
    BY <1>0, <2>2, <2>3, RootsFrame DEF forwarder, RootsKept, Leading
<1>6. ASSUME NEW f \in Forwarders, SkipProvision(f) PROVE RootsInv'
  <2>1. Takes(f, "PROVISION")
    BY <1>0, <1>6, ForwarderEffects
  <2>2. \A g \in Forwarders : Hears(g)' <=> Hears(g)
    BY <1>0, <2>1, HearsTaken
  <2>3. UNCHANGED <<default_gateway, forwarder>>
    BY <1>6 DEF SkipProvision, table
  <2> QED
    BY <1>0, <2>2, <2>3, RootsFrame DEF forwarder, RootsKept, Leading
<1>7. ASSUME NEW f \in Forwarders, OnProvision(f) PROVE RootsInv'
  <2>1. Takes(f, "PROVISION")
    BY <1>0, <1>7, ForwarderEffects
  <2>2. \A g \in Forwarders : Hears(g)' <=> Hears(g)
    BY <1>0, <2>1, HearsTaken
  <2>3. /\ Set(f, "WITH_NETWORK", FALSE, Head(internal[f]).dtr)
        /\ Sibling(f, "PROVISION") /\ UNCHANGED default_gateway
        /\ global_state[f] # "WITH_NETWORK"
    BY <1>7 DEF OnProvision, table
  <2>4. RolesTold => ~Leading(f)
    <3>1. ASSUME RolesTold PROVE IsWithout(f)
      <4>1. Provisioned(f)
        BY <1>0, <2>3, <3>1, SiblingFacts DEF StartInv
      <4> QED
        BY <2>3, <4>1 DEF Provisioned
    <3> QED
      BY <1>0, <3>1 DEF WithoutInv, IsWithout, Leading
  <2>5. \A g \in Forwarders :
          /\ is_local_root'[g] => is_local_root[g] /\ dtr'[g] = dtr[g]
          /\ g # f => UNCHANGED <<is_local_root[g], global_state[g]>>
    BY <1>0, <2>3 DEF Set, TypeOK
  <2>6. RootsKept
    BY <2>2, <2>5 DEF RootsKept
  <2> QED
    BY <1>0, <2>2, <2>3, <2>4, <2>5, <2>6, RootsFrame DEF Leading
<1>8. ASSUME NEW f \in Forwarders, OnSendNewGatewayRequest(f) PROVE RootsInv'
  <2>1. Takes(f, "SEND_NEW_GATEWAY_REQUEST")
    BY <1>0, <1>8, ForwarderEffects
  <2>2. \A g \in Forwarders : Hears(g)' <=> Hears(g)
    BY <1>0, <2>1, HearsTaken
  <2>3. /\ \/ Set(f, "ON_GW_REQUEST", is_local_root[f], 0) /\ dtr[f] # 1
           \/ UNCHANGED <<global_state, is_local_root, dtr>>
        /\ UNCHANGED default_gateway
    BY <1>8 DEF OnSendNewGatewayRequest, table, Forwards
  <2>4. \A g \in Forwarders :
          /\ is_local_root'[g] = is_local_root[g] /\ (dtr'[g] = 1 <=> dtr[g] = 1)
          /\ global_state'[g] = global_state[g] \/ global_state'[g] = "ON_GW_REQUEST"
    BY <1>0, <2>3 DEF Set, TypeOK
  <2> QED
    BY <1>0, <2>2, <2>3, <2>4, RootsFrame DEF RootsKept, Leading
<1>9. ASSUME NEW f \in Forwarders, OnNewGatewayWinner(f) PROVE RootsInv'
  <2>1. Takes(f, "NEW_GATEWAY_WINNER")
    BY <1>0, <1>9, ForwarderEffects
  <2>2. /\ \A g \in Forwarders : g # f => (Hears(g)' <=> Hears(g))
        /\ \A g \in Forwarders : Hears(g)' => Hears(g)
    BY <1>0, <2>1, HearsTaken
  <2>3. Hears(f)
    BY <1>0, <2>1, HasFacts DEF QueueTypes, Takes, Hears
  <2>4. default_gateway # f
    BY <1>0, <2>3 DEF RootsInv, GatewayInPlace
  <2>5. /\ \/ dtr[f] # 1 /\ Set(f, "WITH_NETWORK", FALSE, Head(internal[f]).dtr + 1)
           \/ dtr[f] = 1 /\ UNCHANGED <<global_state, is_local_root, dtr>>
        /\ UNCHANGED default_gateway
    BY <1>9 DEF OnNewGatewayWinner, table
  <2>6. CASE dtr[f] # 1
    <3>1. /\ ~is_local_root'[f]
          /\ \A g \in Forwarders : g # f =>
               UNCHANGED <<is_local_root[g], global_state[g], dtr[g]>>
      BY <1>0, <2>5, <2>6 DEF Set, TypeOK
    <3>2. RootsKept
      BY <2>2, <3>1 DEF RootsKept
    <3> QED
      BY <1>0, <2>2, <2>4, <2>5, <3>1, <3>2, RootsFrame DEF Leading
  <2>7. CASE dtr[f] = 1
    <3>1. UNCHANGED <<global_state, is_local_root, dtr, default_gateway>>
      BY <2>5, <2>7
    <3>2. GatewayInPlace'
      BY <1>0, <2>2, <3>1 DEF RootsInv, GatewayInPlace
    <3>3. RootsApart'
      <4> SUFFICES ASSUME RolesTold', NEW g \in Forwarders, NEW h \in Forwarders,
                          is_local_root'[g], is_local_root'[h], g # h
                   PROVE  TwoRoots(g, h)'
        BY DEF RootsApart, LocalRoots
      <4>1. TwoRoots(g, h)
        BY <1>0, <3>1 DEF RootsInv, RootsApart, LocalRoots, Told
      <4> QED
        BY <2>2, <2>7, <3>1, <4>1 DEF TwoRoots
    <3>4. ASSUME RolesTold', ~zero_route', NEW g \in Forwarders PROVE GatewayOf(g)'
      <4>1. GatewayOf(g)
        BY <1>0, <3>4 DEF RootsInv, GatewayFollows, Told
      <4> QED
        BY <2>2, <2>7, <3>1, <4>1 DEF GatewayOf
    <3> QED
      BY <3>2, <3>3, <3>4 DEF RootsInv, GatewayFollows
  <2> QED
    BY <2>6, <2>7
<1>10. ASSUME NEW f \in Forwarders, OnPeerConnected(f) PROVE RootsInv'
  <2>1. internal' = internal
    BY <1>0, <1>10, PeerEffects
  <2>2. UNCHANGED <<default_gateway, is_local_root, global_state, dtr>>
    BY <1>10 DEF OnPeerConnected, table
  <2>3. \A g \in Forwarders : Hears(g)' <=> Hears(g)
    BY <2>1 DEF Hears
  <2> QED
    BY <1>0, <2>2, <2>3, RootsFrame DEF RootsKept, Leading
<1>11. ASSUME NEW f \in Forwarders, OnHandshakeProvision(f) PROVE RootsInv'
  <2>1. /\ IsWithout(f) /\ Peer(f, "HANDSHAKE")
        /\ Set(f, "WITH_NETWORK", TRUE, Head(external[f]).dtr)
        /\ AddGlobalRoutes({Zero}, f)
    BY <1>11 DEF OnHandshakeProvision, IsWithout
  <2>2. internal[f] = <<>> /\ internal'[f] = internal[f]
    BY <1>0, <1>11, <2>1, PeerFacts, PeerHandlerFacts DEF PeerHandler
  <2>3. default_gateway' = f /\ ~Hears(f)'
    <3>1. ~Has(<<>>, "NEW_GATEWAY_WINNER")
      BY <1>0, HasFacts DEF QueueTypes
    <3> QED
      BY <2>1, <2>2, <3>1 DEF AddGlobalRoutes, Hears
  <2>4. GatewayInPlace'
    BY <2>3 DEF GatewayInPlace
  <2>5. ASSUME RolesTold', NEW g \in Forwarders, is_local_root'[g] PROVE g = f
    <3>1. Started
      BY <1>0, <2>5 DEF StartInv, Told
    <3>2. ~Informed
      <4>1. "ON_START" \notin Informers
        BY DEF Informers
      <4>2. ~Leads(internal[f], Informers)
        BY <1>0, <2>2, <4>1, LeadsFacts DEF QueueTypes
      <4> QED
        BY <2>1, <3>1, <4>2 DEF Started
    <3>3. ~is_local_root[g]
      BY <1>0, <3>1, <3>2 DEF Started, WithoutInv
    <3> QED
      BY <1>0, <2>1, <2>5, <3>3 DEF Set, TypeOK
  <2>6. RootsApart'
    BY <2>5 DEF RootsApart, LocalRoots
  <2>7. is_local_root'[f]
    BY <1>0, <2>1 DEF Set, TypeOK
  <2>8. GatewayFollows'
    BY <2>3, <2>5, <2>7 DEF GatewayFollows, GatewayOf
  <2> QED
    BY <2>4, <2>6, <2>8 DEF RootsInv
<1>12. ASSUME NEW f \in Forwarders, OnHandshakeRedundant(f) PROVE RootsInv'
  <2>1. internal' = internal
    BY <1>0, <1>12, PeerEffects
  <2>2. /\ Peer(f, "HANDSHAKE") /\ UNCHANGED <<is_local_root, global_state, dtr>>
        /\ AddGlobalRoutes({Head(external[f]).external}, f)
        /\ zero_route' = (zero_route \/ Head(external[f]).external = Zero)
    BY <1>12 DEF OnHandshakeRedundant, forwarder
  <2>3. \A g \in Forwarders : Hears(g)' <=> Hears(g)
    BY <2>1 DEF Hears
  <2>4. RootsKept
    BY <2>2, <2>3 DEF RootsKept
  <2>5. CASE Head(external[f]).external = Zero
    <3>1. default_gateway' = f /\ zero_route'
      BY <2>2, <2>5 DEF AddGlobalRoutes
    <3>2. ~Hears(f)'
      <4>1. internal[f] = <<>>
        BY <1>0, <2>2, PeerFacts
      <4> QED
        BY <1>0, <2>3, <4>1, HasFacts DEF Hears, QueueTypes
    <3>3. GatewayInPlace'
      BY <3>1, <3>2 DEF GatewayInPlace
    <3>4. RootsApart'
      BY <1>0, <2>4, RootsApartFrame DEF RootsInv
    <3> QED
      BY <3>1, <3>3, <3>4 DEF RootsInv, GatewayFollows
  <2>6. CASE Head(external[f]).external # Zero
    <3>1. default_gateway' = default_gateway
      BY <2>2, <2>6 DEF AddGlobalRoutes
    <3> QED
      BY <1>0, <2>2, <2>3, <2>4, <3>1, RootsFrame DEF Leading
  <2> QED
    BY <2>5, <2>6
<1>13. ASSUME NEW f \in Forwarders, OnNewGatewayRequest(f) PROVE RootsInv'
  <2> DEFINE e == Request(Head(external[f]).hag)
             S == Added(Head(external[f]).hag)
  <2>1. /\ \/ internal' = internal
           \/ Sends(f, e)
        /\ Head(external[f]).hag \in Seq(Networks)
    BY <1>0, <1>13, PeerEffects
  <2>2. e \in SiblingEvents /\ e.id # "NEW_GATEWAY_WINNER"
    BY <2>1, EventFacts
  <2>3. /\ Peer(f, "NEW_GATEWAY_REQUEST") /\ AddGlobalRoutes(S, f)
        /\ zero_route' = (zero_route \/ (dtr[f] = 1 /\ Zero \in S))
        /\ \/ StartsWaiting(f) /\ Set(f, "ON_GW_REQUEST", is_local_root[f], 0)
           \/ ~StartsWaiting(f) /\ UNCHANGED <<global_state, is_local_root, dtr>>
    BY <1>13 DEF OnNewGatewayRequest
  <2> HIDE DEF e, S
  <2>4. \A g \in Forwarders : Hears(g)' <=> Hears(g)
    BY <1>0, <2>1, <2>2, HearsSent DEF Hears
  <2>5. \A g \in Forwarders :
          /\ is_local_root'[g] = is_local_root[g] /\ (dtr'[g] = 1 <=> dtr[g] = 1)
          /\ global_state'[g] = global_state[g] \/ global_state'[g] = "ON_GW_REQUEST"
    BY <1>0, <2>3 DEF Set, TypeOK, StartsWaiting
  <2>6. RootsKept
    BY <2>4, <2>5 DEF RootsKept
  <2>7. CASE Zero \in S
    <3>1. default_gateway' = f
      BY <2>3, <2>7 DEF AddGlobalRoutes
    <3>2. ~Hears(f)'
      <4>1. internal[f] = <<>>
        BY <1>0, <2>3, PeerFacts
      <4> QED
        BY <1>0, <2>4, <4>1, HasFacts DEF Hears, QueueTypes
    <3>3. GatewayInPlace'
      BY <3>1, <3>2 DEF GatewayInPlace
    <3>4. RootsApart'
      BY <1>0, <2>6, RootsApartFrame DEF RootsInv
    <3>5. ASSUME ~zero_route' PROVE global_state'[f] = "ON_GW_REQUEST"
      <4>1. dtr[f] # 1
        BY <2>3, <2>7, <3>5
      <4> QED
        BY <1>0, <2>3, <4>1 DEF Set, TypeOK, StartsWaiting
    <3>6. GatewayFollows'
      BY <3>1, <3>5 DEF GatewayFollows, GatewayOf
    <3> QED
      BY <3>3, <3>4, <3>6 DEF RootsInv
  <2>8. CASE Zero \notin S
    <3>1. default_gateway' = default_gateway
      BY <2>3, <2>8 DEF AddGlobalRoutes
    <3> QED
      BY <1>0, <2>4, <2>5, <2>6, <3>1, RootsFrame DEF Leading
  <2> QED
    BY <2>7, <2>8
<1>14. ASSUME NEW f \in Forwarders, OnNewGatewayResponse(f) PROVE RootsInv'
  <2> DEFINE d == Head(external[f]).dtr
             e == Winner(d + 1)
  <2>1. /\ \/ ~Improves(f, d) /\ internal' = internal
           \/ Improves(f, d) /\ Sends(f, e)
        /\ d \in 1 .. MaxDtr
    BY <1>0, <1>14, PeerEffects
  <2>2. e \in SiblingEvents /\ e.id = "NEW_GATEWAY_WINNER"
    <3>1. d + 1 \in 1 .. MaxDtr + 1
      BY <2>1, LimitsAssumption, SMT
    <3> QED
      BY <3>1, EventFacts
  <2>3. \/ /\ Improves(f, d) /\ Set(f, "WITH_NETWORK", TRUE, d + 1)
           /\ AddGlobalRoutes({Zero}, f)
        \/ ~Improves(f, d) /\ UNCHANGED <<global_state, is_local_root, dtr, table>>
    BY <1>14 DEF OnNewGatewayResponse
  <2>4. Peer(f, "NEW_GATEWAY_RESPONSE")
    BY <1>14 DEF OnNewGatewayResponse
  <2>5. d + 1 # 1
    BY <2>1, LimitsAssumption, SMT
  <2> HIDE DEF d, e
  <2>6. CASE Improves(f, d)
    <3>1. RolesTold' => \A g \in Forwarders : g # f => Hears(g)'
      BY <1>0, <2>1, <2>2, <2>6, HearsSent DEF RolesTold
    <3>2. default_gateway' = f
      BY <2>3, <2>6 DEF AddGlobalRoutes
    <3>3. ~Hears(f)'
      <4>1. internal[f] = <<>>
        BY <1>0, <2>4, PeerFacts
      <4>2. internal'[f] = internal[f]
        BY <2>1, <2>6 DEF Sends
      <4> QED
        BY <1>0, <4>1, <4>2, HasFacts DEF Hears, QueueTypes
    <3>4. GatewayInPlace'
      BY <3>2, <3>3 DEF GatewayInPlace
    <3>5. /\ is_local_root'[f] /\ dtr'[f] # 1
          /\ \A g \in Forwarders : g # f => UNCHANGED <<is_local_root[g], dtr[g]>>
      BY <1>0, <2>3, <2>5, <2>6 DEF Set, TypeOK
    <3>6. RootsApart'
      <4> SUFFICES ASSUME RolesTold', NEW g \in Forwarders, NEW h \in Forwarders,
                          is_local_root'[g], is_local_root'[h], g # h
                   PROVE  TwoRoots(g, h)'
        BY DEF RootsApart, LocalRoots
      <4>1. CASE g = f \/ h = f
        BY <3>1, <3>5, <4>1 DEF TwoRoots
      <4>2. CASE g # f /\ h # f
        <5>1. TwoRoots(g, h)
          BY <1>0, <3>5, <4>2 DEF RootsInv, RootsApart, LocalRoots, Told
        <5> QED
          BY <3>1, <3>5, <4>2, <5>1 DEF TwoRoots
      <4> QED
        BY <4>1, <4>2
    <3>7. GatewayFollows'
      BY <3>1, <3>2, <3>5 DEF GatewayFollows, GatewayOf
    <3> QED
      BY <3>4, <3>6, <3>7 DEF RootsInv
  <2>7. CASE ~Improves(f, d)
    <3>1. UNCHANGED <<global_state, is_local_root, dtr, default_gateway>>
      BY <2>3, <2>7 DEF table
    <3>2. \A g \in Forwarders : Hears(g)' <=> Hears(g)
      BY <2>1, <2>7 DEF Hears
    <3> QED
      BY <1>0, <3>1, <3>2, RootsFrame DEF RootsKept, Leading
  <2> QED
    BY <2>6, <2>7
<1>15. ASSUME NEW f \in Forwarders, OnPeerLost(f) PROVE RootsInv'
  <2> DEFINE e == Request(<<>>)
  <2>1. internal' = internal \/ Sends(f, e)
    BY <1>0, <1>15, PeerEffects
  <2>2. e \in SiblingEvents /\ e.id # "NEW_GATEWAY_WINNER"
    <3>1. <<>> \in Seq(Networks)
      OBVIOUS
    <3> QED
      BY <3>1, EventFacts
  <2>3. /\ \/ Set(f, "ON_GW_REQUEST", FALSE, 0)
           \/ UNCHANGED <<global_state, is_local_root, dtr>>
        /\ UNCHANGED default_gateway
    BY <1>15 DEF OnPeerLost, RemoveRoutesByOutput
  <2> HIDE DEF e
  <2>4. \A g \in Forwarders : Hears(g)' <=> Hears(g)
    BY <1>0, <2>1, <2>2, HearsSent DEF Hears
  <2>5. \A g \in Forwarders :
          \/ UNCHANGED <<is_local_root[g], dtr[g], global_state[g]>>
          \/ ~is_local_root'[g] /\ global_state'[g] = "ON_GW_REQUEST"
    BY <1>0, <2>3 DEF Set, TypeOK
  <2> QED
    BY <1>0, <2>3, <2>4, <2>5, RootsFrame DEF RootsKept, Leading
<1> QED
  BY <1>3, <1>4, <1>5, <1>6, <1>7, <1>8, <1>9, <1>10, <1>11, <1>12, <1>13,
     <1>14, <1>15 DEF Handler

----------------------------------------------------------------------------
(* Requests are kept: AskedInv.                                            *)

Waiting(f) == global_state[f] = "ON_GW_REQUEST" \/ dtr[f] = 1

\* What AskedInv says of f is not disturbed.
StillAsked(f) ==
  IF is_root
  THEN RequestTold' =>
         /\ gateway_requested => gateway_requested' \/ Hears(f)'
         /\ Hears(f) => Hears(f)'
         /\ CenterAsked => CenterAsked' \/ gateway_requested'
  ELSE RolesTold' => (Waiting(f) => Waiting(f)')

LEMMA AskedFrame ==
  ASSUME AskedInv, Told, is_root' = is_root, asked' \subseteq asked,
         \A f \in asked' : StillAsked(f)
  PROVE  AskedInv'
<1> SUFFICES ASSUME NEW f \in asked'
             PROVE  IF is_root
                    THEN RequestTold' => gateway_requested' \/ Hears(f)' \/ CenterAsked'
                    ELSE RolesTold' => Waiting(f)'
  BY DEF AskedInv, Waiting
<1>1. f \in asked /\ StillAsked(f)
  OBVIOUS
<1>2. CASE is_root
  BY <1>1, <1>2 DEF AskedInv, StillAsked, Told
<1>3. CASE ~is_root
  BY <1>1, <1>3 DEF AskedInv, StillAsked, Told, Waiting
<1> QED
  BY <1>2, <1>3

\* A step that leaves the center and the board's queue alone.
LEMMA AskedSame ==
  ASSUME NEW f, Hears(f) => Hears(f)', internal'[Center] = internal[Center],
         phase' = phase, gateway_requested' = gateway_requested,
         RolesTold' => (Waiting(f) => Waiting(f)')
  PROVE  StillAsked(f)
BY DEF StillAsked, CenterAsked

LEMMA HandlerAsked ==
  ASSUME GatewayInv, Types', Handler, Told
  PROVE  AskedInv'
<1> USE BoardFacts
<1>0. /\ QueueTypes /\ QueueTypes' /\ TypeOK /\ StartInv /\ WithoutInv /\ TurnInv
      /\ RootInv /\ AskedInv
  BY DEF GatewayInv, Types, QueueTypes
<1>b. asked \subseteq Forwarders
  BY <1>0 DEF TypeOK
<1>1. CASE RootStart
  <2> DEFINE e == Provision(RootNetwork, 1)
  <2>1. /\ internal[Center] # <<>> /\ Head(internal[Center]).id = "ON_START"
        /\ internal'[Center] = Tail(internal[Center])
        /\ Spreads(Center, e) /\ e \in SiblingEvents
    BY <1>0, <1>1, CenterEffects
  <2> HIDE DEF e
  <2>2. /\ is_root /\ phase = "internal"
        /\ UNCHANGED <<is_root, gateway_requested, phase, asked>>
    BY <1>1 DEF RootStart, Sibling, forwarder, center, section, history
  <2>3. ASSUME NEW f \in Forwarders, Hears(f) PROVE Hears(f)'
    <3>1. /\ internal[f] \in Seq(SiblingEvents) /\ internal'[f] \in Seq(SiblingEvents)
          /\ Grows(internal[f], e, internal'[f])
      BY <1>0, <2>1 DEF QueueTypes, Spreads
    <3> QED
      BY <2>1, <2>3, <3>1, HasGrows DEF Hears
  <2>4. CenterAsked => CenterAsked'
    BY <1>0, <2>1, <2>2, HasFacts DEF CenterAsked, QueueTypes
  <2>5. \A f \in asked' : StillAsked(f)
    BY <1>b, <2>2, <2>3, <2>4 DEF StillAsked
  <2> QED
    BY <1>0, <2>2, <2>5, AskedFrame
<1>2. CASE RootRequested
  <2>1. is_root' /\ gateway_requested'
    BY <1>2 DEF RootRequested
  <2> QED
    BY <2>1 DEF AskedInv
<1>3. CASE RootTimeout
  <2>1. /\ internal'[Center] = Tail(internal[Center])
        /\ \A f \in Forwarders : internal'[f] = internal[f]
    BY <1>0, <1>3, CenterEffects DEF TurnInv, RootTimeout
  <2>2. /\ phase = "timeout" /\ phase' = "internal"
        /\ UNCHANGED <<is_root, global_state, dtr, gateway_requested, asked>>
    BY <1>3 DEF RootTimeout, forwarder, history
  <2>3. CenterAsked => CenterAsked'
    BY <2>1, <2>2 DEF CenterAsked
  <2>4. \A f \in asked' : StillAsked(f)
    BY <1>b, <2>1, <2>2, <2>3 DEF StillAsked, Hears, Waiting
  <2> QED
    BY <1>0, <2>2, <2>4, AskedFrame
<1>4. CASE HomeProvisioned
  <2>1. ~is_root /\ UNCHANGED <<is_root, global_state, dtr, asked>>
    BY <1>4 DEF HomeProvisioned, forwarder, history
  <2>2. \A f \in asked' : StillAsked(f)
    BY <2>1 DEF StillAsked, Waiting
  <2> QED
    BY <1>0, <2>1, <2>2, AskedFrame
<1>5. ASSUME NEW b \in Board, NoHandler(b) PROVE AskedInv'
  <2>1. UNCHANGED <<is_root, global_state, dtr, gateway_requested, phase, asked>>
    BY <1>5 DEF NoHandler, forwarder, center, section, history
  <2>2. PICK id : Takes(b, id)
          /\ \/ b = Center /\ ~is_root
             \/ b \in Forwarders /\ id = "ON_START"
    BY <1>0, <1>5, NoHandlerEffects
  <2>3. CASE ~is_root
    <3>1. \A f \in asked' : StillAsked(f)
      BY <2>1, <2>3 DEF StillAsked, Waiting
    <3> QED
      BY <1>0, <2>1, <3>1, AskedFrame
  <2>4. CASE is_root
    <3>1. /\ internal'[Center] = internal[Center]
          /\ \A f \in Forwarders : Hears(f)' <=> Hears(f)
      BY <1>0, <2>2, <2>4, HearsTaken DEF Takes
    <3>2. \A f \in asked' : StillAsked(f)
      BY <1>b, <2>1, <3>1, AskedSame DEF Waiting
    <3> QED
      BY <1>0, <2>1, <3>2, AskedFrame
  <2> QED
    BY <2>3, <2>4
<1>6. ASSUME NEW f \in Forwarders, SkipProvision(f) PROVE AskedInv'
  <2>1. Takes(f, "PROVISION")
    BY <1>0, <1>6, ForwarderEffects
  <2>2. /\ internal'[Center] = internal[Center]
        /\ \A g \in Forwarders : Hears(g)' <=> Hears(g)
    BY <1>0, <2>1, HearsTaken DEF Takes
  <2>3. UNCHANGED <<is_root, global_state, dtr, gateway_requested, phase, asked>>
    BY <1>6 DEF SkipProvision, forwarder, center, section, history
  <2>4. \A g \in asked' : StillAsked(g)
    BY <1>b, <2>2, <2>3, AskedSame DEF Waiting
  <2> QED
    BY <1>0, <2>3, <2>4, AskedFrame
<1>7. ASSUME NEW f \in Forwarders, OnProvision(f) PROVE AskedInv'
  <2>1. Takes(f, "PROVISION")
    BY <1>0, <1>7, ForwarderEffects
  <2>2. /\ internal'[Center] = internal[Center]
        /\ \A g \in Forwarders : Hears(g)' <=> Hears(g)
    BY <1>0, <2>1, HearsTaken DEF Takes
  <2>3. /\ Sibling(f, "PROVISION") /\ global_state[f] # "WITH_NETWORK"
        /\ Set(f, "WITH_NETWORK", FALSE, Head(internal[f]).dtr)
        /\ UNCHANGED <<is_root, gateway_requested, phase, asked>>
    BY <1>7 DEF OnProvision, center, section, history
  <2>4. ASSUME RolesTold', NEW g \in asked' PROVE Waiting(g) => Waiting(g)'
    <3>1. Provisioned(f)
      BY <1>0, <2>3, <2>4, SiblingFacts DEF StartInv, Told
    <3>2. f \notin asked
      BY <1>0, <2>3, <3>1 DEF Provisioned, WithoutInv
    <3> QED
      BY <1>0, <1>b, <2>3, <2>4, <3>2 DEF Set, TypeOK, Waiting
  <2>5. \A g \in asked' : StillAsked(g)
    BY <1>b, <2>2, <2>3, <2>4, AskedSame
  <2> QED
    BY <1>0, <2>3, <2>5, AskedFrame
<1>8. ASSUME NEW f \in Forwarders, OnSendNewGatewayRequest(f) PROVE AskedInv'
  <2>1. Takes(f, "SEND_NEW_GATEWAY_REQUEST")
    BY <1>0, <1>8, ForwarderEffects
  <2>2. /\ internal'[Center] = internal[Center]
        /\ \A g \in Forwarders : Hears(g)' <=> Hears(g)
    BY <1>0, <2>1, HearsTaken DEF Takes
  <2>3. /\ \/ Set(f, "ON_GW_REQUEST", is_local_root[f], 0)
           \/ UNCHANGED <<global_state, dtr>>
        /\ UNCHANGED <<is_root, gateway_requested, phase, asked>>
    BY <1>8 DEF OnSendNewGatewayRequest, center, section, history
  <2>4. \A g \in asked' : Waiting(g) => Waiting(g)'
    BY <1>0, <1>b, <2>3 DEF Set, TypeOK, Waiting
  <2>5. \A g \in asked' : StillAsked(g)
    BY <1>b, <2>2, <2>3, <2>4, AskedSame
  <2> QED
    BY <1>0, <2>3, <2>5, AskedFrame
<1>9. ASSUME NEW f \in Forwarders, OnNewGatewayWinner(f) PROVE AskedInv'
  <2>1. Takes(f, "NEW_GATEWAY_WINNER")
    BY <1>0, <1>9, ForwarderEffects
  <2>2. /\ internal'[Center] = internal[Center]
        /\ \A g \in Forwarders : g # f => (Hears(g)' <=> Hears(g))
    BY <1>0, <2>1, HearsTaken DEF Takes
  <2>3. /\ \/ Set(f, "WITH_NETWORK", FALSE, Head(internal[f]).dtr + 1)
           \/ UNCHANGED <<global_state, dtr>>
        /\ asked' = asked \ {f}
        /\ UNCHANGED <<is_root, gateway_requested, phase>>
    BY <1>9 DEF OnNewGatewayWinner, center, section
  <2>4. \A g \in asked' : Waiting(g) => Waiting(g)'
    BY <1>0, <1>b, <2>3 DEF Set, TypeOK, Waiting
  <2>5. \A g \in asked' : StillAsked(g)
    BY <1>b, <2>2, <2>3, <2>4, AskedSame
  <2> QED
    BY <1>0, <2>3, <2>5, AskedFrame
<1>10. ASSUME NEW f \in Forwarders, OnPeerConnected(f) PROVE AskedInv'
  <2>1. internal' = internal
    BY <1>0, <1>10, PeerEffects
  <2>2. UNCHANGED <<is_root, global_state, dtr, gateway_requested, phase, asked>>
    BY <1>10 DEF OnPeerConnected, center, section, history
  <2>3. \A g \in asked' : StillAsked(g)
    BY <2>1, <2>2, AskedSame DEF Hears, Waiting
  <2> QED
    BY <1>0, <2>2, <2>3, AskedFrame
<1>11. ASSUME NEW f \in Forwarders, OnHandshakeProvision(f) PROVE AskedInv'
  <2>1. /\ IsWithout(f) /\ Peer(f, "HANDSHAKE")
        /\ Set(f, "WITH_NETWORK", TRUE, Head(external[f]).dtr)
        /\ UNCHANGED <<is_root, asked>>
    BY <1>11 DEF OnHandshakeProvision, IsWithout, history
  <2>2. ~is_root
    BY <1>0, <2>1, PeerFacts
  <2>3. f \notin asked
    BY <1>0, <2>1 DEF WithoutInv
  <2>4. \A g \in asked' : StillAsked(g)
    BY <1>0, <1>b, <2>1, <2>2, <2>3 DEF Set, TypeOK, StillAsked, Waiting
  <2> QED
    BY <1>0, <2>1, <2>4, AskedFrame
<1>12. ASSUME NEW f \in Forwarders, OnHandshakeRedundant(f) PROVE AskedInv'
  <2>1. internal' = internal
    BY <1>0, <1>12, PeerEffects
  <2>2. UNCHANGED <<is_root, global_state, dtr, gateway_requested, phase, asked>>
    BY <1>12 DEF OnHandshakeRedundant, forwarder, center, section
  <2>3. \A g \in asked' : StillAsked(g)
    BY <2>1, <2>2, AskedSame DEF Hears, Waiting
  <2> QED
    BY <1>0, <2>2, <2>3, AskedFrame
<1>13. ASSUME NEW f \in Forwarders, OnNewGatewayRequest(f) PROVE AskedInv'
  <2> DEFINE e == Request(Head(external[f]).hag)
  <2>1. /\ \/ ~PassesOn(f) /\ internal' = internal
           \/ PassesOn(f) /\ Sends(f, e)
        /\ Head(external[f]).hag \in Seq(Networks)
    BY <1>0, <1>13, PeerEffects
  <2>2. e \in SiblingEvents /\ e.id = "SEND_NEW_GATEWAY_REQUEST"
    BY <2>1, EventFacts
  <2>3. /\ Peer(f, "NEW_GATEWAY_REQUEST") /\ phase = "external"
        /\ \/ StartsWaiting(f) /\ Set(f, "ON_GW_REQUEST", is_local_root[f], 0)
           \/ ~StartsWaiting(f) /\ UNCHANGED <<global_state, dtr>>
        /\ asked' = asked \cup {f}
        /\ UNCHANGED <<is_root, phase>>
    BY <1>13 DEF OnNewGatewayRequest, section, Peer
  <2> HIDE DEF e
  <2>4. CASE is_root
    <3>1. dtr[f] = 1
      BY <1>0, <2>3, <2>4, PeerFacts
    <3>2. Sends(f, e)
      BY <2>1, <3>1 DEF PassesOn
    <3>3. ASSUME RequestTold' PROVE CenterAsked'
      <4>1. /\ internal[Center] \in Seq(SiblingEvents)
            /\ internal'[Center] \in Seq(SiblingEvents)
            /\ Grows(internal[Center], e, internal'[Center])
            /\ Len(internal'[Center]) > Len(internal[Center])
        BY <1>0, <2>2, <3>2, <3>3 DEF QueueTypes, Sends, Spreads, RequestTold
      <4>2. Has(internal'[Center], "SEND_NEW_GATEWAY_REQUEST")
        BY <2>2, <4>1, HasGrows
      <4> QED
        BY <2>3, <4>2 DEF CenterAsked
    <3> QED
      BY <2>3, <2>4, <3>3 DEF AskedInv
  <2>5. CASE ~is_root
    <3>1. ASSUME RolesTold', NEW g \in asked'
          PROVE  Waiting(g)'
      <4>1. Waiting(f)'
        BY <1>0, <2>3 DEF Set, TypeOK, StartsWaiting, Waiting
      <4>2. g # f => Waiting(g)
        BY <1>0, <2>3, <2>5, <3>1 DEF AskedInv, Told, Waiting
      <4>3. g # f => global_state'[g] = global_state[g] /\ dtr'[g] = dtr[g]
        BY <1>0, <1>b, <2>3 DEF Set, TypeOK
      <4> QED
        BY <4>1, <4>2, <4>3 DEF Waiting
    <3> QED
      BY <2>3, <2>5, <3>1 DEF AskedInv, Waiting
  <2> QED
    BY <2>4, <2>5
<1>14. ASSUME NEW f \in Forwarders, OnNewGatewayResponse(f) PROVE AskedInv'
  <2> DEFINE d == Head(external[f]).dtr
  <2>1. Improves(f, d) \/ internal' = internal
    BY <1>0, <1>14, PeerEffects
  <2>2. Improves(f, d) => ~is_root
    BY <1>0, <1>14, ResponseFacts
  <2>3. /\ \/ Improves(f, d) /\ Set(f, "WITH_NETWORK", TRUE, d + 1)
           \/ ~Improves(f, d) /\ UNCHANGED <<global_state, dtr>>
        /\ asked' = asked \ {f}
        /\ UNCHANGED <<is_root, gateway_requested, phase>>
    BY <1>14 DEF OnNewGatewayResponse, center, section
  <2> HIDE DEF d
  <2>4. \A g \in asked' : global_state'[g] = global_state[g] /\ dtr'[g] = dtr[g]
    BY <1>0, <1>b, <2>3 DEF Set, TypeOK
  <2>5. CASE Improves(f, d)
    <3>1. \A g \in asked' : StillAsked(g)
      BY <2>2, <2>4, <2>5 DEF StillAsked, Waiting
    <3> QED
      BY <1>0, <2>3, <3>1, AskedFrame
  <2>6. CASE ~Improves(f, d)
    <3>1. \A g \in asked' : StillAsked(g)
      BY <2>1, <2>3, <2>4, <2>6, AskedSame DEF Hears, Waiting
    <3> QED
      BY <1>0, <2>3, <3>1, AskedFrame
  <2> QED
    BY <2>5, <2>6
<1>15. ASSUME NEW f \in Forwarders, OnPeerLost(f) PROVE AskedInv'
  <2>1. is_local_root[f] \/ internal' = internal
    BY <1>0, <1>15, PeerEffects
  <2>2. /\ \/ Set(f, "ON_GW_REQUEST", FALSE, 0)
           \/ UNCHANGED <<global_state, dtr>>
        /\ asked' = asked \ {f}
        /\ UNCHANGED <<is_root, gateway_requested, phase>>
    BY <1>15 DEF OnPeerLost, center, section
  <2>3. \A g \in asked' : global_state'[g] = global_state[g] /\ dtr'[g] = dtr[g]
    BY <1>0, <1>b, <2>2 DEF Set, TypeOK
  <2>4. CASE is_root
    <3>1. internal' = internal
      BY <1>0, <2>1, <2>4 DEF RootInv, RootBoard
    <3>2. \A g \in asked' : StillAsked(g)
      BY <2>2, <2>3, <3>1, AskedSame DEF Hears, Waiting
    <3> QED
      BY <1>0, <2>2, <3>2, AskedFrame
  <2>5. CASE ~is_root
    <3>1. \A g \in asked' : StillAsked(g)
      BY <2>3, <2>5 DEF StillAsked, Waiting
    <3> QED
      BY <1>0, <2>2, <3>1, AskedFrame
  <2> QED
    BY <2>4, <2>5
<1> QED
  BY <1>1, <1>2, <1>3, <1>4, <1>5, <1>6, <1>7, <1>8, <1>9, <1>10, <1>11,
     <1>12, <1>13, <1>14, <1>15 DEF Handler

----------------------------------------------------------------------------
(* The other steps, the initial states, and the theorems.                  *)

LEMMA InitInv == Init => GatewayInv
<1> SUFFICES ASSUME Init PROVE GatewayInv
  OBVIOUS
<1> DEFINE start == [id |-> "ON_START"]
<1>0. /\ start \in SiblingEvents /\ start.id = "ON_START"
      /\ <<start>> \in Seq(SiblingEvents) /\ <<start>> # <<>>
      /\ <<>> \in Seq(SiblingEvents) /\ <<>> \in Seq(PeerEvents)
  <2>1. start \in SiblingEvents /\ start.id = "ON_START"
    BY DEF SiblingEvents
  <2> HIDE DEF start
  <2> QED
    BY <2>1, SMT
<1>1. /\ internal = [b \in Board |-> <<start>>] /\ external = [b \in Board |-> <<>>]
  BY DEF Init
<1> HIDE DEF start
<1>2. Types
  <2>1. /\ default_gateway \in Board
        /\ turn \in Board \cup {None}
        /\ routes \in [Known -> Board \cup {None}]
    BY BoardFacts DEF Init
  <2>2. 0 \in 0 .. MaxDtr + 2 /\ 0 \in 0 .. TimeoutTicks
    BY LimitsAssumption, SMT
  <2>3. /\ dtr \in [Forwarders -> 0 .. MaxDtr + 2]
        /\ gateway_requested_timeout \in 0 .. TimeoutTicks
        /\ is_root \in BOOLEAN
    BY <2>2, LimitsAssumption DEF Init
  <2>4. TypeOK
    BY <2>1, <2>3 DEF Init, TypeOK
  <2> QED
    BY <1>0, <1>1, <2>4 DEF Types
<1>3. /\ OnlyStarts(<<start>>) /\ Has(<<start>>, "ON_START")
      /\ \A id : id # "ON_START" => ~Has(<<start>>, id)
      /\ \A n : ~Offers(<<start>>, n)
      /\ ProvisionFirst(<<start>>) /\ NearRoot(<<start>>)
  <2>1. OnlyStarts(<<start>>)
    BY <1>0, OnlyStartsFacts
  <2>2. Has(<<start>>, "ON_START")
    <3>1. Len(<<start>>) = 1 /\ <<start>>[1] = start /\ 1 \in 1 .. 1
      BY SMT
    <3> QED
      BY <1>0, <3>1 DEF Has
  <2>3. \A id : id # "ON_START" => ~Has(<<start>>, id)
    BY <1>0, <2>1, OnlyStartsFacts
  <2>4. \A n : ~Offers(<<start>>, n)
    BY <1>0, <2>3, OffersFacts
  <2>5. ~Has(<<start>>, "PROVISION")
    BY <2>3
  <2>6. ProvisionFirst(<<start>>) /\ NearRoot(<<start>>)
    BY <2>5 DEF Has, ProvisionFirst, NearRoot
  <2> QED
    BY <2>1, <2>2, <2>3, <2>4, <2>6
<1>4. \A f \in Forwarders : internal[f] = <<start>> /\ external[f] = <<>>
  BY <1>1, BoardFacts
<1>5. StartInv
  <2>1. ~Informed
    BY <1>1, <1>3, BoardFacts DEF Init, Informed, IsWithout
  <2>2. internal[Center] = <<[id |-> "ON_START"]>>
    BY BoardFacts DEF Init
  <2>3. Started
    BY <1>3, <1>4, <2>1, <2>2 DEF Init, Started, IsWithout
  <2> QED
    BY <2>3 DEF StartInv
<1>6. WithoutInv
  <2>1. GreetsFirst(<<>>) /\ Provides(<<>>)
    BY SMT DEF GreetsFirst, Provides
  <2> QED
    BY <1>4, <2>1 DEF Init, WithoutInv
<1>7. TurnInv
  BY DEF Init, TurnInv
<1>8. RootInv
  BY <1>3, <1>4 DEF Init, RootInv, RootBoard
<1>9. NetworkInv
  <2>1. \A f \in Forwarders : \A n \in Nets : ~Holds(f, n)
    BY <1>3, <1>4, NetworkFacts DEF Init, Holds
  <2> QED
    BY <2>1 DEF NetworkInv, SameNetwork, NetworkSpread
<1>10. RootsInv
  <2>1. \A f \in Forwarders : default_gateway # f /\ ~is_local_root[f]
    BY BoardFacts DEF Init
  <2> QED
    BY <2>1 DEF RootsInv, GatewayInPlace, RootsApart, GatewayFollows, GatewayOf,
       LocalRoots
<1>11. AskedInv
  BY DEF Init, AskedInv
<1> QED
  BY <1>2, <1>5, <1>6, <1>7, <1>8, <1>9, <1>10, <1>11 DEF GatewayInv

LEMMA HandlerStep ==
  ASSUME GatewayInv, Handler, Told
  PROVE  GatewayInv'
<1>1. Types'
  BY HandlerTypes DEF GatewayInv
<1>2. RootInv'
  BY <1>1, HandlerRoot
<1> QED
  BY <1>1, <1>2, HandlerStart, HandlerWithout, HandlerTurn,
     HandlerNetwork, HandlerRoots, HandlerAsked DEF GatewayInv

\* A step that leaves the queues of the node and the roles alone.
LEMMA QuietStep ==
  ASSUME GatewayInv, Told, \A b \in Board : internal'[b] = internal[b],
         UNCHANGED <<is_root, forwarder, center, table, history>>
  PROVE  /\ StartInv' /\ NetworkInv' /\ RootsInv'
         /\ (CenterAsked => CenterAsked') => AskedInv'
         /\ (is_root => \A f \in Forwarders : RootBoard(f)') => RootInv'
<1> USE BoardFacts
<1>0. /\ QueueTypes /\ TypeOK /\ StartInv /\ RootInv /\ NetworkInv /\ RootsInv
      /\ AskedInv
  BY DEF GatewayInv, Types, QueueTypes
<1>1. UNCHANGED <<is_root, global_state, node_network, is_local_root, dtr,
                  gateway_requested, default_gateway, asked, zero_route>>
  BY DEF forwarder, center, table, history
<1>2. StartInv'
  BY <1>0, <1>1, StartKept DEF IsWithout, StartInv, Told, Provisioned
<1>3. NetworkInv'
  <2>1. HoldsKept
    BY <1>1, HoldsSame
  <2>2. SameNetwork => SameNetwork'
    BY <1>1, <2>1 DEF HoldsKept, SameNetwork, IsWithout
  <2>3. NetworkSpread => NetworkSpread'
    BY <2>1 DEF HoldsKept, NetworkSpread
  <2> QED
    BY <1>0, <2>2, <2>3 DEF NetworkInv, Told
<1>4. \A f \in Forwarders : Hears(f)' <=> Hears(f)
  BY DEF Hears
<1>5. RootsInv'
  <2>1. CASE is_root
    BY <1>1, <2>1 DEF RootsInv
  <2>2. CASE ~is_root
    BY <1>0, <1>1, <1>4, <2>2, RootsFrame DEF RootsKept, Leading
  <2> QED
    BY <2>1, <2>2
<1>6. ASSUME CenterAsked => CenterAsked' PROVE AskedInv'
  <2>1. \A f \in asked' : StillAsked(f)
    BY <1>0, <1>1, <1>4, <1>6 DEF StillAsked, Waiting, TypeOK
  <2> QED
    BY <1>0, <1>1, <2>1, AskedFrame
<1>7. ASSUME is_root => \A f \in Forwarders : RootBoard(f)' PROVE RootInv'
  BY <1>0, <1>1, <1>7 DEF RootInv
<1> QED
  BY <1>2, <1>3, <1>5, <1>6, <1>7

LEMMA SectionStep ==
  ASSUME GatewayInv, Told, (\E b \in Board : Enter(b)) \/ ToExternal \/ Leave
  PROVE  GatewayInv'
<1>0. /\ QueueTypes /\ TypeOK /\ WithoutInv /\ TurnInv /\ RootInv
  BY DEF GatewayInv, Types, QueueTypes
<1>1. UNCHANGED <<is_root, forwarder, center, table, queues, peers, history>>
  BY DEF Enter, ToExternal, Leave
<1>2. /\ turn' \in Board \cup {None} /\ phase' \in {"internal", "external"}
      /\ phase' = "external" /\ turn' \in Forwarders /\ ~is_root => internal[turn'] = <<>>
      /\ phase # "timeout"
  <2>1. ASSUME NEW b \in Board, Enter(b)
        PROVE  turn' \in Board /\ phase' = "internal" /\ turn = None
    BY <2>1 DEF Enter
  <2>2. ASSUME ToExternal
        PROVE  /\ turn' = turn /\ phase' = "external" /\ phase = "internal"
               /\ internal[turn] = <<>>
    BY <2>2 DEF ToExternal
  <2>3. ASSUME Leave
        PROVE  turn' = None /\ phase' = phase /\ phase = "external"
    BY <2>3 DEF Leave
  <2>4. phase = "timeout" => turn # None
    BY <1>0, BoardFacts DEF TurnInv
  <2>5. turn \in Board \cup {None}
    BY <1>0 DEF TypeOK
  <2> QED
    BY <2>1, <2>2, <2>3, <2>4, <2>5, BoardFacts
<1>3. Types'
  <2>1. QueueTypes'
    BY <1>0, <1>1 DEF QueueTypes, queues
  <2>2. TypeOK'
    BY <1>0, <1>1, <1>2 DEF TypeOK, forwarder, center, table, peers, history
  <2> QED
    BY <2>1, <2>2 DEF Types, QueueTypes
<1>4. WithoutInv'
  BY <1>0, <1>1, WithoutFrame DEF forwarder, queues, peers, history, Untouched, IsWithout
<1>5. TurnInv'
  BY <1>1, <1>2 DEF TurnInv, queues
<1>6. internal' = internal /\ (CenterAsked => CenterAsked')
  BY <1>1, <1>2 DEF CenterAsked, queues
<1>7. is_root => \A f \in Forwarders : RootBoard(f)'
  BY <1>0, <1>1 DEF RootInv, RootBoard, forwarder, queues, peers
<1> QED
  BY <1>1, <1>3, <1>4, <1>5, <1>6, <1>7, QuietStep DEF GatewayInv

LEMMA EnvironmentStep ==
  ASSUME GatewayInv, Told, Environment
  PROVE  GatewayInv'
<1>0. /\ QueueTypes /\ TypeOK /\ WithoutInv /\ TurnInv /\ RootInv
  BY DEF GatewayInv, Types, QueueTypes
<1>1. PICK f \in Forwarders : PeerStep(f)
  BY DEF Environment, PeerStep
<1>2. PeerChange(f)
  BY <1>0, <1>1, PeerStepEffects
<1>3. /\ internal' = internal
      /\ UNCHANGED <<is_root, forwarder, center, table, section, history>>
  BY <1>2 DEF PeerChange
<1>4. Types'
  BY <1>0, <1>2, <1>3
     DEF PeerChange, Types, QueueTypes, TypeOK, forwarder, center, table, section, history
<1>5. TurnInv'
  BY <1>0, <1>3 DEF TurnInv, section
<1>6. \A g \in Forwarders : g # f => external'[g] = external[g] /\ link'[g] = link[g]
  BY <1>2, BoardFacts DEF PeerChange
<1>7. WithoutInv'
  <2> SUFFICES ASSUME NEW g \in Forwarders, IsWithout(g)'
               PROVE  /\ dtr'[g] = 0 /\ ~is_local_root'[g] /\ g \notin asked'
                      /\ node_network'[g] = Zero
                      /\ Ordered(g)'
    BY DEF WithoutInv, IsWithout, Ordered
  <2>1. IsWithout(g)
    BY <1>3 DEF IsWithout, forwarder
  <2>2. /\ dtr[g] = 0 /\ ~is_local_root[g] /\ g \notin asked
        /\ node_network[g] = Zero
        /\ Ordered(g)
    BY <1>0, <2>1 DEF WithoutInv, IsWithout, Ordered
  <2>3. /\ dtr'[g] = 0 /\ ~is_local_root'[g] /\ g \notin asked'
        /\ node_network'[g] = Zero
    BY <1>3, <2>2 DEF forwarder, history
  <2>4. CASE g = f
    BY <1>2, <2>1, <2>2, <2>3, <2>4 DEF PeerChange, IsWithout
  <2>5. CASE g # f
    BY <1>6, <2>2, <2>3, <2>5 DEF Ordered
  <2> QED
    BY <2>4, <2>5
<1>8. ASSUME is_root, NEW g \in Forwarders PROVE RootBoard(g)'
  <2>1. RootBoard(g)
    BY <1>0, <1>8 DEF RootInv
  <2>2. g = f => node_network[g] # Zero
    BY <1>2, <1>8, <2>1 DEF PeerChange, RootBoard
  <2> QED
    BY <1>3, <1>6, <2>1, <2>2 DEF RootBoard, forwarder
<1>9. CenterAsked => CenterAsked'
  BY <1>3 DEF CenterAsked, section
<1> QED
  BY <1>3, <1>4, <1>5, <1>7, <1>8, <1>9, QuietStep DEF GatewayInv

LEMMA TickStep ==
  ASSUME GatewayInv, Told, Tick
  PROVE  GatewayInv'
<1> USE BoardFacts
<1> DEFINE e == Winner(1)
<1>0. /\ QueueTypes /\ TypeOK /\ StartInv /\ WithoutInv /\ TurnInv /\ RootInv
      /\ NetworkInv /\ AskedInv
  BY DEF GatewayInv, Types, QueueTypes
<1>1. /\ QueueTypes' /\ external' = external
      /\ internal'[Center] = internal[Center]
      /\ \/ Spreads(Center, e)
         \/ internal' = internal /\ gateway_requested' = gateway_requested
  BY <1>0, TickEffects
<1>2. /\ is_root /\ gateway_requested
      /\ UNCHANGED <<is_root, forwarder, is_provisioned, table, section, peers, history>>
  BY DEF Tick
<1>3. e \in SiblingEvents /\ e.id = "NEW_GATEWAY_WINNER"
  <2>1. 1 \in 1 .. MaxDtr + 1
    BY LimitsAssumption, SMT
  <2> QED
    BY <2>1, EventFacts
<1> HIDE DEF e
<1>4. gateway_requested' \in BOOLEAN /\ gateway_requested_timeout' \in 0 .. TimeoutTicks
  <2>1. CASE gateway_requested_timeout <= 1
    <3>1. 0 \in 0 .. TimeoutTicks
      BY LimitsAssumption, SMT
    <3> QED
      BY <2>1, <3>1 DEF Tick
  <2>2. CASE ~(gateway_requested_timeout <= 1)
    BY <1>0, <2>2, LimitsAssumption, SMT DEF Tick, TypeOK
  <2> QED
    BY <2>1, <2>2
<1>5. Types'
  <2>1. TypeOK'
    BY <1>0, <1>2, <1>4 DEF TypeOK, forwarder, table, section, peers, history
  <2> QED
    BY <1>1, <2>1 DEF Types, QueueTypes
<1>6. ASSUME NEW f \in Forwarders
      PROVE  /\ internal[f] \in Seq(SiblingEvents) /\ internal'[f] \in Seq(SiblingEvents)
             /\ internal'[f] = internal[f] \/ Grows(internal[f], e, internal'[f])
  BY <1>0, <1>1 DEF QueueTypes, Spreads
<1>7. ASSUME NEW f \in Forwarders
      PROVE  /\ \A n : Offers(internal'[f], n) <=> Offers(internal[f], n)
             /\ Has(internal'[f], "PROVISION") <=> Has(internal[f], "PROVISION")
             /\ \A ids : Leads(internal[f], ids) => Leads(internal'[f], ids)
             /\ ProvisionFirst(internal[f]) => ProvisionFirst(internal'[f])
  BY <1>3, <1>6, OffersGrows, HasGrows, LeadsGrows, ProvisionFirstGrows
<1>8. StartInv'
  <2> SUFFICES ASSUME RolesTold' PROVE Started'
    BY DEF StartInv
  <2>1. Started
    BY <1>0 DEF StartInv, Told
  <2>2. Informed /\ Informed' /\ Informers' = Informers
    BY <1>1, <1>2, <2>1 DEF Started, Informed, Informers
  <2>3. \A f \in Forwarders : IsWithout(f)' => Leads(internal'[f], Informers)
    BY <1>2, <1>7, <2>1, <2>2 DEF Started, IsWithout, forwarder
  <2>4. \A f \in Forwarders :
          /\ ProvisionFirst(internal'[f])
          /\ Has(internal'[f], "PROVISION") => Provisioned(f)'
    BY <1>2, <1>7, <2>1 DEF Started, IsWithout, Provisioned, forwarder
  <2> QED
    BY <2>2, <2>3, <2>4 DEF Started
<1>9. WithoutInv'
  BY <1>0, <1>1, <1>2, WithoutFrame DEF forwarder, peers, history, Untouched, IsWithout
<1>10. TurnInv'
  BY <1>0, <1>1, <1>2 DEF TurnInv, section
<1>11. RootInv'
  <2>1. /\ is_root' = is_root /\ e.id # "PROVISION"
        /\ \A f \in Forwarders :
             UNCHANGED <<is_local_root[f], global_state[f], node_network[f],
                         dtr[f], external[f], link[f], local_state[f]>>
    BY <1>1, <1>2, <1>3 DEF forwarder, peers
  <2> QED
    BY <1>0, <1>1, <1>2, <1>3, <1>6, <2>1, RootFrame
<1>12. NetworkInv'
  <2>1. \A f \in Forwarders : \A n \in Nets : Holds(f, n)' <=> Holds(f, n)
    BY <1>2, <1>7 DEF Holds, forwarder
  <2>2. SameNetwork => SameNetwork'
    BY <1>2, <2>1 DEF SameNetwork
  <2>3. NetworkSpread => NetworkSpread'
    BY <2>1 DEF NetworkSpread
  <2> QED
    BY <1>0, <2>2, <2>3 DEF NetworkInv, Told
<1>13. RootsInv'
  BY <1>2 DEF RootsInv
<1>14. AskedInv'
  <2>1. ASSUME RequestTold', NEW f \in Forwarders PROVE Hears(f)' \/ gateway_requested'
    <3>1. CASE Spreads(Center, e)
      <4>1. /\ Grows(internal[f], e, internal'[f])
            /\ Len(internal'[f]) > Len(internal[f])
        BY <1>3, <2>1, <3>1 DEF Spreads, RequestTold
      <4> QED
        BY <1>3, <1>6, <4>1, HasGrows DEF Hears
    <3>2. CASE gateway_requested' = gateway_requested
      BY <1>2, <3>2
    <3> QED
      BY <1>1, <3>1, <3>2
  <2> QED
    BY <1>2, <1>5, <2>1 DEF AskedInv, Types, TypeOK
<1> QED
  BY <1>5, <1>8, <1>9, <1>10, <1>11, <1>12, <1>13, <1>14 DEF GatewayInv

LEMMA StutterStep ==
  ASSUME GatewayInv, UNCHANGED vars
  PROVE  GatewayInv'
<1>1. /\ \A b \in Board : internal'[b] = internal[b]
      /\ UNCHANGED <<is_root, forwarder, center, table, history, internal, external,
                     turn, phase, link, missed>>
  BY DEF vars, queues, section, peers, delivery
<1>2. Told
  BY <1>1 DEF Told, RolesTold, RequestTold, history
<1>3. RootInv /\ TurnInv /\ WithoutInv /\ Types
  BY DEF GatewayInv
<1>4. Types' /\ TurnInv'
  BY <1>1, <1>3 DEF Types, TypeOK, TurnInv, forwarder, center, table, history
<1>5. WithoutInv'
  BY <1>1, <1>3, WithoutFrame
     DEF Types, QueueTypes, Untouched, IsWithout, forwarder, history
<1>6. CenterAsked => CenterAsked'
  BY <1>1 DEF CenterAsked
<1>7. is_root => \A f \in Forwarders : RootBoard(f)'
  BY <1>1, <1>3 DEF RootInv, RootBoard, forwarder
<1> QED
  BY <1>1, <1>2, <1>4, <1>5, <1>6, <1>7, QuietStep DEF GatewayInv

\* The queues, the roles and the requests of every reachable state agree,
\* whatever the boards miss or get twice: the inductive invariant that the
\* theorems below are read from.
THEOREM GatewayInvariant == Spec => []GatewayInv
<1>1. GatewayInv /\ [Next]_vars => GatewayInv'
  <2> SUFFICES ASSUME GatewayInv, [Next]_vars PROVE GatewayInv'
    OBVIOUS
  <2>1. Told
    BY StepTold
  <2> QED
    BY <2>1, HandlerStep, SectionStep, EnvironmentStep, TickStep, StutterStep DEF Next
<1> QED
  BY <1>1, InitInv, PTL DEF Spec

\* Type correctness of the forwarders, the center and the radio links.
THEOREM GatewayTypeCorrect == Spec => []TypeOK
<1>1. GatewayInv => TypeOK
  BY DEF GatewayInv, Types
<1> QED
  BY <1>1, GatewayInvariant, PTL

\* A quiet node has nothing queued.
LEMMA QuietFacts ==
  ASSUME GatewayInv, Quiet
  PROVE  /\ \A b \in Board : \A id : ~Has(internal[b], id)
         /\ \A b \in Board : \A n : ~Offers(internal[b], n)
         /\ ~gateway_requested /\ ~CenterAsked
<1>1. \A id : ~Has(<<>>, id) /\ ~Offers(<<>>, id)
  BY SMT DEF Has, Offers
<1>2. \A b \in Board : \A id : ~Has(internal[b], id) /\ ~Offers(internal[b], id)
  BY <1>1 DEF Quiet
<1>3. phase # "timeout"
  BY BoardFacts DEF GatewayInv, TurnInv, Quiet
<1> QED
  BY <1>2, <1>3, BoardFacts DEF CenterAsked, Quiet

\* on_handshake and on_provision never give two boards of a node different
\* networks when every PROVISION reaches all boards, and when the winners do as
\* well, a network that one board got has reached every one.
THEOREM OneNetworkTheorem == Spec => []OneNetwork
<1>1. ASSUME GatewayInv PROVE OneNetwork
  <2>0. NetworkInv /\ TypeOK
    BY <1>1 DEF GatewayInv, Types
  <2>1. ASSUME NEW f \in Forwarders, node_network[f] # Zero
        PROVE  node_network[f] \in Nets /\ Holds(f, node_network[f])
    BY <2>0, <2>1 DEF TypeOK, Nets, Holds
  <2>2. ASSUME "PROVISION" \notin missed, NEW f \in Forwarders, NEW g \in Forwarders,
               node_network[f] # Zero, node_network[g] # Zero
        PROVE  node_network[f] = node_network[g]
    BY <2>0, <2>1, <2>2 DEF NetworkInv, SameNetwork
  <2>3. ASSUME Quiet, RolesTold, NEW f \in Forwarders, node_network[f] # Zero,
               NEW g \in Forwarders
        PROVE  node_network[g] # Zero
    <3>1. node_network[f] \in Nets /\ Holds(g, node_network[f])
      BY <2>0, <2>1, <2>3 DEF NetworkInv, NetworkSpread
    <3>2. ~Offers(internal[g], node_network[f])
      BY <1>1, <2>3, QuietFacts, BoardFacts
    <3> QED
      BY <2>3, <3>1, <3>2 DEF Holds
  <2> QED
    BY <2>2, <2>3 DEF OneNetwork, RolesTold
<1> QED
  BY <1>1, GatewayInvariant, PTL

\* A quiet node has at most one board whose peer leads to the root, beside the
\* one that a board of the root node provisioned: what on_new_gateway_response
\* announces makes the others step down, if it reaches them.
THEOREM OneLocalRootTheorem == Spec => []OneLocalRoot
<1>1. ASSUME GatewayInv PROVE OneLocalRoot
  <2> SUFFICES ASSUME Quiet, RolesTold, NEW f \in LocalRoots, NEW g \in LocalRoots,
                      f # g
               PROVE  (dtr[f] = 1) # (dtr[g] = 1)
    BY DEF OneLocalRoot
  <2>1. f \in Forwarders /\ g \in Forwarders /\ is_local_root[f]
    BY DEF LocalRoots
  <2>2. ~Hears(f) /\ ~Hears(g)
    BY <1>1, <2>1, QuietFacts, BoardFacts DEF Hears
  <2>3. ~is_root
    BY <1>1, <2>1 DEF GatewayInv, RootInv, RootBoard
  <2>4. TwoRoots(f, g)
    BY <1>1, <2>3 DEF GatewayInv, RootsInv, RootsApart
  <2>5. (dtr[f] = 1 /\ dtr[g] # 1) \/ (dtr[f] # 1 /\ dtr[g] = 1)
    BY <2>2, <2>4 DEF TwoRoots
  <2> QED
    BY <2>5
<1> QED
  BY <1>1, GatewayInvariant, PTL

\* Once no board waits for an answer, the routes of the node lead to a local
\* root (AddGlobalRoutes of on_handshake and on_new_gateway_response).
THEOREM LocalRootIsGatewayTheorem == Spec => []LocalRootIsGateway
<1>1. ASSUME GatewayInv PROVE LocalRootIsGateway
  <2> SUFFICES ASSUME Quiet, RolesTold, ~zero_route,
                      \A g \in Forwarders : global_state[g] # "ON_GW_REQUEST",
                      NEW f \in LocalRoots
               PROVE  /\ default_gateway \in LocalRoots
                      /\ dtr[f] = 1 \/ default_gateway = f
    BY DEF LocalRootIsGateway
  <2>1. f \in Forwarders /\ is_local_root[f]
    BY DEF LocalRoots
  <2>2. ~is_root
    BY <1>1, <2>1 DEF GatewayInv, RootInv, RootBoard
  <2>3. /\ default_gateway # Center /\ \A g \in Forwarders : GatewayOf(g)
        /\ default_gateway \in Board
    BY <1>1, <2>1, <2>2
       DEF GatewayInv, RootsInv, GatewayInPlace, GatewayFollows, Types, TypeOK
  <2>4. default_gateway \in Forwarders
    BY <2>3, BoardFacts
  <2>5. default_gateway \in LocalRoots
    BY <2>3, <2>4 DEF GatewayOf, LocalRoots
  <2>6. ~Hears(f)
    BY <1>1, <2>1, QuietFacts, BoardFacts DEF Hears
  <2> QED
    BY <2>1, <2>3, <2>4, <2>5, <2>6 DEF GatewayOf
<1> QED
  BY <1>1, GatewayInvariant, PTL

\* No peer and no missed broadcast makes a board of the root node take its peer
\* for its gateway or wait for one (the tests of dtr == 1 in forwarder/).
THEOREM RootStaysTheorem == Spec => []RootStays
<1>1. GatewayInv => RootStays
  BY DEF GatewayInv, RootInv, RootBoard, RootStays
<1> QED
  BY <1>1, GatewayInvariant, PTL

\* A peer's request is answered, or its board still waits, once the node is
\* quiet: root.c's timer and on_new_gateway_winner forget none, unless a
\* broadcast missed a board.
THEOREM RequestsKeptTheorem == Spec => []RequestsKept
<1>1. ASSUME GatewayInv PROVE RequestsKept
  <2> SUFFICES ASSUME Quiet, NEW f \in asked
               PROVE  IF is_root THEN ~RequestTold
                      ELSE RolesTold => global_state[f] = "ON_GW_REQUEST" \/ dtr[f] = 1
    BY DEF RequestsKept, RequestTold
  <2>1. f \in Forwarders
    BY <1>1 DEF GatewayInv, Types, TypeOK
  <2>2. ~Hears(f) /\ ~gateway_requested /\ ~CenterAsked
    BY <1>1, <2>1, QuietFacts, BoardFacts DEF Hears
  <2> QED
    BY <1>1, <2>2 DEF GatewayInv, AskedInv
<1> QED
  BY <1>1, GatewayInvariant, PTL

=============================================================================
