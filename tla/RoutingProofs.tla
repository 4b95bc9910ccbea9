--------------------------- MODULE RoutingProofs ---------------------------
(***************************************************************************)
(* The routing table, for any width of addresses, any networks and outputs *)
(* and any capacity, and after it the path of a packet among the boards    *)
(* that hold it, for any number of boards and any order of disturbances.   *)
(***************************************************************************)
EXTENDS PacketPath, SequenceTheorems, FiniteSetTheorems,
        WellFoundedInduction, TLAPS

TableInv == TypeOK /\ Sorted

LEMMA FunctionIsSeq ==
  ASSUME NEW S, NEW n \in Nat, NEW f \in [1 .. n -> S]
  PROVE  f \in Seq(S) /\ Len(f) = n
<1>1. f \in Seq(S)
  BY SeqDef
<1> QED
  BY <1>1, LenProperties, SMT

LEMMA UpdateInv ==
  ASSUME TableInv, NEW net \in Networks, NEW o \in Outputs, Update(net, o)
  PROVE  TableInv'
<1>1. PICK p \in 1 .. Len(entries) :
        /\ entries' = [entries EXCEPT ![p].output = o]
        /\ default_gateway' = default_gateway
  BY DEF Update
<1>2. entries \in [1 .. Len(entries) -> Entry] /\ Len(entries) \in Nat
  BY LenProperties DEF TableInv, TypeOK
<1>3. entries' \in [1 .. Len(entries) -> Entry]
  BY <1>1, <1>2 DEF Entry
<1>4. entries' \in Seq(Entry) /\ Len(entries') = Len(entries)
  BY <1>2, <1>3, FunctionIsSeq
<1>5. \A i \in 1 .. Len(entries) : entries'[i].net = entries[i].net
  BY <1>1, <1>2 DEF Entry
<1>6. Sorted'
  BY <1>4, <1>5 DEF Sorted, TableInv
<1> QED
  BY <1>1, <1>4, <1>6 DEF TableInv, TypeOK

LEMMA InsertInv ==
  ASSUME TableInv, NEW net \in Networks, NEW o \in Outputs, Insert(net, o)
  PROVE  TableInv'
<1> DEFINE n == Len(entries)
           e == [net |-> net, output |-> o]
<1>1. PICK p \in 1 .. n + 1 :
        /\ IsPosition(net, p)
        /\ p <= n => entries[p].net # net
        /\ n < MAX_ROUTING_ENTRIES
        /\ entries' = InsertAt(p, e)
        /\ default_gateway' = default_gateway
  BY DEF Insert
<1>2. entries \in [1 .. n -> Entry] /\ n \in Nat
  BY LenProperties DEF TableInv, TypeOK
<1>3. e \in Entry
  BY DEF Entry
<1>4. \A i \in 1 .. n + 1 : entries'[i] =
        IF i < p THEN entries[i] ELSE IF i = p THEN e ELSE entries[i - 1]
  BY <1>1 DEF InsertAt
<1>5. entries' \in [1 .. n + 1 -> Entry]
  <2> SUFFICES ASSUME NEW i \in 1 .. n + 1
               PROVE  (IF i < p THEN entries[i]
                       ELSE IF i = p THEN e ELSE entries[i - 1]) \in Entry
    BY <1>1 DEF InsertAt
  <2>1. CASE i < p
    BY <2>1, <1>2, SMT
  <2>2. CASE i = p
    BY <2>2, <1>3, SMT
  <2>3. CASE i > p
    <3>1. i - 1 \in 1 .. n
      BY <2>3, <1>2, SMT
    <3> QED
      BY <2>3, <3>1, <1>2, SMT
  <2> QED
    BY <2>1, <2>2, <2>3, <1>2, SMT
<1>6. entries' \in Seq(Entry) /\ Len(entries') = n + 1
  <2>1. n + 1 \in Nat
    BY <1>2, SMT
  <2> QED
    BY <2>1, <1>5, FunctionIsSeq
<1>7. \A i \in 1 .. n : entries[i].net.len \in Nat
  <2>1. \A i \in 1 .. n : entries[i].net \in Networks
    BY <1>2 DEF Entry
  <2>2. \A m \in Networks : m.len \in Nat
    BY NetworksAssumption, WAssumption, SMT
  <2> QED
    BY <2>1, <2>2
<1>8. net.len \in Nat
  BY NetworksAssumption, WAssumption, SMT
<1>9. \A i \in 1 .. n : i < p => /\ entries[i].net # net
                                 /\ entries[i].net.len >= net.len
  BY <1>1, <1>2, <1>7, <1>8, SMT DEF IsPosition, StopsAt
<1>10. \A i \in 1 .. n : i >= p => /\ entries[i].net # net
                                   /\ net.len >= entries[i].net.len
  <2> SUFFICES ASSUME NEW i \in 1 .. n, i >= p
               PROVE  entries[i].net # net /\ net.len >= entries[i].net.len
    OBVIOUS
  <2>1. p \in 1 .. n
    BY <1>2, SMT
  <2>2. entries[p].net.len < net.len
    BY <1>1, <2>1, SMT DEF IsPosition, StopsAt
  <2>3. entries[p].net.len >= entries[i].net.len
    BY <2>1, <1>2, <1>7, SMT DEF TableInv, Sorted
  <2> QED
    BY <2>1, <2>2, <2>3, <1>7, <1>8, SMT
<1>11. Sorted'
  <2> SUFFICES ASSUME NEW i \in 1 .. n + 1, NEW j \in 1 .. n + 1, i < j
               PROVE  /\ entries'[i].net.len >= entries'[j].net.len
                      /\ entries'[i].net # entries'[j].net
    BY <1>6 DEF Sorted
  <2> USE <1>2
  <2>1. CASE j < p
    BY <2>1, <1>4, SMT DEF TableInv, Sorted
  <2>2. CASE j = p
    <3>1. entries'[i] = entries[i] /\ entries'[j] = e /\ i \in 1 .. n
      BY <2>2, <1>4, SMT
    <3> QED
      BY <3>1, <2>2, <1>9
  <2>3. CASE i = p
    <3>1. entries'[i] = e /\ entries'[j] = entries[j - 1]
          /\ j - 1 \in 1 .. n /\ j - 1 >= p
      BY <2>3, <1>4, SMT
    <3> QED
      BY <3>1, <1>10
  <2>4. CASE i < p /\ p < j
    <3>1. /\ entries'[i] = entries[i] /\ entries'[j] = entries[j - 1]
          /\ i \in 1 .. n /\ j - 1 \in 1 .. n /\ i < j - 1 + 1 /\ i <= j - 1
      BY <2>4, <1>4, SMT
    <3>2. i < j - 1
      BY <2>4, SMT
    <3> QED
      BY <3>1, <3>2 DEF TableInv, Sorted
  <2>5. CASE p < i
    <3>1. /\ entries'[i] = entries[i - 1] /\ entries'[j] = entries[j - 1]
          /\ i - 1 \in 1 .. n /\ j - 1 \in 1 .. n /\ i - 1 < j - 1
      BY <2>5, <1>4, SMT
    <3> QED
      BY <3>1 DEF TableInv, Sorted
  <2> QED
    BY <2>1, <2>2, <2>3, <2>4, <2>5, SMT
<1>12. Len(entries') <= MAX_ROUTING_ENTRIES
  BY <1>1, <1>2, <1>6, CapacityAssumption, SMT
<1> QED
  BY <1>1, <1>6, <1>11, <1>12 DEF TableInv, TypeOK

LEMMA RemoveInv ==
  ASSUME TableInv, NEW o \in Outputs, RemoveByOutput(o)
  PROVE  TableInv'
<1>0. PICK n \in 0 .. Len(entries) : \E f \in [1 .. n -> Kept(o)] :
        /\ Enumerates(f, n, Kept(o))
        /\ entries' = [i \in 1 .. n |-> entries[f[i]]]
        /\ default_gateway' = default_gateway
  BY DEF RemoveByOutput
<1>1. PICK f \in [1 .. n -> Kept(o)] :
        /\ Enumerates(f, n, Kept(o))
        /\ entries' = [i \in 1 .. n |-> entries[f[i]]]
        /\ default_gateway' = default_gateway
  BY <1>0
<1>2. entries \in [1 .. Len(entries) -> Entry] /\ Len(entries) \in Nat
  BY LenProperties DEF TableInv, TypeOK
<1>3. \A i \in 1 .. n : f[i] \in 1 .. Len(entries)
  BY DEF Kept
<1>4. entries' \in [1 .. n -> Entry]
  BY <1>1, <1>2, <1>3
<1>5. entries' \in Seq(Entry) /\ Len(entries') = n
  <2>1. n \in Nat
    BY <1>2, SMT
  <2> QED
    BY <2>1, <1>4, FunctionIsSeq
<1>6. Sorted'
  BY <1>1, <1>3, <1>5 DEF Sorted, TableInv, Enumerates
<1>7. Len(entries') <= MAX_ROUTING_ENTRIES
  BY <1>2, <1>5, CapacityAssumption, SMT DEF TableInv, TypeOK
<1> QED
  BY <1>1, <1>5, <1>6, <1>7 DEF TableInv, TypeOK

LEMMA InitTable == Init => TableInv
  BY CapacityAssumption, SMT DEF Init, TableInv, TypeOK, Sorted

LEMMA TableStep == TableInv /\ [Next]_vars => TableInv'
<1> SUFFICES ASSUME TableInv, [Next]_vars PROVE TableInv'
  OBVIOUS
<1>1. ASSUME NEW net \in Networks \cup {DefaultRoute}, NEW o \in Outputs,
             Add(net, o)
      PROVE  TableInv'
  <2>1. CASE SetDefault(net, o)
    BY <2>1 DEF SetDefault, TableInv, TypeOK, Sorted
  <2>2. CASE net # DefaultRoute /\ Update(net, o)
    BY <2>2, UpdateInv
  <2>3. CASE net # DefaultRoute /\ Insert(net, o)
    BY <2>3, InsertInv
  <2> QED
    BY <1>1, <2>1, <2>2, <2>3 DEF Add
<1>2. ASSUME NEW o \in Outputs, RemoveByOutput(o) PROVE TableInv'
  BY <1>2, RemoveInv
<1>3. CASE UNCHANGED vars
  BY <1>3 DEF vars, TableInv, TypeOK, Sorted
<1> QED
  BY <1>1, <1>2, <1>3 DEF Next

\* The table is well formed: typed, within its capacity, sorted by decreasing
\* mask and without a network twice, after any sequence of operations.
THEOREM TableInvariant == Spec => []TableInv
  BY InitTable, TableStep, PTL DEF Spec

\* The order that the lookup relies on, through every sequence of adds,
\* updates and removes (routing_table.c:34).
THEOREM SortedHolds == Spec => []Sorted
<1>1. TableInv => Sorted
  BY DEF TableInv
<1> QED
  BY <1>1, TableInvariant, PTL

----------------------------------------------------------------------------
(* The lookup.                                                             *)

LEMMA SmallestElement ==
  ASSUME NEW T \in SUBSET Nat, T # {}
  PROVE  \E x \in T : \A y \in T : x <= y
<1> DEFINE R == OpToRel(<, Nat)
<1>1. IsWellFoundedOn(R, Nat)
  BY NatLessThanWellFounded, Zenon
<1>2. \A x, y \in Nat : <<y, x>> \in R <=> y < x
  BY DEF OpToRel
<1> HIDE DEF R
<1>3. PICK x \in T : \A y \in T : ~(<<y, x>> \in R)
  BY <1>1, WFMin
<1>4. ASSUME NEW y \in T PROVE x <= y
  <2>1. ~(y < x)
    BY <1>2, <1>3
  <2> QED
    BY <2>1, SMT
<1> QED
  BY <1>4

\* Two networks of one length that contain an address are the same network.
LEMMA MatchUnique ==
  ASSUME NEW a \in Networks, NEW b \in Networks, NEW ip,
         Matches(ip, a), Matches(ip, b), a.len = b.len
  PROVE  a = b
<1>1. a.addr = b.addr
  BY DEF Matches
<1> QED
  BY <1>1, NetworksAssumption, SMT

LEMMA FirstMatchIsLongest ==
  ASSUME TableInv, NEW ip
  PROVE  Route(ip) = Map!Lookup(ip)
<1>1. entries \in [1 .. Len(entries) -> Entry] /\ Len(entries) \in Nat
  BY LenProperties DEF TableInv, TypeOK
<1>2. \A i \in 1 .. Len(entries) : entries[i].net \in Networks
  BY <1>1 DEF Entry
<1>3. Map!Matching(ip) = {entries[i].net : i \in Hits(ip)}
  BY DEF Map!Matching, AsMap, Routed, Hits, Matches, HostBits, Map!Matches,
         Map!HostBits
<1>4. CASE Hits(ip) = {}
  BY <1>3, <1>4 DEF Route, Map!Lookup
<1>5. CASE Hits(ip) # {}
  <2>1. PICK i \in Hits(ip) : \A j \in Hits(ip) : i <= j
    <3>1. Hits(ip) \in SUBSET Nat
      BY <1>1, SMT DEF Hits
    <3> QED
      BY <3>1, <1>5, SmallestElement
  <2>2. i \in 1 .. Len(entries)
    BY DEF Hits
  <2>3. \A k \in Hits(ip) : (\A j \in Hits(ip) : k <= j) => k = i
    BY <2>1, <1>1, SMT DEF Hits
  <2>4. Route(ip) = entries[i].output
    BY <1>5, <2>1, <2>3 DEF Route
  <2> DEFINE best == entries[i].net
  <2>5. \A net \in Map!Matching(ip) : net.len <= best.len
    <3> SUFFICES ASSUME NEW j \in Hits(ip)
                 PROVE  entries[j].net.len <= best.len
      BY <1>3
    <3>1. j \in 1 .. Len(entries) /\ i <= j
      BY <2>1 DEF Hits
    <3>2. best.len \in Nat /\ entries[j].net.len \in Nat
      BY <1>2, <2>2, <3>1, NetworksAssumption, WAssumption, SMT
    <3>3. CASE i = j
      BY <3>2, <3>3, SMT
    <3>4. CASE i < j
      BY <2>2, <3>1, <3>2, <3>4, SMT DEF TableInv, Sorted
    <3> QED
      BY <3>1, <3>3, <3>4, <2>2, <1>1, SMT
  <2>6. best \in Map!Matching(ip)
    BY <1>3
  <2>7. ASSUME NEW net \in Map!Matching(ip),
               \A other \in Map!Matching(ip) : other.len <= net.len
        PROVE  net = best
    <3>1. net \in Networks /\ Matches(ip, net)
      BY <1>2, <1>3 DEF Hits
    <3>2. best \in Networks /\ Matches(ip, best)
      BY <1>2, <2>2 DEF Hits
    <3>3. net.len \in Nat /\ best.len \in Nat
      BY <3>1, <3>2, NetworksAssumption, WAssumption, SMT
    <3>4. net.len <= best.len /\ best.len <= net.len
      BY <2>5, <2>6, <2>7
    <3>5. net.len = best.len
      BY <3>3, <3>4, SMT
    <3> QED
      BY <3>1, <3>2, <3>5, MatchUnique
  <2>8. Map!Lookup(ip) = AsMap[best]
    BY <2>5, <2>6, <2>7 DEF Map!Lookup
  <2>9. ASSUME NEW k \in 1 .. Len(entries), entries[k].net = best PROVE k = i
    BY <2>2, <2>9, <1>1, SMT DEF TableInv, Sorted
  <2>10. AsMap[best] = entries[i].output
    BY <2>2, <2>9 DEF AsMap, Routed
  <2> QED
    BY <2>4, <2>8, <2>10
<1> QED
  BY <1>4, <1>5

\* The first match is the longest prefix match, for every address.
THEOREM LongestPrefixMatchHolds == Spec => []LongestPrefixMatch
<1>1. TableInv => LongestPrefixMatch
  BY FirstMatchIsLongest DEF LongestPrefixMatch
<1> QED
  BY <1>1, TableInvariant, PTL
----------------------------------------------------------------------------
(* The table implements the map of RouteMap.                               *)

Keys(es) == {es[i].net : i \in 1 .. Len(es)}
MapOf(es) ==
  [net \in Keys(es) |->
     es[CHOOSE i \in 1 .. Len(es) : es[i].net = net].output]
Distinct(es) ==
  \A i, j \in 1 .. Len(es) : es[i].net = es[j].net => i = j

\* An array without duplicates is the map that its entries spell out.
LEMMA MapOfIs ==
  ASSUME NEW es, Distinct(es), NEW D, NEW f \in [D -> Outputs], D = Keys(es),
         \A i \in 1 .. Len(es) : f[es[i].net] = es[i].output
  PROVE  MapOf(es) = f
<1> SUFFICES ASSUME NEW net \in D PROVE MapOf(es)[net] = f[net]
  BY DEF MapOf
<1>1. PICK i \in 1 .. Len(es) : es[i].net = net
  BY DEF Keys
<1>2. (CHOOSE j \in 1 .. Len(es) : es[j].net = net) = i
  BY <1>1 DEF Distinct
<1> QED
  BY <1>1, <1>2 DEF MapOf

LEMMA MapOfAt ==
  ASSUME NEW es, Distinct(es), NEW i \in 1 .. Len(es)
  PROVE  MapOf(es)[es[i].net] = es[i].output
<1>1. (CHOOSE j \in 1 .. Len(es) : es[j].net = es[i].net) = i
  BY DEF Distinct
<1> QED
  BY <1>1 DEF MapOf, Keys

LEMMA AsMapIsMapOf == AsMap = MapOf(entries) /\ Routed = Keys(entries)
  BY DEF AsMap, Routed, MapOf, Keys

LEMMA TableFacts ==
  ASSUME TableInv
  PROVE  /\ Len(entries) \in Nat
         /\ entries \in [1 .. Len(entries) -> Entry]
         /\ Distinct(entries)
         /\ MapOf(entries) \in [Keys(entries) -> Outputs]
         /\ \A net \in Keys(entries) : \E i \in 1 .. Len(entries) :
              entries[i].net = net /\ MapOf(entries)[net] = entries[i].output
<1>1. Len(entries) \in Nat /\ entries \in [1 .. Len(entries) -> Entry]
  BY LenProperties DEF TableInv, TypeOK
<1>2. Distinct(entries)
  <2> SUFFICES ASSUME NEW i \in 1 .. Len(entries), NEW j \in 1 .. Len(entries),
                      entries[i].net = entries[j].net, i # j
               PROVE  FALSE
    BY DEF Distinct
  <2>1. i < j \/ j < i
    BY <1>1, SMT
  <2> QED
    BY <2>1 DEF TableInv, Sorted
<1>3. \A net \in Keys(entries) : \E i \in 1 .. Len(entries) :
        entries[i].net = net /\ MapOf(entries)[net] = entries[i].output
  BY <1>2, MapOfAt DEF Keys
<1>4. MapOf(entries) \in [Keys(entries) -> Outputs]
  <2>1. \A net \in Keys(entries) : MapOf(entries)[net] \in Outputs
    BY <1>1, <1>3 DEF Entry
  <2> QED
    BY <2>1 DEF MapOf
<1> QED
  BY <1>1, <1>2, <1>3, <1>4

\* Updating the entry of a network rebinds it.
LEMMA UpdateIsAdd ==
  ASSUME TableInv, TableInv', NEW net \in Networks, NEW o \in Outputs,
         Update(net, o)
  PROVE  Map!Add(net, o)
<1>1. PICK p \in 1 .. Len(entries) :
        /\ entries[p].net = net
        /\ entries' = [entries EXCEPT ![p].output = o]
        /\ default_gateway' = default_gateway
  BY DEF Update
<1>2. /\ Len(entries) \in Nat
      /\ entries \in [1 .. Len(entries) -> Entry]
      /\ Distinct(entries)
      /\ MapOf(entries) \in [Keys(entries) -> Outputs]
  BY TableFacts
<1>3. Distinct(entries') /\ Len(entries') \in Nat
      /\ entries' \in [1 .. Len(entries') -> Entry]
  <2>1. Len(entries') \in Nat /\ entries' \in [1 .. Len(entries') -> Entry]
    BY LenProperties DEF TableInv, TypeOK
  <2> SUFFICES ASSUME NEW i \in 1 .. Len(entries'), NEW j \in 1 .. Len(entries'),
                      entries'[i].net = entries'[j].net, i # j
               PROVE  FALSE
    BY <2>1 DEF Distinct
  <2>2. i < j \/ j < i
    BY <2>1, SMT
  <2> QED
    BY <2>2 DEF TableInv, Sorted
<1>4. Len(entries') = Len(entries)
  <2>1. entries' \in [1 .. Len(entries) -> Entry]
    BY <1>1, <1>2 DEF Entry
  <2> QED
    BY <2>1, <1>2, FunctionIsSeq
<1>5. \A i \in 1 .. Len(entries) :
        /\ entries'[i].net = entries[i].net
        /\ entries'[i].output = IF i = p THEN o ELSE entries[i].output
  BY <1>1, <1>2 DEF Entry
<1>6. Keys(entries') = Keys(entries) /\ net \in Keys(entries)
  BY <1>1, <1>4, <1>5 DEF Keys
<1> DEFINE f == [n \in Keys(entries) \cup {net} |->
                   IF n = net THEN o ELSE MapOf(entries)[n]]
<1>7. f \in [Keys(entries) -> Outputs]
  BY <1>2, <1>6
<1>8. \A i \in 1 .. Len(entries') : f[entries'[i].net] = entries'[i].output
  <2> SUFFICES ASSUME NEW i \in 1 .. Len(entries)
               PROVE  f[entries[i].net] = entries'[i].output
    BY <1>4, <1>5
  <2>1. entries[i].net \in Keys(entries)
    BY DEF Keys
  <2>2. CASE i = p
    BY <2>2, <1>1, <1>5, <2>1
  <2>3. CASE i # p
    <3>1. entries[i].net # net
      BY <2>3, <1>1, <1>2 DEF Distinct
    <3>2. MapOf(entries)[entries[i].net] = entries[i].output
      BY <1>2, MapOfAt
    <3> QED
      BY <2>1, <2>3, <3>1, <3>2, <1>5
  <2> QED
    BY <2>2, <2>3
<1>9. MapOf(entries') = f
  <2> HIDE DEF f
  <2> QED
    BY <1>3, <1>6, <1>7, <1>8, MapOfIs
<1> QED
  BY <1>1, <1>6, <1>9, AsMapIsMapOf DEF Map!Add, AsMap, Routed, MapOf, Keys

LEMMA SameCardinality == \A S : Map!Cardinality(S) = Cardinality(S)
  BY DEF Map!Cardinality, Cardinality

\* A new entry binds a new network, for which the map has room.
LEMMA InsertIsAdd ==
  ASSUME TableInv, TableInv', NEW net \in Networks, NEW o \in Outputs,
         Insert(net, o)
  PROVE  Map!Add(net, o)
<1> DEFINE n == Len(entries)
           e == [net |-> net, output |-> o]
<1>1. PICK p \in 1 .. n + 1 :
        /\ IsPosition(net, p)
        /\ p <= n => entries[p].net # net
        /\ n < MAX_ROUTING_ENTRIES
        /\ entries' = InsertAt(p, e)
        /\ default_gateway' = default_gateway
  BY DEF Insert
<1>2. /\ n \in Nat
      /\ entries \in [1 .. n -> Entry]
      /\ Distinct(entries)
      /\ MapOf(entries) \in [Keys(entries) -> Outputs]
  BY TableFacts
<1>3. \A i \in 1 .. n + 1 : entries'[i] =
        IF i < p THEN entries[i] ELSE IF i = p THEN e ELSE entries[i - 1]
  BY <1>1 DEF InsertAt
<1>4. Len(entries') \in Nat /\ entries' \in [1 .. Len(entries') -> Entry]
  BY LenProperties DEF TableInv, TypeOK
<1>5. Len(entries') = n + 1
  <2>1. DOMAIN entries' = 1 .. n + 1
    BY <1>1 DEF InsertAt
  <2>2. entries' \in [1 .. n + 1 -> Entry]
    <3>1. 1 .. Len(entries') = 1 .. n + 1
      BY <1>4, <2>1, Zenon
    <3> QED
      BY <1>4, <3>1, Zenon
  <2>3. n + 1 \in Nat
    BY <1>2, SMT
  <2> QED
    BY <2>2, <2>3, FunctionIsSeq
<1>6. Distinct(entries')
  <2> SUFFICES ASSUME NEW i \in 1 .. Len(entries'), NEW j \in 1 .. Len(entries'),
                      entries'[i].net = entries'[j].net, i # j
               PROVE  FALSE
    BY DEF Distinct
  <2>1. i < j \/ j < i
    BY <1>4, SMT
  <2> QED
    BY <2>1 DEF TableInv, Sorted
<1>7. entries'[p] = e /\ p \in 1 .. Len(entries')
  BY <1>2, <1>3, <1>5, SMT
<1>8. \A i \in 1 .. n : \E j \in 1 .. Len(entries') :
        j # p /\ entries'[j] = entries[i]
  <2> SUFFICES ASSUME NEW i \in 1 .. n
               PROVE  \E j \in 1 .. n + 1 : j # p /\ entries'[j] = entries[i]
    BY <1>5
  <2>1. CASE i < p
    <3>1. i \in 1 .. n + 1 /\ i # p /\ entries'[i] = entries[i]
      BY <2>1, <1>2, <1>3, SMT
    <3> QED
      BY <3>1
  <2>2. CASE i >= p
    <3>1. i + 1 \in 1 .. n + 1 /\ i + 1 # p /\ ~(i + 1 < p) /\ (i + 1) - 1 = i
      BY <2>2, <1>2, SMT
    <3>2. entries'[i + 1] = entries[i]
      BY <3>1, <1>3
    <3> QED
      BY <3>1, <3>2
  <2> QED
    BY <2>1, <2>2, <1>2, SMT
<1>9. \A j \in 1 .. Len(entries') : j # p =>
        \E i \in 1 .. n : entries'[j] = entries[i]
  <2> SUFFICES ASSUME NEW j \in 1 .. n + 1, j # p
               PROVE  \E i \in 1 .. n : entries'[j] = entries[i]
    BY <1>5
  <2>1. CASE j < p
    <3>1. j \in 1 .. n /\ entries'[j] = entries[j]
      BY <2>1, <1>2, <1>3, SMT
    <3> QED
      BY <3>1
  <2>2. CASE j > p
    <3>1. j - 1 \in 1 .. n /\ ~(j < p)
      BY <2>2, <1>2, SMT
    <3>2. entries'[j] = entries[j - 1]
      BY <3>1, <1>3
    <3> QED
      BY <3>1, <3>2
  <2> QED
    BY <2>1, <2>2, <1>2, SMT
<1>10. \A i \in 1 .. n : entries[i].net # net
  <2> SUFFICES ASSUME NEW i \in 1 .. n, entries[i].net = net PROVE FALSE
    OBVIOUS
  <2>1. PICK j \in 1 .. Len(entries') : j # p /\ entries'[j] = entries[i]
    BY <1>8
  <2> QED
    BY <2>1, <1>6, <1>7 DEF Distinct
<1>11. Keys(entries') = Keys(entries) \cup {net}
  <2>1. Keys(entries') \subseteq Keys(entries) \cup {net}
    <3> SUFFICES ASSUME NEW j \in 1 .. Len(entries')
                 PROVE  entries'[j].net \in Keys(entries) \cup {net}
      BY DEF Keys
    <3> QED
      BY <1>7, <1>9 DEF Keys
  <2>2. Keys(entries) \cup {net} \subseteq Keys(entries')
    <3>1. net \in Keys(entries')
      BY <1>7 DEF Keys
    <3>2. \A i \in 1 .. n : entries[i].net \in Keys(entries')
      BY <1>8 DEF Keys
    <3> QED
      BY <3>1, <3>2 DEF Keys
  <2> QED
    BY <2>1, <2>2
<1> DEFINE f == [k \in Keys(entries) \cup {net} |->
                   IF k = net THEN o ELSE MapOf(entries)[k]]
<1>12. f \in [Keys(entries) \cup {net} -> Outputs]
  BY <1>2
<1>13. \A j \in 1 .. Len(entries') : f[entries'[j].net] = entries'[j].output
  <2> SUFFICES ASSUME NEW j \in 1 .. Len(entries')
               PROVE  f[entries'[j].net] = entries'[j].output
    OBVIOUS
  <2>1. CASE j = p
    BY <2>1, <1>7
  <2>2. CASE j # p
    <3>1. PICK i \in 1 .. n : entries'[j] = entries[i]
      BY <2>2, <1>9
    <3>2. entries[i].net \in Keys(entries) /\ entries[i].net # net
      BY <1>10 DEF Keys
    <3>3. MapOf(entries)[entries[i].net] = entries[i].output
      BY <1>2, MapOfAt
    <3> QED
      BY <3>1, <3>2, <3>3
  <2> QED
    BY <2>1, <2>2
<1>14. MapOf(entries') = f
  <2> HIDE DEF f
  <2> QED
    BY <1>6, <1>11, <1>12, <1>13, MapOfIs
<1>15. Cardinality(Keys(entries)) < MAX_ROUTING_ENTRIES
  <2> DEFINE g == [i \in 1 .. n |-> entries[i].net]
  <2>1. g \in Surjection(1 .. n, Keys(entries))
    BY DEF Surjection, Keys
  <2>2. IsFiniteSet(1 .. n) /\ Cardinality(1 .. n) = n
    <3>1. 1 \in Int /\ n \in Int
      BY <1>2, SMT
    <3>2. IsFiniteSet(1 .. n) /\ Cardinality(1 .. n) = IF 1 > n THEN 0 ELSE n - 1 + 1
      BY <3>1, FS_Interval, Zenon
    <3> QED
      BY <3>2, <1>2, SMT
  <2>3. IsFiniteSet(Keys(entries)) /\ Cardinality(Keys(entries)) <= n
    BY <2>1, <2>2, FS_Surjection
  <2>4. Cardinality(Keys(entries)) \in Nat
    BY <2>3, FS_CardinalityType
  <2>5. n < MAX_ROUTING_ENTRIES
    BY <1>1
  <2> DEFINE c == Cardinality(Keys(entries))
  <2>6. c <= n /\ c \in Nat /\ n \in Nat
    BY <2>3, <2>4, <1>2
  <2> HIDE DEF n, c
  <2>7. c < MAX_ROUTING_ENTRIES
    BY <2>5, <2>6, CapacityAssumption, SMT
  <2> QED
    BY <2>7 DEF c
<1> QED
  <2>1. Map!Cardinality(DOMAIN AsMap) < MAX_ROUTING_ENTRIES
    <3>1. DOMAIN AsMap = Keys(entries)
      BY AsMapIsMapOf DEF MapOf
    <3> QED
      BY <1>15, <3>1, SameCardinality
  <2> QED
    BY <1>1, <1>11, <1>14, <2>1, AsMapIsMapOf
       DEF Map!Add, AsMap, Routed, MapOf, Keys

\* Compaction unbinds the networks of the output and no others.
LEMMA RemoveIsRemove ==
  ASSUME TableInv, TableInv', NEW o \in Outputs, RemoveByOutput(o)
  PROVE  Map!RemoveByOutput(o)
<1>0. PICK n \in 0 .. Len(entries) : \E f \in [1 .. n -> Kept(o)] :
        /\ Enumerates(f, n, Kept(o))
        /\ entries' = [i \in 1 .. n |-> entries[f[i]]]
        /\ default_gateway' = default_gateway
  BY DEF RemoveByOutput
<1>1. PICK f \in [1 .. n -> Kept(o)] :
        /\ Enumerates(f, n, Kept(o))
        /\ entries' = [i \in 1 .. n |-> entries[f[i]]]
        /\ default_gateway' = default_gateway
  BY <1>0
<1>2. /\ Len(entries) \in Nat
      /\ entries \in [1 .. Len(entries) -> Entry]
      /\ Distinct(entries)
      /\ MapOf(entries) \in [Keys(entries) -> Outputs]
  BY TableFacts
<1>3. Len(entries') \in Nat /\ entries' \in [1 .. Len(entries') -> Entry]
  BY LenProperties DEF TableInv, TypeOK
<1>4. Len(entries') = n
  <2>1. n \in Nat
    BY <1>2, SMT
  <2>2. DOMAIN entries' = 1 .. n
    BY <1>1
  <2>3. entries' \in [1 .. n -> Entry]
    <3>1. 1 .. Len(entries') = 1 .. n
      BY <1>3, <2>2, Zenon
    <3> QED
      BY <1>3, <3>1, Zenon
  <2> QED
    BY <2>1, <2>3, FunctionIsSeq
<1>5. Distinct(entries')
  <2> SUFFICES ASSUME NEW i \in 1 .. Len(entries'), NEW j \in 1 .. Len(entries'),
                      entries'[i].net = entries'[j].net, i # j
               PROVE  FALSE
    BY DEF Distinct
  <2>1. i < j \/ j < i
    BY <1>3, SMT
  <2> QED
    BY <2>1 DEF TableInv, Sorted
<1> DEFINE D == {m \in Keys(entries) : MapOf(entries)[m] # o}
           g == [m \in D |-> MapOf(entries)[m]]
<1>6. \A i \in 1 .. n : /\ f[i] \in 1 .. Len(entries)
                        /\ entries[f[i]].output # o
                        /\ entries'[i] = entries[f[i]]
  BY <1>1 DEF Kept
<1>7. D = Keys(entries')
  <2>1. ASSUME NEW i \in 1 .. n PROVE entries'[i].net \in D
    <3>1. entries[f[i]].net \in Keys(entries)
      BY <1>6 DEF Keys
    <3>2. MapOf(entries)[entries[f[i]].net] = entries[f[i]].output
      BY <1>2, <1>6, MapOfAt
    <3> QED
      BY <1>6, <3>1, <3>2
  <2>2. ASSUME NEW m \in D PROVE m \in Keys(entries')
    <3>1. PICK k \in 1 .. Len(entries) :
            entries[k].net = m /\ MapOf(entries)[m] = entries[k].output
      BY TableFacts
    <3>2. k \in Kept(o)
      BY <3>1 DEF Kept
    <3>3. PICK i \in 1 .. n : f[i] = k
      BY <3>2, <1>1 DEF Enumerates
    <3>4. entries'[i].net = m /\ i \in 1 .. Len(entries')
      BY <3>1, <3>3, <1>4, <1>6
    <3> QED
      BY <3>4 DEF Keys
  <2> QED
    BY <2>1, <2>2, <1>4 DEF Keys
<1>8. g \in [D -> Outputs]
  BY <1>2
<1>9. \A i \in 1 .. Len(entries') : g[entries'[i].net] = entries'[i].output
  <2> SUFFICES ASSUME NEW i \in 1 .. n
               PROVE  g[entries'[i].net] = entries'[i].output
    BY <1>4
  <2>1. entries'[i].net \in D
    BY <1>4, <1>7 DEF Keys
  <2>2. MapOf(entries)[entries[f[i]].net] = entries[f[i]].output
    BY <1>2, <1>6, MapOfAt
  <2> QED
    BY <2>1, <2>2, <1>6
<1>10. MapOf(entries') = g
  <2> HIDE DEF g, D
  <2> QED
    BY <1>5, <1>7, <1>8, <1>9, MapOfIs
<1> QED
  BY <1>1, <1>7, <1>10, AsMapIsMapOf
     DEF Map!RemoveByOutput, AsMap, Routed, MapOf, Keys

\* The array with its default is a map from networks to outputs, for every
\* capacity: an addition binds its network or, when the table is full, changes
\* nothing, a removal unbinds the networks of its output (routing_table.c).
THEOREM ImplementsMapHolds == Spec => ImplementsMap
<1>1. Init => Map!Init
  <2> SUFFICES ASSUME Init PROVE Map!Init
    OBVIOUS
  <2>1. 1 .. Len(entries) = {}
    BY SMT DEF Init
  <2> QED
    BY <2>1 DEF Init, Map!Init, AsMap, Routed
<1>2. TableInv /\ TableInv' /\ [Next]_vars => [Map!Next]_<<AsMap, default_gateway>>
  <2> SUFFICES ASSUME TableInv, TableInv', [Next]_vars
               PROVE  [Map!Next]_<<AsMap, default_gateway>>
    OBVIOUS
  <2>1. ASSUME NEW net \in Networks \cup {DefaultRoute}, NEW o \in Outputs,
               Add(net, o)
        PROVE  Map!Next
    <3>1. CASE SetDefault(net, o)
      BY <3>1 DEF SetDefault, Map!Next, Map!SetDefault, AsMap, Routed
    <3>2. CASE net # DefaultRoute /\ Update(net, o)
      BY <3>2, UpdateIsAdd DEF Map!Next
    <3>3. CASE net # DefaultRoute /\ Insert(net, o)
      BY <3>3, InsertIsAdd DEF Map!Next
    <3> QED
      BY <2>1, <3>1, <3>2, <3>3 DEF Add
  <2>2. ASSUME NEW o \in Outputs, RemoveByOutput(o) PROVE Map!Next
    BY <2>2, RemoveIsRemove DEF Map!Next
  <2>3. CASE UNCHANGED vars
    BY <2>3 DEF vars, AsMap, Routed
  <2> QED
    BY <2>1, <2>2, <2>3 DEF Next
<1> QED
  BY <1>1, <1>2, TableInvariant, PTL DEF Spec, ImplementsMap, Map!Spec

----------------------------------------------------------------------------
(* The path of a packet.                                                  *)

\* Where board b sends a packet once every copy of the table is equal.
Exits(b, dst) == ToWifi(b, dst, Route(dst))

\* Board b is one of the last k boards before `at` in the ring.
Behind(b, at, k) ==
  \/ b < at /\ at - b <= k
  \/ b >= at /\ at + N - b <= k

PathTypes ==
  /\ WifiTypeOK
  /\ settled \in BOOLEAN
  /\ packet # NoPacket => packet \in Packet
  /\ hops \in 0 .. N

\* The boards that a packet on the ring has passed: the one it came in by, and
\* the last `hops` ones.
PassedBy(b) ==
  \/ packet.calm /\ packet.from = b
  \/ hops > 0 /\ Behind(b, packet.at, hops)

\* None of them takes it.
OnTheRing ==
  (packet # NoPacket /\ packet.out = "ring") =>
    /\ packet.calm \/ hops > 0 => settled
    /\ \A b \in Outputs, dst \in Packets :
         (dst = packet.dst /\ PassedBy(b)) => ~Exits(b, dst)

\* A packet that left was taken by its board, and not brought by it.
OffTheRing ==
  (packet # NoPacket /\ packet.out # "ring") =>
    /\ hops = 0
    /\ packet.calm =>
         /\ packet.at # packet.from
         /\ \A b \in Outputs, dst \in Packets :
              (dst = packet.dst /\ b = packet.at) => settled /\ Exits(b, dst)

PathInv == TableInv /\ PathTypes /\ OnTheRing /\ OffTheRing

----------------------------------------------------------------------------
LEMMA NextBoardIs ==
  ASSUME NEW b \in Outputs
  PROVE  /\ NextBoard(b) \in Outputs
         /\ NextBoard(b) = IF b = N THEN 1 ELSE b + 1
<1>1. N \in Nat /\ b \in 1 .. N
  BY OutputsAssumption
<1>2. CASE b = N
  <2>1. b % N = 0
    BY <1>1, <1>2, SMT
  <2> QED
    BY <1>1, <1>2, <2>1, OutputsAssumption, SMT DEF NextBoard
<1>3. CASE b < N
  <2>1. b % N = b
    BY <1>1, <1>3, SMT
  <2> QED
    BY <1>1, <1>3, <2>1, OutputsAssumption, SMT DEF NextBoard
<1> QED
  BY <1>1, <1>2, <1>3, SMT

\* One board further, the boards behind are those that were, and that board.
LEMMA BehindNext ==
  ASSUME NEW b \in Outputs, NEW at \in Outputs, NEW k \in 0 .. N,
         Behind(b, NextBoard(at), IF k < N THEN k + 1 ELSE N)
  PROVE  b = at \/ (k > 0 /\ Behind(b, at, k))
<1>1. N \in Nat /\ b \in 1 .. N /\ at \in 1 .. N
  BY OutputsAssumption
<1>2. NextBoard(at) = IF at = N THEN 1 ELSE at + 1
  BY NextBoardIs
<1>3. CASE k < N
  <2>1. Behind(b, IF at = N THEN 1 ELSE at + 1, k + 1)
    BY <1>2, <1>3
  <2> QED
    BY <1>1, <2>1, SMT DEF Behind
<1>4. CASE k = N
  BY <1>1, <1>4, SMT DEF Behind
<1> QED
  BY <1>1, <1>3, <1>4, SMT

LEMMA AllBehind ==
  ASSUME NEW b \in Outputs, NEW at \in Outputs
  PROVE  Behind(b, at, N)
<1>1. N \in Nat /\ b \in 1 .. N /\ at \in 1 .. N
  BY OutputsAssumption
<1> QED
  BY <1>1, SMT DEF Behind

\* While table, role, hooks and links stay, so does what every board does.
LEMMA ExitsUnchanged ==
  ASSUME UNCHANGED <<vars, root, hooked, wifi>>, NEW b, NEW dst
  PROVE  Exits(b, dst)' = Exits(b, dst)
<1>1. Route(dst)' = Route(dst)
  BY DEF vars, Route, Hits
<1>2. UNCHANGED <<mode, subnet, mask, hooked, root>>
  BY DEF wifi
<1>3. linked' = linked
  BY <1>2 DEF linked
<1>4. PointToPoint(b, dst)' = PointToPoint(b, dst)
  BY <1>2, <1>3 DEF PointToPoint
<1>5. ForThisNetwork(dst)' = ForThisNetwork(dst)
  BY <1>2 DEF ForThisNetwork
<1> HIDE DEF linked, PointToPoint, ForThisNetwork
<1> QED
  BY <1>1, <1>2, <1>3, <1>4, <1>5 DEF Exits, ToWifi, ByForwarder, ByRootCenter, ByHome

LEMMA TableUnchanged == ASSUME TableInv, UNCHANGED vars PROVE TableInv'
  BY DEF vars, TableInv, TypeOK, Sorted

\* What rt_do_route answers when it is not disturbed.
LEMMA SettledLookup ==
  ASSUME settled, NEW dst, NEW o \in Lookups(dst)
  PROVE  o = Route(dst)
  BY DEF Lookups

\* The networks that a link can get are addresses.
LEMMA LinkAddrsTypes ==
  ASSUME NEW b \in Outputs, NEW addr \in LinkAddrs[b]
  PROVE  addr \in Nat
<1>1. addr \in 1 .. 2 ^ W - 1
  BY OutputsAssumption
<1> QED
  BY <1>1, SMT

\* While hooks and Wi-Fi stay, so do their types.
LEMMA WifiUnchanged ==
  ASSUME WifiTypeOK, UNCHANGED <<hooked, wifi>>
  PROVE  WifiTypeOK'
<1>1. UNCHANGED <<mode, subnet, mask, hooked>>
  BY DEF wifi
<1>2. linked' = linked
  BY <1>1 DEF linked
<1> HIDE DEF linked
<1> QED
  BY <1>1, <1>2 DEF WifiTypeOK

----------------------------------------------------------------------------
LEMMA InitInv == PathInit => PathInv
<1> SUFFICES ASSUME PathInit PROVE PathInv
  OBVIOUS
<1>1. TableInv
  BY InitTable DEF PathInit
<1>2. N \in Nat
  BY OutputsAssumption
<1>3. /\ mode = [b \in Outputs |-> "NAN"] /\ hooked = {}
      /\ subnet = [b \in Outputs |-> 0] /\ mask = [b \in Outputs |-> 0]
  BY DEF PathInit
<1>4. WifiTypeOK
  <2>1. linked = {}
    BY <1>3 DEF linked
  <2> QED
    BY <1>3, <2>1, SMT DEF WifiTypeOK, Modes
<1>5. PathTypes
  BY <1>2, <1>4, SMT DEF PathInit, PathTypes
<1> QED
  BY <1>1, <1>5 DEF PathInit, PathInv, OnTheRing, OffTheRing

\* The two packets that a handler can make of one.
LEMMA NewOnRing ==
  ASSUME NEW dst \in Packets, NEW b \in Outputs, NEW from \in Outputs \cup {NoBoard},
         NEW calm \in BOOLEAN
  PROVE  LET p == OnRing(dst, b, from, calm)
         IN  /\ p \in Packet /\ p.out = "ring" /\ p.dst = dst
             /\ p.at = NextBoard(b) /\ p.from = from /\ p.calm = calm
<1>1. NextBoard(b) \in Outputs
  BY NextBoardIs
<1> QED
  BY <1>1 DEF OnRing, Packet

LEMMA NewOutOf ==
  ASSUME NEW dst \in Packets, NEW b \in Outputs, NEW from \in Outputs \cup {NoBoard},
         NEW calm \in BOOLEAN
  PROVE  LET p == OutOf(dst, b, from, calm)
         IN  /\ p \in Packet /\ p.out # "ring" /\ p.dst = dst
             /\ p.at = b /\ p.from = from /\ p.calm = calm
  BY DEF OutOf, Packet

\* A packet that is put on the ring, one that leaves, one that is disturbed.
LEMMA PutOnRing ==
  ASSUME PathInv, UNCHANGED <<vars, root, hooked, wifi, settled>>,
         NEW dst \in Packets, NEW at \in Outputs,
         NEW from \in Outputs \cup {NoBoard}, NEW calm \in BOOLEAN,
         packet' = OnRing(dst, at, from, calm),
         hops' \in 0 .. N,
         calm \/ hops' > 0 => settled,
         \A b \in Outputs :
           \/ calm /\ from = b
           \/ hops' > 0 /\ Behind(b, NextBoard(at), hops')
           => ~Exits(b, dst)
  PROVE  PathInv'
<1>1. /\ packet' \in Packet /\ packet'.out = "ring" /\ packet'.dst = dst
      /\ packet'.at = NextBoard(at) /\ packet'.from = from
      /\ packet'.calm = calm
  BY NewOnRing
<1>2. \A b : Exits(b, dst)' = Exits(b, dst)
  BY ExitsUnchanged
<1>3. PathTypes'
  BY <1>1, WifiUnchanged DEF PathInv, PathTypes
<1>4. \A b \in Outputs : PassedBy(b)' =>
        \/ calm /\ from = b
        \/ hops' > 0 /\ Behind(b, NextBoard(at), hops')
  BY <1>1 DEF PassedBy, Behind
<1>5. OnTheRing'
  BY <1>1, <1>2, <1>4 DEF OnTheRing
<1>6. OffTheRing'
  BY <1>1 DEF OffTheRing
<1> QED
  BY <1>3, <1>5, <1>6, TableUnchanged DEF PathInv

LEMMA PutOut ==
  ASSUME PathInv, UNCHANGED <<vars, root, hooked, wifi, settled>>,
         NEW dst \in Packets, NEW at \in Outputs,
         NEW from \in Outputs \cup {NoBoard}, NEW calm \in BOOLEAN,
         packet' = OutOf(dst, at, from, calm),
         hops' = 0,
         calm => settled /\ Exits(at, dst) /\ at # from
  PROVE  PathInv'
<1>1. /\ packet' \in Packet /\ packet'.out # "ring" /\ packet'.dst = dst
      /\ packet'.at = at /\ packet'.from = from /\ packet'.calm = calm
  BY NewOutOf
<1>2. \A b : Exits(b, dst)' = Exits(b, dst)
  BY ExitsUnchanged
<1>3. 0 \in 0 .. N /\ WifiTypeOK'
  BY OutputsAssumption, WifiUnchanged, SMT DEF PathInv, PathTypes
<1>6. PathTypes'
  BY <1>1, <1>3 DEF PathInv, PathTypes
<1>4. OnTheRing'
  BY <1>1 DEF OnTheRing
<1>5. OffTheRing'
  BY <1>1, <1>2 DEF OffTheRing
<1> QED
  BY <1>6, <1>4, <1>5, TableUnchanged DEF PathInv

LEMMA DisturbInv ==
  ASSUME PathInv, TableInv', Disturb,
         WifiTypeOK', settled' \in BOOLEAN
  PROVE  PathInv'
<1>1. 0 \in 0 .. N
  BY OutputsAssumption, SMT
<1>2. CASE packet = NoPacket
  BY <1>1, <1>2 DEF Disturb, PathInv, PathTypes, OnTheRing, OffTheRing
<1>3. CASE packet # NoPacket
  <2>1. /\ packet \in Packet /\ packet.out = "ring"
        /\ packet' = [packet EXCEPT !.calm = FALSE, !.from = NoBoard]
        /\ hops' = 0
    BY <1>3 DEF Disturb, PathInv, PathTypes
  <2>2. packet' \in Packet /\ packet'.out = "ring" /\ ~packet'.calm
    BY <2>1 DEF Packet
  <2>3. PathTypes'
    BY <1>1, <2>1, <2>2 DEF PathTypes
  <2>4. \A b \in Outputs : ~PassedBy(b)' /\ ~(hops' > 0)
    BY <2>1, <2>2, SMT DEF PassedBy
  <2>5. OnTheRing' /\ OffTheRing'
    BY <2>1, <2>2, <2>4 DEF OnTheRing, OffTheRing
  <2> QED
    BY <2>3, <2>5 DEF PathInv
<1> QED
  BY <1>2, <1>3

----------------------------------------------------------------------------
(* One lemma per operation.                                                *)

LEMMA OriginateInv ==
  ASSUME PathInv, NEW b \in Outputs, NEW dst \in Packets, Originate(b, dst)
  PROVE  PathInv'
<1>1. PICK o \in Lookups(dst) :
        packet' = IF ToWifi(b, dst, o) THEN OutOf(dst, b, NoBoard, settled)
                                       ELSE OnRing(dst, b, NoBoard, settled)
  BY DEF Originate
<1>2. hops' = 0 /\ UNCHANGED <<vars, root, hooked, wifi, settled>>
  BY DEF Originate
<1>3. settled \in BOOLEAN
  BY DEF PathInv, PathTypes
<1>4. NoBoard \notin Outputs /\ hops' \in 0 .. N /\ ~(hops' > 0)
  BY <1>2, OutputsAssumption, SMT DEF NoBoard
<1>5. CASE ToWifi(b, dst, o)
  <2>1. settled => Exits(b, dst)
    BY <1>5, SettledLookup DEF Exits
  <2> QED
    BY <1>1, <1>2, <1>3, <1>4, <1>5, <2>1, PutOut
<1>6. CASE ~ToWifi(b, dst, o)
  BY <1>1, <1>2, <1>3, <1>4, <1>6, PutOnRing
<1> QED
  BY <1>5, <1>6

LEMMA EnterInv ==
  ASSUME PathInv, NEW b \in Outputs, NEW dst \in Packets, EnterByWifi(b, dst)
  PROVE  PathInv'
<1> DEFINE from == IF settled THEN b ELSE NoBoard
<1>1. PICK o \in Lookups(dst) : ~ToWifi(b, dst, o)
  BY DEF EnterByWifi
<1>2. /\ packet' = OnRing(dst, b, from, settled)
      /\ hops' = 0 /\ UNCHANGED <<vars, root, hooked, wifi, settled>>
  BY DEF EnterByWifi
<1>3. settled \in BOOLEAN /\ from \in Outputs \cup {NoBoard}
  BY DEF PathInv, PathTypes
<1>4. hops' \in 0 .. N /\ ~(hops' > 0)
  BY <1>2, OutputsAssumption, SMT
<1>5. \A c \in Outputs : settled /\ from = c => ~Exits(c, dst)
  BY <1>1, SettledLookup DEF Exits
<1> HIDE DEF from
<1> QED
  BY <1>2, <1>3, <1>4, <1>5, PutOnRing

LEMMA ReceiveInv ==
  ASSUME PathInv, ReceiveFromRing
  PROVE  PathInv'
<1> DEFINE b == packet.at
           dst == packet.dst
<1>1. /\ packet # NoPacket /\ packet.out = "ring"
      /\ UNCHANGED <<vars, root, hooked, wifi, settled>>
  BY DEF ReceiveFromRing
<1>2. PICK o \in Lookups(dst) :
        \/ /\ ToWifi(b, dst, o)
           /\ packet' = OutOf(dst, b, packet.from, packet.calm)
           /\ hops' = 0
        \/ /\ ~ToWifi(b, dst, o)
           /\ packet' = OnRing(dst, b, packet.from, packet.calm)
           /\ hops' = IF ~settled THEN 0 ELSE IF hops < N THEN hops + 1 ELSE N
  BY DEF ReceiveFromRing
<1>3. /\ b \in Outputs /\ dst \in Packets /\ packet.calm \in BOOLEAN
      /\ packet.from \in Outputs \cup {NoBoard} /\ hops \in 0 .. N
  BY <1>1 DEF PathInv, PathTypes, Packet
<1>4. /\ packet.calm \/ hops > 0 => settled
      /\ \A c \in Outputs : PassedBy(c) => ~Exits(c, dst)
  BY <1>1, <1>3 DEF PathInv, OnTheRing
<1>5. settled => (ToWifi(b, dst, o) <=> Exits(b, dst))
  BY SettledLookup DEF Exits
<1>6. CASE ToWifi(b, dst, o)
  <2>1. packet' = OutOf(dst, b, packet.from, packet.calm) /\ hops' = 0
    BY <1>2, <1>6
  <2>2. packet.calm => settled /\ Exits(b, dst) /\ b # packet.from
    BY <1>3, <1>4, <1>5, <1>6 DEF PassedBy
  <2> HIDE DEF b, dst
  <2> QED
    BY <1>1, <1>3, <2>1, <2>2, PutOut
<1>7. CASE ~ToWifi(b, dst, o)
  <2>1. packet' = OnRing(dst, b, packet.from, packet.calm)
    BY <1>2, <1>7
  <2>2. hops' = IF ~settled THEN 0 ELSE IF hops < N THEN hops + 1 ELSE N
    BY <1>2, <1>7
  <2>3. hops' \in 0 .. N /\ (hops' > 0 => settled)
    BY <1>3, <2>2, OutputsAssumption, SMT
  <2>4. ASSUME NEW c \in Outputs, hops' > 0, Behind(c, NextBoard(b), hops')
        PROVE  ~Exits(c, dst)
    <3>1. settled /\ Behind(c, NextBoard(b), IF hops < N THEN hops + 1 ELSE N)
      BY <2>2, <2>3, <2>4
    <3>2. c = b \/ (hops > 0 /\ Behind(c, b, hops))
      BY <3>1, <1>3, BehindNext
    <3> QED
      BY <3>1, <3>2, <1>4, <1>5, <1>7 DEF PassedBy
  <2>5. ASSUME NEW c \in Outputs, packet.calm, packet.from = c
        PROVE  ~Exits(c, dst)
    BY <1>4, <2>5 DEF PassedBy
  <2> HIDE DEF b, dst
  <2> QED
    BY <1>1, <1>3, <1>4, <2>1, <2>3, <2>4, <2>5, PutOnRing
<1> QED
  BY <1>6, <1>7

LEMMA SettleInv ==
  ASSUME PathInv, Settle
  PROVE  PathInv'
<1>1. /\ settled' = TRUE /\ hops' = 0
      /\ UNCHANGED <<vars, root, hooked, wifi, packet>>
  BY DEF Settle
<1>2. \A b, dst : Exits(b, dst)' = Exits(b, dst)
  BY <1>1, ExitsUnchanged
<1>3. PathTypes'
  <2>1. WifiTypeOK' /\ 0 \in 0 .. N
    BY <1>1, WifiUnchanged, OutputsAssumption, SMT DEF PathInv, PathTypes
  <2> QED
    BY <1>1, <2>1 DEF PathInv, PathTypes
<1>4. \A b : PassedBy(b)' => PassedBy(b)
  BY <1>1, SMT DEF PassedBy
<1>5. OnTheRing'
  BY <1>1, <1>2, <1>4 DEF PathInv, OnTheRing
<1>6. OffTheRing'
  BY <1>1, <1>2 DEF PathInv, OffTheRing
<1> QED
  BY <1>1, <1>3, <1>5, <1>6, TableUnchanged DEF PathInv

\* A step of a board's Wi-Fi, and what it leaves well typed.
WifiStep(b) ==
  \/ \E m \in {"STATION", "AP"} : InitDevice(b, m)
  \/ ResetDevice(b)
  \/ \E addr \in LinkAddrs[b] : GotAddress(b, addr) \/ SetNetwork(b, addr)
  \/ SetMask(b)

LEMMA WifiStepTypes ==
  ASSUME WifiTypeOK, NEW b \in Outputs, WifiStep(b)
  PROVE  WifiTypeOK'
<1>1. hooked' = hooked
  BY DEF WifiStep, InitDevice, ResetDevice, GotAddress, SetMask, SetNetwork
<1>2. ASSUME NEW m \in {"STATION", "AP"}, InitDevice(b, m)
      PROVE  WifiTypeOK'
  <2>1. b \in hooked /\ mode' = [mode EXCEPT ![b] = m]
    BY <1>2 DEF InitDevice
  <2>2. linked' \subseteq linked \cup {b}
    BY <2>1 DEF linked, WifiTypeOK
  <2> QED
    BY <1>1, <1>2, <2>1, <2>2, SMT DEF InitDevice, WifiTypeOK, Modes
<1>3. CASE ResetDevice(b)
  <2>1. mode' = [mode EXCEPT ![b] = "RESET"]
    BY <1>3 DEF ResetDevice
  <2>2. linked' \subseteq linked
    BY <2>1 DEF linked, WifiTypeOK
  <2> QED
    BY <1>1, <1>3, <2>1, <2>2 DEF ResetDevice, WifiTypeOK, Modes
<1>4. ASSUME NEW addr \in LinkAddrs[b], GotAddress(b, addr) \/ SetNetwork(b, addr)
      PROVE  WifiTypeOK'
  <2>1. UNCHANGED <<mode, mask>> /\ subnet' = [subnet EXCEPT ![b] = addr]
    BY <1>4 DEF GotAddress, SetNetwork
  <2>2. linked' = linked
    BY <2>1 DEF linked
  <2>3. addr \in Nat
    BY LinkAddrsTypes
  <2> QED
    BY <1>1, <2>1, <2>2, <2>3 DEF WifiTypeOK
<1>5. CASE SetMask(b)
  <2>1. UNCHANGED <<mode, subnet>> /\ mask' = [mask EXCEPT ![b] = LinkLen]
    BY <1>5 DEF SetMask
  <2>2. linked' = linked
    BY <2>1 DEF linked
  <2> QED
    BY <1>1, <2>1, <2>2 DEF WifiTypeOK
<1> QED
  BY <1>2, <1>3, <1>4, <1>5 DEF WifiStep

LEMMA PathStep == PathInv /\ [PathNext]_<<vars, pathvars>> => PathInv'
<1> SUFFICES ASSUME PathInv, [PathNext]_<<vars, pathvars>> PROVE PathInv'
  OBVIOUS
<1> USE DEF PathInv, PathTypes
<1>1. ASSUME NEW b \in Outputs, NEW dst \in Packets,
             Originate(b, dst) \/ EnterByWifi(b, dst)
      PROVE  PathInv'
  BY <1>1, OriginateInv, EnterInv
<1>2. CASE ReceiveFromRing
  BY <1>2, ReceiveInv
<1>3. CASE Gone
  <2>1. 0 \in 0 .. N
    BY OutputsAssumption, SMT
  <2> QED
    BY <1>3, <2>1, TableUnchanged, WifiUnchanged DEF Gone, OnTheRing, OffTheRing
<1>4. ASSUME NEW b \in Outputs, SetHook(b)
      PROVE  PathInv'
  <2>1. /\ Disturb /\ UNCHANGED <<vars, wifi, settled>>
        /\ hooked' = hooked \cup {b}
    BY <1>4 DEF SetHook
  <2>2. linked' = linked
    BY <2>1 DEF linked, wifi
  <2>3. WifiTypeOK'
    BY <2>1, <2>2 DEF WifiTypeOK, wifi
  <2> QED
    BY <2>1, <2>3, TableUnchanged, DisturbInv
<1>8. ASSUME NEW b \in Outputs, WifiStep(b)
      PROVE  PathInv'
  <2>1. Disturb /\ UNCHANGED <<vars, settled>>
    BY <1>8 DEF WifiStep, InitDevice, ResetDevice, GotAddress, SetMask, SetNetwork
  <2> QED
    BY <1>8, <2>1, WifiStepTypes, TableUnchanged, DisturbInv
<1>5. CASE ChangeTable
  BY <1>5, TableStep, WifiUnchanged, DisturbInv DEF ChangeTable
<1>6. CASE Settle
  BY <1>6, SettleInv
<1>7. CASE UNCHANGED <<vars, pathvars>>
  <2>1. UNCHANGED <<vars, root, hooked, wifi, settled, packet, hops>>
    BY <1>7 DEF pathvars
  <2>2. \A b, dst : Exits(b, dst)' = Exits(b, dst)
    BY <2>1, ExitsUnchanged
  <2>3. \A b : PassedBy(b)' = PassedBy(b)
    BY <2>1 DEF PassedBy
  <2> QED
    BY <2>1, <2>2, <2>3, TableUnchanged, WifiUnchanged DEF OnTheRing, OffTheRing
<1> QED
  BY <1>1, <1>2, <1>3, <1>4, <1>5, <1>6, <1>7, <1>8 DEF PathNext, WifiStep

\* Every packet on the ring has passed only boards that do not take it.
THEOREM PathInvariant == PathSpec => []PathInv
  BY InitInv, PathStep, PTL DEF PathSpec

\* Boards with a link have their hook, and a packet its type.
THEOREM PathTypeCorrect == PathSpec => []PathTypeOK
<1>1. PathInv => PathTypeOK
  BY DEF PathInv, PathTypes, TableInv, PathTypeOK
<1> QED
  BY <1>1, PathInvariant, PTL

----------------------------------------------------------------------------
LEMMA LookupIsRoute == ASSUME PathInv, NEW dst PROVE Map!Lookup(dst) = Route(dst)
  BY FirstMatchIsLongest DEF PathInv

\* With no bit of the mask, only the network 0 matches, and everything does.
LEMMA LinkTakes ==
  ASSUME PathInv, NEW b \in linked, b \in Outputs, NEW dst \in Packets
  PROVE  PointToPoint(b, dst) <=> OfLink(b, dst) \/ NoAddress(b)
<1>1. mask[b] \in {0, LinkLen} /\ subnet[b] \in Nat /\ LinkLen # 0
  BY OutputsAssumption, SMT DEF PathInv, PathTypes, WifiTypeOK
<1>2. CASE mask[b] = LinkLen
  BY <1>1, <1>2 DEF PointToPoint, OfLink, NoAddress
<1>3. CASE mask[b] = 0
  <2>1. dst % HostBits(0) = dst
    <3>1. W - 0 = W
      BY WAssumption, SMT
    <3>2. dst \in 0 .. HostBits(0) - 1
      BY <3>1, OutputsAssumption DEF HostBits
    <3>3. dst \in Int /\ 0 <= dst /\ dst <= HostBits(0) - 1
      BY <3>2
    <3>4. HostBits(0) \in Nat
      BY <3>1, OutputsAssumption DEF HostBits
    <3> HIDE DEF HostBits
    <3> QED
      BY <3>3, <3>4, SMT
  <2>2. Matches(dst, [addr |-> subnet[b], len |-> 0]) <=> subnet[b] = 0
    <3>1. dst \in Nat
      BY OutputsAssumption, SMT
    <3> QED
      BY <1>1, <2>1, <3>1, SMT DEF Matches
  <2> QED
    BY <1>1, <1>3, <2>2 DEF PointToPoint, OfLink, NoAddress
<1> QED
  BY <1>1, <1>2, <1>3
\* Only packets for addresses that nobody has, or that the center refuses,
\* go round the ring (routing_hooks.c, rt_do_route).
THEOREM GoesRoundHolds == PathSpec => []GoesRound
<1>1. PathInv => GoesRound
  <2> SUFFICES ASSUME PathInv, packet # NoPacket, hops = N
               PROVE  /\ Map!Lookup(packet.dst) \notin linked \ {Center}
                      /\ Center \in linked => ~CenterTakes(packet.dst)
                      /\ \A b \in linked \ {Center} :
                           ~NoAddress(b) /\ ~OfLink(b, packet.dst)
    BY DEF GoesRound
  <2>1. /\ packet.at \in Outputs /\ packet.dst \in Packets
        /\ linked \subseteq Outputs /\ linked \subseteq hooked
    BY DEF PathInv, PathTypes, Packet, WifiTypeOK
  <2>2. hops > 0
    BY <2>1, OutputsAssumption, SMT
  <2>3. packet.out = "ring"
    BY <2>2, SMT DEF PathInv, OffTheRing
  <2>4. \A b \in Outputs : ~Exits(b, packet.dst)
    BY <2>1, <2>2, <2>3, AllBehind DEF PathInv, OnTheRing, PassedBy
  <2>5. ASSUME NEW b \in linked \ {Center}
        PROVE  b # Map!Lookup(packet.dst) /\ ~PointToPoint(b, packet.dst)
    BY <2>1, <2>4, <2>5, LookupIsRoute DEF Exits, ToWifi, ByForwarder
  <2>6. Center \in linked => ~CenterTakes(packet.dst)
    BY <2>1, <2>4 DEF Exits, ToWifi, ByRootCenter, ByHome, CenterTakes
  <2>7. ASSUME NEW b \in linked \ {Center}
        PROVE  ~NoAddress(b) /\ ~OfLink(b, packet.dst)
    BY <2>1, <2>5, <2>7, LinkTakes
  <2> QED
    BY <2>5, <2>6, <2>7
<1> QED
  BY <1>1, PathInvariant, PTL

\* Undisturbed packets leave where the table and the networks say or by a
\* link that has no address yet, and not where they came in.
THEOREM LeavesWhereItShouldHolds == PathSpec => []LeavesWhereItShould
<1>1. PathInv => LeavesWhereItShould
  <2> SUFFICES ASSUME PathInv, packet # NoPacket, packet.out = "wifi", packet.calm,
                      NEW b, b = packet.at, NEW dst, dst = packet.dst
               PROVE  /\ b # packet.from
                      /\ b \in linked
                      /\ \/ b = Center /\ CenterTakes(dst)
                         \/ b # Center /\ b = Map!Lookup(dst)
                         \/ b # Center /\ (OfLink(b, dst) \/ NoAddress(b))
    BY DEF LeavesWhereItShould
  <2>1. b \in Outputs /\ dst \in Packets
    BY DEF PathInv, PathTypes, Packet
  <2>2. b # packet.from /\ Exits(b, dst)
    BY <2>1 DEF PathInv, OffTheRing
  <2>3. b \in linked /\ (PointToPoint(b, dst) => OfLink(b, dst) \/ NoAddress(b))
    BY <2>1, <2>2, LinkTakes DEF Exits, ToWifi
  <2> QED
    BY <2>2, <2>3, LookupIsRoute
       DEF Exits, ToWifi, ByForwarder, ByRootCenter, ByHome, CenterTakes
<1> QED
  BY <1>1, PathInvariant, PTL
=============================================================================
