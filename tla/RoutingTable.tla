---------------------------- MODULE RoutingTable ----------------------------
(***************************************************************************)
(* components/routing/routing/src/routing_table.c: an array of entries     *)
(* kept sorted by decreasing mask, so that the first entry that matches an *)
(* address is the longest one.  A mask is represented by its length: the   *)
(* masks the nodes use are contiguous, and compare as their lengths do.    *)
(***************************************************************************)
EXTENDS Integers, Sequences

CONSTANTS W, Networks, Outputs, MAX_ROUTING_ENTRIES

ASSUME WAssumption == W \in Nat
ASSUME NetworksAssumption ==
  Networks \subseteq [addr : 0 .. 2 ^ W - 1, len : 0 .. W]
ASSUME CapacityAssumption == MAX_ROUTING_ENTRIES \in Nat

VARIABLES
  entries,          \* entries[0 .. count - 1] of rt_routing_table_t
  default_gateway

vars == <<entries, default_gateway>>

Entry == [net : Networks, output : Outputs]
DefaultRoute == [addr |-> 0, len |-> 0]

\* routing_table_init
Init ==
  /\ entries = <<>>
  /\ default_gateway \in Outputs

----------------------------------------------------------------------------
HostBits(len) == 2 ^ (W - len)
Matches(ip, net) == ip - (ip % HostBits(net.len)) = net.addr

\* Mutant: new entries go to the end.
StopsAt_Append(net, i) == entries[i].net = net

\* The loop of routing_table_add stops at the first entry that is the same
\* network or has a shorter mask; position is count when there is none.
StopsAt(net, i) == entries[i].net = net \/ entries[i].net.len < net.len
IsPosition(net, p) ==
  /\ p \in 1 .. Len(entries) + 1
  /\ p <= Len(entries) => StopsAt(net, p)
  /\ \A i \in 1 .. p - 1 : ~StopsAt(net, i)

SetDefault(net, o) ==
  /\ net = DefaultRoute
  /\ default_gateway' = o
  /\ UNCHANGED entries

\* Same entry: update the output.
Update(net, o) ==
  \E p \in 1 .. Len(entries) :
    /\ IsPosition(net, p)
    /\ entries[p].net = net
    /\ entries' = [entries EXCEPT ![p].output = o]
    /\ UNCHANGED default_gateway

\* Move the entries from the position on to the right and insert.
InsertAt(p, e) ==
  [i \in 1 .. Len(entries) + 1 |->
     IF i < p THEN entries[i] ELSE IF i = p THEN e ELSE entries[i - 1]]

Insert(net, o) ==
  \E p \in 1 .. Len(entries) + 1 :
    /\ IsPosition(net, p)
    /\ p <= Len(entries) => entries[p].net # net
    /\ Len(entries) < MAX_ROUTING_ENTRIES
    /\ entries' = InsertAt(p, [net |-> net, output |-> o])
    /\ UNCHANGED default_gateway

\* routing_table_add.  A full table is left as it is (os_panic only logs).
Add(net, o) ==
  \/ SetDefault(net, o)
  \/ net # DefaultRoute /\ (Update(net, o) \/ Insert(net, o))

\* Mutant: the loop starts at the second entry.
Kept_FromSecond(o) == {i \in 1 .. Len(entries) : i = 1 \/ entries[i].output # o}

\* routing_table_remove_by_output: the other entries, in their order.
Kept(o) == {i \in 1 .. Len(entries) : entries[i].output # o}
Enumerates(f, n, S) ==
  /\ f \in [1 .. n -> S]
  /\ \A i, j \in 1 .. n : i < j => f[i] < f[j]
  /\ \A x \in S : \E i \in 1 .. n : f[i] = x
RemoveByOutput(o) ==
  \E n \in 0 .. Len(entries) : \E f \in [1 .. n -> Kept(o)] :
    /\ Enumerates(f, n, Kept(o))
    /\ entries' = [i \in 1 .. n |-> entries[f[i]]]
    /\ UNCHANGED default_gateway

\* routing_table_route: the first entry that matches.
Hits(ip) == {i \in 1 .. Len(entries) : Matches(ip, entries[i].net)}
Route(ip) ==
  IF Hits(ip) = {} THEN default_gateway
  ELSE entries[CHOOSE i \in Hits(ip) : \A j \in Hits(ip) : i <= j].output

Next ==
  \E o \in Outputs :
    \/ \E net \in Networks \cup {DefaultRoute} : Add(net, o)
    \/ RemoveByOutput(o)

Spec == Init /\ [][Next]_vars

----------------------------------------------------------------------------
TypeOK ==
  /\ entries \in Seq(Entry)
  /\ Len(entries) <= MAX_ROUTING_ENTRIES
  /\ default_gateway \in Outputs

\* The order the lookup relies on, and one entry per network.
Sorted ==
  \A i, j \in 1 .. Len(entries) :
    i < j => /\ entries[i].net.len >= entries[j].net.len
             /\ entries[i].net # entries[j].net

(* The abstract map, and the lookup routing_table.h:69-74 documents.       *)
Routed == {entries[i].net : i \in 1 .. Len(entries)}
AsMap ==
  [net \in Routed |->
     entries[CHOOSE i \in 1 .. Len(entries) : entries[i].net = net].output]
Map == INSTANCE RouteMap WITH routes <- AsMap

\* The first match is the longest prefix match, for every address.
LongestPrefixMatch == \A ip \in 0 .. 2 ^ W - 1 : Route(ip) = Map!Lookup(ip)

\* Adding and removing entries changes only the routes they name.
ImplementsMap == Map!Spec
=============================================================================
