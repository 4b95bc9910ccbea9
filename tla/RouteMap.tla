----------------------------- MODULE RouteMap -----------------------------
(***************************************************************************)
(* What routing_table.h promises: a bounded map from networks to outputs   *)
(* with a default gateway, looked up by longest prefix match.              *)
(***************************************************************************)
EXTENDS Integers, FiniteSets

CONSTANTS
  W,                    \* width of an address in bits (32)
  Networks,             \* the networks added: [addr |-> .., len |-> ..]
  Outputs,              \* orientation_t
  MAX_ROUTING_ENTRIES   \* capacity of the table (16)

VARIABLES routes, default_gateway

\* (ip & mask) == network, for the mask of len leading ones
HostBits(len) == 2 ^ (W - len)
Matches(ip, net) == ip - (ip % HostBits(net.len)) = net.addr

Matching(ip) == {net \in DOMAIN routes : Matches(ip, net)}

\* The output of the longest network that contains ip.
Lookup(ip) ==
  IF Matching(ip) = {} THEN default_gateway
  ELSE routes[CHOOSE net \in Matching(ip) :
                \A other \in Matching(ip) : other.len <= net.len]

Init ==
  /\ routes = [net \in {} |-> 0]
  /\ default_gateway \in Outputs

SetDefault(o) ==
  /\ default_gateway' = o
  /\ UNCHANGED routes

Add(net, o) ==
  /\ net \in DOMAIN routes \/ Cardinality(DOMAIN routes) < MAX_ROUTING_ENTRIES
  /\ routes' = [n \in DOMAIN routes \cup {net} |->
                  IF n = net THEN o ELSE routes[n]]
  /\ UNCHANGED default_gateway

RemoveByOutput(o) ==
  /\ routes' = [n \in {m \in DOMAIN routes : routes[m] # o} |-> routes[n]]
  /\ UNCHANGED default_gateway

Next ==
  \E o \in Outputs :
    \/ SetDefault(o)
    \/ \E net \in Networks : Add(net, o)
    \/ RemoveByOutput(o)

Spec == Init /\ [][Next]_<<routes, default_gateway>>
=============================================================================
