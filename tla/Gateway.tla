------------------------------ MODULE Gateway ------------------------------
(***************************************************************************)
(* How one node joins the network and finds a gateway: the roles of        *)
(* components/routing/routing/src (forwarder/, root.c, home.c), which the  *)
(* event loop of module EventQueues dispatches to.                         *)
(*                                                                         *)
(* A board handles its queued events during its turn in the critical       *)
(* section, the siblings' before the peer's, and no other board has a turn *)
(* meanwhile (module TokenRing).  A broadcast queues its event on the      *)
(* other boards, which may miss it or get it several times (module         *)
(* RingBroadcast), and no handler looks at its result.  A change of the    *)
(* routing table is taken to be on every board before the next turn        *)
(* (module SharedTable), so that the node has one table here.  Peers are   *)
(* the environment: they follow the order of messages this code follows    *)
(* when it is the peer.                                                    *)
(*                                                                         *)
(* PEER_UPDATE_DTR and SIBL_UPDATE_DTR are left out: each one is only sent *)
(* in answer to the other, so that no first one is ever sent.              *)
(***************************************************************************)
EXTENDS Naturals, Sequences, FiniteSets, SequencesExt

CONSTANTS
  Forwarders,      \* orientations of the boards with a radio link to a peer
  Networks,        \* networks that peers provide or connect
  RootChoices,     \* is_center_root: whether this is the root node
  MaxHag,          \* networks a gateway request has room for (16)
  TimeoutTicks,    \* GATEWAY_REQUEST_TIMEOUT in ticks of rt_on_tick (10)
  MAX_RETRIES,     \* tries of a broadcast: the copies a board may get (5)
  MaxDtr,          \* bound: distances that peers announce
  MaxPeerEvents,   \* bound: events from peers
  MaxFaults        \* bound: boards that miss a broadcast or get it repeatedly

Center == 5                       \* ORIENTATION_CENTER
Board == Forwarders \cup {Center}
Zero == "0.0.0.0/0"               \* NETWORK(0, 0)
RootNetwork == "10.0.0.0/8"       \* ROOT_NETWORK, ROOT_MASK
HomeNetwork == "home"             \* get_node_subnet(node network, Center)
Known == Networks \cup {RootNetwork, HomeNetwork}
None == 0

ASSUME ForwardersAssumption == Forwarders \cap {Center, None} = {}
ASSUME NetworksAssumption ==
  Networks \cap {Zero, RootNetwork, HomeNetwork} = {}
ASSUME LimitsAssumption == /\ RootChoices \subseteq BOOLEAN
                           /\ MaxHag \in Nat \ {0}
                           /\ TimeoutTicks \in Nat \ {0}
                           /\ MAX_RETRIES \in Nat
                           /\ MaxDtr \in Nat /\ MaxPeerEvents \in Nat
                           /\ MaxFaults \in Nat

VARIABLES
  is_root,                          \* the center runs root.c, else home.c
  global_state, local_state, node_network, is_local_root, dtr, \* forwarders
  gateway_requested, gateway_requested_timeout,                \* root.c
  is_provisioned,                                              \* home.c
  default_gateway, routes,          \* the node's routing table
  internal, external,               \* queued events of each board
  turn, phase,                      \* board in the section, queue it is at
  link,      \* the radio link: "down", "up", "greeted" or "closing"
  asked,     \* history: peers that asked for a gateway and had no answer yet
  zero_route, \* history: NETWORK(0, 0) was routed through a board that does
             \* not wait for an answer, because a peer's message named it
  missed,    \* history: the kinds of event that some board missed
  faults,    \* history: boards that did not get exactly one copy of an event
  events     \* history: number of peer events

forwarder == <<global_state, local_state, node_network, is_local_root, dtr>>
center    == <<gateway_requested, gateway_requested_timeout, is_provisioned>>
table     == <<default_gateway, routes>>
queues    == <<internal, external>>
section   == <<turn, phase>>
peers     == <<link, events>>
history   == <<asked, zero_route>>
delivery  == <<missed, faults>>
vars == <<is_root, forwarder, center, table, queues, section, peers, history,
          delivery>>

Init ==
  /\ is_root \in RootChoices
  /\ global_state = [f \in Forwarders |-> "WITHOUT_NETWORK"]
  /\ local_state = [f \in Forwarders |-> "NOT_CONNECTED"]
  /\ node_network = [f \in Forwarders |-> Zero]
  /\ is_local_root = [f \in Forwarders |-> FALSE]
  /\ dtr = [f \in Forwarders |-> 0]
  /\ gateway_requested = FALSE
  /\ gateway_requested_timeout = 0
  /\ is_provisioned = FALSE
  /\ default_gateway = Center
  /\ routes = [n \in Known |-> None]
  /\ internal = [b \in Board |-> <<[id |-> "ON_START"]>>]
  /\ external = [b \in Board |-> <<>>]
  /\ turn = None
  /\ phase = "internal"
  /\ link = [f \in Forwarders |-> "down"]
  /\ asked = {}
  /\ zero_route = FALSE
  /\ missed = {}
  /\ faults = 0
  /\ events = 0

----------------------------------------------------------------------------
(* The turn in the critical section and what handlers do.                  *)

Enter(b) ==
  /\ turn = None
  /\ internal[b] # <<>> \/ external[b] # <<>>
  /\ turn' = b
  /\ phase' = "internal"
  /\ UNCHANGED <<is_root, forwarder, center, table, queues, peers, history,
                 delivery>>

\* The next event of the internal queue is an id event; the peer's events come
\* when there are no more of them.
Sibling(b, id) ==
  /\ turn = b /\ phase = "internal"
  /\ internal[b] # <<>> /\ Head(internal[b]).id = id

\* Mutant: the peer's events do not wait for the siblings'.
Peer_Before(f, id) ==
  /\ turn = f
  /\ external[f] # <<>> /\ Head(external[f]).id = id
Peer(f, id) ==
  /\ turn = f /\ phase = "external"
  /\ external[f] # <<>> /\ Head(external[f]).id = id

ToExternal ==
  /\ turn # None /\ phase = "internal" /\ internal[turn] = <<>>
  /\ phase' = "external"
  /\ UNCHANGED <<is_root, forwarder, center, table, queues, turn, peers,
                 history, delivery>>

Leave ==
  /\ turn # None /\ phase = "external" /\ external[turn] = <<>>
  /\ turn' = None
  /\ UNCHANGED <<is_root, forwarder, center, table, queues, phase, peers,
                 history, delivery>>

\* A handler that broadcasts nothing ends.
HandledSibling(b) ==
  /\ internal' = [internal EXCEPT ![b] = Tail(@)]
  /\ UNCHANGED <<external, delivery>>

HandledPeer(f) ==
  /\ external' = [external EXCEPT ![f] = Tail(@)]
  /\ UNCHANGED <<internal, delivery>>

(* b broadcasts e, and rest is left in its own queue.  The tries of a      *)
(* broadcast that is not acknowledged go round the ring one after the      *)
(* other, ahead of anything sent later (RingBroadcast: InOrder), and each  *)
(* is lost behind any board or none: every other board gets any number of  *)
(* copies.  The handlers go on in the same way whatever the result.        *)
Copies(e, n) == [i \in 1 .. n |-> e]

Broadcasts(b, e, rest) ==
  \E copies \in [Board \ {b} -> 0 .. MAX_RETRIES] :
    /\ internal' = [c \in Board |-> IF c = b THEN rest
                                    ELSE internal[c] \o Copies(e, copies[c])]
    /\ missed' = missed
         \cup {k \in {e.id} : \E c \in Board \ {b} : copies[c] = 0}
    /\ faults' = faults + Cardinality({c \in Board \ {b} : copies[c] # 1})
    /\ faults' <= MaxFaults

\* The handler of a peer's event of f broadcasts e.
HandledPeerWith(f, e) ==
  /\ external' = [external EXCEPT ![f] = Tail(@)]
  /\ Broadcasts(f, e, internal[f])

\* add_global_route of each network of S
AddGlobalRoutes(S, o) ==
  /\ default_gateway' = IF Zero \in S THEN o ELSE default_gateway
  /\ routes' = [n \in Known |-> IF n \in S THEN o ELSE routes[n]]

\* remove_routes_by_output: the default gateway stays
RemoveRoutesByOutput(o) ==
  /\ routes' = [n \in Known |-> IF routes[n] = o THEN None ELSE routes[n]]
  /\ UNCHANGED default_gateway

\* The fields of a forwarder's state that most handlers set.
Set(f, g, root, d) ==
  /\ global_state' = [global_state EXCEPT ![f] = g]
  /\ is_local_root' = [is_local_root EXCEPT ![f] = root]
  /\ dtr' = [dtr EXCEPT ![f] = d]

Provision(n, d) == [id |-> "PROVISION", network |-> n, dtr |-> d]
Request(hag) == [id |-> "SEND_NEW_GATEWAY_REQUEST", hag |-> hag]
Winner(d) == [id |-> "NEW_GATEWAY_WINNER", dtr |-> d]

----------------------------------------------------------------------------
(* The center: root.c or home.c.                                           *)

\* root.c: the center is the default gateway of its node, and provisions it.
\* When the broadcast fails, os_panic only logs it.
RootStart ==
  /\ is_root /\ Sibling(Center, "ON_START")
  /\ AddGlobalRoutes({Zero}, Center)
  /\ Broadcasts(Center, Provision(RootNetwork, 1), Tail(internal[Center]))
  /\ UNCHANGED <<is_root, forwarder, center, external, section, peers,
                 history>>

\* root.c: starts the timer.  rt_on_tick runs in another task and may see the
\* flag before the new timeout.
RootRequested ==
  /\ is_root /\ Sibling(Center, "SEND_NEW_GATEWAY_REQUEST")
  /\ gateway_requested' = TRUE
  /\ phase' = "timeout"
  /\ UNCHANGED <<is_root, forwarder, gateway_requested_timeout,
                 is_provisioned, table, queues, turn, peers, history,
                 delivery>>

RootTimeout ==
  /\ phase = "timeout"
  /\ gateway_requested_timeout' = TimeoutTicks
  /\ phase' = "internal"
  /\ HandledSibling(Center)
  /\ UNCHANGED <<is_root, forwarder, gateway_requested, is_provisioned, table,
                 turn, peers, history>>

\* root.c on_tick, in the routing task: count down, and answer at the end.  An
\* answer that reaches a board in its turn waits for the next one in the code;
\* here it may be handled in the same turn, as if the tick came before it.
Tick ==
  /\ is_root /\ gateway_requested
  /\ IF gateway_requested_timeout <= 1
     THEN /\ gateway_requested' = FALSE
          /\ gateway_requested_timeout' = 0
          /\ Broadcasts(Center, Winner(1), internal[Center])
     ELSE /\ gateway_requested_timeout' = gateway_requested_timeout - 1
          /\ UNCHANGED <<gateway_requested, internal, delivery>>
  /\ UNCHANGED <<is_root, forwarder, is_provisioned, table, external, section,
                 peers, history>>

\* home.c: the first provision gives the home its subnet.
HomeProvisioned ==
  /\ ~is_root /\ Sibling(Center, "PROVISION")
  /\ IF is_provisioned
     THEN UNCHANGED <<table, is_provisioned>>
     ELSE /\ AddGlobalRoutes({HomeNetwork}, Center)
          /\ is_provisioned' = TRUE
  /\ HandledSibling(Center)
  /\ UNCHANGED <<is_root, forwarder, gateway_requested,
                 gateway_requested_timeout, section, peers, history>>

\* The role of the board has no handler for the event, or one that changes
\* nothing (home.c on_start only refreshes the table).
NoHandler(b) ==
  /\ \/ b = Center /\ ~is_root
          /\ \E id \in {"ON_START", "SEND_NEW_GATEWAY_REQUEST",
                        "NEW_GATEWAY_WINNER"} : Sibling(b, id)
     \/ b \in Forwarders /\ Sibling(b, "ON_START")
  /\ HandledSibling(b)
  /\ UNCHANGED <<is_root, forwarder, center, table, section, peers, history>>

----------------------------------------------------------------------------
(* forwarder/sibling.c                                                     *)

\* A board that has a network skips a new provision.
SkipProvision(f) ==
  /\ Sibling(f, "PROVISION")
  /\ global_state[f] = "WITH_NETWORK"
  /\ HandledSibling(f)
  /\ UNCHANGED <<is_root, forwarder, center, table, section, peers, history>>

\* on_provision ends with wl_enable_ap_mode, which resets the radio.
OnProvision(f) ==
  /\ Sibling(f, "PROVISION")
  /\ global_state[f] # "WITH_NETWORK"
  /\ LET e == Head(internal[f]) IN
       /\ Set(f, "WITH_NETWORK", FALSE, e.dtr)
       /\ node_network' = [node_network EXCEPT ![f] = e.network]
  /\ link' = [link EXCEPT ![f] = IF @ = "down" THEN @ ELSE "closing"]
  /\ HandledSibling(f)
  /\ UNCHANGED <<is_root, local_state, center, table, section, events,
                 history>>

\* The conditions under which the request goes on to the peer.
Forwards(f, hag) ==
  /\ dtr[f] # 1
  /\ global_state[f] # "ON_GW_REQUEST"
  /\ local_state[f] = "CONNECTED"
  /\ Len(hag) < MaxHag

\* on_send_new_gateway_request: asks the peer, once.
OnSendNewGatewayRequest(f) ==
  /\ Sibling(f, "SEND_NEW_GATEWAY_REQUEST")
  /\ IF Forwards(f, Head(internal[f]).hag)
     THEN Set(f, "ON_GW_REQUEST", is_local_root[f], 0)
     ELSE UNCHANGED <<global_state, is_local_root, dtr>>
  /\ HandledSibling(f)
  /\ UNCHANGED <<is_root, local_state, node_network, center, table, section,
                 peers, history>>

\* Mutant: the board does not step down.
OnNewGatewayWinner_Stays(f) ==
  /\ Sibling(f, "NEW_GATEWAY_WINNER")
  /\ IF dtr[f] = 1
     THEN UNCHANGED <<global_state, is_local_root, dtr>>
     ELSE Set(f, "WITH_NETWORK", is_local_root[f], Head(internal[f]).dtr + 1)
  /\ asked' = asked \ {f}
  /\ HandledSibling(f)
  /\ UNCHANGED <<is_root, local_state, node_network, center, table, section,
                 peers, zero_route>>

\* on_new_gateway_winner: answers the peer; the root's boards change nothing.
OnNewGatewayWinner(f) ==
  /\ Sibling(f, "NEW_GATEWAY_WINNER")
  /\ IF dtr[f] = 1
     THEN UNCHANGED <<global_state, is_local_root, dtr>>
     ELSE Set(f, "WITH_NETWORK", FALSE, Head(internal[f]).dtr + 1)
  /\ asked' = asked \ {f}
  /\ HandledSibling(f)
  /\ UNCHANGED <<is_root, local_state, node_network, center, table, section,
                 peers, zero_route>>

----------------------------------------------------------------------------
(* forwarder/peer.c                                                        *)

\* on_peer_connected: sends the handshake.
OnPeerConnected(f) ==
  /\ Peer(f, "CONNECTED")
  /\ local_state' = [local_state EXCEPT ![f] = "CONNECTED"]
  /\ HandledPeer(f)
  /\ UNCHANGED <<is_root, global_state, node_network, is_local_root, dtr,
                 center, table, section, peers, history>>

\* on_handshake without a network: the peer provisions this node.
OnHandshakeProvision(f) ==
  /\ Peer(f, "HANDSHAKE")
  /\ global_state[f] = "WITHOUT_NETWORK"
  /\ LET e == Head(external[f]) IN
       /\ Set(f, "WITH_NETWORK", TRUE, e.dtr)
       /\ node_network' = [node_network EXCEPT ![f] = e.provided]
       /\ HandledPeerWith(f, Provision(e.provided, e.dtr + 1))
  /\ AddGlobalRoutes({Zero}, f)
  /\ UNCHANGED <<is_root, local_state, center, section, peers, history>>

\* on_handshake with one: the peer's network is a redundant route.
OnHandshakeRedundant(f) ==
  /\ Peer(f, "HANDSHAKE")
  /\ global_state[f] # "WITHOUT_NETWORK"
  /\ AddGlobalRoutes({Head(external[f]).external}, f)
  /\ zero_route' = (zero_route \/ Head(external[f]).external = Zero)
  /\ HandledPeer(f)
  /\ UNCHANGED <<is_root, forwarder, center, section, peers, asked>>

\* The networks the loop of on_new_gateway_request adds: it tests the first
\* entry instead of the i-th, and so adds the empty ones as well.
Added(hag) ==
  ToSet(hag) \cup (IF Len(hag) \in 1 .. MaxHag - 1 THEN {Zero} ELSE {})

\* Mutant: a request that reaches the root node stops there.
PassesOn_NotRoot(f) == dtr[f] # 1 /\ global_state[f] # "ON_GW_REQUEST"
PassesOn(f) == dtr[f] = 1 \/ global_state[f] # "ON_GW_REQUEST"

StartsWaiting(f) == dtr[f] # 1 /\ global_state[f] # "ON_GW_REQUEST"

\* on_new_gateway_request: the networks become reachable through this board,
\* and the siblings are asked to pass the request on.  The root's boards
\* (those at distance 1) keep their state, the others wait for an answer.
OnNewGatewayRequest(f) ==
  /\ Peer(f, "NEW_GATEWAY_REQUEST")
  /\ LET hag == Head(external[f]).hag IN
       /\ AddGlobalRoutes(Added(hag), f)
       /\ IF PassesOn(f) THEN HandledPeerWith(f, Request(hag))
                         ELSE HandledPeer(f)
       /\ zero_route' = (zero_route \/ (dtr[f] = 1 /\ Zero \in Added(hag)))
  /\ IF StartsWaiting(f)
     THEN Set(f, "ON_GW_REQUEST", is_local_root[f], 0)
     ELSE UNCHANGED <<global_state, is_local_root, dtr>>
  /\ asked' = asked \cup {f}
  /\ UNCHANGED <<is_root, local_state, node_network, center, section, peers>>

Improves(f, d) == dtr[f] = 0 \/ dtr[f] > d

\* Mutant: the default gateway stays where it was.
OnNewGatewayResponse_NoRoute(f) ==
  /\ Peer(f, "NEW_GATEWAY_RESPONSE")
  /\ LET d == Head(external[f]).dtr IN
       IF Improves(f, d)
       THEN /\ Set(f, "WITH_NETWORK", TRUE, d + 1)
            /\ UNCHANGED table
            /\ HandledPeerWith(f, Winner(d + 1))
       ELSE /\ HandledPeer(f)
            /\ UNCHANGED <<global_state, is_local_root, dtr, table>>
  /\ asked' = asked \ {f}
  /\ UNCHANGED <<is_root, local_state, node_network, center, section, peers,
                 zero_route>>

\* on_new_gateway_response: the peer leads to the root.
OnNewGatewayResponse(f) ==
  /\ Peer(f, "NEW_GATEWAY_RESPONSE")
  /\ LET d == Head(external[f]).dtr IN
       IF Improves(f, d)
       THEN /\ Set(f, "WITH_NETWORK", TRUE, d + 1)
            /\ AddGlobalRoutes({Zero}, f)
            /\ HandledPeerWith(f, Winner(d + 1))
       ELSE /\ HandledPeer(f)
            /\ UNCHANGED <<global_state, is_local_root, dtr, table>>
  /\ asked' = asked \ {f}
  /\ UNCHANGED <<is_root, local_state, node_network, center, section, peers,
                 zero_route>>

\* on_peer_lost: the routes go, and the local root asks for a new gateway.
OnPeerLost(f) ==
  /\ Peer(f, "LOST")
  /\ local_state' = [local_state EXCEPT ![f] = "NOT_CONNECTED"]
  /\ RemoveRoutesByOutput(f)
  /\ IF is_local_root[f]
     THEN /\ Set(f, "ON_GW_REQUEST", FALSE, 0)
          /\ HandledPeerWith(f, Request(<<>>))
     ELSE /\ HandledPeer(f)
          /\ UNCHANGED <<global_state, is_local_root, dtr>>
  /\ asked' = asked \ {f}
  /\ UNCHANGED <<is_root, node_network, center, section, peers, zero_route>>

----------------------------------------------------------------------------
(* The peers.  A link comes up with a board that has a network to provide, *)
(* or, in a node that is not the root's, with one that looks for a network *)
(* (main.c: node_set_as_sta).  A peer's first message is its handshake,    *)
(* which a client queues before the event that it is connected (client.c); *)
(* the two may then be handled in either order.  An answer goes to whoever *)
(* is connected, so it may come before the handshake.                      *)

Connected == [id |-> "CONNECTED"]
Handshake(n, d) == [id |-> "HANDSHAKE", external |-> n, provided |-> n, dtr |-> d]

\* A peer that provides a network has one; a client may have none yet.
Handshakes(f) ==
  LET served == global_state[f] = "WITHOUT_NETWORK" \/ is_local_root[f] IN
  {Handshake(n, d) : n \in Networks \cup (IF served THEN {} ELSE {Zero}),
                     d \in 0 .. MaxDtr}

PeerEvent(f, seq, l) ==
  /\ events < MaxPeerEvents
  /\ events' = events + 1
  /\ external' = [external EXCEPT ![f] = @ \o seq]
  /\ link' = [link EXCEPT ![f] = l]
  /\ UNCHANGED <<is_root, forwarder, center, table, internal, section, history,
                 delivery>>

PeerConnects(f) ==
  /\ link[f] = "down"
  /\ is_root => node_network[f] # Zero
  /\ \/ PeerEvent(f, <<Connected>>, "up")
     \/ ~is_root /\ \E h \in Handshakes(f) :
                      PeerEvent(f, <<h, Connected>>, "greeted")

PeerGreets(f) ==
  /\ link[f] = "up"
  /\ \E h \in Handshakes(f) : PeerEvent(f, <<h>>, "greeted")

PeerRequests(f) ==
  /\ link[f] = "greeted"
  /\ \E n \in Networks, l \in 1 .. MaxHag :
       PeerEvent(f, <<[id |-> "NEW_GATEWAY_REQUEST",
                       hag |-> [i \in 1 .. l |-> n]]>>, "greeted")

PeerResponds(f) ==
  /\ link[f] \in {"up", "greeted"}
  /\ \E d \in 1 .. MaxDtr :
       PeerEvent(f, <<[id |-> "NEW_GATEWAY_RESPONSE", dtr |-> d]>>, link[f])

PeerIsLost(f) ==
  /\ link[f] # "down"
  /\ PeerEvent(f, <<[id |-> "LOST"]>>, "down")

\* The link of a station is lost and comes back while the peer-event task of
\* callbacks.c is held up (by the retries of a request, say): the message of
\* the new connection overtakes the LOST of the old one.
PeerReturns(f) ==
  /\ link[f] \in {"up", "greeted"}
  /\ ~is_root
  /\ \E h \in Handshakes(f) :
       PeerEvent(f, <<h, [id |-> "LOST"], Connected>>, "greeted")

----------------------------------------------------------------------------
Handler ==
  \/ RootStart \/ RootRequested \/ RootTimeout \/ HomeProvisioned
  \/ \E b \in Board : NoHandler(b)
  \/ \E f \in Forwarders :
       \/ SkipProvision(f) \/ OnProvision(f)
       \/ OnSendNewGatewayRequest(f) \/ OnNewGatewayWinner(f)
       \/ OnPeerConnected(f)
       \/ OnHandshakeProvision(f) \/ OnHandshakeRedundant(f)
       \/ OnNewGatewayRequest(f) \/ OnNewGatewayResponse(f)
       \/ OnPeerLost(f)

Environment ==
  \E f \in Forwarders :
    \/ PeerConnects(f) \/ PeerGreets(f) \/ PeerRequests(f)
    \/ PeerResponds(f) \/ PeerIsLost(f) \/ PeerReturns(f)

Next ==
  \/ Environment
  \/ (\E b \in Board : Enter(b)) \/ ToExternal \/ Leave
  \/ Handler \/ Tick

Spec == Init /\ [][Next]_vars

----------------------------------------------------------------------------
TypeOK ==
  /\ is_root \in BOOLEAN
  /\ global_state \in
       [Forwarders -> {"WITHOUT_NETWORK", "WITH_NETWORK", "ON_GW_REQUEST"}]
  /\ local_state \in [Forwarders -> {"NOT_CONNECTED", "CONNECTED"}]
  /\ node_network \in [Forwarders -> Networks \cup {Zero, RootNetwork}]
  /\ is_local_root \in [Forwarders -> BOOLEAN]
  /\ dtr \in [Forwarders -> 0 .. MaxDtr + 2]
  /\ gateway_requested \in BOOLEAN
  /\ gateway_requested_timeout \in 0 .. TimeoutTicks
  /\ is_provisioned \in BOOLEAN
  /\ default_gateway \in Board
  /\ routes \in [Known -> Board \cup {None}]
  /\ turn \in Board \cup {None}
  /\ phase \in {"internal", "external", "timeout"}
  /\ link \in [Forwarders -> {"down", "up", "greeted", "closing"}]
  /\ asked \subseteq Forwarders
  /\ zero_route \in BOOLEAN

\* Nothing is left to handle in the node.
Quiet ==
  /\ turn = None /\ ~gateway_requested
  /\ \A b \in Board : internal[b] = <<>> /\ external[b] = <<>>

LocalRoots == {f \in Forwarders : is_local_root[f]}

(* The boards of a node share one network address.  When no board missed a *)
(* PROVISION, two boards never hold different ones (on_handshake,          *)
(* on_provision): PROVISION events are handled before the handshakes that  *)
(* could choose another network.  When no board missed a winner either, a  *)
(* network that any board got has reached all of them once the node is     *)
(* quiet.  A peer that answers before its handshake leaves the node with   *)
(* none at all: its boards are WITH_NETWORK then, and take no network.     *)
OneNetwork ==
  "PROVISION" \notin missed =>
    /\ \A f, g \in Forwarders :
         node_network[f] # Zero /\ node_network[g] # Zero
           => node_network[f] = node_network[g]
    /\ /\ Quiet /\ "NEW_GATEWAY_WINNER" \notin missed
       /\ \E f \in Forwarders : node_network[f] # Zero
       => \A f \in Forwarders : node_network[f] # Zero

RolesTold == missed \cap {"PROVISION", "NEW_GATEWAY_WINNER"} = {}

(* However answers of several peers interleave, at most one board of the   *)
(* node thinks that the path to the root goes through its peer             *)
(* (on_new_gateway_response against on_new_gateway_winner).  The exception *)
(* is the board that was provisioned by a board of the root node: it is at *)
(* distance 1 itself, which stands for the root's own boards, and does not *)
(* step down for a winner.                                                 *)
OneLocalRoot ==
  Quiet /\ RolesTold =>
    \A f, g \in LocalRoots : f # g => (dtr[f] = 1) # (dtr[g] = 1)

(* The routing table agrees with the boards' state: when no board waits    *)
(* for an answer, a local root is the default gateway of the node, and no  *)
(* other board takes itself for one but the board at distance 1.  The      *)
(* board that got a request becomes default gateway by mistake (Added), but *)
(* only until the request is answered, unless it does not wait.            *)
LocalRootIsGateway ==
  /\ Quiet /\ RolesTold /\ ~zero_route
  /\ \A f \in Forwarders : global_state[f] # "ON_GW_REQUEST"
  => /\ LocalRoots # {} => default_gateway \in LocalRoots
     /\ \A f \in LocalRoots : dtr[f] = 1 \/ default_gateway = f

(* Whatever its peers send and its boards miss, a board of the root node   *)
(* never takes a peer for its gateway and never waits for one (the tests   *)
(* of dtr == 1, which every board that has a network passes).              *)
RootStays ==
  is_root => \A f \in Forwarders :
    /\ ~is_local_root[f] /\ global_state[f] # "ON_GW_REQUEST"
    /\ node_network[f] # Zero => dtr[f] = 1

(* A request for a gateway is not forgotten.  In the root node, where no   *)
(* board waits, all of them are answered once it is quiet, if no board     *)
(* missed the request or the answer (on_tick).  In another node the board  *)
(* whose peer asked still waits for an answer, or is at distance 1 and     *)
(* waits for a winner without a state of its own (on_new_gateway_request,  *)
(* on_new_gateway_winner), if no PROVISION was missed, nor a winner that   *)
(* told a board about the network: the provision that comes later would    *)
(* end the wait.                                                           *)
RequestsKept ==
  Quiet =>
    IF is_root
    THEN missed \cap {"SEND_NEW_GATEWAY_REQUEST", "NEW_GATEWAY_WINNER"} = {}
           => asked = {}
    ELSE RolesTold =>
           \A f \in asked : global_state[f] = "ON_GW_REQUEST" \/ dtr[f] = 1

(* Refuted: "Center device is the default gateway for this node" (root.c). *)
(* The handshake of a client that has no network yet, or a request with    *)
(* room for more networks (Added), makes the board that got it the default *)
(* gateway, and nothing gives the route back to the center.                *)
CenterIsGateway ==
  is_root /\ (\E f \in Forwarders : global_state[f] = "WITH_NETWORK")
    => default_gateway = Center
=============================================================================
