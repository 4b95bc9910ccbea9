----------------------------- MODULE PacketPath -----------------------------
(***************************************************************************)
(* One IP packet in one node, while the routing table that the boards      *)
(* share changes: lwIP asks the routing hook of the board for the outgoing *)
(* interface (components/integration/routing_hooks, app/main/main.c), and  *)
(* the answer is the board's Wi-Fi link or the ring interface              *)
(* (components/internal/ring_link_netif), whose packets the next board of  *)
(* the ring receives and forwards in turn.                                 *)
(*                                                                         *)
(* The table is RoutingTable's, with one entry per board as output, and is *)
(* the last one refreshed.  Until it has `settled` some boards have not yet *)
(* copied it, or are copying it: rt_do_route passes its lock by value, so   *)
(* that the lookup is not excluded from the copying, and may return any     *)
(* output.                                                                  *)
(***************************************************************************)
EXTENDS RoutingTable, FiniteSets

CONSTANTS
  LinkLen,      \* length of the networks of the links (30)
  LinkAddrs,    \* those that the link of each board can get, as addresses
  RootNet,      \* ROOT_NETWORK, of a root node's center
  HouseNet,     \* the network of a home node's access point
  Packets,      \* the destinations considered
  MaxUnlinked,  \* bound: boards without Wi-Fi interface while the table changes
  NoPacket

\* Boards are named as outputs: node_get_device_orientation() +
\* ROUTING_ORIENTATION_OFFSET; the center is the last one.
N == CHOOSE n \in Outputs : \A o \in Outputs : o <= n
Center == N
NextBoard(b) == (b % N) + 1
NoBoard == 0

ASSUME OutputsAssumption ==
  /\ N \in Nat /\ Outputs = 1 .. N
  /\ MaxUnlinked \in Nat
  /\ 2 ^ W \in Nat /\ LinkLen \in 1 .. W
  /\ LinkAddrs \in [Outputs -> SUBSET (1 .. 2 ^ W - 1)]
  /\ Packets \subseteq 0 .. 2 ^ W - 1

VARIABLES
  root,         \* node_is_device_center_root(), the same on every board
  hooked,       \* boards that have called node_set_routing_hook
  mode,         \* of the board's Wi-Fi: see Modes
  subnet, mask, \* of its point-to-point link, the mask as a length
  settled,      \* every board has copied the table
  packet,       \* NoPacket, or a packet on the ring or past its exit
  hops          \* boards that passed it on since anything last changed

wifi == <<mode, subnet, mask>>
pathvars == <<root, hooked, wifi, settled, packet, hops>>

\* NAN until the first device_init, and again after device_reset ("RESET").
Modes == {"NAN", "STATION", "RESET", "AP"}

\* Boards with a Wi-Fi interface, device_get_netif.
linked == {b \in Outputs : mode[b] \in {"AP", "STATION"}}

\* A packet arrives at board `at` by the ring, or left by its Wi-Fi link.
\* It came in by the link of `from`; `calm` says that nothing has changed
\* since then.
Packet ==
  [dst : Packets, at : Outputs, out : {"ring", "wifi"},
   from : Outputs \cup {NoBoard}, calm : BOOLEAN]

PathInit ==
  /\ Init
  /\ default_gateway = Center        \* routing_table_init in rt_create
  /\ root \in BOOLEAN
  /\ hooked = {} /\ settled = TRUE
  /\ mode = [b \in Outputs |-> "NAN"]
  /\ subnet = [b \in Outputs |-> 0] /\ mask = [b \in Outputs |-> 0]
  /\ packet = NoPacket
  /\ hops = 0

----------------------------------------------------------------------------
(* The routing hooks.                                                      *)

\* Of the station or the access point; a link without address, 0/0, matches
\* every destination.
PointToPoint(b, dst) ==
  b \in linked /\ Matches(dst, [addr |-> subnet[b], len |-> mask[b]])
ForThisNetwork(dst) == Matches(dst, IF root THEN RootNet ELSE HouseNet)

\* What rt_do_route may find in the table: see above.
Lookups(dst) == IF settled THEN {Route(dst)} ELSE Outputs

\* Mutant: the orientation without ROUTING_ORIENTATION_OFFSET.
ByForwarder_NoOffset(b, dst, o) ==
  b # Center /\ (PointToPoint(b, dst) \/ o = b - 1)

\* routing_hook_forwarder, with rt_do_route's ROUTE_WIFI.
ByForwarder(b, dst, o) == b # Center /\ (PointToPoint(b, dst) \/ o = b)

\* routing_hook_root_center.
ByRootCenter(b, dst) ==
  b = Center /\ root /\ (PointToPoint(b, dst) \/ ~ForThisNetwork(dst))

\* Mutant: the branches of root and home are swapped.
ByHome_Swapped(b, dst) == b = Center /\ ~root /\ ~ForThisNetwork(dst)

\* routing_hook_home.
ByHome(b, dst) == b = Center /\ ~root /\ ForThisNetwork(dst)

\* Everything else goes to the ring: routing_hook_default, the other
\* branches, and a Wi-Fi interface that does not exist, for which lwIP falls
\* back to its default interface, ring_link_tx.
ToWifi(b, dst, o) ==
  /\ b \in hooked \cap linked
  /\ ByForwarder(b, dst, o) \/ ByRootCenter(b, dst) \/ ByHome(b, dst)

----------------------------------------------------------------------------
(* The packet.  lwIP forwards between any two interfaces that differ, and  *)
(* the ring's receiving and sending interfaces do.                         *)
OnRing(dst, b, from, calm) ==
  [dst |-> dst, at |-> NextBoard(b), out |-> "ring",
   from |-> from, calm |-> calm]
OutOf(dst, b, from, calm) ==
  [dst |-> dst, at |-> b, out |-> "wifi", from |-> from, calm |-> calm]

\* A packet of board b itself, or one received by the Wi-Fi link of b; the
\* latter is dropped when it would leave by the interface it came in by.
Originate(b, dst) ==
  /\ packet = NoPacket
  /\ \E o \in Lookups(dst) :
       packet' = IF ToWifi(b, dst, o) THEN OutOf(dst, b, NoBoard, settled)
                                      ELSE OnRing(dst, b, NoBoard, settled)
  /\ hops' = 0
  /\ UNCHANGED <<vars, root, hooked, wifi, settled>>

EnterByWifi(b, dst) ==
  /\ packet = NoPacket
  /\ b \in linked
  /\ \E o \in Lookups(dst) : ~ToWifi(b, dst, o)
  /\ packet' = OnRing(dst, b, IF settled THEN b ELSE NoBoard, settled)
  /\ hops' = 0
  /\ UNCHANGED <<vars, root, hooked, wifi, settled>>

\* ring_link_rx_netif_receive and the hook of the next board.  The payload is
\* for CONFIG_ID_ANY, so every board takes it off the ring.
ReceiveFromRing ==
  /\ packet # NoPacket /\ packet.out = "ring"
  /\ LET b == packet.at
         dst == packet.dst
     IN  \E o \in Lookups(dst) :
           \/ /\ ToWifi(b, dst, o)
              /\ packet' = OutOf(dst, b, packet.from, packet.calm)
              /\ hops' = 0
           \/ /\ ~ToWifi(b, dst, o)
              /\ packet' = OnRing(dst, b, packet.from, packet.calm)
              /\ hops' = IF ~settled THEN 0 ELSE IF hops < N THEN hops + 1 ELSE N
  /\ UNCHANGED <<vars, root, hooked, wifi, settled>>

\* Discarded by ring_link_rx_netif_receive or esp_netif_ring_link_driver_transmit
\* (length, version, no memory, the bus is busy), its IP time to live over,
\* for the board itself, or gone over the Wi-Fi link.
Gone ==
  /\ packet # NoPacket
  /\ packet' = NoPacket /\ hops' = 0
  /\ UNCHANGED <<vars, root, hooked, wifi, settled>>

----------------------------------------------------------------------------
(* What changes under it.  A packet that has left is first forgotten.      *)
Disturb ==
  /\ packet # NoPacket => packet.out = "ring"
  /\ packet' = IF packet = NoPacket THEN NoPacket
               ELSE [packet EXCEPT !.calm = FALSE, !.from = NoBoard]
  /\ hops' = 0

Unlinked == Cardinality(Outputs \ linked)

\* node_set_routing_hook, before the board has a Wi-Fi interface or asks for
\* the table.
SetHook(b) ==
  /\ b \notin hooked
  /\ hooked' = hooked \cup {b}
  /\ Disturb
  /\ UNCHANGED <<vars, root, wifi, settled>>

\* device_init: the structure of the station or access point is zeroed, and
\* its interface created.  node_set_as_sta is called once, by app_main, on the
\* boards of a node that is not the root.
InitDevice(b, m) ==
  /\ b \in hooked \ linked
  /\ m = "STATION" => b # Center /\ ~root /\ mode[b] = "NAN"
  /\ mode' = [mode EXCEPT ![b] = m]
  /\ subnet' = [subnet EXCEPT ![b] = 0] /\ mask' = [mask EXCEPT ![b] = 0]
  /\ Disturb
  /\ UNCHANGED <<vars, root, hooked, settled>>

\* device_reset in node_set_as_ap, when a sibling or the root provisions.
ResetDevice(b) ==
  /\ b \in linked
  /\ Unlinked < MaxUnlinked
  /\ mode' = [mode EXCEPT ![b] = "RESET"]
  /\ Disturb
  /\ UNCHANGED <<vars, root, hooked, subnet, mask, settled>>

\* The first IP_EVENT_STA_GOT_IP of a connection: sta_subnet and sta_mask
\* become those of the peer's network, one after the other, and stay when the
\* connection ends.
GotAddress(b, addr) ==
  /\ mode[b] = "STATION"
  /\ addr \in LinkAddrs[b] \ {subnet[b]}
  /\ subnet' = [subnet EXCEPT ![b] = addr]
  /\ Disturb
  /\ UNCHANGED <<vars, root, hooked, mode, mask, settled>>

\* sta_mask after sta_subnet, and ap_mask before ap_subnet in ap_set_network.
SetMask(b) ==
  /\ mask[b] = 0
  /\ \/ mode[b] = "STATION" /\ subnet[b] # 0
     \/ mode[b] = "AP"
  /\ mask' = [mask EXCEPT ![b] = LinkLen]
  /\ Disturb
  /\ UNCHANGED <<vars, root, hooked, mode, subnet, settled>>

\* ap_set_network, once for every device_init.
SetNetwork(b, addr) ==
  /\ mode[b] = "AP" /\ mask[b] # 0 /\ subnet[b] = 0
  /\ addr \in LinkAddrs[b]
  /\ subnet' = [subnet EXCEPT ![b] = addr]
  /\ Disturb
  /\ UNCHANGED <<vars, root, hooked, mode, mask, settled>>

\* add_global_route, remove_routes_by_output: the table changes under the
\* lookups of its own board, and then of every board ss_refresh reaches.
ChangeTable ==
  /\ hooked = Outputs /\ Unlinked <= MaxUnlinked
  /\ Next
  /\ settled' = FALSE
  /\ Disturb
  /\ UNCHANGED <<root, hooked, wifi>>

\* The last board has ended its memcpy in shared_state.c.
Settle ==
  /\ ~settled
  /\ settled' = TRUE
  /\ hops' = 0
  /\ UNCHANGED <<vars, root, hooked, wifi, packet>>

PathNext ==
  \/ \E b \in Outputs, dst \in Packets : Originate(b, dst) \/ EnterByWifi(b, dst)
  \/ ReceiveFromRing
  \/ Gone
  \/ \E b \in Outputs :
       \/ SetHook(b) \/ ResetDevice(b) \/ SetMask(b)
       \/ \E m \in {"STATION", "AP"} : InitDevice(b, m)
       \/ \E addr \in LinkAddrs[b] : GotAddress(b, addr) \/ SetNetwork(b, addr)
  \/ ChangeTable
  \/ Settle

PathSpec == PathInit /\ [][PathNext]_<<vars, pathvars>>

----------------------------------------------------------------------------
\* Whether the center's Wi-Fi takes an address whatever the table says.
CenterTakes(dst) ==
  IF root THEN PointToPoint(Center, dst) \/ ~ForThisNetwork(dst)
          ELSE ForThisNetwork(dst)

\* A link that has its address, and one that has none yet: a station until its
\* first address, an access point until ap_set_network.
OfLink(b, dst) == mask[b] = LinkLen /\ Matches(dst, [addr |-> subnet[b], len |-> LinkLen])
NoAddress(b) == subnet[b] = 0 /\ mask[b] = 0

\* With every copy of the table equal, a packet that all boards have passed
\* on is one the longest match sends to a board without a Wi-Fi interface, or
\* to the center, whose hook refuses it: addresses nobody is assigned, and
\* everything foreign while a home node has no gateway.  Nothing else goes
\* round the ring until its time to live ends (routing.h:114 says a loop is
\* detected; rt_do_route has no such answer), and nothing at all while a board
\* is a station without address, which takes every packet (device.c:281-283).
GoesRound ==
  (packet # NoPacket /\ hops = N)
    => /\ Map!Lookup(packet.dst) \notin linked \ {Center}
       /\ Center \in linked => ~CenterTakes(packet.dst)
       /\ \A b \in linked \ {Center} : ~NoAddress(b) /\ ~OfLink(b, packet.dst)

\* While nothing changed on its way, a packet leaves by the link of the board
\* the longest match names, by a link whose network it is for (the peer's last
\* one, although that link is gone: station.c:188-189), by one that has no
\* address yet, or by the center's when that is where its hook sends it; and
\* never by the link it came in by, which would make two neighbours pass it to
\* and fro.
LeavesWhereItShould ==
  (packet # NoPacket /\ packet.out = "wifi" /\ packet.calm)
    => LET b == packet.at
           dst == packet.dst
       IN  /\ b # packet.from
           /\ b \in linked
           /\ \/ b = Center /\ CenterTakes(dst)
              \/ b # Center /\ b = Map!Lookup(dst)
              \/ b # Center /\ (OfLink(b, dst) \/ NoAddress(b))

\* A board has its hook before it has a Wi-Fi interface, and the network of one
\* of its links or none.
WifiTypeOK ==
  /\ linked \subseteq hooked /\ hooked \subseteq Outputs
  /\ mode \in [Outputs -> Modes]
  /\ subnet \in [Outputs -> Nat]
  /\ \A b \in Outputs : subnet[b] \in {0} \cup LinkAddrs[b]
  /\ mask \in [Outputs -> {0, LinkLen}]

PathTypeOK ==
  /\ TypeOK
  /\ WifiTypeOK
  /\ settled \in BOOLEAN
  /\ packet \in Packet \cup {NoPacket}
  /\ hops \in 0 .. N
=============================================================================
