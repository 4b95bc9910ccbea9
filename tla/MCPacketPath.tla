---------------------------- MODULE MCPacketPath ----------------------------
(* Instance of PacketPath for TLC: three boards and networks of 4-bit       *)
(* addresses that nest and touch.                                           *)
EXTENDS PacketPath

Net(a, l) == [addr |-> a, len |-> l]
SmallNetworks == {Net(8, 1), Net(8, 2), Net(12, 2), Net(10, 3)}

\* The node's network is 8 .. 15: a house at 8 and 9, and the links of two
\* boards; the first one has known a peer of two networks as a station.
SmallLinks == [b \in Outputs |-> IF b = Center THEN {14}
                                 ELSE IF b = 1 THEN {10, 12} ELSE {12}]
SmallRoot == Net(8, 1)
SmallHouse == Net(8, 3)
SmallPackets == {8, 11}

\* Bound of the instance: one link at a time is being set up, and the more
\* entries the table has the fewer links vary.  The first board's is the one
\* that still varies with two entries: without an address, with that of the
\* peer, and with that of another network.
Ready(b) == b \in linked /\ mask[b] # 0 /\ subnet[b] # 0
Bound ==
  /\ Cardinality({b \in linked : ~Ready(b)}) <= 1
  /\ entries # <<>> =>
       /\ Center \in linked /\ \A b \in Outputs : mode[b] # "NAN"
       /\ \A b \in linked : Ready(b) \/ (NoAddress(b) /\ b = 1)
       /\ mode[2] # "STATION"
  /\ Len(entries) > 1 => mode[1] = "STATION" /\ 2 \in linked
  /\ Len(entries) > 2 => subnet[1] = 12
=============================================================================
