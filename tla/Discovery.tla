----------------------------- MODULE Discovery -----------------------------
(***************************************************************************)
(* How a node without a network joins one: every board around the center   *)
(* is a station, and the one that connects first should be the only one.   *)
(* The station task of device.c measures the networks around, shares the   *)
(* result (priority_manager), waits for its turn and then scans until it   *)
(* is connected.  The event handler of station.c announces the connection  *)
(* to the siblings (channel_manager), which disable their stations, and    *)
(* the board that is provisioned makes access points of them.              *)
(*                                                                         *)
(* Disabling only sets sta_lock, which the task reads before a scan, and   *)
(* disconnects a station that is active.  The history variable disturbed   *)
(* tells the behaviours where an announcement found a board beyond that:   *)
(* in a scan, or with an address already.  Module PeerLink has the details *)
(* of a single station; association and DHCP are one external step here.   *)
(*                                                                         *)
(* Time counts until a board's turn: what is due comes first, and boards   *)
(* hear of each other's measurements within a unit of time.  The loop that *)
(* follows sleeps and scans for any time.                                  *)
(***************************************************************************)
EXTENDS Integers, Sequences, FiniteSets, SequencesExt, FiniteSetsExt

CONSTANTS
  N,             \* boards with a station (4), see device_orientation
  Node,          \* other nodes, whose uuid names the networks
  Signal,        \* how strongly a board hears the network of a node it may join
  Channel,       \* the channel of that network
  START_DELAY,   \* AP_STA_DELAY_SECONDS, per orientation
  Skew,          \* bound: seconds that a board is behind the others
  SCAN_TIME,     \* what a scan takes
  LISTEN_TIME,   \* RSSI_PRIORITY_SCAN_INTERVAL_SECS
  SLOT,          \* STA_PRIORITY_WAIT_INTERVAL_SECS
  MAX_RETRIES,   \* of station.c
  MaxMishaps     \* bound: losses, failed associations and broadcasts

Board == 0 .. N - 1
Device == 0 .. 3  \* MAX_DEVICES of priority_manager, present or not
NoNode == "no node"
NoAp == 0
NoSignal == 0  \* -128, the result of a scan that finds nothing
Unknown == 1   \* -127, what priority_manager starts with

ASSUME BoardsAssumption == N \in 1 .. 4
\* As many nodes as full_networks has slots, so that none is forgotten.
ASSUME NodesAssumption == /\ NoNode \notin Node
                          /\ IsFiniteSet(Node) /\ Cardinality(Node) <= 4
                          /\ Signal \in [Board -> [Node -> Nat \ {Unknown}]]
                          /\ Channel \in [Node -> 1 .. 11]
ASSUME TimesAssumption == /\ {START_DELAY, SCAN_TIME, LISTEN_TIME, SLOT} \subseteq Nat
                          /\ LISTEN_TIME < SLOT
                          /\ Skew \subseteq Nat
ASSUME LimitsAssumption == MAX_RETRIES \in Nat /\ MaxMishaps \in Nat

VARIABLES
  task,       \* station task: its step, and what is left of a delay
  rssi,       \* priority_manager: devices_rssi
  sta,        \* station_t, s_retry_num and whether the client is open
  radio,      \* the driver: idle, connecting or up
  events,     \* the driver's events, before the station's handler
  sta_lock,
  suggested,  \* channel_manager: suggested_channel
  blocked,    \* channel_manager: blocked_networks
  full,       \* channel_manager: full_networks
  inbox,      \* messages of the siblings
  provided,   \* node_is_network_provided
  offered,    \* a provision waits for the token
  ap,         \* channel of the board once it is an access point
  misled,     \* history: a priority that was derived from a wrong list
  disturbed,  \* history: an announcement that came too late, or not at all
  mishaps     \* history: number of mishaps

station == <<sta, radio, events>>
managers == <<suggested, blocked, full>>
routing == <<provided, offered, ap>>
history == <<misled, disturbed, mishaps>>
vars == <<task, rssi, station, sta_lock, managers, inbox, routing, history>>

----------------------------------------------------------------------------
(* Channels and priorities.                                                *)

formation_1 == <<1, 7, 4, 10, 11>>
formation_2 == <<5, 11, 8, 2, 11>>

\* select_formation: away from the channel of the connection
Formation(c) ==
  IF \E i \in 1 .. 4 : formation_1[i] = c THEN formation_2 ELSE formation_1

ChannelIn(formation, b) == formation[b + 1]

\* pm_get_suggested_priority: the first one of the strongest boards
Strongest(list) ==
  CHOOSE b \in Device : \A c \in Device :
    list[c] < list[b] \/ (list[c] = list[b] /\ b <= c)

\* Mutant: the difference the other way round.
Turn_Reversed(b, list) == (Strongest(list) - b + 4) % 4

\* shifted_priorities
Turn(b, list) == (b - Strongest(list) + 4) % 4

\* cm_is_blocked_uuid: a sibling is connected to the network, or it refused
\* this board for being full.
Blocked(b) == full[b] \cup {blocked[b][c] : c \in Board}

\* is_network_allowed
Allowed(b) == {n \in Node \ Blocked(b) : Signal[b][n] # NoSignal}

Hears(b) == {Signal[b][n] : n \in Allowed(b)} \cup {NoSignal}

Init ==
  /\ \E skew \in [Board -> Skew] :
       task = [b \in Board |-> [pc |-> "start",
                                timer |-> b * START_DELAY + skew[b]]]
  /\ rssi = [b \in Board |-> [c \in Device |-> Unknown]]
  /\ sta = [b \in Board |-> [active |-> FALSE, full |-> FALSE, retry |-> 0,
                             net |-> NoNode, client |-> FALSE]]
  /\ radio = [b \in Board |-> "idle"]
  /\ events = [b \in Board |-> <<>>]
  /\ sta_lock = [b \in Board |-> FALSE]
  /\ suggested = [b \in Board |-> ChannelIn(formation_1, b)]
  /\ blocked = [b \in Board |-> [c \in Board |-> NoNode]]
  /\ full = [b \in Board |-> {}]
  /\ inbox = [b \in Board |-> <<>>]
  /\ provided = [b \in Board |-> FALSE]
  /\ offered = [b \in Board |-> FALSE]
  /\ ap = [b \in Board |-> NoAp]
  /\ misled = FALSE /\ disturbed = FALSE
  /\ mishaps = 0

Mishap == mishaps < MaxMishaps /\ mishaps' = mishaps + 1

\* rs_broadcast reaches every sibling, or fails after some of them; nobody
\* looks at the result.
Broadcast(b, m) ==
  \E R \in SUBSET (Board \ {b}) :
    /\ IF R = Board \ {b} THEN UNCHANGED mishaps ELSE Mishap
    /\ inbox' = [c \in Board |-> IF c \in R THEN Append(inbox[c], m)
                                            ELSE inbox[c]]

----------------------------------------------------------------------------
(* device_connect_station_task                                             *)

Goes(b, pc, delay) == task' = [task EXCEPT ![b] = [pc |-> pc, timer |-> delay]]

Due(b, pc) == task[b].pc = pc /\ task[b].timer = 0

\* The list is emptied, whatever siblings have said before; the first scan.
StartsTask(b) ==
  /\ Due(b, "start")
  /\ rssi' = [rssi EXCEPT ![b] = [c \in Device |-> Unknown]]
  /\ Goes(b, "measure", SCAN_TIME)
  /\ UNCHANGED <<station, sta_lock, managers, inbox, routing, history>>

\* station_scan_best_rssi and pm_provide_to_siblings
Measures(b) ==
  LET best == Max(Hears(b)) IN
  /\ Due(b, "measure")
  /\ rssi' = [rssi EXCEPT ![b][b] = best]
  /\ Broadcast(b, [type |-> "rssi", from |-> b, rssi |-> best])
  /\ Goes(b, "listen", LISTEN_TIME)
  /\ UNCHANGED <<station, sta_lock, managers, routing, misled, disturbed>>

Measured ==
  [b \in Device |-> IF b \in Board THEN Max({Signal[b][n] : n \in Node} \cup {NoSignal})
                                    ELSE Unknown]

Prioritizes(b) ==
  /\ Due(b, "listen")
  /\ Goes(b, "wait", Turn(b, rssi[b]) * SLOT)
  /\ misled' = (misled \/ rssi[b] # Measured)
  /\ UNCHANGED <<rssi, station, sta_lock, managers, inbox, routing, disturbed,
                 mishaps>>

EntersLoop(b) ==
  /\ Due(b, "wait")
  /\ Goes(b, "loop", 0)
  /\ UNCHANGED <<rssi, station, sta_lock, managers, inbox, routing, history>>

\* Not locked and not connected: station_find_ap starts its scan.
StartsScan(b) ==
  /\ task[b].pc = "loop" /\ ~sta_lock[b] /\ ~sta[b].active
  /\ Goes(b, "scan", 0)
  /\ UNCHANGED <<rssi, station, sta_lock, managers, inbox, routing, history>>

Connecting(b) == radio' = [radio EXCEPT ![b] = IF @ = "idle" THEN "connecting" ELSE @]

StationConnect(b, n) ==
  /\ sta' = [sta EXCEPT ![b].active = TRUE, ![b].retry = 0, ![b].net = n]
  /\ Connecting(b)

\* The scan is over: connect to the best network that is allowed now, whatever
\* happened meanwhile, or sleep when there is none.
EndsScan(b) ==
  /\ task[b].pc = "scan"
  /\ Goes(b, "loop", 0)
  /\ IF Allowed(b) = {} THEN UNCHANGED <<sta, radio>>
     ELSE \E n \in Allowed(b) :
            /\ \A o \in Allowed(b) : Signal[b][o] <= Signal[b][n]
            /\ StationConnect(b, n)
  /\ UNCHANGED <<rssi, events, sta_lock, managers, inbox, routing, history>>

StationTask(b) ==
  StartsTask(b) \/ Measures(b) \/ Prioritizes(b) \/ EntersLoop(b)
    \/ StartsScan(b) \/ EndsScan(b)

Timed == {b \in Board : task[b].pc \in {"start", "measure", "listen", "wait"}}

\* Time passes until something is due.
Tick ==
  LET d == Min({task[b].timer : b \in Timed}) IN
  /\ Timed # {} /\ d > 0
  /\ \A b \in Board : inbox[b] = <<>>
  /\ task' = [b \in Board |-> IF b \in Timed
                               THEN [task[b] EXCEPT !.timer = @ - d]
                               ELSE task[b]]
  /\ UNCHANGED <<rssi, station, sta_lock, managers, inbox, routing, history>>

----------------------------------------------------------------------------
(* The driver: association and an address, and what can go wrong.          *)

Associates(b) ==
  /\ radio[b] = "connecting"
  /\ radio' = [radio EXCEPT ![b] = "up"]
  /\ events' = [events EXCEPT ![b] = Append(@, "GOT_IP")]
  /\ UNCHANGED <<task, rssi, sta, sta_lock, managers, inbox, routing, history>>

\* The association fails, or the radio is lost later.
Fails(b, reason) ==
  /\ IF reason = "TOOMANY" THEN radio[b] = "connecting" ELSE radio[b] # "idle"
  /\ Mishap
  /\ radio' = [radio EXCEPT ![b] = "idle"]
  /\ events' = [events EXCEPT ![b] = Append(@, reason)]
  /\ UNCHANGED <<task, rssi, sta, sta_lock, managers, inbox, routing, misled,
                 disturbed>>

Driver(b) == Associates(b) \/ \E reason \in {"LOST", "TOOMANY"} : Fails(b, reason)

----------------------------------------------------------------------------
(* The event handler of station.c                                          *)

\* The counter after the lines that block a full access point.
Retry(b, reason) == IF reason = "TOOMANY" THEN MAX_RETRIES ELSE sta[b].retry

BlockFullAp(b) == full' = [full EXCEPT ![b] = @ \cup {sta[b].net}]

OnDisconnected(b, reason) ==
  /\ IF reason = "TOOMANY" THEN BlockFullAp(b) ELSE UNCHANGED full
  /\ IF Retry(b, reason) < MAX_RETRIES
     THEN /\ sta' = [sta EXCEPT ![b].full = FALSE,
                                ![b].client = @ /\ ~sta[b].full,
                                ![b].retry = Retry(b, reason) + 1]
          /\ Connecting(b)
     ELSE /\ sta' = [sta EXCEPT ![b].full = FALSE,
                                ![b].client = @ /\ ~sta[b].full,
                                ![b].retry = 0, ![b].active = FALSE]
          /\ UNCHANGED radio
  /\ events' = [events EXCEPT ![b] = Tail(@)]
  /\ UNCHANGED <<suggested, blocked, inbox, mishaps, disturbed>>

\* The first address is replaced by a static one, which is an event again.
OnLease(b) ==
  /\ sta' = [sta EXCEPT ![b].full = TRUE]
  /\ events' = [events EXCEPT ![b] = IF radio[b] = "up" THEN Append(Tail(@), "GOT_IP")
                                                        ELSE Tail(@)]
  /\ UNCHANGED <<radio, managers, inbox, mishaps, disturbed>>

Announced(b) ==
  [type |-> "channels", from |-> b, net |-> sta[b].net,
   formation |-> Formation(Channel[sta[b].net])]

\* A sibling's announcement waits for b.
Overtaken(b) == \E m \in ToSet(inbox[b]) : m.type = "channels"

\* Mutant: the network of the connection is blocked for the board itself.
OnStaticAddress_BlocksOwn(b) ==
  /\ suggested' = [suggested EXCEPT ![b] =
                      ChannelIn(Formation(Channel[sta[b].net]), b)]
  /\ blocked' = [blocked EXCEPT ![b][b] = sta[b].net]
  /\ Broadcast(b, Announced(b))
  /\ disturbed' = (disturbed \/ mishaps' # mishaps \/ Overtaken(b))
  /\ sta' = [sta EXCEPT ![b].client = TRUE, ![b].retry = 0]
  /\ events' = [events EXCEPT ![b] = Tail(@)]
  /\ UNCHANGED <<radio, full>>

\* cm_provide_to_siblings and client_open
OnStaticAddress(b) ==
  /\ suggested' = [suggested EXCEPT ![b] =
                      ChannelIn(Formation(Channel[sta[b].net]), b)]
  /\ Broadcast(b, Announced(b))
  /\ disturbed' = (disturbed \/ mishaps' # mishaps \/ Overtaken(b))
  /\ sta' = [sta EXCEPT ![b].client = TRUE, ![b].retry = 0]
  /\ events' = [events EXCEPT ![b] = Tail(@)]
  /\ UNCHANGED <<radio, blocked, full>>

StationEvent(b) ==
  /\ events[b] # <<>>
  /\ LET x == Head(events[b]) IN
     \/ x \in {"LOST", "TOOMANY"} /\ OnDisconnected(b, x)
     \/ x = "GOT_IP" /\ ~sta[b].full /\ OnLease(b)
     \/ x = "GOT_IP" /\ sta[b].full /\ OnStaticAddress(b)
  /\ UNCHANGED <<task, rssi, sta_lock, routing, misled>>

----------------------------------------------------------------------------
(* The sibling-message task                                                *)

Received(b, type) == inbox[b] # <<>> /\ Head(inbox[b]).type = type
TakeMessage(b) == inbox' = [inbox EXCEPT ![b] = Tail(@)]

OnRssi(b) ==
  /\ Received(b, "rssi") /\ TakeMessage(b)
  /\ rssi' = [rssi EXCEPT ![b][Head(inbox[b]).from] = Head(inbox[b]).rssi]
  /\ UNCHANGED <<task, station, sta_lock, managers, routing, history>>

\* An active station leaves its network and does not try again.
StationDisconnect(b) ==
  /\ sta' = [sta EXCEPT ![b].retry = IF sta[b].active THEN MAX_RETRIES ELSE @]
  /\ IF sta[b].active /\ radio[b] # "idle"
     THEN /\ radio' = [radio EXCEPT ![b] = "idle"]
          /\ events' = [events EXCEPT ![b] = Append(@, "LOST")]
     ELSE UNCHANGED <<radio, events>>

\* node_disable_sta
Disable(b) ==
  /\ sta_lock' = [sta_lock EXCEPT ![b] = TRUE]
  /\ StationDisconnect(b)

\* A board that the lock does not stop.
BeyondLock(b) ==
  task[b].pc = "scan" \/ sta[b].full \/ "GOT_IP" \in ToSet(events[b])

\* Mutant: only the lock is set.
OnChannels_OnlyLock(b) ==
  LET m == Head(inbox[b]) IN
  /\ Received(b, "channels") /\ TakeMessage(b)
  /\ blocked' = [blocked EXCEPT ![b][m.from] = m.net]
  /\ IF provided[b] THEN UNCHANGED <<station, sta_lock, suggested, disturbed>>
     ELSE /\ sta_lock' = [sta_lock EXCEPT ![b] = TRUE]
          /\ suggested' = [suggested EXCEPT ![b] = ChannelIn(m.formation, b)]
          /\ disturbed' = (disturbed \/ BeyondLock(b))
          /\ UNCHANGED station
  /\ UNCHANGED <<task, rssi, full, routing, misled, mishaps>>

\* Mutant: the suggested channel is not taken over.
OnChannels_KeepsChannel(b) ==
  LET m == Head(inbox[b]) IN
  /\ Received(b, "channels") /\ TakeMessage(b)
  /\ blocked' = [blocked EXCEPT ![b][m.from] = m.net]
  /\ IF provided[b] THEN UNCHANGED <<station, sta_lock, disturbed>>
     ELSE Disable(b) /\ disturbed' = (disturbed \/ BeyondLock(b))
  /\ UNCHANGED <<task, rssi, suggested, full, routing, misled, mishaps>>

\* on_sibling_message of channel_manager.c
OnChannels(b) ==
  LET m == Head(inbox[b]) IN
  /\ Received(b, "channels") /\ TakeMessage(b)
  /\ blocked' = [blocked EXCEPT ![b][m.from] = m.net]
  /\ IF provided[b] THEN UNCHANGED <<station, sta_lock, suggested, disturbed>>
     ELSE /\ Disable(b)
          /\ suggested' = [suggested EXCEPT ![b] = ChannelIn(m.formation, b)]
          /\ disturbed' = (disturbed \/ BeyondLock(b))
  /\ UNCHANGED <<task, rssi, full, routing, misled, mishaps>>

\* A provision goes through the event queues of the routing.
OnProvision(b) ==
  /\ Received(b, "provision") /\ TakeMessage(b)
  /\ offered' = [offered EXCEPT ![b] = TRUE]
  /\ UNCHANGED <<task, rssi, station, sta_lock, managers, provided, ap, history>>

Sibling(b) == OnRssi(b) \/ OnChannels(b) \/ OnProvision(b)

----------------------------------------------------------------------------
(* The routing of the board (module Gateway), as far as it concerns this.  *)

\* The handshake of the node that b is connected to provisions this one.
Handshake(b) ==
  /\ sta[b].client /\ ~provided[b]
  /\ provided' = [provided EXCEPT ![b] = TRUE]
  /\ Broadcast(b, [type |-> "provision", from |-> b])
  /\ UNCHANGED <<task, rssi, station, sta_lock, managers, offered, ap, misled,
                 disturbed>>

\* device_reset: the task is deleted, the station stopped, its handler gone
\* before the last event comes.  A client that is open stays so.
StationReset(b) ==
  /\ Goes(b, "none", 0)
  /\ sta' = [sta EXCEPT ![b].full = FALSE, ![b].active = FALSE]
  /\ radio' = [radio EXCEPT ![b] = "idle"]
  /\ events' = [events EXCEPT ![b] = <<>>]
  /\ sta_lock' = [sta_lock EXCEPT ![b] = FALSE]

\* on_provision and node_set_as_ap
BecomesAp(b) ==
  /\ offered[b] /\ ~provided[b]
  /\ provided' = [provided EXCEPT ![b] = TRUE]
  /\ ap' = [ap EXCEPT ![b] = suggested[b]]
  /\ StationReset(b)
  /\ UNCHANGED <<rssi, managers, inbox, offered, history>>

----------------------------------------------------------------------------
Next ==
  \/ Tick
  \/ \E b \in Board : StationTask(b) \/ Driver(b) \/ StationEvent(b)
                      \/ Sibling(b) \/ Handshake(b) \/ BecomesAp(b)

Spec == Init /\ [][Next]_vars

(* Every task of every board keeps running, timers included, and a board   *)
(* that keeps trying gets an association, as mishaps are bounded.          *)
Fairness ==
  /\ WF_vars(Tick)
  /\ \A b \in Board :
       /\ WF_vars(StationTask(b)) /\ WF_vars(Associates(b))
       /\ WF_vars(StationEvent(b)) /\ WF_vars(Sibling(b))
       /\ WF_vars(Handshake(b)) /\ WF_vars(BecomesAp(b))

FairSpec == Spec /\ Fairness

----------------------------------------------------------------------------
Uplinks == {b \in Board : sta[b].client /\ ap[b] = NoAp}

\* channel_manager.c:49: disabling the siblings' stations is there "to avoid
\* multiple connections during initial node discovery".  It does as long as
\* every announcement comes in time: then one board is connected, and it is
\* never one that is disabled.
OneUplink ==
  ~disturbed => /\ \A b, c \in Uplinks : b = c
                /\ \A b \in Uplinks : ~sta_lock[b]

\* The board that hears the strongest network scans first and those of the
\* next orientations follow, as far as each knew what all had measured
\* (device.c:165: a board that starts after others empties its list).
Place(b) == LET s == Strongest(Measured) IN IF b >= s THEN b - s ELSE b + 4 - s

InTurn ==
  ~misled =>
    \A b, c \in Board :
      /\ task[b].pc \in {"loop", "scan"}
      /\ task[c].pc \in {"start", "measure", "listen", "wait"}
      => Place(b) <= Place(c)

\* A board that becomes an access point while the node is connected, and has
\* taken the announcement of that, does not use the channel of the connection.
ApartFromUplink ==
  [][\A b \in Board, u \in Uplinks :
       ap'[b] # ap[b] /\ ~disturbed /\ ~Overtaken(b)
         => ap'[b] # Channel[sta[u].net]]_vars

\* The node gets connected, and again after each loss: disabled stations are
\* never all that is left, unless announcements crossed or a network is full.
StaysOnline ==
  []<>(\/ disturbed \/ \E b \in Board : full[b] # {}
       \/ Uplinks # {})
=============================================================================
