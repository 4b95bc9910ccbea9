# TLA+ models of an i4a node

A *node* is a ring of up to five ESP32 boards that are connected by SPI: four
that look north, south, east and west with a radio each, and one in the center.
Nodes connect to each other by Wi-Fi, board to board, and form one routed
network whose root node has the way out.  The modules here model the protocols
that make the boards of a node act as one: how they start together, how they
talk, how they take turns, how they find and keep a connection to other nodes,
and how they route.

All paths are relative to `src/components/` unless they begin with `src/`.

## 1. The system

### Components, state and operations

| component | state | operations |
|---|---|---|
| SPI driver, ring link (`internal/spi`, `internal/ring_link`) | a pool of 8 receive buffers, queues of pointers to them | receive into a free buffer, hand it to the internal or the netif task, free it |
| ring link low level (`internal/ring_link_lowlevel`) | the packet: source, TTL, checksum | send, forward with a smaller TTL |
| broadcast (`routing/ring_share`, `routing/siblings`, `internal/ring_link_internal`, `integration/node`, `integration/callbacks`) | the task that waits for an acknowledgement, its notification, the sibling queue | broadcast with up to 5 tries, handle and forward a packet, take a message from the queue |
| distributed lock (`routing/sync`) | on the center: is a token out, how many requests wait; on each board: is the callback running | request, issue, pass on, bring home, retire a token |
| shared state (`routing/shared_state`) | a copy of the routing table on each board | refresh: broadcast one's copy; take over another's |
| routing event loop (`routing/routing/src/routing.c`) | two queues of events, of siblings and of peers | queue an event, dispatch all in the critical section |
| routing roles (`forwarder/`, `root.c`, `home.c`) | network of the node, connection state, local root, distance to the root, pending gateway request | provision, handshake, gateway request and response, loss of a peer, timeout |
| routing table (`routing_table.c`) | sorted entries, default gateway | add, remove by output, route |
| start-up (`integration/reset_manager`, `node_setup`) | is the board up, its role, time since the last reset | broadcast reset and start-up, restart, wait for them |
| station and access point (`wireless/station`, `wireless/access_point`, `wireless/device`) | connection state, retries, locks, mode | scan, connect, retry, give up, disable, become an access point |
| peer link (`wireless/client`, `wireless/server`) | is it open, the socket, is the peer connected | open, close, the task that connects or accepts, receives and reports |
| discovery (`integration/channel_manager`, `integration/priority_manager`) | suggested channel, networks of the siblings and full ones, the strength that every board measured | measure and share, take turns, announce a connection |
| packets (`integration/routing_hooks`, `internal/ring_link_netif`, `src/app/main`) | which hook a board has, which interfaces; the packet | choose the interface, forward to the next board, drop |
| `wireless/wireless.c`, `os`, info manager, remote control, traffic, config, host tools in `src/auxiliar` and `src/gateway` | | see *What is not modelled* |

### How they interact

* *Calls.* `app_main` runs `node_setup`, creates the routing and calls
  `rt_on_tick` every second.  The roles call `ring_share`, `shared_state`,
  `sync` and the wireless interface.
* *Messages on the ring.* All traffic between boards is a broadcast that travels
  once around; its return is the acknowledgement.  `ring_share` multiplexes sync,
  routing, shared state, reset, channel and priority managers.
* *Messages on the radio.* Routing events, over one TCP connection per link.
* *Callbacks and queues.* A receiving task never calls a handler: it queues, and
  three tasks of `callbacks.c` (peer events, peer messages, siblings) call them.
  Routing queues them again until the board's turn in the critical section.
* *Packets.* lwIP asks the routing hook of a board, and with it the table, for
  every packet; the ring is the default interface, so what no board takes goes
  round.
* *Shared memory.* The queues of the routing, the variables of `leader.c`, the
  sockets of client and server and `sta_lock` are used by several tasks, mostly
  without a lock.

### What is hard

* A broadcast can be lost, repeated, or acknowledged late, and callers often
  ignore the result; then two tokens circulate, or none.
* The task that handles sibling messages also broadcasts and waits for
  acknowledgements which come behind messages for itself.
* Variables without locks are read and written by two or three tasks.
* Links come and go while tasks of the previous link are still alive.
* Boards lose power or are reset one by one, while the others go on.
* Stations decide by themselves and disable each other by messages.
* The table is one variable with five copies, and packets are routed board by
  board while the copies differ.

### What makes each component correct

| component | properties (definition) |
|---|---|
| buffers | no buffer leaks or is in two places (`Conserved`), order (`HandledInOrder`), the board receives again (`ReceivesAgain`) |
| broadcast | success means delivery, until a timeout (`SuccessUntilTimeout`), copies stay in order (`InOrder`), what a lost broadcast leaves behind (`CopiesAlongRing`), every broadcast ends and is delivered (`BroadcastEnds`, `DeliveredWithoutLosses`), implements `SiblingBroadcast` (`ImplementsSiblings`) |
| lock | one board inside (`MutualExclusion`), full rounds (`FullRound`), no phantom token (`NeverBlocked`), no lost wake-up (`NoLostWakeup`), service and rest (`RequestsServed`, `Quiesces`), implements `DistributedLock` (`ImplementsLock`) |
| shared state | nobody in the section overwrites a change (`NoRouteLost`), the copies end up equal (`CopiesConverge`) |
| events | exactly once and in order (`PeerEventsExactlyOnce`, `SiblingEventsExactlyOnce`), none lost (`SiblingMessagesNeverLost`), all dispatched (`EventuallyDispatched`) |
| roles | one network per node (`OneNetwork`), one way to the root that agrees with the table (`OneLocalRoot`, `LocalRootIsGateway`), the root node stays root (`RootStays`), requests are kept (`RequestsKept`) |
| routing table | `LongestPrefixMatch`, implements `RouteMap` (`ImplementsMap`) |
| packets | what circulates in the ring is for nobody (`GoesRound`), everything else leaves by the link its route names and not by the one it came in by (`LeavesWhereItShould`) |
| start-up | one role (`OneRole`), the node comes up, without resetting itself for ever (`NodeComesUp`) |
| peer link | `RetryIsPending`, `ClientFollowsRadio`, `LastEventIsTrue`, `SamePath`, `LinkComesUp` |
| discovery | `OneUplink`, `InTurn`, `ApartFromUplink`, `StaysOnline` |

## 2. The modules

Each one is a component; where one relies on another it takes the other's
properties as the behaviour of its environment, as listed here.

| module | models | relies on |
|---|---|---|
| `TokenRing`, abstract `DistributedLock` | `sync.c`, `leader.c`, `follower.c` for one component id | a broadcast is delivered 0 to `MAX_RETRIES` times (`Copies`), once per try (`CopiesAlongRing` of RingBroadcast) |
| `SharedTable` (extends `TokenRing`) | `shared_state.c` under the lock, the table on every board | messages arrive in order, and a refresh that is lost has reached the boards up to some link (`ImplementsSiblings` of RingBroadcast) |
| `RoutingTable`, abstract `RouteMap` | `routing_table.c` | |
| `PacketPath` (extends `RoutingTable`) | `routing_hooks.c`, `ring_link_netif`, `rt_do_route`, one packet in one node | the copies are equal once settled (`CopiesConverge` of SharedTable) |
| `EventQueues` | the event loop of `routing.c` on one board | a requested section is granted (TokenRing) |
| `RingBroadcast`, abstract `SiblingBroadcast` | ring share, siblings, internal ring link, sibling queue | links are FIFO (BufferPool) |
| `BufferPool` | `spi.c`, `ring_link.c` | internal handlers return (RingBroadcast) |
| `Gateway` | the roles of one node | turns exclude each other (`MutualExclusion` of TokenRing), events are dispatched once (EventQueues), a broadcast reaches each other board any number of times from 0 to `MAX_RETRIES`, in order (`InOrder` of RingBroadcast), a change of the table is on every board before the next turn (SharedTable) |
| `NodeBoot` | `reset_manager.c`, `node_setup` of all boards | a broadcast may report failure once per unit of time (RingBroadcast) |
| `PeerLink` | one station, one access point, `client.c`, `server.c`, `callbacks.c` | |
| `Discovery` | the station task, channel and priority managers of all boards | one station in detail: PeerLink; provisioning: Gateway |
| `LockProofs` (of `TokenRing`, `SharedTable`), `RoutingProofs` (of `RoutingTable`, `PacketPath`), `EventQueuesProofs`, `RingProofs` (of `RingBroadcast`, `BufferPool`), `GatewayProofs`, `NodeBootProofs`, `PeerLinkProofs`, `DiscoveryProofs` | theorems | |
| `MC...` | instances for TLC | |

Operators whose comment begins with "Mutant:" are variants of the action that
follows them, with a plausible mistake in it.  They belong to no specification;
with one of them in the place of the action some property fails, which shows
that the property depends on that line of the code.

### How state and actions correspond to the code

* **TokenRing.** The variables of `sync_leader_t` and `sync_cs_callback_t` keep
  their names.  A handler of a follower is one action (`Enter`, `PassToken`,
  `SkipFollower`), because only its sibling task runs it.  The center's handlers
  are cut at every access to `is_token_out` and `requested_tokens` (`LoadPending`,
  `StorePending`, `IssueNewToken`, `Reissue`, `RetireToken`), as the peer tasks
  and `app_main` run `request_critical_section` too.  `dups`, `losses`,
  `raced` and `overlooked` are history.
* **RoutingTable.** `Add` is `routing_table_add` with its three outcomes,
  `RemoveByOutput` the compaction loop, `Route` the scan.  A mask is its length.
* **SharedTable.** A copy is the set of the changes it contains.  `InSection` is
  `add_global_route` or `remove_routes_by_output` with its `ss_refresh`, which
  reaches the boards up to some link of the ring; `OnRefresh` is
  `on_sibling_message`.  A message never overtakes another, so a grant is taken
  when the refreshes before it have been (`EnterCaughtUp`), and the retries of a
  refresh are one.  Every other step is `TokenRing`'s.  Once there is a second
  token the copies are no longer followed, because nothing is promised of them.
* **PacketPath.** One packet at a time; `Originate` and `EnterByWifi` put it on
  the ring or out of a link, `ReceiveFromRing` is the next board's netif and
  hook, `Gone` every way to drop it.  `ToWifi` joins the four hooks.  `mode`,
  `subnet` and `mask` are what `device_is_point_to_point_message` reads:
  `InitDevice` zeroes them, `GotAddress` and `SetNetwork` write them word by
  word, and nothing clears them when a connection ends, so the loss of one is no
  step here.  Between a change of the table and the last board's copy
  (`settled`) a lookup may return any output, because the locks around it are
  not taken (see 5).  `hops` counts the boards since the last change, `calm`
  tells whether anything changed on the packet's way.
* **EventQueues.** Producers read and write `count` in separate steps; the
  callback dispatches, then clears.  `collided` tells that two tasks used a queue
  at once.
* **RingBroadcast.** `Start` to `Sender` are `rs_broadcast`,
  `node_broadcast_to_siblings` and `broadcast_to_siblings` with their waits;
  `RingLink` is the internal ring-link task, `Sibling` the handler task.  A
  timeout may happen whenever somebody waits.  `SiblingBroadcast` keeps of this
  who has broadcast what, how often it was tried, what each board got and which
  broadcasts succeeded: a copy comes to a board from the one before it.
* **BufferPool.** One action per loop of each task; `Everywhere` lists the
  places of a buffer.  Its initial state and next-state relation are called
  `PoolInit` and `PoolNext`, so that one module can state theorems about it and
  RingBroadcast.
* **Gateway.** One disjunct per event handler of the roles.  A broadcast
  (`Broadcasts`) is one step, since nobody else has a turn meanwhile: it leaves
  any number of copies, none included, in the queue of each other board.  No
  handler branches on its result: `peer.c` ignores it, and the `os_panic` of
  `root.c:33` logs and returns where the handler ends anyway.  A change of the
  table with its refresh is one step too.  `PeerReturns` is a link that is lost
  and back while the peer-event task is held up: the message of the new link
  comes before the loss of the old.  Only the timer's answer is sent outside a
  turn (`Tick`): its copies could come before and after another event in the
  code, which changes no role, as the boards of the root node only answer it.
  `missed` records the kinds of event that a board did not get, `asked` the
  peers without an answer, `zero_route` a route that moved the default gateway
  for good (see 5); all three are history.
* **NodeBoot.** The phases of `node_setup` with their delays in units of two
  seconds, a polling loop acts as soon as it can.
* **PeerLink.** The two event handlers are one action per event; the two task
  loops one action per blocking call and per access to shared variables.
* **Discovery.** The station task has one action per delay, scan and test;
  `OnStaticAddress`, `OnChannels` and `OnRssi` are whole handlers with their
  broadcasts, which may reach only some siblings.

## 3. The runs

Each run is a module and a `.cfg`; `tlc -config <run>.cfg <module>` repeats it.

| run | instance and bounds | what it shows |
|---|---|---|
| `ring_safety` (MCTokenRing) | 4 boards, two of which register late; one more task on the center; 3 requests, 2 lost or repeated grants, request counter up to 1 | who is inside the section, that the center never waits for a token that does not exist, and when a request is left without a token |
| `ring_liveness` (MCSharedTable) | 3 boards, one of which registers late; `app_main` of the center beside its sibling task; 3 requests, 1 repeated grant or lost one (`Copies` is {0, 1, 2}), 2 changes of the table, 1 refresh that does not reach all | every request is served and the ring comes to rest, but for lost grants and overlooked requests (see 5); no change is overwritten and the copies end up equal |
| `routing_table` (MCPacketPath) | 3 boards, root or home node; 4-bit addresses, 4 networks that nest and touch, 3 entries, 2 destinations; 1 board without a link while the table changes, 1 link at a time without its address, a station that gets addresses of two networks; with more entries fewer links vary (`Bound`) | the scan is a longest-prefix lookup of an abstract map, and where packets leave while table, hooks and links change |
| `events` (MCEventQueues) | both peer tasks, `rt_on_start` still to run, queues of 2, 2 sibling messages and 3 peer events, the third one without a collision (`Bound`), so that both queues fill up | which events are dispatched, how often, in which order |
| `broadcast` (MCRingBroadcast) | 3 boards, queues of 1: a handler against an application task and a board that only passes on; 2 tries or a second message, 1 loss | what acknowledgement, timeout and retry guarantee, which boards a lost broadcast has reached, that this is the broadcast of `siblings.h`, and that boards that wait for each other get out of it |
| `buffer_pool` (MCBufferPool) | 3 buffers, an internal queue of 1 (the error path runs) and a netif queue of 3 (as in the code at least as long as the pool), 4 packets | no buffer is lost or used twice |
| `gateway` (MCGateway) | 2 forwarders and the center, root node or not, 2 networks, 4 events of peers, or 3 and a board that misses a broadcast or gets it twice | one network, one local root, a table that agrees with it, no lost request, also when a message overtakes the loss of the link before, and what of this is left when a broadcast misses a board |
| `gateway_center_replaced` (MCGateway) | the same | *finding*: a client's first handshake takes the default gateway away from the center |
| `node_boot` (NodeBoot) | 4 boards, 2 power cuts at any moment, delays of the code in units of 2 s | one role, and the node always comes up |
| `peer_link` (MCPeerLink) | 1 retry, queues of 1, 2 tasks and 2 connections at each end, 2 mishaps | events, sockets and tasks of a link agree and the link comes back |
| `peer_link_second_server` (PeerLink) | the same, queues of 2, 1 mishap | *finding*: a second server task is started beside the first |
| `discovery` (MCDiscovery) | 3 boards, 2 nodes around, starts up to a second apart, 1 mishap, or 2 where the boards know what all have measured | one connection, turns, channels, and that the node does not stay offline |

*Why the bounds are enough.*  The ring protocols treat every follower alike: with
four boards there are a first, a last, and two in the middle one of which
registers late; the theorems of `LockProofs` hold for any number.  A queue
of one or two is full, empty and in between.  A counter that saturates at 1
saturates.  Two boards with peers are needed for everything the roles race
about (two networks, two answers, one local root); a third would behave as the
second.  Two mishaps allow one while the system recovers from another.  A
third change of the table would find what the second found: a copy that missed
one or has all.  The networks of `routing_table` nest over two levels and touch;
its three boards are the one a packet comes from, the one it is for and the
center; destinations are one that the center takes in one kind of node and
refuses in the other, and one of a link.  In
`discovery` three boards are one that connects, one that is disabled before it
scans and one that is late.  In `broadcast` a
second copy fills a queue as well as a second message does, which is why the
instance has one or the other; the third board neither sends nor waits, and is on
the way of every copy.

*Deadlock* is not checked where requests, messages or events are bounded and the
system may come to rest; `node_boot` never rests, and is checked for it.

*Constraints.* `peer_link` and `discovery` follow behaviours until `overlap` or
`disturbed` becomes true, the point from where on their properties promise
nothing; section 5 says what happens there.  `OnceMore` (`broadcast`), `Bound`
(`events`, `gateway`, `routing_table`) and
`SecondMishap` (`discovery`) only bound the instance; the theorems know no such
bound.

## 4. Fairness

All tasks are FreeRTOS tasks that block on queues, notifications and delays and
give the processor away while they do; every runnable task runs after finitely
many steps, which is weak fairness of its next step.  A waiting message stays
first in its queue, so weak fairness is enough for handlers.  Nothing obliges
anybody to request, to broadcast, to lose or to fail, and mishaps are bounded:
liveness is about what happens when they end.  In `EventQueues` a requested
section is granted, as `RequestsServed` says of a ring that has lost no grant and
overlooked no request.  In `NodeBoot` the only fair action
is the step of the whole system, time included.  In `PeerLink` and `Discovery`
association and an address are fair: an access point in reach answers in the end.
The server's keepalive is fair because `server.c` sets it; the client sets none
and its half-open connections may stay for ever.

## 5. What the properties leave out, and why

A property that is conditional on a history variable names the case in which the
code does not keep it.

* `Clean` (TokenRing).  A grant whose acknowledgement comes late is broadcast
  again and two tokens circulate, contrary to `sync.h:24`; the same follows from
  two tasks of the center that find no token at once.  Both can be seen by
  checking `Exclusive` in place of `MutualExclusion`.
* `losses` (TokenRing).  `leader.c:24` and `follower.c:23` ignore the result of the
  grant's broadcast.  When every try fails there is no token, `is_token_out`
  stays true and no section is granted any more: the requests pile up, nobody is
  served and `is_token_out` never returns to rest.  `NeverBlocked`, `RequestsServed`
  and `Quiesces` except this case by name; nothing in the code repairs it.
* `overlooked` (TokenRing).  A task of the center finds the token out, the sibling
  task retires that token, and only then `requested_tokens` is incremented: the
  request waits until somebody's next one issues a token.  Both tasks are always
  there: `app_main` requests through `rt_on_start` (`src/app/main/main.c:70`,
  `routing.c:228`), the peer tasks through `queue_peer_message`.  `NoLostWakeup`,
  `RequestsServed` and `Quiesces` say that this is the only way to lose one.
* `late` (RingBroadcast).  An acknowledgement after its timeout answers the next
  broadcast, so that `rs_broadcast` returns true for a message that was lost,
  contrary to `siblings.h:22` (`SuccessMeansDelivered`).  `SiblingBroadcast`
  therefore promises delivery only until a board has waited in vain once; what it
  says of copies, their number and their order holds always.
* `collided` (EventQueues).  The callback clears the external queue under a
  producer, two producers write the same slot, or a token dispatches while
  `rt_on_start` fills the queue.  Of two producers that both find room for
  one, the second writes past the array: `InArray` ends such a behaviour there,
  as what the write hits is not modelled.
* `missed` (Gateway).  Nobody looks at the result of a broadcast of the roles
  (`peer.c:55,109,118,141,160`; `root.c:32` logs it, `root.c:64` does not), and no
  message is sent again later.  A board that missed the PROVISION stays without a
  network and takes the one of its own peer: the node has two.  A board that
  missed the winner keeps its role and distance: there are two local roots, or
  the default gateway is a board that is none.  A board that missed a request
  does not pass it on, and a center that missed it does not answer.  Each
  property excepts exactly the kinds that break it; `RootStays` holds whatever is
  missed.  A *repeated* broadcast breaks none of them: `on_provision` skips a
  board that has a network (`SkipProvision`), a second winner says what the first
  did, a second request restarts the timer or finds the board waiting.
* Distance 1 (Gateway).  `peer.c:34` takes the distance of the handshake without
  adding a hop, so the board that a board of the root node provisions is at
  distance 1, which stands for the root's own boards.  It is the normal case of
  every node beside the root node, and part of the model: such a board ignores
  winners (`sibling.c:89`), so that it stays local root beside a better informed
  one, and does not wait when its peer asks (`peer.c:107`).  `OneLocalRoot`,
  `LocalRootIsGateway` and `RequestsKept` say what is left there.
* `zero_route` (Gateway).  A client's handshake carries 0.0.0.0/0 (the finding);
  the loop at `peer.c:91` does the same with the empty entries of a request,
  since it tests `hag_networks[0]`.  The board becomes the default gateway.  If
  it waits for an answer that answer moves the route; a board at distance 1 does
  not wait.
* Requests that do not end (Gateway).  Each one restarts the ten seconds of
  `root.c:43`, so an answer may be postponed as long as they come, which the
  bound on the events of peers leaves out.
* `overlap` (PeerLink).  `client_close` and `server_close` do not wait for their
  tasks.  Once a task of the previous link meets the next one they share sockets
  and flags, and a board may hear of a loss after the new connection.
  `wireless.h:32` (no message before its peer's event) does not hold on the
  client, which reports the peer because of its first message.
* `misled` (Discovery).  `pm_reset_priority_list` at the start of a station task
  wipes what faster siblings have already sent, or a broadcast fails; two boards
  then have the same turn, contrary to `device.c:179` (whose 10 seconds are 15,
  `device.c:15`).
* `disturbed` (Discovery).  Two boards that have an address before they hear of
  each other disable each other, contrary to the purpose stated at
  `channel_manager.c:49`; as only `device_reset` clears `sta_lock`
  (`node_enable_sta` is never called), the node may then have no station left.
  The same holds for a board in a scan: the connection after it does not read
  `sta_lock` again.  `StaysOnline` also excepts a full access point, which
  leaves a refused board alone with locked siblings. `ApartFromUplink` is about
  the moment at which an access point gets its channel: it keeps it when the
  connection is lost and the board then joins a network on that very channel,
  which takes two losses and networks that are heard equally well.
* `Clean`, `failed` (SharedTable).  Nobody looks at the result of `ss_refresh`:
  a board that missed one and then changes the table removes the change from the
  whole node, which nothing repairs.  `shared_state.h:39` says that `ss_watch`
  aborts outside the critical section; no code checks it.
* `settled`, `calm` (PacketPath).  *Locks by value*: `mutex_lock` takes the address
  of a handle, but `shared_state.c:27,54,55` and `routing.c:235` pass the handle
  itself.  Its first word is null for a FreeRTOS mutex, so these calls return
  without locking, and a packet may be routed with a half-copied table.  What is
  left is that such a packet stays in the ring and is routed right by the next
  board that has settled.  `routing.h:114` names an answer for packets that loop;
  `rt_do_route` has none, and `GoesRound` says which ones do until their time to
  live ends.
* `NoAddress`, `OfLink` (PacketPath).  The subnet and mask of a station are zero
  until its first address, and 0/0 matches every destination (`device.c:281-283`): a
  board that still looks for a network takes every packet that comes round, its
  hook names the Wi-Fi interface, and the packet is lost.  After a connection the
  peer's network stays until the next one (`station.c:188-189`), and packets for it
  leave by a link that is gone.  `LeavesWhereItShould` lists both among the ways
  out; it is not what `device_is_point_to_point_message` is for, but no text of the
  repository promises otherwise.

## 6. What is proved

The theorems are checked by TLAPS for every value of the constants that the
assumptions of the modules allow.

* `LockProofs`, part TokenRing, for any number of boards from 2 on, any subset
  of them present (the center included), any tasks of the center, any number of
  copies up to `MAX_RETRIES`: `TypeCorrect` is the type invariant, strengthened
  by the steps at which only the sibling task can be.  `MutualExclusionHolds`
  and `FullRoundHolds` follow from `RingInv`: while the ring is clean there is
  at most one token, and a token that flies to or is held by board *d* has
  visited exactly the boards before *d*. Mutual exclusion alone is not
  inductive, as a step of a second token would break it; that the visited boards
  are an interval starting at the first is what makes the token unique and the
  round full.  `NeverBlockedHolds` is inductive with the types: each step that
  takes a grant away either sends one or leaves the center at the step that
  reissues or retires.  `NoLostWakeupHolds` needs what every task of the center
  has read between its steps (`WakeInv`): unless a request was overlooked, one
  that is about to be counted has its token out, and the sibling task does not
  retire one over a request that is counted. `ImplementsLockWhileClean` maps
  each step to a step of `DistributedLock` or to a stutter.
* `RoutingProofs`, part RoutingTable, for any width, networks, outputs and capacity:
  `TableInvariant` (typed, within the capacity, sorted, no network twice) is
  inductive as it is, by one lemma per operation; `SortedHolds` is its part about
  order.  `LongestPrefixMatchHolds`: in a sorted table the first match is the
  longest, and two networks of one length that match an address are the same.
  `ImplementsMapHolds`: each outcome of adding and the compaction of a removal are
  the step of the map, because no network has two entries.
* `RoutingProofs`, part PacketPath, for any number of boards, networks, links
  and destinations: for links in any state, `GoesRoundHolds` and
  `LeavesWhereItShouldHolds` follow from `PathInvariant`: none of the boards a
  packet has passed since the last change would take it (`Behind` says which
  those are).  After N hops these are all boards, and the board that the longest
  match names is one of them; a board does not give a packet to the link it came
  by because it has refused it once. `PathTypeCorrect` is a part of it.
* `LockProofs`, part SharedTable, for any number of boards and any late
  registrations: `NoRouteLostHolds`.  A step of SharedTable is one of TokenRing,
  so its `RingInv` holds and the board inside is alone.  `SharedInv` adds that
  while the ring is clean and no refresh failed every present board is
  `CaughtUp`: the last refresh in its inbox, or its copy if there is none,
  contains all changes.  A grant is taken with an empty inbox.  A board that
  registers late is allowed for: with no refresh failed there has been none that
  it missed.
* `EventQueuesProofs`, for any producers, capacities and numbers of events:
  `SiblingEventsTheorem` and `SiblingMessagesTheorem` follow from `InternalInv`,
  which adds that once a turn has dispatched the internal queue everything in it
  is among the dispatched events; a message that the full queue refuses is none
  of the accepted ones.  `PeerEventsTheorem` is about a queue without
  collisions, and needs `ExternalInv`: one producer at a time with what it holds
  between its steps, and the slots are the accepted events from `Base` on, where
  `Base` counts those of earlier turns.  That the dispatched events are a prefix
  of the accepted ones is not inductive without the offset.
* `RingProofs`, part RingBroadcast, for any number of boards, any time to live
  that is enough for them, any queues, tries, senders and losses: `InOrderHolds`
  follows from `OrderInv`.  That a board's own line is in order is not
  inductive, since a packet that arrives must be newer than all the board has
  got; so what is further along the ring, or was got there, was sent earlier
  (`SentEarlier`, `GotEarlier`).  `SuccessUntilTimeoutHolds` follows from
  `TryInv`: until its first timeout a board has at most one packet in the ring,
  and exactly the boards behind it got the message (`OnePacket`); an
  acknowledgement, read or pending, means all of them did (`CameBack`).
  `BroadcastInvariant` is both, with types. `CopiesAlongRingHolds` holds after
  timeouts and losses too, and follows from `CopyInv`: what a board has got of a
  message, together with the copies on the link to it, is never more than what
  the board before it got, or than its sender has put on the ring (`CopiesInv`).
  Going from neighbours to boards any distance apart would be an induction along
  the ring, which is out of the provers' reach; so `AlongInv` says it for all
  pairs of boards and each step preserves it. `ImplementsSiblingsHolds` maps
  each step to one of `SiblingBroadcast`: `Start` begins a broadcast, `Clear` is
  a success or a retry, `Forward` the arrival of a copy, which `CopiesInv` and
  `OrderInv` allow, `Timeout` the wait in vain, and every other step a stutter.
* `RingProofs`, part BufferPool, for any pool, queue sizes and packets:
  `ConservedTheorem` from `PoolInv` (the queues and the tasks' buffers share out
  the pool: the number of places taken is its size and every buffer is in one of
  them, so none is in two).  `HandledInOrderTheorem` from `PoolOrderInv`: the
  packets that have arrived, those for the internal handlers and those for the
  interface are each sorted by arrival, the last two are older than the first
  and newer than what was handled, and SPI does not write a buffer that is
  elsewhere (`SpiIsAlone`).
* `GatewayProofs`, for any boards, networks, distances, numbers of events, and
  numbers of boards that miss broadcasts or get them repeatedly, in the root
  node and in another: `OneNetworkTheorem`, `OneLocalRootTheorem`,
  `LocalRootIsGatewayTheorem`, `RootStaysTheorem` and `RequestsKeptTheorem`
  follow from `GatewayInvariant`.  Its parts: a board without a network knows
  nothing of its peer (`WithoutInv`); the board in the section has its turn
  (`TurnInv`); the boards of the root node are at distance 1 or have heard
  nothing yet (`RootInv`).  As long as no PROVISION and no winner was missed
  nothing is queued before the first board has a network, and afterwards the
  news of it leads the queue of each board that has none (`StartInv`).  As long
  as no PROVISION was missed all networks held or offered are one
  (`NetworkInv`).  As long as neither was, of two local roots one is about to
  hear of the other or is at distance 1, and one that is not the default gateway
  is about to step down (`RootsInv`); an unanswered request is on its way, to
  the center as well (`AskedInv`).  The properties speak of what boards have;
  the invariant also of what their queues will make of them.  A broadcast is
  covered by one lemma about queues that grow by any number of copies of one
  event (`CopiesGrow`).
* `NodeBootProofs`, for any number of boards, delays and power cuts, of the center
  too: `OneRoleHolds` from `BootInvariant`: there is a role that every board which
  is not about to restart has, or will get from the STARTUP that is behind the
  last RESET of its inbox; once the center has reset the others, it is the
  center's mode.
* `PeerLinkProofs`, for any retries, tasks, connections and mishaps:
  `RetryIsPendingTheorem` and `ClientFollowsRadioTheorem` follow from `StationInv`,
  the few lines of events that a station can see in each state of its radio,
  whatever the tasks do.  `LastEventIsTrueTheorem` and `SamePathTheorem` follow from
  `PathInv`, which holds as long as no task outlives its link: one task at each
  end, a last report that tells where it stands, and an older connection that
  the server has closed before the client hears anything on a newer one.
* `DiscoveryProofs`, for up to four boards, any networks around them, any delays
  with `LISTEN_TIME < SLOT` (10 and 15 seconds, `device.c`) and any mishaps.
  `DiscoveryInvariant` has a part for each theorem.  `InTurnHolds`: a board
  whose measurement is known, or waits in a line, has measured (`HeardInv`); so
  once a board waits with the right list all have measured, the others decide
  within `LISTEN_TIME`, and the timers of those that wait are in the order of
  their places (`TurnInv`).  `OneUplinkHolds`: one board at most has announced a
  connection, and every other one will hear of it before it is connected, or is
  disabled and *quiet* (no event of its radio can start it again), or is an
  access point (`SoleInv`); this needs the few lines of events a station can see
  (`StationInv`). That a single board is connected is not inductive: a disabled
  board may have an event of its radio still to come.  `ApartFromUplinkHolds`:
  the last announcement in a board's line, or its suggested channel if there is
  none, is that of the connection (`Suggests`), whose formation keeps off the
  connection's channel.

Every inductive invariant was checked by TLC before it was proved.  No run repeats
two properties that are proved: `InOrder`, which `ImplementsSiblings` contains
(`Arrive` of `SiblingBroadcast` takes nothing older than what has been got), and
`RootStays`.

Only model-checked: liveness under fairness and the two findings, for which the
prover has no support.  Every other property of the passing runs has a theorem.
Facts that need
induction over sequences with an operator as a parameter are out of the provers'
reach; the table's operations are therefore stated by what they return
(`IsPosition`, `Enumerates`) and not by their loops.

## 7. What is not modelled, and the plan

Not modelled:

* Input and output without effect on the protocols: HTTP reports, traffic
  counters, pin configuration, host tools, firmware bundles, hardware documents.
  The remote control of a home node only locks or unlocks the center's access
  point or restarts the center, which `PeerLink` and `NodeBoot` allow at any
  moment.  AP+STA is a flag that only makes an access point out of a board that
  is not the root's (`node.c:193`).
* `wireless.c` and `os.c` call through; set-up of interfaces, MACs and addresses;
  copies between lwIP's buffers and the ring's.
* Messages about the distance to the root (`DTR_UPDATE`), which nothing ever sends.
* Several nodes.  A node that loses its uplink keeps its network when another one
  takes it in, and may even connect to a node below itself; requests for a gateway
  are not passed to other nodes.  `get_node_subnet` takes three bits per node,
  and for a network of 29 bits the shift at `utils.c:20` is by 32, which C does not
  define.
* TCP's lack of message boundaries: `routing.c:139` takes what one `recv` returns
  for one message.
* Failures of `socket`, `bind` and `listen` (`server.c:84` then leaves
  `server_is_up` set and no server); a station task that is deleted while it
  holds a lock; a power cut of the access point of a link, or during a broadcast.

Wi-Fi, DHCP, TCP and lwIP's forwarding are external: what they may do is modelled,
not how.

Done, in this order: TokenRing with its proofs, RoutingTable with its proofs,
EventQueues, RingBroadcast, BufferPool, Gateway, NodeBoot, PeerLink, Discovery,
SharedTable with its proof, PacketPath with its proofs, the order of peer events
and messages in Gateway, the proofs about EventQueues, BufferPool, Gateway,
PeerLink, NodeBoot, RingBroadcast and Discovery, SiblingBroadcast with the proof
that RingBroadcast implements it.

Next:

1. Composition of Discovery and Gateway: provisioning in place of the two steps
   `Handshake` and `BecomesAp`; then several nodes, each one reduced to its network,
   uplink and default gateway.
2. An answer of the root in spite of requests that keep coming (`root.c:43`).
3. Messages that TCP joins or splits (`routing.c:139`).
