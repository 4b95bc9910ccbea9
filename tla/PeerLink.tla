------------------------------ MODULE PeerLink ------------------------------
(***************************************************************************)
(* The wireless link between two nodes: the board that is a station and    *)
(* the board that is its access point.  On the station, the event handler  *)
(* of station.c follows the radio and opens and closes the TCP client; on  *)
(* the access point, the one of access_point.c creates and closes the TCP  *)
(* server.  Their tasks report the peer and its messages to callbacks.c,   *)
(* whose tasks pass them on to the routing.                                *)
(*                                                                         *)
(* Closing a client or a server only clears a flag that its task reads     *)
(* between two connections, and no handler waits for the task to end: one  *)
(* that is in recv outlives the link, and may meet the task of the next.   *)
(* The history variable overlap tells the behaviours where it does.        *)
(*                                                                         *)
(* The radio, DHCP and TCP are external.  When the station loses the       *)
(* radio, the stack aborts its connections or leaves them open; the server *)
(* probes an idle peer (keepalive), the client does not.  Messages are the *)
(* handshakes that the routing sends when it hears of a peer.              *)
(***************************************************************************)
EXTENDS Naturals, Sequences, SequencesExt

CONSTANTS
  MAX_RETRIES,   \* of station.c
  QueueLength,   \* PEER_QUEUE_LENGTH
  Tasks,         \* bound: tasks of one end that are alive at a time
  Conns,         \* bound: connections that exist at a time
  MaxMishaps     \* bound: losses, failures, power cuts and commands

ASSUME RetriesAssumption == MAX_RETRIES \in Nat
ASSUME QueueAssumption == QueueLength \in Nat \ {0}
ASSUME ConnsAssumption == Tasks \subseteq Nat /\ Conns \subseteq Nat \ {0}

NoConn == 0  \* -1 in the code
End == {"client", "server"}
Reason == {"DISCONNECTED", "TOOMANY"}

VARIABLES
  radio,    \* the station's driver: idle, connecting or up
  events,   \* its events, before the station's handlers
  sta,      \* station_t, s_retry_num and the state of its interface
  ap,       \* whether the access point saw the station, and its ap_lock
  client,   \* client.c: sta_is_up, server_sock, peer_connected
  server,   \* server.c: server_is_up, client_sock, is listen_sock open
  ctask,    \* tasks of client.c
  stask,    \* tasks of server.c
  conn,     \* connections: both ends, and a handshake on its way to each
  evq,      \* peer_event_queue of each board
  board,    \* the last event that its routing heard
  owes,     \* whether its routing has a handshake to send
  overlap,  \* history: a task started while another one of its end lived
  mishaps   \* history: number of mishaps

staVars == <<radio, events, sta>>
boardVars == <<evq, board, owes>>
history == <<overlap, mishaps>>
vars == <<staVars, ap, client, server, ctask, stask, conn, boardVars, history>>

NoTask == [pc |-> "none", conn |-> NoConn]
Alive(task) == {t \in Tasks : task[t].pc # "none"}
First(t, task) == \A u \in Tasks \ Alive(task) : t <= u

\* station_init and the driver's interface
NewStation == [active |-> FALSE, retry |-> 0, full |-> FALSE, dhcp |-> FALSE,
               netif |-> "down", blocked |-> FALSE]
NewClient == [up |-> FALSE, sock |-> NoConn, peer_connected |-> FALSE]
NewConn == [cl |-> "closed", sv |-> "closed", toClient |-> FALSE,
            toServer |-> FALSE]

Init ==
  /\ radio = "idle" /\ events = <<>> /\ sta = NewStation
  /\ ap = [sees |-> FALSE, locked |-> FALSE]
  /\ client = NewClient
  /\ server = [up |-> FALSE, sock |-> NoConn, listening |-> FALSE]
  /\ ctask = [t \in Tasks |-> NoTask]
  /\ stask = [t \in Tasks |-> NoTask]
  /\ conn = [c \in Conns |-> NewConn]
  /\ evq = [e \in End |-> <<>>]
  /\ board = [e \in End |-> "LOST"]
  /\ owes = [e \in End |-> FALSE]
  /\ overlap = FALSE
  /\ mishaps = 0

Mishap == mishaps < MaxMishaps /\ mishaps' = mishaps + 1

----------------------------------------------------------------------------
(* client_open and client_close                                            *)

Spawn(task, t) == [task EXCEPT ![t] = [pc |-> "top", conn |-> NoConn]]

ClientOpen ==
  IF client.up THEN UNCHANGED <<client, ctask, overlap>>
  ELSE \E t \in Tasks \ Alive(ctask) :
         /\ First(t, ctask)
         /\ client' = [client EXCEPT !.up = TRUE]
         /\ ctask' = Spawn(ctask, t)
         /\ overlap' = (overlap \/ Alive(ctask) # {})

ClientClose == client' = [client EXCEPT !.up = FALSE]

----------------------------------------------------------------------------
(* The station: the task of device.c and the driver.                       *)

\* A scan that finds the access point, and station_connect.  A scan that
\* does not is tried again.
StationConnect ==
  /\ ~sta.active /\ ~sta.blocked
  /\ sta' = [sta EXCEPT !.active = TRUE, !.retry = 0, !.dhcp = TRUE]
  /\ radio' = IF radio = "idle" THEN "connecting" ELSE radio
  /\ UNCHANGED <<events, ap, client, server, ctask, stask, conn, boardVars,
                 history>>

Associates ==
  /\ radio = "connecting"
  /\ radio' = "up"
  /\ events' = Append(events, "CONNECTED")
  /\ UNCHANGED <<sta, ap, client, server, ctask, stask, conn, boardVars,
                 history>>

AssociationFails(r) ==
  /\ radio = "connecting" /\ Mishap
  /\ radio' = "idle"
  /\ events' = Append(events, r)
  /\ UNCHANGED <<sta, ap, client, server, ctask, stask, conn, boardVars,
                 overlap>>

Lease ==
  /\ radio = "up" /\ sta.netif = "up" /\ sta.dhcp
  /\ sta' = [sta EXCEPT !.netif = "leased"]
  /\ events' = Append(events, "GOT_IP")
  /\ UNCHANGED <<radio, ap, client, server, ctask, stask, conn,
                 boardVars, history>>

\* What the stack does to the station's connections when the radio is lost.
Abort == conn' = [c \in Conns |-> IF conn[c].cl = "open"
                                  THEN [conn[c] EXCEPT !.cl = "broken"]
                                  ELSE conn[c]]

Drop ==
  /\ radio' = "idle"
  /\ events' = Append(events, "DISCONNECTED")
  /\ Abort \/ UNCHANGED conn

RadioLost ==
  /\ radio = "up" /\ Mishap
  /\ Drop
  /\ UNCHANGED <<sta, ap, client, server, ctask, stask, boardVars, overlap>>

----------------------------------------------------------------------------
(* The station's event handler, and the driver's own before it.            *)

\* The driver's handlers bring the interface up; an interface with a static
\* address has it at once.
OnConnected ==
  /\ sta' = [sta EXCEPT !.netif = "up"]
  /\ events' = IF sta.dhcp THEN Tail(events)
               ELSE Append(Tail(events), "GOT_IP")
  /\ UNCHANGED <<radio, client, ctask, overlap>>

\* The counter after the lines that block a full access point.
Retry(r) == IF r = "TOOMANY" THEN MAX_RETRIES ELSE sta.retry

\* Mutant: the station stays active.
GivesUp_Active(s) == [s EXCEPT !.retry = 0]

\* The station gives up: its task will scan again.
GivesUp(s) == [s EXCEPT !.active = FALSE, !.retry = 0]

\* Mutant: the client is left open.
OnDisconnected_NoClose(r) ==
  LET s == [sta EXCEPT !.netif = "down", !.full = FALSE,
                       !.blocked = @ \/ r = "TOOMANY"] IN
  /\ events' = Tail(events)
  /\ IF Retry(r) < MAX_RETRIES
     THEN /\ sta' = [s EXCEPT !.retry = Retry(r) + 1]
          /\ radio' = IF radio = "idle" THEN "connecting" ELSE radio
     ELSE sta' = GivesUp(s) /\ UNCHANGED radio
  /\ UNCHANGED <<client, ctask, overlap>>

OnDisconnected(r) ==
  LET s == [sta EXCEPT !.netif = "down", !.full = FALSE,
                       !.blocked = @ \/ r = "TOOMANY"] IN
  /\ IF sta.full THEN ClientClose ELSE UNCHANGED client
  /\ events' = Tail(events)
  /\ IF Retry(r) < MAX_RETRIES
     THEN /\ sta' = [s EXCEPT !.retry = Retry(r) + 1]
          /\ radio' = IF radio = "idle" THEN "connecting" ELSE radio
     ELSE /\ sta' = GivesUp(s)
          /\ UNCHANGED radio
  /\ UNCHANGED <<ctask, overlap>>

\* The first address is replaced by a static one, which is an event again.
OnLease ==
  /\ sta' = [sta EXCEPT !.full = TRUE, !.dhcp = FALSE]
  /\ events' = IF sta.netif # "down" THEN Append(Tail(events), "GOT_IP")
               ELSE Tail(events)
  /\ UNCHANGED <<radio, client, ctask, overlap>>

OnStaticAddress ==
  /\ ClientOpen
  /\ sta' = [sta EXCEPT !.retry = 0]
  /\ events' = Tail(events)
  /\ UNCHANGED radio

StationEvent ==
  /\ events # <<>>
  /\ LET x == Head(events) IN
     \/ x = "CONNECTED" /\ OnConnected
     \/ x \in Reason /\ OnDisconnected(x)
     \/ x = "GOT_IP" /\ ~sta.full /\ OnLease
     \/ x = "GOT_IP" /\ sta.full /\ OnStaticAddress
  /\ UNCHANGED <<ap, server, stask, conn, boardVars, mishaps>>

----------------------------------------------------------------------------
(* The access point: its event handler, server_create and server_close.    *)

ServerCreate ==
  \E t \in Tasks \ Alive(stask) :
    /\ First(t, stask)
    /\ server' = [server EXCEPT !.up = TRUE]
    /\ stask' = [stask EXCEPT ![t] = [pc |-> "start", conn |-> NoConn]]
    /\ overlap' = (overlap \/ Alive(stask) # {})

\* close(listen_sock): accept returns an error, and the connection in the
\* backlog is reset, which its client hears while there is a radio.
ClosesListening(s, task) ==
  /\ server' = [s EXCEPT !.listening = FALSE]
  /\ stask' = [t \in Tasks |-> IF task[t].pc = "accept"
                               THEN [task[t] EXCEPT !.pc = "top"] ELSE task[t]]
  /\ conn' = [c \in Conns |->
       IF conn[c].sv # "backlog" THEN conn[c]
       ELSE [conn[c] EXCEPT !.sv = "closed",
               !.cl = IF @ = "open" /\ radio = "up" THEN "broken" ELSE @]]

ServerClose == ClosesListening([server EXCEPT !.up = FALSE], stask)

\* STACONNECTED.  A locked access point sends every station away.
SeesStation ==
  /\ radio = "up" /\ ~ap.sees
  /\ IF ap.locked
     THEN /\ Drop
          /\ UNCHANGED <<ap, server, stask, overlap>>
     ELSE /\ ap' = [ap EXCEPT !.sees = TRUE]
          /\ IF server.up THEN UNCHANGED <<server, stask, overlap>>
             ELSE ServerCreate
          /\ UNCHANGED <<radio, events, conn>>
  /\ UNCHANGED <<sta, client, ctask, boardVars, mishaps>>

\* STADISCONNECTED, at once or after 30 seconds; never when the station is
\* back before.
MissesStation ==
  /\ radio # "up" /\ ap.sees
  /\ ap' = [ap EXCEPT !.sees = FALSE]
  /\ IF server.up THEN ServerClose ELSE UNCHANGED <<server, stask, conn>>
  /\ UNCHANGED <<staVars, client, ctask, boardVars, history>>

\* node_disable_ap and node_enable_ap
LockAp ==
  /\ ~ap.locked /\ Mishap
  /\ ap' = [ap EXCEPT !.locked = TRUE]
  /\ IF radio = "up" THEN Drop ELSE UNCHANGED <<radio, events, conn>>
  /\ UNCHANGED <<sta, client, server, ctask, stask, boardVars, overlap>>

UnlockAp ==
  /\ ap.locked
  /\ ap' = [ap EXCEPT !.locked = FALSE]
  /\ UNCHANGED <<staVars, client, server, ctask, stask, conn, boardVars,
                 history>>

----------------------------------------------------------------------------
(* Reports to callbacks.c: node_on_peer_connected and node_on_peer_lost    *)
(* wait while the queue is full.  Messages go through a queue of their     *)
(* own, which is left out.                                                 *)

Report(e, x) ==
  /\ Len(evq[e]) < QueueLength
  /\ evq' = [evq EXCEPT ![e] = Append(@, x)]

Goes(task, t, pc) == [task EXCEPT ![t].pc = pc]

----------------------------------------------------------------------------
(* tcp_client_task                                                         *)

ClientLoop(t) ==
  /\ ctask[t].pc = "top"
  /\ ctask' = IF client.up THEN Goes(ctask, t, "connect")
              ELSE [ctask EXCEPT ![t] = NoTask]
  /\ UNCHANGED <<client, conn, boardVars>>

Free(c) == conn[c].cl = "closed" /\ conn[c].sv = "closed"

\* The stack takes one connection that was not accepted yet.
Accepts == radio = "up" /\ server.listening
           /\ \A c \in Conns : conn[c].sv # "backlog"

ClientConnects(t) ==
  /\ ctask[t].pc = "connect" /\ Accepts
  /\ \E c \in Conns :
       /\ Free(c) /\ \A d \in Conns : Free(d) => c <= d
       /\ conn' = [conn EXCEPT ![c] = [NewConn EXCEPT !.cl = "open",
                                                      !.sv = "backlog"]]
       /\ ctask' = [ctask EXCEPT ![t] = [pc |-> "recv", conn |-> c]]
       /\ client' = [client EXCEPT !.sock = c]
  /\ UNCHANGED boardVars

ClientCannotConnect(t) ==
  /\ ctask[t].pc = "connect" /\ ~Accepts
  /\ ctask' = Goes(ctask, t, "top")
  /\ UNCHANGED <<client, conn, boardVars>>

\* recv returns a message, and node_on_peer_message
ClientReceives(t) ==
  LET c == ctask[t].conn IN
  /\ ctask[t].pc = "recv" /\ conn[c].cl = "open"
  /\ conn[c].toClient /\ radio = "up"
  /\ conn' = [conn EXCEPT ![c].toClient = FALSE]
  /\ ctask' = Goes(ctask, t, "received")
  /\ UNCHANGED <<client, boardVars>>

\* The first message is what tells the client that it has a peer.
ClientMeetsPeer(t) ==
  /\ ctask[t].pc = "received"
  /\ IF client.peer_connected
     THEN ctask' = Goes(ctask, t, "recv") /\ UNCHANGED evq
     ELSE ctask' = Goes(ctask, t, "met") /\ Report("client", "CONNECTED")
  /\ UNCHANGED <<client, conn, board, owes>>

ClientHasMet(t) ==
  /\ ctask[t].pc = "met"
  /\ client' = [client EXCEPT !.peer_connected = TRUE]
  /\ ctask' = Goes(ctask, t, "recv")
  /\ UNCHANGED <<conn, boardVars>>

\* Mutant: the loss of the peer is not reported.
ClientRecvEnds_Silent(t) ==
  /\ ctask[t].pc = "recv" /\ conn[ctask[t].conn].cl = "broken"
  /\ ctask' = Goes(ctask, t, "close")
  /\ UNCHANGED <<client, conn, boardVars>>

\* recv returns an error or the end of the connection
ClientRecvEnds(t) ==
  /\ ctask[t].pc = "recv" /\ conn[ctask[t].conn].cl = "broken"
  /\ IF client.peer_connected
     THEN ctask' = Goes(ctask, t, "lost") /\ Report("client", "LOST")
     ELSE ctask' = Goes(ctask, t, "close") /\ UNCHANGED evq
  /\ UNCHANGED <<client, conn, board, owes>>

ClientForgets(t) ==
  /\ ctask[t].pc = "lost"
  /\ client' = [client EXCEPT !.peer_connected = FALSE]
  /\ ctask' = Goes(ctask, t, "close")
  /\ UNCHANGED <<conn, boardVars>>

ClientCloses(t) ==
  /\ ctask[t].pc = "close"
  /\ client' = [client EXCEPT !.sock = NoConn]
  /\ conn' = [conn EXCEPT ![ctask[t].conn].cl = "closed",
                          ![ctask[t].conn].toClient = FALSE]
  /\ ctask' = [ctask EXCEPT ![t] = [pc |-> "top", conn |-> NoConn]]
  /\ UNCHANGED boardVars

ClientStep(t) ==
  /\ \/ ClientLoop(t) \/ ClientConnects(t) \/ ClientCannotConnect(t)
     \/ ClientReceives(t) \/ ClientMeetsPeer(t) \/ ClientHasMet(t)
     \/ ClientRecvEnds(t) \/ ClientForgets(t) \/ ClientCloses(t)
  /\ UNCHANGED <<staVars, ap, server, stask, history>>

----------------------------------------------------------------------------
(* tcp_server_task                                                         *)

\* socket, bind and listen
ServerListens(t) ==
  /\ stask[t].pc = "start"
  /\ server' = [server EXCEPT !.listening = TRUE]
  /\ stask' = Goes(stask, t, "top")
  /\ UNCHANGED <<conn, boardVars>>

\* While listen_sock is closed accept fails at once, and the loop spins.
ServerLoop(t) ==
  /\ stask[t].pc = "top"
  /\ IF ~server.up THEN stask' = Goes(stask, t, "cleanup")
     ELSE server.listening /\ stask' = Goes(stask, t, "accept")
  /\ UNCHANGED <<server, conn, boardVars>>

ServerAccepts(t) ==
  /\ stask[t].pc = "accept"
  /\ \E c \in Conns :
       /\ conn[c].sv = "backlog"
       /\ conn' = [conn EXCEPT ![c].sv = "open"]
       /\ stask' = [stask EXCEPT ![t] = [pc |-> "accepted", conn |-> c]]
       /\ server' = [server EXCEPT !.sock = c]
  /\ UNCHANGED boardVars

ServerMeetsPeer(t) ==
  /\ stask[t].pc = "accepted" /\ Report("server", "CONNECTED")
  /\ stask' = Goes(stask, t, "recv")
  /\ UNCHANGED <<server, conn, board, owes>>

ServerReceives(t) ==
  LET c == stask[t].conn IN
  /\ stask[t].pc = "recv" /\ conn[c].sv = "open"
  /\ conn[c].toServer /\ radio = "up"
  /\ conn' = [conn EXCEPT ![c].toServer = FALSE]
  /\ UNCHANGED <<server, stask, boardVars>>

\* Mutant: the loss of the peer is not reported.
ServerRecvEnds_Silent(t) ==
  /\ stask[t].pc = "recv" /\ conn[stask[t].conn].sv = "broken"
  /\ stask' = Goes(stask, t, "lost")
  /\ UNCHANGED <<server, conn, boardVars>>

ServerRecvEnds(t) ==
  /\ stask[t].pc = "recv" /\ conn[stask[t].conn].sv = "broken"
  /\ Report("server", "LOST")
  /\ stask' = Goes(stask, t, "lost")
  /\ UNCHANGED <<server, conn, board, owes>>

ServerCloses(t) ==
  /\ stask[t].pc = "lost"
  /\ server' = [server EXCEPT !.sock = NoConn]
  /\ conn' = [conn EXCEPT ![stask[t].conn].sv = "closed",
                          ![stask[t].conn].toServer = FALSE]
  /\ stask' = [stask EXCEPT ![t] = [pc |-> "top", conn |-> NoConn]]
  /\ UNCHANGED boardVars

\* CLEAN_UP closes listen_sock, whoever opened it.
ServerCleansUp(t) ==
  /\ stask[t].pc = "cleanup"
  /\ ClosesListening(server, [stask EXCEPT ![t] = NoTask])
  /\ UNCHANGED boardVars

ServerStep(t) ==
  /\ \/ ServerListens(t) \/ ServerLoop(t) \/ ServerAccepts(t)
     \/ ServerMeetsPeer(t) \/ ServerReceives(t) \/ ServerRecvEnds(t)
     \/ ServerCloses(t) \/ ServerCleansUp(t)
  /\ UNCHANGED <<staVars, ap, client, ctask, history>>

----------------------------------------------------------------------------
(* TCP: the close of an end reaches the other one while there is a radio,  *)
(* and keepalive breaks what does not answer.                              *)

ClientHearsClose(c) ==
  /\ radio = "up" /\ conn[c].cl = "open" /\ conn[c].sv = "closed"
  /\ conn' = [conn EXCEPT ![c].cl = "broken"]
  /\ UNCHANGED <<staVars, ap, client, server, ctask, stask, boardVars,
                 history>>

\* Mutant: the server does not probe either.
ServerKeepalive_Off(c) == FALSE /\ UNCHANGED vars

ServerKeepalive(c) ==
  /\ conn[c].sv = "open" /\ (radio # "up" \/ conn[c].cl # "open")
  /\ conn' = [conn EXCEPT ![c].sv = "broken"]
  /\ UNCHANGED <<staVars, ap, client, server, ctask, stask, boardVars,
                 history>>

----------------------------------------------------------------------------
(* The boards: the tasks of callbacks.c, and the routing's handshake.      *)

PeerEvent(e) ==
  /\ evq[e] # <<>>
  /\ evq' = [evq EXCEPT ![e] = Tail(@)]
  /\ board' = [board EXCEPT ![e] = Head(evq[e])]
  /\ owes' = [owes EXCEPT ![e] = @ \/ Head(evq[e]) = "CONNECTED"]
  /\ UNCHANGED <<staVars, ap, client, server, ctask, stask, conn, history>>

\* The socket that client_send_message or server_send_message uses, if send
\* accepts data for it.
Sock(e) == IF e = "client" THEN client.sock ELSE server.sock
CanSend(e) == Sock(e) # NoConn
              /\ (IF e = "client" THEN conn[Sock(e)].cl
                  ELSE conn[Sock(e)].sv) = "open"

\* node_send_wireless_message: a try succeeds, or all of them fail.
Sends(e) ==
  /\ owes[e]
  /\ owes' = [owes EXCEPT ![e] = FALSE]
  /\ IF CanSend(e)
     THEN LET c == Sock(e) IN
          conn' = IF e = "client"
                  THEN [conn EXCEPT ![c].toServer = conn[c].sv # "closed"]
                  ELSE [conn EXCEPT ![c].toClient = conn[c].cl # "closed"]
     ELSE UNCHANGED conn
  /\ UNCHANGED <<staVars, ap, client, server, ctask, stask, evq, board,
                 history>>

----------------------------------------------------------------------------
\* The station loses power and starts again.
PowerLoss ==
  /\ Mishap
  /\ radio' = "idle" /\ events' = <<>> /\ sta' = NewStation
  /\ client' = NewClient
  /\ ctask' = [t \in Tasks |-> NoTask]
  /\ conn' = [c \in Conns |->
                 [conn[c] EXCEPT !.cl = "closed", !.toClient = FALSE]]
  /\ evq' = [evq EXCEPT !["client"] = <<>>]
  /\ board' = [board EXCEPT !["client"] = "LOST"]
  /\ owes' = [owes EXCEPT !["client"] = FALSE]
  /\ UNCHANGED <<ap, server, stask, overlap>>

Environment ==
  \/ RadioLost \/ (\E r \in Reason : AssociationFails(r)) \/ PowerLoss
  \/ LockAp \/ UnlockAp

Scheduled ==
  \/ StationConnect \/ Associates \/ Lease \/ StationEvent
  \/ SeesStation \/ MissesStation
  \/ \E t \in Tasks : ClientStep(t) \/ ServerStep(t)
  \/ \E c \in Conns : ClientHearsClose(c) \/ ServerKeepalive(c)
  \/ \E e \in End : PeerEvent(e) \/ Sends(e)

Next == Environment \/ Scheduled

Spec == Init /\ [][Next]_vars

Fairness ==
  /\ WF_vars(StationConnect) /\ WF_vars(Associates) /\ WF_vars(Lease)
  /\ WF_vars(StationEvent) /\ WF_vars(SeesStation) /\ WF_vars(MissesStation)
  /\ \A t \in Tasks : WF_vars(ClientStep(t)) /\ WF_vars(ServerStep(t))
  /\ \A c \in Conns : /\ WF_vars(ClientHearsClose(c))
                      /\ WF_vars(ServerKeepalive(c))
  /\ \A e \in End : WF_vars(PeerEvent(e)) /\ WF_vars(Sends(e))

FairSpec == Spec /\ Fairness

----------------------------------------------------------------------------
(* Properties                                                              *)

\* station.c: an active station is connected, connecting, or has an event
\* pending that makes it connect again or gives the link up to its task; no
\* order of losses, retries and give-ups leaves it waiting for nothing.
RetryIsPending ==
  sta.active /\ radio = "idle" => ToSet(events) \cap Reason # {}

\* station.c, client.c: when the handlers have seen all events, the client is
\* open only on a station that has its radio and its static address.
ClientFollowsRadio ==
  events = <<>> /\ client.up => radio = "up" /\ sta.full

\* No report to the board is on its way.
QuietClient ==
  /\ evq["client"] = <<>>
  /\ \A t \in Tasks : ctask[t].pc \in {"none", "top", "connect", "recv"}
QuietServer == /\ evq["server"] = <<>>
               /\ \A t \in Tasks : stask[t].pc \notin {"accepted", "lost"}

\* client.c, server.c, callbacks.c: with no report on its way, a board that
\* was told of a peer has a task that reads from a connection, and the
\* server's board is told of every peer -- unless a task outlived its link.
LastEventIsTrue ==
  ~overlap =>
    /\ QuietServer => (board["server"] = "CONNECTED"
                        <=> \E t \in Tasks : stask[t].pc = "recv")
    /\ QuietClient => (board["client"] = "CONNECTED" <=> client.peer_connected)
    /\ QuietClient /\ client.peer_connected =>
         \E t \in Tasks : ctask[t].pc = "recv"

\* client.c, server.c: two boards that both believe to have a peer send to
\* each other on one connection -- unless a task outlived its link.
SamePath ==
  (/\ ~overlap /\ QuietServer /\ QuietClient
   /\ \A e \in End : board[e] = "CONNECTED")
  => client.sock = server.sock

\* The comment of server_create (server.c:158): its check prevents that the
\* server is started when it is already running, so that no task reads from
\* a connection while another one accepts the next.
OneServerTask ==
  \A t, u \in Tasks : stask[t].pc = "recv" => stask[u].pc # "accept"

\* station.c to callbacks.c: a link whose mishaps end comes up for both
\* boards and stays up, unless the station found the access point full, or
\* a task outlived its link.
Undisturbed == ~overlap /\ ~sta.blocked
LinkComesUp ==
  []Undisturbed /\ <>[]~ap.locked =>
    <>[](\A e \in End : board[e] = "CONNECTED")
=============================================================================
