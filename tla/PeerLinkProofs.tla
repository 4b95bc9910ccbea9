-------------------------- MODULE PeerLinkProofs --------------------------
(***************************************************************************)
(* Safety of the wireless link (PeerLink) for every number of retries,     *)
(* tasks, connections and mishaps.                                         *)
(*                                                                         *)
(* Two inductive invariants.  StationInv is about the station's radio and  *)
(* the events on their way to its handlers: there are few lines of events  *)
(* that they can ever see, and LinkIsOff, LinkIsOn and LossIsPending say   *)
(* which, by the state of the radio.  It holds whatever the tasks do.      *)
(* PathInv is about the tasks, their reports and their connections, for    *)
(* as long as no task outlives its link: one task at each end, a last      *)
(* report that tells where it stands, and an older connection that the     *)
(* server has closed once the client hears anything on a newer one.        *)
(***************************************************************************)
EXTENDS PeerLink, SequenceTheorems, TLAPS

Word == {"CONNECTED", "LOST"}
\* Where a task is while it has a connection.
ClientReads == {"recv", "received", "met", "lost", "close"}
ServerReads == {"accepted", "recv", "lost"}
ClientPc == {"none", "top", "connect"} \cup ClientReads
ServerPc == {"none", "start", "top", "accept", "cleanup"} \cup ServerReads

StationState ==
  [active : BOOLEAN, retry : Nat, full : BOOLEAN, dhcp : BOOLEAN,
   netif : {"down", "up", "leased"}, blocked : BOOLEAN]
ClientState == [up : BOOLEAN, sock : Conns \cup {NoConn},
                peer_connected : BOOLEAN]
ServerState == [up : BOOLEAN, sock : Conns \cup {NoConn}, listening : BOOLEAN]
ClientTask == [pc : ClientPc, conn : Conns \cup {NoConn}]
ServerTask == [pc : ServerPc, conn : Conns \cup {NoConn}]
Connection == [cl : {"closed", "open", "broken"},
               sv : {"closed", "backlog", "open", "broken"},
               toClient : BOOLEAN, toServer : BOOLEAN]

TypeOK ==
  /\ radio \in {"idle", "connecting", "up"}
  /\ sta \in StationState
  /\ client \in ClientState
  /\ server \in ServerState
  /\ ctask \in [Tasks -> ClientTask]
  /\ stask \in [Tasks -> ServerTask]
  /\ conn \in [Conns -> Connection]
  /\ evq \in [End -> Seq(Word)]
  /\ board \in [End -> Word]
  /\ overlap \in BOOLEAN

\* The lines of events that hold no loss.
Greetings == {<<>>, <<"GOT_IP">>, <<"CONNECTED">>, <<"GOT_IP", "CONNECTED">>}

\* What the line q of such events can be while no association was reported:
\* at most an address that came too late.
LinkIsOff(q) ==
  /\ sta.netif = "down" /\ ~client.up
  /\ \/ q = <<>>
     \/ q = <<"GOT_IP">> /\ ~sta.full

\* What it can be after the association: the report of it, perhaps behind a
\* late address, then an address that the interface really has.
LinkIsOn(q) ==
  \/ /\ sta.netif = "down" /\ ~client.up
     /\ \/ q = <<"CONNECTED">>
        \/ q = <<"GOT_IP", "CONNECTED">> /\ ~sta.full
  \/ /\ sta.netif # "down"
     /\ \/ q = <<>>
        \/ q = <<"GOT_IP">> /\ ~(sta.netif = "up" /\ sta.dhcp)

\* The loss came behind such a line; an address may still follow it, from a
\* handler that ran in between.
LossIsPending ==
  \E r \in Reason :
    \/ events = <<r, "GOT_IP">>
    \/ \E q \in Greetings : events = Append(q, r) /\ (LinkIsOff(q) \/ LinkIsOn(q))

\* What the handlers can find, by the state of the radio: a station that is not
\* active has no radio, and one that lost it while active still has the loss
\* before it.
StationInv ==
  /\ client.up => sta.full
  /\ ~sta.active => radio = "idle"
  /\ radio = "connecting" \/ ~sta.active => LinkIsOff(events)
  /\ radio = "up" => LinkIsOn(events)
  /\ radio = "idle" /\ sta.active => LossIsPending

\* At most one task of an end is alive.
OneTask(task) ==
  \A t, u \in Tasks : task[t].pc # "none" /\ task[u].pc # "none" => t = u

\* The last report to the board of e, seen by its routing or not.
Latest(e) == IF evq[e] = <<>> THEN board[e] ELSE evq[e][Len(evq[e])]

\* What the last report says is where the task stands: it reports before it
\* starts to read and after it has stopped.
ServerReports ==
  Latest("server") = "CONNECTED" <=> \E t \in Tasks : stask[t].pc = "recv"

ClientReports ==
  /\ Latest("client") = "CONNECTED" <=>
       \/ client.peer_connected /\ \A t \in Tasks : ctask[t].pc # "lost"
       \/ \E t \in Tasks : ctask[t].pc = "met"
  /\ client.peer_connected =>
       \E t \in Tasks : ctask[t].pc \in {"recv", "received", "lost"}
  /\ \A t \in Tasks : /\ ctask[t].pc = "met" => ~client.peer_connected
                      /\ ctask[t].pc = "lost" => client.peer_connected

\* A connection has an end open for the task that is at this end and for no
\* other, and the task's connection is the socket that messages are sent to.
Ends ==
  /\ \A t \in Tasks :
       /\ ctask[t].pc \in ClientReads => ctask[t].conn \in Conns
       /\ ctask[t].pc \notin ClientReads => ctask[t].conn = NoConn
       /\ stask[t].pc \in ServerReads => stask[t].conn \in Conns
       /\ stask[t].pc \notin ServerReads => stask[t].conn = NoConn
       /\ ctask[t].conn # NoConn => /\ ctask[t].conn = client.sock
                                    /\ conn[ctask[t].conn].cl # "closed"
       /\ stask[t].conn # NoConn =>
            /\ stask[t].conn = server.sock
            /\ conn[stask[t].conn].sv \in {"open", "broken"}
  /\ \A c \in Conns :
       /\ conn[c].cl # "closed" => \E t \in Tasks : ctask[t].conn = c
       /\ conn[c].sv \in {"open", "broken"} => \E t \in Tasks : stask[t].conn = c

\* A message of the server's board came, or comes, to the client on c.
Heard(c) ==
  /\ conn[c].cl # "closed"
  /\ \/ conn[c].toClient \/ client.peer_connected
     \/ \E t \in Tasks : ctask[t].pc \in {"received", "met", "lost"}

\* Once the client hears something on its connection the server has closed all
\* others: it accepted this one after them.
OldAreClosed ==
  \A c, d \in Conns : c # d =>
    /\ conn[c].cl # "closed" => conn[d].sv # "backlog"
    /\ Heard(c) => conn[d].sv = "closed"

\* All of it, unless a task outlived its link.
PathInv ==
  ~overlap => /\ OneTask(ctask) /\ OneTask(stask)
              /\ ServerReports /\ ClientReports
              /\ Ends /\ OldAreClosed

----------------------------------------------------------------------------
(* Types.                                                                  *)

LEMMA TaskTypes ==
  ASSUME TypeOK, NEW t \in Tasks
  PROVE  /\ \A r \in ClientTask : [ctask EXCEPT ![t] = r] \in [Tasks -> ClientTask]
         /\ \A p \in ClientPc : Goes(ctask, t, p) \in [Tasks -> ClientTask]
         /\ \A r \in ServerTask : [stask EXCEPT ![t] = r] \in [Tasks -> ServerTask]
         /\ \A p \in ServerPc : Goes(stask, t, p) \in [Tasks -> ServerTask]
<1>1. ctask[t] \in ClientTask /\ stask[t] \in ServerTask
  BY DEF TypeOK
<1>2. ASSUME NEW p \in ClientPc PROVE [ctask[t] EXCEPT !.pc = p] \in ClientTask
  BY <1>1 DEF ClientTask
<1>3. ASSUME NEW p \in ServerPc PROVE [stask[t] EXCEPT !.pc = p] \in ServerTask
  BY <1>1 DEF ServerTask
<1> QED
  BY <1>2, <1>3 DEF TypeOK, Goes

LEMMA ConnectionTypes ==
  ASSUME TypeOK, NEW c \in Conns
  PROVE  /\ \A r \in Connection : [conn EXCEPT ![c] = r] \in [Conns -> Connection]
         /\ \A x \in {"closed", "open", "broken"} :
              [conn EXCEPT ![c].cl = x] \in [Conns -> Connection]
         /\ \A x \in {"closed", "backlog", "open", "broken"} :
              [conn EXCEPT ![c].sv = x] \in [Conns -> Connection]
         /\ \A x \in BOOLEAN :
              /\ [conn EXCEPT ![c].toClient = x] \in [Conns -> Connection]
              /\ [conn EXCEPT ![c].toServer = x] \in [Conns -> Connection]
<1>1. conn[c] \in Connection
  BY DEF TypeOK
<1>2. ASSUME NEW x \in {"closed", "open", "broken"}
      PROVE  [conn[c] EXCEPT !.cl = x] \in Connection
  BY <1>1 DEF Connection
<1>3. ASSUME NEW x \in {"closed", "backlog", "open", "broken"}
      PROVE  [conn[c] EXCEPT !.sv = x] \in Connection
  BY <1>1 DEF Connection
<1>4. ASSUME NEW x \in BOOLEAN
      PROVE  /\ [conn[c] EXCEPT !.toClient = x] \in Connection
             /\ [conn[c] EXCEPT !.toServer = x] \in Connection
  BY <1>1 DEF Connection
<1> QED
  BY <1>2, <1>3, <1>4 DEF TypeOK

LEMMA TypesInit == Init => TypeOK
<1> SUFFICES ASSUME Init PROVE TypeOK
  OBVIOUS
<1>1. 0 \in Nat /\ <<>> \in Seq(Word)
  BY SMT
<1>2. NoTask \in ClientTask /\ NoTask \in ServerTask
  BY DEF NoTask, ClientPc, ServerPc, ClientTask, ServerTask
<1>3. NewConn \in Connection
  BY DEF NewConn, Connection
<1>4. NewStation \in StationState /\ NewClient \in ClientState
  BY <1>1 DEF NewStation, NewClient, StationState, ClientState
<1>5. server \in ServerState
  BY DEF Init, ServerState
<1> QED
  BY <1>1, <1>2, <1>3, <1>4, <1>5 DEF Init, TypeOK, Word

LEMMA ClientOpenTypes ==
  ASSUME TypeOK, ClientOpen
  PROVE  /\ client' \in ClientState
         /\ ctask' \in [Tasks -> ClientTask]
         /\ overlap' \in BOOLEAN
<1>1. CASE client.up
  BY <1>1 DEF TypeOK, ClientOpen
<1>2. CASE ~client.up
  <2>1. PICK t \in Tasks :
          /\ client' = [client EXCEPT !.up = TRUE]
          /\ ctask' = [ctask EXCEPT ![t] = [pc |-> "top", conn |-> NoConn]]
          /\ overlap' = (overlap \/ Alive(ctask) # {})
    BY <1>2 DEF ClientOpen, Spawn
  <2>2. overlap' \in BOOLEAN
    BY <2>1
  <2>3. [pc |-> "top", conn |-> NoConn] \in ClientTask
    BY DEF ClientTask, ClientPc
  <2>4. client' \in ClientState
    BY <2>1 DEF ClientState, TypeOK
  <2> QED
    BY <2>1, <2>2, <2>3, <2>4, TaskTypes
<1> QED
  BY <1>1, <1>2

LEMMA StationEventTypes == TypeOK /\ StationEvent => TypeOK'
<1> SUFFICES ASSUME TypeOK, StationEvent PROVE TypeOK'
  OBVIOUS
<1>u. UNCHANGED <<server, stask, conn, evq, board>>
  BY DEF StationEvent, boardVars
<1>1. CASE OnConnected
  <2>1. sta' \in StationState
    BY <1>1 DEF OnConnected, TypeOK, StationState
  <2> QED
    BY <1>1, <1>u, <2>1 DEF OnConnected, TypeOK
<1>2. ASSUME NEW r \in Reason, OnDisconnected(r) PROVE TypeOK'
  <2>1. Retry(r) + 1 \in Nat /\ 0 \in Nat
    BY RetriesAssumption, SMT DEF Retry, TypeOK, StationState
  <2>2. client' \in ClientState
    BY <1>2 DEF OnDisconnected, ClientClose, TypeOK, ClientState
  <2>3. sta' \in StationState
    BY <1>2, <2>1 DEF OnDisconnected, GivesUp, TypeOK, StationState
  <2> QED
    BY <1>2, <1>u, <2>2, <2>3 DEF OnDisconnected, TypeOK
<1>3. CASE OnLease
  <2>1. sta' \in StationState
    BY <1>3 DEF OnLease, TypeOK, StationState
  <2> QED
    BY <1>3, <1>u, <2>1 DEF OnLease, TypeOK
<1>4. CASE OnStaticAddress
  <2>1. 0 \in Nat
    BY SMT
  <2>2. sta' \in StationState
    BY <1>4, <2>1 DEF OnStaticAddress, TypeOK, StationState
  <2> QED
    BY <1>4, <1>u, <2>2, ClientOpenTypes DEF OnStaticAddress, TypeOK
<1> QED
  BY <1>1, <1>2, <1>3, <1>4 DEF StationEvent

LEMMA DropTypes ==
  ASSUME TypeOK, Drop
  PROVE  /\ radio' \in {"idle", "connecting", "up"}
         /\ conn' \in [Conns -> Connection]
<1>1. radio' = "idle" /\ (Abort \/ UNCHANGED conn)
  BY DEF Drop
<1>2. CASE Abort
  <2>1. ASSUME NEW c \in Conns PROVE [conn[c] EXCEPT !.cl = "broken"] \in Connection
    BY DEF TypeOK, Connection
  <2> QED
    BY <1>1, <1>2, <2>1 DEF Abort, TypeOK
<1>3. CASE UNCHANGED conn
  BY <1>1, <1>3 DEF TypeOK
<1> QED
  BY <1>1, <1>2, <1>3

LEMMA ClosesListeningTypes ==
  ASSUME TypeOK,
         NEW s \in ServerState, NEW task \in [Tasks -> ServerTask],
         ClosesListening(s, task)
  PROVE  /\ server' \in ServerState
         /\ stask' \in [Tasks -> ServerTask]
         /\ conn' \in [Conns -> Connection]
<1> DEFINE reset(c) == [conn[c] EXCEPT !.sv = "closed",
                !.cl = IF @ = "open" /\ radio = "up" THEN "broken" ELSE @]
<1>e. /\ server' = [s EXCEPT !.listening = FALSE]
      /\ stask' = [t \in Tasks |-> IF task[t].pc = "accept"
                                   THEN [task[t] EXCEPT !.pc = "top"] ELSE task[t]]
      /\ conn' = [c \in Conns |-> IF conn[c].sv # "backlog" THEN conn[c]
                                  ELSE reset(c)]
  BY Zenon DEF ClosesListening
<1>1. server' \in ServerState
  <2>1. server' = [s EXCEPT !.listening = FALSE]
    BY Zenon DEF ClosesListening
  <2> QED
    BY <2>1 DEF ServerState
<1>2. ASSUME NEW t \in Tasks PROVE [task[t] EXCEPT !.pc = "top"] \in ServerTask
  BY DEF ServerTask, ServerPc
<1>3. stask' \in [Tasks -> ServerTask]
  <2> HIDE DEF reset
  <2> QED
    BY <1>2, <1>e
<1>4. ASSUME NEW c \in Conns PROVE reset(c) \in Connection
  <2>1. conn[c] \in Connection
    BY DEF TypeOK
  <2> QED
    BY <2>1 DEF Connection
<1>5. conn' \in [Conns -> Connection]
  <2>1. ASSUME NEW c \in Conns PROVE conn[c] \in Connection
    BY DEF TypeOK
  <2> HIDE DEF reset
  <2> QED
    BY <1>4, <1>e, <2>1
<1> QED
  BY <1>1, <1>3, <1>5

LEMMA ReportTypes ==
  ASSUME TypeOK, NEW e \in End, NEW x \in Word, Report(e, x)
  PROVE  evq' \in [End -> Seq(Word)]
<1>1. Append(evq[e], x) \in Seq(Word)
  BY SMT DEF TypeOK
<1> QED
  BY <1>1 DEF TypeOK, Report

LEMMA ClientStepTypes ==
  ASSUME TypeOK, NEW t \in Tasks, ClientStep(t)
  PROVE  TypeOK'
<1>u. UNCHANGED <<radio, sta, server, stask, board, overlap>>
  BY DEF ClientStep, staVars, history, boardVars, ClientLoop, ClientConnects,
         ClientCannotConnect, ClientReceives, ClientMeetsPeer, ClientHasMet,
         ClientRecvEnds, ClientForgets, ClientCloses
<1>1. client' \in ClientState
  <2>1. ASSUME NEW c \in Conns \cup {NoConn}
        PROVE  [client EXCEPT !.sock = c] \in ClientState
    BY DEF TypeOK, ClientState
  <2>2. ASSUME NEW b \in BOOLEAN
        PROVE  [client EXCEPT !.peer_connected = b] \in ClientState
    BY DEF TypeOK, ClientState
  <2>3. CASE ClientConnects(t)
    BY <2>1, <2>3 DEF ClientConnects
  <2> QED
    BY <2>1, <2>2, <2>3 DEF ClientStep, ClientLoop, ClientCannotConnect,
         ClientReceives, ClientMeetsPeer, ClientHasMet, ClientRecvEnds,
         ClientForgets, ClientCloses, TypeOK
<1>2. ctask' \in [Tasks -> ClientTask]
  <2>1. {"connect", "received", "recv", "met", "lost", "close", "top"}
          \subseteq ClientPc
    BY DEF ClientPc, ClientReads
  <2>2. /\ NoTask \in ClientTask
        /\ [pc |-> "top", conn |-> NoConn] \in ClientTask
        /\ \A c \in Conns : [pc |-> "recv", conn |-> c] \in ClientTask
    BY DEF NoTask, ClientTask, ClientPc, ClientReads
  <2>3. \/ ctask' = [ctask EXCEPT ![t] = NoTask]
        \/ ctask' = [ctask EXCEPT ![t] = [pc |-> "top", conn |-> NoConn]]
        \/ \E c \in Conns :
             ctask' = [ctask EXCEPT ![t] = [pc |-> "recv", conn |-> c]]
        \/ \E p \in {"connect", "received", "recv", "met", "lost", "close", "top"} :
             ctask' = Goes(ctask, t, p)
    <3>1. CASE ClientConnects(t)
      BY <3>1, Zenon DEF ClientConnects
    <3>2. CASE ClientCloses(t)
      BY <3>2, Zenon DEF ClientCloses
    <3> QED
      BY <3>1, <3>2, ZenonT(60) DEF ClientStep, ClientLoop, ClientCannotConnect,
           ClientReceives, ClientMeetsPeer, ClientHasMet, ClientRecvEnds,
           ClientForgets
  <2>4. CASE \E c \in Conns :
               ctask' = [ctask EXCEPT ![t] = [pc |-> "recv", conn |-> c]]
    <3>1. PICK r \in ClientTask : ctask' = [ctask EXCEPT ![t] = r]
      BY <2>2, <2>4, Zenon
    <3> QED
      BY <3>1, TaskTypes
  <2>5. CASE \E p \in {"connect", "received", "recv", "met", "lost", "close", "top"} :
               ctask' = Goes(ctask, t, p)
    <3>1. PICK p \in ClientPc : ctask' = Goes(ctask, t, p)
      BY <2>1, <2>5
    <3> QED
      BY <3>1, TaskTypes
  <2> QED
    BY <2>2, <2>3, <2>4, <2>5, TaskTypes
<1>3. conn' \in [Conns -> Connection]
  <2>1. CASE ClientConnects(t)
    <3>1. [NewConn EXCEPT !.cl = "open", !.sv = "backlog"] \in Connection
      BY DEF NewConn, Connection
    <3>2. PICK c \in Conns :
            conn' = [conn EXCEPT ![c] = [NewConn EXCEPT !.cl = "open",
                                                        !.sv = "backlog"]]
      BY <2>1, Zenon DEF ClientConnects
    <3> DEFINE new == [NewConn EXCEPT !.cl = "open", !.sv = "backlog"]
    <3> HIDE DEF new
    <3>3. new \in Connection /\ conn' = [conn EXCEPT ![c] = new]
      BY <3>1, <3>2, Zenon DEF new
    <3> QED
      BY <3>3, ConnectionTypes
  <2>2. CASE ClientReceives(t)
    <3>1. conn' = [conn EXCEPT ![ctask[t].conn].toClient = FALSE]
      BY <2>2 DEF ClientReceives
    <3>2. CASE ctask[t].conn \in Conns
      BY <3>1, <3>2, ConnectionTypes
    <3>3. CASE ctask[t].conn \notin Conns
      BY <3>1, <3>3 DEF TypeOK
    <3> QED
      BY <3>2, <3>3
  <2>3. CASE ClientCloses(t)
    <3> DEFINE c == ctask[t].conn
    <3>1. conn' = [conn EXCEPT ![c].cl = "closed", ![c].toClient = FALSE]
      BY <2>3 DEF ClientCloses
    <3>2. ASSUME c \in Conns
          PROVE  [[conn[c] EXCEPT !.cl = "closed"] EXCEPT !.toClient = FALSE]
                   \in Connection
      BY <3>2 DEF TypeOK, Connection
    <3> HIDE DEF c
    <3> QED
      BY <3>1, <3>2 DEF TypeOK
  <2> QED
    BY <2>1, <2>2, <2>3 DEF ClientStep, ClientLoop, ClientCannotConnect,
         ClientMeetsPeer, ClientHasMet, ClientRecvEnds, ClientForgets, TypeOK
<1>4. evq' \in [End -> Seq(Word)]
  <2>1. {"CONNECTED", "LOST"} \subseteq Word /\ "client" \in End
    BY DEF Word, End
  <2> QED
    BY <2>1, ReportTypes DEF ClientStep, ClientLoop, ClientConnects,
         ClientCannotConnect, ClientReceives, ClientMeetsPeer, ClientHasMet,
         ClientRecvEnds, ClientForgets, ClientCloses, boardVars, TypeOK
<1> QED
  BY <1>u, <1>1, <1>2, <1>3, <1>4 DEF TypeOK

LEMMA ServerStepTypes ==
  ASSUME TypeOK, NEW t \in Tasks, ServerStep(t)
  PROVE  TypeOK'
<1>u. UNCHANGED <<radio, sta, client, ctask, board, overlap>>
  BY DEF ServerStep, staVars, history, boardVars, ServerListens, ServerLoop,
         ServerAccepts, ServerMeetsPeer, ServerReceives, ServerRecvEnds,
         ServerCloses, ServerCleansUp
<1>1. CASE ServerCleansUp(t)
  <2>1. NoTask \in ServerTask
    BY DEF NoTask, ServerTask, ServerPc
  <2>2. [stask EXCEPT ![t] = NoTask] \in [Tasks -> ServerTask]
    BY <2>1, TaskTypes
  <2>3. /\ server' \in ServerState
        /\ stask' \in [Tasks -> ServerTask]
        /\ conn' \in [Conns -> Connection]
    <3>1. server \in ServerState
      BY DEF TypeOK
    <3> QED
      BY <1>1, <2>2, <3>1, ClosesListeningTypes DEF ServerCleansUp
  <2> QED
    BY <1>1, <1>u, <2>3 DEF ServerCleansUp, TypeOK, boardVars
<1>2. CASE ~ServerCleansUp(t)
  <2>1. server' \in ServerState
    <3>1. ASSUME NEW c \in Conns \cup {NoConn}
          PROVE  [server EXCEPT !.sock = c] \in ServerState
      BY DEF TypeOK, ServerState
    <3>2. [server EXCEPT !.listening = TRUE] \in ServerState
      BY DEF TypeOK, ServerState
    <3>3. \/ UNCHANGED server
          \/ \E c \in Conns \cup {NoConn} : server' = [server EXCEPT !.sock = c]
          \/ server' = [server EXCEPT !.listening = TRUE]
      BY <1>2, Zenon DEF ServerStep, ServerListens, ServerLoop,
           ServerAccepts, ServerMeetsPeer, ServerReceives, ServerRecvEnds,
           ServerCloses
    <3> QED
      BY <3>1, <3>2, <3>3 DEF TypeOK
  <2>2. stask' \in [Tasks -> ServerTask]
    <3>1. {"top", "cleanup", "accept", "recv", "lost"} \subseteq ServerPc
      BY DEF ServerPc, ServerReads
    <3>2. /\ [pc |-> "top", conn |-> NoConn] \in ServerTask
          /\ \A c \in Conns : [pc |-> "accepted", conn |-> c] \in ServerTask
      BY DEF ServerTask, ServerPc, ServerReads
    <3>3. \/ UNCHANGED stask
          \/ stask' = [stask EXCEPT ![t] = [pc |-> "top", conn |-> NoConn]]
          \/ \E c \in Conns :
               stask' = [stask EXCEPT ![t] = [pc |-> "accepted", conn |-> c]]
          \/ \E p \in {"top", "cleanup", "accept", "recv", "lost"} :
               stask' = Goes(stask, t, p)
      <4>1. CASE ServerAccepts(t)
        BY <4>1, Zenon DEF ServerAccepts
      <4>2. CASE ServerCloses(t)
        BY <4>2, Zenon DEF ServerCloses
      <4> QED
        BY <1>2, <4>1, <4>2, ZenonT(60) DEF ServerStep, ServerListens, ServerLoop,
             ServerMeetsPeer, ServerReceives, ServerRecvEnds
    <3> QED
      BY <3>1, <3>2, <3>3, TaskTypes DEF TypeOK
  <2>3. conn' \in [Conns -> Connection]
    <3>1. CASE ServerAccepts(t)
      <4>1. PICK c \in Conns : conn' = [conn EXCEPT ![c].sv = "open"]
        BY <3>1, Zenon DEF ServerAccepts
      <4> QED
        BY <4>1, ConnectionTypes
    <3>2. CASE ServerReceives(t)
      <4>1. conn' = [conn EXCEPT ![stask[t].conn].toServer = FALSE]
        BY <3>2 DEF ServerReceives
      <4>2. CASE stask[t].conn \in Conns
        BY <4>1, <4>2, ConnectionTypes
      <4>3. CASE stask[t].conn \notin Conns
        BY <4>1, <4>3 DEF TypeOK
      <4> QED
        BY <4>2, <4>3
    <3>3. CASE ServerCloses(t)
      <4> DEFINE c == stask[t].conn
      <4>1. conn' = [conn EXCEPT ![c].sv = "closed", ![c].toServer = FALSE]
        BY <3>3 DEF ServerCloses
      <4>2. ASSUME c \in Conns
            PROVE  [[conn[c] EXCEPT !.sv = "closed"] EXCEPT !.toServer = FALSE]
                     \in Connection
        BY <4>2 DEF TypeOK, Connection
      <4> HIDE DEF c
      <4> QED
        BY <4>1, <4>2 DEF TypeOK
    <3> QED
      BY <1>2, <3>1, <3>2, <3>3 DEF ServerStep, ServerListens, ServerLoop,
           ServerMeetsPeer, ServerRecvEnds, TypeOK
  <2>4. evq' \in [End -> Seq(Word)]
    <3>1. {"CONNECTED", "LOST"} \subseteq Word /\ "server" \in End
      BY DEF Word, End
    <3> QED
      BY <1>2, <3>1, ReportTypes DEF ServerStep, ServerListens, ServerLoop,
           ServerAccepts, ServerMeetsPeer, ServerReceives, ServerRecvEnds,
           ServerCloses, boardVars, TypeOK
  <2> QED
    BY <1>u, <2>1, <2>2, <2>3, <2>4 DEF TypeOK
<1> QED
  BY <1>1, <1>2

LEMMA TypesStep == TypeOK /\ [Next]_vars => TypeOK'
<1> SUFFICES ASSUME TypeOK, [Next]_vars PROVE TypeOK'
  OBVIOUS
<1> USE DEF staVars, boardVars, history
<1>1. CASE UNCHANGED vars
  BY <1>1 DEF vars, TypeOK
<1>2. CASE StationConnect
  <2>1. 0 \in Nat
    BY SMT
  <2>2. sta' \in StationState
    BY <1>2, <2>1 DEF StationConnect, TypeOK, StationState
  <2> QED
    BY <1>2, <2>2 DEF StationConnect, TypeOK
<1>3. CASE Associates
  BY <1>3 DEF Associates, TypeOK
<1>4. ASSUME NEW r \in Reason, AssociationFails(r) PROVE TypeOK'
  BY <1>4 DEF AssociationFails, TypeOK
<1>5. CASE Lease
  <2>1. sta' \in StationState
    BY <1>5 DEF Lease, TypeOK, StationState
  <2> QED
    BY <1>5, <2>1 DEF Lease, TypeOK
<1>6. CASE RadioLost
  BY <1>6, DropTypes DEF RadioLost, TypeOK
<1>7. CASE StationEvent
  BY <1>7, StationEventTypes
<1>8. CASE SeesStation
  <2>1. UNCHANGED <<sta, client, ctask, evq, board>>
    BY <1>8 DEF SeesStation
  <2>2. CASE ap.locked
    BY <1>8, <2>1, <2>2, DropTypes DEF SeesStation, TypeOK
  <2>3. CASE ~ap.locked /\ server.up
    BY <1>8, <2>1, <2>3 DEF SeesStation, TypeOK
  <2>4. CASE ~ap.locked /\ ~server.up
    <3>1. ServerCreate /\ UNCHANGED <<radio, conn>>
      BY <1>8, <2>4 DEF SeesStation
    <3>2. PICK t \in Tasks :
            /\ server' = [server EXCEPT !.up = TRUE]
            /\ stask' = [stask EXCEPT ![t] = [pc |-> "start", conn |-> NoConn]]
            /\ overlap' = (overlap \/ Alive(stask) # {})
      BY <3>1 DEF ServerCreate
    <3>3. overlap' \in BOOLEAN
      BY <3>2
    <3>4. server' \in ServerState
      BY <3>2 DEF TypeOK, ServerState
    <3>5. [pc |-> "start", conn |-> NoConn] \in ServerTask
      BY DEF ServerTask, ServerPc
    <3>6. stask' \in [Tasks -> ServerTask]
      BY <3>2, <3>5, TaskTypes
    <3> QED
      BY <2>1, <3>1, <3>3, <3>4, <3>6 DEF TypeOK
  <2> QED
    BY <2>2, <2>3, <2>4
<1>9. CASE MissesStation
  <2>1. UNCHANGED <<radio, sta, client, ctask, evq, board, overlap>>
    BY <1>9 DEF MissesStation
  <2>2. CASE server.up
    <3>1. ClosesListening([server EXCEPT !.up = FALSE], stask)
      BY <1>9, <2>2 DEF MissesStation, ServerClose
    <3>2. /\ [server EXCEPT !.up = FALSE] \in ServerState
          /\ stask \in [Tasks -> ServerTask]
      BY DEF TypeOK, ServerState
    <3>3. /\ server' \in ServerState
          /\ stask' \in [Tasks -> ServerTask]
          /\ conn' \in [Conns -> Connection]
      BY <3>1, <3>2, ClosesListeningTypes
    <3> QED
      BY <2>1, <3>3 DEF TypeOK
  <2>3. CASE ~server.up
    BY <1>9, <2>1, <2>3 DEF MissesStation, TypeOK
  <2> QED
    BY <2>2, <2>3
<1>10. CASE LockAp
  <2>1. /\ UNCHANGED <<sta, client, server, ctask, stask, evq, board, overlap>>
        /\ Drop \/ UNCHANGED <<radio, conn>>
    BY <1>10 DEF LockAp
  <2> QED
    BY <2>1, DropTypes DEF TypeOK
<1>11. CASE UnlockAp
  BY <1>11 DEF UnlockAp, TypeOK
<1>12. ASSUME NEW t \in Tasks, ClientStep(t) \/ ServerStep(t) PROVE TypeOK'
  BY <1>12, ClientStepTypes, ServerStepTypes
<1>13. ASSUME NEW c \in Conns, ClientHearsClose(c) \/ ServerKeepalive(c)
       PROVE  TypeOK'
  <2>1. conn' \in [Conns -> Connection]
    <3>1. \/ conn' = [conn EXCEPT ![c].cl = "broken"]
          \/ conn' = [conn EXCEPT ![c].sv = "broken"]
      BY <1>13 DEF ClientHearsClose, ServerKeepalive
    <3>2. CASE conn' = [conn EXCEPT ![c].cl = "broken"]
      BY <3>2, ConnectionTypes
    <3>3. CASE conn' = [conn EXCEPT ![c].sv = "broken"]
      BY <3>3, ConnectionTypes
    <3> QED
      BY <3>1, <3>2, <3>3
  <2> QED
    BY <1>13, <2>1 DEF ClientHearsClose, ServerKeepalive, TypeOK
<1>14. ASSUME NEW e \in End, PeerEvent(e) PROVE TypeOK'
  <2>1. evq[e] \in Seq(Word) /\ evq[e] # <<>>
    BY <1>14 DEF PeerEvent, TypeOK
  <2>2. Head(evq[e]) \in Word /\ Tail(evq[e]) \in Seq(Word)
    BY <2>1, SMT
  <2> QED
    BY <1>14, <2>2 DEF PeerEvent, TypeOK
<1>15. ASSUME NEW e \in End, Sends(e) PROVE TypeOK'
  <2>1. UNCHANGED <<radio, sta, client, server, ctask, stask, evq, board, overlap>>
    BY <1>15 DEF Sends
  <2>2. \/ UNCHANGED conn
        \/ /\ Sock(e) # NoConn
           /\ \/ conn' = [conn EXCEPT ![Sock(e)].toServer
                                        = conn[Sock(e)].sv # "closed"]
              \/ conn' = [conn EXCEPT ![Sock(e)].toClient
                                        = conn[Sock(e)].cl # "closed"]
    BY <1>15 DEF Sends, CanSend
  <2>3. Sock(e) # NoConn => Sock(e) \in Conns
    BY DEF Sock, TypeOK, ClientState, ServerState
  <2>4. conn' \in [Conns -> Connection]
    <3>1. CASE UNCHANGED conn
      BY <3>1 DEF TypeOK
    <3>2. ASSUME NEW c \in Conns, NEW x \in BOOLEAN,
                 \/ conn' = [conn EXCEPT ![c].toServer = x]
                 \/ conn' = [conn EXCEPT ![c].toClient = x]
          PROVE  conn' \in [Conns -> Connection]
      <4>1. CASE conn' = [conn EXCEPT ![c].toServer = x]
        BY <4>1, ConnectionTypes
      <4>2. CASE conn' = [conn EXCEPT ![c].toClient = x]
        BY <4>2, ConnectionTypes
      <4> QED
        BY <3>2, <4>1, <4>2
    <3> QED
      BY <2>2, <2>3, <3>1, <3>2, Zenon
  <2> QED
    BY <2>1, <2>4 DEF TypeOK
<1>16. CASE PowerLoss
  <2>1. 0 \in Nat /\ <<>> \in Seq(Word) /\ "client" \in End /\ "LOST" \in Word
    BY SMT DEF End, Word
  <2>2. NoTask \in ClientTask
    BY DEF NoTask, ClientTask, ClientPc
  <2>3. NewStation \in StationState /\ NewClient \in ClientState
    BY <2>1 DEF NewStation, NewClient, StationState, ClientState
  <2> DEFINE cut(c) == [conn[c] EXCEPT !.cl = "closed", !.toClient = FALSE]
  <2>4. /\ radio' = "idle" /\ sta' = NewStation /\ client' = NewClient
        /\ ctask' = [t \in Tasks |-> NoTask]
        /\ conn' = [c \in Conns |-> cut(c)]
        /\ evq' = [evq EXCEPT !["client"] = <<>>]
        /\ board' = [board EXCEPT !["client"] = "LOST"]
        /\ UNCHANGED <<server, stask, overlap>>
    BY <1>16, Zenon DEF PowerLoss
  <2>5. ASSUME NEW c \in Conns PROVE cut(c) \in Connection
    BY DEF TypeOK, Connection
  <2> HIDE DEF cut
  <2>6. conn' \in [Conns -> Connection]
    BY <2>4, <2>5
  <2>7. evq' \in [End -> Seq(Word)] /\ board' \in [End -> Word]
    BY <2>1, <2>4 DEF TypeOK
  <2> QED
    BY <2>2, <2>3, <2>4, <2>6, <2>7 DEF TypeOK
<1> QED
  BY <1>1, <1>2, <1>3, <1>4, <1>5, <1>6, <1>7, <1>8, <1>9, <1>10, <1>11,
     <1>12, <1>13, <1>14, <1>15, <1>16 DEF Next, Environment, Scheduled

----------------------------------------------------------------------------
(* The station: StationInv is inductive.                                   *)

LEMMA Lines1 ==
  ASSUME NEW x
  PROVE  Append(<<>>, x) = <<x>> /\ Head(<<x>>) = x /\ Tail(<<x>>) = <<>>
         /\ <<x>> # <<>>
<1>1. Append(<<>>, x) = <<x>>
  BY SMT
<1>2. Tail(<<x>>) = <<>>
  BY SMT
<1> QED
  BY <1>1, <1>2, SMT

LEMMA Lines2 ==
  ASSUME NEW x, NEW y
  PROVE  /\ Append(<<x>>, y) = <<x, y>>
         /\ Head(<<x, y>>) = x /\ Tail(<<x, y>>) = <<y>>
         /\ <<x, y>> # <<>>
<1>1. Append(<<x>>, y) = <<x, y>>
  <2>1. <<x>> \in Seq({x, y}) /\ <<x, y>> \in Seq({x, y})
    BY SMT
  <2>3. Len(<<x>>) = 1 /\ Len(<<x, y>>) = 2 /\ <<x>>[1] = x
        /\ <<x, y>>[1] = x /\ <<x, y>>[2] = y
    BY SMT
  <2> DEFINE s == <<x>>
             u == <<x, y>>
  <2>4. s \in Seq({x, y}) /\ u \in Seq({x, y}) /\ Len(s) = 1 /\ Len(u) = 2
        /\ s[1] = x /\ u[1] = x /\ u[2] = y
    BY <2>1, <2>3
  <2> HIDE DEF s, u
  <2>5. Append(s, y) \in Seq({x, y}) /\ Len(Append(s, y)) = 2
        /\ Append(s, y)[1] = x /\ Append(s, y)[2] = y
    BY <2>4, AppendProperties, SMT
  <2>6. \A i \in 1 .. 2 : Append(s, y)[i] = u[i]
    BY <2>4, <2>5, SMT
  <2>7. Append(s, y) = u
    BY <2>4, <2>5, <2>6, SeqEqual
  <2> QED
    BY <2>7 DEF s, u
<1>2. Tail(<<x, y>>) = <<y>>
  BY SMT
<1> QED
  BY <1>1, <1>2, SMT

LEMMA Lines3 ==
  ASSUME NEW x, NEW y, NEW z
  PROVE  /\ Append(<<x, y>>, z) = <<x, y, z>>
         /\ Head(<<x, y, z>>) = x /\ Tail(<<x, y, z>>) = <<y, z>>
         /\ <<x>> # <<y, z>>
<1>1. Append(<<x, y>>, z) = <<x, y, z>>
  <2> DEFINE S == {x, y, z}
             s == <<x, y>>
             u == <<x, y, z>>
  <2>4. s \in Seq(S) /\ u \in Seq(S) /\ z \in S /\ Len(s) = 2 /\ Len(u) = 3
        /\ s[1] = x /\ s[2] = y /\ u[1] = x /\ u[2] = y /\ u[3] = z
    BY SMT
  <2> HIDE DEF s, u, S
  <2>1. /\ Append(s, z) \in Seq(S) /\ Len(Append(s, z)) = Len(s) + 1
        /\ \A i \in 1 .. Len(s) : Append(s, z)[i] = s[i]
        /\ Append(s, z)[Len(s) + 1] = z
    <3>1. s \in Seq(S) /\ z \in S
      BY <2>4
    <3> QED
      BY <3>1, AppendProperties
  <2>5. Append(s, z) \in Seq(S) /\ Len(Append(s, z)) = 3
        /\ Append(s, z)[1] = x /\ Append(s, z)[2] = y /\ Append(s, z)[3] = z
    BY <2>4, <2>1, SMT
  <2>6. \A i \in 1 .. 3 : Append(s, z)[i] = u[i]
    BY <2>4, <2>5, SMT
  <2>7. Append(s, z) = u
    BY <2>4, <2>5, <2>6, SeqEqual
  <2> QED
    BY <2>7 DEF s, u
<1>2. Tail(<<x, y, z>>) = <<y, z>>
  BY SMT
<1> QED
  BY <1>1, <1>2, SMT

LEMMA StationInit == Init => StationInv
BY DEF Init, StationInv, NewStation, NewClient, LinkIsOff

\* What the handlers do not see changes nothing for them.
LEMMA StationFrame ==
  ASSUME StationInv, UNCHANGED <<radio, events, sta>>, client'.up = client.up
  PROVE  StationInv'
BY DEF StationInv, LinkIsOff, LinkIsOn, LossIsPending

\* The radio is lost, or the association fails.
LEMMA LossStep ==
  ASSUME StationInv, NEW r \in Reason, radio \in {"connecting", "up"},
         radio' = "idle", events' = Append(events, r), UNCHANGED <<sta, client>>
  PROVE  StationInv'
<1>1. events \in Greetings /\ (LinkIsOff(events) \/ LinkIsOn(events))
  BY DEF StationInv, LinkIsOff, LinkIsOn, Greetings
<1>2. PICK q \in Greetings : events = q /\ (LinkIsOff(q) \/ LinkIsOn(q))
  BY <1>1
<1>3. events' = Append(q, r) /\ (LinkIsOff(q) \/ LinkIsOn(q))'
  BY <1>2 DEF LinkIsOff, LinkIsOn
<1>4. LossIsPending'
  BY <1>3 DEF LossIsPending
<1> QED
  BY <1>4 DEF StationInv

\* The lines that a handler may find.
LEMMA EventLines ==
  ASSUME StationInv, events # <<>>, radio \in {"idle", "connecting", "up"}
  PROVE  \/ /\ radio = "connecting" \/ ~sta.active
            /\ sta.netif = "down" /\ ~client.up /\ ~sta.full
            /\ events = <<"GOT_IP">>
         \/ radio = "up" /\ sta.active /\ LinkIsOn(events)
         \/ radio = "idle" /\ sta.active /\ LossIsPending
BY DEF StationInv, LinkIsOff

LEMMA OnConnectedStep ==
  ASSUME TypeOK, StationInv, events # <<>>, Head(events) = "CONNECTED",
         OnConnected
  PROVE  StationInv'
<1>1. /\ UNCHANGED <<radio, client>> /\ sta' = [sta EXCEPT !.netif = "up"]
      /\ events' = IF sta.dhcp THEN Tail(events) ELSE Append(Tail(events), "GOT_IP")
  BY DEF OnConnected
<1>2. /\ sta'.netif = "up" /\ sta'.dhcp = sta.dhcp /\ sta'.full = sta.full
      /\ sta'.active = sta.active
  BY <1>1 DEF TypeOK, StationState
<1>3. radio # "connecting" /\ sta.active
      /\ \/ radio = "up" /\ events = <<"CONNECTED">>
         \/ /\ radio = "idle"
            /\ \E r \in Reason : events = <<"CONNECTED", r>>
  <2>1. CASE radio = "up" /\ sta.active /\ LinkIsOn(events)
    BY <2>1, Lines1, Lines2, Lines3 DEF LinkIsOn
  <2>2. CASE radio = "idle" /\ sta.active /\ LossIsPending
    <3>1. PICK r \in Reason :
            \/ events = <<r, "GOT_IP">>
            \/ \E q \in Greetings : events = Append(q, r) /\ (LinkIsOff(q) \/ LinkIsOn(q))
      BY <2>2 DEF LossIsPending
    <3>2. events \in {<<r, "GOT_IP">>, <<r>>, <<"GOT_IP", r>>,
                      <<"CONNECTED", r>>, <<"GOT_IP", "CONNECTED", r>>}
      BY <3>1, Lines1, Lines2, Lines3 DEF Greetings
    <3>3. events = <<"CONNECTED", r>>
      BY <3>2, Lines1, Lines2, Lines3 DEF Reason
    <3> QED
      BY <2>2, <3>3
  <2> QED
    BY <2>1, <2>2, EventLines, Lines1, Lines2, Lines3 DEF TypeOK
<1>4. CASE radio = "up" /\ events = <<"CONNECTED">>
  <2>1. \/ events' = <<>>
        \/ events' = <<"GOT_IP">> /\ ~sta.dhcp
    <3>1. Tail(<<"CONNECTED">>) = <<>> /\ Append(<<>>, "GOT_IP") = <<"GOT_IP">>
      BY Lines1, Lines2, Lines3
    <3> QED
      BY <1>1, <1>4, <3>1
  <2> QED
    BY <1>1, <1>2, <1>3, <1>4, <2>1 DEF StationInv, LinkIsOn
<1>5. ASSUME NEW r \in Reason, radio = "idle", events = <<"CONNECTED", r>>
      PROVE  StationInv'
  <2>1. events' = Append(<<>>, r) \/ events' = <<r, "GOT_IP">>
    <3>1. /\ Tail(<<"CONNECTED", r>>) = <<r>> /\ Append(<<>>, r) = <<r>>
          /\ Append(<<r>>, "GOT_IP") = <<r, "GOT_IP">>
      BY Lines1, Lines2, Lines3
    <3> QED
      BY <1>1, <1>5, <3>1
  <2>2. LinkIsOn(<<>>)'
    BY <1>2 DEF LinkIsOn
  <2>3. LossIsPending'
    BY <2>1, <2>2 DEF LossIsPending, Greetings
  <2> QED
    BY <1>1, <1>2, <1>3, <1>5, <2>3 DEF StationInv
<1> QED
  BY <1>3, <1>4, <1>5

LEMMA OnDisconnectedStep ==
  ASSUME TypeOK, StationInv, events # <<>>, NEW r \in Reason,
         Head(events) = r, OnDisconnected(r)
  PROVE  StationInv'
<1>1. /\ sta'.netif = "down" /\ ~sta'.full
      /\ events' = Tail(events)
      /\ \/ /\ radio' = IF radio = "idle" THEN "connecting" ELSE radio
            /\ sta'.active = sta.active
         \/ UNCHANGED radio /\ ~sta'.active
      /\ client' = IF sta.full THEN [client EXCEPT !.up = FALSE] ELSE client
  BY DEF OnDisconnected, GivesUp, ClientClose, TypeOK, StationState
<1>2. ~client'.up
  BY <1>1 DEF StationInv, TypeOK, ClientState
<1>3. radio = "idle" /\ sta.active /\ (events = <<r>> \/ events = <<r, "GOT_IP">>)
  <2>1. r # "GOT_IP" /\ r # "CONNECTED"
    BY DEF Reason
  <2>2. CASE radio = "up" /\ sta.active /\ LinkIsOn(events)
    BY <2>1, <2>2, Lines1, Lines2, Lines3 DEF LinkIsOn
  <2>3. CASE radio = "idle" /\ sta.active /\ LossIsPending
    <3>1. PICK u \in Reason :
            \/ events = <<u, "GOT_IP">>
            \/ \E q \in Greetings : events = Append(q, u) /\ (LinkIsOff(q) \/ LinkIsOn(q))
      BY <2>3 DEF LossIsPending
    <3>2. events \in {<<u, "GOT_IP">>, <<u>>, <<"GOT_IP", u>>,
                      <<"CONNECTED", u>>, <<"GOT_IP", "CONNECTED", u>>}
      BY <3>1, Lines1, Lines2, Lines3 DEF Greetings
    <3> QED
      BY <2>1, <2>3, <3>2, Lines1, Lines2, Lines3
  <2> QED
    BY <2>1, <2>2, <2>3, EventLines, Lines1, Lines2, Lines3 DEF TypeOK
<1>4. LinkIsOff(events)'
  <2>1. Tail(<<r>>) = <<>> /\ Tail(<<r, "GOT_IP">>) = <<"GOT_IP">>
    BY Lines1, Lines2, Lines3
  <2>2. events' = <<>> \/ events' = <<"GOT_IP">>
    BY <1>1, <1>3, <2>1
  <2> QED
    BY <1>1, <1>2, <2>2 DEF LinkIsOff
<1>5. radio' = "connecting" \/ (radio' = "idle" /\ ~sta'.active)
  BY <1>1, <1>3
<1>6. ~sta'.active => radio' = "idle"
  BY <1>5, <1>1, <1>3
<1> QED
  BY <1>2, <1>4, <1>5, <1>6, <1>1 DEF StationInv

LEMMA OnLeaseStep ==
  ASSUME TypeOK, StationInv, events # <<>>, Head(events) = "GOT_IP",
         ~sta.full, OnLease
  PROVE  StationInv'
<1>1. /\ UNCHANGED <<radio, client>>
      /\ events' = IF sta.netif # "down" THEN Append(Tail(events), "GOT_IP")
                   ELSE Tail(events)
      /\ sta'.full /\ ~sta'.dhcp
      /\ sta'.netif = sta.netif /\ sta'.active = sta.active
  BY DEF OnLease, TypeOK, StationState
<1>2. ~client.up
  BY DEF StationInv
<1>3. CASE /\ radio = "connecting" \/ ~sta.active
           /\ sta.netif = "down" /\ events = <<"GOT_IP">>
  BY <1>1, <1>2, <1>3, Lines1, Lines2, Lines3 DEF StationInv, LinkIsOff
<1>4. CASE radio = "up" /\ sta.active /\ LinkIsOn(events)
  <2>1. CASE sta.netif = "down"
    <3>1. events = <<"GOT_IP", "CONNECTED">>
      BY <1>4, <2>1, Lines1, Lines2, Lines3 DEF LinkIsOn
    <3> QED
      BY <1>1, <1>2, <1>4, <2>1, <3>1, Lines1, Lines2, Lines3 DEF StationInv, LinkIsOn
  <2>2. CASE sta.netif # "down"
    <3>1. events = <<"GOT_IP">>
      BY <1>4, <2>2, Lines1, Lines2, Lines3 DEF LinkIsOn
    <3> QED
      BY <1>1, <1>2, <1>4, <2>2, <3>1, Lines1, Lines2, Lines3 DEF StationInv, LinkIsOn
  <2> QED
    BY <2>1, <2>2
<1>5. CASE radio = "idle" /\ sta.active /\ LossIsPending
  <2>1. PICK r \in Reason :
          \/ events = <<r, "GOT_IP">>
          \/ \E q \in Greetings : events = Append(q, r) /\ (LinkIsOff(q) \/ LinkIsOn(q))
    BY <1>5 DEF LossIsPending
  <2>2. r # "GOT_IP"
    BY DEF Reason
  <2>3. PICK q \in Greetings : events = Append(q, r) /\ (LinkIsOff(q) \/ LinkIsOn(q))
    BY <2>1, <2>2, Lines1, Lines2, Lines3
  <2>4. \/ q = <<"GOT_IP">> /\ events = <<"GOT_IP", r>>
        \/ /\ q = <<"GOT_IP", "CONNECTED">> /\ sta.netif = "down"
           /\ events = <<"GOT_IP", "CONNECTED", r>>
    <3>1. CASE q = <<>> \/ q = <<"CONNECTED">>
      BY <2>2, <2>3, <3>1, Lines1, Lines2, Lines3
    <3>2. CASE q = <<"GOT_IP">>
      BY <2>3, <3>2, Lines1, Lines2, Lines3
    <3>3. CASE q = <<"GOT_IP", "CONNECTED">>
      <4>1. /\ <<"GOT_IP", "CONNECTED">> # <<>>
            /\ <<"GOT_IP", "CONNECTED">> # <<"GOT_IP">>
            /\ <<"GOT_IP", "CONNECTED">> # <<"CONNECTED">>
        BY SMT
      <4>2. sta.netif = "down"
        BY <2>3, <3>3, <4>1 DEF LinkIsOff, LinkIsOn
      <4>3. events = <<"GOT_IP", "CONNECTED", r>>
        <5>1. Append(<<"GOT_IP", "CONNECTED">>, r) = <<"GOT_IP", "CONNECTED", r>>
          BY Lines3
        <5> QED
          BY <2>3, <3>3, <5>1
      <4> QED
        BY <3>3, <4>2, <4>3
    <3> QED
      BY <3>1, <3>2, <3>3 DEF Greetings
  <2>5. LossIsPending'
    <3>1. CASE q = <<"GOT_IP">> /\ events = <<"GOT_IP", r>> /\ sta.netif = "down"
      <4>1. events' = Append(<<>>, r)
        BY <1>1, <3>1, Lines1, Lines2, Lines3
      <4>2. LinkIsOff(<<>>)'
        BY <1>1, <1>2, <3>1 DEF LinkIsOff
      <4> QED
        BY <4>1, <4>2 DEF LossIsPending, Greetings
    <3>2. CASE q = <<"GOT_IP">> /\ events = <<"GOT_IP", r>> /\ sta.netif # "down"
      <4>1. events' = <<r, "GOT_IP">>
        BY <1>1, <3>2, Lines1, Lines2, Lines3
      <4> QED
        BY <4>1 DEF LossIsPending
    <3>3. CASE sta.netif = "down" /\ events = <<"GOT_IP", "CONNECTED", r>>
      <4>1. events' = Append(<<"CONNECTED">>, r)
        BY <1>1, <3>3, Lines1, Lines2, Lines3
      <4>2. LinkIsOn(<<"CONNECTED">>)'
        BY <1>1, <1>2, <3>3 DEF LinkIsOn
      <4> QED
        BY <4>1, <4>2 DEF LossIsPending, Greetings
    <3> QED
      BY <2>4, <3>1, <3>2, <3>3
  <2> QED
    BY <1>1, <1>2, <1>5, <2>5 DEF StationInv
<1> QED
  BY <1>3, <1>4, <1>5, EventLines DEF TypeOK

LEMMA OnStaticAddressStep ==
  ASSUME TypeOK, StationInv, events # <<>>, Head(events) = "GOT_IP",
         sta.full, OnStaticAddress
  PROVE  StationInv'
<1>1. /\ UNCHANGED radio /\ events' = Tail(events)
      /\ sta'.full /\ sta'.netif = sta.netif /\ sta'.active = sta.active
  BY DEF OnStaticAddress, TypeOK, StationState
<1>2. CASE radio = "up" /\ sta.active /\ LinkIsOn(events)
  <2>1. sta.netif # "down" /\ events = <<"GOT_IP">>
    BY <1>2, Lines1, Lines2, Lines3 DEF LinkIsOn
  <2> QED
    BY <1>1, <1>2, <2>1, Lines1, Lines2, Lines3 DEF StationInv, LinkIsOn
<1>3. CASE radio = "idle" /\ sta.active /\ LossIsPending
  <2>1. PICK r \in Reason :
          \/ events = <<r, "GOT_IP">>
          \/ \E q \in Greetings : events = Append(q, r) /\ (LinkIsOff(q) \/ LinkIsOn(q))
    BY <1>3 DEF LossIsPending
  <2>2. r # "GOT_IP"
    BY DEF Reason
  <2>3. PICK q \in Greetings : events = Append(q, r) /\ (LinkIsOff(q) \/ LinkIsOn(q))
    BY <2>1, <2>2, Lines1, Lines2, Lines3
  <2>4. q = <<"GOT_IP">> /\ events = <<"GOT_IP", r>> /\ sta.netif # "down"
    <3>1. CASE q = <<>> \/ q = <<"CONNECTED">>
      BY <2>2, <2>3, <3>1, Lines1, Lines2, Lines3
    <3>2. CASE q = <<"GOT_IP">>
      <4>1. <<"GOT_IP">> # <<>> /\ <<"GOT_IP">> # <<"CONNECTED">>
            /\ <<"GOT_IP">> # <<"GOT_IP", "CONNECTED">>
        BY SMT
      <4>2. sta.netif # "down"
        BY <2>3, <3>2, <4>1 DEF LinkIsOff, LinkIsOn
      <4>3. Append(<<"GOT_IP">>, r) = <<"GOT_IP", r>>
        BY Lines2
      <4> QED
        BY <2>3, <3>2, <4>2, <4>3
    <3>3. CASE q = <<"GOT_IP", "CONNECTED">>
      <4>1. <<"GOT_IP", "CONNECTED">> # <<>>
            /\ <<"GOT_IP", "CONNECTED">> # <<"GOT_IP">>
            /\ <<"GOT_IP", "CONNECTED">> # <<"CONNECTED">>
        BY SMT
      <4> QED
        BY <2>3, <3>3, <4>1 DEF LinkIsOff, LinkIsOn
    <3> QED
      BY <3>1, <3>2, <3>3 DEF Greetings
  <2>5. events' = Append(<<>>, r)
    BY <1>1, <2>4, Lines1, Lines2, Lines3
  <2>6. LinkIsOn(<<>>)'
    BY <1>1, <2>4 DEF LinkIsOn
  <2>7. LossIsPending'
    BY <2>5, <2>6 DEF LossIsPending, Greetings
  <2> QED
    BY <1>1, <1>3, <2>7 DEF StationInv
<1> QED
  BY <1>2, <1>3, EventLines DEF TypeOK

LEMMA StationStep == TypeOK /\ StationInv /\ [Next]_vars => StationInv'
<1> SUFFICES ASSUME TypeOK, StationInv, [Next]_vars PROVE StationInv'
  OBVIOUS
<1> USE DEF staVars, boardVars, history
<1>1. CASE UNCHANGED vars
  BY <1>1, StationFrame DEF vars
<1>2. CASE StationConnect
  <2>1. LinkIsOff(events) /\ radio = "idle"
    BY <1>2 DEF StationConnect, StationInv
  <2>2. /\ radio' = "connecting" /\ UNCHANGED <<events, client>>
        /\ sta'.active /\ sta'.full = sta.full /\ sta'.netif = sta.netif
    BY <1>2, <2>1 DEF StationConnect, TypeOK, StationState
  <2>3. LinkIsOff(events)'
    BY <2>1, <2>2 DEF LinkIsOff
  <2> QED
    BY <2>2, <2>3 DEF StationInv
<1>3. CASE Associates
  <2>1. LinkIsOff(events) /\ sta.active
    BY <1>3 DEF Associates, StationInv
  <2>2. radio' = "up" /\ events' = Append(events, "CONNECTED")
        /\ UNCHANGED <<sta, client>>
    BY <1>3 DEF Associates
  <2>3. LinkIsOn(events)'
    <3>1. /\ Append(<<>>, "CONNECTED") = <<"CONNECTED">>
          /\ Append(<<"GOT_IP">>, "CONNECTED") = <<"GOT_IP", "CONNECTED">>
      BY Lines1, Lines2, Lines3
    <3>2. \/ events' = <<"CONNECTED">>
          \/ events' = <<"GOT_IP", "CONNECTED">> /\ ~sta.full
      BY <2>1, <2>2, <3>1 DEF LinkIsOff
    <3> QED
      BY <2>1, <2>2, <3>2 DEF LinkIsOff, LinkIsOn
  <2> QED
    BY <2>1, <2>2, <2>3 DEF StationInv
<1>4. ASSUME NEW r \in Reason, AssociationFails(r) PROVE StationInv'
  BY <1>4, LossStep DEF AssociationFails
<1>5. CASE Lease
  <2>1. /\ radio = "up" /\ sta.netif = "up" /\ sta.dhcp /\ UNCHANGED <<radio, client>>
        /\ events' = Append(events, "GOT_IP")
    BY <1>5 DEF Lease
  <2>2. sta'.netif = "leased" /\ sta'.full = sta.full /\ sta'.active = sta.active
    BY <1>5 DEF Lease, TypeOK, StationState
  <2>3. events = <<>>
    BY <2>1 DEF StationInv, LinkIsOn
  <2>4. LinkIsOn(events)'
    BY <2>1, <2>2, <2>3, Lines1, Lines2, Lines3 DEF LinkIsOn
  <2> QED
    BY <2>1, <2>2, <2>4 DEF StationInv
<1>6. ASSUME radio = "up", Drop, UNCHANGED <<sta, client>> PROVE StationInv'
  BY <1>6, LossStep DEF Drop, Reason
<1>7. CASE RadioLost
  BY <1>6, <1>7 DEF RadioLost
<1>8. CASE StationEvent
  BY <1>8, OnConnectedStep, OnDisconnectedStep, OnLeaseStep, OnStaticAddressStep
     DEF StationEvent
<1>9. CASE SeesStation
  BY <1>6, <1>9, StationFrame DEF SeesStation
<1>10. CASE MissesStation
  BY <1>10, StationFrame DEF MissesStation
<1>11. CASE LockAp
  BY <1>6, <1>11, StationFrame DEF LockAp
<1>12. CASE UnlockAp
  BY <1>12, StationFrame DEF UnlockAp
<1>13. ASSUME NEW t \in Tasks, ClientStep(t) PROVE StationInv'
  <2>1. client'.up = client.up
    <3>1. \/ UNCHANGED client
          \/ \E c \in Conns \cup {NoConn} : client' = [client EXCEPT !.sock = c]
          \/ \E b \in BOOLEAN : client' = [client EXCEPT !.peer_connected = b]
      <4>1. CASE ClientConnects(t)
        BY <4>1, Zenon DEF ClientConnects
      <4> QED
        BY <1>13, <4>1, Zenon DEF ClientStep, ClientLoop, ClientCannotConnect,
             ClientReceives, ClientMeetsPeer, ClientHasMet, ClientRecvEnds,
             ClientForgets, ClientCloses
    <3> QED
      BY <3>1 DEF TypeOK, ClientState
  <2> QED
    BY <1>13, <2>1, StationFrame DEF ClientStep
<1>14. ASSUME NEW t \in Tasks, ServerStep(t) PROVE StationInv'
  BY <1>14, StationFrame DEF ServerStep
<1>15. ASSUME NEW c \in Conns, ClientHearsClose(c) \/ ServerKeepalive(c)
       PROVE  StationInv'
  BY <1>15, StationFrame DEF ClientHearsClose, ServerKeepalive
<1>16. ASSUME NEW e \in End, PeerEvent(e) \/ Sends(e) PROVE StationInv'
  BY <1>16, StationFrame DEF PeerEvent, Sends
<1>17. CASE PowerLoss
  <2>1. /\ radio' = "idle" /\ events' = <<>>
        /\ sta' = NewStation /\ client' = NewClient
    BY <1>17, Zenon DEF PowerLoss
  <2> QED
    BY <2>1 DEF StationInv, LinkIsOff, NewStation, NewClient
<1> QED
  BY <1>1, <1>2, <1>3, <1>4, <1>5, <1>7, <1>8, <1>9, <1>10, <1>11,
     <1>12, <1>13, <1>14, <1>15, <1>16, <1>17 DEF Next, Environment, Scheduled

LEMMA StationInvariant == Spec => [](TypeOK /\ StationInv)
<1>1. Init => TypeOK /\ StationInv
  BY TypesInit, StationInit
<1>2. TypeOK /\ StationInv /\ [Next]_vars => (TypeOK /\ StationInv)'
  BY TypesStep, StationStep
<1> QED
  BY <1>1, <1>2, PTL DEF Spec

\* station.c: for any number of retries and mishaps, an active station never
\* waits for nothing: it is connected, connecting, or the loss that makes it
\* retry or give up is on its way to its handler.
THEOREM RetryIsPendingTheorem == Spec => []RetryIsPending
<1>1. StationInv => RetryIsPending
  <2> SUFFICES ASSUME StationInv, sta.active, radio = "idle"
               PROVE  ToSet(events) \cap Reason # {}
    BY DEF RetryIsPending
  <2>1. PICK r \in Reason :
          \/ events = <<r, "GOT_IP">>
          \/ \E q \in Greetings : events = Append(q, r)
    BY DEF StationInv, LossIsPending
  <2>2. events \in {<<r, "GOT_IP">>, <<r>>, <<"GOT_IP", r>>,
                    <<"CONNECTED", r>>, <<"GOT_IP", "CONNECTED", r>>}
    BY <2>1, Lines1, Lines2, Lines3 DEF Greetings
  <2>3. \E i \in DOMAIN events : events[i] = r
    BY <2>2, SMT
  <2> QED
    BY <2>3 DEF ToSet
<1> QED
  BY <1>1, StationInvariant, PTL

\* station.c and client.c: whatever order losses, leases and handlers come in,
\* an open client with no event pending is on a station that has its radio.
THEOREM ClientFollowsRadioTheorem == Spec => []ClientFollowsRadio
<1>1. TypeOK /\ StationInv => ClientFollowsRadio
  <2> SUFFICES ASSUME TypeOK, StationInv, events = <<>>, client.up
               PROVE  radio = "up" /\ sta.full
    BY DEF ClientFollowsRadio
  <2>1. ~LossIsPending
    <3> SUFFICES ASSUME NEW r \in Reason,
                        \/ events = <<r, "GOT_IP">>
                        \/ \E q \in Greetings : events = Append(q, r)
                 PROVE  FALSE
      BY DEF LossIsPending
    <3> QED
      BY Lines1, Lines2, Lines3, SMT DEF Greetings
  <2> QED
    BY <2>1 DEF StationInv, LinkIsOff, TypeOK
<1> QED
  BY <1>1, StationInvariant, PTL

----------------------------------------------------------------------------
(* The tasks and their connections: PathInv is inductive.                  *)

LEMMA PathInit == Init => PathInv
<1> SUFFICES ASSUME Init PROVE PathInv
  OBVIOUS
<1>1. /\ \A t \in Tasks : /\ ctask[t].pc = "none" /\ ctask[t].conn = NoConn
                          /\ stask[t].pc = "none" /\ stask[t].conn = NoConn
      /\ \A c \in Conns : conn[c].cl = "closed" /\ conn[c].sv = "closed"
      /\ ~client.peer_connected
      /\ \A e \in End : Latest(e) = "LOST"
  BY DEF Init, NoTask, NewConn, NewClient, Latest
<1>2. ServerReports /\ ClientReports
  BY <1>1 DEF ServerReports, ClientReports, End
<1>3. Ends
  BY <1>1 DEF Ends, ClientReads, ServerReads
<1>4. OldAreClosed
  BY <1>1 DEF OldAreClosed, Heard
<1>5. OneTask(ctask) /\ OneTask(stask)
  BY <1>1 DEF OneTask
<1> QED
  BY <1>2, <1>3, <1>4, <1>5 DEF PathInv

\* Nobody is born, and nobody moves between the states with a connection
\* and those without.
LEMMA EndsFrame ==
  ASSUME Ends,
         \A t \in Tasks :
           /\ ctask'[t].conn = ctask[t].conn
           /\ ctask'[t].pc \in ClientReads <=> ctask[t].pc \in ClientReads
           /\ stask'[t].conn = stask[t].conn
           /\ stask'[t].pc \in ServerReads <=> stask[t].pc \in ServerReads,
         client'.sock = client.sock, server'.sock = server.sock,
         \A c \in Conns :
           /\ conn'[c].cl = "closed" <=> conn[c].cl = "closed"
           /\ conn'[c].sv \in {"open", "broken"} <=> conn[c].sv \in {"open", "broken"}
  PROVE  Ends'
BY DEF Ends, NoConn

LEMMA OldFrame ==
  ASSUME OldAreClosed,
         \A c \in Conns :
           /\ conn'[c].cl # "closed" => conn[c].cl # "closed"
           /\ conn'[c].sv = "backlog" => conn[c].sv = "backlog"
           /\ conn[c].sv = "closed" => conn'[c].sv = "closed"
           /\ Heard(c)' => Heard(c)
  PROVE  OldAreClosed'
BY DEF OldAreClosed

LEMMA OneTaskFrame ==
  /\ OneTask(ctask)
       /\ (\A t \in Tasks : ctask'[t].pc # "none" => ctask[t].pc # "none")
       => OneTask(ctask)'
  /\ OneTask(stask)
       /\ (\A t \in Tasks : stask'[t].pc # "none" => stask[t].pc # "none")
       => OneTask(stask)'
BY DEF OneTask

LEMMA Alone ==
  ASSUME Ends, OneTask(ctask), OneTask(stask)
  PROVE  /\ \A t, u \in Tasks : t # u /\ ctask[t].pc # "none" =>
                                  ctask[u].pc = "none" /\ ctask[u].conn = NoConn
         /\ \A t, u \in Tasks : t # u /\ stask[t].pc # "none" =>
                                  stask[u].pc = "none" /\ stask[u].conn = NoConn
BY DEF OneTask, Ends, ClientReads, ServerReads

LEMMA LatestReport ==
  ASSUME TypeOK, NEW e \in End, NEW x \in Word, Report(e, x), UNCHANGED board
  PROVE  /\ Latest(e)' = x
         /\ \A d \in End \ {e} : Latest(d)' = Latest(d)
<1>1. /\ evq'[e] = Append(evq[e], x)
      /\ \A d \in End \ {e} : evq'[d] = evq[d]
  BY DEF Report, TypeOK
<1>2. evq[e] \in Seq(Word)
  BY DEF TypeOK
<1>3. /\ Append(evq[e], x) # <<>>
      /\ Append(evq[e], x)[Len(Append(evq[e], x))] = x
  BY <1>2, AppendProperties
<1> QED
  BY <1>1, <1>3 DEF Latest

LEMMA LatestPeerEvent ==
  ASSUME TypeOK, NEW e \in End, PeerEvent(e)
  PROVE  \A d \in End : Latest(d)' = Latest(d)
<1>1. /\ evq[e] # <<>> /\ evq' = [evq EXCEPT ![e] = Tail(@)]
      /\ board' = [board EXCEPT ![e] = Head(evq[e])]
  BY DEF PeerEvent
<1>2. /\ evq'[e] = Tail(evq[e]) /\ board'[e] = Head(evq[e])
      /\ \A d \in End \ {e} : evq'[d] = evq[d] /\ board'[d] = board[d]
  BY <1>1 DEF TypeOK
<1> DEFINE q == evq[e]
<1>3. q \in Seq(Word) /\ q # <<>> /\ Latest(e) = q[Len(q)]
      /\ evq'[e] = Tail(q) /\ board'[e] = Head(q)
  BY <1>1, <1>2 DEF TypeOK, Latest
<1> HIDE DEF q
<1>4. /\ Len(q) \in Nat \ {0} /\ Head(q) = q[1]
      /\ Tail(q) \in Seq(Word) /\ Len(Tail(q)) = Len(q) - 1
      /\ \A i \in 1 .. Len(q) - 1 : Tail(q)[i] = q[i + 1]
  BY <1>3, SMT
<1>7. Len(q) = 1 => Tail(q) = <<>>
  <2>1. Len(q) = 1 => Len(Tail(q)) = 0
    BY <1>4, SMT
  <2> QED
    BY <1>4, <2>1, EmptySeq
<1>8. ASSUME Len(q) # 1
      PROVE  Tail(q) # <<>> /\ Tail(q)[Len(Tail(q))] = q[Len(q)]
  <2>1. Len(q) - 1 \in 1 .. Len(q) - 1 /\ Len(q) - 1 + 1 = Len(q)
    BY <1>4, <1>8, SMT
  <2>2. Len(Tail(q)) # 0
    BY <1>4, <2>1, SMT
  <2>3. Tail(q) # <<>>
    BY <2>2, EmptySeq
  <2> QED
    BY <1>4, <2>1, <2>3
<1>5. Latest(e)' = Latest(e)
  <2>1. CASE Len(q) = 1
    BY <1>3, <1>4, <1>7, <2>1 DEF Latest
  <2>2. CASE Len(q) # 1
    BY <1>3, <1>8, <2>2 DEF Latest
  <2> QED
    BY <2>1, <2>2
<1>6. ASSUME NEW d \in End \ {e} PROVE Latest(d)' = Latest(d)
  BY <1>2 DEF Latest
<1> QED
  BY <1>5, <1>6

LEMMA ReportsFrame ==
  /\ ServerReports /\ Latest("server")' = Latest("server")
       /\ (\A t \in Tasks : stask'[t].pc = "recv" <=> stask[t].pc = "recv")
       => ServerReports'
  /\ ClientReports /\ Latest("client")' = Latest("client")
       /\ client'.peer_connected = client.peer_connected
       /\ (\A t \in Tasks : \A p \in {"recv", "received", "met", "lost"} :
             ctask'[t].pc = p <=> ctask[t].pc = p)
       => ClientReports'
BY DEF ServerReports, ClientReports

----------------------------------------------------------------------------
(* One step of a task of the client.                                       *)

\* What the step of t does to the tasks: the others are not alive.
LEMMA ClientMoves ==
  ASSUME TypeOK, NEW t \in Tasks, NEW r, ctask' = [ctask EXCEPT ![t] = r]
  PROVE  ctask'[t] = r /\ \A u \in Tasks \ {t} : ctask'[u] = ctask[u]
BY DEF TypeOK

LEMMA ClientGoes ==
  ASSUME TypeOK, NEW t \in Tasks, NEW p, ctask' = Goes(ctask, t, p)
  PROVE  /\ ctask'[t].pc = p /\ ctask'[t].conn = ctask[t].conn
         /\ \A u \in Tasks \ {t} : ctask'[u] = ctask[u]
<1>1. ctask[t] \in ClientTask
  BY DEF TypeOK
<1>2. ctask'[t] = [ctask[t] EXCEPT !.pc = p] /\ \A u \in Tasks \ {t} : ctask'[u] = ctask[u]
  BY DEF TypeOK, Goes
<1> QED
  BY <1>1, <1>2 DEF ClientTask

\* A step that stays on its connection, and between the states with a
\* connection or those without.
LEMMA ClientStays ==
  ASSUME TypeOK, Ends, OneTask(ctask), NEW t \in Tasks,
         ctask[t].pc # "none",
         \A u \in Tasks \ {t} : ctask'[u] = ctask[u],
         ctask'[t].conn = ctask[t].conn,
         ctask'[t].pc \in ClientReads <=> ctask[t].pc \in ClientReads,
         UNCHANGED <<server, stask>>, client'.sock = client.sock,
         \A c \in Conns : conn'[c].cl = conn[c].cl /\ conn'[c].sv = conn[c].sv
  PROVE  Ends' /\ OneTask(ctask)'
<1>1. Ends'
  BY EndsFrame
<1>2. OneTask(ctask)'
  BY OneTaskFrame
<1> QED
  BY <1>1, <1>2

LEMMA ClientLoopPath ==
  ASSUME TypeOK, Ends, OneTask(ctask), OneTask(stask), ClientReports, OldAreClosed,
         NEW t \in Tasks, ClientLoop(t) \/ ClientCannotConnect(t),
         UNCHANGED <<server, stask>>
  PROVE  Ends' /\ OneTask(ctask)' /\ ClientReports' /\ OldAreClosed'
<1>1. /\ ctask[t].pc \in {"top", "connect"} /\ UNCHANGED <<client, conn, evq, board>>
      /\ \/ \E p \in {"top", "connect"} : ctask' = Goes(ctask, t, p)
         \/ ctask' = [ctask EXCEPT ![t] = NoTask]
  BY DEF ClientLoop, ClientCannotConnect, boardVars
<1>2. ctask[t].conn = NoConn
  BY <1>1 DEF Ends, ClientReads
<1>3. /\ ctask'[t].pc \in {"top", "connect", "none"} /\ ctask'[t].conn = NoConn
      /\ \A u \in Tasks \ {t} : ctask'[u] = ctask[u]
  BY <1>1, <1>2, ClientMoves, ClientGoes DEF NoTask
<1>4. \A u \in Tasks : \A p \in {"recv", "received", "met", "lost"} :
        ctask'[u].pc = p <=> ctask[u].pc = p
  BY <1>1, <1>3
<1>5. Ends' /\ OneTask(ctask)'
  BY <1>1, <1>2, <1>3, ClientStays DEF ClientReads
<1>6. ClientReports'
  BY <1>1, <1>4, ReportsFrame DEF Latest
<1>7. OldAreClosed'
  <2>1. \A c \in Conns : Heard(c)' => Heard(c)
    BY <1>1, <1>4 DEF Heard
  <2> QED
    BY <1>1, <2>1, OldFrame
<1> QED
  BY <1>5, <1>6, <1>7

LEMMA ClientConnectsPath ==
  ASSUME TypeOK, Ends, OneTask(ctask), OneTask(stask), ClientReports, OldAreClosed,
         NEW t \in Tasks, ClientConnects(t), UNCHANGED <<server, stask>>
  PROVE  Ends' /\ OneTask(ctask)' /\ ClientReports' /\ OldAreClosed'
<1> DEFINE new == [NewConn EXCEPT !.cl = "open", !.sv = "backlog"]
<1>1. PICK c \in Conns :
        /\ Free(c) /\ conn' = [conn EXCEPT ![c] = new]
        /\ ctask' = [ctask EXCEPT ![t] = [pc |-> "recv", conn |-> c]]
        /\ client' = [client EXCEPT !.sock = c]
  BY Zenon DEF ClientConnects
<1>2. ctask[t].pc = "connect" /\ Accepts /\ UNCHANGED <<evq, board>>
  BY Zenon DEF ClientConnects, boardVars
<1>3. /\ new.cl = "open" /\ new.sv = "backlog" /\ ~new.toClient
  BY DEF NewConn
<1> HIDE DEF new
<1>4. conn'[c] = new /\ \A d \in Conns \ {c} : conn'[d] = conn[d]
  BY <1>1 DEF TypeOK
<1>5. /\ ctask'[t].pc = "recv" /\ ctask'[t].conn = c
      /\ \A u \in Tasks \ {t} : ctask'[u] = ctask[u]
  <2> DEFINE r == [pc |-> "recv", conn |-> c]
  <2>1. r.pc = "recv" /\ r.conn = c
    OBVIOUS
  <2>2. ctask' = [ctask EXCEPT ![t] = r]
    BY <1>1
  <2> HIDE DEF r
  <2> QED
    BY <2>1, <2>2, ClientMoves
<1>6. client'.sock = c /\ client'.peer_connected = client.peer_connected
  BY <1>1 DEF TypeOK, ClientState
<1>7. \A u \in Tasks \ {t} : ctask[u].pc = "none" /\ ctask[u].conn = NoConn
  BY <1>2, Alone
<1>8. ctask[t].conn = NoConn
  BY <1>2 DEF Ends, ClientReads
<1>9. \A d \in Conns : conn[d].cl = "closed"
  <2>1. \A d \in Conns : d # NoConn
    BY ConnsAssumption DEF NoConn
  <2> QED
    BY <1>7, <1>8, <2>1 DEF Ends
<1>10. conn[c].sv = "closed"
  BY <1>1 DEF Free
<1>11. ~client.peer_connected
  BY <1>2, <1>7 DEF ClientReports
<1>12. Ends'
  <2>1. \A u \in Tasks :
          /\ ctask'[u].pc \in ClientReads => ctask'[u].conn \in Conns
          /\ ctask'[u].pc \notin ClientReads => ctask'[u].conn = NoConn
          /\ ctask'[u].conn # NoConn => /\ ctask'[u].conn = client'.sock
                                        /\ conn'[ctask'[u].conn].cl # "closed"
    BY <1>3, <1>4, <1>5, <1>6, <1>7 DEF ClientReads
  <2>2. \A u \in Tasks :
          stask[u].conn # NoConn => stask[u].conn \in Conns \ {c}
    BY <1>10 DEF Ends, TypeOK, ServerTask
  <2>3. \A d \in Conns :
          /\ conn'[d].cl # "closed" => \E u \in Tasks : ctask'[u].conn = d
          /\ conn'[d].sv \in {"open", "broken"} => d # c
    BY <1>3, <1>4, <1>5, <1>9
  <2> QED
    BY <1>4, <2>1, <2>2, <2>3 DEF Ends
<1>13. OneTask(ctask)'
  BY <1>2, <1>5, OneTaskFrame
<1>14. ClientReports'
  BY <1>2, <1>5, <1>6, <1>7, <1>11 DEF ClientReports, Latest
<1>15. OldAreClosed'
  <2>1. \A d \in Conns : ~Heard(d)'
    BY <1>3, <1>4, <1>5, <1>6, <1>7, <1>9, <1>11 DEF Heard
  <2>2. \A d \in Conns : conn[d].sv # "backlog"
    BY <1>2 DEF Accepts
  <2>3. ASSUME NEW a \in Conns, NEW b \in Conns, a # b, conn'[a].cl # "closed"
        PROVE  conn'[b].sv # "backlog"
    BY <1>4, <1>9, <2>2, <2>3
  <2> QED
    BY <2>1, <2>3 DEF OldAreClosed
<1> QED
  BY <1>12, <1>13, <1>14, <1>15

LEMMA ClientReadsPath ==
  ASSUME TypeOK, Ends, OneTask(ctask), OneTask(stask), ClientReports, OldAreClosed,
         NEW t \in Tasks, UNCHANGED <<server, stask>>,
         \/ ClientReceives(t) \/ ClientMeetsPeer(t) \/ ClientHasMet(t)
         \/ ClientRecvEnds(t) \/ ClientForgets(t)
  PROVE  Ends' /\ OneTask(ctask)' /\ ClientReports' /\ OldAreClosed'
<1> DEFINE c == ctask[t].conn
<1>1. /\ ctask[t].pc \in ClientReads /\ c \in Conns /\ c # NoConn
  <2>1. ctask[t].pc \in ClientReads
    BY DEF ClientReads, ClientReceives, ClientMeetsPeer, ClientHasMet,
           ClientRecvEnds, ClientForgets
  <2> QED
    BY <2>1, ConnsAssumption DEF Ends, NoConn
<1>2. \A u \in Tasks \ {t} : ctask[u].pc = "none" /\ ctask[u].conn = NoConn
  <2>1. ctask[t].pc # "none"
    BY <1>1 DEF ClientReads
  <2> QED
    BY <2>1, Alone
<1>3. \A d \in Conns : conn[d].cl # "closed" => d = c
  <2>1. \A d \in Conns : d # NoConn
    BY ConnsAssumption DEF NoConn
  <2> QED
    BY <1>2, <2>1 DEF Ends
<1>4. PICK p \in {"recv", "received", "met", "lost", "close"} :
        ctask' = Goes(ctask, t, p)
  BY Zenon DEF ClientReceives, ClientMeetsPeer, ClientHasMet, ClientRecvEnds,
       ClientForgets
<1>5. /\ ctask'[t].pc = p /\ ctask'[t].conn = c
      /\ \A u \in Tasks \ {t} : ctask'[u] = ctask[u]
  BY <1>4, ClientGoes
<1>6. \A d \in Conns : /\ conn'[d].cl = conn[d].cl /\ conn'[d].sv = conn[d].sv
                       /\ conn'[d].toClient => conn[d].toClient
  <2>1. conn' = conn \/ conn' = [conn EXCEPT ![c].toClient = FALSE]
    BY Zenon DEF ClientReceives, ClientMeetsPeer, ClientHasMet, ClientRecvEnds,
         ClientForgets
  <2>2. conn[c] \in Connection
    BY <1>1 DEF TypeOK
  <2> HIDE DEF c
  <2> QED
    BY <2>1, <2>2 DEF TypeOK, Connection
<1>7. client'.sock = client.sock
  BY DEF ClientReceives, ClientMeetsPeer, ClientHasMet, ClientRecvEnds,
         ClientForgets, TypeOK, ClientState
<1>8. Ends' /\ OneTask(ctask)'
  BY <1>1, <1>4, <1>5, <1>6, <1>7, ClientStays DEF ClientReads
<1>9. CASE ClientReceives(t)
  <2>1. /\ ctask[t].pc = "recv" /\ p = "received" /\ conn[c].toClient
        /\ UNCHANGED <<client, evq, board>>
    BY <1>5, <1>9, ClientGoes DEF ClientReceives, boardVars
  <2>2. ClientReports'
    BY <1>2, <1>5, <2>1 DEF ClientReports, Latest
  <2>3. \A d \in Conns : Heard(d)' => Heard(d)
    BY <1>3, <1>6, <2>1 DEF Heard
  <2> QED
    BY <1>6, <1>8, <2>2, <2>3, OldFrame
<1>10. CASE ClientMeetsPeer(t)
  <2>1. ctask[t].pc = "received" /\ UNCHANGED <<client, conn, board>>
    BY <1>10 DEF ClientMeetsPeer
  <2>2. CASE client.peer_connected
    <3>1. p = "recv" /\ UNCHANGED evq
      BY <1>5, <1>10, <2>2, ClientGoes DEF ClientMeetsPeer
    <3>2. ClientReports'
      BY <1>2, <1>5, <2>1, <2>2, <3>1 DEF ClientReports, Latest
    <3>3. \A d \in Conns : Heard(d)' => Heard(d)
      BY <2>1, <2>2 DEF Heard
    <3> QED
      BY <1>6, <1>8, <3>2, <3>3, OldFrame
  <2>3. CASE ~client.peer_connected
    <3>1. p = "met" /\ Report("client", "CONNECTED")
      BY <1>5, <1>10, <2>3, ClientGoes DEF ClientMeetsPeer
    <3>2. Latest("client")' = "CONNECTED"
      BY <2>1, <3>1, LatestReport DEF End, Word
    <3>3. ClientReports'
      BY <1>2, <1>5, <2>1, <2>3, <3>1, <3>2 DEF ClientReports
    <3>4. \A d \in Conns : Heard(d)' => Heard(d)
      BY <1>2, <1>5, <2>1, <3>1 DEF Heard
    <3> QED
      BY <1>6, <1>8, <3>3, <3>4, OldFrame
  <2> QED
    BY <2>2, <2>3
<1>11. CASE ClientHasMet(t)
  <2>1. ctask[t].pc = "met" /\ UNCHANGED <<conn, evq, board>>
        /\ client' = [client EXCEPT !.peer_connected = TRUE]
        /\ ctask' = Goes(ctask, t, "recv")
    BY <1>11 DEF ClientHasMet, boardVars
  <2>2. p = "recv" /\ client'.peer_connected
    BY <1>5, <2>1, ClientGoes DEF TypeOK, ClientState
  <2>3. ClientReports'
    BY <1>2, <1>5, <2>1, <2>2 DEF ClientReports, Latest
  <2>4. \A d \in Conns : Heard(d)' => Heard(d)
    BY <2>1 DEF Heard
  <2> QED
    BY <1>6, <1>8, <2>3, <2>4, OldFrame
<1>12. CASE ClientRecvEnds(t)
  <2>1. ctask[t].pc = "recv" /\ UNCHANGED <<client, conn, board>>
    BY <1>12 DEF ClientRecvEnds
  <2>2. CASE client.peer_connected
    <3>1. p = "lost" /\ Report("client", "LOST")
      BY <1>5, <1>12, <2>2, ClientGoes DEF ClientRecvEnds
    <3>2. Latest("client")' = "LOST"
      BY <2>1, <3>1, LatestReport DEF End, Word
    <3>3. ClientReports'
      BY <1>2, <1>5, <2>1, <2>2, <3>1, <3>2 DEF ClientReports
    <3>4. \A d \in Conns : Heard(d)' => Heard(d)
      BY <2>1, <2>2 DEF Heard
    <3> QED
      BY <1>6, <1>8, <3>3, <3>4, OldFrame
  <2>3. CASE ~client.peer_connected
    <3>1. p = "close" /\ UNCHANGED evq
      BY <1>5, <1>12, <2>3, ClientGoes DEF ClientRecvEnds
    <3>2. ClientReports'
      BY <1>2, <1>5, <2>1, <2>3, <3>1 DEF ClientReports, Latest
    <3>3. \A d \in Conns : Heard(d)' => Heard(d)
      BY <1>2, <1>5, <2>1, <2>3, <3>1 DEF Heard
    <3> QED
      BY <1>6, <1>8, <3>2, <3>3, OldFrame
  <2> QED
    BY <2>2, <2>3
<1>13. CASE ClientForgets(t)
  <2>1. ctask[t].pc = "lost" /\ UNCHANGED <<conn, evq, board>>
        /\ client' = [client EXCEPT !.peer_connected = FALSE]
        /\ ctask' = Goes(ctask, t, "close")
    BY <1>13 DEF ClientForgets, boardVars
  <2>2. p = "close" /\ ~client'.peer_connected
    BY <1>5, <2>1, ClientGoes DEF TypeOK, ClientState
  <2>3. ClientReports'
    BY <1>2, <1>5, <2>1, <2>2 DEF ClientReports, Latest
  <2>4. \A d \in Conns : Heard(d)' => Heard(d)
    BY <2>1 DEF Heard
  <2> QED
    BY <1>6, <1>8, <2>3, <2>4, OldFrame
<1> QED
  BY <1>9, <1>10, <1>11, <1>12, <1>13

LEMMA ClientClosesPath ==
  ASSUME TypeOK, Ends, OneTask(ctask), OneTask(stask), ClientReports, OldAreClosed,
         NEW t \in Tasks, ClientCloses(t), UNCHANGED <<server, stask>>
  PROVE  Ends' /\ OneTask(ctask)' /\ ClientReports' /\ OldAreClosed'
<1> DEFINE c == ctask[t].conn
<1>1. /\ ctask[t].pc = "close" /\ UNCHANGED <<evq, board>>
      /\ client' = [client EXCEPT !.sock = NoConn]
      /\ conn' = [conn EXCEPT ![c].cl = "closed", ![c].toClient = FALSE]
      /\ ctask' = [ctask EXCEPT ![t] = [pc |-> "top", conn |-> NoConn]]
  BY Zenon DEF ClientCloses, boardVars
<1>2. c \in Conns
  BY <1>1 DEF Ends, ClientReads
<1>3. \A u \in Tasks \ {t} : ctask[u].pc = "none" /\ ctask[u].conn = NoConn
  BY <1>1, Alone
<1>4. \A d \in Conns : conn[d].cl # "closed" => d = c
  <2>1. \A d \in Conns : d # NoConn
    BY ConnsAssumption DEF NoConn
  <2> QED
    BY <1>3, <2>1 DEF Ends
<1>5. \A d \in Conns : conn'[d].sv = conn[d].sv /\ conn'[d].cl = "closed"
  <2>1. conn[c] \in Connection
    BY <1>2 DEF TypeOK
  <2> HIDE DEF c
  <2> QED
    BY <1>1, <1>2, <1>4, <2>1 DEF TypeOK, Connection
<1>6. client'.sock = NoConn /\ client'.peer_connected = client.peer_connected
  <2>1. client' = [client EXCEPT !.sock = NoConn]
    BY <1>1
  <2> QED
    BY <2>1 DEF TypeOK, ClientState
<1>7. /\ ctask'[t].pc = "top" /\ ctask'[t].conn = NoConn
      /\ \A u \in Tasks \ {t} : ctask'[u] = ctask[u]
  <2> DEFINE r == [pc |-> "top", conn |-> NoConn]
  <2>1. r.pc = "top" /\ r.conn = NoConn
    OBVIOUS
  <2>2. ctask' = [ctask EXCEPT ![t] = r]
    BY <1>1
  <2> HIDE DEF r
  <2> QED
    BY <2>1, <2>2, ClientMoves
<1>8. ~client.peer_connected
  BY <1>1, <1>3 DEF ClientReports
<1>9. Ends'
  BY <1>3, <1>5, <1>6, <1>7 DEF Ends, ClientReads
<1>10. OneTask(ctask)'
  BY <1>1, <1>7, OneTaskFrame
<1>11. ClientReports'
  BY <1>1, <1>3, <1>6, <1>7, <1>8 DEF ClientReports, Latest
<1>12. OldAreClosed'
  BY <1>5 DEF OldAreClosed, Heard
<1> QED
  BY <1>9, <1>10, <1>11, <1>12

----------------------------------------------------------------------------
(* One step of a task of the server.                                       *)

LEMMA ServerMoves ==
  ASSUME TypeOK, NEW t \in Tasks, NEW r, stask' = [stask EXCEPT ![t] = r]
  PROVE  stask'[t] = r /\ \A u \in Tasks \ {t} : stask'[u] = stask[u]
BY DEF TypeOK

LEMMA ServerGoes ==
  ASSUME TypeOK, NEW t \in Tasks, NEW p, stask' = Goes(stask, t, p)
  PROVE  /\ stask'[t].pc = p /\ stask'[t].conn = stask[t].conn
         /\ \A u \in Tasks \ {t} : stask'[u] = stask[u]
<1>1. stask[t] \in ServerTask
  BY DEF TypeOK
<1>2. stask'[t] = [stask[t] EXCEPT !.pc = p] /\ \A u \in Tasks \ {t} : stask'[u] = stask[u]
  BY DEF TypeOK, Goes
<1> QED
  BY <1>1, <1>2 DEF ServerTask

\* Closing listen_sock resets the connection in the backlog and nothing else.
LEMMA ClosesListeningPath ==
  ASSUME TypeOK, NEW s \in ServerState, NEW task \in [Tasks -> ServerTask],
         ClosesListening(s, task)
  PROVE  /\ server'.sock = s.sock
         /\ \A t \in Tasks :
              /\ stask'[t].conn = task[t].conn
              /\ stask'[t].pc = IF task[t].pc = "accept" THEN "top" ELSE task[t].pc
         /\ \A c \in Conns :
              /\ conn'[c].cl = "closed" <=> conn[c].cl = "closed"
              /\ conn'[c].sv = IF conn[c].sv = "backlog" THEN "closed" ELSE conn[c].sv
              /\ conn'[c].toClient = conn[c].toClient
<1> DEFINE reset(c) == [conn[c] EXCEPT !.sv = "closed",
                !.cl = IF @ = "open" /\ radio = "up" THEN "broken" ELSE @]
<1>1. /\ server' = [s EXCEPT !.listening = FALSE]
      /\ stask' = [t \in Tasks |-> IF task[t].pc = "accept"
                                   THEN [task[t] EXCEPT !.pc = "top"] ELSE task[t]]
      /\ conn' = [c \in Conns |-> IF conn[c].sv # "backlog" THEN conn[c]
                                  ELSE reset(c)]
  BY Zenon DEF ClosesListening
<1>2. ASSUME NEW c \in Conns
      PROVE  /\ reset(c).sv = "closed"
             /\ reset(c).cl = "closed" <=> conn[c].cl = "closed"
             /\ reset(c).toClient = conn[c].toClient
  <2>1. conn[c] \in Connection
    BY DEF TypeOK
  <2> QED
    BY <2>1 DEF Connection
<1> HIDE DEF reset
<1>3. server'.sock = s.sock
  BY <1>1 DEF ServerState
<1>4. ASSUME NEW t \in Tasks
      PROVE  /\ stask'[t].conn = task[t].conn
             /\ stask'[t].pc = IF task[t].pc = "accept" THEN "top" ELSE task[t].pc
  <2>1. task[t] \in ServerTask
    OBVIOUS
  <2> QED
    BY <1>1, <2>1 DEF ServerTask
<1>5. ASSUME NEW c \in Conns
      PROVE  /\ conn'[c].cl = "closed" <=> conn[c].cl = "closed"
             /\ conn'[c].sv = IF conn[c].sv = "backlog" THEN "closed" ELSE conn[c].sv
             /\ conn'[c].toClient = conn[c].toClient
  BY <1>1, <1>2
<1> QED
  BY <1>3, <1>4, <1>5

LEMMA ServerStays ==
  ASSUME TypeOK, Ends, OneTask(stask), NEW t \in Tasks,
         stask[t].pc # "none",
         \A u \in Tasks \ {t} : stask'[u] = stask[u],
         stask'[t].conn = stask[t].conn,
         stask'[t].pc \in ServerReads <=> stask[t].pc \in ServerReads,
         UNCHANGED <<client, ctask>>, server'.sock = server.sock,
         \A c \in Conns : conn'[c].cl = conn[c].cl /\ conn'[c].sv = conn[c].sv
  PROVE  Ends' /\ OneTask(stask)'
<1>1. Ends'
  BY EndsFrame
<1>2. OneTask(stask)'
  BY OneTaskFrame
<1> QED
  BY <1>1, <1>2

LEMMA ServerLoopPath ==
  ASSUME TypeOK, Ends, OneTask(ctask), OneTask(stask), ServerReports, OldAreClosed,
         NEW t \in Tasks, ServerListens(t) \/ ServerLoop(t), UNCHANGED <<client, ctask>>
  PROVE  Ends' /\ OneTask(stask)' /\ ServerReports' /\ OldAreClosed'
<1>1. /\ stask[t].pc \in {"start", "top"} /\ UNCHANGED <<conn, evq, board>>
      /\ \E p \in {"top", "cleanup", "accept"} : stask' = Goes(stask, t, p)
  BY DEF ServerListens, ServerLoop, boardVars
<1>2. server'.sock = server.sock
  BY DEF ServerListens, ServerLoop, TypeOK, ServerState
<1>3. /\ stask'[t].pc \in {"top", "cleanup", "accept"} /\ stask'[t].conn = stask[t].conn
      /\ \A u \in Tasks \ {t} : stask'[u] = stask[u]
  BY <1>1, ServerGoes
<1>4. Ends' /\ OneTask(stask)'
  BY <1>1, <1>2, <1>3, ServerStays DEF ServerReads
<1>5. ServerReports'
  <2>1. \A u \in Tasks : stask'[u].pc = "recv" <=> stask[u].pc = "recv"
    BY <1>1, <1>3
  <2> QED
    BY <1>1, <2>1, ReportsFrame DEF Latest
<1>6. OldAreClosed'
  BY <1>1, OldFrame DEF Heard
<1> QED
  BY <1>4, <1>5, <1>6

LEMMA ServerAcceptsPath ==
  ASSUME TypeOK, Ends, OneTask(ctask), OneTask(stask), ServerReports, OldAreClosed,
         NEW t \in Tasks, ServerAccepts(t), UNCHANGED <<client, ctask>>
  PROVE  Ends' /\ OneTask(stask)' /\ ServerReports' /\ OldAreClosed'
<1>1. PICK c \in Conns :
        /\ conn[c].sv = "backlog" /\ conn' = [conn EXCEPT ![c].sv = "open"]
        /\ stask' = [stask EXCEPT ![t] = [pc |-> "accepted", conn |-> c]]
        /\ server' = [server EXCEPT !.sock = c]
  BY Zenon DEF ServerAccepts
<1>2. stask[t].pc = "accept" /\ UNCHANGED <<evq, board>>
  BY DEF ServerAccepts, boardVars
<1>3. /\ stask'[t].pc = "accepted" /\ stask'[t].conn = c
      /\ \A u \in Tasks \ {t} : stask'[u] = stask[u]
  <2> DEFINE r == [pc |-> "accepted", conn |-> c]
  <2>1. r.pc = "accepted" /\ r.conn = c
    OBVIOUS
  <2>2. stask' = [stask EXCEPT ![t] = r]
    BY <1>1
  <2> HIDE DEF r
  <2> QED
    BY <2>1, <2>2, ServerMoves
<1>4. server'.sock = c
  BY <1>1 DEF TypeOK, ServerState
<1>5. /\ conn'[c].sv = "open" /\ conn'[c].cl = conn[c].cl
      /\ conn'[c].toClient = conn[c].toClient
      /\ \A d \in Conns \ {c} : conn'[d] = conn[d]
  <2>1. conn[c] \in Connection
    BY DEF TypeOK
  <2>2. conn' = [conn EXCEPT ![c].sv = "open"]
    BY <1>1
  <2> QED
    BY <2>1, <2>2 DEF TypeOK, Connection
<1>6. \A u \in Tasks \ {t} : stask[u].pc = "none" /\ stask[u].conn = NoConn
  BY <1>2, Alone
<1>7. stask[t].conn = NoConn
  BY <1>2 DEF Ends, ServerReads
<1>8. \A d \in Conns : conn[d].sv \in {"closed", "backlog"}
  <2>1. \A d \in Conns : d # NoConn
    BY ConnsAssumption DEF NoConn
  <2>2. \A d \in Conns : conn[d].sv \in {"closed", "backlog", "open", "broken"}
    BY DEF TypeOK, Connection
  <2> QED
    BY <1>6, <1>7, <2>1, <2>2 DEF Ends
<1>9. Ends'
  <2>1. \A u \in Tasks :
          /\ stask'[u].pc \in ServerReads => stask'[u].conn \in Conns
          /\ stask'[u].pc \notin ServerReads => stask'[u].conn = NoConn
          /\ stask'[u].conn # NoConn =>
               /\ stask'[u].conn = server'.sock
               /\ conn'[stask'[u].conn].sv \in {"open", "broken"}
    BY <1>3, <1>4, <1>5, <1>6 DEF ServerReads
  <2>2. \A d \in Conns :
          conn'[d].sv \in {"open", "broken"} => \E u \in Tasks : stask'[u].conn = d
    BY <1>3, <1>5, <1>8
  <2>3. \A d \in Conns : conn'[d].cl = conn[d].cl
    BY <1>5
  <2> QED
    BY <2>1, <2>2, <2>3 DEF Ends, NoConn
<1>10. OneTask(stask)'
  BY <1>2, <1>3, OneTaskFrame
<1>11. ServerReports'
  <2>1. \A u \in Tasks : stask'[u].pc = "recv" <=> stask[u].pc = "recv"
    BY <1>2, <1>3
  <2> QED
    BY <1>2, <2>1, ReportsFrame DEF Latest
<1>12. OldAreClosed'
  <2>1. \A a \in Conns : conn'[a].cl = conn[a].cl /\ (Heard(a)' <=> Heard(a))
    BY <1>5 DEF Heard
  <2>2. ASSUME NEW a \in Conns, NEW b \in Conns, a # b
        PROVE  /\ conn'[a].cl # "closed" => conn'[b].sv # "backlog"
               /\ Heard(a)' => conn'[b].sv = "closed"
    <3>1. CASE b = c
      \* what was in the backlog belongs to the client's one connection
      <4>1. conn[a].cl = "closed"
        BY <1>1, <2>2, <3>1 DEF OldAreClosed
      <4> QED
        BY <2>1, <4>1 DEF Heard
    <3>2. CASE b # c
      BY <1>5, <2>1, <2>2, <3>2 DEF OldAreClosed
    <3> QED
      BY <3>1, <3>2
  <2> QED
    BY <2>2 DEF OldAreClosed
<1> QED
  BY <1>9, <1>10, <1>11, <1>12

LEMMA ServerReadsPath ==
  ASSUME TypeOK, Ends, OneTask(ctask), OneTask(stask), ServerReports, OldAreClosed,
         NEW t \in Tasks, UNCHANGED <<client, ctask>>,
         ServerMeetsPeer(t) \/ ServerReceives(t) \/ ServerRecvEnds(t)
  PROVE  Ends' /\ OneTask(stask)' /\ ServerReports' /\ OldAreClosed'
<1> DEFINE c == stask[t].conn
<1>1. stask[t].pc \in ServerReads /\ c \in Conns
  <2>1. stask[t].pc \in ServerReads
    BY DEF ServerReads, ServerMeetsPeer, ServerReceives, ServerRecvEnds
  <2> QED
    BY <2>1 DEF Ends
<1>2. \A u \in Tasks \ {t} : stask[u].pc = "none" /\ stask[u].conn = NoConn
  <2>1. stask[t].pc # "none"
    BY <1>1 DEF ServerReads
  <2> QED
    BY <2>1, Alone
<1>3. \A d \in Conns : /\ conn'[d].cl = conn[d].cl /\ conn'[d].sv = conn[d].sv
                       /\ conn'[d].toClient = conn[d].toClient
  <2>1. conn' = conn \/ conn' = [conn EXCEPT ![c].toServer = FALSE]
    BY Zenon DEF ServerMeetsPeer, ServerReceives, ServerRecvEnds
  <2>2. conn[c] \in Connection
    BY <1>1 DEF TypeOK
  <2> HIDE DEF c
  <2> QED
    BY <2>1, <2>2 DEF TypeOK, Connection
<1>4. UNCHANGED <<server, board>>
  BY DEF ServerMeetsPeer, ServerReceives, ServerRecvEnds, boardVars
<1>5. OldAreClosed'
  <2>1. \A d \in Conns : Heard(d)' => Heard(d)
    BY <1>3 DEF Heard
  <2> QED
    BY <1>3, <2>1, OldFrame
<1>6. CASE ServerMeetsPeer(t)
  <2>1. /\ stask[t].pc = "accepted" /\ Report("server", "CONNECTED")
        /\ stask' = Goes(stask, t, "recv")
    BY <1>6 DEF ServerMeetsPeer
  <2>2. /\ stask'[t].pc = "recv" /\ stask'[t].conn = c
        /\ \A u \in Tasks \ {t} : stask'[u] = stask[u]
    BY <2>1, ServerGoes
  <2>3. Latest("server")' = "CONNECTED"
    BY <1>4, <2>1, LatestReport DEF End, Word
  <2>4. ServerReports'
    BY <2>2, <2>3 DEF ServerReports
  <2>5. Ends' /\ OneTask(stask)'
    BY <1>3, <1>4, <2>1, <2>2, ServerStays DEF ServerReads
  <2> QED
    BY <1>5, <2>4, <2>5
<1>7. CASE ServerReceives(t)
  <2>1. UNCHANGED <<stask, evq, board>>
    BY <1>7 DEF ServerReceives, boardVars
  <2>2. ServerReports'
    BY <2>1 DEF ServerReports, Latest
  <2>3. Ends' /\ OneTask(stask)'
    BY <1>3, <1>4, <2>1, EndsFrame, OneTaskFrame
  <2> QED
    BY <1>5, <2>2, <2>3
<1>8. CASE ServerRecvEnds(t)
  <2>1. /\ stask[t].pc = "recv" /\ Report("server", "LOST")
        /\ stask' = Goes(stask, t, "lost")
    BY <1>8 DEF ServerRecvEnds
  <2>2. /\ stask'[t].pc = "lost" /\ stask'[t].conn = c
        /\ \A u \in Tasks \ {t} : stask'[u] = stask[u]
    BY <2>1, ServerGoes
  <2>3. Latest("server")' = "LOST"
    BY <1>4, <2>1, LatestReport DEF End, Word
  <2>4. ServerReports'
    BY <1>2, <2>2, <2>3 DEF ServerReports
  <2>5. Ends' /\ OneTask(stask)'
    BY <1>3, <1>4, <2>1, <2>2, ServerStays DEF ServerReads
  <2> QED
    BY <1>5, <2>4, <2>5
<1> QED
  BY <1>6, <1>7, <1>8

LEMMA ServerClosesPath ==
  ASSUME TypeOK, Ends, OneTask(ctask), OneTask(stask), ServerReports, OldAreClosed,
         NEW t \in Tasks, ServerCloses(t), UNCHANGED <<client, ctask>>
  PROVE  Ends' /\ OneTask(stask)' /\ ServerReports' /\ OldAreClosed'
<1> DEFINE c == stask[t].conn
<1>1. /\ stask[t].pc = "lost" /\ UNCHANGED <<evq, board>>
      /\ server' = [server EXCEPT !.sock = NoConn]
      /\ conn' = [conn EXCEPT ![c].sv = "closed", ![c].toServer = FALSE]
      /\ stask' = [stask EXCEPT ![t] = [pc |-> "top", conn |-> NoConn]]
  BY Zenon DEF ServerCloses, boardVars
<1>2. c \in Conns
  BY <1>1 DEF Ends, ServerReads
<1>3. \A u \in Tasks \ {t} : stask[u].pc = "none" /\ stask[u].conn = NoConn
  BY <1>1, Alone
<1>4. /\ conn'[c].sv = "closed" /\ conn'[c].cl = conn[c].cl
      /\ conn'[c].toClient = conn[c].toClient
      /\ \A d \in Conns \ {c} : conn'[d] = conn[d]
  <2>1. conn[c] \in Connection
    BY <1>2 DEF TypeOK
  <2>2. c \in Conns /\ conn' = [conn EXCEPT ![c].sv = "closed", ![c].toServer = FALSE]
    BY <1>1, <1>2
  <2> HIDE DEF c
  <2> QED
    BY <2>1, <2>2 DEF TypeOK, Connection
<1>5. server'.sock = NoConn
  <2>1. server' = [server EXCEPT !.sock = NoConn]
    BY <1>1
  <2> QED
    BY <2>1 DEF TypeOK, ServerState
<1>6. /\ stask'[t].pc = "top" /\ stask'[t].conn = NoConn
      /\ \A u \in Tasks \ {t} : stask'[u] = stask[u]
  <2> DEFINE r == [pc |-> "top", conn |-> NoConn]
  <2>1. r.pc = "top" /\ r.conn = NoConn
    OBVIOUS
  <2>2. stask' = [stask EXCEPT ![t] = r]
    BY <1>1
  <2> HIDE DEF r
  <2> QED
    BY <2>1, <2>2, ServerMoves
<1>7. \A d \in Conns \ {c} : conn[d].sv \notin {"open", "broken"}
  <2>1. \A d \in Conns : d # NoConn
    BY ConnsAssumption DEF NoConn
  <2> QED
    BY <1>3, <2>1 DEF Ends
<1>8. Ends'
  <2>1. \A d \in Conns : /\ conn'[d].cl = conn[d].cl
                         /\ conn'[d].sv \notin {"open", "broken"}
    BY <1>4, <1>7
  <2> QED
    BY <1>3, <1>5, <1>6, <2>1 DEF Ends, ServerReads
<1>9. OneTask(stask)'
  BY <1>1, <1>6, OneTaskFrame
<1>10. ServerReports'
  <2>1. \A u \in Tasks : stask'[u].pc = "recv" <=> stask[u].pc = "recv"
    BY <1>1, <1>6
  <2> QED
    BY <1>1, <2>1, ReportsFrame DEF Latest
<1>11. OldAreClosed'
  <2>1. \A d \in Conns : Heard(d)' => Heard(d)
    BY <1>4 DEF Heard
  <2> QED
    BY <1>4, <2>1, OldFrame
<1> QED
  BY <1>8, <1>9, <1>10, <1>11

\* server_close, and the end of a task of the server.
LEMMA ServerStopsPath ==
  ASSUME TypeOK, Ends, OneTask(ctask), OneTask(stask), ServerReports, OldAreClosed,
         UNCHANGED <<client, ctask, evq, board>>,
         \/ ServerClose
         \/ \E t \in Tasks : ServerCleansUp(t)
  PROVE  Ends' /\ OneTask(stask)' /\ ServerReports' /\ OldAreClosed'
<1>1. PICK s \in ServerState, task \in [Tasks -> ServerTask] :
        /\ ClosesListening(s, task) /\ s.sock = server.sock
        /\ \A u \in Tasks :
             \/ task[u] = stask[u]
             \/ stask[u].pc = "cleanup" /\ task[u] = NoTask
  <2>1. CASE ServerClose
    <3>1. /\ [server EXCEPT !.up = FALSE] \in ServerState
          /\ [server EXCEPT !.up = FALSE].sock = server.sock
          /\ stask \in [Tasks -> ServerTask]
      BY DEF TypeOK, ServerState
    <3> QED
      BY <2>1, <3>1 DEF ServerClose
  <2>2. ASSUME NEW t \in Tasks, ServerCleansUp(t)
        PROVE  \E s \in ServerState, task \in [Tasks -> ServerTask] :
                 /\ ClosesListening(s, task) /\ s.sock = server.sock
                 /\ \A u \in Tasks :
                      \/ task[u] = stask[u]
                      \/ stask[u].pc = "cleanup" /\ task[u] = NoTask
    <3> DEFINE task == [stask EXCEPT ![t] = NoTask]
    <3>1. stask[t].pc = "cleanup" /\ ClosesListening(server, task)
      BY <2>2 DEF ServerCleansUp
    <3>2. NoTask \in ServerTask
      BY DEF NoTask, ServerTask, ServerPc
    <3>3. /\ task \in [Tasks -> ServerTask] /\ server \in ServerState
          /\ \A u \in Tasks : \/ task[u] = stask[u]
                              \/ stask[u].pc = "cleanup" /\ task[u] = NoTask
      BY <3>1, <3>2 DEF TypeOK
    <3> HIDE DEF task
    <3> QED
      BY <3>1, <3>3
  <2> QED
    BY <2>1, <2>2
<1>2. /\ server'.sock = server.sock
      /\ \A t \in Tasks :
           /\ stask'[t].conn = task[t].conn
           /\ stask'[t].pc = IF task[t].pc = "accept" THEN "top" ELSE task[t].pc
      /\ \A c \in Conns :
           /\ conn'[c].cl = "closed" <=> conn[c].cl = "closed"
           /\ conn'[c].sv = IF conn[c].sv = "backlog" THEN "closed" ELSE conn[c].sv
           /\ conn'[c].toClient = conn[c].toClient
  BY <1>1, ClosesListeningPath
<1>3. ASSUME NEW u \in Tasks
      PROVE  /\ stask'[u].conn = stask[u].conn
             /\ stask'[u].pc \in ServerReads <=> stask[u].pc \in ServerReads
             /\ stask'[u].pc = "recv" <=> stask[u].pc = "recv"
             /\ stask'[u].pc # "none" => stask[u].pc # "none"
  <2>1. CASE task[u] = stask[u]
    BY <1>2, <2>1 DEF ServerReads
  <2>2. CASE stask[u].pc = "cleanup" /\ task[u] = NoTask
    <3>1. stask[u].conn = NoConn
      BY <2>2 DEF Ends, ServerReads
    <3> QED
      BY <1>2, <2>2, <3>1 DEF ServerReads, NoTask
  <2> QED
    BY <1>1, <2>1, <2>2
<1>4. Ends'
  BY <1>2, <1>3, EndsFrame
<1>5. OneTask(stask)'
  BY <1>3, OneTaskFrame
<1>6. ServerReports'
  BY <1>3, ReportsFrame DEF Latest
<1>7. OldAreClosed'
  <2>1. \A c \in Conns : Heard(c)' => Heard(c)
    BY <1>2 DEF Heard
  <2> QED
    BY <1>2, <2>1, OldFrame
<1> QED
  BY <1>4, <1>5, <1>6, <1>7

----------------------------------------------------------------------------
(* Every other step.                                                       *)

\* The radio is lost: connections may break and no more.
LEMMA DropPath ==
  ASSUME TypeOK, Drop
  PROVE  \A c \in Conns :
           /\ conn'[c].cl = "closed" <=> conn[c].cl = "closed"
           /\ conn'[c].sv = conn[c].sv /\ conn'[c].toClient = conn[c].toClient
<1>1. CASE UNCHANGED conn
  BY <1>1
<1>2. CASE Abort
  <2> SUFFICES ASSUME NEW c \in Conns
               PROVE  /\ conn'[c].cl = "closed" <=> conn[c].cl = "closed"
                      /\ conn'[c].sv = conn[c].sv
                      /\ conn'[c].toClient = conn[c].toClient
    OBVIOUS
  <2>1. conn[c] \in Connection
    BY DEF TypeOK
  <2>2. conn'[c] = IF conn[c].cl = "open" THEN [conn[c] EXCEPT !.cl = "broken"]
                   ELSE conn[c]
    BY <1>2 DEF Abort
  <2> QED
    BY <2>1, <2>2 DEF Connection
<1> QED
  BY <1>1, <1>2 DEF Drop

\* A step of the radio, of TCP or of a handler that starts no task.
LEMMA PathFrame ==
  ASSUME PathInv, overlap' = overlap,
         UNCHANGED <<ctask, stask>>,
         client'.sock = client.sock, server'.sock = server.sock,
         client'.peer_connected = client.peer_connected,
         \A e \in End : Latest(e)' = Latest(e),
         \A c \in Conns :
           /\ conn'[c].cl = "closed" <=> conn[c].cl = "closed"
           /\ conn'[c].sv \in {"open", "broken"} <=> conn[c].sv \in {"open", "broken"}
           /\ conn'[c].sv = "backlog" => conn[c].sv = "backlog"
           /\ conn[c].sv = "closed" => conn'[c].sv = "closed"
           /\ conn'[c].toClient => conn[c].toClient
  PROVE  PathInv'
<1> SUFFICES ASSUME ~overlap
             PROVE  /\ OneTask(ctask)' /\ OneTask(stask)'
                    /\ ServerReports' /\ ClientReports' /\ Ends' /\ OldAreClosed'
  BY DEF PathInv
<1>1. /\ OneTask(ctask) /\ OneTask(stask) /\ ServerReports /\ ClientReports
      /\ Ends /\ OldAreClosed
  BY DEF PathInv
<1>2. OneTask(ctask)' /\ OneTask(stask)'
  BY <1>1, OneTaskFrame
<1>3. ServerReports' /\ ClientReports'
  BY <1>1, ReportsFrame DEF End
<1>4. Ends'
  BY <1>1, EndsFrame
<1>5. OldAreClosed'
  <2>1. \A c \in Conns : Heard(c)' => Heard(c)
    BY DEF Heard
  <2> QED
    BY <1>1, <2>1, OldFrame
<1> QED
  BY <1>2, <1>3, <1>4, <1>5

LEMMA ClientOpenPath ==
  ASSUME TypeOK, PathInv, ClientOpen, UNCHANGED <<server, stask, conn, evq, board>>
  PROVE  PathInv'
<1>1. CASE client.up
  BY <1>1, PathFrame DEF ClientOpen, Latest
<1>2. CASE ~client.up
  <2>1. PICK t \in Tasks \ Alive(ctask) :
          /\ client' = [client EXCEPT !.up = TRUE]
          /\ ctask' = [ctask EXCEPT ![t] = [pc |-> "top", conn |-> NoConn]]
          /\ overlap' = (overlap \/ Alive(ctask) # {})
    BY <1>2 DEF ClientOpen, Spawn
  <2> SUFFICES ASSUME ~overlap, \A u \in Tasks : ctask[u].pc = "none"
               PROVE  /\ OneTask(ctask)' /\ OneTask(stask)'
                      /\ ServerReports' /\ ClientReports' /\ Ends' /\ OldAreClosed'
    BY <2>1 DEF PathInv, Alive
  <2>2. /\ OneTask(ctask) /\ OneTask(stask) /\ ServerReports /\ ClientReports
        /\ Ends /\ OldAreClosed
    BY DEF PathInv
  <2>3. client'.sock = client.sock /\ client'.peer_connected = client.peer_connected
    BY <2>1 DEF TypeOK, ClientState
  <2>4. /\ ctask'[t].pc = "top" /\ ctask'[t].conn = NoConn
        /\ \A u \in Tasks \ {t} : ctask'[u] = ctask[u]
    <3> DEFINE r == [pc |-> "top", conn |-> NoConn]
    <3>1. r.pc = "top" /\ r.conn = NoConn
      OBVIOUS
    <3>2. ctask' = [ctask EXCEPT ![t] = r] /\ t \in Tasks
      BY <2>1
    <3> HIDE DEF r
    <3> QED
      BY <3>1, <3>2, ClientMoves
  <2>5. \A u \in Tasks : ctask[u].conn = NoConn
    BY <2>2 DEF Ends, ClientReads
  <2>6. Ends'
    BY <2>2, <2>3, <2>4, <2>5, EndsFrame DEF ClientReads
  <2>7. OneTask(ctask)'
    BY <2>4 DEF OneTask
  <2>8. OneTask(stask)' /\ ServerReports'
    BY <2>2, OneTaskFrame, ReportsFrame DEF Latest
  <2>9. ClientReports'
    <3>1. \A u \in Tasks : \A p \in {"recv", "received", "met", "lost"} :
            ctask'[u].pc = p <=> ctask[u].pc = p
      BY <2>4
    <3> QED
      BY <2>2, <2>3, <3>1, ReportsFrame DEF Latest
  <2>10. OldAreClosed'
    <3>1. \A c \in Conns : Heard(c)' => Heard(c)
      BY <2>3, <2>4 DEF Heard
    <3> QED
      BY <2>2, <3>1, OldFrame
  <2> QED
    BY <2>6, <2>7, <2>8, <2>9, <2>10
<1> QED
  BY <1>1, <1>2

LEMMA ServerCreatePath ==
  ASSUME TypeOK, PathInv, ServerCreate, UNCHANGED <<client, ctask, conn, evq, board>>
  PROVE  PathInv'
<1>1. PICK t \in Tasks \ Alive(stask) :
        /\ server' = [server EXCEPT !.up = TRUE]
        /\ stask' = [stask EXCEPT ![t] = [pc |-> "start", conn |-> NoConn]]
        /\ overlap' = (overlap \/ Alive(stask) # {})
  BY DEF ServerCreate
<1> SUFFICES ASSUME ~overlap, \A u \in Tasks : stask[u].pc = "none"
             PROVE  /\ OneTask(ctask)' /\ OneTask(stask)'
                    /\ ServerReports' /\ ClientReports' /\ Ends' /\ OldAreClosed'
  BY <1>1 DEF PathInv, Alive
<1>2. /\ OneTask(ctask) /\ OneTask(stask) /\ ServerReports /\ ClientReports
      /\ Ends /\ OldAreClosed
  BY DEF PathInv
<1>3. server'.sock = server.sock
  BY <1>1 DEF TypeOK, ServerState
<1>4. /\ stask'[t].pc = "start" /\ stask'[t].conn = NoConn
      /\ \A u \in Tasks \ {t} : stask'[u] = stask[u]
  <2> DEFINE r == [pc |-> "start", conn |-> NoConn]
  <2>1. r.pc = "start" /\ r.conn = NoConn
    OBVIOUS
  <2>2. stask' = [stask EXCEPT ![t] = r] /\ t \in Tasks
    BY <1>1
  <2> HIDE DEF r
  <2> QED
    BY <2>1, <2>2, ServerMoves
<1>5. \A u \in Tasks : stask[u].conn = NoConn
  BY <1>2 DEF Ends, ServerReads
<1>6. Ends'
  BY <1>2, <1>3, <1>4, <1>5, EndsFrame DEF ServerReads
<1>7. OneTask(stask)'
  BY <1>4 DEF OneTask
<1>8. OneTask(ctask)' /\ ClientReports'
  BY <1>2, OneTaskFrame, ReportsFrame DEF Latest
<1>9. ServerReports'
  <2>1. \A u \in Tasks : stask'[u].pc = "recv" <=> stask[u].pc = "recv"
    BY <1>4
  <2> QED
    BY <1>2, <2>1, ReportsFrame DEF Latest
<1>10. OldAreClosed'
  BY <1>2 DEF OldAreClosed, Heard
<1> QED
  BY <1>6, <1>7, <1>8, <1>9, <1>10

\* A handshake that the server's board sends on its connection is why the
\* older ones are closed: the client opened this one after it left them.
LEMMA SendsPath ==
  ASSUME TypeOK, PathInv, NEW e \in End, Sends(e)
  PROVE  PathInv'
<1>1. UNCHANGED <<client, server, ctask, stask, evq, board, overlap>>
  BY DEF Sends, history
<1>2. CASE UNCHANGED conn
  BY <1>1, <1>2, PathFrame DEF Latest
<1>3. CASE ~UNCHANGED conn /\ e = "client"
  <2> DEFINE c == client.sock
  <2>1. conn' = [conn EXCEPT ![c].toServer = conn[c].sv # "closed"]
    BY <1>3 DEF Sends, Sock
  <2>2. \A d \in Conns : /\ conn'[d].cl = conn[d].cl /\ conn'[d].sv = conn[d].sv
                         /\ conn'[d].toClient = conn[d].toClient
    <3>1. c \in Conns => conn[c] \in Connection
      BY DEF TypeOK
    <3> HIDE DEF c
    <3> QED
      BY <2>1, <3>1 DEF TypeOK, Connection
  <2> QED
    BY <1>1, <2>2, PathFrame DEF Latest
<1>4. CASE ~UNCHANGED conn /\ e = "server"
  <2> SUFFICES ASSUME ~overlap
               PROVE  /\ OneTask(ctask)' /\ OneTask(stask)'
                      /\ ServerReports' /\ ClientReports' /\ Ends' /\ OldAreClosed'
    BY <1>1 DEF PathInv
  <2>1. /\ OneTask(ctask) /\ OneTask(stask) /\ ServerReports /\ ClientReports
        /\ Ends /\ OldAreClosed
    BY DEF PathInv
  <2>2. PICK c \in Conns :
          /\ c = server.sock /\ conn[c].sv = "open"
          /\ conn' = [conn EXCEPT ![c].toClient = conn[c].cl # "closed"]
    <3>1. server.sock \in Conns
      BY <1>4 DEF Sends, CanSend, Sock, TypeOK, ServerState
    <3> QED
      BY <1>4, <3>1 DEF Sends, CanSend, Sock
  <2>3. \A d \in Conns : /\ conn'[d].cl = conn[d].cl /\ conn'[d].sv = conn[d].sv
                         /\ d # c => conn'[d].toClient = conn[d].toClient
    <3>1. conn[c] \in Connection
      BY DEF TypeOK
    <3>2. conn' = [conn EXCEPT ![c].toClient = conn[c].cl # "closed"]
      BY <2>2
    <3> QED
      BY <3>1, <3>2 DEF TypeOK, Connection
  <2>4. \A d \in Conns \ {c} : conn[d].sv \notin {"open", "broken"}
    <3> SUFFICES ASSUME NEW d \in Conns, conn[d].sv \in {"open", "broken"}
                 PROVE  d = c
      OBVIOUS
    <3>1. PICK u \in Tasks : stask[u].conn = d
      BY <2>1 DEF Ends
    <3>2. d # NoConn
      BY ConnsAssumption DEF NoConn
    <3> QED
      BY <2>1, <2>2, <3>1, <3>2 DEF Ends
  <2>5. OldAreClosed'
    <3> SUFFICES ASSUME NEW a \in Conns, NEW b \in Conns, a # b
                 PROVE  /\ conn'[a].cl # "closed" => conn'[b].sv # "backlog"
                        /\ Heard(a)' => conn'[b].sv = "closed"
      BY DEF OldAreClosed
    <3>1. conn'[a].cl # "closed" => conn'[b].sv # "backlog"
      BY <2>1, <2>3 DEF OldAreClosed
    <3>2. CASE a = c
      <4>1. conn[b].sv \in {"closed", "backlog", "open", "broken"}
        BY DEF TypeOK, Connection
      <4>2. conn[b].sv \notin {"open", "broken"}
        BY <2>4, <3>2
      <4> QED
        BY <2>3, <3>1, <4>1, <4>2 DEF Heard
    <3>3. CASE a # c
      <4>1. Heard(a)' => Heard(a)
        BY <1>1, <2>3, <3>3 DEF Heard
      <4> QED
        BY <2>1, <2>3, <3>1, <4>1 DEF OldAreClosed
    <3> QED
      BY <3>2, <3>3
  <2>6. Ends'
    BY <1>1, <2>1, <2>3, EndsFrame
  <2>7. OneTask(ctask)' /\ OneTask(stask)' /\ ServerReports' /\ ClientReports'
    BY <1>1, <2>1, OneTaskFrame, ReportsFrame DEF Latest
  <2> QED
    BY <2>5, <2>6, <2>7
<1> QED
  BY <1>2, <1>3, <1>4 DEF End

LEMMA PowerLossPath ==
  ASSUME TypeOK, PathInv, PowerLoss
  PROVE  PathInv'
<1> DEFINE cut(c) == [conn[c] EXCEPT !.cl = "closed", !.toClient = FALSE]
<1>1. /\ client' = NewClient /\ ctask' = [t \in Tasks |-> NoTask]
      /\ conn' = [c \in Conns |-> cut(c)]
      /\ evq' = [evq EXCEPT !["client"] = <<>>]
      /\ board' = [board EXCEPT !["client"] = "LOST"]
      /\ UNCHANGED <<server, stask, overlap>>
  BY Zenon DEF PowerLoss
<1>2. ASSUME NEW c \in Conns PROVE cut(c).cl = "closed" /\ cut(c).sv = conn[c].sv
  <2>1. conn[c] \in Connection
    BY DEF TypeOK
  <2> QED
    BY <2>1 DEF Connection
<1> HIDE DEF cut
<1>3. \A c \in Conns : conn'[c].cl = "closed" /\ conn'[c].sv = conn[c].sv
  BY <1>1, <1>2
<1>4. \A t \in Tasks : ctask'[t].pc = "none" /\ ctask'[t].conn = NoConn
  BY <1>1 DEF NoTask
<1>5. ~client'.peer_connected
  BY <1>1 DEF NewClient
<1>6. Latest("client")' = "LOST" /\ Latest("server")' = Latest("server")
  <2>1. /\ evq'["client"] = <<>> /\ board'["client"] = "LOST"
        /\ evq'["server"] = evq["server"] /\ board'["server"] = board["server"]
    BY <1>1 DEF TypeOK, End
  <2> QED
    BY <2>1 DEF Latest
<1> SUFFICES ASSUME ~overlap
             PROVE  /\ OneTask(ctask)' /\ OneTask(stask)'
                    /\ ServerReports' /\ ClientReports' /\ Ends' /\ OldAreClosed'
  BY <1>1 DEF PathInv
<1>7. OneTask(stask) /\ ServerReports /\ Ends
  BY DEF PathInv
<1>8. OneTask(ctask)'
  BY <1>4 DEF OneTask
<1>9. OneTask(stask)' /\ ServerReports'
  BY <1>1, <1>6, <1>7, OneTaskFrame, ReportsFrame
<1>10. ClientReports'
  BY <1>4, <1>5, <1>6 DEF ClientReports
<1>11. Ends'
  BY <1>1, <1>3, <1>4, <1>7 DEF Ends, ClientReads
<1>12. OldAreClosed'
  BY <1>3 DEF OldAreClosed, Heard
<1> QED
  BY <1>8, <1>9, <1>10, <1>11, <1>12

LEMMA PathStep == TypeOK /\ PathInv /\ [Next]_vars => PathInv'
<1> SUFFICES ASSUME TypeOK, PathInv, [Next]_vars PROVE PathInv'
  OBVIOUS
<1> USE DEF staVars, boardVars, history
<1>1. CASE UNCHANGED vars
  BY <1>1, PathFrame DEF vars, Latest
<1>2. CASE StationConnect
  BY <1>2, PathFrame DEF StationConnect, Latest
<1>3. CASE Associates \/ UnlockAp
  BY <1>3, PathFrame DEF Associates, UnlockAp, Latest
<1>4. ASSUME NEW r \in Reason, AssociationFails(r) PROVE PathInv'
  BY <1>4, PathFrame DEF AssociationFails, Latest
<1>5. CASE Lease
  BY <1>5, PathFrame DEF Lease, Latest
<1>6. ASSUME Drop, UNCHANGED <<client, server, ctask, stask, evq, board, overlap>>
      PROVE  PathInv'
  <2>1. \A e \in End : Latest(e)' = Latest(e)
    BY <1>6 DEF Latest
  <2> QED
    BY <1>6, <2>1, DropPath, PathFrame
<1>7. CASE RadioLost
  BY <1>6, <1>7 DEF RadioLost
<1>8. CASE StationEvent
  <2>1. UNCHANGED <<server, stask, conn, evq, board>>
    BY <1>8 DEF StationEvent
  <2>2. CASE OnConnected \/ OnLease
    BY <2>1, <2>2, PathFrame DEF OnConnected, OnLease, Latest
  <2>3. ASSUME NEW r \in Reason, OnDisconnected(r) PROVE PathInv'
    <3>1. UNCHANGED <<ctask, overlap>>
          /\ (ClientClose \/ UNCHANGED client)
      BY <2>3 DEF OnDisconnected
    <3>2. client'.sock = client.sock /\ client'.peer_connected = client.peer_connected
      BY <3>1 DEF ClientClose, TypeOK, ClientState
    <3> QED
      BY <2>1, <3>1, <3>2, PathFrame DEF Latest
  <2>4. CASE OnStaticAddress
    BY <2>1, <2>4, ClientOpenPath DEF OnStaticAddress
  <2> QED
    BY <1>8, <2>2, <2>3, <2>4 DEF StationEvent
<1>9. CASE SeesStation
  <2>1. UNCHANGED <<client, ctask, evq, board>>
    BY <1>9 DEF SeesStation
  <2>2. \/ Drop /\ UNCHANGED <<server, stask, overlap>>
        \/ UNCHANGED <<server, stask, overlap, conn>>
        \/ ServerCreate /\ UNCHANGED conn
    BY <1>9 DEF SeesStation
  <2> QED
    BY <1>6, <2>1, <2>2, PathFrame, ServerCreatePath DEF Latest
<1>10. ASSUME UNCHANGED <<client, ctask, evq, board, overlap>>,
              \/ ServerClose
              \/ \E t \in Tasks : ServerCleansUp(t)
       PROVE  PathInv'
  <2> SUFFICES ASSUME ~overlap
               PROVE  /\ OneTask(ctask)' /\ OneTask(stask)'
                      /\ ServerReports' /\ ClientReports' /\ Ends' /\ OldAreClosed'
    BY <1>10 DEF PathInv
  <2>1. /\ OneTask(ctask) /\ OneTask(stask) /\ ServerReports /\ ClientReports
        /\ Ends /\ OldAreClosed
    BY DEF PathInv
  <2>2. Ends' /\ OneTask(stask)' /\ ServerReports' /\ OldAreClosed'
    BY <1>10, <2>1, ServerStopsPath
  <2>3. OneTask(ctask)' /\ ClientReports'
    BY <1>10, <2>1, OneTaskFrame, ReportsFrame DEF Latest
  <2> QED
    BY <2>2, <2>3
<1>11. CASE MissesStation
  <2>1. UNCHANGED <<client, ctask, evq, board, overlap>>
        /\ (ServerClose \/ UNCHANGED <<server, stask, conn>>)
    BY <1>11 DEF MissesStation
  <2> QED
    BY <1>10, <2>1, PathFrame DEF Latest
<1>12. CASE LockAp
  <2>1. UNCHANGED <<client, server, ctask, stask, evq, board, overlap>>
        /\ (Drop \/ UNCHANGED conn)
    BY <1>12 DEF LockAp
  <2> QED
    BY <1>6, <2>1, PathFrame DEF Latest
<1>13. ASSUME NEW t \in Tasks, ClientStep(t) PROVE PathInv'
  <2>1. UNCHANGED <<server, stask, overlap>>
    BY <1>13 DEF ClientStep
  <2> SUFFICES ASSUME ~overlap
               PROVE  /\ OneTask(ctask)' /\ OneTask(stask)'
                      /\ ServerReports' /\ ClientReports' /\ Ends' /\ OldAreClosed'
    BY <2>1 DEF PathInv
  <2>2. /\ OneTask(ctask) /\ OneTask(stask) /\ ServerReports /\ ClientReports
        /\ Ends /\ OldAreClosed
    BY DEF PathInv
  <2>3. Ends' /\ OneTask(ctask)' /\ ClientReports' /\ OldAreClosed'
    BY <1>13, <2>1, <2>2, ClientLoopPath, ClientConnectsPath, ClientReadsPath,
       ClientClosesPath DEF ClientStep
  <2>4. Latest("server")' = Latest("server")
    <3>1. \/ UNCHANGED <<evq, board>>
          \/ UNCHANGED board /\ \E x \in Word : Report("client", x)
      BY <1>13, Zenon DEF ClientStep, ClientLoop, ClientConnects,
           ClientCannotConnect, ClientReceives, ClientMeetsPeer, ClientHasMet,
           ClientRecvEnds, ClientForgets, ClientCloses, Word
    <3> QED
      BY <3>1, LatestReport DEF Latest, End
  <2>5. OneTask(stask)' /\ ServerReports'
    BY <2>1, <2>2, <2>4, OneTaskFrame, ReportsFrame
  <2> QED
    BY <2>3, <2>5
<1>14. ASSUME NEW t \in Tasks, ServerStep(t) PROVE PathInv'
  <2>1. UNCHANGED <<client, ctask, overlap>>
    BY <1>14 DEF ServerStep
  <2>2. CASE ServerCleansUp(t)
    BY <1>10, <2>1, <2>2 DEF ServerCleansUp
  <2>3. CASE ~ServerCleansUp(t)
    <3> SUFFICES ASSUME ~overlap
                 PROVE  /\ OneTask(ctask)' /\ OneTask(stask)'
                        /\ ServerReports' /\ ClientReports' /\ Ends' /\ OldAreClosed'
      BY <2>1 DEF PathInv
    <3>1. /\ OneTask(ctask) /\ OneTask(stask) /\ ServerReports /\ ClientReports
          /\ Ends /\ OldAreClosed
      BY DEF PathInv
    <3>2. Ends' /\ OneTask(stask)' /\ ServerReports' /\ OldAreClosed'
      BY <1>14, <2>1, <2>3, <3>1, ServerLoopPath, ServerAcceptsPath,
         ServerReadsPath, ServerClosesPath DEF ServerStep
    <3>3. Latest("client")' = Latest("client")
      <4>1. \/ UNCHANGED <<evq, board>>
            \/ UNCHANGED board /\ \E x \in Word : Report("server", x)
        BY <1>14, <2>3, Zenon DEF ServerStep, ServerListens, ServerLoop,
             ServerAccepts, ServerMeetsPeer, ServerReceives, ServerRecvEnds,
             ServerCloses, Word
      <4> QED
        BY <4>1, LatestReport DEF Latest, End
    <3>4. OneTask(ctask)' /\ ClientReports'
      BY <2>1, <3>1, <3>3, OneTaskFrame, ReportsFrame
    <3> QED
      BY <3>2, <3>4
  <2> QED
    BY <2>2, <2>3
<1>15. ASSUME NEW c \in Conns, ClientHearsClose(c) \/ ServerKeepalive(c)
       PROVE  PathInv'
  <2>1. UNCHANGED <<client, server, ctask, stask, evq, board, overlap>>
    BY <1>15 DEF ClientHearsClose, ServerKeepalive
  <2>2. conn[c] \in Connection
    BY DEF TypeOK
  <2>3. \/ conn[c].cl = "open" /\ conn' = [conn EXCEPT ![c].cl = "broken"]
        \/ conn[c].sv = "open" /\ conn' = [conn EXCEPT ![c].sv = "broken"]
    BY <1>15 DEF ClientHearsClose, ServerKeepalive
  <2>4. \A d \in Conns :
          /\ conn'[d].cl = "closed" <=> conn[d].cl = "closed"
          /\ conn'[d].sv \in {"open", "broken"} <=> conn[d].sv \in {"open", "broken"}
          /\ conn'[d].sv = "backlog" => conn[d].sv = "backlog"
          /\ conn[d].sv = "closed" => conn'[d].sv = "closed"
          /\ conn'[d].toClient => conn[d].toClient
    <3>1. \A d \in Conns \ {c} : conn'[d] = conn[d]
      BY <2>3 DEF TypeOK
    <3>2. conn'[c].toClient = conn[c].toClient
      BY <2>2, <2>3 DEF TypeOK, Connection
    <3>3. \/ /\ conn[c].cl = "open" /\ conn'[c].cl = "broken"
             /\ conn'[c].sv = conn[c].sv
          \/ /\ conn[c].sv = "open" /\ conn'[c].sv = "broken"
             /\ conn'[c].cl = conn[c].cl
      BY <2>2, <2>3 DEF TypeOK, Connection
    <3> QED
      BY <3>1, <3>2, <3>3
  <2> QED
    BY <2>1, <2>4, PathFrame DEF Latest
<1>16. ASSUME NEW e \in End, PeerEvent(e) PROVE PathInv'
  BY <1>16, LatestPeerEvent, PathFrame DEF PeerEvent
<1>17. ASSUME NEW e \in End, Sends(e) PROVE PathInv'
  BY <1>17, SendsPath
<1>18. CASE PowerLoss
  BY <1>18, PowerLossPath
<1> QED
  BY <1>1, <1>2, <1>3, <1>4, <1>5, <1>7, <1>8, <1>9, <1>11, <1>12, <1>13,
     <1>14, <1>15, <1>16, <1>17, <1>18 DEF Next, Environment, Scheduled

LEMMA PathInvariant == Spec => []PathInv
<1>1. Init => PathInv
  BY PathInit
<1>2. TypeOK /\ StationInv /\ PathInv /\ [Next]_vars => PathInv'
  BY PathStep
<1> QED
  BY <1>1, <1>2, StationInvariant, PTL DEF Spec

\* client.c, server.c and callbacks.c: unless a task outlived its link, the
\* last event that a board has seen tells whether it has a peer.
THEOREM LastEventIsTrueTheorem == Spec => []LastEventIsTrue
<1>1. PathInv => LastEventIsTrue
  <2> SUFFICES ASSUME PathInv, ~overlap
               PROVE  /\ QuietServer => (board["server"] = "CONNECTED"
                                          <=> \E t \in Tasks : stask[t].pc = "recv")
                      /\ QuietClient => (board["client"] = "CONNECTED"
                                          <=> client.peer_connected)
                      /\ QuietClient /\ client.peer_connected =>
                           \E t \in Tasks : ctask[t].pc = "recv"
    BY DEF LastEventIsTrue
  <2>1. ServerReports /\ ClientReports
    BY DEF PathInv
  <2>2. QuietServer => (board["server"] = "CONNECTED"
                         <=> \E t \in Tasks : stask[t].pc = "recv")
    BY <2>1 DEF QuietServer, ServerReports, Latest
  <2>3. ASSUME QuietClient
        PROVE  board["client"] = "CONNECTED" <=> client.peer_connected
    BY <2>1, <2>3 DEF QuietClient, ClientReports, Latest
  <2>4. ASSUME QuietClient, client.peer_connected
        PROVE  \E t \in Tasks : ctask[t].pc = "recv"
    BY <2>1, <2>4 DEF QuietClient, ClientReports
  <2> QED
    BY <2>2, <2>3, <2>4
<1> QED
  BY <1>1, PathInvariant, PTL

\* client.c and server.c: unless a task outlived its link, two boards that both
\* believe to have a peer send to each other on one connection, however many
\* connections there were before.
THEOREM SamePathTheorem == Spec => []SamePath
<1>1. PathInv /\ LastEventIsTrue => SamePath
  <2> SUFFICES ASSUME PathInv, LastEventIsTrue, ~overlap, QuietServer, QuietClient,
                      \A e \in End : board[e] = "CONNECTED"
               PROVE  client.sock = server.sock
    BY DEF SamePath
  <2>1. Ends /\ OldAreClosed
    BY DEF PathInv
  <2>2. client.peer_connected
    BY DEF LastEventIsTrue, End
  <2>3. PICK t \in Tasks : ctask[t].pc = "recv"
    BY <2>2 DEF LastEventIsTrue
  <2>4. PICK u \in Tasks : stask[u].pc = "recv"
    BY DEF LastEventIsTrue, End
  <2> DEFINE c == ctask[t].conn
             d == stask[u].conn
  <2>5. /\ c \in Conns /\ c # NoConn /\ c = client.sock /\ conn[c].cl # "closed"
        /\ d \in Conns /\ d # NoConn /\ d = server.sock
        /\ conn[d].sv \in {"open", "broken"}
    <3>1. c \in Conns /\ d \in Conns
      BY <2>1, <2>3, <2>4 DEF Ends, ClientReads, ServerReads
    <3>2. c # NoConn /\ d # NoConn
      BY <3>1, ConnsAssumption DEF NoConn
    <3> QED
      BY <2>1, <3>1, <3>2 DEF Ends
  <2>6. Heard(c)
    BY <2>2, <2>5 DEF Heard
  <2>7. c = d
    BY <2>1, <2>5, <2>6 DEF OldAreClosed
  <2> QED
    BY <2>5, <2>7
<1> QED
  BY <1>1, PathInvariant, LastEventIsTrueTheorem, PTL
=============================================================================
