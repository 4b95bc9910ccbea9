--------------------------- MODULE NodeBootProofs ---------------------------
(***************************************************************************)
(* Theorems about NodeBoot, for any number of boards, any delays and any   *)
(* number of boards that lose power, the center included.                  *)
(***************************************************************************)
EXTENDS NodeBoot, SequenceTheorems, TLAPS

Message == [op : {"RESET"}] \cup [op : {"STARTUP"}, info : Mode]

Types ==
  /\ mode \in Mode
  /\ phase \in [Board -> {"calibrating", "resetting", "waiting", "starting",
                          "announced", "setup", "done"}]
  /\ is_up \in [Board -> BOOLEAN]
  /\ info \in [Board -> Mode \cup {None}]
  /\ inbox \in [Board -> Seq(Message)]
  /\ restart \in [Board -> 0 .. Off]

----------------------------------------------------------------------------
(* Lines of messages, and the role a board may get from one.               *)

NoReset(q) == \A j \in 1 .. Len(q) : q[j].op # "RESET"

\* Whatever role line q gives to a board that outlives it is role r.
Gives(q, r) ==
  \A i \in 1 .. Len(q) :
    q[i].op = "STARTUP" /\ (\A j \in i + 1 .. Len(q) : q[j].op # "RESET")
      => q[i].info = r

NoStartup(q) == \A i \in 1 .. Len(q) : q[i].op # "STARTUP"

LEMMA MessageFacts ==
  /\ Reset \in Message /\ Reset.op = "RESET"
  /\ \A r \in Mode : /\ Startup(r) \in Message /\ Startup(r).op = "STARTUP"
                     /\ Startup(r).info = r
  /\ \A m \in Message : /\ m.op \in {"RESET", "STARTUP"}
                        /\ m.op = "RESET" => m = Reset
                        /\ m.op = "STARTUP" => m.info \in Mode
<1>1. \A r \in Mode : /\ Startup(r) \in Message /\ Startup(r).op = "STARTUP"
                      /\ Startup(r).info = r
  BY DEF Message, Startup
<1>2. \A m \in Message : /\ m.op \in {"RESET", "STARTUP"}
                         /\ m.op = "RESET" => m = Reset
                         /\ m.op = "STARTUP" => m.info \in Mode
  BY DEF Message, Reset
<1>3. Reset \in Message /\ Reset.op = "RESET"
  BY DEF Message, Reset
<1> QED
  BY <1>1, <1>2, <1>3

LEMMA AppendReset ==
  ASSUME NEW q \in Seq(Message), NEW r
  PROVE  /\ Append(q, Reset) \in Seq(Message)
         /\ Gives(Append(q, Reset), r) /\ ~NoReset(Append(q, Reset))
         /\ NoStartup(q) => NoStartup(Append(q, Reset))
<1> DEFINE s == Append(q, Reset)
<1>1. /\ s \in Seq(Message) /\ Len(q) \in Nat /\ Len(s) = Len(q) + 1
      /\ s[Len(q) + 1] = Reset /\ \A i \in 1 .. Len(q) : s[i] = q[i]
  BY MessageFacts, AppendProperties
<1> HIDE DEF s
<1>2. Len(s) \in 1 .. Len(s) /\ s[Len(s)].op = "RESET"
  BY <1>1, MessageFacts
<1>3. Gives(s, r) /\ ~NoReset(s)
  BY <1>1, <1>2 DEF Gives, NoReset
<1>4. NoStartup(q) => NoStartup(s)
  BY <1>1, MessageFacts DEF NoStartup
<1> QED
  BY <1>1, <1>3, <1>4 DEF s

LEMMA AppendStartup ==
  ASSUME NEW q \in Seq(Message), NEW r \in Mode
  PROVE  /\ Append(q, Startup(r)) \in Seq(Message)
         /\ Gives(q, r) => Gives(Append(q, Startup(r)), r)
         /\ NoReset(Append(q, Startup(r))) => NoReset(q)
<1> DEFINE s == Append(q, Startup(r))
<1>1. /\ s \in Seq(Message) /\ Len(q) \in Nat /\ Len(s) = Len(q) + 1
      /\ s[Len(q) + 1] = Startup(r) /\ \A i \in 1 .. Len(q) : s[i] = q[i]
  BY MessageFacts, AppendProperties
<1>2. Startup(r).info = r
  BY MessageFacts
<1> HIDE DEF s
<1>3. ASSUME Gives(q, r), NEW i \in 1 .. Len(s), s[i].op = "STARTUP",
             \A j \in i + 1 .. Len(s) : s[j].op # "RESET"
      PROVE  s[i].info = r
  <2>1. CASE i = Len(s)
    BY <2>1, <1>1, <1>2
  <2>2. CASE i # Len(s)
    <3>1. i \in 1 .. Len(q) /\ s[i] = q[i]
      BY <2>2, <1>1
    <3>2. \A j \in i + 1 .. Len(q) : q[j].op # "RESET"
      BY <3>1, <1>3, <1>1
    <3> QED
      BY <3>1, <3>2, <1>3 DEF Gives
  <2> QED
    BY <2>1, <2>2
<1>4. NoReset(s) => NoReset(q)
  BY <1>1 DEF NoReset
<1> QED
  BY <1>1, <1>3, <1>4 DEF Gives, s

LEMMA TakeHead ==
  ASSUME NEW q \in Seq(Message), q # <<>>, NEW r
  PROVE  /\ Tail(q) \in Seq(Message) /\ Head(q) \in Message
         /\ Gives(q, r) => Gives(Tail(q), r)
         /\ Gives(q, r) /\ Head(q).op = "STARTUP" /\ NoReset(Tail(q))
              => Head(q).info = r
         /\ NoStartup(q) => NoStartup(Tail(q)) /\ Head(q).op # "STARTUP"
<1>1. /\ Tail(q) \in Seq(Message) /\ Len(q) \in Nat \ {0}
      /\ Len(Tail(q)) = Len(q) - 1 /\ Head(q) = q[1]
      /\ \A i \in 1 .. Len(Tail(q)) : Tail(q)[i] = q[i + 1]
      /\ \A i \in 1 .. Len(q) : q[i] \in Message
  BY HeadTailProperties, EmptySeq, ElementOfSeq
<1> DEFINE s == Tail(q)
<1> HIDE DEF s
<1>2. ASSUME Gives(q, r), NEW i \in 1 .. Len(s), s[i].op = "STARTUP",
             \A j \in i + 1 .. Len(s) : s[j].op # "RESET"
      PROVE  s[i].info = r
  <2>1. i + 1 \in 1 .. Len(q) /\ s[i] = q[i + 1]
    BY <1>1 DEF s
  <2>2. ASSUME NEW j \in (i + 1) + 1 .. Len(q) PROVE q[j].op # "RESET"
    <3>1. j - 1 \in i + 1 .. Len(s) /\ s[j - 1] = q[j]
      BY <1>1 DEF s
    <3> QED
      BY <3>1, <1>2
  <2> QED
    BY <2>1, <2>2, <1>2 DEF Gives
<1>3. ASSUME Gives(q, r), Head(q).op = "STARTUP", NoReset(s)
      PROVE  Head(q).info = r
  <2>1. ASSUME NEW j \in 1 + 1 .. Len(q) PROVE q[j].op # "RESET"
    <3>1. j - 1 \in 1 .. Len(s) /\ s[j - 1] = q[j]
      BY <1>1 DEF s
    <3> QED
      BY <3>1, <1>3 DEF NoReset
  <2>2. 1 \in 1 .. Len(q)
    BY <1>1
  <2> QED
    BY <2>1, <2>2, <1>1, <1>3 DEF Gives
<1>4. NoStartup(q) => NoStartup(s) /\ Head(q).op # "STARTUP"
  <2>1. 1 \in 1 .. Len(q) /\ \A i \in 1 .. Len(s) : i + 1 \in 1 .. Len(q)
    BY <1>1 DEF s
  <2> QED
    BY <2>1, <1>1 DEF NoStartup, s
<1> QED
  BY <1>1, <1>2, <1>3, <1>4 DEF Gives, s

\* The center reaches all the others when the ring is whole, and never itself.
LEMMA CenterReaches ==
  /\ Center \in Board /\ Center \notin Follower /\ Follower \subseteq Board
  /\ Center \notin Reached(Center)
  /\ Whole => \A b \in Board : b # Center => b \in Reached(Center)
<1> USE BoardsAssumption
<1>1. ASSUME NEW k \in 1 .. N - 1 PROVE After(Center, k) = k
  <2>1. (N - 1 + k) % N = k - 1
    BY SMT
  <2> QED
    BY <2>1 DEF After, Center
<1>2. Center \notin Reached(Center)
  BY <1>1 DEF Reached, Center
<1>3. ASSUME Whole, NEW b \in Board, b # Center PROVE b \in Reached(Center)
  <2>1. b \in 1 .. N - 1 /\ After(Center, b) = b
    BY <1>1, <1>3 DEF Board, Center
  <2>2. \A j \in 1 .. b : After(Center, j) \in Board
    BY <1>1, <2>1 DEF Board
  <2> QED
    BY <2>1, <2>2, <1>3 DEF Reached, Whole
<1> QED
  BY <1>2, <1>3 DEF Board, Center, Follower
----------------------------------------------------------------------------
(* The invariant.                                                          *)

Started == {"waiting", "starting", "announced", "done"}

\* Board b has no role but r, nor will it get another one before it restarts.
Agrees(b, r) ==
  restart[b] = Off =>
    /\ Gives(inbox[b], r)
    /\ is_up[b] /\ NoReset(inbox[b]) => info[b] = r

\* Nobody tells the center its role; it is up when it has announced it.
CenterInv ==
  /\ NoStartup(inbox[Center])
  /\ is_up[Center] => phase[Center] = "done"
  /\ phase[Center] \in {"announced", "done"} => info[Center] = mode

\* There is one role; it may be the one from before the center lost power,
\* until the center has reset the others.
Role(r) ==
  /\ \A b \in Board : Agrees(b, r)
  /\ phase[Center] \in Started => r = mode

RoleInv == \E r \in Mode : Role(r)

BootInv == Types /\ CenterInv /\ RoleInv
LEMMA BoardFacts ==
  /\ Center \in Board /\ Off \in Nat /\ Off # 0
  /\ ResetWait \in 0 .. Off /\ ResetWait # Off
BY CenterReaches, DelaysAssumption, SMT DEF Off

LEMMA BootInvInit == Init => BootInv
<1> SUFFICES ASSUME Init PROVE BootInv
  OBVIOUS
<1> USE DEF Init
<1>1. Types
  <2>1. <<>> \in Seq(Message)
    BY EmptySeq
  <2>2. Off \in 0 .. Off
    BY BoardFacts, SMT
  <2> QED
    BY <2>1, <2>2 DEF Types
<1>2. CenterInv
  BY CenterReaches, EmptySeq DEF CenterInv, NoStartup, Started
<1>3. RoleInv
  <2>1. \A b \in Board : Agrees(b, mode)
    BY EmptySeq DEF Agrees, Gives
  <2> QED
    BY <2>1 DEF RoleInv, Role
<1> QED
  BY <1>1, <1>2, <1>3 DEF BootInv

\* A board with which nothing happens keeps its role.
LEMMA AgreesFrame ==
  ASSUME NEW b \in Board, NEW r, Agrees(b, r),
         restart'[b] = Off => restart[b] = Off,
         inbox'[b] = inbox[b], is_up'[b] = is_up[b], info'[b] = info[b]
  PROVE  Agrees(b, r)'
BY DEF Agrees

\* Messages that arrive: a reset, or the role there is.
LEMMA DeliverReset ==
  ASSUME Types, NEW b \in Board, Deliver(b, Reset)
  PROVE  /\ inbox' \in [Board -> Seq(Message)]
         /\ \A c \in Board :
              /\ NoStartup(inbox[c]) => NoStartup(inbox'[c])
              /\ c \in Reached(b) => \A r : Gives(inbox'[c], r)
              /\ c \in Reached(b) => ~NoReset(inbox'[c])
              /\ c \notin Reached(b) => inbox'[c] = inbox[c]
<1>1. \A c \in Board : inbox[c] \in Seq(Message)
  BY DEF Types
<1>2. \A c \in Board : inbox'[c] = IF c \in Reached(b) THEN Append(inbox[c], Reset)
                                                      ELSE inbox[c]
  BY Zenon DEF Deliver
<1>3. inbox' \in [Board -> Seq(Message)]
  BY <1>1, AppendReset, Zenon DEF Deliver
<1>4. ASSUME NEW c \in Board
      PROVE  /\ NoStartup(inbox[c]) => NoStartup(inbox'[c])
             /\ c \in Reached(b) => \A r : Gives(inbox'[c], r)
             /\ c \in Reached(b) => ~NoReset(inbox'[c])
             /\ c \notin Reached(b) => inbox'[c] = inbox[c]
  BY <1>1, <1>2, AppendReset, Zenon
<1> QED
  BY <1>3, <1>4, Zenon

LEMMA DeliverStartup ==
  ASSUME Types, NEW r \in Mode, Deliver(Center, Startup(r))
  PROVE  /\ inbox' \in [Board -> Seq(Message)]
         /\ inbox'[Center] = inbox[Center]
         /\ \A b \in Board : /\ Gives(inbox[b], r) => Gives(inbox'[b], r)
                             /\ NoReset(inbox'[b]) => NoReset(inbox[b])
<1>1. \A b \in Board : inbox[b] \in Seq(Message)
  BY DEF Types
<1>2. \A b \in Board :
        inbox'[b] = IF b \in Reached(Center) THEN Append(inbox[b], Startup(r))
                                             ELSE inbox[b]
  BY Zenon DEF Deliver
<1>3. inbox' \in [Board -> Seq(Message)]
  BY <1>1, AppendStartup, Zenon DEF Deliver
<1>4. ASSUME NEW b \in Board
      PROVE  /\ Gives(inbox[b], r) => Gives(inbox'[b], r)
             /\ NoReset(inbox'[b]) => NoReset(inbox[b])
  BY <1>1, <1>2, AppendStartup, Zenon
<1> QED
  BY <1>2, <1>3, <1>4, CenterReaches, Zenon
----------------------------------------------------------------------------
(* The steps.                                                              *)

\* A step that changes phases and times only, and starts nothing.
LEMMA SameRoles ==
  ASSUME BootInv, UNCHANGED <<mode, is_up, info, inbox>>, Types',
         \A b \in Board : restart'[b] = Off => restart[b] = Off,
         is_up[Center] => phase'[Center] = "done",
         phase'[Center] \in {"announced", "done"} => info[Center] = mode,
         phase'[Center] \in Started => phase[Center] \in Started
  PROVE  BootInv'
<1>1. CenterInv'
  BY DEF BootInv, CenterInv
<1>2. PICK r \in Mode : Role(r)
  BY DEF BootInv, RoleInv
<1>3. \A b \in Board : Agrees(b, r)'
  BY <1>2, AgreesFrame DEF Role
<1>4. Role(r)'
  BY <1>2, <1>3 DEF Role
<1> QED
  BY <1>1, <1>4 DEF BootInv, RoleInv

\* The phases that a board gets to by itself.
LEMMA PhaseStep ==
  ASSUME BootInv, NEW b \in Board,
         \/ LinkUp(b)
         \/ b # Center /\ (SetupEnds(b) \/ TimesOut(b))
         \/ b = Center /\ WaitEnds
  PROVE  BootInv'
<1>1. /\ UNCHANGED <<mode, is_up, info, inbox, restart>>
      /\ \E p \in {"resetting", "starting", "setup", "done"} :
           /\ phase' = [phase EXCEPT ![b] = p]
           /\ b = Center => \/ p = "resetting" /\ phase[b] = "calibrating"
                            \/ p = "starting" /\ phase[b] = "waiting"
  BY Zenon DEF LinkUp, SetupEnds, TimesOut, WaitEnds
<1>2. Types'
  BY <1>1 DEF BootInv, Types
<1>3. \/ phase'[Center] = phase[Center]
      \/ phase'[Center] = "resetting" /\ phase[Center] = "calibrating"
      \/ phase'[Center] = "starting" /\ phase[Center] = "waiting"
  <2>1. CASE b = Center
    BY <2>1, <1>1, BoardFacts DEF BootInv, Types
  <2>2. CASE b # Center
    BY <2>2, <1>1, BoardFacts DEF BootInv, Types
  <2> QED
    BY <2>1, <2>2
<1>4. /\ is_up[Center] => phase[Center] = "done"
      /\ phase[Center] \in {"announced", "done"} => info[Center] = mode
  BY DEF BootInv, CenterInv
<1> QED
  BY <1>1, <1>2, <1>3, <1>4, SameRoles DEF Started

LEMMA TickStep ==
  ASSUME BootInv, Tick
  PROVE  BootInv'
<1>1. /\ UNCHANGED <<mode, phase, is_up, info, inbox>>
      /\ restart' = [b \in Board |-> IF restart[b] = Off THEN Off
                                     ELSE Less(restart[b])]
  BY DEF Tick
<1>2. \A b \in Board : restart[b] \in 0 .. Off
  BY DEF BootInv, Types
<1>3. \A b \in Board :
        /\ restart'[b] \in 0 .. Off
        /\ restart'[b] = Off => restart[b] = Off
  BY <1>1, <1>2, BoardFacts, SMT DEF Less
<1>4. restart' \in [Board -> 0 .. Off]
  BY <1>1, <1>3
<1>5. Types'
  BY <1>1, <1>4 DEF BootInv, Types
<1> QED
  BY <1>1, <1>3, <1>5, SameRoles DEF BootInv, CenterInv

\* A board restarts or loses power; the center may come back with another role.
LEMMA BootStep ==
  ASSUME BootInv, NEW b \in Board, Boot(b),
         mode' \in IF b = Center THEN Mode ELSE {mode}
  PROVE  BootInv'
<1>1. /\ phase' = [phase EXCEPT ![b] = "calibrating"]
      /\ is_up' = [is_up EXCEPT ![b] = FALSE]
      /\ info' = [info EXCEPT ![b] = None]
      /\ inbox' = [inbox EXCEPT ![b] = <<>>]
      /\ restart' = [restart EXCEPT ![b] = Off]
  BY DEF Boot
<1>2. Types'
  <2>1. Off \in 0 .. Off
    BY BoardFacts, SMT
  <2>2. <<>> \in Seq(Message)
    BY EmptySeq
  <2> QED
    BY <1>1, <2>1, <2>2 DEF BootInv, Types
<1>3. /\ phase'[b] = "calibrating" /\ ~is_up'[b] /\ inbox'[b] = <<>>
      /\ \A c \in Board \ {b} :
           /\ phase'[c] = phase[c] /\ is_up'[c] = is_up[c]
           /\ info'[c] = info[c] /\ inbox'[c] = inbox[c]
           /\ restart'[c] = restart[c]
  BY <1>1 DEF BootInv, Types
<1>4. CenterInv'
  <2>1. CASE b = Center
    BY <2>1, <1>3, EmptySeq DEF CenterInv, NoStartup
  <2>2. CASE b # Center
    BY <2>2, <1>3, BoardFacts DEF BootInv, CenterInv
  <2> QED
    BY <2>1, <2>2
<1>5. PICK r \in Mode : Role(r)
  BY DEF BootInv, RoleInv
<1>6. \A c \in Board : Agrees(c, r)'
  <2>1. Agrees(b, r)'
    BY <1>3, EmptySeq DEF Agrees, Gives
  <2>2. ASSUME NEW c \in Board \ {b} PROVE Agrees(c, r)'
    BY <1>3, <1>5, AgreesFrame DEF Role
  <2> QED
    BY <2>1, <2>2
<1>7. phase'[Center] \in Started => r = mode'
  BY <1>3, <1>5, BoardFacts DEF Role, Started
<1> QED
  BY <1>2, <1>4, <1>5, <1>6, <1>7 DEF BootInv, RoleInv, Role

\* A reset that fails, or that another board than the center sends.
LEMMA ResetStep ==
  ASSUME BootInv, NEW b \in Board, Deliver(b, Reset),
         UNCHANGED <<mode, is_up, info, restart>>, Types',
         phase'[Center] = phase[Center]
  PROVE  BootInv'
<1>1. \A c \in Board :
        /\ NoStartup(inbox[c]) => NoStartup(inbox'[c])
        /\ c \in Reached(b) => ~NoReset(inbox'[c]) /\ \A r : Gives(inbox'[c], r)
        /\ c \notin Reached(b) => inbox'[c] = inbox[c]
  BY DeliverReset DEF BootInv
<1>2. CenterInv'
  BY <1>1, BoardFacts DEF BootInv, CenterInv
<1>3. PICK r \in Mode : Role(r)
  BY DEF BootInv, RoleInv
<1>4. ASSUME NEW c \in Board PROVE Agrees(c, r)'
  <2>1. CASE c \in Reached(b)
    BY <2>1, <1>1 DEF Agrees
  <2>2. CASE c \notin Reached(b)
    BY <2>2, <1>1, <1>3, AgreesFrame DEF Role
  <2> QED
    BY <2>1, <2>2
<1> QED
  BY <1>2, <1>3, <1>4 DEF BootInv, RoleInv, Role

\* The center has reset all the others: from now on the role is its own.
LEMMA CenterResets ==
  ASSUME BootInv, SendReset(Center)
  PROVE  BootInv'
<1>1. /\ Whole /\ Deliver(Center, Reset) /\ phase[Center] = "resetting"
      /\ UNCHANGED <<mode, is_up, info, restart>>
      /\ phase' = [phase EXCEPT ![Center] = "waiting"]
  BY DEF SendReset
<1>2. /\ inbox' \in [Board -> Seq(Message)]
      /\ NoStartup(inbox'[Center])
      /\ \A c \in Board : c # Center =>
           ~NoReset(inbox'[c]) /\ \A r : Gives(inbox'[c], r)
  BY <1>1, CenterReaches, DeliverReset DEF BootInv, CenterInv
<1>3. Types'
  BY <1>1, <1>2 DEF BootInv, Types
<1>4. phase'[Center] = "waiting" /\ ~is_up[Center]
  BY <1>1, BoardFacts DEF BootInv, Types, CenterInv
<1>5. CenterInv'
  BY <1>1, <1>2, <1>4 DEF CenterInv
<1>6. ASSUME NEW c \in Board PROVE Agrees(c, mode)'
  <2>1. CASE c = Center
    BY <2>1, <1>1, <1>2, <1>4 DEF Agrees, Gives, NoStartup
  <2>2. CASE c # Center
    BY <2>2, <1>2 DEF Agrees
  <2> QED
    BY <2>1, <2>2
<1>7. mode' \in Mode
  BY <1>3 DEF Types
<1> QED
  BY <1>3, <1>5, <1>6, <1>7 DEF BootInv, RoleInv, Role

\* The center announces its role, whoever hears it.
LEMMA StartupStep ==
  ASSUME BootInv, SendStartup \/ StartupFails
  PROVE  BootInv'
<1>1. /\ phase[Center] = "starting" /\ Deliver(Center, Startup(mode))
      /\ info' = [info EXCEPT ![Center] = mode]
      /\ UNCHANGED <<mode, is_up, restart>>
      /\ phase' = phase \/ phase' = [phase EXCEPT ![Center] = "announced"]
  BY DEF SendStartup, StartupFails
<1>2. /\ inbox' \in [Board -> Seq(Message)] /\ inbox'[Center] = inbox[Center]
      /\ \A b \in Board : /\ Gives(inbox[b], mode) => Gives(inbox'[b], mode)
                          /\ NoReset(inbox'[b]) => NoReset(inbox[b])
  BY <1>1, DeliverStartup DEF BootInv, Types
<1>3. Types'
  BY <1>1, <1>2 DEF BootInv, Types
<1>4. /\ info'[Center] = mode /\ phase'[Center] \in {"starting", "announced"}
      /\ \A b \in Board : b # Center => info'[b] = info[b]
      /\ ~is_up[Center]
  BY <1>1, BoardFacts DEF BootInv, Types, CenterInv
<1>5. CenterInv'
  BY <1>1, <1>2, <1>4 DEF BootInv, CenterInv
<1>6. Role(mode)
  BY <1>1 DEF BootInv, RoleInv, Role, Started
<1>7. ASSUME NEW b \in Board PROVE Agrees(b, mode)'
  BY <1>1, <1>2, <1>4, <1>6 DEF Role, Agrees
<1>8. mode' \in Mode
  BY <1>3 DEF Types
<1> QED
  BY <1>1, <1>3, <1>5, <1>7, <1>8 DEF BootInv, RoleInv, Role

LEMMA AcknowledgedStep ==
  ASSUME BootInv, StartupAcknowledged
  PROVE  BootInv'
<1>1. /\ phase[Center] = "announced"
      /\ is_up' = [is_up EXCEPT ![Center] = TRUE]
      /\ phase' = [phase EXCEPT ![Center] = "done"]
      /\ UNCHANGED <<mode, info, inbox, restart>>
  BY DEF StartupAcknowledged
<1>2. Types'
  BY <1>1 DEF BootInv, Types
<1>3. /\ phase'[Center] = "done" /\ info[Center] = mode
      /\ \A b \in Board : b # Center => is_up'[b] = is_up[b]
  BY <1>1, BoardFacts DEF BootInv, Types, CenterInv
<1>4. CenterInv'
  BY <1>1, <1>3 DEF BootInv, CenterInv
<1>5. Role(mode)
  BY <1>1 DEF BootInv, RoleInv, Role, Started
<1>6. ASSUME NEW b \in Board PROVE Agrees(b, mode)'
  BY <1>1, <1>3, <1>5 DEF Role, Agrees
<1>7. mode' \in Mode
  BY <1>2 DEF Types
<1> QED
  BY <1>1, <1>2, <1>4, <1>6, <1>7 DEF BootInv, RoleInv, Role

\* A board handles a message; to be reset it must run.
LEMMA MessageStep ==
  ASSUME BootInv, NEW b \in Board,
         ResetInSetup(b) \/ ResetWhenUp(b) \/ OnStartup(b)
  PROVE  BootInv'
<1> DEFINE m == Head(inbox[b])
<1>1. /\ restart[b] = Off /\ inbox[b] # <<>>
      /\ inbox' = [inbox EXCEPT ![b] = Tail(@)]
      /\ UNCHANGED <<mode, phase>>
      /\ \/ /\ m.op = "RESET" /\ ~is_up[b]
            /\ UNCHANGED <<is_up, info, restart>>
         \/ /\ m.op = "RESET"
            /\ restart' = [restart EXCEPT ![b] = ResetWait]
            /\ UNCHANGED <<is_up, info>>
         \/ /\ m.op = "STARTUP"
            /\ info' = [info EXCEPT ![b] = m.info]
            /\ is_up' = [is_up EXCEPT ![b] = TRUE]
            /\ UNCHANGED restart
  BY DEF ResetInSetup, ResetWhenUp, OnStartup, Takes
<1>2. inbox[b] \in Seq(Message)
  BY DEF BootInv, Types
<1>3. /\ Tail(inbox[b]) \in Seq(Message) /\ m \in Message
      /\ NoStartup(inbox[b]) => NoStartup(Tail(inbox[b])) /\ m.op # "STARTUP"
  BY <1>1, <1>2, TakeHead
<1>4. m.op = "STARTUP" => m.info \in Mode
  BY <1>3, MessageFacts
<1>5. \A r : /\ Gives(inbox[b], r) => Gives(Tail(inbox[b]), r)
             /\ (/\ Gives(inbox[b], r) /\ m.op = "STARTUP"
                 /\ NoReset(Tail(inbox[b]))) => m.info = r
  BY <1>1, <1>2, TakeHead
<1> HIDE DEF m
<1>6. /\ inbox'[b] = Tail(inbox[b])
      /\ \A c \in Board : c # b =>
           /\ inbox'[c] = inbox[c] /\ is_up'[c] = is_up[c]
           /\ info'[c] = info[c] /\ restart'[c] = restart[c]
  BY <1>1 DEF BootInv, Types
<1>7. Types'
  <2>1. inbox' \in [Board -> Seq(Message)]
    BY <1>1, <1>3 DEF BootInv, Types
  <2>2. restart' \in [Board -> 0 .. Off]
    BY <1>1, BoardFacts DEF BootInv, Types
  <2>3. info' \in [Board -> Mode \cup {None}] /\ is_up' \in [Board -> BOOLEAN]
    BY <1>1, <1>4 DEF BootInv, Types
  <2> QED
    BY <2>1, <2>2, <2>3, <1>1 DEF BootInv, Types
<1>8. CenterInv'
  <2>1. CASE b = Center
    <3>1. m.op # "STARTUP" /\ NoStartup(inbox'[Center])
      BY <2>1, <1>3, <1>6 DEF BootInv, CenterInv
    <3> QED
      BY <3>1, <1>1 DEF BootInv, CenterInv
  <2>2. CASE b # Center
    BY <2>2, <1>1, <1>6, BoardFacts DEF BootInv, CenterInv
  <2> QED
    BY <2>1, <2>2
<1>9. PICK r \in Mode : Role(r)
  BY DEF BootInv, RoleInv
<1>10. Agrees(b, r)'
  <2>1. Gives(inbox'[b], r)
    BY <1>1, <1>5, <1>6, <1>9 DEF Role, Agrees
  <2>2. CASE m.op = "RESET" /\ ~is_up[b] /\ UNCHANGED <<is_up, info, restart>>
    BY <2>1, <2>2 DEF Agrees
  <2>3. CASE restart' = [restart EXCEPT ![b] = ResetWait]
    BY <2>3, BoardFacts DEF Agrees, BootInv, Types
  <2>4. CASE /\ m.op = "STARTUP" /\ UNCHANGED restart
             /\ info' = [info EXCEPT ![b] = m.info]
    <3>1. info'[b] = m.info
      BY <2>4 DEF BootInv, Types
    <3>2. NoReset(inbox'[b]) => m.info = r
      BY <1>1, <1>5, <1>6, <1>9, <2>4 DEF Role, Agrees
    <3> QED
      BY <2>1, <3>1, <3>2 DEF Agrees
  <2> QED
    BY <1>1, <2>2, <2>3, <2>4
<1>11. \A c \in Board : Agrees(c, r)'
  BY <1>6, <1>9, <1>10, AgreesFrame DEF Role
<1> QED
  BY <1>1, <1>7, <1>8, <1>9, <1>11 DEF BootInv, RoleInv, Role

LEMMA BootInvStep == BootInv /\ [Next]_vars => BootInv'
<1> SUFFICES ASSUME BootInv, [Next]_vars PROVE BootInv'
  OBVIOUS
<1>1. CASE UNCHANGED vars
  BY <1>1 DEF vars, BootInv, Types, CenterInv, RoleInv, Role, Agrees
<1>2. CASE Tick
  BY <1>2, TickStep
<1>3. CASE WaitEnds
  BY <1>3, PhaseStep, BoardFacts
<1>4. CASE SendStartup \/ StartupFails
  BY <1>4, StartupStep
<1>5. CASE StartupAcknowledged
  BY <1>5, AcknowledgedStep
<1>6. ASSUME NEW f \in Follower, SetupEnds(f) \/ TimesOut(f) PROVE BootInv'
  <2>1. f \in Board /\ f # Center
    BY CenterReaches
  <2> QED
    BY <1>6, <2>1, PhaseStep
<1>7. ASSUME NEW b \in Board, LinkUp(b) PROVE BootInv'
  BY <1>7, PhaseStep
<1>8. ASSUME NEW b \in Board, SendReset(b) \/ ResetFails(b) PROVE BootInv'
  <2>1. CASE b = Center /\ SendReset(b)
    BY <2>1, CenterResets
  <2>2. CASE b # Center /\ SendReset(b)
    <3>1. /\ Deliver(b, Reset) /\ UNCHANGED <<mode, is_up, info, restart>>
          /\ phase' = [phase EXCEPT ![b] = "setup"]
      BY <2>2 DEF SendReset
    <3>2. inbox' \in [Board -> Seq(Message)]
      BY <3>1, DeliverReset DEF BootInv
    <3>3. Types' /\ phase'[Center] = phase[Center]
      BY <3>1, <3>2, <2>2, BoardFacts DEF BootInv, Types
    <3> QED
      BY <3>1, <3>3, ResetStep
  <2>3. CASE ResetFails(b)
    <3>1. Deliver(b, Reset) /\ UNCHANGED <<mode, is_up, info, restart, phase>>
      BY <2>3 DEF ResetFails
    <3>2. inbox' \in [Board -> Seq(Message)]
      BY <3>1, DeliverReset DEF BootInv
    <3>3. Types'
      BY <3>1, <3>2 DEF BootInv, Types
    <3> QED
      BY <3>1, <3>3, ResetStep
  <2> QED
    BY <1>8, <2>1, <2>2, <2>3
<1>9. ASSUME NEW b \in Board, ResetInSetup(b) \/ ResetWhenUp(b) \/ OnStartup(b)
      PROVE  BootInv'
  BY <1>9, MessageStep
<1>10. ASSUME NEW b \in Board, Restart(b) \/ PowerCycle(b) PROVE BootInv'
  <2>1. Boot(b) /\ mode' \in IF b = Center THEN Mode ELSE {mode}
    BY <1>10 DEF Restart, PowerCycle, BootInv, Types
  <2> QED
    BY <2>1, BootStep
<1> QED
  BY <1>1, <1>2, <1>3, <1>4, <1>5, <1>6, <1>7, <1>8, <1>9, <1>10, Zenon
  DEF Next, Step

(* The invariant holds whoever loses power and whenever.                   *)
THEOREM BootInvariant == Spec => []BootInv
BY BootInvInit, BootInvStep, PTL DEF Spec

(* Boards that run agree whether their node is the root (node_setup,       *)
(* rm_on_sibling_message): each of them has the one role of RoleInv.       *)
THEOREM OneRoleHolds == Spec => []OneRole
<1>1. BootInv => OneRole
  <2> SUFFICES ASSUME BootInv, NEW a \in Board, NEW b \in Board,
                      Running(a), Running(b)
               PROVE  info[a] = info[b]
    BY DEF OneRole
  <2>1. ASSUME NEW c \in Board, Running(c)
        PROVE  restart[c] = Off /\ is_up[c] /\ NoReset(inbox[c])
    <3>1. inbox[c] \in Seq(Message) /\ Reset \notin ToSet(inbox[c])
      BY <2>1 DEF BootInv, Types, Running
    <3>2. \A j \in 1 .. Len(inbox[c]) : inbox[c][j] \in Message /\ inbox[c][j] # Reset
      BY <3>1, ElementOfSeq, LenProperties DEF ToSet
    <3> QED
      BY <3>2, <2>1, MessageFacts DEF NoReset, Running
  <2>2. PICK r \in Mode : Role(r)
    BY DEF BootInv, RoleInv
  <2> QED
    BY <2>1, <2>2 DEF Role, Agrees
<1> QED
  BY <1>1, BootInvariant, PTL
=============================================================================
