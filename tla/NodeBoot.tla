------------------------------ MODULE NodeBoot ------------------------------
(***************************************************************************)
(* How the boards of a node start together: node_setup and reset_manager.  *)
(* The center resets every board that runs from before, waits, and then    *)
(* tells all of them whether the node is the root; the others wait for it, *)
(* and reset the whole node when nothing was heard for a while.            *)
(*                                                                         *)
(* Time is discrete.  A step that is due comes before time passes; loops   *)
(* that poll or try again every 100 ms take their step as soon as they     *)
(* can.  A broadcast reaches the boards between its sender and the first   *)
(* one whose ring link is not up.  It succeeds when there is none, unless  *)
(* its acknowledgement is late (module RingBroadcast), which is bounded to *)
(* one failure in each unit of time.                                       *)
(***************************************************************************)
EXTENDS Integers, Sequences, SequencesExt

CONSTANTS
  N,               \* boards of the node; the last one is the center
  Calibration,     \* CALIBRATION_DELAY_SECONDS, per orientation
  StartupWait,     \* the center's wait between reset and startup (10 s)
  ResetWait,       \* RESET_BROADCAST_WAIT_MS
  RESET_TIMEOUT,   \* RESET_TIMEOUT_US
  MaxPowerCycles   \* bound: boards that lose power

Board == 1 .. N
Center == N
Follower == 1 .. N - 1
None == "none"
Off == ResetWait + 1
Mode == {"root", "home"}  \* is_root, and the uuid that goes with it

ASSUME BoardsAssumption == N \in Nat /\ N >= 2
ASSUME DelaysAssumption == /\ Calibration \in Nat /\ StartupWait \in Nat
                           /\ ResetWait \in Nat /\ RESET_TIMEOUT \in Nat
                           /\ MaxPowerCycles \in Nat

VARIABLES
  mode,         \* the center's configuration bits
  phase,        \* what each app_main is at
  timer,        \* what is left of its delay
  is_up, info,  \* reset manager: is_up; is_root and uuid
  silence,      \* time since last_reset_time, up to RESET_TIMEOUT + 1
  inbox,        \* messages for the sibling task
  restart,      \* its delay before esp_restart, or Off
  tried,        \* boards whose broadcast failed since time last passed
  power_cycles  \* history: number of power cycles

vars == <<mode, phase, timer, is_up, info, silence, inbox, restart, tried,
          power_cycles>>

\* Board b as it comes out of a reset: rm_init, and the wait of node_setup.
Boot(b) ==
  /\ phase' = [phase EXCEPT ![b] = "calibrating"]
  /\ timer' = [timer EXCEPT ![b] = (b - 1) * Calibration]
  /\ is_up' = [is_up EXCEPT ![b] = FALSE]
  /\ info' = [info EXCEPT ![b] = None]
  /\ silence' = [silence EXCEPT ![b] = 0]
  /\ inbox' = [inbox EXCEPT ![b] = <<>>]
  /\ restart' = [restart EXCEPT ![b] = Off]
  /\ tried' = tried \ {b}

Init ==
  /\ mode \in Mode
  /\ phase = [b \in Board |-> "calibrating"]
  /\ timer = [b \in Board |-> (b - 1) * Calibration]
  /\ is_up = [b \in Board |-> FALSE]
  /\ info = [b \in Board |-> None]
  /\ silence = [b \in Board |-> 0]
  /\ inbox = [b \in Board |-> <<>>]
  /\ restart = [b \in Board |-> Off]
  /\ tried = {}
  /\ power_cycles = 0

----------------------------------------------------------------------------
(* Broadcasts on the ring.                                                 *)

Linked(b) == phase[b] # "calibrating"

\* The k-th board after b.
After(b, k) == ((b - 1 + k) % N) + 1

Reached(b) == {After(b, k) : k \in {k \in 1 .. N - 1 :
                               \A j \in 1 .. k : Linked(After(b, j))}}

Whole == \A b \in Board : Linked(b)

Deliver(b, m) ==
  inbox' = [c \in Board |-> IF c \in Reached(b) THEN Append(inbox[c], m)
                            ELSE inbox[c]]

Reset == [op |-> "RESET"]
Startup(i) == [op |-> "STARTUP", info |-> i]

----------------------------------------------------------------------------
(* node_setup                                                              *)

\* ring_link_init, after the delay that avoids current peaks.
LinkUp(b) ==
  /\ phase[b] = "calibrating" /\ timer[b] = 0
  /\ phase' = [phase EXCEPT ![b] = IF b = Center THEN "resetting" ELSE "setup"]
  /\ UNCHANGED <<mode, timer, is_up, info, silence, inbox, restart, tried,
                 power_cycles>>

\* rm_broadcast_reset succeeds, and its loop ends: the center waits for all
\* boards to come back, another board returns to its own wait.
SendReset(b) ==
  /\ phase[b] = "resetting" /\ Whole
  /\ Deliver(b, Reset)
  /\ silence' = [silence EXCEPT ![b] = 0]
  /\ phase' = [phase EXCEPT ![b] = IF b = Center THEN "waiting" ELSE "setup"]
  /\ timer' = [timer EXCEPT ![b] = IF b = Center THEN StartupWait ELSE @]
  /\ UNCHANGED <<mode, is_up, info, restart, tried, power_cycles>>

\* Mutant: the center goes on although some boards were not reset.
ResetFails_GoesOn(b) ==
  /\ phase[b] = "resetting" /\ b \notin tried
  /\ Deliver(b, Reset)
  /\ silence' = [silence EXCEPT ![b] = 0]
  /\ phase' = [phase EXCEPT ![b] = IF b = Center THEN "waiting" ELSE "setup"]
  /\ timer' = [timer EXCEPT ![b] = IF b = Center THEN StartupWait ELSE @]
  /\ tried' = tried \cup {b}
  /\ UNCHANGED <<mode, is_up, info, restart, power_cycles>>

\* The broadcast fails, and the loop tries again.
ResetFails(b) ==
  /\ phase[b] = "resetting" /\ b \notin tried
  /\ Deliver(b, Reset)
  /\ silence' = [silence EXCEPT ![b] = 0]
  /\ tried' = tried \cup {b}
  /\ UNCHANGED <<mode, phase, timer, is_up, info, restart, power_cycles>>

WaitEnds ==
  /\ phase[Center] = "waiting" /\ timer[Center] = 0
  /\ phase' = [phase EXCEPT ![Center] = "starting"]
  /\ UNCHANGED <<mode, timer, is_up, info, silence, inbox, restart, tried,
                 power_cycles>>

\* rm_broadcast_startup_info: the packet goes round the ring ...
SendStartup ==
  /\ phase[Center] = "starting" /\ Whole
  /\ Deliver(Center, Startup(mode))
  /\ info' = [info EXCEPT ![Center] = mode]
  /\ phase' = [phase EXCEPT ![Center] = "announced"]
  /\ UNCHANGED <<mode, timer, is_up, silence, restart, tried, power_cycles>>

\* ... and when it is back the center is up.
StartupAcknowledged ==
  /\ phase[Center] = "announced"
  /\ is_up' = [is_up EXCEPT ![Center] = TRUE]
  /\ phase' = [phase EXCEPT ![Center] = "done"]
  /\ UNCHANGED <<mode, timer, info, silence, inbox, restart, tried,
                 power_cycles>>

\* The broadcast fails; boards that got it are up nevertheless.
StartupFails ==
  /\ phase[Center] = "starting" /\ Center \notin tried
  /\ Deliver(Center, Startup(mode))
  /\ info' = [info EXCEPT ![Center] = mode]
  /\ tried' = tried \cup {Center}
  /\ UNCHANGED <<mode, phase, timer, is_up, silence, restart, power_cycles>>

\* The loop over rm_is_device_up ends.
SetupEnds(f) ==
  /\ phase[f] = "setup" /\ is_up[f]
  /\ phase' = [phase EXCEPT ![f] = "done"]
  /\ UNCHANGED <<mode, timer, is_up, info, silence, inbox, restart, tried,
                 power_cycles>>

\* rm_should_device_reset.  The board may have been told that it is up since
\* the loop looked.
TimesOut(f) ==
  /\ phase[f] = "setup" /\ silence[f] > RESET_TIMEOUT
  /\ phase' = [phase EXCEPT ![f] = "resetting"]
  /\ UNCHANGED <<mode, timer, is_up, info, silence, inbox, restart, tried,
                 power_cycles>>

----------------------------------------------------------------------------
(* rm_on_sibling_message, in the sibling task.                             *)

\* The sibling task is in the delay of a restart until the board restarts.
Takes(b, op) == restart[b] = Off /\ inbox[b] # <<>> /\ Head(inbox[b]).op = op

ResetInSetup(b) ==
  /\ Takes(b, "RESET") /\ ~is_up[b]
  /\ silence' = [silence EXCEPT ![b] = 0]
  /\ inbox' = [inbox EXCEPT ![b] = Tail(@)]
  /\ UNCHANGED <<mode, phase, timer, is_up, info, restart, tried, power_cycles>>

\* Mutant: a board that runs does not let others reset it.
ResetWhenUp_Ignored(b) ==
  /\ Takes(b, "RESET") /\ is_up[b]
  /\ inbox' = [inbox EXCEPT ![b] = Tail(@)]
  /\ UNCHANGED <<mode, phase, timer, is_up, info, silence, restart, tried,
                 power_cycles>>

ResetWhenUp(b) ==
  /\ Takes(b, "RESET") /\ is_up[b]
  /\ restart' = [restart EXCEPT ![b] = ResetWait]
  /\ inbox' = [inbox EXCEPT ![b] = Tail(@)]
  /\ UNCHANGED <<mode, phase, timer, is_up, info, silence, tried, power_cycles>>

OnStartup(b) ==
  /\ Takes(b, "STARTUP")
  /\ info' = [info EXCEPT ![b] = Head(inbox[b]).info]
  /\ is_up' = [is_up EXCEPT ![b] = TRUE]
  /\ inbox' = [inbox EXCEPT ![b] = Tail(@)]
  /\ UNCHANGED <<mode, phase, timer, silence, restart, tried, power_cycles>>

\* esp_restart
Restart(b) ==
  /\ restart[b] = 0
  /\ Boot(b)
  /\ UNCHANGED <<mode, power_cycles>>

----------------------------------------------------------------------------
\* A board loses power and boots again, the center maybe with another
\* configuration.
PowerCycle(b) ==
  /\ power_cycles < MaxPowerCycles
  /\ power_cycles' = power_cycles + 1
  /\ Boot(b)
  /\ mode' \in IF b = Center THEN Mode ELSE {mode}

Due(b) ==
  \/ inbox[b] # <<>> /\ restart[b] = Off
  \/ restart[b] = 0
  \/ phase[b] \in {"calibrating", "waiting"} /\ timer[b] = 0
  \/ phase[b] \in {"resetting", "starting"} /\ Whole
  \/ phase[b] = "announced"
  \/ phase[b] = "setup" /\ (is_up[b] \/ silence[b] > RESET_TIMEOUT)

Less(t) == IF t = 0 THEN 0 ELSE t - 1

Tick ==
  /\ \A b \in Board : ~Due(b)
  /\ timer' = [b \in Board |-> Less(timer[b])]
  /\ restart' = [b \in Board |-> IF restart[b] = Off THEN Off
                                 ELSE Less(restart[b])]
  /\ silence' = [b \in Board |-> IF silence[b] > RESET_TIMEOUT THEN silence[b]
                                 ELSE silence[b] + 1]
  /\ tried' = {}
  /\ UNCHANGED <<mode, phase, is_up, info, inbox, power_cycles>>

Step ==
  \/ Tick \/ WaitEnds \/ SendStartup \/ StartupAcknowledged \/ StartupFails
  \/ \E f \in Follower : SetupEnds(f) \/ TimesOut(f)
  \/ \E b \in Board :
       \/ LinkUp(b) \/ SendReset(b) \/ ResetFails(b)
       \/ ResetInSetup(b) \/ ResetWhenUp(b) \/ OnStartup(b) \/ Restart(b)

Next == Step \/ \E b \in Board : PowerCycle(b)

Spec == Init /\ [][Next]_vars

(* The tasks of the boards run, and time passes.                           *)
FairSpec == Spec /\ WF_vars(Step)

----------------------------------------------------------------------------
TypeOK ==
  /\ mode \in Mode
  /\ phase \in [Board -> {"calibrating", "resetting", "waiting", "starting",
                          "announced", "setup", "done"}]
  /\ timer \in [Board -> 0 .. StartupWait + N * Calibration]
  /\ is_up \in [Board -> BOOLEAN]
  /\ info \in [Board -> Mode \cup {None}]
  /\ silence \in [Board -> 0 .. RESET_TIMEOUT + 1]
  /\ \A b \in Board : \A i \in DOMAIN inbox[b] :
       inbox[b][i] \in {Reset} \cup {Startup(m) : m \in Mode}
  /\ restart \in [Board -> 0 .. Off]
  /\ tried \subseteq Board
  /\ power_cycles \in 0 .. MaxPowerCycles

\* Board b runs with what it was told, and is not about to reset.
Running(b) == is_up[b] /\ restart[b] = Off /\ Reset \notin ToSet(inbox[b])

(* Boards that run agree whether their node is the root, through power     *)
(* losses of any board, with the configuration changed meanwhile: the      *)
(* center announces a role only when it has reset every board that had the *)
(* previous one (node_setup, rm_on_sibling_message).                       *)
OneRole ==
  \A a, b \in Board : Running(a) /\ Running(b) => info[a] = info[b]

(* Whichever boards lose power and at whichever moment, once that stops    *)
(* all boards are up for good with the role of the center's configuration: *)
(* the resets they send each other end (node_setup).                       *)
NodeComesUp ==
  <>[](\A b \in Board : Running(b) /\ phase[b] = "done" /\ info[b] = mode)
=============================================================================
