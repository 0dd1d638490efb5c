---------------------------- MODULE TableMachine ----------------------------
(***************************************************************************)
(* The welding program of the XY table (table_state_machine and the main   *)
(* loop that calls it), with the two safety monitors and the grind         *)
(* watchdog that run in threads of their own.                              *)
(*                                                                         *)
(* state is the machine state the program returns from one call of         *)
(* table_state_machine to the next; at is the place inside that call where *)
(* it waits for the stage driver, for a button or for a sensor ("loop"     *)
(* between two calls).                                                     *)
(***************************************************************************)
EXTENDS StageDriver, Sequences, FiniteSets

CONSTANTS
  Inputs,        \* the safety inputs: light curtain (DI3), emergency button (DI2)
  Table,         \* POSITIONS_OF_PART
  Unload,        \* UNLOAD_POSITION
  Grind,         \* GRIND_POSITION
  Faults,        \* what may go wrong beside the stage: subset of FaultKinds
  Exposed        \* which stage fault may strike in which machine state

States == {"HOMING", "INIT", "START", "MOVE_NEXT_COMMAND", "PROCESS_COMMAND",
           "FULL_AUTOMATION", "ERROR_WELD", "EMERGENCY_HANDLING", "GRINDING"}

(* "output": a write of DO6 or DO7 fails.  trigger_welding_start and          *)
(* toggle_welding_mode swallow the exception and no caller looks at their    *)
(* answer; the two writes before the main loop are taken to succeed.         *)
FaultKinds == {"trip", "sticky", "contact", "reject", "no_verdict", "denied",
               "output"}
StageFaults == {"cut", "idle_cut", "error", "garbled"}

Entries == [op : {"MOVE"}, to : Position]
             \cup [op : {"WELD", "USER", "PAUSE"}, to : {HomePosition}]

(* The table starts and ends with a position, and every command in it that  *)
(* is not a position stands between two positions.                          *)
ASSUME TableAssumption ==
  /\ Table \in Seq(Entries) /\ Table # <<>>
  /\ Table[1].op = "MOVE" /\ Table[Len(Table)].op = "MOVE"
  /\ \A i \in 1 .. Len(Table) - 1 :
        Table[i].op # "MOVE" => Table[i + 1].op = "MOVE"
  /\ Unload \in Position /\ Grind \in Position
  /\ Faults \subseteq FaultKinds
  /\ Exposed \subseteq StageFaults \X States

(* table_of_positions counts from 0. *)
Entry(i) == Table[i + 1]
Indexes == 0 .. Len(Table) - 1

VARIABLES
  state,            \* state_of_machine
  at,               \* where table_state_machine waits
  table_index,
  welding_position,
  context,          \* xy_table._recovery_context
  waiting,          \* welder.waiting_for_result
  pedal,            \* DO7, enables the welding machine's pedal input
  trigger,          \* DO6, presses the pedal
  active,           \* the safety inputs that are active
  previous,         \* previous_state of the monitor of each input
  grind_request,    \* grind_request_event
  welded,           \* history: entries of this cycle with an OK result
  struck            \* history: entries of this cycle whose weld was made

progVars == <<state, at, table_index, welding_position, context, waiting,
              pedal, trigger, welded, struck>>
vars == <<driverVars, progVars, active, previous, grind_request>>

NoContext == [target |-> HomePosition, ret |-> "NONE", phase |-> 0,
              advance |-> FALSE]
Context(t, r, adv) == [target |-> t, ret |-> r, phase |-> 0, advance |-> adv]

(* The places where the program waits for a person or the welding machine. *)
Pauses == {"start_button", "homing_button", "authorization", "restart_button",
           "stepping_contact"}
Places == Pauses \cup
  {"boot", "boot_home", "loop", "crashed",
   "homing_ping", "homing_read", "homing_home",
   "start_ping", "start_read", "next_print", "next_ping",
   "weld_ping", "move_ping", "move_check", "sticky_log", "move_clear",
   "move_goto", "move_verify", "unload_goto",
   "emergency_home", "emergency_goto", "emergency_verify",
   "grind_goto", "return_goto", "return_verify"}

-----------------------------------------------------------------------------
(* Building blocks. *)

Fault(f) == f \in Faults /\ Disturb

Safe == active = {}

(* One call of table_state_machine in state s. *)
Called(s) == at = "loop" /\ state = s /\ Safe

(* The driver method called at p has returned. *)
Back(p) == at = p /\ call = "idle"

(* MOVE is pressed while the curtain is clear and the emergency button out. *)
Button(p) == at = p /\ Safe

Next_(s)  == state' = s /\ at' = "loop"
Stay      == UNCHANGED state /\ at' = "loop"
WaitAt(p) == UNCHANGED state /\ at' = p

KeepDriver == UNCHANGED driverVars
KeepStage  == UNCHANGED <<power, phys, counter, cached, lost, faults>>
KeepCall   == UNCHANGED <<call, axis, goal, ok, seen>>
KeepEnv    == UNCHANGED <<active, previous, grind_request>>
KeepInputs == UNCHANGED <<active, previous>>
KeepIndex  == UNCHANGED <<table_index, welding_position, welded, struck>>
KeepWeld   == UNCHANGED <<waiting, pedal, trigger>>

(* DO6 and DO7 are written; a write that fails leaves the output as it is.  *)
WritePedal(v) ==
  \/ pedal' = v /\ UNCHANGED faults
  \/ pedal # v /\ Fault("output") /\ UNCHANGED pedal
WriteTrigger(v) ==
  \/ trigger' = v /\ UNCHANGED faults
  \/ trigger # v /\ Fault("output") /\ UNCHANGED trigger
KeepStill == UNCHANGED <<power, phys, counter, cached, lost>>

(* The pedal of the welding machine is down: DO6 presses it, DO7 lets it    *)
(* through.                                                                 *)
Pressed == trigger /\ pedal

(* emergency_event_triggered is reset and a motion starts. *)
ClearAndHome    == emergency' = FALSE /\ StartHome /\ KeepStage
ClearAndGoto(t) == emergency' = FALSE /\ StartGoto(t) /\ KeepStage
Reading         == StartRead /\ KeepStage /\ UNCHANGED emergency
Pinging         == StartPing /\ KeepStage /\ UNCHANGED emergency

(* is_position_close_to raises ValueError on a tuple that misses an axis. *)
VerifiedUnread(t) == TRUE   \* mutant: the positions are not compared
Verified(t) == seen = t
Crash == at' = "crashed" /\ UNCHANGED state

-----------------------------------------------------------------------------
(* Start of the program: the result of the first home() is not looked at.   *)

Boot ==
  /\ at = "boot" /\ Safe
  /\ StartHome /\ KeepStage /\ UNCHANGED emergency
  /\ WaitAt("boot_home")
  /\ KeepIndex /\ KeepWeld /\ KeepEnv /\ UNCHANGED context

BootHomed ==
  /\ Back("boot_home")
  /\ Stay
  /\ KeepDriver /\ KeepIndex /\ KeepWeld /\ KeepEnv /\ UNCHANGED context

-----------------------------------------------------------------------------
(* HOMING *)

Homing ==
  /\ Called("HOMING")
  /\ Pinging /\ WaitAt("homing_ping")
  /\ KeepIndex /\ KeepWeld /\ KeepEnv /\ UNCHANGED context

HomingPinged ==
  /\ Back("homing_ping")
  /\ IF ok THEN Reading /\ WaitAt("homing_read") ELSE KeepDriver /\ Stay
  /\ KeepIndex /\ KeepWeld /\ KeepEnv /\ UNCHANGED context

HomingRead ==
  /\ Back("homing_read")
  /\ IF ok /\ seen = HomePosition THEN Next_("INIT") ELSE WaitAt("homing_button")
  /\ KeepDriver /\ KeepIndex /\ KeepWeld /\ KeepEnv /\ UNCHANGED context

HomingMove ==
  /\ Button("homing_button")
  /\ context' = Context(HomePosition, "INIT", FALSE)
  /\ ClearAndHome /\ WaitAt("homing_home")
  /\ KeepIndex /\ KeepWeld /\ KeepEnv

HomingDone ==
  /\ Back("homing_home")
  /\ Next_(IF emergency THEN "EMERGENCY_HANDLING" ELSE "INIT")
  /\ KeepDriver /\ KeepIndex /\ KeepWeld /\ KeepEnv /\ UNCHANGED context

-----------------------------------------------------------------------------
(* INIT: a new battery is scanned. *)

ScanKeepsIndex ==   \* mutant: the index of the last battery is kept
  /\ Called("INIT")
  /\ welding_position' = 0 /\ UNCHANGED table_index
  /\ welded' = {} /\ struck' = {}
  /\ Next_("START")
  /\ KeepDriver /\ KeepWeld /\ KeepEnv /\ UNCHANGED context

Scan ==
  /\ Called("INIT")
  /\ table_index' = -1 /\ welding_position' = 0
  /\ welded' = {} /\ struck' = {}
  /\ Next_("START")
  /\ KeepDriver /\ KeepWeld /\ KeepEnv /\ UNCHANGED context

-----------------------------------------------------------------------------
(* START: the operator lets the machine go on.                              *)

Start ==
  /\ Called("START")
  /\ Pinging /\ WaitAt("start_ping")
  /\ KeepIndex /\ KeepWeld /\ KeepEnv /\ UNCHANGED context

StartPinged ==
  /\ Back("start_ping")
  /\ IF ok THEN Reading /\ WaitAt("start_read") ELSE KeepDriver /\ Stay
  /\ KeepIndex /\ KeepWeld /\ KeepEnv /\ UNCHANGED context

StartRead_ ==
  /\ Back("start_read")
  /\ WaitAt("start_button")
  /\ KeepDriver /\ KeepIndex /\ KeepWeld /\ KeepEnv /\ UNCHANGED context

StartMove ==
  /\ Button("start_button")
  /\ emergency' = FALSE
  /\ Next_("MOVE_NEXT_COMMAND")
  /\ KeepStage /\ KeepCall /\ KeepIndex /\ KeepWeld /\ KeepEnv
  /\ UNCHANGED context

-----------------------------------------------------------------------------
(* MOVE_NEXT_COMMAND: is_connected() is called to print it, then to test it. *)

MoveNext ==
  /\ Called("MOVE_NEXT_COMMAND")
  /\ Pinging /\ WaitAt("next_print")
  /\ KeepIndex /\ KeepWeld /\ KeepEnv /\ UNCHANGED context

MoveNextPrinted ==
  /\ Back("next_print")
  /\ Pinging /\ WaitAt("next_ping")
  /\ KeepIndex /\ KeepWeld /\ KeepEnv /\ UNCHANGED context

(* The state that goes on with index i, the table being finished or not. *)
StateAt(i) == IF i >= Len(Table) THEN "INIT" ELSE "PROCESS_COMMAND"

MoveNextPinged ==
  /\ Back("next_ping")
  /\ IF ok
     THEN table_index' = table_index + 1 /\ Next_(StateAt(table_index + 1))
     ELSE UNCHANGED table_index /\ Stay
  /\ KeepDriver /\ KeepWeld /\ KeepEnv
  /\ UNCHANGED <<context, welding_position, welded, struck>>

-----------------------------------------------------------------------------
(* PROCESS_COMMAND *)

Processing(op) ==
  Called("PROCESS_COMMAND") /\ table_index \in Indexes
    /\ Entry(table_index).op = op

(* table_of_positions[table_index] raises IndexError. *)
ProcessPastTable ==
  /\ Called("PROCESS_COMMAND") /\ table_index \notin Indexes
  /\ Crash
  /\ KeepDriver /\ KeepIndex /\ KeepWeld /\ KeepEnv /\ UNCHANGED context

ProcessPause ==
  /\ Processing("PAUSE")
  /\ Next_("MOVE_NEXT_COMMAND")
  /\ KeepDriver /\ KeepIndex /\ KeepWeld /\ KeepEnv /\ UNCHANGED context

ProcessUser ==
  /\ Processing("USER")
  /\ Next_("START")
  /\ KeepDriver /\ KeepIndex /\ KeepWeld /\ KeepEnv /\ UNCHANGED context

ProcessWeld ==
  /\ Processing("WELD")
  /\ Pinging /\ WaitAt("weld_ping")
  /\ KeepIndex /\ KeepWeld /\ KeepEnv /\ UNCHANGED context

(* The position of a WELD entry is the position entry before it. *)
WeldTarget == Entry(table_index - 1).to
WeldContext == Context(WeldTarget, "PROCESS_COMMAND", FALSE)

WeldPinged ==
  /\ Back("weld_ping")
  /\ context' = WeldContext
  /\ WritePedal(ok)
  /\ welding_position' = IF ok THEN welding_position + 1 ELSE welding_position
  /\ Next_(IF ok THEN "FULL_AUTOMATION" ELSE "EMERGENCY_HANDLING")
  /\ KeepStill /\ KeepCall /\ KeepEnv
  /\ UNCHANGED <<emergency, waiting, trigger, table_index, welded, struck>>

ProcessMove ==
  /\ Processing("MOVE")
  /\ Pinging /\ WaitAt("move_ping")
  /\ KeepIndex /\ KeepWeld /\ KeepEnv /\ UNCHANGED context

MoveTarget == Entry(table_index).to

MovePinged ==
  /\ Back("move_ping")
  /\ IF ok
     THEN /\ context' = Context(MoveTarget, "PROCESS_COMMAND", TRUE)
          /\ WaitAt("move_check")
     ELSE UNCHANGED context /\ Stay
  /\ KeepDriver /\ KeepIndex /\ KeepWeld /\ KeepEnv

MoveCheckBlind ==   \* mutant: the latch is not tested
  /\ at = "move_check"
  /\ \/ /\ Fault("sticky")
        /\ StartRead /\ WaitAt("sticky_log")
        /\ UNCHANGED <<power, phys, counter, cached, lost, emergency>>
     \/ WaitAt("move_clear") /\ KeepDriver
  /\ KeepIndex /\ KeepWeld /\ KeepEnv /\ UNCHANGED context

(* The latch is tested, then the electrode contact (DI4) is read ...        *)
MoveCheck ==
  /\ at = "move_check"
  /\ \/ /\ emergency
        /\ Next_("EMERGENCY_HANDLING")
        /\ KeepDriver
     \/ /\ ~emergency
        /\ Fault("sticky")
        /\ StartRead /\ WaitAt("sticky_log")
        /\ UNCHANGED <<power, phys, counter, cached, lost, emergency>>
     \/ /\ ~emergency
        /\ WaitAt("move_clear")
        /\ KeepDriver
  /\ KeepIndex /\ KeepWeld /\ KeepEnv /\ UNCHANGED context

(* log_event takes both positions of the tuple, unless it is empty. *)
StickyLogged ==
  /\ Back("sticky_log")
  /\ IF Omitted \in {{}, Axes} THEN Next_("GRINDING") ELSE Crash
  /\ KeepDriver /\ KeepIndex /\ KeepWeld /\ KeepEnv /\ UNCHANGED context

(* ... and only then the latch is reset, whatever it holds by now.          *)
MoveClear ==
  /\ at = "move_clear"
  /\ ClearAndGoto(MoveTarget) /\ WaitAt("move_goto")
  /\ KeepIndex /\ KeepWeld /\ KeepEnv /\ UNCHANGED context

MoveDone ==
  /\ Back("move_goto")
  /\ \/ /\ emergency
        /\ cached' = Forgotten
        /\ Next_("EMERGENCY_HANDLING")
        /\ UNCHANGED <<power, phys, counter, lost, faults, emergency>>
        /\ KeepCall
     \/ ~emergency /\ ~ok /\ Next_("EMERGENCY_HANDLING") /\ KeepDriver
     \/ ~emergency /\ ok /\ Reading /\ WaitAt("move_verify")
  /\ KeepIndex /\ KeepWeld /\ KeepEnv /\ UNCHANGED context

MoveVerifiedStays ==   \* mutant: a verified position does not advance
  /\ Back("move_verify")
  /\ IF ~ok THEN Crash ELSE Stay
  /\ KeepDriver /\ KeepIndex /\ KeepWeld /\ KeepEnv /\ UNCHANGED context

MoveVerified ==
  /\ Back("move_verify")
  /\ IF ~ok THEN Crash /\ UNCHANGED table_index
     ELSE IF Verified(MoveTarget)
     THEN table_index' = table_index + 1 /\ Next_(StateAt(table_index + 1))
     ELSE UNCHANGED table_index /\ Stay
  /\ KeepDriver /\ KeepWeld /\ KeepEnv
  /\ UNCHANGED <<context, welding_position, welded, struck>>

-----------------------------------------------------------------------------
(* FULL_AUTOMATION: fire the welding machine once, then wait for its result. *)

Fire ==
  /\ Called("FULL_AUTOMATION") /\ ~waiting
  /\ context' = WeldContext
  /\ WriteTrigger(TRUE)
  /\ WaitAt("stepping_contact")
  /\ KeepStill /\ KeepCall /\ KeepIndex /\ KeepEnv
  /\ UNCHANGED <<emergency, waiting, pedal>>

SteppingContactForgets ==   \* mutant: waiting_for_result is not set
  /\ at = "stepping_contact" /\ Pressed
  /\ WriteTrigger(FALSE)
  /\ struck' = struck \cup {table_index}
  /\ Stay
  /\ KeepStill /\ KeepCall /\ KeepEnv
  /\ UNCHANGED <<emergency, waiting, pedal, context, table_index,
                 welding_position, welded>>

(* The machine welds while its pedal is down.  A pedal that is still down   *)
(* from the point before may be no new press to it: the contact that does   *)
(* not come is then ContactTimeout.                                         *)
SteppingContact ==
  /\ at = "stepping_contact" /\ Pressed
  /\ WriteTrigger(FALSE)
  /\ waiting' = TRUE
  /\ struck' = struck \cup {table_index}
  /\ Stay
  /\ KeepStill /\ KeepCall /\ KeepEnv
  /\ UNCHANGED <<emergency, pedal, context, table_index, welding_position, welded>>

(* DI7 does not come within 50 polls: the contact is lost, and a second     *)
(* fault may be the write, or the pedal is not down.                        *)
NoContact ==
  \/ Fault("contact")
       /\ (trigger' = FALSE \/ ("output" \in Faults /\ UNCHANGED trigger))
  \/ ~Pressed /\ WriteTrigger(FALSE)

ContactTimeoutCounts ==   \* mutant: welding_position is not taken back
  /\ at = "stepping_contact" /\ NoContact
  /\ waiting' = FALSE
  /\ Next_("EMERGENCY_HANDLING")
  /\ KeepStill /\ KeepCall /\ KeepEnv /\ KeepIndex
  /\ UNCHANGED <<emergency, pedal, context>>

ContactTimeout ==
  /\ at = "stepping_contact" /\ NoContact
  /\ waiting' = FALSE
  /\ welding_position' = welding_position - 1
  /\ Next_("EMERGENCY_HANDLING")
  /\ KeepStill /\ KeepCall /\ KeepEnv
  /\ UNCHANGED <<emergency, pedal, context, table_index, welded, struck>>

WeldResultRepeats ==   \* mutant: an OK result does not leave the state
  /\ Called("FULL_AUTOMATION") /\ waiting
  /\ context' = WeldContext
  /\ waiting' = FALSE
  /\ welded' = welded \cup {table_index}
  /\ Stay
  /\ KeepDriver /\ KeepEnv
  /\ UNCHANGED <<pedal, trigger, table_index, welding_position, struck>>

WeldResult ==
  /\ Called("FULL_AUTOMATION") /\ waiting
  /\ context' = WeldContext
  /\ waiting' = FALSE
  /\ KeepEnv /\ KeepCall
  /\ UNCHANGED <<pedal, trigger, table_index, welding_position, struck,
                 power, phys, counter, cached, emergency, lost>>
  /\ \/ /\ welded' = welded \cup {table_index}
        /\ Next_("MOVE_NEXT_COMMAND")
        /\ UNCHANGED faults
     \/ Fault("reject") /\ Next_("ERROR_WELD") /\ UNCHANGED welded
     \/ Fault("no_verdict") /\ Stay /\ UNCHANGED welded

-----------------------------------------------------------------------------
(* ERROR_WELD: the supervisor lets the failed battery be unloaded.          *)

Unloading ==
  /\ Called("ERROR_WELD")
  /\ context' = Context(Unload, "INIT", FALSE)
  /\ ClearAndGoto(Unload) /\ WaitAt("unload_goto")
  /\ KeepIndex /\ KeepWeld /\ KeepEnv

Unloaded ==
  /\ Back("unload_goto")
  /\ Next_(IF emergency THEN "EMERGENCY_HANDLING" ELSE "INIT")
  /\ KeepDriver /\ KeepIndex /\ KeepWeld /\ KeepEnv /\ UNCHANGED context

-----------------------------------------------------------------------------
(* EMERGENCY_HANDLING: authorise, home, move to the interrupted target.     *)

EmergencyKeepsLatch ==   \* mutant: emergency_event_triggered is not reset
  /\ Called("EMERGENCY_HANDLING")
  /\ WritePedal(FALSE)
  /\ IF context = NoContext THEN Next_("INIT") ELSE WaitAt("authorization")
  /\ KeepStill /\ KeepCall /\ KeepIndex /\ KeepEnv
  /\ UNCHANGED <<emergency, waiting, trigger, context>>

Emergency ==
  /\ Called("EMERGENCY_HANDLING")
  /\ WritePedal(FALSE)
  /\ IF context = NoContext
     THEN Next_("INIT") /\ UNCHANGED emergency
     ELSE emergency' = FALSE /\ WaitAt("authorization")
  /\ KeepStill /\ KeepCall /\ KeepIndex /\ KeepEnv
  /\ UNCHANGED <<waiting, trigger, context>>

Denied ==
  /\ at = "authorization"
  /\ Fault("denied")
  /\ Stay
  /\ KeepCall /\ KeepIndex /\ KeepWeld /\ KeepEnv
  /\ UNCHANGED <<context, power, phys, counter, cached, emergency, lost>>

Granted ==
  /\ Button("authorization")
  /\ StartHome /\ KeepStage /\ UNCHANGED emergency
  /\ WaitAt("emergency_home")
  /\ KeepIndex /\ KeepWeld /\ KeepEnv /\ UNCHANGED context

RecoveredPast ==   \* mutant: should_advance is not looked at
  /\ table_index' = table_index + 1
  /\ context' = NoContext
  /\ Next_(context.ret)

(* The recovery has reached its target. *)
Recovered ==
  /\ table_index' = IF context.advance /\ context.phase = 0
                    THEN table_index + 1 ELSE table_index
  /\ context' = NoContext
  /\ Next_(context.ret)

EmergencyHomed ==
  /\ Back("emergency_home")
  /\ IF emergency \/ ~ok
     THEN Stay /\ UNCHANGED <<table_index, context>>
     ELSE IF context.target = HomePosition
     THEN Recovered
     ELSE WaitAt("restart_button") /\ UNCHANGED <<table_index, context>>
  /\ KeepDriver /\ KeepWeld /\ KeepEnv /\ UNCHANGED <<welding_position, welded, struck>>

EmergencyMove ==
  /\ Button("restart_button")
  /\ ClearAndGoto(context.target) /\ WaitAt("emergency_goto")
  /\ KeepIndex /\ KeepWeld /\ KeepEnv /\ UNCHANGED context

EmergencyMoved ==
  /\ Back("emergency_goto")
  /\ IF emergency THEN Stay /\ KeepDriver
                  ELSE Reading /\ WaitAt("emergency_verify")
  /\ KeepIndex /\ KeepWeld /\ KeepEnv /\ UNCHANGED context

EmergencyVerified ==
  /\ Back("emergency_verify")
  /\ IF ~ok THEN Crash /\ UNCHANGED <<table_index, context>>
     ELSE IF Verified(context.target) THEN Recovered
     ELSE Stay /\ UNCHANGED <<table_index, context>>
  /\ KeepDriver /\ KeepWeld /\ KeepEnv /\ UNCHANGED <<welding_position, welded, struck>>

-----------------------------------------------------------------------------
(* GRINDING: to the grind position and back, a GRIND press at each end.     *)

Phase(p) == Called("GRINDING") /\ context.phase = p
SetPhase(p) == context' = [context EXCEPT !.phase = p]

GrindPressed ==
  /\ \E p \in {0, 2} : Phase(p) /\ SetPhase(p + 1)
  /\ grind_request
  /\ grind_request' = FALSE
  /\ Stay
  /\ KeepDriver /\ KeepIndex /\ KeepWeld /\ KeepInputs

GrindMove ==
  /\ Phase(1)
  /\ ClearAndGoto(Grind) /\ WaitAt("grind_goto")
  /\ KeepIndex /\ KeepWeld /\ KeepEnv /\ UNCHANGED context

GrindReachedBlind ==   \* mutant: the latch is not tested
  /\ Back("grind_goto")
  /\ SetPhase(2) /\ grind_request' = FALSE /\ Stay
  /\ KeepDriver /\ KeepIndex /\ KeepWeld /\ KeepInputs

GrindReached ==
  /\ Back("grind_goto")
  /\ IF emergency
     THEN Next_("EMERGENCY_HANDLING") /\ UNCHANGED <<context, grind_request>>
     ELSE SetPhase(2) /\ grind_request' = FALSE /\ Stay
  /\ KeepDriver /\ KeepIndex /\ KeepWeld /\ KeepInputs

ReturnMove ==
  /\ Phase(3)
  /\ ClearAndGoto(context.target) /\ WaitAt("return_goto")
  /\ KeepIndex /\ KeepWeld /\ KeepEnv /\ UNCHANGED context

(* Neither the latch nor the result of the move is looked at. *)
Returned ==
  /\ Back("return_goto")
  /\ Reading /\ WaitAt("return_verify")
  /\ KeepIndex /\ KeepWeld /\ KeepEnv /\ UNCHANGED context

ReturnVerified ==
  /\ Back("return_verify")
  /\ IF ~ok THEN Crash /\ UNCHANGED context
     ELSE IF Verified(context.target)
     THEN context' = NoContext /\ Next_(context.ret)
     ELSE Stay /\ UNCHANGED context
  /\ KeepDriver /\ KeepIndex /\ KeepWeld /\ KeepEnv

-----------------------------------------------------------------------------
(* The threads and the world around the program. *)

(* monitor_light_curtain and monitor_emergency_button *)
Monitor(i) ==
  /\ (i \in active) # (i \in previous)
  /\ previous' = IF i \in active THEN previous \cup {i} ELSE previous \ {i}
  /\ emergency' = (emergency \/ i \in active)
  /\ KeepStage /\ KeepCall
  /\ UNCHANGED <<progVars, active, grind_request>>

(* grind_watchdog sees the GRIND button go down. *)
GrindWatchdog ==
  /\ ~grind_request
  /\ grind_request' = TRUE
  /\ KeepDriver /\ UNCHANGED progVars /\ KeepInputs

Trip(i) ==
  /\ i \notin active
  /\ Fault("trip")
  /\ active' = active \cup {i}
  /\ UNCHANGED <<power, phys, counter, cached, emergency, lost, previous,
                 grind_request, progVars>>
  /\ KeepCall

Release(i) ==
  /\ i \in active
  /\ active' = active \ {i}
  /\ KeepDriver /\ UNCHANGED <<progVars, previous, grind_request>>

Outside == UNCHANGED <<progVars, active, previous, grind_request>>

(* The program waits long enough for the power to fail and come back. *)
Idle == \/ at \in Pauses
        \/ at = "loop" /\ (~Safe \/ state \in {"INIT", "FULL_AUTOMATION",
                                              "ERROR_WELD", "GRINDING"})

Strikes(f) == <<f, state>> \in Exposed

CutUnderCommand == PowerCut /\ Strikes("cut") /\ Outside
CutWhileIdle    == IdleCut /\ Idle /\ Strikes("idle_cut") /\ Outside
DriverAnswer    == Answer /\ Outside
PowerBack       == PowerOn /\ Outside
RefusedCommand  == ErrorReply /\ Strikes("error") /\ Outside
NoisyReply      == GarbledReply /\ Strikes("garbled") /\ Outside

-----------------------------------------------------------------------------

Init ==
  /\ DriverInit
  /\ state = "HOMING" /\ at = "boot"
  /\ table_index = -1 /\ welding_position = 0
  /\ context = NoContext
  /\ waiting = FALSE /\ pedal = FALSE /\ trigger = FALSE
  /\ active \in SUBSET Inputs /\ previous = active
  /\ grind_request = FALSE
  /\ welded = {} /\ struck = {}

Program ==
  \/ Boot \/ BootHomed
  \/ Homing \/ HomingPinged \/ HomingRead \/ HomingMove \/ HomingDone
  \/ Scan
  \/ Start \/ StartPinged \/ StartRead_ \/ StartMove
  \/ MoveNext \/ MoveNextPrinted \/ MoveNextPinged
  \/ ProcessPastTable \/ ProcessPause \/ ProcessUser
  \/ ProcessWeld \/ WeldPinged
  \/ ProcessMove \/ MovePinged \/ MoveCheck \/ StickyLogged \/ MoveClear
  \/ MoveDone \/ MoveVerified
  \/ Fire \/ SteppingContact \/ ContactTimeout \/ WeldResult
  \/ Unloading \/ Unloaded
  \/ Emergency \/ Denied \/ Granted \/ EmergencyHomed \/ EmergencyMove
  \/ EmergencyMoved \/ EmergencyVerified
  \/ GrindPressed \/ GrindMove \/ GrindReached \/ ReturnMove \/ Returned
  \/ ReturnVerified

Threads == GrindWatchdog \/ \E i \in Inputs : Monitor(i)

World ==
  \/ DriverAnswer \/ PowerBack
  \/ CutUnderCommand \/ CutWhileIdle \/ RefusedCommand \/ NoisyReply
  \/ \E i \in Inputs : Trip(i) \/ Release(i)

Next == Program \/ Threads \/ World

Spec == Init /\ [][Next]_vars

-----------------------------------------------------------------------------
(* Fairness: the program and its threads are scheduled, the driver's calls  *)
(* are answered, power and people come back.                                *)

Fairness ==
  /\ WF_vars(Program) /\ WF_vars(GrindWatchdog)
  /\ WF_vars(DriverAnswer) /\ WF_vars(PowerBack)
  /\ \A i \in Inputs : WF_vars(Monitor(i)) /\ WF_vars(Release(i))

FairSpec == Spec /\ Fairness

-----------------------------------------------------------------------------
(* Properties. *)

Contexts == [target : Position \cup {HomePosition},
             ret : {"NONE", "INIT", "PROCESS_COMMAND"},
             phase : 0 .. 3,
             advance : BOOLEAN]

ProgramTypeOK ==
  /\ state \in States
  /\ at \in Places
  /\ table_index \in -1 .. Len(Table)
  /\ welding_position \in Int
  /\ context \in Contexts
  /\ waiting \in BOOLEAN /\ pedal \in BOOLEAN /\ trigger \in BOOLEAN
  /\ active \subseteq Inputs /\ previous \subseteq Inputs
  /\ grind_request \in BOOLEAN
  /\ welded \subseteq Indexes /\ struck \subseteq Indexes

(* The variables keep their types; table_index may run one past the table.  *)
TypeOK == DriverTypeOK /\ ProgramTypeOK

IsWeld(i) == Entry(i).op = "WELD"

(* The head comes down only where the table says: the pedal goes down anew, *)
(* by DO6 or by DO7 while a lost release still holds DO6, only when the     *)
(* table really stands at the position entry before the WELD entry.         *)
WeldAtTarget == [][Pressed' /\ ~Pressed => phys = WeldTarget]_vars

(* table_index leaves a position entry, by the main path or by a recovery,  *)
(* only when the table has really reached that position.                    *)
AdvanceAtTarget ==
  [][table_index' = table_index + 1 /\ table_index \in Indexes
       /\ Entry(table_index).op = "MOVE" => phys = MoveTarget]_vars

(* No welding point is passed over: every WELD entry before table_index has *)
(* an OK result of this cycle.                                              *)
NoPointSkipped ==
  \A i \in Indexes : i < table_index /\ IsWeld(i) => i \in welded

(* The point the supervisor is asked to confirm (welding_position + 1) is   *)
(* the point that will be welded next when the recovery resumes the table.  *)
RestartNumber ==
  at = "authorization" /\ context.ret = "PROCESS_COMMAND" =>
    welding_position
      = Cardinality({i \in Indexes : i < table_index /\ IsWeld(i)})

(* A weld that was made is not made again on the same point of a battery.   *)
FiresOnce == [][Pressed' /\ ~Pressed => table_index \notin struck]_vars

(* The program is a welding cycle as WeldingCycle promises it.              *)
Cycle == INSTANCE WeldingCycle WITH
           Points <- {i \in Indexes : IsWeld(i)},
           firing <- IF at = "stepping_contact" \/ waiting
                     THEN table_index ELSE -1
CycleSpec == Cycle!Spec

(* While the operator grinds (phase 2) the table stands at GRIND_POSITION.  *)
GroundAtGrind ==
  state = "GRINDING" /\ context.phase = 2 => phys = Grind

(* A recovery does not last forever, and ...                                *)
RecoveryEnds ==
  state = "EMERGENCY_HANDLING" ~>
    (state # "EMERGENCY_HANDLING" \/ at = "crashed")

(* ... every started cycle ends in INIT (or with the program).              *)
CycleEnds == state = "START" ~> (state = "INIT" \/ at = "crashed")
=============================================================================
