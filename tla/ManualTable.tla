---------------------------- MODULE ManualTable ----------------------------
(***************************************************************************)
(* The manual welding program of the XY table: the operator presses the    *)
(* pedal of the welding machine, and the electrodes may be ground at any   *)
(* position.  It differs from TableMachine where the operator takes part:  *)
(*   - the pedal stays enabled (DO7) while the operator may weld, and the  *)
(*     program learns of a weld by the toggle bits only;                   *)
(*   - START lets the operator choose between MOVE and GRIND, and is a     *)
(*     place a recovery returns to;                                        *)
(*   - no thread raises _power_was_cut (emergency of StageDriver): only a  *)
(*     command does, and an answer without digits ends the program.        *)
(***************************************************************************)
EXTENDS StageDriver, Sequences, FiniteSets

CONSTANTS
  Table,         \* POSITIONS_OF_PART
  Unload,        \* UNLOAD_POSITION
  Grind,         \* GRIND_POSITION
  Shifts,        \* the sets of troubles that may come together
  Exposed,       \* which stage trouble may strike in which machine state
  Habits         \* what the operator does with the pedal: subset of HabitKinds

States == {"HOMING", "INIT", "START", "MOVE_NEXT_COMMAND", "PROCESS_COMMAND",
           "WAIT_WELDING_DONE", "CHECK_WELD_RESULT", "ERROR_WELD",
           "EMERGENCY_HANDLING", "GRINDING"}

StageTroubles == {"cut", "idle_cut", "error", "garbled", "empty"}
Troubles == StageTroubles \cup
              {"curtain", "grind", "sticky", "reject", "no_verdict", "denied"}

(* The operator welds before the program number is read back ("early"), or  *)
(* again before the program has taken the verdict ("twice").                *)
HabitKinds == {"early", "twice"}

Entries == [op : {"MOVE"}, to : Position]
             \cup [op : {"WELD", "USER", "PAUSE"}, to : {HomePosition}]

(* table_of_positions counts from 0. *)
Entry(i) == Table[i + 1]
Indexes == 0 .. Len(Table) - 1
Is(op, i) == i \in Indexes /\ Entry(i).op = op

(* A WELD comes right after its position, a USER after a WELD, or after the *)
(* position where the battery is flipped (index 64 in the program).         *)
ASSUME ManualAssumption ==
  /\ Table \in Seq(Entries) /\ Table # <<>>
  /\ Is("MOVE", 0) /\ Is("MOVE", Len(Table) - 1)
  /\ \A i \in Indexes \ {0} :
       /\ Is("WELD", i) => Is("MOVE", i - 1)
       /\ Is("USER", i) => Is("WELD", i - 1) \/ Is("MOVE", i - 1)
  /\ Unload \in Position /\ Grind \in Position
  /\ Shifts \subseteq SUBSET Troubles
  /\ Exposed \subseteq StageTroubles \X States
  /\ Habits \subseteq HabitKinds

VARIABLES
  state,            \* state_of_machine
  at,               \* where table_state_machine waits, "loop" between calls
  table_index,
  welding_position,
  context,          \* xy_table._recovery_context
  pedal,            \* DO7, enables the welding machine's pedal input
  curtain,          \* the light curtain is clear (not DI3)
  grind_request,    \* grind_request_event
  program,          \* the entry whose program number the machine has
  head,             \* the welding head: "up" or "weld"
  news,             \* the toggle bits differ from those last seen
  level,            \* the level bits of the last weld
  point,            \* history: the entry the last weld was made for
  welded,           \* history: entries of this cycle with an OK result
  shift             \* which troubles come in this behaviour

progVars == <<state, at, table_index, welding_position, context, welded>>
weldVars == <<pedal, program, head, news, level, point>>
envVars  == <<curtain, grind_request, shift>>
vars == <<driverVars, progVars, weldVars, envVars>>

NoContext == [target |-> HomePosition, ret |-> "NONE", phase |-> 0,
              advance |-> FALSE]
Context(t, r, adv) == [target |-> t, ret |-> r, phase |-> 0, advance |-> adv]

Pauses == {"homing_button", "start_button", "program", "authorization",
           "restart_button"}
Places == Pauses \cup
  {"boot", "boot_home", "loop", "crashed", "homing_ping", "homing_read",
   "homing_home", "start_ping", "start_read", "next_print", "next_ping",
   "weld_ping", "move_ping", "sticky_log", "move_goto", "move_verify",
   "wait_ping", "unload_goto", "emergency_home", "emergency_goto",
   "emergency_verify", "grind_goto", "return_goto", "return_verify"}

-----------------------------------------------------------------------------
(* Building blocks. *)

Trouble(f) == f \in shift /\ Disturb

Called(s) == at = "loop" /\ state = s /\ curtain   \* by the main loop
Back(p)   == at = p /\ call = "idle"               \* the driver has returned
Button(p) == at = p /\ curtain                     \* MOVE is pressed

Next_(s)  == state' = s /\ at' = "loop"
Stay      == UNCHANGED state /\ at' = "loop"
WaitAt(p) == UNCHANGED state /\ at' = p
Crash     == WaitAt("crashed")

KeepDriver == UNCHANGED driverVars
KeepStage  == UNCHANGED <<power, phys, counter, cached, lost, faults>>
KeepCall   == UNCHANGED <<call, axis, goal, ok, seen>>
KeepFlag   == UNCHANGED <<power, phys, counter, cached, emergency, lost>> /\ KeepCall
KeepIndex  == UNCHANGED <<table_index, welding_position, welded>>
KeepWeld   == UNCHANGED weldVars
KeepEnv    == UNCHANGED envVars
KeepHead   == UNCHANGED <<head, level, point>>
KeepCurtain == UNCHANGED <<curtain, shift>>

ClearAndHome    == emergency' = FALSE /\ StartHome /\ KeepStage
ClearAndGoto(t) == emergency' = FALSE /\ StartGoto(t) /\ KeepStage
Reading         == StartRead /\ KeepStage /\ UNCHANGED emergency
Pinging         == StartPing /\ KeepStage /\ UNCHANGED emergency

(* is_position_close_to raises ValueError on a tuple that misses an axis. *)
Verified(t) == seen = t

Pedal(on) == pedal' = on /\ UNCHANGED <<program, news>> /\ KeepHead

(* The states that call is_connected() before anything else. *)
Asking == [HOMING |-> "homing_ping", START |-> "start_ping",
           MOVE_NEXT_COMMAND |-> "next_print", WAIT_WELDING_DONE |-> "wait_ping"]

AskConnected ==
  /\ at = "loop" /\ curtain
  /\ \/ state \in DOMAIN Asking /\ WaitAt(Asking[state])
     \/ /\ state = "PROCESS_COMMAND"
        /\ \/ Is("WELD", table_index) /\ WaitAt("weld_ping")
           \/ Is("MOVE", table_index) /\ WaitAt("move_ping")
  /\ Pinging
  /\ KeepIndex /\ KeepWeld /\ KeepEnv /\ UNCHANGED context

-----------------------------------------------------------------------------
(* Start of the program, HOMING and INIT. *)

Boot ==
  /\ Button("boot")
  /\ StartHome /\ KeepStage /\ UNCHANGED emergency
  /\ WaitAt("boot_home")
  /\ KeepIndex /\ KeepWeld /\ KeepEnv /\ UNCHANGED context

BootHomed ==
  /\ Back("boot_home") /\ Stay
  /\ KeepDriver /\ KeepIndex /\ KeepWeld /\ KeepEnv /\ UNCHANGED context

HomingPinged ==
  /\ Back("homing_ping")
  /\ IF ok THEN Reading /\ WaitAt("homing_read") ELSE KeepDriver /\ Stay
  /\ KeepIndex /\ KeepWeld /\ KeepEnv /\ UNCHANGED context

HomingRead ==
  /\ Back("homing_read")
  /\ IF ok /\ seen = HomePosition THEN Next_("INIT") ELSE WaitAt("homing_button")
  /\ KeepDriver /\ KeepIndex /\ KeepWeld /\ KeepEnv /\ UNCHANGED context

HomingMove ==
  /\ Button("homing_button")
  /\ context' = Context(HomePosition, "INIT", FALSE)
  /\ ClearAndHome /\ WaitAt("homing_home")
  /\ KeepIndex /\ KeepWeld /\ KeepEnv

HomingDone ==
  /\ Back("homing_home")
  /\ Next_(IF emergency THEN "EMERGENCY_HANDLING" ELSE "INIT")
  /\ KeepDriver /\ KeepIndex /\ KeepWeld /\ KeepEnv /\ UNCHANGED context

Scan ==
  /\ Called("INIT")
  /\ table_index' = -1 /\ welding_position' = 0 /\ welded' = {}
  /\ Next_("START")
  /\ KeepDriver /\ KeepWeld /\ KeepEnv /\ UNCHANGED context

-----------------------------------------------------------------------------
(* START: the operator goes on or asks for grinding. *)

StartPinged ==
  /\ Back("start_ping")
  /\ IF ok THEN Reading /\ WaitAt("start_read") ELSE KeepDriver /\ Stay
  /\ KeepIndex /\ KeepWeld /\ KeepEnv /\ UNCHANGED context

(* Where the table stands while the program asks the operator. *)
StandsAt(i) == IF i = -1 THEN HomePosition
               ELSE IF Is("MOVE", i - 1) THEN Entry(i - 1).to
               ELSE Entry(i - 2).to

StartRead_ ==
  /\ Back("start_read")
  /\ context' = Context(StandsAt(table_index), "START", FALSE)
  /\ WaitAt("start_button")
  /\ KeepDriver /\ KeepIndex /\ KeepWeld /\ KeepEnv

StartMove ==
  /\ Button("start_button")
  /\ Next_(IF emergency THEN "EMERGENCY_HANDLING" ELSE "MOVE_NEXT_COMMAND")
  /\ KeepDriver /\ KeepIndex /\ KeepWeld /\ KeepEnv /\ UNCHANGED context

(* The watchdog may not have seen the press yet: then START asks again.     *)
StartGrind ==
  /\ Button("start_button") /\ "grind" \in shift
  /\ IF grind_request THEN Next_("GRINDING") ELSE Stay
  /\ grind_request' = FALSE
  /\ KeepDriver /\ KeepIndex /\ KeepWeld /\ KeepCurtain /\ UNCHANGED context

-----------------------------------------------------------------------------
(* MOVE_NEXT_COMMAND *)

MoveNextPrinted ==
  /\ Back("next_print")
  /\ Pinging /\ WaitAt("next_ping")
  /\ KeepIndex /\ KeepWeld /\ KeepEnv /\ UNCHANGED context

StateAt(i) == IF i >= Len(Table) THEN "INIT" ELSE "PROCESS_COMMAND"

MoveNextPinged ==
  /\ Back("next_ping")
  /\ IF ok
     THEN table_index' = table_index + 1 /\ Next_(StateAt(table_index + 1))
     ELSE UNCHANGED table_index /\ Stay
  /\ KeepDriver /\ KeepWeld /\ KeepEnv
  /\ UNCHANGED <<context, welding_position, welded>>

-----------------------------------------------------------------------------
(* PROCESS_COMMAND *)

(* table_of_positions[table_index] raises IndexError. *)
ProcessPastTable ==
  /\ Called("PROCESS_COMMAND") /\ table_index \notin Indexes
  /\ Crash
  /\ KeepDriver /\ KeepIndex /\ KeepWeld /\ KeepEnv /\ UNCHANGED context

Follows == [PAUSE |-> "MOVE_NEXT_COMMAND", USER |-> "START"]

ProcessCommand ==
  /\ Called("PROCESS_COMMAND")
  /\ \E op \in DOMAIN Follows : Is(op, table_index) /\ Next_(Follows[op])
  /\ KeepDriver /\ KeepIndex /\ KeepWeld /\ KeepEnv /\ UNCHANGED context

MoveTarget == Entry(table_index).to
WeldTarget == Entry(table_index - 1).to
WeldContext == Context(WeldTarget, "PROCESS_COMMAND", FALSE)

(* The pedal is enabled before the program number is written.               *)
WeldPinged ==
  /\ Back("weld_ping")
  /\ context' = WeldContext
  /\ Pedal(ok)
  /\ welding_position' = IF ok THEN welding_position + 1 ELSE welding_position
  /\ IF ok THEN WaitAt("program") ELSE Next_("EMERGENCY_HANDLING")
  /\ KeepDriver /\ KeepEnv /\ UNCHANGED <<table_index, welded>>

ProgramSet ==
  /\ at = "program"
  /\ program' = table_index
  /\ Next_("WAIT_WELDING_DONE")
  /\ KeepDriver /\ KeepIndex /\ KeepHead /\ KeepEnv
  /\ UNCHANGED <<context, pedal, news>>

(* grind_request_event, _power_was_cut and the electrode contact (DI4) are  *)
(* looked at in this order.                                                 *)
MovePinged ==
  /\ Back("move_ping")
  /\ IF ok THEN context' = Context(MoveTarget, "PROCESS_COMMAND", TRUE)
           ELSE UNCHANGED context
  /\ grind_request' = (grind_request /\ ~ok)
  /\ \/ ~ok /\ Stay /\ KeepDriver /\ KeepWeld
     \/ ok /\ grind_request /\ Next_("GRINDING") /\ KeepDriver /\ KeepWeld
     \/ /\ ok /\ ~grind_request /\ emergency
        /\ Next_("EMERGENCY_HANDLING") /\ KeepDriver /\ KeepWeld
     \/ /\ ok /\ ~grind_request /\ ~emergency
        /\ Trouble("sticky") /\ Pedal(FALSE)
        /\ StartRead /\ WaitAt("sticky_log")
        /\ UNCHANGED <<power, phys, counter, cached, lost, emergency>>
     \/ /\ ok /\ ~grind_request /\ ~emergency
        /\ ClearAndGoto(MoveTarget) /\ WaitAt("move_goto") /\ KeepWeld
  /\ KeepIndex /\ KeepCurtain

(* log_event takes both positions of the tuple, unless it is empty. *)
StickyLogged ==
  /\ Back("sticky_log")
  /\ IF Omitted \in {{}, Axes} THEN Next_("GRINDING") ELSE Crash
  /\ KeepDriver /\ KeepIndex /\ KeepWeld /\ KeepEnv /\ UNCHANGED context

MoveDone ==
  /\ Back("move_goto")
  /\ IF ok THEN Reading /\ WaitAt("move_verify")
           ELSE Next_("EMERGENCY_HANDLING") /\ KeepDriver
  /\ KeepIndex /\ KeepWeld /\ KeepEnv /\ UNCHANGED context

MoveVerified ==
  /\ Back("move_verify")
  /\ IF ~ok THEN Crash /\ UNCHANGED table_index
     ELSE IF Verified(MoveTarget)
     THEN table_index' = table_index + 1 /\ Next_(StateAt(table_index + 1))
     ELSE UNCHANGED table_index /\ Stay
  /\ KeepDriver /\ KeepWeld /\ KeepEnv
  /\ UNCHANGED <<context, welding_position, welded>>

-----------------------------------------------------------------------------
(* WAIT_WELDING_DONE and CHECK_WELD_RESULT *)

WaitPingedCounts ==   \* mutant: welding_position is not taken back
  /\ Back("wait_ping")
  /\ context' = WeldContext
  /\ \/ ~ok /\ Next_("EMERGENCY_HANDLING") /\ Pedal(FALSE) /\ UNCHANGED grind_request
     \/ /\ ok /\ grind_request
        /\ Next_("GRINDING") /\ Pedal(FALSE) /\ grind_request' = FALSE
     \/ /\ ok /\ ~grind_request
        /\ IF news THEN Next_("CHECK_WELD_RESULT") ELSE Stay
        /\ pedal' = TRUE /\ news' = FALSE
        /\ KeepHead /\ UNCHANGED <<program, grind_request>>
  /\ KeepDriver /\ KeepCurtain /\ UNCHANGED <<table_index, welding_position, welded>>

WaitPinged ==
  /\ Back("wait_ping")
  /\ context' = WeldContext
  /\ \/ /\ ~ok /\ Next_("EMERGENCY_HANDLING") /\ KeepDriver
        /\ Pedal(FALSE) /\ welding_position' = welding_position - 1
        /\ UNCHANGED grind_request
     \/ /\ ok /\ grind_request
        /\ Next_("GRINDING") /\ KeepDriver
        /\ Pedal(FALSE) /\ welding_position' = welding_position - 1
        /\ grind_request' = FALSE
     \/ /\ ok /\ ~grind_request
        /\ Trouble("sticky") /\ StartRead /\ WaitAt("sticky_log")
        /\ UNCHANGED <<power, phys, counter, cached, lost, emergency>>
        /\ Pedal(FALSE) /\ welding_position' = welding_position - 1
        /\ UNCHANGED grind_request
     \/ /\ ok /\ ~grind_request
        /\ IF news THEN Next_("CHECK_WELD_RESULT") ELSE Stay
        /\ pedal' = TRUE /\ news' = FALSE
        /\ KeepHead /\ KeepDriver
        /\ UNCHANGED <<program, welding_position, grind_request>>
  /\ KeepCurtain /\ UNCHANGED <<table_index, welded>>

CheckResultPasses ==   \* mutant: a rejected weld is not unloaded
  /\ Called("CHECK_WELD_RESULT")
  /\ Next_(IF level = "neither" THEN "WAIT_WELDING_DONE" ELSE "MOVE_NEXT_COMMAND")
  /\ Pedal(level = "neither")
  /\ welded' = IF level = "ok" THEN welded \cup {table_index} ELSE welded
  /\ KeepDriver /\ KeepEnv
  /\ UNCHANGED <<table_index, welding_position, context>>

CheckResult ==
  /\ Called("CHECK_WELD_RESULT")
  /\ Next_(CASE level = "ok" -> "MOVE_NEXT_COMMAND"
             [] level = "reject" -> "ERROR_WELD"
             [] OTHER -> "WAIT_WELDING_DONE")
  /\ Pedal(level = "neither")
  /\ welded' = IF level = "ok" THEN welded \cup {table_index} ELSE welded
  /\ KeepDriver /\ KeepEnv
  /\ UNCHANGED <<table_index, welding_position, context>>

-----------------------------------------------------------------------------
(* ERROR_WELD and EMERGENCY_HANDLING: a password first. *)

AskSupervisor ==
  /\ Called("ERROR_WELD")
  /\ WaitAt("authorization")
  /\ KeepDriver /\ KeepIndex /\ KeepWeld /\ KeepEnv /\ UNCHANGED context

Denied ==
  /\ at = "authorization"
  /\ Trouble("denied")
  /\ Stay
  /\ KeepFlag /\ KeepIndex /\ KeepWeld /\ KeepEnv /\ UNCHANGED context

Unloading ==
  /\ Button("authorization") /\ state = "ERROR_WELD"
  /\ context' = Context(Unload, "INIT", FALSE)
  /\ ClearAndGoto(Unload) /\ WaitAt("unload_goto")
  /\ KeepIndex /\ KeepWeld /\ KeepEnv

Unloaded ==
  /\ Back("unload_goto")
  /\ Next_(IF emergency THEN "EMERGENCY_HANDLING" ELSE "INIT")
  /\ KeepDriver /\ KeepIndex /\ KeepWeld /\ KeepEnv /\ UNCHANGED context

Emergency ==
  /\ Called("EMERGENCY_HANDLING")
  /\ Pedal(FALSE)
  /\ IF context = NoContext
     THEN Next_("INIT") /\ UNCHANGED emergency
     ELSE emergency' = FALSE /\ WaitAt("authorization")
  /\ KeepStage /\ KeepCall /\ KeepIndex /\ KeepEnv /\ UNCHANGED context

Granted ==
  /\ Button("authorization") /\ state = "EMERGENCY_HANDLING"
  /\ StartHome /\ KeepStage /\ UNCHANGED emergency
  /\ WaitAt("emergency_home")
  /\ KeepIndex /\ KeepWeld /\ KeepEnv /\ UNCHANGED context

Recovered ==
  /\ table_index' = IF context.advance /\ context.phase = 0
                    THEN table_index + 1 ELSE table_index
  /\ context' = NoContext
  /\ Next_(context.ret)

EmergencyHomedAny ==   \* mutant: a failed homing ends the recovery
  /\ Back("emergency_home")
  /\ IF emergency
     THEN Stay /\ UNCHANGED <<table_index, context>>
     ELSE IF context.target = HomePosition
     THEN Recovered
     ELSE WaitAt("restart_button") /\ UNCHANGED <<table_index, context>>
  /\ KeepDriver /\ KeepWeld /\ KeepEnv /\ UNCHANGED <<welding_position, welded>>

EmergencyHomed ==
  /\ Back("emergency_home")
  /\ IF emergency \/ ~ok
     THEN Stay /\ UNCHANGED <<table_index, context>>
     ELSE IF context.target = HomePosition
     THEN Recovered
     ELSE WaitAt("restart_button") /\ UNCHANGED <<table_index, context>>
  /\ KeepDriver /\ KeepWeld /\ KeepEnv /\ UNCHANGED <<welding_position, welded>>

EmergencyMove ==
  /\ Button("restart_button")
  /\ ClearAndGoto(context.target) /\ WaitAt("emergency_goto")
  /\ KeepIndex /\ KeepWeld /\ KeepEnv /\ UNCHANGED context

EmergencyMoved ==
  /\ Back("emergency_goto")
  /\ IF emergency THEN Stay /\ KeepDriver
                  ELSE Reading /\ WaitAt("emergency_verify")
  /\ KeepIndex /\ KeepWeld /\ KeepEnv /\ UNCHANGED context

EmergencyVerified ==
  /\ Back("emergency_verify")
  /\ IF ~ok THEN Crash /\ UNCHANGED <<table_index, context>>
     ELSE IF Verified(context.target) THEN Recovered
     ELSE Stay /\ UNCHANGED <<table_index, context>>
  /\ KeepDriver /\ KeepWeld /\ KeepEnv /\ UNCHANGED <<welding_position, welded>>

-----------------------------------------------------------------------------
(* GRINDING *)

Phase(p) == Called("GRINDING") /\ context.phase = p
SetPhase(p) == context' = [context EXCEPT !.phase = p]

GrindPressed ==
  /\ \E p \in {0, 2} : Phase(p) /\
       IF context = NoContext
       THEN Next_("PROCESS_COMMAND") /\ UNCHANGED context
       ELSE grind_request /\ SetPhase(p + 1) /\ Stay
  /\ grind_request' = FALSE
  /\ KeepDriver /\ KeepIndex /\ KeepWeld /\ KeepCurtain

GrindMove ==
  /\ Phase(1)
  /\ ClearAndGoto(Grind) /\ WaitAt("grind_goto")
  /\ KeepIndex /\ KeepWeld /\ KeepEnv /\ UNCHANGED context

GrindReached ==
  /\ Back("grind_goto")
  /\ IF emergency
     THEN Next_("EMERGENCY_HANDLING") /\ UNCHANGED <<context, grind_request>>
     ELSE SetPhase(2) /\ grind_request' = FALSE /\ Stay
  /\ KeepDriver /\ KeepIndex /\ KeepWeld /\ KeepCurtain

ReturnMove ==
  /\ Phase(3)
  /\ ClearAndGoto(context.target) /\ WaitAt("return_goto")
  /\ KeepIndex /\ KeepWeld /\ KeepEnv /\ UNCHANGED context

Returned ==
  /\ Back("return_goto")
  /\ Reading /\ WaitAt("return_verify")
  /\ KeepIndex /\ KeepWeld /\ KeepEnv /\ UNCHANGED context

ReturnVerified ==
  /\ Back("return_verify")
  /\ IF ~ok THEN Crash /\ UNCHANGED context
     ELSE IF Verified(context.target)
     THEN context' = NoContext /\ Next_(context.ret)
     ELSE Stay /\ UNCHANGED context
  /\ KeepDriver /\ KeepIndex /\ KeepWeld /\ KeepEnv

-----------------------------------------------------------------------------
(* The main loop outside a call, the watchdog, the operator, the machines.  *)

LoopBlocked ==
  /\ at = "loop" /\ ~curtain /\ pedal
  /\ Pedal(FALSE)
  /\ KeepDriver /\ UNCHANGED progVars /\ KeepEnv

GrindWatchdog ==
  /\ "grind" \in shift /\ ~grind_request
  /\ grind_request' = TRUE
  /\ KeepDriver /\ UNCHANGED progVars /\ KeepWeld /\ KeepCurtain

CurtainBroken ==
  /\ curtain /\ Trouble("curtain")
  /\ curtain' = FALSE
  /\ KeepFlag /\ UNCHANGED progVars /\ KeepWeld
  /\ UNCHANGED <<grind_request, shift>>

CurtainClear ==
  /\ ~curtain /\ curtain' = TRUE
  /\ KeepDriver /\ UNCHANGED progVars /\ KeepWeld
  /\ UNCHANGED <<grind_request, shift>>

PressPedal ==
  /\ pedal /\ head = "up"
  /\ at # "program" \/ "early" \in Habits
  /\ (~news /\ state # "CHECK_WELD_RESULT") \/ "twice" \in Habits
  /\ head' = "weld" /\ point' = table_index /\ level' = "neither"
  /\ KeepDriver /\ UNCHANGED progVars /\ KeepEnv
  /\ UNCHANGED <<pedal, program, news>>

(* The toggle bits flip: a second flip takes the first one back.            *)
WeldEnds ==
  /\ head = "weld"
  /\ head' = "up" /\ news' = ~news
  /\ \/ level' = "ok" /\ UNCHANGED faults
     \/ Trouble("reject") /\ level' = "reject"
     \/ Trouble("no_verdict") /\ level' = "neither"
  /\ KeepFlag /\ UNCHANGED progVars /\ KeepEnv
  /\ UNCHANGED <<pedal, program, point>>

Outside == UNCHANGED progVars /\ KeepWeld /\ KeepEnv

Strikes(f) == f \in shift /\ <<f, state>> \in Exposed

CutUnderCommand == PowerCut /\ Strikes("cut") /\ Outside
CutWhileIdle    == IdleCut /\ at \in Pauses /\ Strikes("idle_cut") /\ Outside
DriverAnswer    == Answer /\ Outside
PowerBack       == PowerOn /\ Outside
RefusedCommand  == ErrorReply /\ Strikes("error") /\ Outside
NoisyReply      == GarbledReply /\ Strikes("garbled") /\ Outside

(* int('') raises ValueError, which command() does not catch.               *)
EmptyAnswer ==
  /\ Commanding /\ Strikes("empty") /\ Disturb
  /\ Crash /\ KeepFlag
  /\ KeepIndex /\ KeepWeld /\ KeepEnv /\ UNCHANGED context

-----------------------------------------------------------------------------

Init ==
  /\ DriverInit
  /\ state = "HOMING" /\ at = "boot"
  /\ table_index = -1 /\ welding_position = 0 /\ context = NoContext
  /\ welded = {}
  /\ pedal = FALSE /\ program = -1 /\ head = "up" /\ news = FALSE
  /\ level = "neither" /\ point = -1
  /\ curtain \in BOOLEAN /\ grind_request = FALSE
  /\ shift \in Shifts

Program ==
  \/ AskConnected
  \/ Boot \/ BootHomed \/ HomingPinged \/ HomingRead \/ HomingMove \/ HomingDone
  \/ Scan \/ StartPinged \/ StartRead_ \/ StartMove \/ StartGrind
  \/ MoveNextPrinted \/ MoveNextPinged
  \/ ProcessPastTable \/ ProcessCommand \/ WeldPinged \/ ProgramSet
  \/ MovePinged \/ StickyLogged \/ MoveDone \/ MoveVerified
  \/ WaitPinged \/ CheckResult
  \/ AskSupervisor \/ Denied \/ Unloading \/ Unloaded
  \/ Emergency \/ Granted \/ EmergencyHomed \/ EmergencyMove
  \/ EmergencyMoved \/ EmergencyVerified
  \/ GrindPressed \/ GrindMove \/ GrindReached \/ ReturnMove \/ Returned
  \/ ReturnVerified \/ LoopBlocked

World ==
  \/ GrindWatchdog \/ CurtainBroken \/ CurtainClear \/ PressPedal \/ WeldEnds
  \/ DriverAnswer \/ PowerBack \/ CutUnderCommand \/ CutWhileIdle
  \/ RefusedCommand \/ NoisyReply \/ EmptyAnswer

Next == Program \/ World

Spec == Init /\ [][Next]_vars

-----------------------------------------------------------------------------
(* Properties. *)

Contexts == [target : Position \cup {HomePosition},
             ret : {"NONE", "INIT", "START", "PROCESS_COMMAND"},
             phase : 0 .. 3, advance : BOOLEAN]

(* The variables keep their types: table_index may run one past the table,  *)
(* and welding_position counts no point that the table does not have.       *)
TypeOK ==
  /\ DriverTypeOK
  /\ state \in States /\ at \in Places
  /\ table_index \in -1 .. Len(Table)
  /\ welding_position \in 0 .. Len(Table)
  /\ context \in Contexts
  /\ welded \subseteq Indexes
  /\ pedal \in BOOLEAN /\ head \in {"up", "weld"} /\ news \in BOOLEAN
  /\ program \in -1 .. Len(Table) /\ point \in -1 .. Len(Table)
  /\ level \in {"ok", "reject", "neither"}
  /\ curtain \in BOOLEAN /\ grind_request \in BOOLEAN /\ shift \in Shifts

(* Whenever the pedal is enabled the program is at a WELD entry, the table  *)
(* really stands at its position, and once the number is read back the      *)
(* machine has the program of this entry: also when a recovery or a         *)
(* grinding came between, no press welds elsewhere or otherwise.            *)
PedalAtTarget ==
  pedal => /\ Is("WELD", table_index) /\ phys = WeldTarget
           /\ at = "program" \/ program = table_index

(* The point the supervisor is asked to confirm (welding_position + 1) is   *)
(* the point that is welded next when the recovery resumes the table.       *)
RestartNumber ==
  /\ at = "authorization" /\ state = "EMERGENCY_HANDLING"
  /\ context.ret \in {"START", "PROCESS_COMMAND"}
  => welding_position
       = Cardinality({i \in Indexes : i < table_index /\ Is("WELD", i)})

(* The manual program, too, is a welding cycle as WeldingCycle promises it: *)
(* a verdict is taken for the point that was welded, in the table's order.  *)
Cycle == INSTANCE WeldingCycle WITH
           Points <- {i \in Indexes : Is("WELD", i)},
           firing <- IF head = "weld" \/ news \/ state = "CHECK_WELD_RESULT"
                     THEN point ELSE -1
CycleSpec == Cycle!Spec
=============================================================================
