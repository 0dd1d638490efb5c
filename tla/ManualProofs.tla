---------------------------- MODULE ManualProofs ----------------------------
(***************************************************************************)
(* Proofs about ManualTable, for every table, every number of axes, every  *)
(* set of troubles, whatever the stage answers.                            *)
(*                                                                         *)
(* The control of the program does not rest on what the driver returns:    *)
(* ok, seen and emergency are taken as they come.                          *)
(***************************************************************************)
EXTENDS ManualTable, FiniteSetTheorems, TLAPS

-----------------------------------------------------------------------------
(* The inductive invariant. *)

ProgramTyped ==
  /\ state \in States /\ at \in Places
  /\ table_index \in -1 .. Len(Table)
  /\ context \in Contexts
  /\ welded \subseteq Indexes

(* Which machine state each place inside a call belongs to. *)
PlaceOf ==
  /\ at \in {"boot", "boot_home", "homing_ping", "homing_read",
             "homing_button", "homing_home"} => state = "HOMING"
  /\ at \in {"start_ping", "start_read", "start_button"} => state = "START"
  /\ at \in {"next_print", "next_ping"} => state = "MOVE_NEXT_COMMAND"
  /\ at \in {"weld_ping", "program", "move_ping", "move_goto", "move_verify"}
       => state = "PROCESS_COMMAND"
  /\ at = "sticky_log" => state \in {"PROCESS_COMMAND", "WAIT_WELDING_DONE"}
  /\ at = "wait_ping" => state = "WAIT_WELDING_DONE"
  /\ at = "unload_goto" => state = "ERROR_WELD"
  /\ at = "authorization" => state \in {"ERROR_WELD", "EMERGENCY_HANDLING"}
  /\ at \in {"restart_button", "emergency_home", "emergency_goto",
             "emergency_verify"} => state = "EMERGENCY_HANDLING"
  /\ at \in {"grind_goto", "return_goto", "return_verify"}
       => state = "GRINDING"

(* Where the program asks the operator: before the table, or on a USER.     *)
AtUser == table_index = -1 \/ Is("USER", table_index)

IndexOf ==
  /\ state = "HOMING" => table_index = -1
  /\ state = "START" => AtUser
  /\ state = "MOVE_NEXT_COMMAND" =>
       table_index = -1 \/ (table_index \in Indexes /\ ~Is("MOVE", table_index))
  /\ state = "PROCESS_COMMAND" => table_index \in 0 .. Len(Table)
  /\ at \in {"weld_ping", "program"} => Is("WELD", table_index)
  /\ at \in {"move_ping", "move_goto", "move_verify"} => Is("MOVE", table_index)
  /\ state \in {"WAIT_WELDING_DONE", "CHECK_WELD_RESULT", "ERROR_WELD"}
       => Is("WELD", table_index)

(* The recovery context names the entry the recovery resumes at. *)
ToMove == context.ret = "PROCESS_COMMAND" /\ context.advance
            /\ Is("MOVE", table_index)
ToWeld == context.ret = "PROCESS_COMMAND" /\ ~context.advance
            /\ Is("WELD", table_index)
ToStart == context.ret = "START" /\ ~context.advance /\ AtUser
ToInit == context.ret = "INIT" /\ ~context.advance

ContextOf ==
  /\ at \in {"move_goto", "move_verify"} => ToMove
  /\ at = "sticky_log" => ToMove \/ ToWeld
  /\ at = "start_button" => ToStart
  /\ at \in {"homing_home", "unload_goto"} => ToInit
  /\ state = "EMERGENCY_HANDLING" => ToMove \/ ToWeld \/ ToStart \/ ToInit
  /\ state = "GRINDING" => ToMove \/ ToWeld \/ ToStart

(* The pedal is enabled at a WELD entry only. *)
PedalOf ==
  pedal => \/ state = "PROCESS_COMMAND" /\ at \in {"program", "crashed"}
                /\ Is("WELD", table_index)
           \/ at # "sticky_log"
                /\ state \in {"WAIT_WELDING_DONE", "CHECK_WELD_RESULT"}

ControlInv == ProgramTyped /\ PlaceOf /\ IndexOf /\ ContextOf /\ PedalOf

(* A weld in progress, and a verdict not taken yet, belong to the entry at  *)
(* table_index, and the program does not leave the entry without it.        *)
Underway == head = "weld" \/ news \/ state = "CHECK_WELD_RESULT"

WeldOf ==
  /\ head = "weld" => ~news
  /\ state = "CHECK_WELD_RESULT" => ~news /\ head # "weld"
  /\ Underway =>
       /\ point = table_index /\ Is("WELD", table_index)
       /\ \/ state \in {"PROCESS_COMMAND", "WAIT_WELDING_DONE",
                        "CHECK_WELD_RESULT"}
          \/ state \in {"EMERGENCY_HANDLING", "GRINDING"} /\ ToWeld

(* The OK results are those of the WELD entries passed.                     *)
Passed(i) == i < table_index \/ (state = "MOVE_NEXT_COMMAND" /\ i = table_index)
WeldedOf == \A i \in Indexes : (Is("WELD", i) /\ Passed(i)) <=> i \in welded

(* welding_position counts the WELD entries before table_index, and the     *)
(* entry itself from the moment the pedal is enabled for it.                *)
Before(i) == {j \in Indexes : j < i /\ Is("WELD", j)}

Counting ==
  \/ at = "program"
  \/ at # "sticky_log" /\ state \in {"WAIT_WELDING_DONE", "CHECK_WELD_RESULT",
                                     "ERROR_WELD"}
  \/ state = "MOVE_NEXT_COMMAND" /\ Is("WELD", table_index)

Counted ==
  at = "crashed" \/ state = "INIT"
    \/ (state = "EMERGENCY_HANDLING" /\ context.ret = "INIT")
    \/ welding_position = Cardinality(Before(table_index))
                            + (IF Counting THEN 1 ELSE 0)

-----------------------------------------------------------------------------
(* The table. *)

LEMMA TableFacts ==
  /\ Len(Table) \in Nat \ {0}
  /\ Indexes = 0 .. Len(Table) - 1
  /\ \A op, i : Is(op, i) => i \in Indexes
<1>1. Len(Table) \in Nat /\ Len(Table) # 0
  BY ManualAssumption
<1> QED BY <1>1 DEF Indexes, Is

(* A WELD is neither the first nor the last entry, and stands right after   *)
(* its position; where the operator is asked the position is known, too.    *)
LEMMA EntryFacts ==
  ASSUME NEW i \in Indexes
  PROVE  /\ Entry(i).op \in {"MOVE", "WELD", "USER", "PAUSE"}
         /\ \A op : Is(op, i) <=> Entry(i).op = op
         /\ Is("MOVE", i) => Entry(i).to \in Position
         /\ Is("WELD", i) => i - 1 \in Indexes /\ Is("MOVE", i - 1)
         /\ ~Is("MOVE", i) => i + 1 \in Indexes
         /\ Is("USER", i) => Is("MOVE", i - 1)
                             \/ (Is("WELD", i - 1) /\ Is("MOVE", i - 2))
<1>1. Len(Table) \in Nat /\ i \in Nat /\ i + 1 \in 1 .. Len(Table)
  BY TableFacts
<1>2. Table[i + 1] \in Entries
  BY <1>1, ManualAssumption
<1>3. /\ Entry(i).op \in {"MOVE", "WELD", "USER", "PAUSE"}
      /\ Entry(i).op = "MOVE" => Entry(i).to \in Position
  BY <1>2 DEF Entry, Entries
<1>4. \A op : Is(op, i) <=> Entry(i).op = op
  BY DEF Is
<1>5. ASSUME ~Is("MOVE", i)
      PROVE  i # 0 /\ i # Len(Table) - 1 /\ i + 1 \in Indexes
  <2>1. i # 0 /\ i # Len(Table) - 1
    BY <1>5, ManualAssumption
  <2> QED BY <1>1, <2>1, TableFacts
<1>6. ASSUME Is("WELD", i) PROVE i - 1 \in Indexes /\ Is("MOVE", i - 1)
  <2>1. i # 0
    BY <1>4, <1>5, <1>6
  <2>2. Is("MOVE", i - 1)
    BY <1>6, <2>1, ManualAssumption
  <2> QED BY <2>2, TableFacts
<1>7. ASSUME Is("USER", i)
      PROVE  Is("MOVE", i - 1) \/ (Is("WELD", i - 1) /\ Is("MOVE", i - 2))
  <2>1. i # 0
    BY <1>4, <1>5, <1>7
  <2>2. Is("WELD", i - 1) \/ Is("MOVE", i - 1)
    BY <1>7, <2>1, ManualAssumption
  <2>3. ASSUME Is("WELD", i - 1) PROVE Is("MOVE", i - 2)
    <3>1. i - 1 \in Indexes
      BY <2>3, TableFacts
    <3>2. i - 1 # 0
      BY <2>3, ManualAssumption DEF Is
    <3>3. Is("MOVE", i - 1 - 1)
      BY <2>3, <3>1, <3>2, ManualAssumption
    <3>4. i - 1 - 1 = i - 2
      BY <1>1
    <3> QED BY <3>3, <3>4
  <2> QED BY <2>2, <2>3
<1> QED BY <1>3, <1>4, <1>5, <1>6, <1>7

-----------------------------------------------------------------------------
(* Types and control. *)

USE DEF Called, Back, Button, Next_, Stay, WaitAt, KeepDriver, KeepEnv,
        KeepIndex, KeepWeld, KeepHead, KeepCurtain, Crash, Pedal, progVars,
        weldVars, envVars

(* Contexts are records of the recovery context's four fields. *)
LEMMA ContextFacts ==
  /\ NoContext \in Contexts
  /\ \A t \in Position \cup {HomePosition},
        r \in {"INIT", "START", "PROCESS_COMMAND"}, b \in BOOLEAN :
        /\ Context(t, r, b) \in Contexts
        /\ Context(t, r, b).ret = r
        /\ Context(t, r, b).advance = b
        /\ Context(t, r, b).phase = 0
  /\ \A c \in Contexts, p \in 0 .. 3 :
        /\ [c EXCEPT !.phase = p] \in Contexts
        /\ [c EXCEPT !.phase = p].ret = c.ret
        /\ [c EXCEPT !.phase = p].advance = c.advance
        /\ [c EXCEPT !.phase = p].target = c.target
  BY DEF Contexts, Context, NoContext

LEMMA TargetTyped ==
  /\ Is("MOVE", table_index) => MoveTarget \in Position
  /\ Is("WELD", table_index) => WeldTarget \in Position
  /\ AtUser => StandsAt(table_index) \in Position \cup {HomePosition}
<1>1. ASSUME Is("MOVE", table_index) PROVE MoveTarget \in Position
  BY <1>1, TableFacts, EntryFacts DEF MoveTarget
<1>2. ASSUME Is("WELD", table_index) PROVE WeldTarget \in Position
  <2>1. Is("MOVE", table_index - 1)
    BY <1>2, TableFacts, EntryFacts
  <2> QED BY <2>1, TableFacts, EntryFacts DEF WeldTarget
<1>3. ASSUME AtUser
      PROVE  StandsAt(table_index) \in Position \cup {HomePosition}
  <2>1. CASE table_index = -1
    BY <2>1 DEF StandsAt
  <2>2. CASE Is("USER", table_index)
    <3>1. table_index \in Indexes /\ table_index # -1
      BY <2>2, TableFacts
    <3>2. \/ Is("MOVE", table_index - 1)
          \/ ~Is("MOVE", table_index - 1) /\ Is("MOVE", table_index - 2)
      BY <2>2, <3>1, EntryFacts
    <3>3. \A j : Is("MOVE", j) => Entry(j).to \in Position
      BY TableFacts, EntryFacts
    <3> QED BY <3>1, <3>2, <3>3 DEF StandsAt
  <2> QED BY <1>3, <2>1, <2>2 DEF AtUser
<1> QED BY <1>1, <1>2, <1>3

(* The place is_connected() is called from belongs to the machine state.    *)
LEMMA AskedPlaces ==
  ASSUME AskConnected
  PROVE  /\ \/ state = "HOMING" /\ at' = "homing_ping"
            \/ state = "START" /\ at' = "start_ping"
            \/ state = "MOVE_NEXT_COMMAND" /\ at' = "next_print"
            \/ state = "WAIT_WELDING_DONE" /\ at' = "wait_ping"
            \/ /\ state = "PROCESS_COMMAND"
               /\ \/ Is("WELD", table_index) /\ at' = "weld_ping"
                  \/ Is("MOVE", table_index) /\ at' = "move_ping"
         /\ at = "loop" /\ state' = state /\ UNCHANGED context
         /\ KeepIndex /\ KeepWeld /\ KeepEnv
<1>1. ASSUME state \in DOMAIN Asking, at' = Asking[state]
      PROVE  \/ state = "HOMING" /\ at' = "homing_ping"
             \/ state = "START" /\ at' = "start_ping"
             \/ state = "MOVE_NEXT_COMMAND" /\ at' = "next_print"
             \/ state = "WAIT_WELDING_DONE" /\ at' = "wait_ping"
  BY <1>1 DEF Asking
<1> QED BY <1>1 DEF AskConnected

(* The recovery context stays one, whatever the program does. *)
LEMMA ContextTyped ==
  ASSUME ControlInv, Program
  PROVE  context' \in Contexts
<1> USE DEF ControlInv, IndexOf
<1>0. context \in Contexts
  BY DEF ProgramTyped
<1>1. HomePosition \in Position \cup {HomePosition}
  OBVIOUS
<1>2. Is("WELD", table_index) => WeldContext \in Contexts
  BY TargetTyped, ContextFacts DEF WeldContext
<1>3. CASE HomingMove
  BY <1>1, <1>3, ContextFacts DEF HomingMove
<1>4. CASE StartRead_
  <2>1. AtUser
    BY <1>4 DEF StartRead_, PlaceOf
  <2>2. StandsAt(table_index) \in Position \cup {HomePosition}
    BY <2>1, TargetTyped
  <2> QED BY <1>4, <2>2, ContextFacts DEF StartRead_
<1>5. CASE WeldPinged \/ WaitPinged
  <2>1. Is("WELD", table_index)
    BY <1>5 DEF WeldPinged, WaitPinged, PlaceOf
  <2> QED BY <1>2, <1>5, <2>1 DEF WeldPinged, WaitPinged
<1>6. CASE MovePinged
  <2>1. MoveTarget \in Position
    BY <1>6, TargetTyped DEF MovePinged
  <2>2. Context(MoveTarget, "PROCESS_COMMAND", TRUE) \in Contexts
    BY <2>1, ContextFacts
  <2> QED BY <1>0, <1>6, <2>2 DEF MovePinged
<1>7. CASE Unloading
  BY <1>7, ManualAssumption, ContextFacts DEF Unloading
<1>8. CASE EmergencyHomed \/ EmergencyVerified \/ ReturnVerified
  BY <1>0, <1>8, ContextFacts
     DEF EmergencyHomed, EmergencyVerified, ReturnVerified, Recovered
<1>9. CASE GrindPressed \/ GrindReached
  <2>1. \A p \in 0 .. 3 : [context EXCEPT !.phase = p] \in Contexts
    BY <1>0, ContextFacts
  <2>2. \A p \in {0, 2} : p + 1 \in 0 .. 3
    OBVIOUS
  <2> QED BY <1>0, <1>9, <2>1, <2>2 DEF GrindPressed, GrindReached, SetPhase
<1>10. CASE ~(HomingMove \/ StartRead_ \/ WeldPinged \/ WaitPinged
                \/ MovePinged \/ Unloading \/ EmergencyHomed
                \/ EmergencyVerified \/ ReturnVerified \/ GrindPressed
                \/ GrindReached)
  <2>1. context' = context
    BY <1>10 DEF Program, AskConnected, Boot, BootHomed, HomingPinged,
       HomingRead, HomingDone, Scan, StartPinged, StartMove, StartGrind,
       MoveNextPrinted, MoveNextPinged, ProcessPastTable, ProcessCommand,
       ProgramSet, StickyLogged, MoveDone, MoveVerified, CheckResult,
       AskSupervisor, Denied, Unloaded, Emergency, Granted, EmergencyMove,
       EmergencyMoved, GrindMove, ReturnMove, Returned, LoopBlocked
  <2> QED BY <1>0, <2>1
<1> QED BY <1>3, <1>4, <1>5, <1>6, <1>7, <1>8, <1>9, <1>10

(* A recovery resumes at the same entry whatever the phase of the grinding. *)
LEMMA PhaseKeeps ==
  ASSUME ControlInv, GrindPressed \/ GrindReached
  PROVE  /\ state = "GRINDING" /\ context # NoContext
         /\ context'.ret = context.ret /\ context'.advance = context.advance
         /\ context'.target = context.target
<1>1. context \in Contexts
  BY DEF ControlInv, ProgramTyped
<1>2. state = "GRINDING" /\ (ToMove \/ ToWeld \/ ToStart)
  BY DEF ControlInv, PlaceOf, ContextOf, GrindPressed, GrindReached, Phase
<1>3. context # NoContext
  BY <1>2 DEF NoContext, ToMove, ToWeld, ToStart
<1>4. 0 + 1 \in 0 .. 3 /\ 2 + 1 \in 0 .. 3 /\ 2 \in 0 .. 3
  OBVIOUS
<1>5. \/ context' = context
      \/ \E p \in 0 .. 3 : context' = [context EXCEPT !.phase = p]
  <2>1. CASE GrindPressed
    <3>1. PICK p \in {0, 2} : context' = context \/ SetPhase(p + 1)
      BY <2>1 DEF GrindPressed
    <3> QED BY <1>4, <3>1 DEF SetPhase
  <2>2. CASE GrindReached
    BY <1>4, <2>2 DEF GrindReached, SetPhase
  <2> QED BY <2>1, <2>2
<1>6. CASE context' = context
  BY <1>2, <1>3, <1>6
<1>7. CASE \E p \in 0 .. 3 : context' = [context EXCEPT !.phase = p]
  <2>1. PICK p \in 0 .. 3 : context' = [context EXCEPT !.phase = p]
    BY <1>7
  <2>2. /\ context'.ret = context.ret /\ context'.advance = context.advance
        /\ context'.target = context.target
    BY <2>1, <1>1, ContextFacts
  <2> QED BY <1>2, <1>3, <2>2
<1> QED BY <1>5, <1>6, <1>7

(* Each operation of the program keeps the control invariant. *)
LEMMA ProgramStep ==
  ASSUME ControlInv, Program
  PROVE  ControlInv'
<1> USE EntryFacts, TableFacts
        DEF ControlInv, ProgramTyped, PlaceOf, IndexOf, ContextOf, PedalOf,
            ToMove, ToWeld, ToStart, ToInit, AtUser, States, Places, Pauses
<1>0. context' \in Contexts
  BY ContextTyped
<1>1. CASE AskConnected
  <2>1. ProgramTyped'
    <3>1. at' \in Places
      BY <1>1, AskedPlaces
    <3> QED BY <1>0, <1>1, <3>1, AskedPlaces DEF AskConnected
  <2>2. PlaceOf'
    BY <1>1, AskedPlaces
  <2>3. IndexOf'
    BY <1>1, AskedPlaces
  <2>4. ContextOf'
    BY <1>1, AskedPlaces
  <2>5. PedalOf'
    BY <1>1, AskedPlaces
  <2> QED BY <2>1, <2>2, <2>3, <2>4, <2>5
<1>2. CASE Boot
  BY <1>0, <1>2 DEF Boot
<1>3. CASE BootHomed
  BY <1>0, <1>3 DEF BootHomed
<1>4. CASE HomingPinged
  BY <1>0, <1>4 DEF HomingPinged
<1>5. CASE HomingRead
  BY <1>0, <1>5 DEF HomingRead
<1>6. CASE HomingMove
  BY <1>0, <1>6, ContextFacts DEF HomingMove
<1>7. CASE HomingDone
  BY <1>0, <1>7 DEF HomingDone
<1>8. CASE Scan
  BY <1>0, <1>8 DEF Scan
<1>9. CASE StartPinged
  BY <1>0, <1>9 DEF StartPinged
<1>10. CASE StartRead_
  <2>0. AtUser => StandsAt(table_index) \in Position \cup {HomePosition}
    BY TargetTyped
  <2>1. ProgramTyped'
    BY <1>0, <1>10 DEF StartRead_
  <2>2. PlaceOf'
    BY <1>0, <1>10 DEF StartRead_
  <2>3. IndexOf'
    BY <1>0, <1>10 DEF StartRead_
  <2>4. ContextOf'
    BY <1>0, <1>10, ContextFacts, <2>0 DEF StartRead_
  <2>5. PedalOf'
    BY <1>0, <1>10 DEF StartRead_
  <2> QED BY <2>1, <2>2, <2>3, <2>4, <2>5
<1>11. CASE StartMove
  BY <1>0, <1>11 DEF StartMove
<1>12. CASE StartGrind
  BY <1>0, <1>12 DEF StartGrind
<1>13. CASE MoveNextPrinted
  BY <1>0, <1>13 DEF MoveNextPrinted
<1>14. CASE MoveNextPinged
  BY <1>0, <1>14 DEF MoveNextPinged, StateAt
<1>15. CASE ProcessPastTable
  BY <1>0, <1>15 DEF ProcessPastTable
<1>16. CASE ProcessCommand
  BY <1>0, <1>16 DEF ProcessCommand, Follows
<1>17. CASE WeldPinged
  <2>0. Is("WELD", table_index) => WeldTarget \in Position
    BY TargetTyped
  <2>1. ProgramTyped'
    BY <1>0, <1>17 DEF WeldPinged, WeldContext
  <2>2. PlaceOf'
    BY <1>0, <1>17 DEF WeldPinged, WeldContext
  <2>3. IndexOf'
    BY <1>0, <1>17 DEF WeldPinged, WeldContext
  <2>4. ContextOf'
    BY <1>0, <1>17, ContextFacts, <2>0 DEF WeldPinged, WeldContext
  <2>5. PedalOf'
    BY <1>0, <1>17 DEF WeldPinged, WeldContext
  <2> QED BY <2>1, <2>2, <2>3, <2>4, <2>5
<1>18. CASE ProgramSet
  BY <1>0, <1>18 DEF ProgramSet
<1>19. CASE MovePinged
  <2>0. Is("MOVE", table_index) => MoveTarget \in Position
    BY TargetTyped
  <2>1. ProgramTyped'
    BY <1>0, <1>19 DEF MovePinged
  <2>2. PlaceOf'
    BY <1>0, <1>19 DEF MovePinged
  <2>3. IndexOf'
    BY <1>0, <1>19 DEF MovePinged
  <2>4. ContextOf'
    <3>1. Is("MOVE", table_index) /\ state = "PROCESS_COMMAND"
      BY <1>19 DEF MovePinged
    <3>2. ASSUME ok PROVE ToMove'
      <4>1. context' = Context(MoveTarget, "PROCESS_COMMAND", TRUE)
        BY <1>19, <3>2 DEF MovePinged
      <4>2. context'.ret = "PROCESS_COMMAND" /\ context'.advance
        BY <2>0, <3>1, <4>1, ContextFacts
      <4> QED BY <1>19, <3>1, <4>2 DEF MovePinged
    <3>3. \/ at' = "loop" /\ state' = "PROCESS_COMMAND"
          \/ ok /\ at' = "loop" /\ state' \in {"GRINDING", "EMERGENCY_HANDLING"}
          \/ ok /\ at' \in {"sticky_log", "move_goto"} /\ state' = "PROCESS_COMMAND"
      BY <1>19, <3>1 DEF MovePinged
    <3> QED BY <3>2, <3>3
  <2>5. PedalOf'
    BY <1>0, <1>19 DEF MovePinged
  <2> QED BY <2>1, <2>2, <2>3, <2>4, <2>5
<1>20. CASE StickyLogged
  <2>1. ProgramTyped'
    BY <1>0, <1>20 DEF StickyLogged
  <2>2. PlaceOf'
    BY <1>0, <1>20 DEF StickyLogged
  <2>3. IndexOf'
    BY <1>0, <1>20 DEF StickyLogged
  <2>4. ContextOf'
    BY <1>0, <1>20 DEF StickyLogged
  <2>5. PedalOf'
    BY <1>0, <1>20 DEF StickyLogged
  <2> QED BY <2>1, <2>2, <2>3, <2>4, <2>5
<1>21. CASE MoveDone
  BY <1>0, <1>21 DEF MoveDone
<1>22. CASE MoveVerified
  BY <1>0, <1>22 DEF MoveVerified, StateAt
<1>23. CASE WaitPinged
  <2>0. Is("WELD", table_index) => WeldTarget \in Position
    BY TargetTyped
  <2>1. ProgramTyped'
    BY <1>0, <1>23 DEF WaitPinged, WeldContext
  <2>2. PlaceOf'
    BY <1>0, <1>23 DEF WaitPinged, WeldContext
  <2>3. IndexOf'
    BY <1>0, <1>23 DEF WaitPinged, WeldContext
  <2>4. ContextOf'
    BY <1>0, <1>23, ContextFacts, <2>0 DEF WaitPinged, WeldContext
  <2>5. PedalOf'
    BY <1>0, <1>23 DEF WaitPinged, WeldContext
  <2> QED BY <2>1, <2>2, <2>3, <2>4, <2>5
<1>24. CASE CheckResult
  <2>1. ProgramTyped'
    BY <1>0, <1>24 DEF CheckResult
  <2>2. PlaceOf'
    BY <1>0, <1>24 DEF CheckResult
  <2>3. IndexOf'
    BY <1>0, <1>24 DEF CheckResult
  <2>4. ContextOf'
    BY <1>0, <1>24 DEF CheckResult
  <2>5. PedalOf'
    BY <1>0, <1>24 DEF CheckResult
  <2> QED BY <2>1, <2>2, <2>3, <2>4, <2>5
<1>25. CASE AskSupervisor
  BY <1>0, <1>25 DEF AskSupervisor
<1>26. CASE Denied
  BY <1>0, <1>26 DEF Denied
<1>27. CASE Unloading
  <2>0. Unload \in Position
    BY ManualAssumption
  <2>1. ProgramTyped'
    BY <1>0, <1>27 DEF Unloading
  <2>2. PlaceOf'
    BY <1>0, <1>27 DEF Unloading
  <2>3. IndexOf'
    BY <1>0, <1>27 DEF Unloading
  <2>4. ContextOf'
    BY <1>0, <1>27, ContextFacts, <2>0 DEF Unloading
  <2>5. PedalOf'
    BY <1>0, <1>27 DEF Unloading
  <2> QED BY <2>1, <2>2, <2>3, <2>4, <2>5
<1>28. CASE Unloaded
  BY <1>0, <1>28 DEF Unloaded
<1>29. CASE Emergency
  BY <1>0, <1>29 DEF Emergency, NoContext
<1>30. CASE Granted
  BY <1>0, <1>30 DEF Granted
<1>31. CASE EmergencyHomed
  BY <1>0, <1>31 DEF EmergencyHomed, Recovered, NoContext
<1>32. CASE EmergencyMove
  BY <1>0, <1>32 DEF EmergencyMove
<1>33. CASE EmergencyMoved
  BY <1>0, <1>33 DEF EmergencyMoved
<1>34. CASE EmergencyVerified
  BY <1>0, <1>34 DEF EmergencyVerified, Recovered, NoContext
<1>35. CASE GrindPressed
  <2>1. ProgramTyped'
    BY <1>0, <1>35, PhaseKeeps DEF GrindPressed, Phase, SetPhase
  <2>2. PlaceOf'
    BY <1>0, <1>35, PhaseKeeps DEF GrindPressed, Phase, SetPhase
  <2>3. IndexOf'
    BY <1>0, <1>35, PhaseKeeps DEF GrindPressed, Phase, SetPhase
  <2>4. ContextOf'
    BY <1>0, <1>35, PhaseKeeps DEF GrindPressed, Phase, SetPhase
  <2>5. PedalOf'
    BY <1>0, <1>35, PhaseKeeps DEF GrindPressed, Phase, SetPhase
  <2> QED BY <2>1, <2>2, <2>3, <2>4, <2>5
<1>36. CASE GrindMove
  BY <1>0, <1>36 DEF GrindMove, Phase
<1>37. CASE GrindReached
  <2>1. ProgramTyped'
    BY <1>0, <1>37, PhaseKeeps DEF GrindReached, SetPhase
  <2>2. PlaceOf'
    BY <1>0, <1>37, PhaseKeeps DEF GrindReached, SetPhase
  <2>3. IndexOf'
    BY <1>0, <1>37, PhaseKeeps DEF GrindReached, SetPhase
  <2>4. ContextOf'
    BY <1>0, <1>37, PhaseKeeps DEF GrindReached, SetPhase
  <2>5. PedalOf'
    BY <1>0, <1>37, PhaseKeeps DEF GrindReached, SetPhase
  <2> QED BY <2>1, <2>2, <2>3, <2>4, <2>5
<1>38. CASE ReturnMove
  BY <1>0, <1>38 DEF ReturnMove, Phase
<1>39. CASE Returned
  BY <1>0, <1>39 DEF Returned
<1>40. CASE ReturnVerified
  BY <1>0, <1>40 DEF ReturnVerified, NoContext
<1>41. CASE LoopBlocked
  BY <1>0, <1>41 DEF LoopBlocked
<1> QED BY <1>1, <1>2, <1>3, <1>4, <1>5, <1>6, <1>7, <1>8, <1>9, <1>10, <1>11,
           <1>12, <1>13, <1>14, <1>15, <1>16, <1>17, <1>18, <1>19, <1>20,
           <1>21, <1>22, <1>23, <1>24, <1>25, <1>26, <1>27, <1>28, <1>29,
           <1>30, <1>31, <1>32, <1>33, <1>34, <1>35, <1>36, <1>37, <1>38,
           <1>39, <1>40, <1>41 DEF Program

(* The operator, the machines, the threads and the stage do not disturb the *)
(* control; an answer without digits ends the program where it stands.      *)
LEMMA WorldStep ==
  ASSUME ControlInv, World
  PROVE  ControlInv'
<1> USE DEF ControlInv, ProgramTyped, PlaceOf, IndexOf, ContextOf, PedalOf,
            ToMove, ToWeld, ToStart, ToInit, AtUser, Outside
<1>1. CASE EmptyAnswer
  <2>1. at' = "crashed" /\ "crashed" \in Places
    BY <1>1 DEF EmptyAnswer, Places
  <2>2. UNCHANGED <<state, table_index, welding_position, welded, context, pedal>>
    BY <1>1 DEF EmptyAnswer
  <2> QED BY <2>1, <2>2
<1>2. CASE ~EmptyAnswer
  <2>1. UNCHANGED progVars /\ UNCHANGED pedal
    BY <1>2 DEF World, GrindWatchdog, CurtainBroken, CurtainClear, PressPedal,
       WeldEnds, DriverAnswer, PowerBack, CutUnderCommand, CutWhileIdle,
       RefusedCommand, NoisyReply
  <2> QED BY <2>1
<1> QED BY <1>1, <1>2

LEMMA InitControl ==
  ASSUME Init
  PROVE  ControlInv
<1> USE DEF Init
<1>1. ProgramTyped
  BY ContextFacts, TableFacts DEF ProgramTyped, States, Places, Pauses
<1>2. PlaceOf /\ IndexOf /\ ContextOf /\ PedalOf
  BY TableFacts DEF PlaceOf, IndexOf, ContextOf, PedalOf
<1> QED BY <1>1, <1>2 DEF ControlInv

LEMMA ControlStep ==
  ASSUME ControlInv, [Next]_vars
  PROVE  ControlInv'
<1>1. CASE Program
  BY <1>1, ProgramStep
<1>2. CASE World
  BY <1>2, WorldStep
<1>3. CASE UNCHANGED vars
  BY <1>3 DEF vars, ControlInv, ProgramTyped, PlaceOf, IndexOf, ContextOf,
     PedalOf, ToMove, ToWeld, ToStart, ToInit, AtUser
<1> QED BY <1>1, <1>2, <1>3 DEF Next

(* The program is where its entry of the table and its recovery context say *)
(* it is, and the pedal is enabled at a WELD entry only, in every state.    *)
THEOREM ControlHolds == Spec => []ControlInv
BY InitControl, ControlStep, PTL DEF Spec

-----------------------------------------------------------------------------
(* The weld in progress and the OK results.                                 *)

(* The program leaves an entry with a weld in progress only by an emergency *)
(* or a grinding, which come back to it.                                    *)
LEMMA WeldStep ==
  ASSUME ControlInv, WeldOf, Program
  PROVE  WeldOf'
<1> USE DEF ControlInv, PlaceOf, ContextOf, WeldOf, Underway, ToWeld, ToMove,
            ToStart, ToInit
<1>0. /\ ~(Is("WELD", table_index) /\ Is("MOVE", table_index))
      /\ Is("PAUSE", table_index) \/ AtUser => ~Is("WELD", table_index)
  BY TableFacts, EntryFacts DEF AtUser, Is
<1>1. CASE AskConnected
  BY <1>0, <1>1, AskedPlaces DEF AskConnected
<1>2. CASE Boot
  BY <1>0, <1>2 DEF Boot
<1>3. CASE BootHomed
  BY <1>0, <1>3 DEF BootHomed
<1>4. CASE HomingPinged
  BY <1>0, <1>4 DEF HomingPinged
<1>5. CASE HomingRead
  BY <1>0, <1>5 DEF HomingRead
<1>6. CASE HomingMove
  BY <1>0, <1>6, ContextFacts DEF HomingMove
<1>7. CASE HomingDone
  BY <1>0, <1>7 DEF HomingDone, IndexOf
<1>8. CASE Scan
  BY <1>0, <1>8 DEF Scan, IndexOf
<1>9. CASE StartPinged
  BY <1>0, <1>9 DEF StartPinged
<1>10. CASE StartRead_
  BY <1>0, <1>10, ContextFacts DEF StartRead_
<1>11. CASE StartMove
  BY <1>0, <1>11 DEF StartMove
<1>12. CASE StartGrind
  BY <1>0, <1>12 DEF StartGrind
<1>13. CASE MoveNextPrinted
  BY <1>0, <1>13 DEF MoveNextPrinted
<1>14. CASE MoveNextPinged
  BY <1>0, <1>14 DEF MoveNextPinged, StateAt
<1>15. CASE ProcessPastTable
  BY <1>0, <1>15 DEF ProcessPastTable
<1>16. CASE ProcessCommand
  BY <1>0, <1>16 DEF ProcessCommand, Follows, AtUser
<1>17. CASE WeldPinged
  <2>0. Is("WELD", table_index) => WeldTarget \in Position
    BY TargetTyped
  <2> QED BY <1>0, <1>17, ContextFacts, <2>0 DEF WeldPinged, WeldContext, IndexOf
<1>18. CASE ProgramSet
  BY <1>0, <1>18 DEF ProgramSet
<1>19. CASE MovePinged
  BY <1>0, <1>19, ContextFacts DEF MovePinged, IndexOf
<1>20. CASE StickyLogged
  BY <1>0, <1>20 DEF StickyLogged, IndexOf
<1>21. CASE MoveDone
  BY <1>0, <1>21 DEF MoveDone, IndexOf
<1>22. CASE MoveVerified
  BY <1>0, <1>22 DEF MoveVerified, StateAt, IndexOf
<1>23. CASE WaitPinged
  <2>1. Is("WELD", table_index) /\ state = "WAIT_WELDING_DONE"
    BY <1>23 DEF WaitPinged, IndexOf
  <2>2. context' = WeldContext /\ WeldTarget \in Position
    BY <1>23, <2>1, TargetTyped DEF WaitPinged
  <2>3. context'.ret = "PROCESS_COMMAND" /\ ~context'.advance
    BY <2>2, ContextFacts DEF WeldContext
  <2>4. UNCHANGED <<table_index, point, head>>
    BY <1>23 DEF WaitPinged
  <2>5. \/ /\ UNCHANGED news
           /\ state' \in {"WAIT_WELDING_DONE", "EMERGENCY_HANDLING", "GRINDING"}
        \/ news /\ ~news' /\ state' = "CHECK_WELD_RESULT"
        \/ ~news /\ ~news' /\ state' = "WAIT_WELDING_DONE"
    BY <1>23, <2>1 DEF WaitPinged
  <2> QED BY <2>1, <2>3, <2>4, <2>5
<1>24. CASE CheckResult
  BY <1>0, <1>24 DEF CheckResult, IndexOf
<1>25. CASE AskSupervisor
  BY <1>0, <1>25 DEF AskSupervisor
<1>26. CASE Denied
  BY <1>0, <1>26 DEF Denied
<1>27. CASE Unloading
  BY <1>0, <1>27, ContextFacts DEF Unloading
<1>28. CASE Unloaded
  BY <1>0, <1>28 DEF Unloaded
<1>29. CASE Emergency
  BY <1>0, <1>29 DEF Emergency, NoContext
<1>30. CASE Granted
  BY <1>0, <1>30 DEF Granted
<1>31. CASE EmergencyHomed
  BY <1>0, <1>31 DEF EmergencyHomed, Recovered, NoContext
<1>32. CASE EmergencyMove
  BY <1>0, <1>32 DEF EmergencyMove
<1>33. CASE EmergencyMoved
  BY <1>0, <1>33 DEF EmergencyMoved
<1>34. CASE EmergencyVerified
  BY <1>0, <1>34 DEF EmergencyVerified, Recovered, NoContext
<1>35. CASE GrindPressed
  BY <1>0, <1>35, PhaseKeeps DEF GrindPressed, Phase, SetPhase
<1>36. CASE GrindMove
  BY <1>0, <1>36 DEF GrindMove, Phase
<1>37. CASE GrindReached
  BY <1>0, <1>37, PhaseKeeps DEF GrindReached, SetPhase
<1>38. CASE ReturnMove
  BY <1>0, <1>38 DEF ReturnMove, Phase
<1>39. CASE Returned
  BY <1>0, <1>39 DEF Returned
<1>40. CASE ReturnVerified
  BY <1>0, <1>40 DEF ReturnVerified, NoContext
<1>41. CASE LoopBlocked
  BY <1>0, <1>41 DEF LoopBlocked
<1> QED BY <1>1, <1>2, <1>3, <1>4, <1>5, <1>6, <1>7, <1>8, <1>9, <1>10, <1>11,
           <1>12, <1>13, <1>14, <1>15, <1>16, <1>17, <1>18, <1>19, <1>20,
           <1>21, <1>22, <1>23, <1>24, <1>25, <1>26, <1>27, <1>28, <1>29,
           <1>30, <1>31, <1>32, <1>33, <1>34, <1>35, <1>36, <1>37, <1>38,
           <1>39, <1>40, <1>41 DEF Program

(* An operator who waits for the verdict welds once for every entry.        *)
LEMMA WorldWeld ==
  ASSUME ControlInv, WeldOf, World, "twice" \notin Habits
  PROVE  WeldOf'
<1> USE DEF WeldOf, Underway, ToWeld, KeepFlag, Outside
<1>1. CASE PressPedal
  <2>1. /\ Is("WELD", table_index)
        /\ state \in {"PROCESS_COMMAND", "WAIT_WELDING_DONE", "CHECK_WELD_RESULT"}
    BY <1>1 DEF PressPedal, ControlInv, IndexOf, PedalOf
  <2>2. ~news /\ state # "CHECK_WELD_RESULT"
    BY <1>1 DEF PressPedal
  <2> QED BY <1>1, <2>1, <2>2 DEF PressPedal
<1>2. CASE WeldEnds
  <2>1. head = "weld" /\ ~news /\ state # "CHECK_WELD_RESULT"
    BY <1>2 DEF WeldEnds
  <2>2. head' = "up" /\ news' = ~news
    BY <1>2 DEF WeldEnds
  <2>3. UNCHANGED <<state, table_index, context, point>>
    BY <1>2 DEF WeldEnds
  <2> QED BY <2>1, <2>2, <2>3
<1>3. CASE ~(PressPedal \/ WeldEnds)
  <2>1. UNCHANGED <<state, table_index, context, point, head, news>>
    BY <1>3 DEF World, GrindWatchdog, CurtainBroken, CurtainClear,
       DriverAnswer, PowerBack, CutUnderCommand, CutWhileIdle, RefusedCommand,
       NoisyReply, EmptyAnswer
  <2> QED BY <2>1
<1> QED BY <1>1, <1>2, <1>3

LEMMA WeldHolds == "twice" \notin Habits => (Spec => []WeldOf)
<1> SUFFICES ASSUME "twice" \notin Habits PROVE Spec => []WeldOf
  OBVIOUS
<1>1. Init => WeldOf
  BY DEF Init, WeldOf, Underway
<1>2. ControlInv /\ WeldOf /\ [Next]_vars => WeldOf'
  <2>1. ASSUME WeldOf, UNCHANGED vars PROVE WeldOf'
    BY <2>1 DEF vars, WeldOf, Underway, ToWeld
  <2> QED BY <2>1, WeldStep, WorldWeld DEF Next
<1> QED BY <1>1, <1>2, ControlHolds, PTL DEF Spec

(* The program goes on behind a WELD entry with its OK result only. *)
LEMMA WeldedStep ==
  ASSUME ControlInv, WeldedOf, Program
  PROVE  WeldedOf'
<1> USE DEF WeldedOf, Passed
<1>0. /\ table_index \in -1 .. Len(Table) /\ welded \subseteq Indexes
      /\ \A i \in Indexes : i \in 0 .. Len(Table) - 1
      /\ Len(Table) \in Nat
      /\ \A i : Is("USER", i) \/ Is("MOVE", i) \/ Is("PAUSE", i) => ~Is("WELD", i)
      /\ ~Is("WELD", -1)
  BY TableFacts DEF ControlInv, ProgramTyped, Is
<1>1. CASE Scan
  BY <1>0, <1>1 DEF Scan
<1>2. CASE MoveNextPinged
  <2>1. state = "MOVE_NEXT_COMMAND"
    BY <1>2 DEF MoveNextPinged, ControlInv, PlaceOf
  <2>2. CASE ok
    <3>1. /\ table_index' = table_index + 1 /\ UNCHANGED welded
          /\ state' \in {"INIT", "PROCESS_COMMAND"}
      BY <1>2, <2>2 DEF MoveNextPinged, StateAt
    <3> QED BY <1>0, <2>1, <3>1
  <2>3. CASE ~ok
    BY <1>2, <2>3 DEF MoveNextPinged
  <2> QED BY <2>2, <2>3
<1>3. CASE StartMove
  <2>1. state = "START" /\ ~Is("WELD", table_index)
    BY <1>0, <1>3 DEF StartMove, ControlInv, PlaceOf, IndexOf, AtUser
  <2> QED BY <1>0, <1>3, <2>1 DEF StartMove
<1>4. CASE ProcessCommand
  <2>1. ~Is("WELD", table_index) /\ state = "PROCESS_COMMAND"
    BY <1>0, <1>4 DEF ProcessCommand, Follows
  <2> QED BY <1>0, <1>4, <2>1 DEF ProcessCommand, Follows
<1>5. CASE MoveVerified
  <2>1. Is("MOVE", table_index) /\ state = "PROCESS_COMMAND"
    BY <1>5 DEF MoveVerified, ControlInv, PlaceOf, IndexOf
  <2>2. \/ UNCHANGED <<table_index, state, welded>>
        \/ /\ table_index' = table_index + 1 /\ UNCHANGED welded
           /\ state' \in {"INIT", "PROCESS_COMMAND"}
    BY <1>5 DEF MoveVerified, StateAt
  <2> QED BY <1>0, <2>1, <2>2
<1>6. CASE CheckResult
  <2>1. Is("WELD", table_index) /\ state = "CHECK_WELD_RESULT"
    BY <1>6 DEF CheckResult, ControlInv, IndexOf
  <2>2. \/ welded' = welded \cup {table_index} /\ state' = "MOVE_NEXT_COMMAND"
        \/ welded' = welded /\ state' \in {"ERROR_WELD", "WAIT_WELDING_DONE"}
    BY <1>6 DEF CheckResult
  <2>3. UNCHANGED table_index
    BY <1>6 DEF CheckResult
  <2> QED BY <1>0, <2>1, <2>2, <2>3
<1>7. CASE EmergencyHomed \/ EmergencyVerified
  <2>1. state = "EMERGENCY_HANDLING" /\ (ToMove \/ ToWeld \/ ToStart \/ ToInit)
    BY <1>7 DEF EmergencyHomed, EmergencyVerified, ControlInv, PlaceOf, ContextOf
  <2>2. UNCHANGED welded
    BY <1>7 DEF EmergencyHomed, EmergencyVerified
  <2>3. \/ UNCHANGED table_index
        \/ table_index' = table_index + 1 /\ context.advance
    BY <1>7 DEF EmergencyHomed, EmergencyVerified, Recovered
  <2>4. state' # "MOVE_NEXT_COMMAND"
    BY <1>7, <2>1 DEF EmergencyHomed, EmergencyVerified, Recovered, ToMove,
       ToWeld, ToStart, ToInit
  <2>5. ~context.advance \/ Is("MOVE", table_index)
    BY <2>1 DEF ToMove, ToWeld, ToStart, ToInit
  <2> QED BY <1>0, <2>1, <2>2, <2>3, <2>4, <2>5
<1>8. CASE ~(\/ Scan \/ MoveNextPinged \/ StartMove \/ ProcessCommand
             \/ MoveVerified \/ CheckResult \/ EmergencyHomed
             \/ EmergencyVerified)
  <2>1. /\ UNCHANGED <<table_index, welded>>
        /\ state' = "MOVE_NEXT_COMMAND" <=> state = "MOVE_NEXT_COMMAND"
    BY <1>8 DEF Program, AskConnected, Boot, BootHomed, HomingPinged,
       HomingRead, HomingMove, HomingDone, StartPinged, StartRead_, StartGrind,
       MoveNextPrinted, ProcessPastTable, WeldPinged, ProgramSet, MovePinged,
       StickyLogged, MoveDone, WaitPinged, AskSupervisor, Denied, Unloading,
       Unloaded, Emergency, Granted, EmergencyMove, EmergencyMoved,
       GrindPressed, GrindMove, GrindReached, ReturnMove, Returned,
       ReturnVerified, LoopBlocked, Phase, ControlInv, PlaceOf, ContextOf,
       ToMove, ToWeld, ToStart
  <2> QED BY <2>1
<1> QED BY <1>1, <1>2, <1>3, <1>4, <1>5, <1>6, <1>7, <1>8

LEMMA WorldKeepsProgram ==
  ASSUME World
  PROVE  UNCHANGED <<state, table_index, welding_position, welded, context>>
BY DEF World, GrindWatchdog, CurtainBroken, CurtainClear, PressPedal, WeldEnds,
   DriverAnswer, PowerBack, CutUnderCommand, CutWhileIdle, RefusedCommand,
   NoisyReply, EmptyAnswer, Outside

LEMMA WeldedHolds == Spec => []WeldedOf
<1>1. Init => WeldedOf
  BY TableFacts DEF Init, WeldedOf, Passed
<1>2. ControlInv /\ WeldedOf /\ [Next]_vars => WeldedOf'
  <2>1. ASSUME WeldedOf, World \/ UNCHANGED vars PROVE WeldedOf'
    <3>1. UNCHANGED <<state, table_index, welded>>
      BY <2>1, WorldKeepsProgram DEF vars
    <3> QED BY <2>1, <3>1 DEF WeldedOf, Passed
  <2> QED BY <2>1, WeldedStep DEF Next
<1> QED BY <1>1, <1>2, ControlHolds, PTL DEF Spec

-----------------------------------------------------------------------------
(* The manual program implements the abstract welding cycle. *)

(* Only WaitPinged and CheckResult enter and leave CHECK_WELD_RESULT. *)
LEMMA StateOfCheck ==
  ASSUME ControlInv, Program, ~WaitPinged, ~CheckResult
  PROVE  state = "CHECK_WELD_RESULT" <=> state' = "CHECK_WELD_RESULT"
<1> USE DEF ControlInv, PlaceOf
<1>1. CASE AskConnected
  BY <1>1, AskedPlaces
<1>2. CASE EmergencyHomed \/ EmergencyVerified \/ ReturnVerified
  <2>1. state \in {"EMERGENCY_HANDLING", "GRINDING"}
          /\ (ToMove \/ ToWeld \/ ToStart \/ ToInit)
    BY <1>2 DEF EmergencyHomed, EmergencyVerified, ReturnVerified, ContextOf
  <2>2. state' \in {state, context.ret}
    BY <1>2 DEF EmergencyHomed, EmergencyVerified, ReturnVerified, Recovered
  <2> QED BY <2>1, <2>2 DEF ToMove, ToWeld, ToStart, ToInit
<1>3. CASE \/ Boot \/ HomingPinged \/ HomingRead \/ HomingMove \/ HomingDone
           \/ StartPinged \/ StartRead_ \/ StartMove \/ StartGrind
           \/ MoveNextPrinted \/ MoveNextPinged \/ WeldPinged \/ ProgramSet
  BY <1>3 DEF Boot, HomingPinged, HomingRead, HomingMove, HomingDone,
     StartPinged, StartRead_, StartMove, StartGrind, MoveNextPrinted,
     MoveNextPinged, WeldPinged, ProgramSet, StateAt
<1>4. CASE \/ MovePinged \/ StickyLogged \/ MoveDone \/ MoveVerified
           \/ Denied \/ Unloading \/ Unloaded \/ Granted \/ EmergencyMove
           \/ EmergencyMoved \/ GrindReached \/ Returned
  BY <1>4 DEF MovePinged, StickyLogged, MoveDone, MoveVerified, Denied,
     Unloading, Unloaded, Granted, EmergencyMove, EmergencyMoved,
     GrindReached, Returned, StateAt
<1>5. CASE \/ Scan \/ ProcessPastTable \/ ProcessCommand \/ AskSupervisor
           \/ Emergency \/ GrindPressed \/ GrindMove \/ ReturnMove
  BY <1>5 DEF Scan, ProcessPastTable, ProcessCommand, Follows, AskSupervisor,
     Emergency, GrindPressed, GrindMove, ReturnMove, Phase
<1>6. CASE LoopBlocked \/ BootHomed
  BY <1>6 DEF LoopBlocked, BootHomed
<1> QED BY <1>1, <1>2, <1>3, <1>4, <1>5, <1>6 DEF Program

(* Every step is a step of the abstract cycle, or none. *)
LEMMA CycleStep ==
  ASSUME ControlInv, WeldOf, WeldedOf, "twice" \notin Habits, Next
  PROVE  [Cycle!Next]_(Cycle!vars)
<1> USE DEF Cycle!Next, Cycle!vars, Cycle!Nothing, Underway
<1> DEFINE firing == IF head = "weld" \/ news \/ state = "CHECK_WELD_RESULT"
                     THEN point ELSE -1
<1>0. /\ welded \subseteq Indexes /\ table_index \in Int
      /\ \A i \in Indexes : i \in Nat
      /\ \A i : Is("WELD", i) => i \in Indexes
  BY TableFacts DEF ControlInv, ProgramTyped
<1>1. CASE Scan
  <2>1. ~Underway /\ ~Underway'
    BY <1>1 DEF Scan, WeldOf
  <2>2. welded' = {} /\ firing = -1 /\ firing' = -1
    BY <1>1, <2>1 DEF Scan
  <2>3. Cycle!NextBattery
    BY <2>2 DEF Cycle!NextBattery
  <2> QED BY <2>3
<1>2. CASE PressPedal
  <2>1. ~Underway
    BY <1>2 DEF PressPedal
  <2>2. /\ Is("WELD", table_index)
        /\ state \in {"PROCESS_COMMAND", "WAIT_WELDING_DONE", "CHECK_WELD_RESULT"}
    BY <1>2 DEF PressPedal, ControlInv, IndexOf, PedalOf
  <2>3. firing = -1 /\ firing' = table_index /\ UNCHANGED welded
    BY <1>2, <2>1 DEF PressPedal
  <2>4. /\ table_index \notin welded
        /\ \A q \in Indexes : Is("WELD", q) /\ q < table_index => q \in welded
    BY <1>0, <2>2 DEF WeldedOf, Passed
  <2>5. Cycle!Fire(table_index)
    BY <2>3, <2>4 DEF Cycle!Fire
  <2>6. table_index \in {i \in Indexes : Is("WELD", i)}
    BY <1>0, <2>2
  <2> QED BY <2>5, <2>6
<1>3. CASE CheckResult
  <2>1. state = "CHECK_WELD_RESULT" /\ ~news /\ head # "weld"
    BY <1>3 DEF CheckResult, WeldOf
  <2>2. firing = table_index /\ table_index # -1
    BY <1>0, <2>1 DEF WeldOf
  <2>3. firing' = -1
    BY <1>3, <2>1 DEF CheckResult
  <2>4. welded' = welded \/ welded' = welded \cup {table_index}
    BY <1>3 DEF CheckResult
  <2>5. CASE welded' = welded
    <3>1. Cycle!Discard
      BY <2>2, <2>3, <2>5 DEF Cycle!Discard
    <3> QED BY <3>1
  <2>6. CASE welded' = welded \cup {table_index}
    <3>1. Cycle!Accept
      BY <2>2, <2>3, <2>6 DEF Cycle!Accept
    <3> QED BY <3>1
  <2> QED BY <2>4, <2>5, <2>6
<1>4. CASE WeldEnds
  <2>1. head = "weld" /\ ~news
    BY <1>4 DEF WeldEnds, WeldOf
  <2>2. news' /\ UNCHANGED <<point, welded>>
    BY <1>4, <2>1 DEF WeldEnds
  <2> QED BY <2>1, <2>2
<1>5. CASE WaitPinged
  <2>1. state = "WAIT_WELDING_DONE" /\ UNCHANGED <<point, welded, head>>
    BY <1>5 DEF WaitPinged, ControlInv, PlaceOf
  <2>2. \/ UNCHANGED news /\ state' # "CHECK_WELD_RESULT"
        \/ news /\ state' = "CHECK_WELD_RESULT"
        \/ ~news /\ ~news' /\ state' = "WAIT_WELDING_DONE"
    BY <1>5, <2>1 DEF WaitPinged
  <2> QED BY <2>1, <2>2
<1>6. CASE ~(Scan \/ PressPedal \/ CheckResult \/ WeldEnds \/ WaitPinged)
  <2>1. UNCHANGED <<welded, point, head, news>>
    BY <1>6 DEF Next, Program, World, AskConnected, Boot, BootHomed,
       HomingPinged, HomingRead, HomingMove, HomingDone, StartPinged,
       StartRead_, StartMove, StartGrind, MoveNextPrinted, MoveNextPinged,
       ProcessPastTable, ProcessCommand, WeldPinged, ProgramSet, MovePinged,
       StickyLogged, MoveDone, MoveVerified, AskSupervisor, Denied, Unloading,
       Unloaded, Emergency, Granted, EmergencyHomed, EmergencyMove,
       EmergencyMoved, EmergencyVerified, GrindPressed, GrindMove,
       GrindReached, ReturnMove, Returned, ReturnVerified, LoopBlocked,
       GrindWatchdog, CurtainBroken, CurtainClear, DriverAnswer, PowerBack,
       CutUnderCommand, CutWhileIdle, RefusedCommand, NoisyReply, EmptyAnswer,
       Outside
  <2>2. state = "CHECK_WELD_RESULT" <=> state' = "CHECK_WELD_RESULT"
    <3>1. CASE World
      BY <3>1, WorldKeepsProgram
    <3>2. CASE Program
      BY <1>6, <3>2, StateOfCheck
    <3> QED BY <3>1, <3>2 DEF Next
  <2> QED BY <2>1, <2>2
<1> QED BY <1>1, <1>2, <1>3, <1>4, <1>5, <1>6

(* A verdict is taken for the point that was welded, each point once, in    *)
(* the order of the table: with an operator who does not weld again before  *)
(* the program has taken the verdict, whatever else happens.                *)
THEOREM ManualCycleImplemented == "twice" \notin Habits => (Spec => CycleSpec)
<1> SUFFICES ASSUME "twice" \notin Habits PROVE Spec => CycleSpec
  OBVIOUS
<1>1. Init => Cycle!Init
  BY DEF Init, Cycle!Init, Cycle!Nothing
<1>2. ControlInv /\ WeldOf /\ WeldedOf /\ [Next]_vars => [Cycle!Next]_(Cycle!vars)
  <2>1. UNCHANGED vars => UNCHANGED Cycle!vars
    BY DEF vars, Cycle!vars
  <2> QED BY <2>1, CycleStep
<1>3. Spec => []WeldOf
  BY WeldHolds
<1> QED BY <1>1, <1>2, <1>3, ControlHolds, WeldedHolds, PTL
        DEF Spec, CycleSpec, Cycle!Spec

-----------------------------------------------------------------------------
(* The number of the welding point.                                         *)

(* Passing an entry counts it if it is a WELD. *)
LEMMA BeforeFacts ==
  /\ \A t \in -1 .. Len(Table) : Cardinality(Before(t)) \in Nat
  /\ Cardinality(Before(-1)) = 0
  /\ \A t \in -1 .. Len(Table) - 1 :
       Cardinality(Before(t + 1))
         = Cardinality(Before(t)) + (IF Is("WELD", t) THEN 1 ELSE 0)
<1>1. ASSUME NEW t \in Int
      PROVE  IsFiniteSet(Before(t)) /\ Cardinality(Before(t)) \in Nat
  <2>1. IsFiniteSet(0 .. Len(Table) - 1)
    BY FS_Interval, TableFacts
  <2>2. Before(t) \subseteq 0 .. Len(Table) - 1
    BY TableFacts DEF Before
  <2>3. IsFiniteSet(Before(t))
    BY <2>1, <2>2, FS_Subset
  <2> QED BY <2>3, FS_CardinalityType
<1>2. Cardinality(Before(-1)) = 0
  <2>1. Before(-1) = {}
    BY TableFacts DEF Before
  <2> QED BY <2>1, FS_EmptySet
<1>3. ASSUME NEW t \in -1 .. Len(Table) - 1
      PROVE  Cardinality(Before(t + 1))
               = Cardinality(Before(t)) + (IF Is("WELD", t) THEN 1 ELSE 0)
  <2>1. CASE Is("WELD", t)
    <3>1. Before(t + 1) = Before(t) \cup {t} /\ t \notin Before(t)
      BY <2>1, TableFacts DEF Before
    <3>2. Cardinality(Before(t + 1)) = Cardinality(Before(t)) + 1
      BY <1>1, <3>1, FS_AddElement
    <3> QED BY <2>1, <3>2
  <2>2. CASE ~Is("WELD", t)
    <3>1. Before(t + 1) = Before(t)
      BY <2>2, TableFacts DEF Before
    <3> QED BY <1>1, <2>2, <3>1
  <2> QED BY <2>1, <2>2
<1>4. \A t \in -1 .. Len(Table) : t \in Int
  BY TableFacts
<1> QED BY <1>1, <1>2, <1>3, <1>4

(* welding_position goes up when the pedal is enabled for an entry, and     *)
(* down when the entry is left for an emergency or a grinding.              *)
LEMMA CountStep ==
  ASSUME ControlInv, Counted, Program
  PROVE  Counted'
<1> USE DEF ControlInv, PlaceOf, IndexOf, ContextOf, Counted, Counting, ToWeld, ToMove,
            ToStart, ToInit
<1>0. /\ table_index \in -1 .. Len(Table) /\ Len(Table) \in Nat
      /\ Is("USER", table_index) \/ Is("MOVE", table_index)
           \/ Is("PAUSE", table_index) \/ AtUser => ~Is("WELD", table_index)
      /\ \A op : Is(op, table_index) => table_index \in -1 .. Len(Table) - 1
  BY TableFacts DEF ProgramTyped, Is, AtUser
<1>1. CASE AskConnected
  BY <1>0, BeforeFacts, <1>1, AskedPlaces DEF AskConnected
<1>2. CASE Boot
  BY <1>0, BeforeFacts, <1>2 DEF Boot
<1>3. CASE BootHomed
  BY <1>0, BeforeFacts, <1>3 DEF BootHomed
<1>4. CASE HomingPinged
  BY <1>0, BeforeFacts, <1>4 DEF HomingPinged
<1>5. CASE HomingRead
  BY <1>0, BeforeFacts, <1>5 DEF HomingRead
<1>6. CASE HomingMove
  BY <1>0, BeforeFacts, <1>6 DEF HomingMove
<1>7. CASE HomingDone
  BY <1>0, BeforeFacts, <1>7 DEF HomingDone
<1>8. CASE Scan
  BY <1>0, BeforeFacts, <1>8 DEF Scan
<1>9. CASE StartPinged
  BY <1>0, BeforeFacts, <1>9 DEF StartPinged
<1>10. CASE StartRead_
  BY <1>0, BeforeFacts, <1>10 DEF StartRead_
<1>11. CASE StartMove
  BY <1>0, BeforeFacts, <1>11 DEF StartMove
<1>12. CASE StartGrind
  BY <1>0, BeforeFacts, <1>12 DEF StartGrind
<1>13. CASE MoveNextPrinted
  BY <1>0, BeforeFacts, <1>13 DEF MoveNextPrinted
<1>14. CASE MoveNextPinged
  BY <1>0, BeforeFacts, <1>14 DEF MoveNextPinged, StateAt
<1>15. CASE ProcessPastTable
  BY <1>0, BeforeFacts, <1>15 DEF ProcessPastTable
<1>16. CASE ProcessCommand
  BY <1>0, BeforeFacts, <1>16 DEF ProcessCommand, Follows
<1>17. CASE WeldPinged
  BY <1>0, BeforeFacts, <1>17 DEF WeldPinged
<1>18. CASE ProgramSet
  BY <1>0, BeforeFacts, <1>18 DEF ProgramSet
<1>19. CASE MovePinged
  BY <1>0, BeforeFacts, <1>19 DEF MovePinged
<1>20. CASE StickyLogged
  BY <1>0, BeforeFacts, <1>20 DEF StickyLogged
<1>21. CASE MoveDone
  BY <1>0, BeforeFacts, <1>21 DEF MoveDone
<1>22. CASE MoveVerified
  BY <1>0, BeforeFacts, <1>22 DEF MoveVerified, StateAt
<1>23. CASE WaitPinged
  BY <1>0, BeforeFacts, <1>23 DEF WaitPinged
<1>24. CASE CheckResult
  BY <1>0, BeforeFacts, <1>24 DEF CheckResult
<1>25. CASE AskSupervisor
  BY <1>0, BeforeFacts, <1>25 DEF AskSupervisor
<1>26. CASE Denied
  BY <1>0, BeforeFacts, <1>26 DEF Denied
<1>27. CASE Unloading
  BY <1>0, BeforeFacts, <1>27 DEF Unloading
<1>28. CASE Unloaded
  BY <1>0, BeforeFacts, <1>28 DEF Unloaded
<1>29. CASE Emergency
  BY <1>0, BeforeFacts, <1>29 DEF Emergency, NoContext
<1>30. CASE Granted
  BY <1>0, BeforeFacts, <1>30 DEF Granted
<1>31. CASE EmergencyHomed
  BY <1>0, BeforeFacts, <1>31 DEF EmergencyHomed, Recovered, NoContext
<1>32. CASE EmergencyMove
  BY <1>0, BeforeFacts, <1>32 DEF EmergencyMove
<1>33. CASE EmergencyMoved
  BY <1>0, BeforeFacts, <1>33 DEF EmergencyMoved
<1>34. CASE EmergencyVerified
  BY <1>0, BeforeFacts, <1>34 DEF EmergencyVerified, Recovered, NoContext
<1>35. CASE GrindPressed
  BY <1>0, BeforeFacts, <1>35, PhaseKeeps DEF GrindPressed, Phase, SetPhase
<1>36. CASE GrindMove
  BY <1>0, BeforeFacts, <1>36 DEF GrindMove, Phase
<1>37. CASE GrindReached
  BY <1>0, BeforeFacts, <1>37, PhaseKeeps DEF GrindReached, SetPhase
<1>38. CASE ReturnMove
  BY <1>0, BeforeFacts, <1>38 DEF ReturnMove, Phase
<1>39. CASE Returned
  BY <1>0, BeforeFacts, <1>39 DEF Returned
<1>40. CASE ReturnVerified
  BY <1>0, BeforeFacts, <1>40 DEF ReturnVerified, NoContext
<1>41. CASE LoopBlocked
  BY <1>0, BeforeFacts, <1>41 DEF LoopBlocked
<1> QED BY <1>1, <1>2, <1>3, <1>4, <1>5, <1>6, <1>7, <1>8, <1>9, <1>10, <1>11,
           <1>12, <1>13, <1>14, <1>15, <1>16, <1>17, <1>18, <1>19, <1>20,
           <1>21, <1>22, <1>23, <1>24, <1>25, <1>26, <1>27, <1>28, <1>29,
           <1>30, <1>31, <1>32, <1>33, <1>34, <1>35, <1>36, <1>37, <1>38,
           <1>39, <1>40, <1>41 DEF Program

LEMMA CountedHolds == Spec => []Counted
<1>1. Init => Counted
  BY BeforeFacts DEF Init, Counted, Counting
<1>2. ControlInv /\ Counted /\ [Next]_vars => Counted'
  <2>1. ASSUME Counted, World PROVE Counted'
    <3>1. UNCHANGED <<state, table_index, welding_position, context>>
      BY <2>1, WorldKeepsProgram
    <3>2. at' = "crashed" \/ at' = at
      BY <2>1 DEF World, GrindWatchdog, CurtainBroken, CurtainClear,
         PressPedal, WeldEnds, DriverAnswer, PowerBack, CutUnderCommand,
         CutWhileIdle, RefusedCommand, NoisyReply, EmptyAnswer, Outside
    <3> QED BY <2>1, <3>1, <3>2 DEF Counted, Counting
  <2>2. ASSUME Counted, UNCHANGED vars PROVE Counted'
    BY <2>2 DEF vars, Counted, Counting
  <2> QED BY <2>1, <2>2, CountStep DEF Next
<1> QED BY <1>1, <1>2, ControlHolds, PTL DEF Spec

(* The point the supervisor is asked to confirm is the point the recovery   *)
(* resumes at: whatever emergencies and grindings came before, each has     *)
(* taken back what it had counted.                                          *)
THEOREM RestartNumberHolds == Spec => []RestartNumber
<1>1. ControlInv /\ Counted => RestartNumber
  <2> SUFFICES ASSUME ControlInv, Counted, at = "authorization",
                      state = "EMERGENCY_HANDLING",
                      context.ret \in {"START", "PROCESS_COMMAND"}
               PROVE  welding_position = Cardinality(Before(table_index))
    BY DEF RestartNumber, Before
  <2>1. table_index \in -1 .. Len(Table)
    BY DEF ControlInv, ProgramTyped
  <2> QED BY <2>1, BeforeFacts DEF Counted, Counting
<1> QED BY <1>1, ControlHolds, CountedHolds, PTL
-----------------------------------------------------------------------------
(* The types of the stage, of the outputs and of the results.               *)

USE DEF Axes, Unknown, KeepStage, KeepCall, KeepFlag, driverVars, Trouble,
        Disturb

(* Types of the stage driver. *)

(* A call goes on with the next axis or returns. *)
LEMMA AdvanceTyped ==
  ASSUME call \in Calls, axis \in Axes, ok \in BOOLEAN, Advance \/ Fail
  PROVE  call' \in Calls /\ axis' \in Axes /\ ok' \in BOOLEAN
<1>1. 1 \in Axes /\ NA \in Nat /\ (axis < NA => axis + 1 \in Axes)
  BY DriverAssumption
<1>2. ASSUME Advance PROVE call' \in Calls /\ axis' \in Axes /\ ok' \in BOOLEAN
  <2> HIDE DEF Axes
  <2> QED BY <1>1, <1>2 DEF Advance, Return, Calls
<1>3. ASSUME Fail PROVE call' \in Calls /\ axis' \in Axes /\ ok' \in BOOLEAN
  <2> HIDE DEF Axes
  <2> QED BY <1>1, <1>2, <1>3 DEF Fail, Return, Calls
<1> QED BY <1>2, <1>3

(* A motion ends on the axis, and the counter stays an integer. *)
LEMMA RestTyped ==
  ASSUME phys \in [Axes -> 0 .. MaxTravel], counter \in [Axes -> Int],
         axis \in Axes, NEW p \in 0 .. MaxTravel, Rest(p)
  PROVE  phys' \in [Axes -> 0 .. MaxTravel] /\ counter' \in [Axes -> Int]
<1> HIDE DEF Axes
<1>1. p - phys[axis] \in Int
  BY DriverAssumption
<1> QED BY <1>1 DEF Rest

LEMMA StoppedTyped ==
  ASSUME phys \in [Axes -> 0 .. MaxTravel], counter \in [Axes -> Int],
         axis \in Axes, Stopped
  PROVE  phys' \in [Axes -> 0 .. MaxTravel] /\ counter' \in [Axes -> Int]
<1>1. CASE UNCHANGED <<phys, counter>>
  BY <1>1
<1>2. CASE \E p \in 0 .. MaxTravel : Rest(p)
  BY <1>2, RestTyped
<1> QED BY <1>1, <1>2 DEF Stopped, Between

Ended == \/ SkipAxis \/ HomeAxis \/ MoveAxis \/ LimitSwitch \/ QueryAxis \/ Ping
         \/ NoAnswer \/ Reconnect \/ ErrorReply \/ GarbledReply \/ PowerCut
         \/ PowerOn \/ IdleCut

(* Every command, however it is answered, keeps the driver's types. *)
LEMMA DriverStep ==
  ASSUME DriverTypeOK, Ended
  PROVE  DriverTypeOK'
<1> USE DEF DriverTypeOK
<1> HIDE DEF Axes, Unknown
<1>0. /\ MaxTravel \in Nat /\ 0 \in 0 .. MaxTravel
      /\ Forgotten \in [Axes -> Nat \cup {Unknown}]
      /\ HomePosition \in [Axes -> Int]
  BY DriverAssumption DEF Forgotten, HomePosition
<1>1. Digits(counter[axis]) \in Nat
  BY DEF Digits
<1>2. CASE SkipAxis
  BY <1>2, AdvanceTyped DEF SkipAxis
<1>3. CASE HomeAxis
  <2>1. cached' \in [Axes -> Nat \cup {Unknown}]
    BY <1>3 DEF HomeAxis
  <2>2. phys' \in [Axes -> 0 .. MaxTravel] /\ counter' \in [Axes -> Int]
    BY <1>0, <1>3 DEF HomeAxis
  <2> QED BY <1>3, <2>1, <2>2, AdvanceTyped DEF HomeAxis
<1>4. CASE MoveAxis
  BY <1>4, AdvanceTyped, RestTyped DEF MoveAxis, InTravel
<1>5. CASE LimitSwitch
  <2>1. counter[axis] \in Int /\ phys[axis] \in 0 .. MaxTravel
    OBVIOUS
  <2>2. phys' = [phys EXCEPT ![axis] = AtLimit(Aim)]
    BY <1>5 DEF LimitSwitch, Rest
  <2>3. AtLimit(Aim) \in 0 .. MaxTravel
    <3>1. goal[axis] \in Int /\ Limited(goal[axis]) \in Int
      BY <1>0 DEF Limited
    <3>2. cached[axis] \in Int
      BY DEF Unknown
    <3>3. Aim \in Int
      BY <1>0, <2>1, <3>1, <3>2 DEF Aim
    <3> QED BY <1>0, <3>3 DEF AtLimit
  <2> QED BY <1>5, <2>3, AdvanceTyped, RestTyped DEF LimitSwitch
<1>6. CASE QueryAxis
  <2>1. cached' \in [Axes -> Nat \cup {Unknown}] /\ seen' \in [Axes -> Nat \cup {Unknown}]
    BY <1>1, <1>6 DEF QueryAxis
  <2> QED BY <1>6, <2>1, AdvanceTyped DEF QueryAxis
<1>7. CASE Ping
  BY <1>7, AdvanceTyped DEF Ping
<1>8. CASE NoAnswer
  BY <1>8 DEF NoAnswer
<1>15. ASSUME Omit PROVE seen' \in [Axes -> Nat \cup {Unknown}]
  BY <1>15 DEF Omit
<1>9. CASE Reconnect
  BY <1>0, <1>9, <1>15, AdvanceTyped DEF Reconnect
<1>10. CASE ErrorReply
  BY <1>10, <1>15, AdvanceTyped, StoppedTyped DEF ErrorReply
<1>11. CASE GarbledReply
  BY <1>0, <1>11, <1>15, AdvanceTyped, StoppedTyped DEF GarbledReply
<1>12. CASE PowerCut
  <2>1. power' \in BOOLEAN
    BY <1>12, Zenon DEF PowerCut
  <2> QED BY <1>12, <2>1, StoppedTyped DEF PowerCut
<1>13. CASE PowerOn
  BY <1>0, <1>13 DEF PowerOn
<1>14. CASE IdleCut
  <2>1. power' \in BOOLEAN
    BY <1>14, Zenon DEF IdleCut
  <2> QED BY <1>14, <2>1 DEF IdleCut
<1> QED BY <1>2, <1>3, <1>4, <1>5, <1>6, <1>7, <1>8, <1>9, <1>10, <1>11,
           <1>12, <1>13, <1>14 DEF Ended

(* What the program itself does to the driver: it starts a call or resets   *)
(* the flag; the table is moved by the controller alone.                    *)
LEMMA ProgramCalls ==
  ASSUME DriverTypeOK, ControlInv, Program
  PROVE  /\ UNCHANGED <<power, phys, counter, cached, lost>>
         /\ emergency' \in {emergency, FALSE}
         /\ faults' \in {faults, faults + 1}
         /\ \/ UNCHANGED <<call, axis, goal, ok, seen>>
            \/ /\ call' \in Calls /\ axis' = 1 /\ ok' = TRUE
               /\ seen' = HomePosition
               /\ goal' \in [Axes -> Int]
<1> USE DEF ClearAndHome, ClearAndGoto, Reading, Pinging, StartCall, StartHome,
            StartGoto, StartRead, StartPing, Calls
<1> HIDE DEF Axes, Unknown
<1>1. /\ goal \in [Axes -> Int] /\ Unload \in [Axes -> Int]
      /\ Grind \in [Axes -> Int] /\ context.target \in [Axes -> Int]
  <2>1. \A p \in Position \cup {HomePosition} : p \in [Axes -> Int]
    BY DriverAssumption DEF Position, HomePosition
  <2> QED BY <2>1, ManualAssumption
          DEF DriverTypeOK, ControlInv, ProgramTyped, Contexts
<1>2. Is("MOVE", table_index) => MoveTarget \in [Axes -> Int]
  BY TargetTyped, DriverAssumption DEF Position
<1>3. CASE \/ BootHomed \/ HomingRead \/ HomingDone \/ Scan \/ StartRead_
           \/ StartMove \/ StartGrind \/ MoveNextPinged \/ ProcessPastTable
           \/ ProcessCommand \/ WeldPinged \/ ProgramSet \/ StickyLogged
           \/ MoveVerified \/ CheckResult \/ AskSupervisor \/ Unloaded
           \/ EmergencyHomed \/ EmergencyVerified \/ GrindPressed
           \/ GrindReached \/ ReturnVerified \/ LoopBlocked
  <2>1. KeepDriver
    BY <1>3 DEF BootHomed, HomingRead, HomingDone, Scan, StartRead_, StartMove,
       StartGrind, MoveNextPinged, ProcessPastTable, ProcessCommand, WeldPinged,
       ProgramSet, StickyLogged, MoveVerified, CheckResult, AskSupervisor,
       Unloaded, EmergencyHomed, EmergencyVerified, GrindPressed, GrindReached,
       ReturnVerified, LoopBlocked
  <2> QED BY <2>1 DEF driverVars
<1>4. CASE \/ AskConnected \/ Boot \/ HomingPinged \/ HomingMove
           \/ StartPinged \/ MoveNextPrinted \/ MoveDone \/ Granted
           \/ EmergencyMoved \/ Returned
  BY <1>1, <1>4 DEF AskConnected, Boot, HomingPinged, HomingMove, StartPinged,
     MoveNextPrinted, MoveDone, Granted, EmergencyMoved, Returned
<1>5. CASE Unloading \/ EmergencyMove \/ GrindMove \/ ReturnMove
  BY <1>1, <1>5 DEF Unloading, EmergencyMove, GrindMove, ReturnMove
<1>6. CASE Emergency \/ Denied
  BY <1>6 DEF Emergency, Denied, Trouble, Disturb
<1>7. CASE MovePinged
  <2>1. Is("MOVE", table_index)
    BY <1>7 DEF MovePinged, ControlInv, IndexOf
  <2> QED BY <1>1, <1>2, <1>7, <2>1 DEF MovePinged, Trouble, Disturb
<1>8. CASE WaitPinged
  BY <1>1, <1>8 DEF WaitPinged, Trouble, Disturb
<1> QED BY <1>3, <1>4, <1>5, <1>6, <1>7, <1>8 DEF Program

LEMMA ProgramDriverStep ==
  ASSUME DriverTypeOK, ControlInv, Program
  PROVE  DriverTypeOK'
<1> HIDE DEF Axes, Unknown
<1>1. 1 \in Axes /\ HomePosition \in [Axes -> Nat \cup {Unknown}]
  BY DriverAssumption DEF HomePosition, Axes
<1>2. emergency' \in BOOLEAN /\ power' \in BOOLEAN /\ lost' \in BOOLEAN
  BY ProgramCalls, Zenon DEF DriverTypeOK
<1>3. ok' \in BOOLEAN
  BY ProgramCalls, Zenon DEF DriverTypeOK
<1>4. /\ phys' \in [Axes -> 0 .. MaxTravel] /\ counter' \in [Axes -> Int]
      /\ cached' \in [Axes -> Nat \cup {Unknown}]
  BY ProgramCalls, Zenon DEF DriverTypeOK
<1>5. /\ call' \in Calls /\ axis' \in Axes /\ goal' \in [Axes -> Int]
      /\ seen' \in [Axes -> Nat \cup {Unknown}]
  BY <1>1, ProgramCalls DEF DriverTypeOK
<1>6. faults' \in Nat
  <2>1. faults \in Nat /\ faults' \in {faults, faults + 1}
    BY ProgramCalls DEF DriverTypeOK
  <2> QED BY <2>1
<1> QED BY <1>2, <1>3, <1>4, <1>5, <1>6 DEF DriverTypeOK

(* The operator, the machines and the stage keep the driver's types. *)
LEMMA WorldDriverStep ==
  ASSUME DriverTypeOK, World
  PROVE  DriverTypeOK'
<1>1. CASE Ended
  BY <1>1, DriverStep
<1>2. CASE ~Ended
  <2>1. UNCHANGED <<power, phys, counter, cached, emergency, lost, call, axis,
                    goal, ok, seen>>
    BY <1>2 DEF World, GrindWatchdog, CurtainBroken, CurtainClear, PressPedal,
       WeldEnds, DriverAnswer, PowerBack, CutUnderCommand, CutWhileIdle,
       RefusedCommand, NoisyReply, EmptyAnswer, Ended, Answer, KeepFlag,
       KeepCall, driverVars
  <2>2. faults' \in {faults, faults + 1}
    BY <1>2 DEF World, GrindWatchdog, CurtainBroken, CurtainClear, PressPedal,
       WeldEnds, DriverAnswer, PowerBack, CutUnderCommand, CutWhileIdle,
       RefusedCommand, NoisyReply, EmptyAnswer, Ended, Answer, KeepFlag,
       KeepCall, driverVars, Trouble, Disturb
  <2>3. faults' \in Nat
    BY <2>2 DEF DriverTypeOK
  <2> QED BY <2>1, <2>3 DEF DriverTypeOK
<1> QED BY <1>1, <1>2

(* The outputs, inputs and results of the program and the machines. *)
EnvTyped ==
  /\ pedal \in BOOLEAN /\ head \in {"up", "weld"} /\ news \in BOOLEAN
  /\ program \in -1 .. Len(Table) /\ point \in -1 .. Len(Table)
  /\ level \in {"ok", "reject", "neither"}
  /\ curtain \in BOOLEAN /\ grind_request \in BOOLEAN /\ shift \in Shifts

LEMMA ProgramEnvStep ==
  ASSUME DriverTypeOK, ControlInv, EnvTyped, Program
  PROVE  EnvTyped'
<1> USE DEF EnvTyped
<1>1. table_index \in -1 .. Len(Table)
  BY DEF ControlInv, ProgramTyped
<1>2. /\ program' \in {program, table_index}
      /\ UNCHANGED <<point, level, curtain, shift, head>>
  BY DEF Program, AskConnected, Boot, BootHomed, HomingPinged, HomingRead,
     HomingMove, HomingDone, Scan, StartPinged, StartRead_, StartMove,
     StartGrind, MoveNextPrinted, MoveNextPinged, ProcessPastTable,
     ProcessCommand, WeldPinged, ProgramSet, MovePinged, StickyLogged, MoveDone,
     MoveVerified, WaitPinged, CheckResult, AskSupervisor, Denied, Unloading,
     Unloaded, Emergency, Granted, EmergencyHomed, EmergencyMove,
     EmergencyMoved, EmergencyVerified, GrindPressed, GrindMove, GrindReached,
     ReturnMove, Returned, ReturnVerified, LoopBlocked
<1>3. pedal' \in BOOLEAN /\ news' \in BOOLEAN
  <2>1. ok \in BOOLEAN
    BY DEF DriverTypeOK
  <2>2. CASE CheckResult
    BY <2>2, Zenon DEF CheckResult
  <2>3. CASE WaitPinged
    BY <2>3, Zenon DEF WaitPinged
  <2>4. CASE ~(CheckResult \/ WaitPinged)
    <3>1. pedal' \in {pedal, ok, TRUE, FALSE} /\ news' = news
      BY <2>4 DEF Program, AskConnected, Boot, BootHomed, HomingPinged,
         HomingRead, HomingMove, HomingDone, Scan, StartPinged, StartRead_,
         StartMove, StartGrind, MoveNextPrinted, MoveNextPinged,
         ProcessPastTable, ProcessCommand, WeldPinged, ProgramSet, MovePinged,
         StickyLogged, MoveDone, MoveVerified, AskSupervisor, Denied, Unloading,
         Unloaded, Emergency, Granted, EmergencyHomed, EmergencyMove,
         EmergencyMoved, EmergencyVerified, GrindPressed, GrindMove,
         GrindReached, ReturnMove, Returned, ReturnVerified, LoopBlocked
    <3> QED BY <2>1, <3>1, Zenon
  <2> QED BY <2>2, <2>3, <2>4
<1>4. grind_request' \in BOOLEAN
  <2>1. CASE MovePinged
    BY <2>1, Zenon DEF MovePinged
  <2>2. CASE ~MovePinged
    <3>1. grind_request' \in {grind_request, FALSE}
      BY <2>2 DEF Program, AskConnected, Boot, BootHomed, HomingPinged,
         HomingRead, HomingMove, HomingDone, Scan, StartPinged, StartRead_,
         StartMove, StartGrind, MoveNextPrinted, MoveNextPinged,
         ProcessPastTable, ProcessCommand, WeldPinged, ProgramSet, WaitPinged,
         CheckResult, StickyLogged, MoveDone, MoveVerified, AskSupervisor,
         Denied, Unloading, Unloaded, Emergency, Granted, EmergencyHomed,
         EmergencyMove, EmergencyMoved, EmergencyVerified, GrindPressed,
         GrindMove, GrindReached, ReturnMove, Returned, ReturnVerified,
         LoopBlocked
    <3> QED BY <3>1, Zenon
  <2> QED BY <2>1, <2>2
<1> QED BY <1>1, <1>2, <1>3, <1>4

LEMMA WorldEnvStep ==
  ASSUME ControlInv, EnvTyped, World
  PROVE  EnvTyped'
<1> USE DEF EnvTyped
<1>1. table_index \in -1 .. Len(Table)
  BY DEF ControlInv, ProgramTyped
<1>2. CASE WeldEnds
  <2>1. news' \in BOOLEAN /\ level' \in {"ok", "reject", "neither"}
    BY <1>2, Zenon DEF WeldEnds
  <2> QED BY <1>2, <2>1 DEF WeldEnds
<1>3. CASE GrindWatchdog \/ CurtainBroken \/ CurtainClear
  <2>1. curtain' \in BOOLEAN /\ grind_request' \in BOOLEAN
    BY <1>3, Zenon DEF GrindWatchdog, CurtainBroken, CurtainClear
  <2> QED BY <1>3, <2>1 DEF GrindWatchdog, CurtainBroken, CurtainClear
<1>4. CASE PressPedal
  BY <1>1, <1>4 DEF PressPedal
<1>5. CASE ~(WeldEnds \/ GrindWatchdog \/ CurtainBroken \/ CurtainClear
              \/ PressPedal)
  <2>1. UNCHANGED <<weldVars, envVars>>
    BY <1>5 DEF World, DriverAnswer, PowerBack, CutUnderCommand, CutWhileIdle,
       RefusedCommand, NoisyReply, EmptyAnswer, Outside
  <2> QED BY <2>1
<1> QED BY <1>2, <1>3, <1>4, <1>5

(* There are no more entries before an entry than its index says. *)
LEMMA BeforeBound ==
  \A t \in 0 .. Len(Table) : Cardinality(Before(t)) <= t
<1> SUFFICES ASSUME NEW t \in 0 .. Len(Table)
             PROVE  Cardinality(Before(t)) <= t
  OBVIOUS
<1>0. t \in Int /\ t >= 0 /\ 0 \in Int /\ t - 1 \in Int
  BY TableFacts
<1>1. IsFiniteSet(0 .. t - 1)
      /\ Cardinality(0 .. t - 1) = IF 0 > t - 1 THEN 0 ELSE t - 1 - 0 + 1
  BY <1>0, FS_Interval, Zenon
<1>2. Before(t) \subseteq 0 .. t - 1
  BY <1>0, TableFacts DEF Before
<1>3. Cardinality(Before(t)) <= Cardinality(0 .. t - 1)
  BY <1>1, <1>2, FS_Subset, Zenon
<1> QED BY <1>0, <1>1, <1>3

(* welding_position never leaves the number of the table's entries. *)
CountTyped == welding_position \in 0 .. Len(Table)

LEMMA CountTypedStep ==
  ASSUME ControlInv, Counted, CountTyped, Program
  PROVE  CountTyped'
<1> USE DEF ControlInv, CountTyped
<1>0. Len(Table) \in Nat
  BY TableFacts
<1>1. CASE WeldPinged
  <2>1. Is("WELD", table_index) /\ at = "weld_ping" /\ state = "PROCESS_COMMAND"
    BY <1>1 DEF WeldPinged, IndexOf, PlaceOf
  <2>2. welding_position = Cardinality(Before(table_index))
    <3>1. ~Counting /\ table_index \in -1 .. Len(Table)
      BY <2>1 DEF Counting, ProgramTyped
    <3> QED BY <2>1, <3>1, BeforeFacts DEF Counted
  <2>3. table_index \in 0 .. Len(Table) - 1
    BY <2>1, TableFacts
  <2>4. welding_position <= table_index
    BY <2>2, <2>3, <1>0, BeforeBound
  <2>5. welding_position' \in {welding_position, welding_position + 1}
    BY <1>1 DEF WeldPinged
  <2> QED BY <1>0, <2>3, <2>4, <2>5
<1>2. CASE WaitPinged
  <2>1. at = "wait_ping" /\ state = "WAIT_WELDING_DONE"
    BY <1>2 DEF WaitPinged, PlaceOf
  <2>2. table_index \in -1 .. Len(Table)
    BY DEF ProgramTyped
  <2>3. welding_position >= 1
    BY <2>1, <2>2, BeforeFacts DEF Counted, Counting
  <2>4. welding_position' \in {welding_position, welding_position - 1}
    BY <1>2 DEF WaitPinged
  <2> QED BY <1>0, <2>3, <2>4
<1>3. CASE ~(WeldPinged \/ WaitPinged)
  <2>1. welding_position' \in {welding_position, 0}
    BY <1>3 DEF Program, AskConnected, Boot, BootHomed, HomingPinged,
       HomingRead, HomingMove, HomingDone, Scan, StartPinged, StartRead_,
       StartMove, StartGrind, MoveNextPrinted, MoveNextPinged,
       ProcessPastTable, ProcessCommand, ProgramSet, MovePinged, StickyLogged,
       MoveDone, MoveVerified, CheckResult, AskSupervisor, Denied, Unloading,
       Unloaded, Emergency, Granted, EmergencyHomed, EmergencyMove,
       EmergencyMoved, EmergencyVerified, GrindPressed, GrindMove,
       GrindReached, ReturnMove, Returned, ReturnVerified, LoopBlocked
  <2> QED BY <1>0, <2>1
<1> QED BY <1>1, <1>2, <1>3

LEMMA InitTypes == Init => TypeOK
<1> SUFFICES ASSUME Init PROVE TypeOK
  OBVIOUS
<1>1. DriverTypeOK
  <2> HIDE DEF Axes, Unknown
  <2>1. 1 \in Axes /\ HomePosition \in [Axes -> Nat]
        /\ Forgotten \in [Axes -> Nat \cup {Unknown}]
    BY DriverAssumption DEF HomePosition, Forgotten, Axes
  <2>2. counter \in [Axes -> Int]
    BY <2>1, DriverAssumption DEF Init, DriverInit
  <2>3. /\ power \in BOOLEAN /\ emergency \in BOOLEAN /\ ok \in BOOLEAN
        /\ lost \in BOOLEAN
    BY Zenon DEF Init, DriverInit
  <2>4. call \in Calls /\ axis \in Axes /\ faults \in Nat
    BY <2>1 DEF Init, DriverInit, Calls
  <2> QED BY <2>1, <2>2, <2>3, <2>4 DEF Init, DriverInit, DriverTypeOK
<1>2. pedal \in BOOLEAN /\ news \in BOOLEAN /\ grind_request \in BOOLEAN
      /\ curtain \in BOOLEAN
  BY Zenon DEF Init
<1>3. ProgramTyped
  BY InitControl DEF ControlInv
<1> QED BY <1>1, <1>2, <1>3, TableFacts DEF Init, TypeOK, ProgramTyped

(* Every variable keeps its type: table_index runs at most one past the     *)
(* table, and welding_position counts no point that the table does not      *)
(* have, through every emergency and every grinding: TypeOK.                *)
THEOREM ManualTyped == Spec => []TypeOK
<1> DEFINE T == DriverTypeOK /\ EnvTyped /\ CountTyped
<1>1. Init => T
  BY InitTypes DEF TypeOK, EnvTyped, CountTyped
<1>2. ControlInv /\ Counted /\ T /\ [Next]_vars => T'
  <2>1. ASSUME ControlInv, Counted, T, Program PROVE T'
    BY <2>1, ProgramDriverStep, ProgramEnvStep, CountTypedStep
  <2>2. ASSUME ControlInv, T, World PROVE T'
    <3>1. UNCHANGED welding_position
      BY <2>2, WorldKeepsProgram
    <3> QED BY <2>2, <3>1, WorldDriverStep, WorldEnvStep DEF CountTyped
  <2>3. ASSUME T, UNCHANGED vars PROVE T'
    BY <2>3 DEF vars, DriverTypeOK, EnvTyped, CountTyped
  <2> QED BY <2>1, <2>2, <2>3 DEF Next
<1>3. ControlInv /\ T => TypeOK
  BY DEF TypeOK, ControlInv, ProgramTyped, EnvTyped, CountTyped
<1> QED BY <1>1, <1>2, <1>3, ControlHolds, CountedHolds, PTL DEF Spec
-----------------------------------------------------------------------------
(* The reference of the table.  It holds in the environment the recovery is *)
(* made for: power fails and replies are garbled only where nobody grinds,  *)
(* power fails between two calls only while a recovery waits, and homing is *)
(* not refused.                                                             *)

Tolerated ==
  /\ \A S \in Shifts : \/ S \cap {"grind", "sticky"} = {}
                       \/ S \cap {"cut", "idle_cut", "garbled"} = {}
  /\ \A s \in States : <<"idle_cut", s>> \in Exposed => s = "EMERGENCY_HANDLING"
  /\ <<"error", "HOMING">> \notin Exposed

HomeCalls == {"boot_home", "homing_home", "emergency_home"}
GotoCalls == {"move_goto", "unload_goto", "emergency_goto", "grind_goto",
              "return_goto"}
ReadCalls == {"homing_read", "start_read", "sticky_log", "move_verify",
              "emergency_verify", "return_verify"}
PingCalls == {"homing_ping", "start_ping", "next_print", "next_ping",
              "weld_ping", "move_ping", "wait_ping"}

(* Which driver method each place waits for; a crash leaves it unfinished.  *)
CallOf ==
  /\ at # "crashed" =>
       /\ call = "home" => at \in HomeCalls
       /\ call \in {"goto", "sync"} => at \in GotoCalls
       /\ call = "read" => at \in ReadCalls
       /\ call = "ping" => at \in PingCalls
  /\ lost => call # "idle"

Good == power /\ Referenced
Flagged == emergency \/ lost

(* Power is missing between calls only where the recovery waits. *)
PowerOf ==
  ~power /\ call = "idle" =>
    /\ state = "EMERGENCY_HANDLING"
    /\ at \in {"loop", "authorization", "restart_button"}

(* Grinding belongs to behaviours in which the controller is never lost. *)
Grinding == shift \cap {"grind", "sticky"} # {}

GrindOf ==
  /\ grind_request \/ state = "GRINDING" \/ at = "sticky_log" => Grinding
  /\ Grinding => power /\ ~lost /\ ~emergency

(* The places that rely on the reference without looking at the flag ... *)
Strict ==
  \/ at = "loop" /\ state \in {"WAIT_WELDING_DONE", "CHECK_WELD_RESULT",
                               "ERROR_WELD", "GRINDING"}
  \/ at = "loop" /\ state = "PROCESS_COMMAND" /\ Is("WELD", table_index)
  \/ at = "authorization" /\ state = "ERROR_WELD"
  \/ at \in {"program", "sticky_log", "grind_goto", "return_goto",
             "return_verify"}

(* ... and those where a lost reference is flagged. *)
Warned ==
  \/ at = "loop" /\ state \in {"HOMING", "INIT", "START", "MOVE_NEXT_COMMAND"}
  \/ at = "loop" /\ state = "PROCESS_COMMAND" /\ ~Is("WELD", table_index)
  \/ at \in {"homing_ping", "homing_read", "start_ping", "start_read",
             "start_button", "next_print", "next_ping", "move_ping",
             "move_goto", "move_verify", "unload_goto"}

AtHome(S) == \A a \in S : phys[a] = 0 /\ (power => counter[a] = 0)
Homed == IF call = "home" THEN 1 .. axis - 1 ELSE Axes

(* A power failure that the program has not noticed yet cleared the counter. *)
Zeroed == power => counter = HomePosition

ReferenceOf ==
  /\ Strict => Good
  /\ Warned => Good \/ Flagged
  /\ at \in {"weld_ping", "wait_ping"} /\ ok => Good \/ lost
  /\ at \in HomeCalls /\ ok /\ ~lost => AtHome(Homed)
  /\ at \in {"boot_home", "homing_home"} => ok \/ emergency
  /\ at = "move_goto" /\ ok =>
       IF call = "goto" THEN Good \/ lost ELSE Good \/ Zeroed
  /\ at = "move_verify" /\ ok /\ ~lost =>
       Good \/ (power /\ counter = HomePosition)
  /\ at = "restart_button" => AtHome(Axes)
  /\ at = "emergency_goto" =>
       Flagged \/ (IF power THEN Referenced ELSE AtHome(Axes))
  /\ at = "emergency_verify" /\ ok => lost \/ Good

(* What positions_in_mm has read is what the controller has counted. *)
Read == IF call = "read" THEN 1 .. axis - 1 ELSE Axes

SeenOf ==
  at \in {"move_verify", "emergency_verify", "return_verify"} /\ ok /\ ~lost
    => \A a \in Read : seen[a] = counter[a]

(* The target of a recovery is the position of the entry it resumes at. *)
TargetOf ==
  state \in {"EMERGENCY_HANDLING", "GRINDING"}
      \/ at \in {"sticky_log", "move_goto", "move_verify"}
    => /\ ToMove => context.target = MoveTarget
       /\ ToWeld => context.target = WeldTarget

(* A WELD entry is processed at the position of the entry before it, and    *)
(* waited for with its own program.                                         *)
Arrived ==
  /\ Is("WELD", table_index)
       /\ state \in {"PROCESS_COMMAND", "WAIT_WELDING_DONE", "CHECK_WELD_RESULT"}
     => phys = WeldTarget /\ call \in {"idle", "ping", "read"}
  /\ state \in {"WAIT_WELDING_DONE", "CHECK_WELD_RESULT"} => program = table_index

ReferenceInv ==
  /\ CallOf /\ PowerOf /\ GrindOf /\ ReferenceOf /\ SeenOf /\ TargetOf
  /\ Arrived /\ PedalAtTarget
-----------------------------------------------------------------------------
(* What an answer of the controller does to the reference of the table.     *)

(* Every counted step keeps the counter at the place of the table. *)
LEMMA RestReferenced ==
  ASSUME DriverTypeOK, NEW p \in 0 .. MaxTravel, Rest(p), Referenced
  PROVE  Referenced'
<1> HIDE DEF Axes
<1>1. /\ p \in Int /\ phys[axis] \in Int /\ counter[axis] = phys[axis]
      /\ phys = counter
  BY DriverAssumption DEF DriverTypeOK, Referenced
<1>2. p = counter[axis] + (p - phys[axis])
  BY <1>1
<1> QED BY <1>1, <1>2 DEF Rest, Referenced

LEMMA StoppedReferenced ==
  ASSUME DriverTypeOK, Stopped
  PROVE  /\ Referenced => Referenced'
         /\ ~Moving => UNCHANGED <<phys, counter>>
<1>1. CASE UNCHANGED <<phys, counter>>
  BY <1>1 DEF Referenced
<1>2. CASE Moving /\ \E p \in 0 .. MaxTravel : Rest(p)
  BY <1>2, RestReferenced
<1> QED BY <1>1, <1>2 DEF Stopped, Between

LEMMA HomeReferenced ==
  ASSUME DriverTypeOK, HomeAxis
  PROVE  Referenced => Referenced'
<1> HIDE DEF Axes
<1> QED BY DEF HomeAxis, Referenced, DriverTypeOK

(* How the call in progress goes on. *)
LEMMA AdvanceGoes ==
  ASSUME DriverTypeOK, call # "idle", Advance \/ Fail
  PROVE  /\ call' \in {call, "idle"} \/ (call = "goto" /\ call' = "sync")
         /\ call' = call => axis < NA /\ axis' = axis + 1
         /\ call' = "idle" => axis = NA \/ call = "ping" \/ ~ok'
         /\ ok' => ok
         /\ call = "goto" /\ Advance => call' # "idle"
BY DriverAssumption DEF Advance, Fail, Return, DriverTypeOK, Calls

(* The command of the call in progress is answered, well or badly. *)
Replied == Answer \/ ErrorReply \/ GarbledReply

LEMMA RepliedKeeps ==
  ASSUME DriverTypeOK, lost => call # "idle", Replied
  PROVE  /\ call # "idle" /\ power' = power
         /\ emergency => emergency'
         /\ lost => lost' \/ emergency'
         /\ lost' => call' = call
         /\ ~power => lost' \/ call' # "idle"
<1>1. Ready \/ Reconnect
  BY DEF Replied, Answer, SkipAxis, HomeAxis, MoveAxis, LimitSwitch, QueryAxis,
     Ping, NoAnswer, ErrorReply, GarbledReply, Commanding
<1>2. call # "idle"
  BY <1>1 DEF Ready, Reconnect
<1>3. power' = power
  BY DEF Replied, Answer, SkipAxis, HomeAxis, MoveAxis, LimitSwitch, QueryAxis,
     Ping, NoAnswer, Reconnect, ErrorReply, GarbledReply
<1>4. emergency => emergency'
  BY DEF Replied, Answer, SkipAxis, HomeAxis, MoveAxis, LimitSwitch, QueryAxis,
     Ping, NoAnswer, Reconnect, ErrorReply, GarbledReply
<1>5. lost => lost' \/ emergency'
  BY DEF Replied, Answer, SkipAxis, HomeAxis, MoveAxis, LimitSwitch, QueryAxis,
     Ping, NoAnswer, Reconnect, ErrorReply, GarbledReply
<1>6. lost' => call' = call
  BY DEF Replied, Answer, SkipAxis, HomeAxis, MoveAxis, LimitSwitch, QueryAxis,
     Ping, NoAnswer, Reconnect, ErrorReply, GarbledReply, Commanding, Ready
<1>7. ~power => lost' \/ call' # "idle"
  BY <1>2, AdvanceGoes DEF Replied, Answer, SkipAxis, HomeAxis, MoveAxis,
     LimitSwitch, QueryAxis, Ping, NoAnswer, Reconnect, ErrorReply, GarbledReply
<1> QED BY <1>2, <1>3, <1>4, <1>5, <1>6, <1>7

LEMMA RepliedCall ==
  ASSUME DriverTypeOK, lost => call # "idle", Replied
  PROVE  /\ call' \in {call, "idle"} \/ (call = "goto" /\ call' = "sync")
         /\ call # "sync" /\ ok' /\ ~lost' => ok /\ ~lost
<1>1. CASE NoAnswer
  BY <1>1 DEF NoAnswer
<1>2. CASE ~NoAnswer
  <2>1. Advance \/ Fail
    BY <1>2 DEF Replied, Answer, SkipAxis, HomeAxis, MoveAxis, LimitSwitch,
       QueryAxis, Ping, Reconnect, ErrorReply, GarbledReply
  <2>2. lost /\ ~lost' => Fail
    BY <1>2 DEF Replied, Answer, SkipAxis, HomeAxis, MoveAxis, LimitSwitch,
       QueryAxis, Ping, Reconnect, ErrorReply, GarbledReply, Commanding, Ready
  <2>3. Fail /\ call # "sync" => ~ok'
    BY DEF Fail, Return
  <2>4. call # "idle"
    BY RepliedKeeps
  <2> QED BY <2>1, <2>2, <2>3, <2>4, AdvanceGoes
<1> QED BY <1>1, <1>2

(* Only motions that are counted, or that end at the home switch.           *)
LEMMA RepliedReferenced ==
  ASSUME DriverTypeOK, lost => call # "idle", Replied
  PROVE  /\ Referenced => Referenced'
         /\ ~power => UNCHANGED <<phys, counter>>
         /\ call \in {"read", "ping"} => UNCHANGED <<phys, counter>>
<1>1. CASE SkipAxis \/ QueryAxis \/ Ping \/ NoAnswer \/ Reconnect
  BY <1>1 DEF SkipAxis, QueryAxis, Ping, NoAnswer, Reconnect, Referenced
<1>2. CASE HomeAxis
  BY <1>2, HomeReferenced DEF HomeAxis, Moving
<1>3. CASE MoveAxis
  BY <1>3, RestReferenced DEF MoveAxis, InTravel, Moving
<1>4. CASE LimitSwitch
  <2>1. AtLimit(Aim) \in 0 .. MaxTravel
    <3> HIDE DEF Axes, Unknown
    <3>1. /\ goal[axis] \in Int /\ MaxTravel \in Nat /\ phys[axis] \in Int
          /\ cached[axis] \in Int
      BY DriverAssumption DEF DriverTypeOK, Unknown
    <3>2. Aim \in Int
      BY <3>1 DEF Aim, Limited
    <3> QED BY <3>1, <3>2 DEF AtLimit
  <2> QED BY <1>4, <2>1, RestReferenced DEF LimitSwitch, Moving
<1>5. CASE ErrorReply
  BY <1>5, StoppedReferenced DEF ErrorReply, Moving
<1>6. CASE GarbledReply
  BY <1>6, StoppedReferenced DEF GarbledReply, Moving
<1> QED BY <1>1, <1>2, <1>3, <1>4, <1>5, <1>6 DEF Replied, Answer

(* When a call over all axes goes on, it has passed this axis.              *)
LEMMA PassedAxes ==
  ASSUME DriverTypeOK, call \in {"home", "read", "sync"}, Advance
  PROVE  (IF call' = call THEN 1 .. axis' - 1 ELSE Axes)
           \subseteq {a \in Axes : a < axis \/ a = axis}
<1>1. CASE axis < NA
  <2>1. axis \in 1 .. NA /\ axis \in Int /\ NA \in Int /\ axis # NA
    BY <1>1, DriverAssumption DEF DriverTypeOK
  <2>2. call' = call /\ axis' = axis + 1
    BY <1>1, <2>1 DEF Advance, Return
  <2> QED BY <2>1, <2>2
<1>2. CASE ~(axis < NA)
  <2>1. axis = NA /\ NA \in Int
    BY <1>2, DriverAssumption DEF DriverTypeOK
  <2>2. call' = "idle"
    BY <1>2, <2>1 DEF Advance, Return
  <2> QED BY <2>1, <2>2
<1> QED BY <1>1, <1>2

(* home() has homed the axes it has passed. *)
LEMMA RepliedHome ==
  ASSUME DriverTypeOK, lost => call # "idle", Replied,
         call = "home", ok', ~lost', AtHome(Homed)
  PROVE  AtHome(Homed)'
<1>1. HomeAxis
  BY DEF Replied, Answer, SkipAxis, HomeAxis, MoveAxis, LimitSwitch, QueryAxis,
     Ping, NoAnswer, Reconnect, ErrorReply, GarbledReply, Kind, Fail, Return
<1>2. /\ phys' = [phys EXCEPT ![axis] = 0]
      /\ counter' = [counter EXCEPT ![axis] = 0]
      /\ power /\ power' /\ Advance
  BY <1>1 DEF HomeAxis
<1>3. \A a \in Axes : (a < axis => phys[a] = 0 /\ counter[a] = 0)
  BY <1>2 DEF AtHome, Homed, DriverTypeOK
<1>4. Homed' \subseteq {a \in Axes : a < axis \/ a = axis}
  BY <1>2, PassedAxes DEF Homed
<1> QED BY <1>2, <1>3, <1>4 DEF AtHome, DriverTypeOK

LEMMA ReadAnswered ==
  ASSUME Replied, call = "read", ok', ~lost'
  PROVE  QueryAxis /\ power
BY DEF Replied, Answer, SkipAxis, HomeAxis, MoveAxis, LimitSwitch, QueryAxis,
   Ping, NoAnswer, Reconnect, ErrorReply, GarbledReply, Moving, Fail

(* positions_in_mm has read what the controller has counted for the axes it *)
(* has passed; the digits lose no sign at a reference or right after it.    *)
LEMMA RepliedRead ==
  ASSUME DriverTypeOK, lost => call # "idle", Replied,
         Referenced \/ counter = HomePosition,
         call = "read", ok', ~lost', \A a \in Read : seen[a] = counter[a]
  PROVE  /\ \A a \in Read' : seen'[a] = counter'[a]
         /\ counter' = counter
<1>1. QueryAxis
  BY ReadAnswered
<1>2. /\ seen' = [seen EXCEPT ![axis] = Digits(counter[axis])]
      /\ counter' = counter /\ Advance
  BY <1>1 DEF QueryAxis
<1>3. \A a \in Axes : (a < axis => seen[a] = counter[a])
  BY DEF Read, DriverTypeOK
<1>4. Read' \subseteq {a \in Axes : a < axis \/ a = axis}
  BY <1>2, PassedAxes DEF Read
<1>5. Digits(counter[axis]) = counter[axis]
  BY DriverAssumption DEF Digits, Referenced, DriverTypeOK, HomePosition
<1> QED BY <1>2, <1>3, <1>4, <1>5 DEF DriverTypeOK

(* goto_position reads the positions back only when nothing was lost, and   *)
(* moves nothing while it does.                                             *)
LEMMA RepliedGoto ==
  ASSUME DriverTypeOK, lost => call # "idle", Replied
  PROVE  /\ ok' => ok
         /\ call = "goto" /\ call' = "sync" => ~lost /\ ~lost'
         /\ call = "goto" /\ call' = "idle" => ~ok'
         /\ call = "sync" => UNCHANGED <<phys, counter>>
<1>1. call # "idle"
  BY RepliedKeeps
<1>2. CASE NoAnswer
  BY <1>1, <1>2 DEF NoAnswer
<1>3. CASE ~NoAnswer
  <2>1. Advance \/ Fail
    BY <1>3 DEF Replied, Answer, SkipAxis, HomeAxis, MoveAxis, LimitSwitch,
       QueryAxis, Ping, Reconnect, ErrorReply, GarbledReply
  <2>2. call = "goto" /\ (lost \/ lost') => Fail
    BY <1>3 DEF Replied, Answer, SkipAxis, HomeAxis, MoveAxis, LimitSwitch,
       QueryAxis, Ping, Reconnect, ErrorReply, GarbledReply, Commanding, Ready
  <2>3. call = "goto" /\ Fail => call' = "idle" /\ ~ok'
    BY DEF Fail, Return
  <2>4. call = "sync" => UNCHANGED <<phys, counter>>
    BY <1>3 DEF Replied, Answer, SkipAxis, HomeAxis, MoveAxis, LimitSwitch,
       QueryAxis, Ping, Reconnect, ErrorReply, GarbledReply, Moving, Stopped
  <2> QED BY <1>1, <2>1, <2>2, <2>3, <2>4, AdvanceGoes
<1> QED BY <1>2, <1>3

(* Homing that fails without an error answer has raised the flag. *)
LEMMA HomedOrFlagged ==
  ASSUME DriverTypeOK, Answer \/ GarbledReply, call = "home", ok \/ emergency
  PROVE  ok' \/ emergency'
<1>1. CASE HomeAxis
  BY <1>1 DEF HomeAxis, Advance, Return
<1>2. CASE NoAnswer \/ Reconnect \/ GarbledReply
  BY <1>2 DEF NoAnswer, Reconnect, GarbledReply
<1> QED BY <1>1, <1>2 DEF Answer, SkipAxis, MoveAxis, LimitSwitch, QueryAxis,
           Ping, Kind
-----------------------------------------------------------------------------
(* The reference invariant is kept by the stage.                            *)

(* The parts of the invariant that look at the program alone. *)
LEMMA PlacesKept ==
  ASSUME UNCHANGED progVars
  PROVE  /\ UNCHANGED <<at, state, table_index, context>>
         /\ Strict' = Strict /\ Warned' = Warned
         /\ WeldTarget' = WeldTarget /\ MoveTarget' = MoveTarget
         /\ \A op : Is(op, table_index)' = Is(op, table_index)
         /\ ToMove' = ToMove /\ ToWeld' = ToWeld
BY DEF progVars, Strict, Warned, WeldTarget, MoveTarget, Is, Entry, ToMove, ToWeld

(* While the pedal is enabled no motion is under way. *)
LEMMA PedalStands ==
  ASSUME ControlInv, ReferenceInv, UNCHANGED <<progVars, pedal, program>>,
         call \in {"idle", "ping", "read"} => UNCHANGED phys
  PROVE  PedalAtTarget'
<1>1. pedal => UNCHANGED phys
  BY DEF ControlInv, PedalOf, IndexOf, ReferenceInv, Arrived
<1> QED BY <1>1, PlacesKept DEF ReferenceInv, PedalAtTarget, progVars

LEMMA RepliedReference ==
  ASSUME DriverTypeOK, ControlInv, ReferenceInv, Replied,
         UNCHANGED <<progVars, weldVars, envVars>>,
         state = "HOMING" => Answer \/ GarbledReply,
         Grinding => ~GarbledReply
  PROVE  ReferenceInv'
<1> USE DEF HomeCalls, GotoCalls, ReadCalls, PingCalls
<1>0. (lost => call # "idle") /\ CallOf /\ PowerOf /\ GrindOf
        /\ ReferenceOf /\ SeenOf /\ TargetOf /\ Arrived /\ PlaceOf
  BY DEF ReferenceInv, CallOf, ControlInv
<1>1. /\ call # "idle" /\ power' = power
      /\ emergency => emergency'
      /\ lost => lost' \/ emergency'
      /\ lost' => call' = call
      /\ ~power => lost' \/ call' # "idle"
      /\ call' \in {call, "idle"} \/ (call = "goto" /\ call' = "sync")
      /\ call # "sync" /\ ok' /\ ~lost' => ok /\ ~lost
      /\ Referenced => Referenced'
      /\ ~power => UNCHANGED <<phys, counter>>
      /\ call \in {"read", "ping"} => UNCHANGED <<phys, counter>>
  BY <1>0, RepliedKeeps, RepliedCall, RepliedReferenced
<1>2. /\ UNCHANGED <<at, state, table_index, context>>
      /\ Strict' = Strict /\ Warned' = Warned
      /\ WeldTarget' = WeldTarget /\ MoveTarget' = MoveTarget
      /\ \A op : Is(op, table_index)' = Is(op, table_index)
      /\ ToMove' = ToMove /\ ToWeld' = ToWeld
  BY PlacesKept
<1>3. call \in {"home", "goto", "sync", "read", "ping"}
  BY <1>1 DEF DriverTypeOK, Calls
<1>4. CallOf'
  BY <1>0, <1>1, <1>2 DEF CallOf
<1>5. PowerOf'
  BY <1>0, <1>1, <1>2 DEF PowerOf
<1>6. GrindOf'
  <2>1. Grinding' = Grinding /\ UNCHANGED grind_request
    BY DEF Grinding, envVars
  <2>2. Grinding => ~lost' /\ ~emergency'
    BY <1>0 DEF GrindOf, Replied, Answer, SkipAxis, HomeAxis, MoveAxis,
       LimitSwitch, QueryAxis, Ping, NoAnswer, Reconnect, ErrorReply
  <2> QED BY <1>0, <1>1, <1>2, <2>1, <2>2 DEF GrindOf
<1>7. ReferenceOf'
  <2> USE DEF ReferenceOf
  <2>1. (Strict => Good)' /\ (Warned => Good \/ Flagged)'
    BY <1>0, <1>1, <1>2 DEF Good, Flagged
  <2>2. (at \in {"weld_ping", "wait_ping"} /\ ok => Good \/ lost)'
    BY <1>0, <1>1, <1>2, <1>3 DEF Good, CallOf
  <2>3. (at \in HomeCalls /\ ok /\ ~lost => AtHome(Homed))'
    BY <1>0, <1>1, <1>2, <1>3, RepliedHome DEF CallOf
  <2>4. (at \in {"boot_home", "homing_home"} => ok \/ emergency)'
    BY <1>0, <1>1, <1>2, <1>3, HomedOrFlagged DEF CallOf, PlaceOf
  <2>5. (at = "move_goto" /\ ok =>
           IF call = "goto" THEN Good \/ lost ELSE Good \/ Zeroed)'
    BY <1>0, <1>1, <1>2, <1>3, RepliedGoto DEF Good, Zeroed, CallOf
  <2>6. (at = "move_verify" /\ ok /\ ~lost =>
           Good \/ (power /\ counter = HomePosition))'
    BY <1>0, <1>1, <1>2, <1>3 DEF Good, CallOf
  <2>7. (at = "restart_button" => AtHome(Axes))'
    BY <1>0, <1>1, <1>2, <1>3 DEF CallOf
  <2>8. (at = "emergency_goto" =>
           Flagged \/ (IF power THEN Referenced ELSE AtHome(Axes)))'
    BY <1>0, <1>1, <1>2 DEF Flagged, AtHome
  <2>9. (at = "emergency_verify" /\ ok => lost \/ Good)'
    BY <1>0, <1>1, <1>2, <1>3 DEF Good, CallOf
  <2> QED BY <2>1, <2>2, <2>3, <2>4, <2>5, <2>6, <2>7, <2>8, <2>9
<1>8. SeenOf'
  <2> SUFFICES ASSUME at \in {"move_verify", "emergency_verify",
                              "return_verify"}, ok', ~lost'
               PROVE  \A a \in Read' : seen'[a] = counter'[a]
    BY <1>2 DEF SeenOf
  <2>1. call = "read" /\ ok /\ ~lost
    BY <1>0, <1>1, <1>3 DEF CallOf
  <2>2. Referenced \/ counter = HomePosition
    BY <1>0, <2>1 DEF ReferenceOf, Strict, Good
  <2> QED BY <1>0, <2>1, <2>2, RepliedRead DEF SeenOf
<1>9. TargetOf'
  BY <1>0, <1>2 DEF TargetOf
<1>10. Arrived'
  BY <1>0, <1>1, <1>2, <1>3 DEF Arrived, weldVars
<1>11. PedalAtTarget'
  BY <1>1, PedalStands DEF weldVars
<1> QED BY <1>4, <1>5, <1>6, <1>7, <1>8, <1>9, <1>10, <1>11 DEF ReferenceInv

LEMMA PowerReference ==
  ASSUME DriverTypeOK, ControlInv, ReferenceInv,
         UNCHANGED <<progVars, weldVars, envVars>>,
         \/ PowerOn
         \/ PowerCut /\ ~Grinding
         \/ /\ IdleCut /\ ~Grinding /\ state = "EMERGENCY_HANDLING"
            /\ at \in {"loop", "authorization", "restart_button"}
  PROVE  ReferenceInv'
<1> USE DEF HomeCalls, GotoCalls, ReadCalls, PingCalls
<1>0. (lost => call # "idle") /\ CallOf /\ PowerOf /\ GrindOf
        /\ ReferenceOf /\ SeenOf /\ TargetOf /\ Arrived /\ PlaceOf
  BY DEF ReferenceInv, CallOf, ControlInv
<1>1. /\ UNCHANGED <<at, state, table_index, context>>
      /\ Strict' = Strict /\ Warned' = Warned
      /\ WeldTarget' = WeldTarget /\ MoveTarget' = MoveTarget
      /\ \A op : Is(op, table_index)' = Is(op, table_index)
      /\ ToMove' = ToMove /\ ToWeld' = ToWeld
  BY PlacesKept
<1>2. /\ UNCHANGED <<call, axis, goal, ok, seen, emergency>>
      /\ lost => lost' /\ call # "idle"
      /\ call \in {"idle", "read", "ping", "sync"} => UNCHANGED phys
  BY <1>0 DEF PowerOn, PowerCut, IdleCut, Stopped, Moving
<1>3. Homed' = Homed /\ Read' = Read /\ Homed \subseteq Axes
  BY <1>0, <1>2, DriverAssumption DEF Homed, Read, DriverTypeOK
<1>4. PedalAtTarget'
  BY <1>2, PedalStands DEF weldVars
<1>5. Grinding' = Grinding /\ UNCHANGED grind_request /\ ~Grinding
  BY <1>0 DEF Grinding, envVars, PowerOn, GrindOf
<1>6. TargetOf' /\ GrindOf' /\ Arrived'
  BY <1>0, <1>1, <1>2, <1>5 DEF TargetOf, GrindOf, Arrived, weldVars
<1>7. CASE PowerOn
  <2>1. ~power /\ power' /\ lost' = lost /\ phys' = phys /\ counter' = HomePosition
    BY <1>7 DEF PowerOn
  <2>2. AtHome(Axes) => Referenced'
    BY <1>0, <2>1 DEF AtHome, Referenced, HomePosition, DriverTypeOK
  <2>3. ~Strict
    BY <1>0, <2>1 DEF ReferenceOf, Good
  <2>4. AtHome(Homed) => AtHome(Homed)'
    BY <1>3, <2>1 DEF AtHome, HomePosition
  <2>5. AtHome(Axes) => AtHome(Axes)'
    BY <1>0, <2>1 DEF AtHome, HomePosition
  <2>6. ReferenceOf'
    BY <1>0, <1>1, <1>2, <2>1, <2>2, <2>3, <2>4, <2>5
       DEF ReferenceOf, Good, Flagged, Zeroed
  <2>7. SeenOf'
    <3>1. power \/ at \notin {"move_verify", "emergency_verify", "return_verify"}
            \/ ~ok \/ lost
      BY <1>0, <2>1, <2>3 DEF ReferenceOf, Good, Strict
    <3> QED BY <1>1, <1>2, <2>1, <3>1 DEF SeenOf
  <2>8. CallOf' /\ PowerOf'
    BY <1>0, <1>1, <1>2, <2>1 DEF CallOf, PowerOf
  <2> QED BY <1>4, <1>6, <2>6, <2>7, <2>8 DEF ReferenceInv
<1>8. CASE PowerCut
  <2>1. lost' /\ ~power' /\ call # "idle"
    BY <1>8 DEF PowerCut, Commanding, Ready
  <2>2. ~Strict
    BY <1>0, <1>5, <2>1 DEF Strict, PlaceOf, CallOf, GrindOf, DriverTypeOK, Calls
  <2>3. ReferenceOf'
    BY <1>0, <1>1, <1>2, <2>1, <2>2
       DEF ReferenceOf, Good, Flagged, Zeroed, CallOf, DriverTypeOK, Calls
  <2>4. CallOf' /\ PowerOf' /\ SeenOf'
    BY <1>0, <1>1, <1>2, <2>1 DEF CallOf, PowerOf, SeenOf
  <2> QED BY <1>4, <1>6, <2>3, <2>4 DEF ReferenceInv
<1>9. CASE /\ IdleCut /\ state = "EMERGENCY_HANDLING"
           /\ at \in {"loop", "authorization", "restart_button"}
  <2>1. ~power' /\ lost' = lost /\ phys' = phys /\ counter' = counter
        /\ call = "idle"
    BY <1>9 DEF IdleCut
  <2>2. ReferenceOf'
    BY <1>0, <1>1, <1>2, <1>9, <2>1
       DEF ReferenceOf, Strict, Warned, AtHome
  <2>3. CallOf' /\ PowerOf' /\ SeenOf'
    BY <1>0, <1>1, <1>2, <1>9, <2>1 DEF CallOf, PowerOf, SeenOf
  <2> QED BY <1>4, <1>6, <2>2, <2>3 DEF ReferenceInv
<1> QED BY <1>7, <1>8, <1>9

(* The watchdog, the operator and the machines do not touch the reference,  *)
(* and a crash leaves every place that relies on it.                        *)
LEMMA EnvReference ==
  ASSUME ControlInv, ReferenceInv,
         UNCHANGED <<power, phys, counter, emergency, call, axis, goal, ok,
                     seen, lost>>,
         UNCHANGED <<pedal, program, shift>>,
         grind_request' => grind_request \/ Grinding,
         \/ UNCHANGED progVars
         \/ /\ at' = "crashed" /\ call # "idle"
            /\ UNCHANGED <<state, table_index, context>>
  PROVE  ReferenceInv'
<1>0. /\ Grinding' = Grinding /\ Good' = Good /\ Flagged' = Flagged
      /\ Homed' = Homed /\ Read' = Read /\ Zeroed' = Zeroed
      /\ Referenced' = Referenced
      /\ \A S : AtHome(S)' = AtHome(S)
  BY DEF Grinding, Good, Flagged, Homed, Read, Zeroed, Referenced, AtHome
<1>1. CASE UNCHANGED progVars
  <2>1. /\ UNCHANGED <<at, state, table_index, context>>
        /\ Strict' = Strict /\ Warned' = Warned
        /\ WeldTarget' = WeldTarget /\ MoveTarget' = MoveTarget
        /\ \A op : Is(op, table_index)' = Is(op, table_index)
        /\ ToMove' = ToMove /\ ToWeld' = ToWeld
    BY <1>1, PlacesKept
  <2>2. CallOf' /\ PowerOf' /\ GrindOf' /\ SeenOf' /\ TargetOf' /\ Arrived'
    BY <1>0, <2>1 DEF ReferenceInv, CallOf, PowerOf, GrindOf, SeenOf, TargetOf,
       Arrived
  <2>3. ReferenceOf'
    BY <1>0, <2>1 DEF ReferenceInv, ReferenceOf
  <2>4. PedalAtTarget'
    BY <2>1 DEF ReferenceInv, PedalAtTarget
  <2> QED BY <2>2, <2>3, <2>4 DEF ReferenceInv
<1>2. CASE /\ at' = "crashed" /\ call # "idle"
           /\ UNCHANGED <<state, table_index, context>>
  <2>1. ~Strict' /\ ~Warned'
    BY <1>2 DEF Strict, Warned
  <2>2. /\ WeldTarget' = WeldTarget /\ MoveTarget' = MoveTarget
        /\ \A op : Is(op, table_index)' = Is(op, table_index)
        /\ ToMove' = ToMove /\ ToWeld' = ToWeld
    BY <1>2 DEF WeldTarget, MoveTarget, Is, Entry, ToMove, ToWeld
  <2>3. CallOf' /\ PowerOf' /\ GrindOf' /\ SeenOf' /\ TargetOf' /\ Arrived'
    BY <1>0, <1>2, <2>2 DEF ReferenceInv, CallOf, PowerOf, GrindOf, SeenOf,
       TargetOf, Arrived
  <2>4. ReferenceOf'
    BY <1>2, <2>1 DEF ReferenceOf, HomeCalls
  <2>5. PedalAtTarget'
    <3>1. pedal /\ at = "program" => call = "idle"
      BY DEF ReferenceInv, CallOf, HomeCalls, GotoCalls, ReadCalls, PingCalls,
         Arrived, ControlInv, PlaceOf, IndexOf
    <3> QED BY <1>2, <2>2, <3>1 DEF ReferenceInv, PedalAtTarget
  <2> QED BY <2>3, <2>4, <2>5 DEF ReferenceInv
<1> QED BY <1>1, <1>2

(* Everything outside the program keeps the invariant. *)
LEMMA OutsideReference ==
  ASSUME Tolerated, DriverTypeOK, EnvTyped, ControlInv, ReferenceInv,
         World \/ UNCHANGED vars
  PROVE  ReferenceInv'
<1>0. state \in States /\ shift \in Shifts
  BY DEF ControlInv, ProgramTyped, EnvTyped
<1>1. CASE DriverAnswer \/ RefusedCommand \/ NoisyReply
  <2>1. Replied /\ UNCHANGED <<progVars, weldVars, envVars>>
    BY <1>1 DEF DriverAnswer, RefusedCommand, NoisyReply, Replied, Outside, KeepWeld
  <2>2. state = "HOMING" => Answer \/ GarbledReply
    BY <1>1 DEF DriverAnswer, RefusedCommand, NoisyReply, Strikes, Tolerated
  <2>3. CASE NoisyReply
    <3>1. ~Grinding
      BY <1>0, <2>3 DEF NoisyReply, Strikes, Tolerated, Grinding
    <3> QED BY <2>1, <2>2, <3>1, RepliedReference
  <2>4. CASE DriverAnswer \/ RefusedCommand
    <3>1. Grinding => ~GarbledReply
      <4>1. emergency' => emergency \/ lost
        BY <2>4 DEF DriverAnswer, RefusedCommand, Answer, SkipAxis, HomeAxis,
           MoveAxis, LimitSwitch, QueryAxis, Ping, NoAnswer, Reconnect,
           ErrorReply
      <4> QED BY <4>1 DEF GarbledReply, ReferenceInv, GrindOf
    <3> QED BY <2>1, <2>2, <3>1, RepliedReference
  <2> QED BY <1>1, <2>3, <2>4
<1>2. CASE PowerBack \/ CutUnderCommand \/ CutWhileIdle
  <2>1. UNCHANGED <<progVars, weldVars, envVars>>
    BY <1>2 DEF PowerBack, CutUnderCommand, CutWhileIdle, Outside, KeepWeld
  <2>2. CASE PowerBack
    BY <2>1, <2>2, PowerReference DEF PowerBack
  <2>3. CASE CutUnderCommand
    <3>1. ~Grinding
      BY <1>0, <2>3 DEF CutUnderCommand, Strikes, Tolerated, Grinding
    <3> QED BY <2>1, <2>3, <3>1, PowerReference DEF CutUnderCommand
  <2>4. CASE CutWhileIdle
    <3>1. ~Grinding /\ state = "EMERGENCY_HANDLING"
      BY <1>0, <2>4 DEF CutWhileIdle, Strikes, Tolerated, Grinding
    <3>2. at \in {"loop", "authorization", "restart_button"}
      BY <2>4, <3>1 DEF CutWhileIdle, Pauses, ControlInv, PlaceOf
    <3> QED BY <2>1, <2>4, <3>1, <3>2, PowerReference DEF CutWhileIdle
  <2> QED BY <1>2, <2>2, <2>3, <2>4
<1>3. CASE GrindWatchdog \/ CurtainBroken \/ CurtainClear \/ PressPedal
             \/ WeldEnds \/ UNCHANGED vars
  <2>1. UNCHANGED progVars
    BY <1>3 DEF GrindWatchdog, CurtainBroken, CurtainClear, PressPedal, WeldEnds,
       vars
  <2>2. UNCHANGED <<power, phys, counter, emergency, call, axis, goal, ok, seen,
                    lost>>
    BY <1>3 DEF GrindWatchdog, CurtainBroken, CurtainClear, PressPedal, WeldEnds,
       vars
  <2>3. /\ UNCHANGED <<pedal, program, shift>>
        /\ grind_request' => grind_request \/ Grinding
    BY <1>3 DEF GrindWatchdog, CurtainBroken, CurtainClear, PressPedal, WeldEnds,
       vars, KeepWeld, KeepEnv, KeepCurtain, Grinding
  <2> QED BY <2>1, <2>2, <2>3, EnvReference
<1>4. CASE EmptyAnswer
  <2>1. /\ at' = "crashed" /\ call # "idle"
        /\ UNCHANGED <<state, table_index, context>>
        /\ UNCHANGED <<pedal, program, shift, grind_request>>
        /\ UNCHANGED <<power, phys, counter, emergency, call, axis, goal, ok,
                       seen, lost>>
    BY <1>4 DEF EmptyAnswer, Commanding, Ready, KeepIndex, KeepWeld
  <2> QED BY <2>1, EnvReference
<1> QED BY <1>1, <1>2, <1>3, <1>4 DEF World

LEMMA InitReference == Init => ReferenceInv
<1> SUFFICES ASSUME Init PROVE ReferenceInv
  OBVIOUS
<1>1. /\ power /\ ~lost /\ ~emergency /\ call = "idle" /\ ~pedal
      /\ at = "boot" /\ state = "HOMING" /\ ~grind_request
  BY DEF Init, DriverInit
<1> QED
  BY <1>1 DEF ReferenceInv, CallOf, PowerOf, GrindOf, ReferenceOf, SeenOf,
     TargetOf, Arrived, PedalAtTarget, Strict, Warned, HomeCalls

(* No position of the table is the home position. *)
LEMMA AwayFromHome == \A p \in Position : p # HomePosition
  BY DriverAssumption DEF Position, HomePosition

(* Each operation of the program keeps it. *)
LEMMA ProgramReference ==
  ASSUME DriverTypeOK, ControlInv, ReferenceInv, Program
  PROVE  ReferenceInv'
<1>0. /\ UNCHANGED <<power, phys, counter, lost>>
      /\ Good' = Good /\ AtHome(Axes)' = AtHome(Axes) /\ Zeroed' = Zeroed
      /\ Referenced' = Referenced
      /\ Good <=> power /\ Referenced
      /\ AtHome(Axes) /\ power => Referenced
      /\ Referenced /\ seen = counter => phys = seen
      /\ (\A a \in Axes : seen[a] = counter[a]) => seen = counter
      /\ call' = "home" /\ axis' = 1 => AtHome(Homed)'
      /\ call' = "read" /\ axis' = 1 => \A a \in Read' : seen'[a] = counter'[a]
      /\ call = "idle" => AtHome(Homed) = AtHome(Axes) /\ Read = Axes
      /\ call' = "idle" => AtHome(Homed)' = AtHome(Axes)' /\ Read' = Axes
      /\ call # "idle" => ~(at \in {"boot", "loop"} \cup Pauses)
      /\ call \in Calls
  <2>1. DriverTypeOK
    OBVIOUS
  <2>2. UNCHANGED <<power, phys, counter, lost>>
    BY ProgramCalls
  <2>3. /\ Good' = Good /\ AtHome(Axes)' = AtHome(Axes) /\ Zeroed' = Zeroed
        /\ Referenced' = Referenced
        /\ Good <=> power /\ Referenced
    BY <2>2 DEF Good, Referenced, AtHome, Zeroed
  <2>4. /\ AtHome(Axes) /\ power => Referenced
        /\ Referenced /\ seen = counter => phys = seen
        /\ (\A a \in Axes : seen[a] = counter[a]) => seen = counter
    <3> HIDE DEF Axes
    <3> QED BY <2>1 DEF AtHome, Referenced, DriverTypeOK, HomePosition
  <2>5. /\ call' = "home" /\ axis' = 1 => AtHome(Homed)'
        /\ call' = "read" /\ axis' = 1 => \A a \in Read' : seen'[a] = counter'[a]
        /\ call = "idle" => AtHome(Homed) = AtHome(Axes) /\ Read = Axes
        /\ call' = "idle" => AtHome(Homed)' = AtHome(Axes)' /\ Read' = Axes
    BY DEF AtHome, Homed, Read
  <2>6. /\ call # "idle" => ~(at \in {"boot", "loop"} \cup Pauses)
        /\ call \in Calls
    BY <2>1 DEF DriverTypeOK, Calls, Pauses, ReferenceInv, CallOf, HomeCalls,
       GotoCalls, ReadCalls, PingCalls
  <2> QED BY <2>1, <2>2, <2>3, <2>4, <2>5, <2>6
<1>a. /\ Is("MOVE", table_index) => MoveTarget # HomePosition
      /\ Is("WELD", table_index) =>
           WeldTarget # HomePosition /\ ~Is("MOVE", table_index)
      /\ table_index' = table_index + 1 =>
           WeldTarget' = MoveTarget /\ ~(table_index' = table_index)
      /\ table_index' = table_index =>
           /\ WeldTarget' = WeldTarget /\ MoveTarget' = MoveTarget
           /\ \A op : Is(op, table_index)' = Is(op, table_index)
      /\ ~Is("MOVE", table_index) => ~Is("WELD", table_index + 1)
      /\ table_index \in Int /\ state \in States /\ Len(Table) \in Nat
      /\ table_index >= Len(Table) => \A op : ~Is(op, table_index)
      /\ \A op : ~Is(op, -1)
  <2>1. table_index \in Int /\ state \in States /\ Len(Table) \in Nat
    BY TableFacts DEF ControlInv, ProgramTyped
  <2>2. /\ Is("MOVE", table_index) => MoveTarget # HomePosition
        /\ Is("WELD", table_index) =>
             WeldTarget # HomePosition /\ ~Is("MOVE", table_index)
    BY TableFacts, EntryFacts, AwayFromHome DEF MoveTarget, WeldTarget
  <2>3. table_index' = table_index + 1 =>
          WeldTarget' = MoveTarget /\ ~(table_index' = table_index)
    BY <2>1 DEF Entry, WeldTarget, MoveTarget
  <2>4. table_index' = table_index =>
           /\ WeldTarget' = WeldTarget /\ MoveTarget' = MoveTarget
           /\ \A op : Is(op, table_index)' = Is(op, table_index)
    BY DEF Is, Entry, WeldTarget, MoveTarget
  <2>5. ~Is("MOVE", table_index) => ~Is("WELD", table_index + 1)
    BY <2>1, TableFacts, EntryFacts
  <2>6. /\ table_index >= Len(Table) => \A op : ~Is(op, table_index)
        /\ \A op : ~Is(op, -1)
    BY <2>1, TableFacts
  <2> QED BY <2>1, <2>2, <2>3, <2>4, <2>5, <2>6
<1> USE DEF ReferenceInv, CallOf, PowerOf, GrindOf, ReferenceOf, SeenOf, TargetOf,
            Arrived, PedalAtTarget, Strict, Warned, Flagged, ControlInv, PlaceOf,
            IndexOf, ContextOf, PedalOf, ToMove, ToWeld, ToStart, ToInit, AtUser,
            HomeCalls, GotoCalls, ReadCalls, PingCalls,
            KeepIndex, KeepWeld, KeepHead, KeepCurtain, Grinding,
            ClearAndHome, ClearAndGoto, Reading, Pinging, StartCall, StartHome,
            StartGoto, StartRead, StartPing
<1>1. CASE AskConnected
  BY <1>0, <1>a, <1>1 DEF AskConnected, Asking
<1>2. CASE Boot
  BY <1>0, <1>a, <1>2 DEF Boot
<1>3. CASE BootHomed
  BY <1>0, <1>a, <1>3 DEF BootHomed
<1>4. CASE HomingPinged
  BY <1>0, <1>a, <1>4 DEF HomingPinged
<1>5. CASE HomingRead
  BY <1>0, <1>a, <1>5 DEF HomingRead
<1>6. CASE HomingMove
  BY <1>0, <1>a, <1>6 DEF HomingMove, Context
<1>7. CASE HomingDone
  BY <1>0, <1>a, <1>7 DEF HomingDone
<1>8. CASE Scan
  BY <1>0, <1>a, <1>8 DEF Scan
<1>9. CASE StartPinged
  BY <1>0, <1>a, <1>9 DEF StartPinged
<1>10. CASE StartRead_
  BY <1>0, <1>a, <1>10 DEF StartRead_, Context
<1>11. CASE StartMove
  BY <1>0, <1>a, <1>11 DEF StartMove
<1>12. CASE StartGrind
  BY <1>0, <1>a, <1>12 DEF StartGrind
<1>13. CASE MoveNextPrinted
  BY <1>0, <1>a, <1>13 DEF MoveNextPrinted
<1>14. CASE MoveNextPinged
  BY <1>0, <1>a, <1>14 DEF MoveNextPinged, StateAt
<1>15. CASE ProcessPastTable
  BY <1>0, <1>a, <1>15 DEF ProcessPastTable
<1>16. CASE ProcessCommand
  BY <1>0, <1>a, <1>16 DEF ProcessCommand, Follows
<1>17. CASE WeldPinged
  BY <1>0, <1>a, <1>17 DEF WeldPinged, WeldContext, Context
<1>18. CASE ProgramSet
  BY <1>0, <1>a, <1>18 DEF ProgramSet
<1>19. CASE MovePinged
  <2>1. /\ at = "move_ping" /\ call = "idle" /\ state = "PROCESS_COMMAND"
        /\ Is("MOVE", table_index) /\ ~pedal /\ ~pedal'
        /\ UNCHANGED <<table_index, program, shift>>
    BY <1>19 DEF MovePinged, Pedal
  <2>2. grind_request' => grind_request /\ ~ok
    BY <1>19, Zenon DEF MovePinged
  <2>3. CASE ~ok
    <3>1. KeepDriver /\ at' = "loop" /\ UNCHANGED <<state, context>>
      BY <1>19, <2>3 DEF MovePinged
    <3> QED BY <1>0, <1>a, <2>1, <2>2, <2>3, <3>1
  <2>4. CASE ok
    <3>1. context' = Context(MoveTarget, "PROCESS_COMMAND", TRUE)
      BY <1>19, <2>4 DEF MovePinged
    <3>2. context'.ret = "PROCESS_COMMAND" /\ context'.advance
          /\ context'.target = MoveTarget
      BY <3>1 DEF Context
    <3>3. CASE grind_request /\ state' = "GRINDING" /\ at' = "loop" /\ KeepDriver
      BY <1>0, <1>a, <2>1, <2>2, <3>2, <3>3
    <3>4. CASE state' = "EMERGENCY_HANDLING" /\ at' = "loop" /\ KeepDriver
      <4>1. CallOf' /\ PowerOf' /\ ReferenceOf' /\ SeenOf' /\ PedalAtTarget'
        BY <1>0, <1>a, <2>1, <2>2, <3>4
      <4>2. GrindOf' /\ TargetOf' /\ Arrived'
        BY <1>0, <1>a, <2>1, <2>2, <2>4, <3>2, <3>4
      <4> QED BY <4>1, <4>2
    <3>5. CASE ~emergency /\ "sticky" \in shift /\ StartRead /\ UNCHANGED emergency
               /\ at' = "sticky_log" /\ UNCHANGED state
      BY <1>0, <1>a, <2>1, <2>2, <3>2, <3>5
    <3>6. CASE ~emergency /\ StartGoto(MoveTarget) /\ emergency' = FALSE
               /\ at' = "move_goto" /\ UNCHANGED state
      BY <1>0, <1>a, <2>1, <2>2, <3>2, <3>6
    <3> QED BY <1>19, <2>4, <3>3, <3>4, <3>5, <3>6 DEF MovePinged
  <2> QED BY <2>3, <2>4
<1>20. CASE StickyLogged
  BY <1>0, <1>a, <1>20 DEF StickyLogged
<1>21. CASE MoveDone
  <2>1. /\ at = "move_goto" /\ call = "idle" /\ state = "PROCESS_COMMAND"
        /\ Is("MOVE", table_index) /\ ~pedal /\ power /\ ~lost
        /\ UNCHANGED <<table_index, context, pedal, program, shift, grind_request>>
    BY <1>21 DEF MoveDone
  <2>2. CASE ok
    <3>1. Good \/ counter = HomePosition
      BY <2>1, <2>2 DEF Zeroed
    <3> QED BY <1>0, <1>a, <1>21, <2>1, <2>2, <3>1 DEF MoveDone
  <2>3. CASE ~ok
    BY <1>0, <1>a, <1>21, <2>1, <2>3 DEF MoveDone
  <2> QED BY <2>2, <2>3
<1>22. CASE MoveVerified
  BY <1>0, <1>a, <1>22 DEF MoveVerified, StateAt, Verified
<1>23. CASE WaitPinged
  BY <1>0, <1>a, <1>23 DEF WaitPinged, WeldContext, Context
<1>24. CASE CheckResult
  BY <1>0, <1>a, <1>24 DEF CheckResult
<1>25. CASE AskSupervisor
  BY <1>0, <1>a, <1>25 DEF AskSupervisor
<1>26. CASE Denied
  BY <1>0, <1>a, <1>26 DEF Denied
<1>27. CASE Unloading
  BY <1>0, <1>a, <1>27 DEF Unloading, Context
<1>28. CASE Unloaded
  BY <1>0, <1>a, <1>28 DEF Unloaded
<1>29. CASE Emergency
  BY <1>0, <1>a, <1>29 DEF Emergency, NoContext
<1>30. CASE Granted
  BY <1>0, <1>a, <1>30 DEF Granted
<1>31. CASE EmergencyHomed
  BY <1>0, <1>a, <1>31 DEF EmergencyHomed, Recovered, NoContext
<1>32. CASE EmergencyMove
  BY <1>0, <1>a, <1>32 DEF EmergencyMove
<1>33. CASE EmergencyMoved
  BY <1>0, <1>a, <1>33 DEF EmergencyMoved
<1>34. CASE EmergencyVerified
  BY <1>0, <1>a, <1>34 DEF EmergencyVerified, Recovered, NoContext, Verified
<1>35. CASE GrindPressed
  <2>1. /\ context'.ret = context.ret /\ context'.advance = context.advance
        /\ context'.target = context.target /\ context # NoContext
    BY <1>35, PhaseKeeps
  <2>2. /\ state = "GRINDING" /\ at = "loop" /\ UNCHANGED <<at, state, table_index>>
        /\ UNCHANGED driverVars /\ UNCHANGED <<pedal, program, shift>>
        /\ ~grind_request' /\ ~pedal
    BY <1>35, <2>1 DEF GrindPressed, Phase
  <2> QED BY <1>0, <1>a, <2>1, <2>2
<1>36. CASE GrindMove
  BY <1>0, <1>a, <1>36 DEF GrindMove, Phase
<1>37. CASE GrindReached
  <2>1. /\ context'.ret = context.ret /\ context'.advance = context.advance
        /\ context'.target = context.target
    BY <1>37, PhaseKeeps
  <2>2. /\ at = "grind_goto" /\ state = "GRINDING" /\ ~emergency /\ call = "idle"
        /\ UNCHANGED <<state, table_index>> /\ at' = "loop"
        /\ UNCHANGED driverVars /\ UNCHANGED <<pedal, program, shift>>
        /\ ~grind_request' /\ ~pedal
    BY <1>37 DEF GrindReached
  <2> QED BY <1>0, <1>a, <2>1, <2>2
<1>38. CASE ReturnMove
  BY <1>0, <1>a, <1>38 DEF ReturnMove, Phase
<1>39. CASE Returned
  BY <1>0, <1>a, <1>39 DEF Returned
<1>40. CASE ReturnVerified
  BY <1>0, <1>a, <1>40 DEF ReturnVerified, NoContext, Verified
<1>41. CASE LoopBlocked
  BY <1>0, <1>a, <1>41 DEF LoopBlocked
<1> QED BY <1>1, <1>2, <1>3, <1>4, <1>5, <1>6, <1>7, <1>8, <1>9, <1>10, <1>11,
           <1>12, <1>13, <1>14, <1>15, <1>16, <1>17, <1>18, <1>19, <1>20,
           <1>21, <1>22, <1>23, <1>24, <1>25, <1>26, <1>27, <1>28, <1>29,
           <1>30, <1>31, <1>32, <1>33, <1>34, <1>35, <1>36, <1>37, <1>38,
           <1>39, <1>40, <1>41 DEF Program

(* The pedal is enabled only where the table says, with the program number  *)
(* of this entry: in the environment the recovery is made for, no press     *)
(* welds at another point, also after an emergency, a refused command or a  *)
(* grinding in between.                                                     *)
THEOREM PedalsAtTarget ==
  ASSUME Tolerated
  PROVE  Spec => []PedalAtTarget
<1>1. TypeOK => DriverTypeOK /\ EnvTyped
  BY DEF TypeOK, EnvTyped
<1>2. TypeOK /\ ControlInv /\ ReferenceInv /\ [Next]_vars => ReferenceInv'
  BY <1>1, ProgramReference, OutsideReference DEF Next
<1>3. ReferenceInv => PedalAtTarget
  BY DEF ReferenceInv
<1> QED BY <1>2, <1>3, InitReference, ManualTyped, ControlHolds, PTL DEF Spec
=============================================================================
