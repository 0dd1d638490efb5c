---------------------------- MODULE TableProofs -----------------------------
(***************************************************************************)
(* Proofs of the safety properties of TableMachine, for every table, every *)
(* number of axes, every safety input and any number of faults.            *)
(***************************************************************************)
EXTENDS TableInvariants, FiniteSetTheorems, TLAPS

USE DEF Axes, Unknown

(* Facts about the table. *)
LEMMA EntryFacts ==
  ASSUME NEW i \in Indexes
  PROVE  /\ Entry(i).op \in {"MOVE", "WELD", "USER", "PAUSE"}
         /\ Entry(i).op = "MOVE" => Entry(i).to \in Position
         /\ Entry(i).op # "MOVE" =>
              /\ i - 1 \in Indexes /\ Entry(i - 1).op = "MOVE"
              /\ i + 1 \in Indexes /\ Entry(i + 1).op = "MOVE"
<1>1. Len(Table) \in Nat /\ i \in Nat /\ i + 1 \in 1 .. Len(Table)
  BY TableAssumption DEF Indexes
<1>2. Table[i + 1] \in Entries
  BY <1>1, TableAssumption
<1>3. Entry(i).op \in {"MOVE", "WELD", "USER", "PAUSE"}
  BY <1>2 DEF Entry, Entries
<1>4. Entry(i).op = "MOVE" => Entry(i).to \in Position
  BY <1>2 DEF Entry, Entries
<1>5. ASSUME Entry(i).op # "MOVE"
      PROVE  /\ i - 1 \in Indexes /\ Entry(i - 1).op = "MOVE"
             /\ i + 1 \in Indexes /\ Entry(i + 1).op = "MOVE"
  <2>1. i # 0 /\ i + 1 # Len(Table)
    BY <1>1, <1>5, TableAssumption DEF Entry
  <2>2. i - 1 \in Indexes /\ i + 1 \in Indexes
    BY <1>1, <2>1 DEF Indexes
  <2>3. Entry(i + 1).op = "MOVE"
    BY <1>1, <1>5, <2>1, TableAssumption DEF Entry
  <2>4. Entry(i - 1).op = "MOVE"
    BY <1>1, <1>5, <2>1, TableAssumption DEF Entry
  <2> QED BY <2>2, <2>3, <2>4
<1> QED BY <1>3, <1>4, <1>5

(* No position of the table is the home position. *)
LEMMA AwayFromHome == \A p \in Position : p # HomePosition
  BY DriverAssumption DEF Position, HomePosition

-----------------------------------------------------------------------------
(* Types and control. *)

USE DEF Safe, Called, Back, Button, Next_, Stay, WaitAt, KeepDriver, KeepStage,
        KeepCall, KeepEnv, KeepInputs, KeepIndex, KeepWeld, Crash,
        Fault, Disturb, driverVars, WritePedal, WriteTrigger, KeepStill, NoContact

(* Contexts are records of the recovery context's four fields. *)
LEMMA ContextFacts ==
  /\ NoContext \in Contexts
  /\ \A t \in Position \cup {HomePosition}, r \in {"INIT", "PROCESS_COMMAND"},
        b \in BOOLEAN :
        /\ Context(t, r, b) \in Contexts
        /\ Context(t, r, b).target = t
        /\ Context(t, r, b).ret = r
        /\ Context(t, r, b).advance = b
        /\ Context(t, r, b).phase = 0
  /\ \A c \in Contexts, p \in 0 .. 3 :
        /\ [c EXCEPT !.phase = p] \in Contexts
        /\ [c EXCEPT !.phase = p].target = c.target
        /\ [c EXCEPT !.phase = p].ret = c.ret
        /\ [c EXCEPT !.phase = p].advance = c.advance
        /\ [c EXCEPT !.phase = p].phase = p
  BY DEF Contexts, Context, NoContext

LEMMA HomeIsPlace == HomePosition \in Position \cup {HomePosition}
  OBVIOUS

(* The recovery context stays one, whatever the program does. *)
LEMMA ContextTyped ==
  ASSUME TypeOK, ControlInv, Program
  PROVE  context' \in Contexts
<1> USE DEF OnEntry
<1>0. context \in Contexts
  BY DEF TypeOK, ProgramTypeOK
<1>1. Unload \in Position /\ Grind \in Position
  BY TableAssumption
<1>2. ASSUME OnEntry("MOVE") PROVE MoveTarget \in Position
  BY <1>2, EntryFacts DEF MoveTarget
<1>3. ASSUME OnEntry("WELD") PROVE WeldContext \in Contexts
  <2>1. WeldTarget \in Position
    BY <1>3, EntryFacts DEF WeldTarget
  <2> QED BY <2>1, ContextFacts DEF WeldContext
<1>4. CASE HomingMove
  BY <1>4, ContextFacts, HomeIsPlace DEF HomingMove
<1>5. CASE WeldPinged
  <2>1. OnEntry("WELD")
    BY <1>5 DEF WeldPinged, ControlInv, IndexOf
  <2> QED BY <1>3, <1>5, <2>1 DEF WeldPinged
<1>6. CASE MovePinged
  <2>1. MoveTarget \in Position
    BY <1>2, <1>6 DEF MovePinged, ControlInv, IndexOf
  <2>2. Context(MoveTarget, "PROCESS_COMMAND", TRUE) \in Contexts
    BY <2>1, ContextFacts
  <2> QED BY <1>0, <1>6, <2>2 DEF MovePinged
<1>7. CASE Fire \/ WeldResult
  <2>1. OnEntry("WELD")
    BY <1>7 DEF Fire, WeldResult, ControlInv, IndexOf
  <2> QED BY <1>3, <1>7, <2>1 DEF Fire, WeldResult
<1>8. CASE Unloading
  BY <1>1, <1>8, ContextFacts DEF Unloading
<1>9. CASE EmergencyHomed \/ EmergencyVerified \/ ReturnVerified
  BY <1>0, <1>9, ContextFacts
     DEF EmergencyHomed, EmergencyVerified, ReturnVerified, Recovered
<1>10. CASE GrindPressed \/ GrindReached
  <2>1. \A p \in 0 .. 3 : [context EXCEPT !.phase = p] \in Contexts
    BY <1>0, ContextFacts
  <2> QED BY <1>0, <1>10, <2>1 DEF GrindPressed, GrindReached, SetPhase
<1>11. CASE ~(HomingMove \/ WeldPinged \/ MovePinged \/ Fire \/ WeldResult
                \/ Unloading \/ EmergencyHomed \/ EmergencyVerified
                \/ ReturnVerified \/ GrindPressed \/ GrindReached)
  <2>1. context' = context
    BY <1>11 DEF Program, Boot, BootHomed, Homing, HomingPinged, HomingRead,
       HomingDone, Scan, Start, StartPinged, StartRead_, StartMove, MoveNext,
       MoveNextPrinted, MoveNextPinged, ProcessPastTable, ProcessPause,
       ProcessUser, ProcessWeld, ProcessMove, MoveCheck, StickyLogged,
       MoveClear, MoveDone, MoveVerified, SteppingContact, ContactTimeout,
       Unloaded, Emergency, Denied, Granted, EmergencyMove, EmergencyMoved,
       GrindMove, ReturnMove, Returned
  <2> QED BY <1>0, <2>1
<1> QED BY <1>4, <1>5, <1>6, <1>7, <1>8, <1>9, <1>10, <1>11

(* Each operation of the program keeps the types of its own variables and   *)
(* the control invariant.                                                   *)
LEMMA ProgramStep ==
  ASSUME TypeOK, ControlInv, Program
  PROVE  ProgramTypeOK' /\ ControlInv'
<1> USE EntryFacts, TableAssumption
        DEF TypeOK, DriverTypeOK, ProgramTypeOK, ControlInv, PlaceOf, IndexOf,
            ContextOf, WeldOf, ToMove, ToWeld, ToInit, OnEntry, BetweenMoves,
            MoveTarget, WeldTarget, States, Places, Pauses, Indexes
<1>0. context' \in Contexts
  BY ContextTyped
<1>1. CASE Boot
  BY <1>1 DEF Boot
<1>2. CASE BootHomed
  BY <1>2 DEF BootHomed
<1>3. CASE Homing
  BY <1>3 DEF Homing
<1>4. CASE HomingPinged
  BY <1>4 DEF HomingPinged
<1>5. CASE HomingRead
  BY <1>5 DEF HomingRead
<1>6. CASE HomingMove
  BY <1>0, <1>6 DEF HomingMove, Context, Contexts
<1>7. CASE HomingDone
  BY <1>7 DEF HomingDone
<1>8. CASE Scan
  BY <1>8 DEF Scan
<1>9. CASE Start
  BY <1>9 DEF Start
<1>10. CASE StartPinged
  BY <1>10 DEF StartPinged
<1>11. CASE StartRead_
  BY <1>11 DEF StartRead_
<1>12. CASE StartMove
  BY <1>12 DEF StartMove
<1>13. CASE MoveNext
  BY <1>13 DEF MoveNext
<1>14. CASE MoveNextPrinted
  BY <1>14 DEF MoveNextPrinted
<1>15. CASE MoveNextPinged
  BY <1>15 DEF MoveNextPinged, StateAt
<1>16. CASE ProcessPastTable
  BY <1>16 DEF ProcessPastTable
<1>17. CASE ProcessPause
  BY <1>17 DEF ProcessPause, Processing
<1>18. CASE ProcessUser
  BY <1>18 DEF ProcessUser, Processing
<1>19. CASE ProcessWeld
  BY <1>19 DEF ProcessWeld, Processing
<1>20. CASE WeldPinged
  <2>1. ProgramTypeOK'
    BY <1>0, <1>20 DEF WeldPinged
  <2>2. PlaceOf'
    BY <1>20 DEF WeldPinged, WeldContext, Context
  <2>3. IndexOf'
    BY <1>20 DEF WeldPinged, WeldContext, Context
  <2>4. ContextOf'
    BY <1>20 DEF WeldPinged, WeldContext, Context
  <2>5. WeldOf'
    BY <1>20 DEF WeldPinged, WeldContext, Context
  <2> QED BY <2>1, <2>2, <2>3, <2>4, <2>5
<1>21. CASE ProcessMove
  BY <1>21 DEF ProcessMove, Processing
<1>22. CASE MovePinged
  <2>1. ProgramTypeOK'
    BY <1>0, <1>22 DEF MovePinged
  <2>2. PlaceOf'
    BY <1>22 DEF MovePinged, Context
  <2>3. IndexOf'
    BY <1>22 DEF MovePinged, Context
  <2>4. ContextOf'
    BY <1>22 DEF MovePinged, Context
  <2>5. WeldOf'
    BY <1>22 DEF MovePinged, Context
  <2> QED BY <2>1, <2>2, <2>3, <2>4, <2>5
<1>23. CASE MoveCheck
  BY <1>23 DEF MoveCheck
<1>24. CASE StickyLogged
  BY <1>24 DEF StickyLogged
<1>25. CASE MoveClear
  BY <1>25 DEF MoveClear
<1>26. CASE MoveDone
  BY <1>26 DEF MoveDone
<1>27. CASE MoveVerified
  BY <1>27 DEF MoveVerified, StateAt
<1>28. CASE Fire
  BY <1>0, <1>28 DEF Fire, WeldContext, Context, Contexts
<1>29. CASE SteppingContact
  <2>1. ProgramTypeOK'
    <3>1. state' \in States /\ at' \in Places
      BY <1>29 DEF SteppingContact
    <3>2. table_index' \in -1 .. Len(Table) /\ welding_position' \in Int
      BY <1>29 DEF SteppingContact
    <3>3. context' \in Contexts
      BY <1>0
    <3>4. waiting' \in BOOLEAN /\ pedal' \in BOOLEAN /\ trigger' \in BOOLEAN
      BY <1>29 DEF SteppingContact
    <3>5. active' \subseteq Inputs /\ previous' \subseteq Inputs /\ grind_request' \in BOOLEAN
      BY <1>29 DEF SteppingContact
    <3>6. welded' \subseteq Indexes /\ struck' \subseteq Indexes
      BY <1>29 DEF SteppingContact
    <3> QED BY <3>1, <3>2, <3>3, <3>4, <3>5, <3>6
  <2>2. PlaceOf'
    BY <1>29 DEF SteppingContact
  <2>3. IndexOf'
    BY <1>29 DEF SteppingContact
  <2>4. ContextOf'
    BY <1>29 DEF SteppingContact
  <2>5. WeldOf'
    BY <1>29 DEF SteppingContact
  <2> QED BY <2>1, <2>2, <2>3, <2>4, <2>5
<1>30. CASE ContactTimeout
  <2>1. ProgramTypeOK'
    <3>1. state' \in States /\ at' \in Places
      BY <1>30 DEF ContactTimeout
    <3>2. table_index' \in -1 .. Len(Table) /\ welding_position' \in Int
      BY <1>30 DEF ContactTimeout
    <3>3. context' \in Contexts
      BY <1>0
    <3>4. waiting' \in BOOLEAN /\ pedal' \in BOOLEAN /\ trigger' \in BOOLEAN
      BY <1>30 DEF ContactTimeout
    <3>5. active' \subseteq Inputs /\ previous' \subseteq Inputs /\ grind_request' \in BOOLEAN
      BY <1>30 DEF ContactTimeout
    <3>6. welded' \subseteq Indexes /\ struck' \subseteq Indexes
      BY <1>30 DEF ContactTimeout
    <3> QED BY <3>1, <3>2, <3>3, <3>4, <3>5, <3>6
  <2>2. PlaceOf'
    BY <1>30 DEF ContactTimeout
  <2>3. IndexOf'
    BY <1>30 DEF ContactTimeout
  <2>4. ContextOf'
    BY <1>30 DEF ContactTimeout
  <2>5. WeldOf'
    BY <1>30 DEF ContactTimeout
  <2> QED BY <2>1, <2>2, <2>3, <2>4, <2>5
<1>31. CASE WeldResult
  <2>1. ProgramTypeOK'
    <3>0. table_index \in Indexes
      BY <1>31 DEF WeldResult
    <3>1. welded' \subseteq Indexes
      <4>1. welded' = welded \/ welded' = welded \cup {table_index}
        BY <1>31 DEF WeldResult
      <4>2. welded \subseteq Indexes
        OBVIOUS
      <4> HIDE DEF Indexes
      <4> QED BY ONLY <3>0, <4>1, <4>2
    <3> QED BY <1>0, <1>31, <3>1 DEF WeldResult
  <2>2. PlaceOf'
    BY <1>31 DEF WeldResult, WeldContext, Context
  <2>3. IndexOf'
    BY <1>31 DEF WeldResult, WeldContext, Context
  <2>4. ContextOf'
    BY <1>31 DEF WeldResult, WeldContext, Context
  <2>5. WeldOf'
    BY <1>31 DEF WeldResult, WeldContext, Context
  <2> QED BY <2>1, <2>2, <2>3, <2>4, <2>5
<1>32. CASE Unloading
  BY <1>0, <1>32 DEF Unloading, Context, Contexts
<1>33. CASE Unloaded
  BY <1>33 DEF Unloaded
<1>34. CASE Emergency
  BY <1>34 DEF Emergency, NoContext
<1>35. CASE Denied
  BY <1>35 DEF Denied
<1>36. CASE Granted
  BY <1>36 DEF Granted
<1>37. CASE EmergencyHomed
  <2>1. ProgramTypeOK'
    BY <1>0, <1>37 DEF EmergencyHomed, Recovered, Contexts
  <2>2. PlaceOf'
    BY <1>37 DEF EmergencyHomed, Recovered, NoContext, Contexts
  <2>3. IndexOf'
    BY <1>37 DEF EmergencyHomed, Recovered, NoContext, Contexts
  <2>4. ContextOf'
    BY <1>37 DEF EmergencyHomed, Recovered, NoContext, Contexts
  <2>5. WeldOf'
    BY <1>37 DEF EmergencyHomed, Recovered, NoContext, Contexts
  <2> QED BY <2>1, <2>2, <2>3, <2>4, <2>5
<1>38. CASE EmergencyMove
  BY <1>38 DEF EmergencyMove
<1>39. CASE EmergencyMoved
  BY <1>39 DEF EmergencyMoved
<1>40. CASE EmergencyVerified
  <2>1. ProgramTypeOK'
    BY <1>0, <1>40 DEF EmergencyVerified, Recovered, Contexts
  <2>2. PlaceOf'
    BY <1>40 DEF EmergencyVerified, Recovered, NoContext, Contexts
  <2>3. IndexOf'
    BY <1>40 DEF EmergencyVerified, Recovered, NoContext, Contexts
  <2>4. ContextOf'
    BY <1>40 DEF EmergencyVerified, Recovered, NoContext, Contexts
  <2>5. WeldOf'
    BY <1>40 DEF EmergencyVerified, Recovered, NoContext, Contexts
  <2> QED BY <2>1, <2>2, <2>3, <2>4, <2>5
<1>41. CASE GrindPressed
  <2>1. ProgramTypeOK'
    <3>1. state' \in States /\ at' \in Places
      BY <1>41 DEF GrindPressed, Phase, SetPhase
    <3>2. table_index' \in -1 .. Len(Table) /\ welding_position' \in Int
      BY <1>41 DEF GrindPressed, Phase, SetPhase
    <3>3. context' \in Contexts
      BY <1>0
    <3>4. waiting' \in BOOLEAN /\ pedal' \in BOOLEAN /\ trigger' \in BOOLEAN
      BY <1>41 DEF GrindPressed, Phase, SetPhase
    <3>5. active' \subseteq Inputs /\ previous' \subseteq Inputs /\ grind_request' \in BOOLEAN
      BY <1>41 DEF GrindPressed, Phase, SetPhase
    <3>6. welded' \subseteq Indexes /\ struck' \subseteq Indexes
      BY <1>41 DEF GrindPressed, Phase, SetPhase
    <3> QED BY <3>1, <3>2, <3>3, <3>4, <3>5, <3>6
  <2>2. PlaceOf'
    BY <1>41 DEF GrindPressed, Phase, SetPhase
  <2>3. IndexOf'
    BY <1>41 DEF GrindPressed, Phase, SetPhase
  <2>4. ContextOf'
    BY <1>41, ContextFacts DEF GrindPressed, Phase, SetPhase
  <2>5. WeldOf'
    BY <1>41 DEF GrindPressed, Phase, SetPhase
  <2> QED BY <2>1, <2>2, <2>3, <2>4, <2>5
<1>42. CASE GrindMove
  BY <1>42 DEF GrindMove, Phase
<1>43. CASE GrindReached
  <2>1. ProgramTypeOK'
    BY <1>0, <1>43 DEF GrindReached
  <2>2. PlaceOf'
    BY <1>43 DEF GrindReached, SetPhase, Contexts
  <2>3. IndexOf'
    BY <1>43 DEF GrindReached, SetPhase, Contexts
  <2>4. ContextOf'
    <3>1. ToMove /\ UNCHANGED table_index
          /\ context' \in {context, [context EXCEPT !.phase = 2]}
      BY <1>43 DEF GrindReached, SetPhase
    <3>2. /\ context'.target = context.target /\ context'.ret = context.ret
          /\ context'.advance = context.advance
      <4>1. context \in Contexts
        OBVIOUS
      <4>2. /\ [context EXCEPT !.phase = 2].target = context.target
            /\ [context EXCEPT !.phase = 2].ret = context.ret
            /\ [context EXCEPT !.phase = 2].advance = context.advance
        BY ONLY <4>1, ContextFacts
      <4> QED BY ONLY <3>1, <4>2
    <3>4. ToMove'
      BY <3>1, <3>2
    <3>3. state' \in {"EMERGENCY_HANDLING", "GRINDING"} /\ at' = "loop"
      BY <1>43 DEF GrindReached
    <3> QED BY <3>3, <3>4
  <2>5. WeldOf'
    BY <1>43 DEF GrindReached, SetPhase, Contexts
  <2> QED BY <2>1, <2>2, <2>3, <2>4, <2>5
<1>44. CASE ReturnMove
  BY <1>44 DEF ReturnMove, Phase
<1>45. CASE Returned
  BY <1>45 DEF Returned
<1>46. CASE ReturnVerified
  <2>1. ProgramTypeOK'
    BY <1>0, <1>46 DEF ReturnVerified, Contexts
  <2>2. PlaceOf'
    BY <1>46 DEF ReturnVerified, NoContext
  <2>3. IndexOf'
    BY <1>46 DEF ReturnVerified, NoContext
  <2>4. ContextOf'
    BY <1>46 DEF ReturnVerified, NoContext
  <2>5. WeldOf'
    BY <1>46 DEF ReturnVerified, NoContext
  <2> QED BY <2>1, <2>2, <2>3, <2>4, <2>5
<1> QED BY Program, <1>1, <1>2, <1>3, <1>4, <1>5, <1>6, <1>7, <1>8, <1>9, <1>10, <1>11, <1>12, <1>13, <1>14, <1>15, <1>16, <1>17, <1>18, <1>19, <1>20, <1>21, <1>22, <1>23, <1>24, <1>25, <1>26, <1>27, <1>28, <1>29, <1>30, <1>31, <1>32, <1>33, <1>34, <1>35, <1>36, <1>37, <1>38, <1>39, <1>40, <1>41, <1>42, <1>43, <1>44, <1>45, <1>46 DEF Program
-----------------------------------------------------------------------------
(* Types of the stage driver. *)

(* A call goes on with the next axis or returns. *)
LEMMA AdvanceTyped ==
  ASSUME call \in Calls, axis \in Axes, ok \in BOOLEAN, Advance \/ Fail
  PROVE  call' \in Calls /\ axis' \in Axes /\ ok' \in BOOLEAN
<1>1. 1 \in Axes /\ NA \in Nat /\ (axis < NA => axis + 1 \in Axes)
  BY DriverAssumption
<1>2. ASSUME Advance PROVE call' \in Calls /\ axis' \in Axes /\ ok' \in BOOLEAN
  <2> HIDE DEF Axes
  <2> QED BY <1>1, <1>2 DEF Advance, Return, Calls
<1>3. ASSUME Fail PROVE call' \in Calls /\ axis' \in Axes /\ ok' \in BOOLEAN
  <2> HIDE DEF Axes
  <2> QED BY <1>1, <1>2, <1>3 DEF Fail, Return, Calls
<1> QED BY <1>2, <1>3

(* A motion ends on the axis, and the counter stays an integer. *)
LEMMA RestTyped ==
  ASSUME phys \in [Axes -> 0 .. MaxTravel], counter \in [Axes -> Int],
         axis \in Axes, NEW p \in 0 .. MaxTravel, Rest(p)
  PROVE  phys' \in [Axes -> 0 .. MaxTravel] /\ counter' \in [Axes -> Int]
<1> HIDE DEF Axes
<1>1. p - phys[axis] \in Int
  BY DriverAssumption
<1> QED BY <1>1 DEF Rest

LEMMA StoppedTyped ==
  ASSUME phys \in [Axes -> 0 .. MaxTravel], counter \in [Axes -> Int],
         axis \in Axes, Stopped
  PROVE  phys' \in [Axes -> 0 .. MaxTravel] /\ counter' \in [Axes -> Int]
<1>1. CASE UNCHANGED <<phys, counter>>
  BY <1>1
<1>2. CASE \E p \in 0 .. MaxTravel : Rest(p)
  BY <1>2, RestTyped
<1> QED BY <1>1, <1>2 DEF Stopped, Between

Ended == \/ SkipAxis \/ HomeAxis \/ MoveAxis \/ LimitSwitch \/ QueryAxis \/ Ping
         \/ NoAnswer \/ Reconnect \/ ErrorReply \/ GarbledReply \/ PowerCut
         \/ PowerOn \/ IdleCut

(* Every command, however it is answered, keeps the driver's types. *)
LEMMA DriverStep ==
  ASSUME DriverTypeOK, Ended
  PROVE  DriverTypeOK'
<1> USE DEF DriverTypeOK
<1> HIDE DEF Axes, Unknown
<1>0. /\ MaxTravel \in Nat /\ 0 \in 0 .. MaxTravel
      /\ Forgotten \in [Axes -> Nat \cup {Unknown}]
      /\ HomePosition \in [Axes -> Int]
  BY DriverAssumption DEF Forgotten, HomePosition
<1>1. Digits(counter[axis]) \in Nat
  BY DEF Digits
<1>2. CASE SkipAxis
  BY <1>2, AdvanceTyped DEF SkipAxis
<1>3. CASE HomeAxis
  <2>1. cached' \in [Axes -> Nat \cup {Unknown}]
    BY <1>3 DEF HomeAxis
  <2>2. phys' \in [Axes -> 0 .. MaxTravel] /\ counter' \in [Axes -> Int]
    BY <1>0, <1>3 DEF HomeAxis
  <2> QED BY <1>3, <2>1, <2>2, AdvanceTyped DEF HomeAxis
<1>4. CASE MoveAxis
  BY <1>4, AdvanceTyped, RestTyped DEF MoveAxis, InTravel
<1>5. CASE LimitSwitch
  <2>1. counter[axis] \in Int /\ phys[axis] \in 0 .. MaxTravel
    OBVIOUS
  <2>2. phys' = [phys EXCEPT ![axis] = AtLimit(Aim)]
    BY <1>5 DEF LimitSwitch, Rest
  <2>3. AtLimit(Aim) \in 0 .. MaxTravel
    <3>1. goal[axis] \in Int /\ Limited(goal[axis]) \in Int
      BY <1>0 DEF Limited
    <3>2. cached[axis] \in Int
      BY DEF Unknown
    <3>3. Aim \in Int
      BY <1>0, <2>1, <3>1, <3>2 DEF Aim
    <3> QED BY <1>0, <3>3 DEF AtLimit
  <2> QED BY <1>5, <2>3, AdvanceTyped, RestTyped DEF LimitSwitch
<1>6. CASE QueryAxis
  <2>1. cached' \in [Axes -> Nat \cup {Unknown}] /\ seen' \in [Axes -> Nat \cup {Unknown}]
    BY <1>1, <1>6 DEF QueryAxis
  <2> QED BY <1>6, <2>1, AdvanceTyped DEF QueryAxis
<1>7. CASE Ping
  BY <1>7, AdvanceTyped DEF Ping
<1>8. CASE NoAnswer
  BY <1>8 DEF NoAnswer
<1>15. ASSUME Omit PROVE seen' \in [Axes -> Nat \cup {Unknown}]
  BY <1>15 DEF Omit
<1>9. CASE Reconnect
  BY <1>0, <1>9, <1>15, AdvanceTyped DEF Reconnect
<1>10. CASE ErrorReply
  BY <1>10, <1>15, AdvanceTyped, StoppedTyped DEF ErrorReply
<1>11. CASE GarbledReply
  BY <1>0, <1>11, <1>15, AdvanceTyped, StoppedTyped DEF GarbledReply
<1>12. CASE PowerCut
  <2>1. power' \in BOOLEAN
    BY <1>12, Zenon DEF PowerCut
  <2> QED BY <1>12, <2>1, StoppedTyped DEF PowerCut
<1>13. CASE PowerOn
  BY <1>0, <1>13 DEF PowerOn
<1>14. CASE IdleCut
  <2>1. power' \in BOOLEAN
    BY <1>14, Zenon DEF IdleCut
  <2> QED BY <1>14, <2>1 DEF IdleCut
<1> QED BY <1>2, <1>3, <1>4, <1>5, <1>6, <1>7, <1>8, <1>9, <1>10, <1>11,
           <1>12, <1>13, <1>14 DEF Ended

(* What the program itself does to the driver: it starts a call, resets the *)
(* flag, forgets the positions; the table is moved by the controller alone. *)
LEMMA ProgramCalls ==
  ASSUME TypeOK, ControlInv, Program
  PROVE  /\ UNCHANGED <<power, phys, counter, lost>>
         /\ cached' \in {cached, Forgotten}
         /\ emergency' \in {emergency, FALSE}
         /\ faults' \in {faults, faults + 1}
         /\ \/ UNCHANGED <<call, axis, goal, ok, seen>>
            \/ /\ call' \in Calls /\ axis' = 1 /\ ok' = TRUE
               /\ seen' = HomePosition
               /\ goal' \in [Axes -> Int]
<1> USE DEF ClearAndHome, ClearAndGoto, Reading, Pinging, StartCall, StartHome,
            StartGoto, StartRead, StartPing, Calls
<1> HIDE DEF Axes, Unknown
<1>1. /\ goal \in [Axes -> Int] /\ Unload \in [Axes -> Int]
      /\ Grind \in [Axes -> Int] /\ context.target \in [Axes -> Int]
  <2>1. \A p \in Position \cup {HomePosition} : p \in [Axes -> Int]
    BY DriverAssumption DEF Position, HomePosition
  <2> QED BY <2>1, TableAssumption
          DEF TypeOK, DriverTypeOK, ProgramTypeOK, Contexts
<1>2. at = "move_clear" => MoveTarget \in [Axes -> Int]
  <2>1. at = "move_clear" => MoveTarget \in Position
    BY EntryFacts DEF MoveTarget, ControlInv, IndexOf, OnEntry
  <2> QED BY <2>1, DriverAssumption DEF Position
<1>3. CASE \/ BootHomed \/ HomingRead \/ HomingDone \/ Scan \/ StartRead_
           \/ MoveNextPinged \/ ProcessPastTable \/ ProcessPause
           \/ ProcessUser \/ MovePinged \/ StickyLogged
           \/ MoveVerified \/ Unloaded
           \/ EmergencyHomed \/ EmergencyVerified \/ GrindPressed
           \/ GrindReached \/ ReturnVerified
  <2>1. KeepDriver
    BY <1>3 DEF BootHomed, HomingRead, HomingDone, Scan, StartRead_,
       MoveNextPinged, ProcessPastTable, ProcessPause, ProcessUser,
       MovePinged, StickyLogged, MoveVerified, Unloaded,
       EmergencyHomed, EmergencyVerified, GrindPressed, GrindReached,
       ReturnVerified
  <2> QED BY <2>1
<1>4. CASE \/ Boot \/ Homing \/ HomingPinged \/ HomingMove \/ Start
           \/ StartPinged \/ MoveNext \/ MoveNextPrinted \/ ProcessWeld
           \/ ProcessMove \/ Granted \/ EmergencyMoved \/ Returned
  BY <1>1, <1>4 DEF Boot, Homing, HomingPinged, HomingMove, Start, StartPinged,
     MoveNext, MoveNextPrinted, ProcessWeld, ProcessMove, Granted,
     EmergencyMoved, Returned
<1>5. CASE MoveClear \/ Unloading \/ EmergencyMove \/ GrindMove \/ ReturnMove
  BY <1>1, <1>2, <1>5
     DEF MoveClear, Unloading, EmergencyMove, GrindMove, ReturnMove
<1>6. CASE \/ StartMove \/ WeldPinged \/ Fire \/ SteppingContact
           \/ ContactTimeout \/ WeldResult \/ Emergency \/ Denied
  BY <1>6 DEF StartMove, WeldPinged, Fire, SteppingContact, ContactTimeout,
     WeldResult, Emergency, Denied
<1>7. CASE MoveCheck
  BY <1>1, <1>7 DEF MoveCheck
<1>8. CASE MoveDone
  BY <1>1, <1>8 DEF MoveDone
<1> QED BY <1>3, <1>4, <1>5, <1>6, <1>7, <1>8 DEF Program

LEMMA ProgramDriverStep ==
  ASSUME TypeOK, ControlInv, Program
  PROVE  DriverTypeOK'
<1> HIDE DEF Axes, Unknown
<1>1. 1 \in Axes /\ HomePosition \in [Axes -> Nat]
        /\ Forgotten \in [Axes -> Nat \cup {Unknown}]
  BY DriverAssumption DEF HomePosition, Forgotten, Axes
<1>2. emergency' \in BOOLEAN /\ power' \in BOOLEAN /\ lost' \in BOOLEAN
  BY ProgramCalls, Zenon DEF TypeOK, DriverTypeOK
<1>3. ok' \in BOOLEAN
  BY ProgramCalls, Zenon DEF TypeOK, DriverTypeOK
<1>4. /\ phys' \in [Axes -> 0 .. MaxTravel] /\ counter' \in [Axes -> Int]
      /\ cached' \in [Axes -> Nat \cup {Unknown}]
  BY <1>1, ProgramCalls, Zenon DEF TypeOK, DriverTypeOK
<1>6. faults' \in Nat
  <2>1. faults \in Nat
    BY DEF TypeOK, DriverTypeOK
  <2>2. faults' \in {faults, faults + 1}
    BY ProgramCalls
  <2> QED BY <2>1, <2>2
<1>5. /\ call' \in Calls /\ axis' \in Axes /\ goal' \in [Axes -> Int]
      /\ seen' \in [Axes -> Nat \cup {Unknown}]
  BY <1>1, ProgramCalls DEF TypeOK, DriverTypeOK
<1> QED BY <1>2, <1>3, <1>4, <1>5, <1>6 DEF DriverTypeOK

-----------------------------------------------------------------------------
(* The threads and the world leave the program's variables alone. *)

LEMMA ThreadsStep ==
  ASSUME TypeOK, ControlInv, Threads
  PROVE  TypeOK' /\ ControlInv'
<1>1. UNCHANGED progVars
  BY DEF Threads, GrindWatchdog, Monitor
<1>2. ControlInv'
  BY <1>1 DEF progVars, ControlInv, PlaceOf, IndexOf, ContextOf, WeldOf, ToMove,
     ToWeld, ToInit, OnEntry, BetweenMoves, MoveTarget, WeldTarget
<1>3. CASE GrindWatchdog
  <2>1. grind_request' \in BOOLEAN
    BY <1>3, Zenon DEF GrindWatchdog
  <2>2. DriverTypeOK'
    BY <1>3 DEF GrindWatchdog, TypeOK, DriverTypeOK
  <2>3. active' \subseteq Inputs /\ previous' \subseteq Inputs
    BY <1>3 DEF GrindWatchdog, TypeOK, ProgramTypeOK
  <2>4. ProgramTypeOK'
    BY <1>1, <2>1, <2>3 DEF progVars, TypeOK, ProgramTypeOK
  <2> QED BY <1>2, <2>2, <2>4 DEF TypeOK
<1>4. ASSUME NEW i \in Inputs, Monitor(i) PROVE TypeOK'
  <2>1. emergency' \in BOOLEAN
    BY <1>4 DEF Monitor, TypeOK, DriverTypeOK
  <2>2. previous' \subseteq Inputs
    BY <1>4 DEF Monitor, TypeOK, ProgramTypeOK
  <2> QED BY <1>1, <1>4, <2>1, <2>2
          DEF Monitor, progVars, TypeOK, DriverTypeOK, ProgramTypeOK
<1> QED BY <1>2, <1>3, <1>4 DEF Threads

LEMMA WorldStep ==
  ASSUME TypeOK, ControlInv, World
  PROVE  TypeOK' /\ ControlInv'
<1>1. UNCHANGED progVars
  BY DEF World, DriverAnswer, PowerBack, CutUnderCommand, CutWhileIdle,
     RefusedCommand, NoisyReply, Outside, Trip, Release
<1>2. ControlInv'
  BY <1>1 DEF progVars, ControlInv, PlaceOf, IndexOf, ContextOf, WeldOf, ToMove,
     ToWeld, ToInit, OnEntry, BetweenMoves, MoveTarget, WeldTarget
<1>3. CASE Ended /\ Outside
  <2>1. DriverTypeOK'
    BY <1>3, DriverStep DEF TypeOK
  <2> QED BY <1>1, <1>2, <1>3, <2>1 DEF Outside, progVars, TypeOK, ProgramTypeOK
<1>4. ASSUME NEW i \in Inputs, Trip(i) \/ Release(i) PROVE TypeOK'
  <2>1. active' \subseteq Inputs
    BY <1>4 DEF Trip, Release, TypeOK, ProgramTypeOK
  <2>2. DriverTypeOK'
    BY <1>4 DEF Trip, Release, TypeOK, DriverTypeOK
  <2> QED BY <1>1, <1>4, <2>1, <2>2 DEF Trip, Release, progVars, TypeOK, ProgramTypeOK
<1> QED BY <1>2, <1>3, <1>4 DEF World, Ended, Answer, DriverAnswer, PowerBack,
           CutUnderCommand, CutWhileIdle, RefusedCommand, NoisyReply

-----------------------------------------------------------------------------

LEMMA InitTyped == Init => TypeOK /\ ControlInv
<1> SUFFICES ASSUME Init PROVE TypeOK /\ ControlInv
  OBVIOUS
<1>1. DriverTypeOK
  <2> HIDE DEF Axes, Unknown
  <2>1. 1 \in Axes /\ HomePosition \in [Axes -> Nat]
        /\ Forgotten \in [Axes -> Nat \cup {Unknown}]
    BY DriverAssumption DEF HomePosition, Forgotten, Axes
  <2>2. counter \in [Axes -> Int]
    BY <2>1, DriverAssumption DEF Init, DriverInit
  <2>3. /\ power \in BOOLEAN /\ emergency \in BOOLEAN /\ ok \in BOOLEAN
        /\ lost \in BOOLEAN
    BY Zenon DEF Init, DriverInit
  <2>4. call \in Calls /\ axis \in Axes /\ faults \in Nat
    BY <2>1 DEF Init, DriverInit, Calls
  <2> QED BY <2>1, <2>2, <2>3, <2>4 DEF Init, DriverInit, DriverTypeOK
<1>2. ProgramTypeOK
  <2>1. /\ waiting \in BOOLEAN /\ pedal \in BOOLEAN /\ trigger \in BOOLEAN
        /\ grind_request \in BOOLEAN
    BY Zenon DEF Init
  <2>2. state \in States /\ at \in Places /\ context \in Contexts
    BY ContextFacts DEF Init, States, Places
  <2>3. table_index \in -1 .. Len(Table) /\ welding_position \in Int
    BY TableAssumption DEF Init
  <2>4. /\ active \subseteq Inputs /\ previous \subseteq Inputs
        /\ welded \subseteq Indexes /\ struck \subseteq Indexes
    BY DEF Init
  <2> QED BY <2>1, <2>2, <2>3, <2>4 DEF ProgramTypeOK
<1>3. ControlInv
  BY DEF Init, ControlInv, PlaceOf, IndexOf, ContextOf, WeldOf, BetweenMoves
<1> QED BY <1>1, <1>2, <1>3 DEF TypeOK

LEMMA StutterTyped ==
  ASSUME TypeOK, ControlInv, UNCHANGED vars
  PROVE  TypeOK' /\ ControlInv'
BY DEF vars, progVars, TypeOK, DriverTypeOK, ProgramTypeOK, ControlInv, PlaceOf,
   IndexOf, ContextOf, WeldOf, ToMove, ToWeld, ToInit, OnEntry, BetweenMoves,
   MoveTarget, WeldTarget

(* The control invariant is inductive together with the types. *)
THEOREM ControlCorrect == Spec => [](TypeOK /\ ControlInv)
<1>1. TypeOK /\ ControlInv /\ [Next]_vars => TypeOK' /\ ControlInv'
  BY ProgramStep, ProgramDriverStep, ThreadsStep, WorldStep, StutterTyped
     DEF Next, TypeOK
<1> QED BY InitTyped, <1>1, PTL DEF Spec

(* Every variable keeps its type: table_index never runs more than one past *)
(* the table, the recovery context is always a complete record.             *)
THEOREM TypeCorrect == Spec => []TypeOK
  BY ControlCorrect, PTL

-----------------------------------------------------------------------------
(* No welding point is passed over. *)

(* The OK results of the cycle are those of the WELD entries passed. *)
LEMMA WeldedStep ==
  ASSUME TypeOK, ControlInv, WeldedOf, Program
  PROVE  WeldedOf'
<1> USE DEF WeldedOf, Passed, IsWeld
<1>0. welded \subseteq Indexes /\ table_index \in Int
      /\ (\A i \in Indexes : i \in Int)
  BY TableAssumption DEF TypeOK, ProgramTypeOK, Indexes
<1>1. CASE Scan
  BY <1>0, <1>1 DEF Scan, Indexes
<1>2. CASE MoveNextPinged
  <2>1. CASE ok
    <3>1. state = "MOVE_NEXT_COMMAND"
      BY <1>2 DEF MoveNextPinged, ControlInv, PlaceOf
    <3>2. /\ table_index' = table_index + 1 /\ welded' = welded
          /\ state' # "MOVE_NEXT_COMMAND"
      BY <1>2, <2>1 DEF MoveNextPinged, StateAt
    <3>3. \A i \in Indexes : Passed(i)' <=> Passed(i)
      BY <1>0, <3>1, <3>2
    <3> QED BY <3>2, <3>3
  <2>2. CASE ~ok
    BY <1>2, <2>2 DEF MoveNextPinged, ControlInv, PlaceOf
  <2> QED BY <2>1, <2>2
<1>3. CASE StartMove
  <2>1. state = "START" /\ ~OnEntry("WELD")
    BY <1>3 DEF StartMove, ControlInv, PlaceOf, IndexOf
  <2> QED BY <1>0, <1>3, <2>1 DEF StartMove, OnEntry
<1>4. CASE ProcessPause
  BY <1>0, <1>4 DEF ProcessPause, Processing
<1>5. CASE MoveVerified
  <2>1. OnEntry("MOVE") /\ state = "PROCESS_COMMAND"
    BY <1>5 DEF MoveVerified, ControlInv, PlaceOf, IndexOf
  <2> QED BY <1>0, <1>5, <2>1 DEF MoveVerified, StateAt, OnEntry
<1>6. CASE WeldResult
  <2>1. OnEntry("WELD") /\ state = "FULL_AUTOMATION"
    BY <1>6 DEF WeldResult, ControlInv, IndexOf
  <2>2. \/ welded' = welded \cup {table_index} /\ state' = "MOVE_NEXT_COMMAND"
        \/ welded' = welded /\ state' \in {"ERROR_WELD", "FULL_AUTOMATION"}
    BY <1>6, <2>1 DEF WeldResult
  <2>3. UNCHANGED table_index
    BY <1>6 DEF WeldResult
  <2> QED BY <1>0, <2>1, <2>2, <2>3 DEF OnEntry
<1>7. CASE EmergencyHomed \/ EmergencyVerified
  <2>1. state = "EMERGENCY_HANDLING" /\ (ToMove \/ ToWeld \/ ToInit)
    BY <1>7 DEF EmergencyHomed, EmergencyVerified, ControlInv, PlaceOf, ContextOf
  <2>2. CASE Recovered
    <3>1. state' \in {"INIT", "PROCESS_COMMAND"} /\ UNCHANGED welded
      BY <1>7, <2>1, <2>2 DEF EmergencyHomed, EmergencyVerified, Recovered,
         ToMove, ToWeld, ToInit
    <3>2. CASE table_index' = table_index
      BY <2>1, <3>1, <3>2
    <3>3. CASE table_index' = table_index + 1 /\ OnEntry("MOVE")
      BY <1>0, <2>1, <3>1, <3>3 DEF OnEntry
    <3> QED BY <2>1, <2>2, <3>2, <3>3 DEF Recovered, ToMove, ToWeld, ToInit
  <2>3. CASE ~Recovered
    BY <1>7, <2>1, <2>3 DEF EmergencyHomed, EmergencyVerified
  <2> QED BY <2>2, <2>3
<1>8. CASE ~(\/ Scan \/ MoveNextPinged \/ StartMove \/ ProcessPause
             \/ MoveVerified \/ WeldResult \/ EmergencyHomed
             \/ EmergencyVerified)
  <2>1. /\ UNCHANGED <<table_index, welded>>
        /\ state' = "MOVE_NEXT_COMMAND" <=> state = "MOVE_NEXT_COMMAND"
    BY <1>8 DEF Program, Boot, BootHomed, Homing, HomingPinged, HomingRead,
       HomingMove, HomingDone, Start, StartPinged, StartRead_, MoveNext,
       MoveNextPrinted, ProcessPastTable, ProcessUser, ProcessWeld, WeldPinged,
       ProcessMove, MovePinged, MoveCheck, StickyLogged, MoveClear, MoveDone,
       Fire, SteppingContact, ContactTimeout, Unloading, Unloaded, Emergency,
       Denied, Granted, EmergencyMove, EmergencyMoved, GrindPressed, GrindMove,
       GrindReached, ReturnMove, Returned, ReturnVerified, Processing, Phase,
       ControlInv, PlaceOf, ContextOf, ToMove
  <2> QED BY <2>1
<1> QED BY <1>1, <1>2, <1>3, <1>4, <1>5, <1>6, <1>7, <1>8

LEMMA WeldedCorrect == Spec => []WeldedOf
<1>1. Init => WeldedOf
  BY TableAssumption DEF Init, WeldedOf, Passed, IsWeld, Indexes
<1>2. TypeOK /\ ControlInv /\ WeldedOf /\ [Next]_vars => WeldedOf'
  <2>1. ASSUME WeldedOf, UNCHANGED progVars PROVE WeldedOf'
    BY <2>1 DEF progVars, WeldedOf, Passed, IsWeld
  <2>2. Threads \/ World \/ UNCHANGED vars => UNCHANGED progVars
    BY DEF Threads, GrindWatchdog, Monitor, World, DriverAnswer, PowerBack,
       CutUnderCommand, CutWhileIdle, RefusedCommand, NoisyReply, Outside,
       Trip, Release, vars
  <2> QED BY <2>1, <2>2, WeldedStep DEF Next
<1> QED BY <1>1, <1>2, ControlCorrect, PTL DEF Spec

(* No welding point is passed over: when the table goes on behind a WELD    *)
(* entry, the point has an OK result of this battery, whatever emergencies, *)
(* rejected welds and repeated welds came between.                          *)
THEOREM PointsNotSkipped == Spec => []NoPointSkipped
<1>1. WeldedOf => NoPointSkipped
  BY DEF WeldedOf, NoPointSkipped, Passed
<1> QED BY <1>1, WeldedCorrect, PTL

-----------------------------------------------------------------------------
(* The program implements the abstract welding cycle. *)

(* Every operation of the program is a step of the abstract cycle, or none. *)
LEMMA CycleStep ==
  ASSUME TypeOK, ControlInv, WeldedOf, Program
  PROVE  [Cycle!Next]_(Cycle!vars)
<1> USE DEF Cycle!Next, Cycle!vars, Cycle!Nothing
<1>0. /\ welded \subseteq Indexes /\ table_index \in Int
      /\ \A i \in Indexes : i \in Nat
  BY TableAssumption DEF TypeOK, ProgramTypeOK, Indexes
<1>1. CASE Scan
  <2>1. ~waiting /\ ~waiting' /\ at # "stepping_contact" /\ at' # "stepping_contact"
    BY <1>1 DEF Scan, ControlInv, WeldOf
  <2>2. Cycle!NextBattery
    BY <1>1, <2>1 DEF Scan, Cycle!NextBattery, Cycle!Nothing
  <2> QED BY <2>2
<1>2. CASE Fire
  <2>1. /\ OnEntry("WELD") /\ state = "FULL_AUTOMATION" /\ ~waiting
        /\ at # "stepping_contact"
    BY <1>2 DEF Fire, ControlInv, IndexOf, WeldOf
  <2>2. at' = "stepping_contact" /\ UNCHANGED <<welded, table_index>>
    BY <1>2, Zenon DEF Fire
  <2>3. /\ table_index \notin welded
        /\ \A q \in Indexes : IsWeld(q) /\ q < table_index => q \in welded
    BY <1>0, <2>1 DEF WeldedOf, Passed, IsWeld, OnEntry
  <2>4. Cycle!Fire(table_index)
    BY <2>1, <2>2, <2>3 DEF Cycle!Fire, Cycle!Nothing
  <2> QED BY <2>1, <2>4 DEF OnEntry, IsWeld
<1>3. CASE ContactTimeout
  <2>1. at = "stepping_contact" /\ table_index \in Nat
    BY <1>0, <1>3 DEF ContactTimeout, ControlInv, PlaceOf, IndexOf, OnEntry
  <2>2. at' # "stepping_contact" /\ ~waiting' /\ UNCHANGED welded
    BY <1>3, Zenon DEF ContactTimeout
  <2>3. Cycle!Discard
    BY <2>1, <2>2 DEF Cycle!Discard, Cycle!Nothing
  <2> QED BY <2>3
<1>4. CASE WeldResult
  <2>1. waiting /\ table_index \in Nat
    BY <1>0, <1>4 DEF WeldResult, ControlInv, IndexOf, OnEntry
  <2>2. ~waiting' /\ at' # "stepping_contact"
    BY <1>4 DEF WeldResult
  <2>3. welded' = welded \/ welded' = welded \cup {table_index}
    BY <1>4 DEF WeldResult
  <2>4. CASE welded' = welded
    BY <2>1, <2>2, <2>4 DEF Cycle!Discard, Cycle!Nothing
  <2>5. CASE welded' = welded \cup {table_index}
    BY <2>1, <2>2, <2>5 DEF Cycle!Accept, Cycle!Nothing
  <2> QED BY <2>3, <2>4, <2>5
<1>5. CASE SteppingContact
  <2>1. at = "stepping_contact" /\ waiting' /\ UNCHANGED <<table_index, welded>>
    BY <1>5, Zenon DEF SteppingContact
  <2> QED BY <2>1
<1>6. CASE MoveNextPinged \/ MoveVerified \/ EmergencyHomed \/ EmergencyVerified
  <2>1. /\ at # "stepping_contact" /\ at' # "stepping_contact"
        /\ ~waiting /\ UNCHANGED <<waiting, welded>>
    BY <1>6 DEF MoveNextPinged, MoveVerified, EmergencyHomed, EmergencyVerified,
       Recovered, ControlInv, PlaceOf, WeldOf
  <2> QED BY <2>1
<1>7. CASE ~(\/ Scan \/ Fire \/ ContactTimeout \/ WeldResult \/ SteppingContact
             \/ MoveNextPinged \/ MoveVerified \/ EmergencyHomed
             \/ EmergencyVerified)
  <2>1. /\ UNCHANGED <<table_index, welded, waiting>>
        /\ at # "stepping_contact" /\ at' # "stepping_contact"
    BY <1>7 DEF Program, Boot, BootHomed, Homing, HomingPinged, HomingRead,
       HomingMove, HomingDone, Start, StartPinged, StartRead_, StartMove,
       MoveNext, MoveNextPrinted, ProcessPastTable, ProcessPause, ProcessUser,
       ProcessWeld, WeldPinged, ProcessMove, MovePinged, MoveCheck,
       StickyLogged, MoveClear, MoveDone, Unloading, Unloaded, Emergency,
       Denied, Granted, EmergencyMove, EmergencyMoved, GrindPressed, GrindMove,
       GrindReached, ReturnMove, Returned, ReturnVerified, Processing, Phase
  <2> QED BY <2>1
<1> QED BY <1>1, <1>2, <1>3, <1>4, <1>5, <1>6, <1>7

(* The program is a welding cycle: the points of a battery are fired in the *)
(* order of the table, each only when those before it have an OK result,    *)
(* and never after its own OK result.                                       *)
THEOREM CycleImplemented == Spec => CycleSpec
<1>1. Init => Cycle!Init
  BY Zenon DEF Init, Cycle!Init, Cycle!Nothing
<1>2. TypeOK /\ ControlInv /\ WeldedOf /\ [Next]_vars => [Cycle!Next]_(Cycle!vars)
  <2>1. Threads \/ World \/ UNCHANGED vars => UNCHANGED progVars
    BY DEF Threads, GrindWatchdog, Monitor, World, DriverAnswer, PowerBack,
       CutUnderCommand, CutWhileIdle, RefusedCommand, NoisyReply, Outside,
       Trip, Release, vars
  <2>2. UNCHANGED progVars => UNCHANGED Cycle!vars
    BY DEF progVars, Cycle!vars
  <2> QED BY <2>1, <2>2, CycleStep DEF Next
<1> QED BY <1>1, <1>2, ControlCorrect, WeldedCorrect, PTL
        DEF Spec, CycleSpec, Cycle!Spec

-----------------------------------------------------------------------------
(* The number of the welding point. *)

WeldAt(i) == i \in Indexes /\ IsWeld(i)

LEMMA IndexFacts ==
  /\ Len(Table) \in Nat \ {0}
  /\ Indexes = 0 .. Len(Table) - 1
  /\ \A i : WeldAt(i) => i \in Indexes
<1>1. Len(Table) \in Nat /\ Len(Table) # 0
  BY TableAssumption
<1> QED BY <1>1 DEF Indexes, WeldAt

Before(i) == {j \in Indexes : j < i /\ IsWeld(j)}

(* welding_position counts the WELD entries before table_index, and the     *)
(* entry itself while it is welded.                                         *)
Counting ==
  \/ state \in {"FULL_AUTOMATION", "ERROR_WELD"}
  \/ state = "MOVE_NEXT_COMMAND" /\ WeldAt(table_index)

Counted ==
  at = "crashed" \/ state = "INIT"
    \/ (state = "EMERGENCY_HANDLING" /\ context.ret = "INIT")
    \/ welding_position = Cardinality(Before(table_index))
                            + (IF Counting THEN 1 ELSE 0)

(* Passing an entry counts it if it is a WELD. *)
LEMMA BeforeFacts ==
  /\ \A t \in -1 .. Len(Table) : Cardinality(Before(t)) \in Nat
  /\ Cardinality(Before(-1)) = 0
  /\ \A t \in -1 .. Len(Table) - 1 :
       Cardinality(Before(t + 1))
         = Cardinality(Before(t)) + (IF WeldAt(t) THEN 1 ELSE 0)
<1>1. ASSUME NEW t \in Int
      PROVE  IsFiniteSet(Before(t)) /\ Cardinality(Before(t)) \in Nat
  <2>1. IsFiniteSet(0 .. Len(Table) - 1)
    BY FS_Interval, IndexFacts
  <2>2. Before(t) \subseteq 0 .. Len(Table) - 1
    BY IndexFacts DEF Before, WeldAt
  <2>3. IsFiniteSet(Before(t))
    BY <2>1, <2>2, FS_Subset
  <2> QED BY <2>3, FS_CardinalityType
<1>2. Cardinality(Before(-1)) = 0
  <2>1. Before(-1) = {}
    BY IndexFacts DEF Before, WeldAt
  <2> QED BY <2>1, FS_EmptySet
<1>3. ASSUME NEW t \in -1 .. Len(Table) - 1
      PROVE  Cardinality(Before(t + 1))
               = Cardinality(Before(t)) + (IF WeldAt(t) THEN 1 ELSE 0)
  <2>1. CASE WeldAt(t)
    <3>1. Before(t + 1) = Before(t) \cup {t} /\ t \notin Before(t)
      BY <2>1, IndexFacts DEF Before, WeldAt
    <3>2. Cardinality(Before(t + 1)) = Cardinality(Before(t)) + 1
      BY <1>1, <3>1, FS_AddElement
    <3> QED BY <2>1, <3>2
  <2>2. CASE ~WeldAt(t)
    <3>1. Before(t + 1) = Before(t)
      BY <2>2, IndexFacts DEF Before, WeldAt
    <3> QED BY <1>1, <2>2, <3>1
  <2> QED BY <2>1, <2>2
<1>4. \A t \in -1 .. Len(Table) : t \in Int
  BY IndexFacts
<1> QED BY <1>1, <1>2, <1>3, <1>4

(* A point is counted when the pedal is enabled for it, and taken back when *)
(* its weld is given up.                                                    *)
LEMMA CountStep ==
  ASSUME TypeOK, ControlInv, Counted, Program
  PROVE  Counted'
<1> USE DEF ControlInv, PlaceOf, IndexOf, ContextOf, Counted, Counting, ToWeld,
            ToMove, ToInit
<1>0. /\ table_index \in -1 .. Len(Table) /\ Len(Table) \in Nat
      /\ OnEntry("WELD") <=> WeldAt(table_index)
      /\ OnEntry("MOVE") \/ OnEntry("PAUSE") \/ OnEntry("USER") => ~WeldAt(table_index)
      /\ \A op : OnEntry(op) => table_index \in -1 .. Len(Table) - 1
      /\ BetweenMoves => table_index \in -1 .. Len(Table) - 1
      /\ context \in Contexts
  BY IndexFacts DEF TypeOK, ProgramTypeOK, OnEntry, WeldAt, IsWeld, BetweenMoves
<1>1. CASE Boot
  BY <1>0, BeforeFacts, <1>1 DEF Boot
<1>2. CASE BootHomed
  BY <1>0, BeforeFacts, <1>2 DEF BootHomed
<1>3. CASE Homing
  BY <1>0, BeforeFacts, <1>3 DEF Homing
<1>4. CASE HomingPinged
  BY <1>0, BeforeFacts, <1>4 DEF HomingPinged
<1>5. CASE HomingRead
  BY <1>0, BeforeFacts, <1>5 DEF HomingRead
<1>6. CASE HomingMove
  BY <1>0, BeforeFacts, <1>6 DEF HomingMove
<1>7. CASE HomingDone
  BY <1>0, BeforeFacts, <1>7 DEF HomingDone
<1>8. CASE Scan
  BY <1>0, BeforeFacts, <1>8 DEF Scan
<1>9. CASE Start
  BY <1>0, BeforeFacts, <1>9 DEF Start
<1>10. CASE StartPinged
  BY <1>0, BeforeFacts, <1>10 DEF StartPinged
<1>11. CASE StartRead_
  BY <1>0, BeforeFacts, <1>11 DEF StartRead_
<1>12. CASE StartMove
  BY <1>0, BeforeFacts, <1>12 DEF StartMove
<1>13. CASE MoveNext
  BY <1>0, BeforeFacts, <1>13 DEF MoveNext
<1>14. CASE MoveNextPrinted
  BY <1>0, BeforeFacts, <1>14 DEF MoveNextPrinted
<1>15. CASE MoveNextPinged
  BY <1>0, BeforeFacts, <1>15 DEF MoveNextPinged, StateAt
<1>16. CASE ProcessPastTable
  BY <1>0, BeforeFacts, <1>16 DEF ProcessPastTable
<1>17. CASE ProcessPause
  <2>1. OnEntry("PAUSE") /\ state = "PROCESS_COMMAND"
    BY <1>17 DEF ProcessPause, Processing, OnEntry
  <2> QED BY <1>0, BeforeFacts, <1>17, <2>1 DEF ProcessPause, Processing
<1>18. CASE ProcessUser
  BY <1>0, BeforeFacts, <1>18 DEF ProcessUser, Processing
<1>19. CASE ProcessWeld
  BY <1>0, BeforeFacts, <1>19 DEF ProcessWeld, Processing
<1>20. CASE WeldPinged
  BY <1>0, BeforeFacts, <1>20 DEF WeldPinged
<1>21. CASE ProcessMove
  BY <1>0, BeforeFacts, <1>21 DEF ProcessMove, Processing
<1>22. CASE MovePinged
  BY <1>0, BeforeFacts, <1>22 DEF MovePinged
<1>23. CASE MoveCheck
  BY <1>0, BeforeFacts, <1>23 DEF MoveCheck
<1>24. CASE StickyLogged
  BY <1>0, BeforeFacts, <1>24 DEF StickyLogged
<1>25. CASE MoveClear
  BY <1>0, BeforeFacts, <1>25 DEF MoveClear
<1>26. CASE MoveDone
  BY <1>0, BeforeFacts, <1>26 DEF MoveDone
<1>27. CASE MoveVerified
  BY <1>0, BeforeFacts, <1>27 DEF MoveVerified, StateAt
<1>28. CASE Fire
  BY <1>0, BeforeFacts, <1>28 DEF Fire
<1>29. CASE SteppingContact
  BY <1>0, BeforeFacts, <1>29 DEF SteppingContact
<1>30. CASE ContactTimeout
  BY <1>0, BeforeFacts, <1>30 DEF ContactTimeout
<1>31. CASE WeldResult
  BY <1>0, BeforeFacts, <1>31 DEF WeldResult
<1>32. CASE Unloading
  BY <1>0, BeforeFacts, <1>32 DEF Unloading
<1>33. CASE Unloaded
  BY <1>0, BeforeFacts, <1>33 DEF Unloaded
<1>34. CASE Emergency
  BY <1>0, BeforeFacts, <1>34 DEF Emergency, NoContext
<1>35. CASE Denied
  BY <1>0, BeforeFacts, <1>35 DEF Denied
<1>36. CASE Granted
  BY <1>0, BeforeFacts, <1>36 DEF Granted
<1>37. CASE EmergencyHomed
  BY <1>0, BeforeFacts, <1>37 DEF EmergencyHomed, Recovered, NoContext
<1>38. CASE EmergencyMove
  BY <1>0, BeforeFacts, <1>38 DEF EmergencyMove
<1>39. CASE EmergencyMoved
  BY <1>0, BeforeFacts, <1>39 DEF EmergencyMoved
<1>40. CASE EmergencyVerified
  BY <1>0, BeforeFacts, <1>40 DEF EmergencyVerified, Recovered, NoContext
<1>41. CASE GrindPressed
  BY <1>0, BeforeFacts, <1>41, ContextFacts DEF GrindPressed, Phase, SetPhase
<1>42. CASE GrindMove
  BY <1>0, BeforeFacts, <1>42 DEF GrindMove, Phase
<1>43. CASE GrindReached
  BY <1>0, BeforeFacts, <1>43, ContextFacts DEF GrindReached, SetPhase
<1>44. CASE ReturnMove
  BY <1>0, BeforeFacts, <1>44 DEF ReturnMove, Phase
<1>45. CASE Returned
  BY <1>0, BeforeFacts, <1>45 DEF Returned
<1>46. CASE ReturnVerified
  BY <1>0, BeforeFacts, <1>46 DEF ReturnVerified, NoContext
<1> QED BY <1>1, <1>2, <1>3, <1>4, <1>5, <1>6, <1>7, <1>8, <1>9, <1>10, <1>11,
           <1>12, <1>13, <1>14, <1>15, <1>16, <1>17, <1>18, <1>19, <1>20,
           <1>21, <1>22, <1>23, <1>24, <1>25, <1>26, <1>27, <1>28, <1>29,
           <1>30, <1>31, <1>32, <1>33, <1>34, <1>35, <1>36, <1>37, <1>38,
           <1>39, <1>40, <1>41, <1>42, <1>43, <1>44, <1>45, <1>46 DEF Program

LEMMA CountedCorrect == Spec => []Counted
<1>1. Init => Counted
  BY BeforeFacts DEF Init, Counted, Counting
<1>2. TypeOK /\ ControlInv /\ Counted /\ [Next]_vars => Counted'
  <2>1. ASSUME Counted, UNCHANGED progVars PROVE Counted'
    BY <2>1 DEF progVars, Counted, Counting
  <2>2. Threads \/ World \/ UNCHANGED vars => UNCHANGED progVars
    BY DEF Threads, GrindWatchdog, Monitor, World, DriverAnswer, PowerBack,
       CutUnderCommand, CutWhileIdle, RefusedCommand, NoisyReply, Outside,
       Trip, Release, vars
  <2> QED BY <2>1, <2>2, CountStep DEF Next
<1> QED BY <1>1, <1>2, ControlCorrect, PTL DEF Spec

(* The point the supervisor is asked to confirm is the point the recovery   *)
(* resumes at, whatever was repeated, rejected or interrupted before.       *)
THEOREM RestartNumberRight == Spec => []RestartNumber
<1>1. TypeOK /\ ControlInv /\ Counted => RestartNumber
  <2> SUFFICES ASSUME TypeOK, ControlInv, Counted, at = "authorization",
                      context.ret = "PROCESS_COMMAND"
               PROVE  welding_position = Cardinality(Before(table_index))
    BY DEF RestartNumber, Before
  <2>1. table_index \in -1 .. Len(Table) /\ state = "EMERGENCY_HANDLING"
    BY DEF TypeOK, ProgramTypeOK, ControlInv, PlaceOf
  <2> QED BY <2>1, BeforeFacts DEF Counted, Counting
<1> QED BY <1>1, ControlCorrect, CountedCorrect, PTL
-----------------------------------------------------------------------------
(* What an answer of the controller does to the reference of the table.     *)

(* Every counted step keeps the counter at the place of the table. *)
LEMMA RestReferenced ==
  ASSUME DriverTypeOK, NEW p \in 0 .. MaxTravel, Rest(p), Referenced
  PROVE  Referenced'
<1> HIDE DEF Axes
<1>1. /\ p \in Int /\ phys[axis] \in Int /\ counter[axis] = phys[axis]
      /\ phys = counter
  BY DriverAssumption DEF DriverTypeOK, Referenced
<1>2. p = counter[axis] + (p - phys[axis])
  BY <1>1
<1> QED BY <1>1, <1>2 DEF Rest, Referenced

LEMMA StoppedReferenced ==
  ASSUME DriverTypeOK, Stopped
  PROVE  /\ Referenced => Referenced'
         /\ ~Moving => UNCHANGED <<phys, counter>>
<1>1. CASE UNCHANGED <<phys, counter>>
  BY <1>1 DEF Referenced
<1>2. CASE Moving /\ \E p \in 0 .. MaxTravel : Rest(p)
  BY <1>2, RestReferenced
<1> QED BY <1>1, <1>2 DEF Stopped, Between

LEMMA HomeReferenced ==
  ASSUME DriverTypeOK, HomeAxis
  PROVE  Referenced => Referenced'
<1> HIDE DEF Axes
<1> QED BY DEF HomeAxis, Referenced, DriverTypeOK

(* How the call in progress goes on. *)
LEMMA AdvanceGoes ==
  ASSUME DriverTypeOK, call # "idle", Advance \/ Fail
  PROVE  /\ call' \in {call, "idle"} \/ (call = "goto" /\ call' = "sync")
         /\ call' = call => axis < NA /\ axis' = axis + 1
         /\ call' = "idle" => axis = NA \/ call = "ping" \/ ~ok'
         /\ ok' => ok
         /\ call = "goto" /\ Advance => call' # "idle"
BY DriverAssumption DEF Advance, Fail, Return, DriverTypeOK, Calls

(* The command of the call in progress is answered, well or badly. *)
Replied == Answer \/ ErrorReply \/ GarbledReply

LEMMA RepliedKeeps ==
  ASSUME DriverTypeOK, lost => call # "idle", Replied
  PROVE  /\ call # "idle" /\ power' = power
         /\ emergency => emergency'
         /\ lost => lost' \/ emergency'
         /\ lost' => call' = call
         /\ ~power => lost' \/ call' # "idle"
<1>1. Ready \/ Reconnect
  BY DEF Replied, Answer, SkipAxis, HomeAxis, MoveAxis, LimitSwitch, QueryAxis,
     Ping, NoAnswer, ErrorReply, GarbledReply, Commanding
<1>2. call # "idle"
  BY <1>1 DEF Ready, Reconnect
<1>3. power' = power
  BY DEF Replied, Answer, SkipAxis, HomeAxis, MoveAxis, LimitSwitch, QueryAxis,
     Ping, NoAnswer, Reconnect, ErrorReply, GarbledReply
<1>4. emergency => emergency'
  BY DEF Replied, Answer, SkipAxis, HomeAxis, MoveAxis, LimitSwitch, QueryAxis,
     Ping, NoAnswer, Reconnect, ErrorReply, GarbledReply
<1>5. lost => lost' \/ emergency'
  BY DEF Replied, Answer, SkipAxis, HomeAxis, MoveAxis, LimitSwitch, QueryAxis,
     Ping, NoAnswer, Reconnect, ErrorReply, GarbledReply
<1>6. lost' => call' = call
  BY DEF Replied, Answer, SkipAxis, HomeAxis, MoveAxis, LimitSwitch, QueryAxis,
     Ping, NoAnswer, Reconnect, ErrorReply, GarbledReply, Commanding, Ready
<1>7. ~power => lost' \/ call' # "idle"
  BY <1>2, AdvanceGoes DEF Replied, Answer, SkipAxis, HomeAxis, MoveAxis,
     LimitSwitch, QueryAxis, Ping, NoAnswer, Reconnect, ErrorReply, GarbledReply
<1> QED BY <1>2, <1>3, <1>4, <1>5, <1>6, <1>7

LEMMA RepliedCall ==
  ASSUME DriverTypeOK, lost => call # "idle", Replied
  PROVE  /\ call' \in {call, "idle"} \/ (call = "goto" /\ call' = "sync")
         /\ call # "sync" /\ ok' /\ ~lost' => ok /\ ~lost
<1>1. CASE NoAnswer
  BY <1>1 DEF NoAnswer
<1>2. CASE ~NoAnswer
  <2>1. Advance \/ Fail
    BY <1>2 DEF Replied, Answer, SkipAxis, HomeAxis, MoveAxis, LimitSwitch,
       QueryAxis, Ping, Reconnect, ErrorReply, GarbledReply
  <2>2. lost /\ ~lost' => Fail
    BY <1>2 DEF Replied, Answer, SkipAxis, HomeAxis, MoveAxis, LimitSwitch,
       QueryAxis, Ping, Reconnect, ErrorReply, GarbledReply, Commanding, Ready
  <2>3. Fail /\ call # "sync" => ~ok'
    BY DEF Fail, Return
  <2>4. call # "idle"
    BY RepliedKeeps
  <2> QED BY <2>1, <2>2, <2>3, <2>4, AdvanceGoes
<1> QED BY <1>1, <1>2

(* Only motions that are counted, or that end at the home switch.           *)
LEMMA RepliedReferenced ==
  ASSUME DriverTypeOK, lost => call # "idle", Replied
  PROVE  /\ Referenced => Referenced'
         /\ ~power => UNCHANGED <<phys, counter>>
         /\ call \in {"read", "ping"} => UNCHANGED <<phys, counter>>
<1>1. CASE SkipAxis \/ QueryAxis \/ Ping \/ NoAnswer \/ Reconnect
  BY <1>1 DEF SkipAxis, QueryAxis, Ping, NoAnswer, Reconnect, Referenced
<1>2. CASE HomeAxis
  BY <1>2, HomeReferenced DEF HomeAxis, Moving
<1>3. CASE MoveAxis
  BY <1>3, RestReferenced DEF MoveAxis, InTravel, Moving
<1>4. CASE LimitSwitch
  <2>1. AtLimit(Aim) \in 0 .. MaxTravel
    <3> HIDE DEF Axes, Unknown
    <3>1. /\ goal[axis] \in Int /\ MaxTravel \in Nat /\ phys[axis] \in Int
          /\ cached[axis] \in Int
      BY DriverAssumption DEF DriverTypeOK, Unknown
    <3>2. Aim \in Int
      BY <3>1 DEF Aim, Limited
    <3> QED BY <3>1, <3>2 DEF AtLimit
  <2> QED BY <1>4, <2>1, RestReferenced DEF LimitSwitch, Moving
<1>5. CASE ErrorReply
  BY <1>5, StoppedReferenced DEF ErrorReply, Moving
<1>6. CASE GarbledReply
  BY <1>6, StoppedReferenced DEF GarbledReply, Moving
<1> QED BY <1>1, <1>2, <1>3, <1>4, <1>5, <1>6 DEF Replied, Answer

(* When a call over all axes goes on, it has passed this axis.              *)
LEMMA PassedAxes ==
  ASSUME DriverTypeOK, call \in {"home", "read", "sync"}, Advance
  PROVE  (IF call' = call THEN 1 .. axis' - 1 ELSE Axes)
           \subseteq {a \in Axes : a < axis \/ a = axis}
<1>1. CASE axis < NA
  <2>1. axis \in 1 .. NA /\ axis \in Int /\ NA \in Int /\ axis # NA
    BY <1>1, DriverAssumption DEF DriverTypeOK
  <2>2. call' = call /\ axis' = axis + 1
    BY <1>1, <2>1 DEF Advance, Return
  <2> QED BY <2>1, <2>2
<1>2. CASE ~(axis < NA)
  <2>1. axis = NA /\ NA \in Int
    BY <1>2, DriverAssumption DEF DriverTypeOK
  <2>2. call' = "idle"
    BY <1>2, <2>1 DEF Advance, Return
  <2> QED BY <2>1, <2>2
<1> QED BY <1>1, <1>2

(* home() has homed the axes it has passed. *)
LEMMA RepliedHome ==
  ASSUME DriverTypeOK, lost => call # "idle", Replied,
         call = "home", ok', ~lost', AtHome(Homed)
  PROVE  AtHome(Homed)'
<1>1. HomeAxis
  BY DEF Replied, Answer, SkipAxis, HomeAxis, MoveAxis, LimitSwitch, QueryAxis,
     Ping, NoAnswer, Reconnect, ErrorReply, GarbledReply, Kind, Fail, Return
<1>2. /\ phys' = [phys EXCEPT ![axis] = 0]
      /\ counter' = [counter EXCEPT ![axis] = 0]
      /\ power /\ power' /\ Advance
  BY <1>1 DEF HomeAxis
<1>3. \A a \in Axes : (a < axis => phys[a] = 0 /\ counter[a] = 0)
  BY <1>2 DEF AtHome, Homed, DriverTypeOK
<1>4. Homed' \subseteq {a \in Axes : a < axis \/ a = axis}
  BY <1>2, PassedAxes DEF Homed
<1> QED BY <1>2, <1>3, <1>4 DEF AtHome, DriverTypeOK

LEMMA ReadAnswered ==
  ASSUME Replied, call = "read", ok', ~lost'
  PROVE  QueryAxis /\ power
BY DEF Replied, Answer, SkipAxis, HomeAxis, MoveAxis, LimitSwitch, QueryAxis,
   Ping, NoAnswer, Reconnect, ErrorReply, GarbledReply, Moving, Fail

(* positions_in_mm has read the axes it has passed where they stand. *)
LEMMA RepliedRead ==
  ASSUME DriverTypeOK, lost => call # "idle", Replied, Referenced,
         call = "read", ok', ~lost', \A a \in Read : seen[a] = phys[a]
  PROVE  \A a \in Read' : seen'[a] = phys'[a]
<1>1. QueryAxis
  BY ReadAnswered
<1>2. /\ seen' = [seen EXCEPT ![axis] = Digits(counter[axis])]
      /\ phys' = phys /\ Advance
  BY <1>1 DEF QueryAxis
<1>3. \A a \in Axes : (a < axis => seen[a] = phys[a])
  BY DEF Read, DriverTypeOK
<1>4. Read' \subseteq {a \in Axes : a < axis \/ a = axis}
  BY <1>2, PassedAxes DEF Read
<1>5. Digits(counter[axis]) = phys[axis]
  BY DriverAssumption DEF Digits, Referenced, DriverTypeOK
<1> QED BY <1>2, <1>3, <1>4, <1>5 DEF DriverTypeOK

LEMMA Undisturbed ==
  ASSUME DriverTypeOK, Answer, power, ~lost, call \in {"home", "read", "ping"}
  PROVE  ok' = ok /\ ~lost'
<1>1. HomeAxis \/ QueryAxis \/ Ping
  BY DEF Answer, SkipAxis, HomeAxis, MoveAxis, LimitSwitch, QueryAxis, Ping,
     NoAnswer, Reconnect, Kind, Moving
<1>2. Advance /\ lost' = lost /\ call # "goto"
  BY <1>1 DEF HomeAxis, QueryAxis, Ping
<1> QED BY <1>2 DEF Advance, Return

-----------------------------------------------------------------------------
(* The reference invariant is kept by the stage.                            *)

(* The parts of the invariant that look at the program alone. *)
LEMMA PlacesKept ==
  ASSUME UNCHANGED progVars
  PROVE  /\ UNCHANGED <<at, state, table_index, context>>
         /\ Strict' = Strict /\ Warned' = Warned /\ Answered' = Answered
         /\ WeldTarget' = WeldTarget /\ MoveTarget' = MoveTarget
         /\ \A op : OnEntry(op)' = OnEntry(op)
BY DEF progVars, Strict, Warned, Answered, WeldTarget, MoveTarget, OnEntry

LEMMA RepliedReference ==
  ASSUME TypeOK, ControlInv, ReferenceInv, Replied, UNCHANGED progVars,
         state = "HOMING" => Answer
  PROVE  ReferenceInv'
<1> USE DEF HomeCalls, GotoCalls, ReadCalls, PingCalls
<1>0. DriverTypeOK /\ (lost => call # "idle") /\ CallOf /\ PowerOf
        /\ ReferenceOf /\ SeenOf /\ Arrived /\ PlaceOf
  BY DEF TypeOK, ReferenceInv, CallOf, ControlInv
<1>1. /\ call # "idle" /\ power' = power
      /\ emergency => emergency'
      /\ lost => lost' \/ emergency'
      /\ lost' => call' = call
      /\ ~power => lost' \/ call' # "idle"
      /\ call' \in {call, "idle"} \/ (call = "goto" /\ call' = "sync")
      /\ call # "sync" /\ ok' /\ ~lost' => ok /\ ~lost
      /\ Referenced => Referenced'
      /\ ~power => UNCHANGED <<phys, counter>>
      /\ call \in {"read", "ping"} => UNCHANGED <<phys, counter>>
  BY <1>0, RepliedKeeps, RepliedCall, RepliedReferenced
<1>2. /\ UNCHANGED <<at, state, table_index, context>>
      /\ Strict' = Strict /\ Warned' = Warned /\ Answered' = Answered
      /\ WeldTarget' = WeldTarget
      /\ \A op : OnEntry(op)' = OnEntry(op)
  BY PlacesKept
<1>3. call \in {"home", "goto", "sync", "read", "ping"}
  BY <1>0, <1>1 DEF DriverTypeOK, Calls
<1>4. CallOf'
  BY <1>0, <1>1, <1>2 DEF CallOf
<1>5. PowerOf'
  BY <1>0, <1>1, <1>2 DEF PowerOf
<1>6. ReferenceOf'
  <2> USE DEF ReferenceOf
  <2>1. (Strict => Good)' /\ (Warned => Good \/ Flagged)'
    BY <1>0, <1>1, <1>2 DEF Good, Flagged
  <2>2. (Answered /\ ok => Good \/ lost)'
    BY <1>0, <1>1, <1>2, <1>3 DEF Good, Answered, CallOf
  <2>3. (at \in {"boot_home", "emergency_home"} /\ ok /\ ~lost => AtHome(Homed))'
    BY <1>0, <1>1, <1>2, <1>3, RepliedHome DEF CallOf
  <2>4. (at = "boot_home" => ok /\ ~lost /\ power)'
    BY <1>0, <1>1, <1>2, <1>3, Undisturbed DEF CallOf, PlaceOf
  <2>5. (at \in {"homing_ping", "homing_read"}
           \/ (at = "loop" /\ state = "HOMING") => AtHome(Axes) /\ ok /\ ~lost)'
    BY <1>0, <1>1, <1>2, <1>3, Undisturbed
       DEF CallOf, PlaceOf, Strict, Good, AtHome
  <2>6. (at \notin {"homing_button", "homing_home"})' /\ (at = "restart_button" => AtHome(Axes))'
    BY <1>0, <1>1, <1>2, <1>3 DEF CallOf
  <2>7. (at = "emergency_goto" =>
           Flagged \/ (IF power THEN Referenced ELSE AtHome(Axes)))'
    BY <1>0, <1>1, <1>2 DEF Flagged, AtHome
  <2>8. (at = "emergency_verify" =>
           ~ok \/ lost \/ (IF power THEN Referenced ELSE AtHome(Axes)))'
    BY <1>0, <1>1, <1>2, <1>3 DEF AtHome, CallOf
  <2>9. (at = "sticky_log" \/ state = "GRINDING" => "sticky" \in Faults)'
    BY <1>0, <1>2
  <2> QED BY <2>1, <2>2, <2>3, <2>4, <2>5, <2>6, <2>7, <2>8, <2>9
<1>7. SeenOf'
  <2> SUFFICES ASSUME at \in {"homing_read", "move_verify", "emergency_verify",
                              "return_verify"}, ok', ~lost'
               PROVE  \A a \in Read' : seen'[a] = phys'[a]
    BY <1>2 DEF SeenOf
  <2>1. call = "read" /\ ok /\ ~lost
    BY <1>0, <1>1, <1>3 DEF CallOf
  <2>2. power /\ Referenced
    BY <1>0, <1>1, <2>1, ReadAnswered DEF ReferenceOf, Strict, Answered, Good
  <2> QED BY <1>0, <2>1, <2>2, RepliedRead DEF SeenOf
<1>8. Arrived'
  <2>1. call = "ping" \/ ~(\/ at = "loop" /\ state = "PROCESS_COMMAND" /\ OnEntry("WELD")
                           \/ at = "weld_ping" \/ state = "FULL_AUTOMATION")
    BY <1>0, <1>1, <1>3 DEF CallOf, PlaceOf
  <2> QED BY <1>0, <1>1, <1>2, <2>1 DEF Arrived
<1> QED BY <1>4, <1>5, <1>6, <1>7, <1>8 DEF ReferenceInv

LEMMA PowerReference ==
  ASSUME TypeOK, ControlInv, ReferenceInv, UNCHANGED progVars,
         \/ PowerOn
         \/ /\ PowerCut /\ state \in CutHandled
            /\ "sticky" \in Faults => state # "PROCESS_COMMAND"
         \/ /\ IdleCut /\ state = "EMERGENCY_HANDLING"
            /\ at \in {"loop", "authorization", "restart_button"}
  PROVE  ReferenceInv'
<1> USE DEF HomeCalls, GotoCalls, ReadCalls, PingCalls
<1>0. DriverTypeOK /\ (lost => call # "idle") /\ CallOf /\ PowerOf
        /\ ReferenceOf /\ SeenOf /\ Arrived /\ PlaceOf
  BY DEF TypeOK, ReferenceInv, CallOf, ControlInv
<1>1. /\ UNCHANGED <<at, state, table_index, context>>
      /\ Strict' = Strict /\ Warned' = Warned /\ Answered' = Answered
      /\ WeldTarget' = WeldTarget
      /\ \A op : OnEntry(op)' = OnEntry(op)
  BY PlacesKept
<1>2. /\ UNCHANGED <<call, axis, goal, ok, seen, emergency>>
      /\ lost => lost' /\ call # "idle"
  BY <1>0 DEF PowerOn, PowerCut, IdleCut
<1>3. Homed' = Homed /\ Read' = Read /\ Homed \subseteq Axes
  BY <1>0, <1>2, DriverAssumption DEF Homed, Read, DriverTypeOK
<1>4. CASE PowerOn
  <2>1. ~power /\ power' /\ lost' = lost /\ phys' = phys /\ counter' = HomePosition
    BY <1>4 DEF PowerOn
  <2>2. AtHome(Axes) => Referenced'
    BY <1>0, <2>1 DEF AtHome, Referenced, HomePosition, DriverTypeOK
  <2>3. ~Strict
    BY <1>0, <2>1 DEF ReferenceOf, Good
  <2>4. AtHome(Homed) => AtHome(Homed)'
    BY <1>3, <2>1 DEF AtHome, HomePosition
  <2>5. AtHome(Axes) => AtHome(Axes)'
    BY <1>0, <2>1 DEF AtHome, HomePosition
  <2>6. ReferenceOf'
    BY <1>0, <1>1, <1>2, <2>1, <2>2, <2>3, <2>4, <2>5
       DEF ReferenceOf, Good, Flagged, Strict
  <2>7. CallOf' /\ PowerOf' /\ SeenOf' /\ Arrived'
    BY <1>0, <1>1, <1>2, <1>3, <2>1 DEF CallOf, PowerOf, SeenOf, Arrived
  <2> QED BY <2>6, <2>7 DEF ReferenceInv
<1>5. CASE /\ PowerCut /\ state \in CutHandled
           /\ "sticky" \in Faults => state # "PROCESS_COMMAND"
  <2>1. lost' /\ ~power' /\ call # "idle" /\ state # "HOMING"
    BY <1>5 DEF PowerCut, Commanding, Ready, CutHandled
  <2>2. ~Strict
    BY <1>0, <1>5, <2>1 DEF Strict, PlaceOf, CallOf, ReferenceOf, CutHandled,
       DriverTypeOK, Calls
  <2>3. ReferenceOf'
    BY <1>0, <1>1, <1>2, <1>5, <2>1, <2>2
       DEF ReferenceOf, Good, Flagged, PlaceOf, CallOf, DriverTypeOK, Calls
  <2>4. CallOf' /\ PowerOf' /\ SeenOf'
    BY <1>0, <1>1, <1>2, <2>1 DEF CallOf, PowerOf, SeenOf
  <2>5. Arrived'
    <3>1. at = "weld_ping" => call = "ping"
      BY <1>0, <2>1 DEF CallOf, DriverTypeOK, Calls
    <3>2. call = "ping" => phys' = phys
      BY <1>0, <1>5, StoppedReferenced DEF PowerCut, Moving
    <3>3. at # "loop" /\ state # "FULL_AUTOMATION"
      BY <1>0, <1>5, <2>1 DEF CallOf, DriverTypeOK, Calls, CutHandled
    <3> QED BY <1>0, <1>1, <3>1, <3>2, <3>3 DEF Arrived
  <2> QED BY <2>3, <2>4, <2>5 DEF ReferenceInv
<1>6. CASE /\ IdleCut /\ state = "EMERGENCY_HANDLING"
           /\ at \in {"loop", "authorization", "restart_button"}
  <2>1. ~power' /\ lost' = lost /\ phys' = phys /\ counter' = counter
        /\ call = "idle"
    BY <1>6 DEF IdleCut
  <2>2. ReferenceOf'
    BY <1>0, <1>1, <1>2, <1>6, <2>1
       DEF ReferenceOf, Strict, Warned, Answered, AtHome
  <2>3. CallOf' /\ PowerOf' /\ SeenOf' /\ Arrived'
    BY <1>0, <1>1, <1>2, <1>6, <2>1 DEF CallOf, PowerOf, SeenOf, Arrived
  <2> QED BY <2>2, <2>3 DEF ReferenceInv
<1> QED BY <1>4, <1>5, <1>6

(* The monitors raise the flag, and nothing else of the invariant. *)
LEMMA FlagReference ==
  ASSUME ReferenceInv, UNCHANGED progVars, emergency => emergency',
         UNCHANGED <<power, phys, counter, call, axis, ok, seen, lost>>
  PROVE  ReferenceInv'
<1>1. /\ UNCHANGED <<at, state, table_index, context>>
      /\ Strict' = Strict /\ Warned' = Warned /\ Answered' = Answered
      /\ WeldTarget' = WeldTarget
      /\ \A op : OnEntry(op)' = OnEntry(op)
  BY PlacesKept
<1>2. CallOf' /\ PowerOf'
  BY <1>1 DEF ReferenceInv, CallOf, PowerOf
<1>3. ReferenceOf'
  BY <1>1 DEF ReferenceInv, ReferenceOf, Good, Flagged, Referenced, AtHome, Homed
<1>4. SeenOf' /\ Arrived'
  BY <1>1 DEF ReferenceInv, SeenOf, Arrived, Read
<1> QED BY <1>2, <1>3, <1>4 DEF ReferenceInv

(* The stage, its power and the threads keep the invariant. *)
LEMMA OutsideReference ==
  ASSUME Tolerated, TypeOK, ControlInv, ReferenceInv,
         Threads \/ World \/ UNCHANGED vars
  PROVE  ReferenceInv'
<1>1. CASE DriverAnswer \/ RefusedCommand \/ NoisyReply
  <2>1. /\ Replied /\ UNCHANGED progVars
        /\ state = "HOMING" => Answer
    BY <1>1 DEF DriverAnswer, RefusedCommand, NoisyReply, Replied, Outside,
       Strikes, Tolerated
  <2> QED BY <2>1, RepliedReference
<1>2. CASE PowerBack \/ CutUnderCommand \/ CutWhileIdle
  <2>1. UNCHANGED progVars
    BY <1>2 DEF PowerBack, CutUnderCommand, CutWhileIdle, Outside
  <2>2. state \in States
    BY DEF TypeOK, ProgramTypeOK
  <2>3. CASE PowerBack
    BY <2>1, <2>3, PowerReference DEF PowerBack
  <2>4. CASE CutUnderCommand
    <3>1. /\ state \in CutHandled
          /\ "sticky" \in Faults => state # "PROCESS_COMMAND"
      BY <2>2, <2>4 DEF CutUnderCommand, Strikes, Tolerated
    <3> QED BY <2>1, <2>4, <3>1, PowerReference DEF CutUnderCommand
  <2>5. CASE CutWhileIdle
    <3>1. state = "EMERGENCY_HANDLING"
      BY <2>2, <2>5 DEF CutWhileIdle, Strikes, Tolerated
    <3>2. at \in {"loop", "authorization", "restart_button"}
      BY <2>5, <3>1 DEF CutWhileIdle, Idle, Pauses, ControlInv, PlaceOf
    <3> QED BY <2>1, <2>5, <3>1, <3>2, PowerReference DEF CutWhileIdle
  <2> QED BY <1>2, <2>3, <2>4, <2>5
<1>3. CASE Threads \/ UNCHANGED vars
           \/ \E i \in Inputs : Trip(i) \/ Release(i)
  <2>1. /\ UNCHANGED progVars /\ (emergency => emergency')
        /\ UNCHANGED <<power, phys, counter, call, axis, ok, seen, lost>>
    <3>1. CASE GrindWatchdog \/ UNCHANGED vars
      BY <3>1 DEF GrindWatchdog, vars
    <3>2. CASE \E i \in Inputs : Monitor(i)
      BY <3>2 DEF Monitor
    <3>3. CASE \E i \in Inputs : Trip(i) \/ Release(i)
      BY <3>3 DEF Trip, Release
    <3> QED BY <1>3, <3>1, <3>2, <3>3 DEF Threads
  <2> QED BY <2>1, FlagReference
<1> QED BY <1>1, <1>2, <1>3 DEF World

(* Each operation of the program keeps it. *)
LEMMA ProgramReference ==
  ASSUME TypeOK, ControlInv, ReferenceInv, Program
  PROVE  ReferenceInv'
<1>0. /\ UNCHANGED <<power, phys, counter, lost>>
      /\ Good' = Good /\ AtHome(Axes)' = AtHome(Axes)
      /\ Referenced' = Referenced
      /\ Good => power /\ Referenced
      /\ power /\ Referenced => Good
      /\ AtHome(Axes) /\ power => Referenced
      /\ AtHome(Axes) => phys = HomePosition
      /\ (\A a \in Axes : seen[a] = phys[a]) => seen = phys
      /\ call' = "home" /\ axis' = 1 => AtHome(Homed)'
      /\ call' = "read" /\ axis' = 1 => \A a \in Read' : seen'[a] = phys'[a]
      /\ call = "idle" => AtHome(Homed) = AtHome(Axes) /\ Read = Axes
      /\ call' = "idle" => AtHome(Homed)' = AtHome(Axes)' /\ Read' = Axes
      /\ call # "idle" => ~(at \in {"boot", "loop"} \cup Pauses)
      /\ OnEntry("MOVE") => MoveTarget # HomePosition
      /\ OnEntry("WELD") => WeldTarget # HomePosition
      /\ table_index' = table_index + 1 =>
           Entry(table_index' - 1) = Entry(table_index)
      /\ BetweenMoves => /\ table_index + 1 \in Indexes
                         /\ Entry(table_index + 1).op = "MOVE"
                         /\ ~(table_index + 1 >= Len(Table))
      /\ context \in Contexts /\ table_index \in Int /\ call \in Calls
  <2>1. DriverTypeOK /\ context \in Contexts /\ table_index \in Int
    BY TableAssumption DEF TypeOK, ProgramTypeOK
  <2>2. UNCHANGED <<power, phys, counter, lost>>
    BY ProgramCalls
  <2>3. /\ Good' = Good /\ AtHome(Axes)' = AtHome(Axes)
        /\ Referenced' = Referenced
        /\ Good => power /\ Referenced
        /\ power /\ Referenced => Good
    BY <2>2 DEF Good, Referenced, AtHome
  <2>4. /\ AtHome(Axes) /\ power => Referenced
        /\ AtHome(Axes) => phys = HomePosition
        /\ (\A a \in Axes : seen[a] = phys[a]) => seen = phys
    <3> HIDE DEF Axes
    <3> QED BY <2>1 DEF AtHome, Referenced, DriverTypeOK, HomePosition
  <2>5. /\ call' = "home" /\ axis' = 1 => AtHome(Homed)'
        /\ call' = "read" /\ axis' = 1 => \A a \in Read' : seen'[a] = phys'[a]
        /\ call = "idle" => AtHome(Homed) = AtHome(Axes) /\ Read = Axes
        /\ call' = "idle" => AtHome(Homed)' = AtHome(Axes)' /\ Read' = Axes
    BY DEF AtHome, Homed, Read
  <2>6. /\ call # "idle" => ~(at \in {"boot", "loop"} \cup Pauses)
        /\ call \in Calls
    BY <2>1 DEF DriverTypeOK, Calls, Pauses, ReferenceInv, CallOf, HomeCalls,
       GotoCalls, ReadCalls, PingCalls
  <2>7. /\ OnEntry("MOVE") => MoveTarget # HomePosition
        /\ OnEntry("WELD") => WeldTarget # HomePosition
    BY EntryFacts, AwayFromHome DEF OnEntry, MoveTarget, WeldTarget
  <2>8. table_index' = table_index + 1 =>
          Entry(table_index' - 1) = Entry(table_index)
    BY <2>1 DEF Entry
  <2>9. BetweenMoves => /\ table_index + 1 \in Indexes
                        /\ Entry(table_index + 1).op = "MOVE"
                        /\ ~(table_index + 1 >= Len(Table))
    BY <2>1, EntryFacts, IndexFacts, TableAssumption DEF BetweenMoves, Entry
  <2> QED BY <2>1, <2>2, <2>3, <2>4, <2>5, <2>6, <2>7, <2>8, <2>9
<1> USE DEF ReferenceInv, CallOf, PowerOf, ReferenceOf, SeenOf, Arrived, Strict,
            Warned, Answered, Flagged, ControlInv, PlaceOf, IndexOf, ContextOf,
            ToMove, ToWeld, ToInit, HomeCalls, GotoCalls, ReadCalls, PingCalls,
            MoveTarget, WeldTarget, OnEntry,
            ClearAndHome, ClearAndGoto, Reading, Pinging, StartCall, StartHome,
            StartGoto, StartRead, StartPing
<1>1. CASE Boot
  BY <1>0, <1>1 DEF Boot
<1>2. CASE BootHomed
  BY <1>0, <1>2 DEF BootHomed
<1>3. CASE Homing
  BY <1>0, <1>3 DEF Homing
<1>4. CASE HomingPinged
  BY <1>0, <1>4 DEF HomingPinged
<1>5. CASE HomingRead
  BY <1>0, <1>5 DEF HomingRead
<1>6. CASE HomingMove
  BY <1>0, <1>6 DEF HomingMove
<1>7. CASE HomingDone
  BY <1>0, <1>7 DEF HomingDone
<1>8. CASE Scan
  BY <1>0, <1>8 DEF Scan
<1>9. CASE Start
  BY <1>0, <1>9 DEF Start
<1>10. CASE StartPinged
  BY <1>0, <1>10 DEF StartPinged
<1>11. CASE StartRead_
  BY <1>0, <1>11 DEF StartRead_
<1>12. CASE StartMove
  BY <1>0, <1>12 DEF StartMove
<1>13. CASE MoveNext
  BY <1>0, <1>13 DEF MoveNext
<1>14. CASE MoveNextPrinted
  BY <1>0, <1>14 DEF MoveNextPrinted
<1>15. CASE MoveNextPinged
  BY <1>0, <1>15 DEF MoveNextPinged, StateAt
<1>16. CASE ProcessPastTable
  BY <1>0, <1>16 DEF ProcessPastTable
<1>17. CASE ProcessPause
  BY <1>0, <1>17 DEF ProcessPause, Processing
<1>18. CASE ProcessUser
  BY <1>0, <1>18 DEF ProcessUser, Processing
<1>19. CASE ProcessWeld
  BY <1>0, <1>19 DEF ProcessWeld, Processing
<1>20. CASE WeldPinged
  BY <1>0, <1>20 DEF WeldPinged
<1>21. CASE ProcessMove
  BY <1>0, <1>21 DEF ProcessMove, Processing
<1>22. CASE MovePinged
  <2>1. /\ KeepDriver /\ KeepIndex /\ UNCHANGED state /\ call = "idle"
        /\ at = "move_ping" /\ at' \in {"move_check", "loop"}
    BY <1>22 DEF MovePinged
  <2> QED BY <1>0, <2>1
<1>23. CASE MoveCheck
  <2>1. CASE emergency
    <3>1. /\ KeepDriver /\ KeepIndex /\ at' = "loop"
          /\ at = "move_check" /\ state' = "EMERGENCY_HANDLING"
      BY <1>23, <2>1 DEF MoveCheck
    <3> QED BY <1>0, <3>1
  <2>2. CASE ~emergency
    <3>1. Good /\ call = "idle" /\ at = "move_check"
      BY <1>0, <1>23, <2>2 DEF MoveCheck, Calls
    <3>2. CASE at' = "sticky_log"
      BY <1>0, <1>23, <3>1, <3>2 DEF MoveCheck
    <3>3. CASE at' = "move_clear" /\ KeepDriver
      BY <1>0, <1>23, <3>1, <3>3 DEF MoveCheck
    <3> QED BY <1>23, <2>2, <3>2, <3>3 DEF MoveCheck
  <2> QED BY <2>1, <2>2
<1>24. CASE StickyLogged
  BY <1>0, <1>24 DEF StickyLogged
<1>25. CASE MoveClear
  BY <1>0, <1>25 DEF MoveClear
<1>26. CASE MoveDone
  BY <1>0, <1>26 DEF MoveDone
<1>27. CASE MoveVerified
  BY <1>0, <1>27 DEF MoveVerified, StateAt, Verified
<1>28. CASE Fire
  BY <1>0, <1>28 DEF Fire
<1>29. CASE SteppingContact
  BY <1>0, <1>29 DEF SteppingContact
<1>30. CASE ContactTimeout
  BY <1>0, <1>30 DEF ContactTimeout
<1>31. CASE WeldResult
  BY <1>0, <1>31 DEF WeldResult
<1>32. CASE Unloading
  BY <1>0, <1>32 DEF Unloading
<1>33. CASE Unloaded
  BY <1>0, <1>33 DEF Unloaded
<1>34. CASE Emergency
  BY <1>0, <1>34 DEF Emergency, NoContext
<1>35. CASE Denied
  BY <1>0, <1>35 DEF Denied
<1>36. CASE Granted
  BY <1>0, <1>36 DEF Granted
<1>37. CASE EmergencyHomed
  BY <1>0, <1>37 DEF EmergencyHomed, Recovered, NoContext
<1>38. CASE EmergencyMove
  BY <1>0, <1>38 DEF EmergencyMove
<1>39. CASE EmergencyMoved
  BY <1>0, <1>39 DEF EmergencyMoved
<1>40. CASE EmergencyVerified
  BY <1>0, <1>40 DEF EmergencyVerified, Recovered, NoContext, Verified
<1>41. CASE GrindPressed
  BY <1>0, <1>41 DEF GrindPressed, Phase, SetPhase
<1>42. CASE GrindMove
  BY <1>0, <1>42 DEF GrindMove, Phase
<1>43. CASE GrindReached
  BY <1>0, <1>43 DEF GrindReached, SetPhase
<1>44. CASE ReturnMove
  BY <1>0, <1>44 DEF ReturnMove, Phase
<1>45. CASE Returned
  BY <1>0, <1>45 DEF Returned
<1>46. CASE ReturnVerified
  BY <1>0, <1>46 DEF ReturnVerified, NoContext, Verified
<1> QED BY <1>1, <1>2, <1>3, <1>4, <1>5, <1>6, <1>7, <1>8, <1>9, <1>10, <1>11,
           <1>12, <1>13, <1>14, <1>15, <1>16, <1>17, <1>18, <1>19, <1>20,
           <1>21, <1>22, <1>23, <1>24, <1>25, <1>26, <1>27, <1>28, <1>29,
           <1>30, <1>31, <1>32, <1>33, <1>34, <1>35, <1>36, <1>37, <1>38,
           <1>39, <1>40, <1>41, <1>42, <1>43, <1>44, <1>45, <1>46 DEF Program

LEMMA InitReference == Init => ReferenceInv
<1> SUFFICES ASSUME Init PROVE ReferenceInv
  OBVIOUS
<1>1. /\ power /\ ~lost /\ call = "idle" /\ at = "boot" /\ state = "HOMING"
  BY DEF Init, DriverInit
<1> QED
  BY <1>1 DEF ReferenceInv, CallOf, PowerOf, ReferenceOf, SeenOf, Arrived,
     Strict, Warned, Answered

(* The controller's counter tells the truth wherever the program trusts it. *)
LEMMA ReferenceCorrect ==
  ASSUME Tolerated
  PROVE  Spec => [](TypeOK /\ ControlInv /\ ReferenceInv)
<1>1. TypeOK /\ ControlInv /\ ReferenceInv /\ [Next]_vars => ReferenceInv'
  BY ProgramReference, OutsideReference DEF Next
<1> QED BY <1>1, InitReference, ControlCorrect, PTL DEF Spec

(* The pedal of the welding machine goes down only where the program        *)
(* enables it or presses it.                                                *)
LEMMA PressStep ==
  ASSUME Next, Pressed', ~Pressed
  PROVE  WeldPinged \/ Fire
<1>1. Program
  BY DEF Next, Threads, GrindWatchdog, Monitor, World, DriverAnswer, PowerBack,
     CutUnderCommand, CutWhileIdle, RefusedCommand, NoisyReply, Outside,
     Trip, Release, progVars, Pressed
<1> QED BY <1>1 DEF Pressed, Program, Boot, BootHomed, Homing, HomingPinged,
     HomingRead, HomingMove, HomingDone, Scan, Start, StartPinged, StartRead_,
     StartMove, MoveNext, MoveNextPrinted, MoveNextPinged, ProcessPastTable,
     ProcessPause, ProcessUser, ProcessWeld, ProcessMove, MovePinged, MoveCheck,
     StickyLogged, MoveClear, MoveDone, MoveVerified, SteppingContact,
     ContactTimeout, WeldResult, Unloading, Unloaded, Emergency, Denied,
     Granted, EmergencyHomed, EmergencyMove, EmergencyMoved, EmergencyVerified,
     GrindPressed, GrindMove, GrindReached, ReturnMove, Returned, ReturnVerified

(* The head comes down only where the table says: in the environment the    *)
(* recovery is made for, whatever writes of DO6 and DO7 are lost, the pedal *)
(* of the welding machine goes down only while the table stands at the      *)
(* position entry before the WELD entry.                                    *)
THEOREM WeldsAtTarget ==
  ASSUME Tolerated
  PROVE  Spec => WeldAtTarget
<1>1. TypeOK /\ ControlInv /\ ReferenceInv /\ [Next]_vars =>
        [Pressed' /\ ~Pressed => phys = WeldTarget]_vars
  <2> SUFFICES ASSUME ReferenceInv, Next, Pressed', ~Pressed
               PROVE  phys = WeldTarget
    OBVIOUS
  <2>1. WeldPinged \/ Fire
    BY PressStep
  <2>2. at = "weld_ping" \/ state = "FULL_AUTOMATION"
    BY <2>1 DEF WeldPinged, Fire
  <2> QED BY <2>2 DEF ReferenceInv, Arrived
<1> QED BY <1>1, ReferenceCorrect, PTL DEF Spec, WeldAtTarget

(* A verified position is the one the table stands at. *)
LEMMA VerifiedThere ==
  ASSUME TypeOK, ReferenceInv, call = "idle", ok,
         at \in {"move_verify", "emergency_verify"}
  PROVE  phys = seen
<1>1. ~lost /\ \A a \in Axes : seen[a] = phys[a]
  BY DEF ReferenceInv, CallOf, SeenOf, Read
<1> HIDE DEF Axes
<1> QED BY <1>1 DEF TypeOK, DriverTypeOK

LEMMA AdvanceStep ==
  ASSUME TypeOK, ControlInv, ReferenceInv, Next,
         table_index' = table_index + 1, OnEntry("MOVE")
  PROVE  phys = MoveTarget
<1>0. table_index \in Int
  BY TableAssumption DEF TypeOK, ProgramTypeOK
<1>1. MoveTarget # HomePosition
  BY EntryFacts, AwayFromHome DEF OnEntry, MoveTarget
<1>2. CASE MoveNextPinged
  <2>1. BetweenMoves
    BY <1>2 DEF MoveNextPinged, ControlInv, PlaceOf, IndexOf
  <2> QED BY <1>0, <2>1, TableAssumption DEF BetweenMoves, OnEntry, Indexes
<1>3. CASE MoveVerified
  <2>1. at = "move_verify" /\ call = "idle" /\ ok /\ Verified(MoveTarget)
    BY <1>0, <1>3 DEF MoveVerified
  <2> QED BY <2>1, VerifiedThere DEF Verified
<1>4. CASE EmergencyHomed \/ EmergencyVerified
  <2>1. state = "EMERGENCY_HANDLING" /\ (ToMove \/ ToWeld \/ ToInit)
    BY <1>4 DEF EmergencyHomed, EmergencyVerified, ControlInv, PlaceOf, ContextOf
  <2>2. Recovered
    BY <1>0, <1>4 DEF EmergencyHomed, EmergencyVerified
  <2>3. ToMove
    BY <1>0, <2>1, <2>2 DEF Recovered, ToWeld, ToInit
  <2>4. ~EmergencyHomed
    BY <1>0, <1>1, <2>3 DEF EmergencyHomed, ToMove
  <2>5. /\ at = "emergency_verify" /\ call = "idle" /\ ok
        /\ Verified(context.target)
    BY <1>0, <1>4, <2>4 DEF EmergencyVerified
  <2> QED BY <2>3, <2>5, VerifiedThere DEF Verified, ToMove
<1>5. CASE Scan
  BY <1>0, <1>5 DEF Scan, OnEntry, Indexes
<1>6. CASE ~(MoveNextPinged \/ MoveVerified \/ EmergencyHomed
               \/ EmergencyVerified \/ Scan)
  <2>1. table_index' = table_index
    <3>1. CASE Program
      BY <1>6, <3>1 DEF Program, Boot, BootHomed, Homing, HomingPinged,
         HomingRead, HomingMove, HomingDone, Start, StartPinged, StartRead_,
         StartMove, MoveNext, MoveNextPrinted, ProcessPastTable, ProcessPause,
         ProcessUser, ProcessWeld, WeldPinged, ProcessMove, MovePinged,
         MoveCheck, StickyLogged, MoveClear, MoveDone, Fire, SteppingContact,
         ContactTimeout, WeldResult, Unloading, Unloaded, Emergency, Denied,
         Granted, EmergencyMove, EmergencyMoved, GrindPressed, GrindMove,
         GrindReached, ReturnMove, Returned, ReturnVerified
    <3>2. CASE Threads \/ World
      BY <3>2 DEF Threads, GrindWatchdog, Monitor, World, DriverAnswer,
         PowerBack, CutUnderCommand, CutWhileIdle, RefusedCommand, NoisyReply,
         Outside, Trip, Release, progVars
    <3> QED BY <3>1, <3>2 DEF Next
  <2> QED BY <1>0, <2>1
<1> QED BY <1>2, <1>3, <1>4, <1>5, <1>6

(* table_index leaves a position entry, by the main path or by a recovery,  *)
(* only when the table has really reached that position.                    *)
THEOREM AdvancesAtTarget ==
  ASSUME Tolerated
  PROVE  Spec => AdvanceAtTarget
<1>1. TypeOK /\ ControlInv /\ ReferenceInv /\ [Next]_vars =>
        [table_index' = table_index + 1 /\ table_index \in Indexes
           /\ Entry(table_index).op = "MOVE" => phys = MoveTarget]_vars
  BY AdvanceStep DEF OnEntry
<1> QED BY <1>1, ReferenceCorrect, PTL DEF Spec, AdvanceAtTarget
-----------------------------------------------------------------------------
(* No point is welded twice on one battery. *)

(* Each operation of the program keeps the strikes behind the table or      *)
(* settled.                                                                 *)
LEMMA StruckStep ==
  ASSUME "no_verdict" \notin Faults, TypeOK, ControlInv, StruckOf, Program
  PROVE  StruckOf'
<1>0. /\ table_index \in Int /\ \A i \in struck : i \in Int
      /\ context \in Contexts
  <2>1. table_index \in Int /\ context \in Contexts
    BY TableAssumption DEF TypeOK, ProgramTypeOK, Indexes
  <2>2. struck \subseteq Indexes /\ Indexes \subseteq Int
    BY TableAssumption DEF TypeOK, ProgramTypeOK, Indexes
  <2> QED BY <2>1, <2>2
<1> USE DEF StruckOf, Settled, ControlInv, PlaceOf, IndexOf, ContextOf, ToMove,
            ToWeld, ToInit
<1>1. CASE Scan
  BY <1>1 DEF Scan
<1>2. CASE MoveNextPinged \/ MoveVerified
  <2>1. CASE table_index' = table_index + 1 /\ UNCHANGED struck
    BY <1>0, <2>1
  <2>2. CASE UNCHANGED <<table_index, struck, state, waiting, context>>
    BY <2>2
  <2> QED BY <1>2, <2>1, <2>2 DEF MoveNextPinged, MoveVerified
<1>3. CASE SteppingContact
  <2>1. waiting' /\ struck' = struck \cup {table_index} /\ UNCHANGED table_index
    BY <1>3, Zenon DEF SteppingContact
  <2> QED BY <1>0, <2>1
<1>4. CASE WeldResult
  <2>1. state' \in {"MOVE_NEXT_COMMAND", "ERROR_WELD"}
        /\ UNCHANGED <<table_index, struck>>
    BY <1>4 DEF WeldResult
  <2> QED BY <1>0, <2>1
<1>5. CASE EmergencyHomed \/ EmergencyVerified
  <2>1. state = "EMERGENCY_HANDLING" /\ ~waiting /\ (ToMove \/ ToWeld \/ ToInit)
    BY <1>5 DEF EmergencyHomed, EmergencyVerified, WeldOf
  <2>2. UNCHANGED <<struck, waiting>>
    BY <1>5 DEF EmergencyHomed, EmergencyVerified
  <2>3. CASE Recovered
    <3>1. CASE ToInit
      BY <1>0, <2>1, <2>2, <2>3, <3>1 DEF Recovered
    <3>2. CASE ~ToInit
      BY <1>0, <2>1, <2>2, <2>3, <3>2 DEF Recovered
    <3> QED BY <3>1, <3>2
  <2>4. CASE UNCHANGED <<table_index, context, state>>
    BY <2>2, <2>4
  <2> QED BY <1>5, <2>3, <2>4 DEF EmergencyHomed, EmergencyVerified
<1>6. CASE ~(\/ Scan \/ MoveNextPinged \/ MoveVerified \/ SteppingContact
             \/ WeldResult \/ EmergencyHomed \/ EmergencyVerified)
  <2>1. UNCHANGED <<table_index, struck>>
    BY <1>6 DEF Program, Boot, BootHomed, Homing, HomingPinged, HomingRead,
       HomingMove, HomingDone, Start, StartPinged, StartRead_, StartMove,
       MoveNext, MoveNextPrinted, ProcessPastTable, ProcessPause, ProcessUser,
       ProcessWeld, WeldPinged, ProcessMove, MovePinged, MoveCheck,
       StickyLogged, MoveClear, MoveDone, Fire, ContactTimeout, Unloading,
       Unloaded, Emergency, Denied, Granted, EmergencyMove, EmergencyMoved,
       GrindPressed, GrindMove, GrindReached, ReturnMove, Returned,
       ReturnVerified
  <2>2. (waiting \/ Settled) => (waiting \/ Settled)'
    <3>1. CASE Boot \/ BootHomed \/ Homing \/ HomingPinged \/ HomingRead
               \/ HomingMove \/ HomingDone \/ Start \/ StartPinged
               \/ StartRead_ \/ StartMove \/ MoveNext \/ MoveNextPrinted
      BY <3>1, ContextFacts, HomeIsPlace
         DEF Boot, BootHomed, Homing, HomingPinged, HomingRead, HomingMove,
         HomingDone, Start, StartPinged, StartRead_, StartMove, MoveNext,
         MoveNextPrinted, WeldOf
    <3>2. CASE \/ ProcessPastTable \/ ProcessPause \/ ProcessUser
               \/ ProcessWeld \/ WeldPinged \/ ProcessMove \/ MovePinged
               \/ MoveCheck \/ StickyLogged \/ MoveClear \/ MoveDone
      BY <3>2 DEF ProcessPastTable, ProcessPause, ProcessUser, ProcessWeld,
         WeldPinged, ProcessMove, MovePinged, MoveCheck, StickyLogged,
         MoveClear, MoveDone, WeldOf, Processing
    <3>3. CASE Fire \/ ContactTimeout
      BY <3>3 DEF Fire, ContactTimeout, WeldOf
    <3>4. CASE Unloading \/ Unloaded
      BY <3>4 DEF Unloading, Unloaded, Context
    <3>5. CASE Emergency \/ Denied \/ Granted \/ EmergencyMove \/ EmergencyMoved
      BY <3>5 DEF Emergency, Denied, Granted, EmergencyMove, EmergencyMoved,
         NoContext
    <3>6. CASE GrindPressed \/ GrindMove \/ GrindReached \/ ReturnMove
               \/ Returned \/ ReturnVerified
      BY <3>6 DEF GrindPressed, GrindMove, GrindReached, ReturnMove, Returned,
         ReturnVerified, Phase, WeldOf
    <3> QED BY <1>6, <3>1, <3>2, <3>3, <3>4, <3>5, <3>6 DEF Program
  <2> QED BY <1>0, <2>1, <2>2
<1> QED BY <1>1, <1>2, <1>3, <1>4, <1>5, <1>6

LEMMA StruckCorrect ==
  ASSUME "no_verdict" \notin Faults
  PROVE  Spec => []StruckOf
<1>1. Init => StruckOf
  BY DEF Init, StruckOf
<1>2. TypeOK /\ ControlInv /\ StruckOf /\ [Next]_vars => StruckOf'
  <2>1. ASSUME StruckOf, UNCHANGED progVars PROVE StruckOf'
    BY <2>1 DEF progVars, StruckOf, Settled
  <2>2. Threads \/ World \/ UNCHANGED vars => UNCHANGED progVars
    BY DEF Threads, GrindWatchdog, Monitor, World, DriverAnswer, PowerBack,
       CutUnderCommand, CutWhileIdle, RefusedCommand, NoisyReply, Outside,
       Trip, Release, vars
  <2> QED BY <2>1, <2>2, StruckStep DEF Next
<1> QED BY <1>1, <1>2, ControlCorrect, PTL DEF Spec

(* A weld that was made is not made again on the same point of a battery,   *)
(* whatever emergencies, timeouts, rejected welds and grindings come        *)
(* between, as long as the welding machine gives a verdict.                 *)
THEOREM StrikesOnce ==
  ASSUME "no_verdict" \notin Faults
  PROVE  Spec => FiresOnce
<1>1. TypeOK /\ ControlInv /\ StruckOf /\ [Next]_vars =>
        [Pressed' /\ ~Pressed => table_index \notin struck]_vars
  <2> SUFFICES ASSUME TypeOK, ControlInv, StruckOf, Next, Pressed', ~Pressed
               PROVE  table_index \notin struck
    OBVIOUS
  <2>1. WeldPinged \/ Fire
    BY PressStep
  <2>2. ~waiting /\ ~Settled /\ table_index \in Int
    <3>1. state \in {"PROCESS_COMMAND", "FULL_AUTOMATION"} /\ ~waiting
      BY <2>1 DEF WeldPinged, Fire, ControlInv, PlaceOf, WeldOf
    <3>2. table_index \in Int
      BY TableAssumption DEF TypeOK, ProgramTypeOK
    <3> QED BY <3>1, <3>2 DEF Settled
  <2> QED BY <2>2 DEF StruckOf
<1> QED BY <1>1, StruckCorrect, ControlCorrect, PTL DEF Spec, FiresOnce
-----------------------------------------------------------------------------
(* The cache of the driver, and the table at the grind position.            *)

(* A controller with power answers.                                         *)
LEMMA AnsweredBy ==
  ASSUME DriverTypeOK, power, ~lost, Replied
  PROVE  power' /\ ~lost'
<1>1. ~NoAnswer /\ ~Reconnect
  BY DEF NoAnswer, Reconnect
<1>2. GarbledReply \/ ErrorReply \/ SkipAxis \/ HomeAxis \/ MoveAxis
        \/ LimitSwitch \/ QueryAxis \/ Ping
  BY <1>1 DEF Replied, Answer
<1>3. lost' = lost
  BY <1>2 DEF SkipAxis, HomeAxis, MoveAxis, LimitSwitch, QueryAxis, Ping,
     ErrorReply, GarbledReply
<1> QED BY <1>3, RepliedKeeps

(* is_connected() and a read leave an agreeing cache so. *)
LEMMA CacheKept ==
  ASSUME DriverTypeOK, power, ~lost, Answer \/ ErrorReply, Agree(Axes),
         call = "ping" \/ (call = "read" /\ Referenced)
  PROVE  Agree(Axes)'
<1>0. Replied /\ UNCHANGED <<phys, counter>>
  BY RepliedReferenced DEF Replied
<1>1. (call = "read" /\ QueryAxis) \/ cached' = cached
  <2>1. CASE Answer
    BY <2>1 DEF Answer, SkipAxis, HomeAxis, MoveAxis, LimitSwitch, QueryAxis,
       Ping, NoAnswer, Reconnect, Moving
  <2>2. CASE ErrorReply
    BY <2>2 DEF ErrorReply
  <2> QED BY <2>1, <2>2
<1>2. call = "read" => Digits(counter[axis]) = counter[axis]
  BY DriverAssumption DEF Digits, Referenced, DriverTypeOK
<1> QED BY <1>0, <1>1, <1>2 DEF QueryAxis, Agree, DriverTypeOK

(* positions_in_mm reads the axes it passes into the cache. *)
LEMMA CacheRead ==
  ASSUME DriverTypeOK, Replied, Referenced, call = "read", ok', ~lost',
         Agree(Read)
  PROVE  Agree(Read)'
<1>1. QueryAxis
  BY ReadAnswered
<1>2. /\ cached' = [cached EXCEPT ![axis] = Digits(counter[axis])]
      /\ counter' = counter /\ Advance
  BY <1>1 DEF QueryAxis
<1>3. \A a \in Axes : (a < axis => cached[a] = counter[a])
  BY DEF Agree, Read, DriverTypeOK
<1>4. Read' \subseteq {a \in Axes : a < axis \/ a = axis}
  BY <1>2, PassedAxes DEF Read
<1>5. Digits(counter[axis]) = counter[axis]
  BY DriverAssumption DEF Digits, Referenced, DriverTypeOK
<1> QED BY <1>2, <1>3, <1>4, <1>5 DEF Agree, DriverTypeOK

(* home() zeroes the cache with the counter. *)
LEMMA CacheHome ==
  ASSUME DriverTypeOK, Replied, call = "home", ok', ~lost',
         \A a \in Homed : cached[a] = 0
  PROVE  \A a \in Homed' : cached'[a] = 0
<1>1. HomeAxis
  BY DEF Replied, Answer, SkipAxis, HomeAxis, MoveAxis, LimitSwitch, QueryAxis,
     Ping, NoAnswer, Reconnect, ErrorReply, GarbledReply, Kind, Fail, Return
<1>2. cached' = [cached EXCEPT ![axis] = 0] /\ Advance
  BY <1>1 DEF HomeAxis
<1>3. \A a \in Axes : (a < axis => cached[a] = 0)
  BY DEF Homed, DriverTypeOK
<1>4. Homed' \subseteq {a \in Axes : a < axis \/ a = axis}
  BY <1>2, PassedAxes DEF Homed
<1> QED BY <1>2, <1>3, <1>4 DEF DriverTypeOK

(* An axis whose cache agrees is brought to its goal; the others stay.      *)
LEMMA AxisTravels ==
  ASSUME DriverTypeOK, power, ~lost, Answer, Referenced, NEW t \in Position,
         call = "goto", goal = t, cached[axis] = counter[axis]
  PROVE  /\ phys'[axis] = t[axis] /\ Advance
         /\ \A a \in Axes : a # axis =>
              phys'[a] = phys[a] /\ counter'[a] = counter[a]
         /\ UNCHANGED <<cached, goal>>
<1>0. /\ MaxTravel \in Nat /\ t[axis] \in 1 .. MaxTravel
      /\ phys[axis] \in 0 .. MaxTravel /\ cached[axis] = phys[axis]
      /\ axis \in Axes
  BY DriverAssumption DEF DriverTypeOK, Position, Referenced
<1>1. /\ Limited(goal[axis]) = t[axis]
      /\ Kind = IF cached[axis] = t[axis] THEN "skip" ELSE "move"
  BY <1>0 DEF Limited, Kind, CommandKind
<1>2. CASE SkipAxis
  BY <1>0, <1>1, <1>2 DEF SkipAxis
<1>3. CASE MoveAxis
  <2>1. Aim = t[axis]
    BY <1>0, <1>1, <1>3 DEF Aim, MoveAxis
  <2> QED BY <1>0, <1>3, <2>1 DEF MoveAxis, Rest, DriverTypeOK
<1>4. CASE LimitSwitch
  <2>1. Aim = t[axis]
    BY <1>0, <1>1, <1>4 DEF Aim, LimitSwitch
  <2> QED BY <1>0, <1>4, <2>1 DEF LimitSwitch, InTravel
<1>5. ~HomeAxis /\ ~QueryAxis /\ ~Ping /\ ~NoAnswer /\ ~Reconnect
  BY <1>1 DEF HomeAxis, QueryAxis, Ping, NoAnswer, Reconnect
<1> QED BY <1>2, <1>3, <1>4, <1>5 DEF Answer

(* goto_position undisturbed brings the table to its argument. *)
LEMMA TravelsOn ==
  ASSUME DriverTypeOK, power, ~lost, Answer, Referenced, NEW t \in Position,
         call \in {"goto", "sync"}, Travels(t)
  PROVE  Travels(t)'
<1>0. /\ axis \in 1 .. NA /\ NA \in Nat /\ axis \in Int
      /\ t \in [Axes -> Int] /\ phys' \in [Axes -> Int]
  <2>1. DriverTypeOK'
    BY DriverStep DEF Ended, Answer
  <2>2. axis \in 1 .. NA /\ NA \in Nat /\ axis \in Int
    BY DriverAssumption DEF DriverTypeOK
  <2>3. t \in [Axes -> Int] /\ phys' \in [Axes -> Int]
    <3> HIDE DEF Axes
    <3> QED BY <2>1, DriverAssumption DEF DriverTypeOK, Position
  <2> QED BY <2>2, <2>3
<1>1. CASE call = "goto"
  <2>1. cached[axis] = counter[axis] /\ goal = t /\ ok
    BY <1>0, <1>1 DEF Travels, Agree
  <2>2. /\ phys'[axis] = t[axis] /\ Advance
        /\ \A a \in Axes : a # axis =>
             phys'[a] = phys[a] /\ counter'[a] = counter[a]
        /\ UNCHANGED <<cached, goal>>
    BY <1>1, <2>1, AxisTravels
  <2>3. \A a \in 1 .. axis : phys'[a] = t[a]
    BY <1>0, <1>1, <2>2 DEF Travels
  <2>4. CASE axis < NA
    <3>1. call' = "goto" /\ axis' = axis + 1 /\ ok' = ok
      BY <1>0, <1>1, <2>2, <2>4 DEF Advance, Return
    <3>2. \A a \in axis + 1 .. NA : cached'[a] = counter'[a]
      BY <1>0, <1>1, <2>2 DEF Travels, Agree
    <3> QED BY <1>0, <2>1, <2>2, <2>3, <3>1, <3>2 DEF Travels, Agree
  <2>5. CASE ~(axis < NA)
    <3>1. call' = "sync" /\ axis' = 1 /\ ok' = ok /\ axis = NA
      BY <1>0, <1>1, <2>2, <2>5 DEF Advance, Return
    <3>2. phys' = t
      BY <1>0, <2>3, <3>1
    <3> QED BY <2>1, <2>2, <3>1, <3>2 DEF Travels, Agree
  <2> QED BY <2>4, <2>5
<1>2. CASE call = "sync"
  <2>1. QueryAxis
    BY <1>2 DEF Answer, SkipAxis, HomeAxis, MoveAxis, LimitSwitch, QueryAxis,
       Ping, NoAnswer, Reconnect, Moving
  <2>2. /\ cached' = [cached EXCEPT ![axis] = Digits(counter[axis])]
        /\ UNCHANGED <<phys, counter, goal>> /\ Advance
    BY <2>1 DEF QueryAxis
  <2>3. Digits(counter[axis]) = counter[axis]
    BY DriverAssumption DEF Digits, Referenced, DriverTypeOK
  <2>4. \A a \in Axes : a < axis \/ a = axis => cached'[a] = counter'[a]
    BY <1>0, <1>2, <2>2, <2>3 DEF Travels, Agree, DriverTypeOK
  <2>5. (IF call' = call THEN 1 .. axis' - 1 ELSE Axes)
          \subseteq {a \in Axes : a < axis \/ a = axis}
    BY <1>2, <2>2, PassedAxes
  <2>6. call' \in {"sync", "idle"} /\ ok' = ok
    BY <1>2, <2>2 DEF Advance, Return
  <2> QED BY <1>2, <2>2, <2>4, <2>5, <2>6 DEF Travels, Agree
<1> QED BY <1>1, <1>2

-----------------------------------------------------------------------------

(* The answers of the stage keep the cache invariant. *)
LEMMA RepliedCache ==
  ASSUME TypeOK, ControlInv, ReferenceInv, CacheInv, UNCHANGED progVars,
         \/ Answer
         \/ ErrorReply /\ state \notin {"HOMING", "ERROR_WELD", "GRINDING"}
         \/ GarbledReply
              /\ state \notin {"HOMING", "START", "PROCESS_COMMAND"}
  PROVE  CacheInv'
<1> USE DEF HomeCalls, GotoCalls, ReadCalls, PingCalls
<1>0. /\ DriverTypeOK /\ (lost => call # "idle") /\ CallOf /\ PlaceOf
      /\ ReferenceOf /\ Replied
  BY DEF TypeOK, ControlInv, ReferenceInv, CallOf, Replied
<1>1. /\ UNCHANGED <<at, state, context>>
      /\ Steady' = Steady /\ Warned' = Warned
  BY PlacesKept DEF progVars, Steady
<1>2. /\ call # "idle" /\ power' = power /\ (Flagged => Flagged')
      /\ call # "sync" /\ ok' /\ ~lost' => ok /\ ~lost
  BY <1>0, RepliedKeeps, RepliedCall DEF Flagged
<1>3. call \in {"home", "goto", "sync", "read", "ping"}
  BY <1>0, <1>2 DEF DriverTypeOK, Calls
<1>4. GarbledReply => emergency'
  BY DEF GarbledReply
<1>5. (Steady => (power /\ ~lost /\ Agree(Axes)) \/ (Warned /\ Flagged))'
  <2> SUFFICES ASSUME Steady, ~(Warned /\ Flagged')
               PROVE  (power /\ ~lost /\ Agree(Axes))'
    BY <1>1
  <2>1. power /\ ~lost /\ Agree(Axes)
    BY <1>2 DEF CacheInv
  <2>2. /\ call \in {"read", "ping"}
        /\ state \in {"HOMING", "START", "PROCESS_COMMAND"} \/ Warned
    BY <1>0, <1>3 DEF Steady, Warned, CallOf, PlaceOf
  <2>3. Answer \/ ErrorReply
    BY <1>4, <2>2 DEF Flagged
  <2>4. call = "read" => Referenced
    BY <1>0, <2>2 DEF Steady, CallOf, ReferenceOf, Strict, Good
  <2>5. Agree(Axes)'
    BY <1>0, <2>1, <2>2, <2>3, <2>4, CacheKept
  <2> QED BY <1>0, <2>1, <2>5, AnsweredBy
<1>6. (at \in {"boot_home", "emergency_home"} /\ ok /\ ~lost
        => \A a \in Homed : cached[a] = 0)'
  <2> SUFFICES ASSUME at \in {"boot_home", "emergency_home"}, ok', ~lost'
               PROVE  \A a \in Homed' : cached'[a] = 0
    BY <1>1
  <2>1. call = "home"
    BY <1>0, <1>3 DEF CallOf
  <2> QED BY <1>0, <1>2, <2>1, CacheHome DEF CacheInv
<1>7. (at \in {"move_verify", "emergency_verify", "return_verify"}
        => (power \/ lost) /\ (ok /\ ~lost => Agree(Read)))'
  <2> SUFFICES ASSUME at \in {"move_verify", "emergency_verify",
                              "return_verify"}
               PROVE  (power \/ lost)' /\ (ok /\ ~lost => Agree(Read))'
    BY <1>1
  <2>1. call = "read" /\ (power \/ lost)
    BY <1>0, <1>3 DEF CallOf, CacheInv
  <2>2. lost /\ ~power => lost'
    BY <1>0 DEF Replied, Answer, SkipAxis, HomeAxis, MoveAxis, LimitSwitch,
       QueryAxis, Ping, NoAnswer, Reconnect, ErrorReply, GarbledReply
  <2>3. ASSUME ok', ~lost' PROVE Agree(Read)'
    <3>1. ok /\ ~lost /\ power /\ Referenced
      BY <1>0, <1>2, <2>1, <2>3
         DEF ReferenceOf, Strict, Answered, Good
    <3> QED BY <1>0, <2>1, <2>3, <3>1, CacheRead DEF CacheInv
  <2> QED BY <1>2, <2>1, <2>2, <2>3
<1>8. (at = "unload_goto" => Flagged \/ Travels(Unload))'
  <2> SUFFICES ASSUME at = "unload_goto", ~Flagged' PROVE Travels(Unload)'
    BY <1>1
  <2>1. /\ ~lost /\ power /\ Referenced /\ Travels(Unload)
        /\ Answer /\ call \in {"goto", "sync"}
    BY <1>0, <1>2, <1>3, <1>4
       DEF CallOf, PlaceOf, CacheInv, ReferenceOf, Warned, Good, Flagged
  <2> QED BY <1>0, <2>1, TravelsOn, TableAssumption
<1>9. (at = "grind_goto" => Flagged \/ Travels(Grind))'
  <2> SUFFICES ASSUME at = "grind_goto", ~Flagged' PROVE Travels(Grind)'
    BY <1>1
  <2>1. /\ ~lost /\ power /\ Referenced /\ Travels(Grind)
        /\ Answer /\ call \in {"goto", "sync"}
    BY <1>0, <1>2, <1>3, <1>4
       DEF CallOf, PlaceOf, CacheInv, ReferenceOf, Strict, Good, Flagged
  <2> QED BY <1>0, <2>1, TravelsOn, TableAssumption
<1>10. GroundAtGrind' /\ (state = "GRINDING"
         /\ at \in {"grind_goto", "return_goto", "return_verify"} =>
         context.phase = IF at = "grind_goto" THEN 1 ELSE 3)'
       /\ (at \in {"move_check", "sticky_log"} => context.phase = 0)'
  BY <1>0, <1>1, <1>3 DEF CallOf, PlaceOf, CacheInv, GroundAtGrind
<1> QED BY <1>5, <1>6, <1>7, <1>8, <1>9, <1>10 DEF CacheInv

(* So do its power failures. *)
LEMMA PowerCache ==
  ASSUME TypeOK, ControlInv, ReferenceInv, CacheInv, UNCHANGED progVars,
         \/ PowerOn
         \/ PowerCut /\ state \in CutHandled \ {"PROCESS_COMMAND"}
         \/ IdleCut /\ state = "EMERGENCY_HANDLING"
              /\ at \in {"loop", "authorization", "restart_button"}
  PROVE  CacheInv'
<1> USE DEF HomeCalls, GotoCalls, ReadCalls, PingCalls
<1>0. DriverTypeOK /\ CallOf /\ PlaceOf /\ ReferenceOf
  BY DEF TypeOK, ControlInv, ReferenceInv
<1>1. /\ UNCHANGED <<at, state, context>>
      /\ Steady' = Steady /\ Warned' = Warned
  BY PlacesKept DEF progVars, Steady
<1>2. CASE PowerOn
  <2>1. /\ ~power /\ power'
        /\ UNCHANGED <<phys, cached, emergency, call, axis, goal, ok, lost>>
    BY <1>2 DEF PowerOn
  <2>2. at \notin {"grind_goto", "return_verify"}
    BY <1>0, <2>1 DEF ReferenceOf, Strict, Good
  <2>3. at = "unload_goto" => Flagged'
    BY <1>0, <2>1 DEF ReferenceOf, Warned, Good, Flagged
  <2> QED BY <1>1, <2>1, <2>2, <2>3 DEF CacheInv, Flagged, Homed, GroundAtGrind
<1>3. CASE PowerCut /\ state \in CutHandled \ {"PROCESS_COMMAND"}
  <2>1. lost' /\ call # "idle"
    BY <1>3 DEF PowerCut, Commanding, Ready
  <2>2. Steady => Warned
    BY <1>0, <1>3, <2>1 DEF Steady, Warned, CallOf, PlaceOf, CutHandled,
       DriverTypeOK, Calls
  <2> QED BY <1>1, <1>3, <2>1, <2>2
          DEF CacheInv, Flagged, GroundAtGrind, CutHandled
<1>4. CASE IdleCut /\ state = "EMERGENCY_HANDLING"
             /\ at \in {"loop", "authorization", "restart_button"}
  BY <1>1, <1>4 DEF CacheInv, Steady, GroundAtGrind
<1> QED BY <1>2, <1>3, <1>4

(* The stage, the threads and the world keep it. *)
LEMMA OutsideCache ==
  ASSUME Tolerated, GrindTolerated, "sticky" \in Faults, TypeOK, ControlInv,
         ReferenceInv, CacheInv, Threads \/ World \/ UNCHANGED vars
  PROVE  CacheInv'
<1>0. state \in States
  BY DEF TypeOK, ProgramTypeOK
<1>1. CASE DriverAnswer \/ RefusedCommand \/ NoisyReply
  <2>1. \/ Answer
        \/ ErrorReply /\ state \notin {"HOMING", "ERROR_WELD", "GRINDING"}
        \/ GarbledReply
             /\ state \notin {"HOMING", "START", "PROCESS_COMMAND"}
    BY <1>1 DEF DriverAnswer, RefusedCommand, NoisyReply, Strikes, Tolerated,
       GrindTolerated
  <2>2. UNCHANGED progVars
    BY <1>1 DEF DriverAnswer, RefusedCommand, NoisyReply, Outside
  <2> QED BY <2>1, <2>2, RepliedCache
<1>2. CASE PowerBack \/ CutUnderCommand \/ CutWhileIdle
  <2>1. UNCHANGED progVars
    BY <1>2 DEF PowerBack, CutUnderCommand, CutWhileIdle, Outside
  <2>2. CASE PowerBack
    BY <2>1, <2>2, PowerCache DEF PowerBack
  <2>3. CASE CutUnderCommand
    <3>1. state \in CutHandled \ {"PROCESS_COMMAND"}
      BY <1>0, <2>3 DEF CutUnderCommand, Strikes, Tolerated
    <3> QED BY <2>1, <2>3, <3>1, PowerCache DEF CutUnderCommand
  <2>4. CASE CutWhileIdle
    <3>1. state = "EMERGENCY_HANDLING"
      BY <1>0, <2>4 DEF CutWhileIdle, Strikes, Tolerated
    <3>2. at \in {"loop", "authorization", "restart_button"}
      BY <2>4, <3>1 DEF CutWhileIdle, Idle, Pauses, ControlInv, PlaceOf
    <3> QED BY <2>1, <2>4, <3>1, <3>2, PowerCache DEF CutWhileIdle
  <2> QED BY <1>2, <2>2, <2>3, <2>4
<1>3. CASE Threads \/ UNCHANGED vars
           \/ \E i \in Inputs : Trip(i) \/ Release(i)
  <2>1. /\ UNCHANGED progVars /\ (emergency => emergency')
        /\ UNCHANGED <<power, phys, counter, cached, call, axis, goal, ok, lost>>
    <3>1. CASE GrindWatchdog \/ UNCHANGED vars
      BY <3>1 DEF GrindWatchdog, vars
    <3>2. CASE \E i \in Inputs : Monitor(i)
      BY <3>2 DEF Monitor
    <3>3. CASE \E i \in Inputs : Trip(i) \/ Release(i)
      BY <3>3 DEF Trip, Release
    <3> QED BY <1>3, <3>1, <3>2, <3>3 DEF Threads
  <2>2. /\ UNCHANGED <<at, state, context>>
        /\ Steady' = Steady /\ Warned' = Warned
    BY <2>1, PlacesKept DEF progVars, Steady
  <2>3. Travels(Unload)' = Travels(Unload) /\ Travels(Grind)' = Travels(Grind)
    BY <2>1 DEF Travels, Agree
  <2> QED BY <2>1, <2>2, <2>3
          DEF CacheInv, Agree, Flagged, Homed, Read, GroundAtGrind
<1> QED BY <1>1, <1>2, <1>3 DEF World

(* Each operation of the program keeps it. *)
LEMMA ProgramCache ==
  ASSUME TypeOK, ControlInv, ReferenceInv, CacheInv, Program
  PROVE  CacheInv'
<1>0. /\ UNCHANGED <<power, phys, counter, lost>>
      /\ cached' = cached => Agree(Axes)' = Agree(Axes)
      /\ axis' = 1 => Agree(1 .. axis - 1)' /\ Agree(axis .. NA)' = Agree(Axes)'
      /\ axis' = 1 => \A a \in 1 .. axis' - 1 : phys[a] = Unload[a] /\ phys[a] = Grind[a]
      /\ call' = "home" /\ axis' = 1 => \A a \in Homed' : cached'[a] = 0
      /\ call' = "read" /\ axis' = 1 => Agree(Read)'
      /\ call = "idle" => ~lost /\ Agree(Read) = Agree(Axes)
      /\ call = "idle" /\ (state # "EMERGENCY_HANDLING" \/
             at \notin {"loop", "authorization", "restart_button"}) => power
      /\ call = "idle" /\ AtHome(Homed) /\ power
            /\ (\A a \in Homed : cached[a] = 0) => Agree(Axes)
      /\ call' = "idle" => Agree(Read)' = Agree(Axes)'
      /\ at = "boot_home" => ok
      /\ at \in {"boot_home", "emergency_home"} /\ ok /\ ~lost => AtHome(Homed)
      /\ at \notin {"homing_button", "homing_home"}
      /\ call # "idle" => ~(at \in {"boot", "loop", "move_check"} \cup Pauses)
      /\ Warned => Good \/ Flagged
      /\ BetweenMoves => /\ table_index + 1 \in Indexes
                         /\ Entry(table_index + 1).op = "MOVE"
                         /\ ~(table_index + 1 >= Len(Table))
      /\ context \in Contexts
  <2>1. DriverTypeOK /\ context \in Contexts /\ table_index \in Int
    BY TableAssumption DEF TypeOK, ProgramTypeOK
  <2>2. UNCHANGED <<power, phys, counter, lost>>
    BY ProgramCalls
  <2>3. /\ call = "idle" /\ AtHome(Homed) /\ power
              /\ (\A a \in Homed : cached[a] = 0) => Agree(Axes)
        /\ call = "idle" => Agree(Read) = Agree(Axes)
        /\ call' = "idle" => Agree(Read)' = Agree(Axes)'
        /\ call' = "home" /\ axis' = 1 => \A a \in Homed' : cached'[a] = 0
        /\ call' = "read" /\ axis' = 1 => Agree(Read)'
        /\ cached' = cached => Agree(Axes)' = Agree(Axes)
    BY <2>2 DEF AtHome, Agree, Homed, Read
  <2>4. axis' = 1 => Agree(1 .. axis - 1)' /\ Agree(axis .. NA)' = Agree(Axes)'
    BY DEF Agree
  <2>5. /\ at \notin {"homing_button", "homing_home"}
        /\ at = "boot_home" => ok
        /\ at \in {"boot_home", "emergency_home"} /\ ok /\ ~lost => AtHome(Homed)
        /\ call = "idle" => ~lost
        /\ Warned => Good \/ Flagged
        /\ call = "idle" /\ (state # "EMERGENCY_HANDLING" \/
               at \notin {"loop", "authorization", "restart_button"}) => power
    BY DEF ReferenceInv, ReferenceOf, CallOf, PowerOf
  <2>6. call # "idle" => ~(at \in {"boot", "loop", "move_check"} \cup Pauses)
    BY <2>1 DEF DriverTypeOK, Calls, Pauses, ReferenceInv, CallOf, HomeCalls,
       GotoCalls, ReadCalls, PingCalls
  <2>7. BetweenMoves => /\ table_index + 1 \in Indexes
                        /\ Entry(table_index + 1).op = "MOVE"
                        /\ ~(table_index + 1 >= Len(Table))
    BY <2>1, EntryFacts, IndexFacts, TableAssumption DEF BetweenMoves, Entry
  <2> QED BY <2>1, <2>2, <2>3, <2>4, <2>5, <2>6, <2>7
<1> USE DEF CacheInv, Steady, Warned, Flagged, Travels, GroundAtGrind,
            ControlInv, PlaceOf, IndexOf, ContextOf, ToMove, ToWeld, ToInit,
            OnEntry, ClearAndHome, ClearAndGoto, Reading, Pinging, StartCall,
            StartHome, StartGoto, StartRead, StartPing
<1>1. CASE Boot
  BY <1>0, <1>1 DEF Boot
<1>2. CASE BootHomed
  BY <1>0, <1>2 DEF BootHomed
<1>3. CASE Homing
  BY <1>0, <1>3 DEF Homing
<1>4. CASE HomingPinged
  BY <1>0, <1>4 DEF HomingPinged
<1>5. CASE HomingRead
  BY <1>0, <1>5 DEF HomingRead
<1>6. CASE HomingMove
  BY <1>0, <1>6 DEF HomingMove
<1>7. CASE HomingDone
  BY <1>0, <1>7 DEF HomingDone
<1>8. CASE Scan
  BY <1>0, <1>8 DEF Scan
<1>9. CASE Start
  BY <1>0, <1>9 DEF Start
<1>10. CASE StartPinged
  BY <1>0, <1>10 DEF StartPinged
<1>11. CASE StartRead_
  BY <1>0, <1>11 DEF StartRead_
<1>12. CASE StartMove
  BY <1>0, <1>12 DEF StartMove
<1>13. CASE MoveNext
  BY <1>0, <1>13 DEF MoveNext
<1>14. CASE MoveNextPrinted
  BY <1>0, <1>14 DEF MoveNextPrinted
<1>15. CASE MoveNextPinged
  BY <1>0, <1>15 DEF MoveNextPinged, StateAt
<1>16. CASE ProcessPastTable
  BY <1>0, <1>16 DEF ProcessPastTable
<1>17. CASE ProcessPause
  BY <1>0, <1>17 DEF ProcessPause, Processing
<1>18. CASE ProcessUser
  BY <1>0, <1>18 DEF ProcessUser, Processing
<1>19. CASE ProcessWeld
  BY <1>0, <1>19 DEF ProcessWeld, Processing
<1>20. CASE WeldPinged
  BY <1>0, <1>20 DEF WeldPinged
<1>21. CASE ProcessMove
  BY <1>0, <1>21 DEF ProcessMove, Processing
<1>22. CASE MovePinged
  <2>1. /\ KeepDriver /\ KeepIndex /\ UNCHANGED state /\ call = "idle"
        /\ at = "move_ping" /\ at' \in {"move_check", "loop"}
        /\ at' = "move_check" => context'.phase = 0
    BY <1>22 DEF MovePinged, Context
  <2> QED BY <1>0, <2>1
<1>23. CASE MoveCheck
  <2>1. CASE emergency
    <3>1. /\ KeepDriver /\ KeepIndex /\ at' = "loop"
          /\ at = "move_check" /\ state' = "EMERGENCY_HANDLING"
      BY <1>23, <2>1 DEF MoveCheck
    <3> QED BY <1>0, <3>1
  <2>2. CASE ~emergency
    <3>1. /\ UNCHANGED <<context, state, cached>> /\ at = "move_check"
          /\ at' \in {"sticky_log", "move_clear"}
      BY <1>23, <2>2 DEF MoveCheck
    <3>2. power /\ ~lost /\ Agree(Axes)' /\ context.phase = 0
      BY <1>0, <2>2, <3>1
    <3> QED BY <1>0, <3>1, <3>2
  <2> QED BY <2>1, <2>2
<1>24. CASE StickyLogged
  BY <1>0, <1>24 DEF StickyLogged
<1>25. CASE MoveClear
  BY <1>0, <1>25 DEF MoveClear
<1>26. CASE MoveDone
  BY <1>0, <1>26 DEF MoveDone
<1>27. CASE MoveVerified
  BY <1>0, <1>27 DEF MoveVerified, StateAt, Verified
<1>28. CASE Fire
  BY <1>0, <1>28 DEF Fire
<1>29. CASE SteppingContact
  BY <1>0, <1>29 DEF SteppingContact
<1>30. CASE ContactTimeout
  BY <1>0, <1>30 DEF ContactTimeout
<1>31. CASE WeldResult
  BY <1>0, <1>31 DEF WeldResult
<1>32. CASE Unloading
  BY <1>0, <1>32 DEF Unloading
<1>33. CASE Unloaded
  BY <1>0, <1>33 DEF Unloaded
<1>34. CASE Emergency
  BY <1>0, <1>34 DEF Emergency, NoContext
<1>35. CASE Denied
  BY <1>0, <1>35 DEF Denied
<1>36. CASE Granted
  BY <1>0, <1>36 DEF Granted
<1>37. CASE EmergencyHomed
  BY <1>0, <1>37 DEF EmergencyHomed, Recovered, NoContext
<1>38. CASE EmergencyMove
  BY <1>0, <1>38 DEF EmergencyMove
<1>39. CASE EmergencyMoved
  BY <1>0, <1>39 DEF EmergencyMoved
<1>40. CASE EmergencyVerified
  BY <1>0, <1>40 DEF EmergencyVerified, Recovered, NoContext, Verified
<1>41. CASE GrindPressed
  BY <1>0, <1>41 DEF GrindPressed, Phase, SetPhase
<1>42. CASE GrindMove
  BY <1>0, <1>42 DEF GrindMove, Phase
<1>43. CASE GrindReached
  BY <1>0, <1>43 DEF GrindReached, SetPhase
<1>44. CASE ReturnMove
  BY <1>0, <1>44 DEF ReturnMove, Phase
<1>45. CASE Returned
  BY <1>0, <1>45 DEF Returned
<1>46. CASE ReturnVerified
  BY <1>0, <1>46 DEF ReturnVerified, NoContext, Verified
<1> QED BY <1>1, <1>2, <1>3, <1>4, <1>5, <1>6, <1>7, <1>8, <1>9, <1>10, <1>11,
           <1>12, <1>13, <1>14, <1>15, <1>16, <1>17, <1>18, <1>19, <1>20,
           <1>21, <1>22, <1>23, <1>24, <1>25, <1>26, <1>27, <1>28, <1>29,
           <1>30, <1>31, <1>32, <1>33, <1>34, <1>35, <1>36, <1>37, <1>38,
           <1>39, <1>40, <1>41, <1>42, <1>43, <1>44, <1>45, <1>46 DEF Program

LEMMA InitCache == Init => CacheInv
BY DEF Init, DriverInit, CacheInv, Steady, GroundAtGrind

(* While the operator grinds (phase 2) the table stands at GRIND_POSITION:  *)
(* the result of the move there is dropped, but it starts from a cache that *)
(* agrees with the counter, which tells the truth.                          *)
THEOREM GrindsAtGrind ==
  ASSUME Tolerated, GrindTolerated
  PROVE  Spec => []GroundAtGrind
<1>1. CASE "sticky" \in Faults
  <2>1. TypeOK /\ ControlInv /\ ReferenceInv /\ CacheInv /\ [Next]_vars => CacheInv'
    BY <1>1, ProgramCache, OutsideCache DEF Next
  <2>2. Spec => []CacheInv
    BY <2>1, InitCache, ReferenceCorrect, PTL DEF Spec
  <2>3. CacheInv => GroundAtGrind
    BY DEF CacheInv
  <2> QED BY <2>2, <2>3, PTL
<1>2. CASE "sticky" \notin Faults
  <2>1. ReferenceInv => GroundAtGrind
    BY <1>2 DEF ReferenceInv, ReferenceOf, GroundAtGrind
  <2> QED BY <2>1, ReferenceCorrect, PTL
<1> QED BY <1>1, <1>2
=============================================================================
