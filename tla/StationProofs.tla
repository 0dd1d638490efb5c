---------------------------- MODULE StationProofs ----------------------------
(***************************************************************************)
(* Proofs of the safety properties of StationSPS that the order of its     *)
(* steps decides, for every set of batteries, every program sequence, any  *)
(* number of welds, scans and faults.                                      *)
(***************************************************************************)
EXTENDS StationSPS, TLAPS

USE DEF Step, Then, Lock, Unlock, LockMachine, UnlockIfLocked, Elsewhere,
        KeepBattery, ProgramSame, KeepMachine, Acting, LockIfNoUdi,
        Taken, TaskDone, Ready, Take, CloseMachine, Put,
        control, locking, machine, queues, window, history, vars

(* Facts about the program sequence. *)
LEMMA SequenceFacts ==
  /\ Len(Program) \in Nat \ {0}
  /\ 0 \in Positions
  /\ \A p \in Positions : p \in Nat /\ p < Len(Program) /\ ProgramAt(p) \in Nat
<1>1. Len(Program) \in Nat \ {0}
  BY StationAssumption
<1>2. \A p \in Positions : ProgramAt(p) \in Nat
  BY <1>1, StationAssumption DEF Positions, ProgramAt
<1> QED BY <1>1, <1>2 DEF Positions

(* The sequence is moved within its positions. *)
LEMMA MoveFacts ==
  ASSUME sequence_pos \in Positions, MoveSequence
  PROVE  /\ sequence_pos' \in Positions
         /\ state' \in {"PASSED", "SET_PROGRAM_ON_MACHINE"}
  BY SequenceFacts DEF MoveSequence, Positions

-----------------------------------------------------------------------------
(* Types. *)

TypeInv == TypeOK /\ QueueInv

LEMMA InitTyped == Init => TypeInv
<1> SUFFICES ASSUME Init PROVE TypeInv
  OBVIOUS
<1>1. /\ q_cmd \in Seq(Commands) /\ Len(q_cmd) = 0
      /\ q_res \in Seq({"validation_on", "validation_off", "result"})
      /\ made \in Seq(Measurements) /\ stored \in Seq(Measurements)
      /\ sent \in Seq([udi : Udis, verdict : {"passed", "failed", "aborted"}])
  BY DEF Init
<1>2. sequence_pos \in Positions /\ program \in Nat
  BY SequenceFacts DEF Init
<1>3. unfinished \in Nat /\ scans \in Nat /\ faults \in Nat
      /\ unfinished >= Len(q_cmd)
  BY <1>1 DEF Init
<1>4. coil \in BOOLEAN /\ toggle \in BOOLEAN /\ machine_locked \in BOOLEAN
      /\ toggle_bits \in BOOLEAN /\ validation \in BOOLEAN
      /\ closing \in BOOLEAN
  BY DEF Init
<1> QED BY <1>1, <1>2, <1>3, <1>4
        DEF Init, TypeInv, TypeOK, QueueInv, States, Verdicts

(* The count of faults and the lock keep their types. *)
LEMMA FaultTyped ==
  ASSUME faults \in Nat, NEW f, Fault(f) PROVE faults' \in Nat
  BY DEF Fault

LEMMA LockTyped ==
  ASSUME coil \in BOOLEAN, machine_locked \in BOOLEAN
  PROVE  /\ LockMachine => coil' \in BOOLEAN /\ machine_locked' \in BOOLEAN
         /\ LockIfNoUdi => coil' \in BOOLEAN /\ machine_locked' \in BOOLEAN
  OBVIOUS

(* What is appended to a queue or a history. *)
Responses == {"validation_on", "validation_off", "result"}
Reported == [udi : Udis, verdict : {"passed", "failed", "aborted"}]

LEMMA AppendTyped ==
  ASSUME NEW S, NEW s \in Seq(S), NEW e \in S
  PROVE  Append(s, e) \in Seq(S)
  OBVIOUS

LEMMA MeasurementTyped ==
  ASSUME TypeOK PROVE Measurement \in Measurements
  BY DEF TypeOK, Measurement, Measurements

LEMMA StoreTyped ==
  ASSUME TypeOK, StoreDb PROVE stored' \in Seq(Measurements)
<1>1. CASE stored' = Append(stored, Measurement)
  BY <1>1, MeasurementTyped, AppendTyped DEF TypeOK
<1>2. CASE UNCHANGED stored
  BY <1>2 DEF TypeOK
<1> QED BY <1>1, <1>2 DEF StoreDb

LEMMA ReleaseTyped ==
  ASSUME TypeOK, Release
  PROVE  /\ q_res' \in Seq(Responses)
         /\ udi' \in Udis \cup {NoUdi} /\ validation' \in BOOLEAN
<1>1. q_res' \in Seq(Responses)
  BY AppendTyped DEF TypeOK, Release, Responses
<1> QED BY <1>1 DEF Release

LEMMA ReportTyped ==
  ASSUME TypeOK, NEW v \in {"passed", "failed"}, Reports(v)
  PROVE  sent' \in Seq(Reported)
<1>1. udi # NoUdi => [udi |-> udi, verdict |-> v] \in Reported
  BY DEF TypeOK, Reported
<1> QED BY <1>1, AppendTyped DEF TypeOK, Reports, Reported

LEMMA TypeStep == TypeInv /\ [Next]_vars => TypeInv'
<1> SUFFICES ASSUME TypeInv, [Next]_vars PROVE TypeInv'
  OBVIOUS
<1> USE DEF TypeInv, TypeOK, QueueInv, Responses, Reported
<1>1. CASE Create
  <2>1. /\ sequence_pos' \in Positions /\ state' \in States
        /\ machine_locked' \in BOOLEAN /\ toggle_bits' \in BOOLEAN
        /\ at' \in {"step", "ended"}
    BY <1>1, SequenceFacts, Zenon DEF Create, States
  <2>2. faults' \in Nat
    BY <1>1, FaultTyped DEF Create
  <2> QED BY <1>1, <2>1, <2>2 DEF Create
<1>2. CASE StartState
  BY <1>2, SequenceFacts DEF StartState, States
<1>3. CASE InitState
  BY <1>3, SequenceFacts DEF InitState, States
<1>4. CASE SetProgram
  BY <1>4, SequenceFacts DEF SetProgram, States
<1>5. CASE ShowProgram
  BY <1>5, SequenceFacts DEF ShowProgram, States
<1>6. CASE SyncUnlock
  BY <1>6, SequenceFacts DEF SyncUnlock
<1>7. CASE SyncPoll
  BY <1>7, SequenceFacts DEF SyncPoll
<1>8. CASE SyncResult
  BY <1>8, SequenceFacts DEF SyncResult
<1>32. CASE SyncLock
  BY <1>32, SequenceFacts DEF SyncLock, States
<1>9. CASE CheckResult
  BY <1>9, SequenceFacts DEF CheckResult, States
<1>10. CASE PositionPassed
  BY <1>10, SequenceFacts DEF PositionPassed, States
<1>11. CASE FetchNext
  BY <1>11, MoveFacts DEF FetchNext, States
<1>12. CASE Finished
  BY <1>12, SequenceFacts DEF Finished, States
<1>13. CASE Stop
  BY <1>13, SequenceFacts DEF Stop, States
<1>14. CASE ActFailed
  <2>1. /\ stored' \in Seq(Measurements)
        /\ sent' \in Seq(Reported)
        /\ q_res' \in Seq(Responses)
        /\ udi' \in Udis \cup {NoUdi} /\ validation' \in BOOLEAN
    <3>1. CASE Reports("failed") /\ StoreDb /\ Release
      BY <3>1, StoreTyped, ReportTyped, ReleaseTyped
    <3>2. CASE UNCHANGED <<stored, sent, q_res, udi, validation>>
      BY <3>2
    <3> QED BY <1>14, <3>1, <3>2 DEF ActFailed
  <2>2. at' \in {"command", "ended"} /\ faults' \in Nat
    BY <1>14, FaultTyped DEF ActFailed, StoreDb
  <2>3. coil' \in BOOLEAN /\ machine_locked' \in BOOLEAN
    BY <1>14, LockTyped DEF ActFailed
  <2> QED BY <1>14, <2>1, <2>2, <2>3 DEF ActFailed
<1>15. CASE ActPositionPassed
  <2>1. stored' \in Seq(Measurements)
    BY <1>15, StoreTyped DEF ActPositionPassed
  <2>2. at' = "command" /\ faults' \in Nat
    BY <1>15, FaultTyped DEF ActPositionPassed, StoreDb
  <2>3. coil' \in BOOLEAN /\ machine_locked' \in BOOLEAN
    BY <1>15, LockTyped DEF ActPositionPassed
  <2> QED BY <1>15, <2>1, <2>2, <2>3 DEF ActPositionPassed
<1>16. CASE ActPassed
  <2>1. /\ sent' \in Seq(Reported)
        /\ q_res' \in Seq(Responses)
        /\ udi' \in Udis \cup {NoUdi} /\ validation' \in BOOLEAN
    <3>1. CASE Reports("passed") /\ Release
      BY <3>1, ReportTyped, ReleaseTyped
    <3>2. CASE UNCHANGED <<sent, q_res, udi, validation>>
      BY <3>2
    <3> QED BY <1>16, <3>1, <3>2 DEF ActPassed
  <2>2. at' \in {"command", "ended"} /\ faults' \in Nat
    BY <1>16, FaultTyped DEF ActPassed
  <2>3. coil' \in BOOLEAN /\ machine_locked' \in BOOLEAN
    BY <1>16, LockTyped DEF ActPassed
  <2> QED BY <1>16, <2>1, <2>2, <2>3 DEF ActPassed
<1>17. CASE ActOther
  BY <1>17, SequenceFacts DEF ActOther
<1>18. CASE NoCommand
  BY <1>18, SequenceFacts DEF NoCommand
<1>19. CASE DropCommand
  BY <1>19, SequenceFacts DEF DropCommand
<1>20. CASE UdiScanned
  <2>1. /\ q_cmd' \in Seq(Commands) /\ Len(q_cmd') = Len(q_cmd) - 1
        /\ Head(q_cmd) \in Commands /\ Len(q_cmd) > 0
    BY <1>20 DEF UdiScanned
  <2>2. Head(q_cmd).udi \in Udis
    BY <1>20, <2>1 DEF UdiScanned, Commands
  <2>3. /\ udi' \in Udis \cup {NoUdi} /\ validation' \in BOOLEAN
        /\ q_res' \in Seq(Responses)
    <3>1. Append(q_res, "validation_off") \in Seq(Responses)
      BY AppendTyped
    <3> QED BY <1>20, <2>2, <3>1, Zenon DEF UdiScanned
  <2>4. /\ state' \in States /\ at' \in {"create", "step", "ended"}
        /\ coil' \in BOOLEAN
    BY <1>20, Zenon DEF UdiScanned, States
  <2>5. unfinished' \in Nat /\ unfinished' >= Len(q_cmd')
    <3>1. unfinished' = unfinished - 1 \/ unfinished' = unfinished
      BY <1>20, Zenon DEF UdiScanned
    <3> QED BY <2>1, <3>1
  <2>6. faults' \in Nat
    BY <1>20, FaultTyped, Zenon DEF UdiScanned
  <2> QED BY <1>20, <2>1, <2>3, <2>4, <2>5, <2>6 DEF UdiScanned
<1>21. CASE MoveCounter
  BY <1>21, MoveFacts DEF MoveCounter, States
<1>22. CASE ValidationWelding
  BY <1>22, SequenceFacts DEF ValidationWelding, Commands
<1>23. CASE Poison
  <2>1. sent' \in Seq(Reported)
    <3>1. udi # NoUdi =>
            [udi |-> udi, verdict |-> "aborted"] \in Reported
      BY DEF Reported
    <3>2. udi # NoUdi =>
            Append(sent, [udi |-> udi, verdict |-> "aborted"]) \in Seq(Reported)
      BY <3>1, AppendTyped
    <3> QED BY <1>23, <3>2, Zenon DEF Poison
  <2>2. /\ q_cmd' \in Seq(Commands) /\ Len(q_cmd') = Len(q_cmd) - 1
        /\ Len(q_cmd) > 0
    BY <1>23 DEF Poison
  <2>3. state' \in States /\ coil' \in BOOLEAN
    BY <1>23, Zenon DEF Poison, States
  <2>4. unfinished' \in Nat /\ unfinished' >= Len(q_cmd')
    BY <1>23, <2>2 DEF Poison
  <2>5. faults' \in Nat
    BY <1>23, FaultTyped, Zenon DEF Poison
  <2> QED BY <1>23, <2>1, <2>2, <2>3, <2>4, <2>5 DEF Poison
<1>24. CASE Window
  BY <1>24, SequenceFacts DEF Window
<1>25. CASE WeldEnds
  <2> PICK v \in Verdicts : EndWeld(v)
    BY <1>25 DEF WeldEnds
  <2>1. [udi |-> weld.udi, pos |-> weld.pos, verdict |-> v] \in Measurements
    BY DEF EndWeld, Measurements
  <2>2. made' \in Seq(Measurements)
    BY <2>1, AppendTyped DEF EndWeld
  <2>3. faults' \in Nat
    BY FaultTyped DEF EndWeld
  <2> QED BY <2>2, <2>3 DEF EndWeld
<1>26. CASE \E u \in Udis : Scan(u)
  BY <1>26, SequenceFacts DEF Scan, Commands
<1>27. CASE PressValidation
  BY <1>27, SequenceFacts DEF PressValidation, Command, Commands, Pressable
<1>28. CASE PressSkip
  BY <1>28, SequenceFacts DEF PressSkip, Command, Commands, Pressable
<1>29. CASE Close
  BY <1>29, SequenceFacts DEF Close, Command, Commands
<1>30. CASE StartWeld
  <2>1. weld' \in [udi : Udis \cup {NoUdi}, pos : Positions, program : Nat]
    BY <1>30 DEF StartWeld
  <2> QED BY <1>30, <2>1 DEF StartWeld, Verdicts
<1>31. CASE UNCHANGED vars
  BY <1>31, SequenceFacts
<1> QED BY <1>1, <1>2, <1>3, <1>4, <1>5, <1>6, <1>7, <1>8, <1>9, <1>10, <1>11,
          <1>12, <1>13, <1>14, <1>15, <1>16, <1>17, <1>18, <1>19, <1>20,
          <1>21, <1>22, <1>23, <1>24, <1>25, <1>26, <1>27, <1>28, <1>29,
          <1>30, <1>31, <1>32 DEF Next, Process

(* Every variable keeps its type; the sequence stays within its positions.  *)
THEOREM StationTyped == Spec => []TypeOK
<1>1. Spec => []TypeInv
  BY InitTyped, TypeStep, PTL DEF Spec
<1>2. TypeInv => TypeOK
  BY DEF TypeInv
<1> QED BY <1>1, <1>2, PTL

-----------------------------------------------------------------------------
(* The lock. *)

LEMMA SafeStep == TypeInv /\ LockInv /\ PlaceInv /\ [Next]_vars
                    => LockInv' /\ PlaceInv'
<1> SUFFICES ASSUME TypeInv, LockInv, PlaceInv, [Next]_vars
             PROVE  LockInv' /\ PlaceInv'
  OBVIOUS
<1> USE DEF LockInv, PlaceInv
<1>1. CASE Create
  BY <1>1 DEF Create
<1>2. CASE StartState
  BY <1>2, Zenon DEF StartState
<1>3. CASE InitState
  BY <1>3, Zenon DEF InitState
<1>4. CASE SetProgram
  BY <1>4, Zenon DEF SetProgram
<1>5. CASE ShowProgram
  BY <1>5, Zenon DEF ShowProgram
<1>6. CASE SyncUnlock
  BY <1>6, Zenon DEF SyncUnlock
<1>7. CASE SyncPoll
  BY <1>7, Zenon DEF SyncPoll
<1>8. CASE SyncResult
  BY <1>8, Zenon DEF SyncResult
<1>32. CASE SyncLock
  BY <1>32, Zenon DEF SyncLock
<1>9. CASE CheckResult
  BY <1>9, Zenon DEF CheckResult
<1>10. CASE PositionPassed
  BY <1>10, Zenon DEF PositionPassed
<1>11. CASE FetchNext
  BY <1>11, Zenon DEF FetchNext, MoveSequence
<1>12. CASE Finished
  BY <1>12, Zenon DEF Finished
<1>13. CASE Stop
  BY <1>13, Zenon DEF Stop
<1>14. CASE ActFailed
  BY <1>14, Zenon DEF ActFailed
<1>15. CASE ActPositionPassed
  BY <1>15, Zenon DEF ActPositionPassed
<1>16. CASE ActPassed
  BY <1>16, Zenon DEF ActPassed
<1>17. CASE ActOther
  BY <1>17, Zenon DEF ActOther
<1>18. CASE NoCommand
  BY <1>18, Zenon DEF NoCommand
<1>19. CASE DropCommand
  BY <1>19, Zenon DEF DropCommand
<1>20. CASE UdiScanned
  <2>1. CASE UNCHANGED <<udi, state, coil>>
    BY <1>20, <2>1 DEF UdiScanned
  <2>2. CASE CloseMachine /\ at' = "create"
    BY <1>20, <2>2 DEF UdiScanned
  <2>3. CASE Accepting /\ at' = "ended" /\ udi' # NoUdi /\ UNCHANGED <<state, coil>>
    BY <1>20, <2>3 DEF UdiScanned
  <2>4. CASE Accepting /\ udi' = Head(q_cmd).udi /\ at' = "ended"
               /\ UNCHANGED <<state, coil>>
    <3>1. Head(q_cmd) \in Commands /\ Head(q_cmd).kind = "udi_scanned"
      BY <1>20 DEF UdiScanned, TypeInv, TypeOK
    <3>2. Head(q_cmd).udi \in Udis
      BY <3>1 DEF Commands
    <3>3. udi' # NoUdi
      BY <2>4, <3>2, StationAssumption
    <3> QED BY <2>3, <2>4, <3>3
  <2> QED BY <1>20, <2>1, <2>2, <2>4, Zenon DEF UdiScanned
<1>21. CASE MoveCounter
  BY <1>21, Zenon DEF MoveCounter, MoveSequence
<1>22. CASE ValidationWelding
  BY <1>22, Zenon DEF ValidationWelding
<1>23. CASE Poison
  BY <1>23 DEF Poison
<1>24. CASE Window
  BY <1>24, Zenon DEF Window
<1>25. CASE WeldEnds
  BY <1>25 DEF WeldEnds, EndWeld
<1>26. CASE \E u \in Udis : Scan(u)
  BY <1>26 DEF Scan
<1>27. CASE PressValidation
  BY <1>27, Zenon DEF PressValidation
<1>28. CASE PressSkip
  BY <1>28, Zenon DEF PressSkip
<1>29. CASE Close
  BY <1>29, Zenon DEF Close
<1>30. CASE StartWeld
  BY <1>30, Zenon DEF StartWeld
<1>31. CASE UNCHANGED vars
  BY <1>31, Zenon
<1> QED BY <1>1, <1>2, <1>3, <1>4, <1>5, <1>6, <1>7, <1>8, <1>9, <1>10, <1>11,
          <1>12, <1>13, <1>14, <1>15, <1>16, <1>17, <1>18, <1>19, <1>20,
          <1>21, <1>22, <1>23, <1>24, <1>25, <1>26, <1>27, <1>28, <1>29,
          <1>30, <1>31, <1>32 DEF Next, Process

(* Wherever a loop may unlock, the program of the position is set.          *)
LEMMA SetStep == TypeInv /\ PlaceInv /\ ProgramSet /\ [Next]_vars => ProgramSet'
<1> SUFFICES ASSUME TypeInv, PlaceInv, ProgramSet, [Next]_vars PROVE ProgramSet'
  OBVIOUS
<1> USE DEF ProgramSet, ProgramAt
<1>1. CASE SetProgram
  BY <1>1 DEF SetProgram
<1>2. CASE FetchNext \/ MoveCounter
  BY <1>2 DEF FetchNext, MoveCounter, MoveSequence
<1>3. CASE Create \/ UdiScanned \/ Poison
  BY <1>3 DEF Create, UdiScanned, Poison, PlaceInv
<1>4. CASE Process /\ ~(SetProgram \/ FetchNext \/ MoveCounter \/ Create
                           \/ UdiScanned \/ Poison)
  <2>1. UNCHANGED <<program, sequence_pos>>
    BY <1>4 DEF Process, StartState, InitState, ShowProgram, SyncUnlock, SyncPoll,
       SyncResult, SyncLock, CheckResult, PositionPassed, Finished, Stop, ActFailed,
       ActPositionPassed, ActPassed, ActOther, NoCommand, DropCommand,
       ValidationWelding
  <2>2. state' \in {"SHOW_PROGRAM_STEP", "SYNC_ON_TOGGLE_BIT"}
          => state \in {"SHOW_PROGRAM_STEP", "SYNC_ON_TOGGLE_BIT"}
    BY <1>4, Zenon DEF Process, StartState, InitState, ShowProgram, SyncUnlock, SyncPoll,
       SyncResult, SyncLock, CheckResult, PositionPassed, Finished, Stop, ActFailed,
       ActPositionPassed, ActPassed, ActOther, NoCommand, DropCommand,
       ValidationWelding
  <2> QED BY <2>1, <2>2
<1>5. CASE ~Process
  <2>1. UNCHANGED <<program, sequence_pos, state>>
    BY <1>5 DEF Next, Window, WeldEnds, EndWeld, Scan, PressValidation, PressSkip,
       Close, StartWeld
  <2> QED BY <2>1
<1> QED BY <1>1, <1>2, <1>3, <1>4, <1>5

LEMMA LockCorrect == Spec => [](TypeInv /\ LockInv /\ PlaceInv /\ ProgramSet)
<1>1. Init => LockInv /\ PlaceInv /\ ProgramSet
  BY DEF Init, LockInv, PlaceInv, ProgramSet
<1> QED BY <1>1, InitTyped, TypeStep, SafeStep, SetStep, PTL DEF Spec

(* The lock is released in two places only, each with the program set. *)
LEMMA ReleaseStep ==
  ASSUME PlaceInv, ProgramSet, Next, coil, ~coil'
  PROVE  program' = ProgramAt(sequence_pos')
<1>1. SetProgram \/ SyncUnlock
  <2>1. CASE Process
    BY <2>1, Zenon DEF Process, Create, StartState, InitState, ShowProgram, SyncPoll,
       SyncResult, SyncLock, CheckResult, PositionPassed, FetchNext, Finished, Stop,
       ActFailed, ActPositionPassed, ActPassed, ActOther, NoCommand, DropCommand,
       UdiScanned, MoveCounter, ValidationWelding, Poison
  <2>2. CASE ~Process
    BY <2>2 DEF Next, Window, WeldEnds, EndWeld, Scan, PressValidation, PressSkip,
       Close, StartWeld
  <2> QED BY <2>1, <2>2
<1>2. CASE SetProgram
  BY <1>2 DEF SetProgram, ProgramAt
<1>3. CASE SyncUnlock
  BY <1>3 DEF SyncUnlock, ProgramSet, ProgramAt
<1> QED BY <1>1, <1>2, <1>3

(* A locked machine is opened only when the program of the current position *)
(* is set, for every operator, early, overlapping or skipping, and every    *)
(* fault: ReleasedForProgram.                                               *)
THEOREM ReleasesForProgram == Spec => ReleasedForProgram
<1>1. LockInv /\ PlaceInv /\ ProgramSet /\ [Next]_vars =>
        [coil /\ ~coil' => program' = ProgramAt(sequence_pos')]_vars
  BY ReleaseStep
<1> QED BY <1>1, LockCorrect, PTL DEF Spec, ReleasedForProgram

(* Without a battery the machine is locked between two loops, whatever the  *)
(* station believed of the lock when it was made anew: LockedWithoutUdi.    *)
THEOREM LocksWithoutUdi == Spec => []LockedWithoutUdi
<1>1. TypeInv /\ LockInv /\ PlaceInv => LockedWithoutUdi
  BY DEF TypeInv, TypeOK, States, LockInv, PlaceInv, LockedWithoutUdi
<1> QED BY <1>1, LockCorrect, PTL

-----------------------------------------------------------------------------
(* The program of a weld, for an operator who waits and does not skip. *)

(* Nobody puts a skip into the queue. *)
LEMMA SkipStep ==
  ASSUME Waits, TypeInv, NoSkip, [Next]_vars PROVE NoSkip'
<1> USE DEF NoSkip
<1>1. q_cmd \in Seq(Commands)
  BY DEF TypeInv, TypeOK
<1>2. CASE UNCHANGED q_cmd
  BY <1>2
<1>3. CASE q_cmd # <<>> /\ q_cmd' = Tail(q_cmd)
  BY <1>1, <1>3
<1>4. CASE \E c \in Commands : c.kind # "move_counter" /\ q_cmd' = Append(q_cmd, c)
  BY <1>1, <1>4
<1>5. UNCHANGED q_cmd \/ (q_cmd # <<>> /\ q_cmd' = Tail(q_cmd))
        \/ \E c \in Commands : c.kind # "move_counter" /\ q_cmd' = Append(q_cmd, c)
  <2>1. CASE Process
    BY <2>1 DEF Process, Create, StartState, InitState, SetProgram, ShowProgram,
       SyncUnlock, SyncPoll, SyncResult, SyncLock, CheckResult, PositionPassed, FetchNext,
       Finished, Stop, ActFailed, ActPositionPassed, ActPassed, ActOther,
       NoCommand, DropCommand, UdiScanned, MoveCounter, ValidationWelding, Poison
  <2>2. CASE \E u \in Udis : Scan(u)
    BY <2>2 DEF Scan, Commands
  <2>3. CASE PressValidation \/ Close
    BY <2>3 DEF PressValidation, Close, Command, Commands
  <2>4. CASE PressSkip
    BY <2>4 DEF PressSkip, Pressable, Waits
  <2>5. CASE Window \/ WeldEnds \/ StartWeld \/ UNCHANGED vars
    BY <2>5 DEF Window, WeldEnds, EndWeld, StartWeld
  <2> QED BY <2>1, <2>2, <2>3, <2>4, <2>5 DEF Next
<1> QED BY <1>2, <1>3, <1>4, <1>5

(* The pedal is free only while the program of the position is set. *)
LEMMA ProgramStep ==
  ASSUME Waits, TypeInv, LockInv, PlaceInv, NoSkip, ProgramInv,
         WeldWithProgram, [Next]_vars
  PROVE  ProgramInv' /\ WeldWithProgram'
<1> USE DEF LockInv, PlaceInv, ProgramInv, ProgramSet, WeldWithProgram,
            ProgramAt
<1>1. CASE Create
  BY <1>1 DEF Create
<1>2. CASE StartState
  BY <1>2 DEF StartState
<1>3. CASE InitState
  BY <1>3 DEF InitState
<1>4. CASE SetProgram
  BY <1>4 DEF SetProgram
<1>5. CASE ShowProgram
  BY <1>5 DEF ShowProgram
<1>6. CASE SyncUnlock
  BY <1>6 DEF SyncUnlock
<1>7. CASE SyncPoll
  BY <1>7 DEF SyncPoll
<1>8. CASE SyncResult
  BY <1>8 DEF SyncResult
<1>32. CASE SyncLock
  BY <1>32 DEF SyncLock
<1>9. CASE CheckResult
  BY <1>9 DEF CheckResult
<1>10. CASE PositionPassed
  BY <1>10 DEF PositionPassed
<1>11. CASE FetchNext
  BY <1>11 DEF FetchNext, MoveSequence
<1>12. CASE Finished
  BY <1>12 DEF Finished
<1>13. CASE Stop
  BY <1>13 DEF Stop
<1>14. CASE ActFailed
  BY <1>14 DEF ActFailed
<1>15. CASE ActPositionPassed
  BY <1>15 DEF ActPositionPassed
<1>16. CASE ActPassed
  BY <1>16 DEF ActPassed
<1>17. CASE ActOther
  BY <1>17 DEF ActOther
<1>18. CASE NoCommand
  BY <1>18 DEF NoCommand
<1>19. CASE DropCommand
  BY <1>19 DEF DropCommand
<1>20. CASE UdiScanned
  BY <1>20 DEF UdiScanned
<1>21. CASE MoveCounter
  <2>1. Len(q_cmd) > 0 /\ Head(q_cmd) = q_cmd[1]
    BY <1>21 DEF MoveCounter, TypeInv, TypeOK
  <2> QED BY <1>21, <2>1 DEF MoveCounter, NoSkip
<1>22. CASE ValidationWelding
  BY <1>22 DEF ValidationWelding
<1>23. CASE Poison
  BY <1>23 DEF Poison
<1>24. CASE Window
  BY <1>24 DEF Window
<1>25. CASE WeldEnds
  BY <1>25 DEF WeldEnds, EndWeld
<1>26. CASE \E u \in Udis : Scan(u)
  BY <1>26 DEF Scan
<1>27. CASE PressValidation
  BY <1>27 DEF PressValidation
<1>28. CASE PressSkip
  BY <1>28 DEF PressSkip
<1>29. CASE Close
  BY <1>29 DEF Close
<1>30. CASE StartWeld
  BY <1>30 DEF StartWeld, Waits
<1>31. CASE UNCHANGED vars
  BY <1>31
<1> QED BY <1>1, <1>2, <1>3, <1>4, <1>5, <1>6, <1>7, <1>8, <1>9, <1>10, <1>11,
          <1>12, <1>13, <1>14, <1>15, <1>16, <1>17, <1>18, <1>19, <1>20,
          <1>21, <1>22, <1>23, <1>24, <1>25, <1>26, <1>27, <1>28, <1>29,
          <1>30, <1>31, <1>32 DEF Next, Process

(* Every weld is made with the program of its position, when the operator   *)
(* waits for the station and does not skip: WeldWithProgram.                *)
THEOREM WeldsWithProgram ==
  ASSUME Waits PROVE Spec => []WeldWithProgram
<1>1. Init => LockInv /\ PlaceInv /\ NoSkip /\ ProgramInv /\ WeldWithProgram
  BY DEF Init, LockInv, PlaceInv, NoSkip, ProgramInv,
         ProgramSet, WeldWithProgram
<1> DEFINE I == TypeInv /\ LockInv /\ PlaceInv /\ NoSkip /\ ProgramInv
                  /\ WeldWithProgram
<1>2. Init => I
  BY <1>1, InitTyped
<1>3. I /\ [Next]_vars => I'
  BY TypeStep, SafeStep, SkipStep, ProgramStep
<1>4. I => WeldWithProgram
  OBVIOUS
<1> QED BY <1>2, <1>3, <1>4, PTL DEF Spec
-----------------------------------------------------------------------------
(* The records, for a careful operator and a data base that takes them. *)

(* What is a prefix of a sequence is one of a longer sequence. *)
LEMMA PrefixFacts ==
  ASSUME NEW S, NEW s \in Seq(S), NEW t \in Seq(S), NEW e \in S,
         IsPrefix(s, t)
  PROVE  IsPrefix(t, t) /\ IsPrefix(s, Append(t, e))
<1>1. Len(s) \in 0 .. Len(t) /\ Len(t) \in Nat /\ Append(t, e) \in Seq(S)
      /\ Len(Append(t, e)) = Len(t) + 1
  BY DEF IsPrefix
<1>2. SubSeq(Append(t, e), 1, Len(s)) = SubSeq(t, 1, Len(s))
  BY <1>1
<1> QED BY <1>1, <1>2 DEF IsPrefix

(* The invariants a step of the records may use. *)
StationInv == TypeInv /\ LockInv /\ PlaceInv /\ NoSkip /\ ProgramInv

LEMMA RecordStep ==
  ASSUME Careful, StationInv, RecordInv, [Next]_vars
  PROVE  RecordInv'
<1> USE DEF RecordInv, WeldInv, PendingInv, Pending, Unseen, NoScan
<1>0. /\ made \in Seq(Measurements) /\ stored \in Seq(Measurements)
      /\ q_cmd \in Seq(Commands) /\ IsPrefix(made, made)
  <2>1. /\ made \in Seq(Measurements) /\ stored \in Seq(Measurements)
        /\ q_cmd \in Seq(Commands)
    BY DEF StationInv, TypeInv, TypeOK
  <2> QED BY <2>1 DEF IsPrefix
<1>a. "overlap" \notin Habits /\ "db" \notin Faults /\ Waits
  BY DEF Careful
<1>b. LockInv /\ PlaceInv /\ ProgramInv
  BY DEF StationInv
<1>1. CASE Create
  BY <1>1, <1>b DEF Create, PlaceInv
<1>2. CASE StartState
  BY <1>2, Zenon DEF StartState
<1>3. CASE InitState
  BY <1>3, Zenon DEF InitState
<1>4. CASE SetProgram
  BY <1>4, Zenon DEF SetProgram
<1>5. CASE ShowProgram
  BY <1>5 DEF ShowProgram
<1>6. CASE SyncUnlock
  BY <1>6 DEF SyncUnlock
<1>7. CASE SyncPoll
  BY <1>7, <1>b DEF SyncPoll, PlaceInv
<1>8. CASE SyncResult
  BY <1>8 DEF SyncResult
<1>32. CASE SyncLock
  BY <1>32 DEF SyncLock
<1>9. CASE CheckResult
  BY <1>9 DEF CheckResult
<1>10. CASE PositionPassed
  BY <1>10 DEF PositionPassed
<1>11. CASE FetchNext
  BY <1>11 DEF FetchNext, MoveSequence
<1>12. CASE Finished
  BY <1>12 DEF Finished
<1>13. CASE Stop
  BY <1>13 DEF Stop
<1>14. CASE ActFailed
  <2>1. \/ stored' = Append(stored, Measurement)
        \/ at' = "ended" /\ UNCHANGED stored
    <3>1. CASE Reports("failed") /\ StoreDb /\ Release /\ at' = "command"
      BY <3>1, <1>a, Zenon DEF StoreDb, Fault
    <3>2. CASE at' = "ended" /\ UNCHANGED <<stored, sent, q_res, udi, validation>>
      BY <3>2
    <3> QED BY <1>14, <3>1, <3>2 DEF ActFailed
  <2>2. UNCHANGED made /\ UNCHANGED state /\ at' \in {"command", "ended"}
        /\ UNCHANGED <<toggle, toggle_bits, weld>>
    BY <1>14 DEF ActFailed
  <2>3. at = "act" /\ state = "FAILED"
    BY <1>14 DEF ActFailed
  <2>4. ~Unseen /\ made = Append(stored, Measurement) /\ weld = NoWeld
    BY <2>3 DEF Measurement
  <2> QED BY <1>0, <2>1, <2>2, <2>3, <2>4
<1>15. CASE ActPositionPassed
  <2>1. stored' = Append(stored, Measurement)
    BY <1>15, <1>a DEF ActPositionPassed, StoreDb, Fault
  <2>2. UNCHANGED made /\ UNCHANGED state /\ at' = "command"
        /\ UNCHANGED <<toggle, toggle_bits, weld>>
    BY <1>15 DEF ActPositionPassed
  <2>3. at = "act" /\ state = "POSITION_PASSED"
    BY <1>15 DEF ActPositionPassed
  <2>4. ~Unseen /\ made = Append(stored, Measurement) /\ weld = NoWeld
    BY <2>3 DEF Measurement
  <2> QED BY <1>0, <2>1, <2>2, <2>3, <2>4
<1>16. CASE ActPassed
  BY <1>16 DEF ActPassed
<1>17. CASE ActOther
  BY <1>17 DEF ActOther
<1>18. CASE NoCommand
  BY <1>18 DEF NoCommand
<1>19. CASE DropCommand
  <2>1. NoScan => NoScan'
    BY <1>19, <1>0 DEF DropCommand
  <2> QED BY <1>19, <2>1 DEF DropCommand
<1>20. CASE UdiScanned
  <2>1. ~NoScan
    BY <1>20, <1>0 DEF UdiScanned
  <2>2. weld = NoWeld /\ ~Pending
    BY <2>1, <1>20 DEF UdiScanned
  <2> QED BY <1>20, <2>2 DEF UdiScanned
<1>21. CASE MoveCounter
  <2>1. Len(q_cmd) > 0 /\ Head(q_cmd) = q_cmd[1]
    BY <1>21, <1>0 DEF MoveCounter
  <2> QED BY <1>21, <2>1 DEF MoveCounter, NoSkip, StationInv
<1>22. CASE ValidationWelding
  <2>1. NoScan => NoScan'
    BY <1>22, <1>0 DEF ValidationWelding
  <2> QED BY <1>22, <2>1 DEF ValidationWelding
<1>23. CASE Poison
  BY <1>23 DEF Poison
<1>24. CASE Window
  BY <1>24 DEF Window
<1>25. CASE WeldEnds
  <2> PICK v \in Verdicts : EndWeld(v)
    BY <1>25 DEF WeldEnds
  <2>1. CASE at = "ended"
    <3>1. [udi |-> weld.udi, pos |-> weld.pos, verdict |-> v] \in Measurements
      BY DEF EndWeld, Measurements, StationInv, TypeInv, TypeOK
    <3> QED BY <2>1, <3>1, <1>0, PrefixFacts DEF EndWeld
  <2>2. CASE at # "ended"
    <3>1. made = stored /\ weld.udi = udi /\ weld.pos = sequence_pos
          /\ ~Pending /\ NoScan
      BY <2>2 DEF EndWeld
    <3>2. [udi |-> weld.udi, pos |-> weld.pos, verdict |-> v] \in Measurements
      BY DEF EndWeld, Measurements, StationInv, TypeInv, TypeOK
    <3>3. Unseen' /\ toggle' # toggle_bits'
      BY <3>1 DEF EndWeld, StationInv, TypeInv, TypeOK
    <3>4. IsPrefix(stored', made')
      BY <3>1, <3>2, <1>0, PrefixFacts DEF EndWeld
    <3>5. /\ made' = Append(stored', [udi |-> udi', pos |-> sequence_pos',
                                      verdict |-> result'])
          /\ weld' = NoWeld /\ at # "create"
          /\ state' \in {"SHOW_PROGRAM_STEP", "SYNC_ON_TOGGLE_BIT"}
      BY <2>2, <3>1, <1>b DEF EndWeld, PlaceInv
    <3> QED BY <2>2, <3>1, <3>3, <3>4, <3>5 DEF EndWeld
  <2> QED BY <2>1, <2>2
<1>26. CASE \E u \in Udis : Scan(u)
  BY <1>26, <1>a DEF Scan, Quiet
<1>27. CASE PressValidation
  BY <1>27, <1>0 DEF PressValidation, Command, Pressable
<1>28. CASE PressSkip
  BY <1>28, <1>0 DEF PressSkip, Command, Pressable
<1>29. CASE Close
  BY <1>29, <1>0 DEF Close, Command
<1>30. CASE StartWeld
  <2>1. q_cmd = <<>> /\ udi # NoUdi /\ ~Unseen /\ ~coil
    BY <1>30, <1>a DEF StartWeld, Waits
  <2>2. state \in {"SHOW_PROGRAM_STEP", "SYNC_ON_TOGGLE_BIT"}
    BY <2>1, <1>b DEF ProgramInv
  <2>3. weld'.udi = udi /\ weld'.pos = sequence_pos
    BY <1>30 DEF StartWeld
  <2>4. NoScan'
    BY <2>1, <1>30 DEF StartWeld
  <2> QED BY <1>30, <2>1, <2>2, <2>3, <2>4 DEF StartWeld
<1>31. CASE UNCHANGED vars
  BY <1>31
<1> QED BY <1>1, <1>2, <1>3, <1>4, <1>5, <1>6, <1>7, <1>8, <1>9, <1>10, <1>11,
          <1>12, <1>13, <1>14, <1>15, <1>16, <1>17, <1>18, <1>19, <1>20,
          <1>21, <1>22, <1>23, <1>24, <1>25, <1>26, <1>27, <1>28, <1>29,
          <1>30, <1>31, <1>32 DEF Next, Process

LEMMA InitRecord == Init => RecordInv /\ SequenceInv
<1> SUFFICES ASSUME Init PROVE RecordInv /\ SequenceInv
  OBVIOUS
<1>1. made = stored /\ stored = <<>> /\ at = "create" /\ state = "NONE"
      /\ weld = NoWeld
  BY DEF Init
<1>2. IsPrefix(stored, made)
  BY <1>1 DEF IsPrefix
<1> QED BY <1>1, <1>2 DEF RecordInv, WeldInv, PendingInv, SequenceInv

(* For a careful operator and a data base that takes every record, the data *)
(* base holds the welds in their order, under their battery, position and   *)
(* verdict, and at most the last is missing while the station runs:         *)
(* RecordsInOrder.                                                          *)
THEOREM RecordsKept == ASSUME Careful PROVE Spec => []RecordsInOrder
<1> DEFINE I == StationInv /\ WeldWithProgram /\ RecordInv
<1>1. Init => I
  BY InitTyped, InitRecord DEF Init, StationInv, LockInv,
     PlaceInv, NoSkip, ProgramInv, ProgramSet, WeldWithProgram
<1>2. I /\ [Next]_vars => I'
  BY TypeStep, SafeStep, SkipStep, ProgramStep, RecordStep DEF StationInv, Careful
<1>3. I => RecordsInOrder
  <2> SUFFICES ASSUME I, at # "ended" PROVE Len(made) <= Len(stored) + 1
    BY DEF RecordsInOrder, RecordInv
  <2>1. made \in Seq(Measurements) /\ stored \in Seq(Measurements)
    BY DEF StationInv, TypeInv, TypeOK
  <2>2. CASE made = stored
    BY <2>1, <2>2
  <2>3. CASE made # stored
    BY <2>1, <2>3 DEF RecordInv, PendingInv
  <2> QED BY <2>2, <2>3
<1> QED BY <1>1, <1>2, <1>3, PTL DEF Spec

(* One more weld of the battery, at the next position and ok. *)
LEMMA WeldedNext ==
  ASSUME TypeOK, WeldedOk(sequence_pos), welding_status = "ok",
         stored' = Append(stored, Measurement), UNCHANGED <<udi, sequence_pos>>
  PROVE  WeldedOk(sequence_pos + 1)'
<1>1. sequence_pos \in Nat /\ stored \in Seq(Measurements)
      /\ Measurement \in Measurements
  BY MeasurementTyped, SequenceFacts DEF TypeOK
<1>2. Len(stored') = Len(stored) + 1 /\ Len(stored) \in Nat
  BY <1>1
<1>3. ASSUME NEW p \in 0 .. sequence_pos
      PROVE  stored'[Len(stored') - (sequence_pos + 1) + 1 + p]
               = [udi |-> udi, pos |-> p, verdict |-> "ok"]
  <2>1. CASE p = sequence_pos
    BY <1>1, <1>2, <2>1 DEF Measurement
  <2>2. CASE p # sequence_pos
    <3>1. p \in 0 .. sequence_pos - 1
      BY <1>1, <2>2
    <3>2. Len(stored) - sequence_pos + 1 + p \in 1 .. Len(stored)
      BY <1>1, <1>2, <3>1 DEF WeldedOk
    <3> QED BY <1>1, <1>2, <3>1, <3>2 DEF WeldedOk
  <2> QED BY <2>1, <2>2
<1> QED BY <1>1, <1>2, <1>3 DEF WeldedOk

LEMMA SequenceStep ==
  ASSUME Careful, StationInv, RecordInv, SequenceInv, [Next]_vars
  PROVE  SequenceInv'
<1> USE DEF SequenceInv
<1>0. TypeOK /\ sequence_pos \in Nat /\ Len(Program) \in Nat \ {0}
      /\ sequence_pos < Len(Program)
  BY SequenceFacts DEF StationInv, TypeInv, TypeOK
<1>a. PlaceInv /\ "db" \notin Faults /\ Waits
  BY DEF StationInv, Careful
<1>b. UNCHANGED <<stored, udi>> => \A n \in Nat : WeldedOk(n) => WeldedOk(n)'
  BY DEF WeldedOk
<1>1. CASE Create
  <2>1. CASE at' = "ended"
    BY <2>1
  <2>2. CASE at' # "ended"
    <3>1. sequence_pos' = 0 /\ state' = "START" /\ UNCHANGED stored
      BY <1>1, <2>2 DEF Create
    <3>2. WeldedOk(0)'
      BY <1>0, <3>1 DEF WeldedOk, TypeOK
    <3> QED BY <3>1, <3>2
  <2> QED BY <2>1, <2>2
<1>2. CASE StartState
  BY <1>2, <1>0, <1>b DEF StartState
<1>3. CASE InitState
  BY <1>3, <1>0, <1>b DEF InitState
<1>4. CASE SetProgram
  BY <1>4, <1>0, <1>b DEF SetProgram
<1>5. CASE ShowProgram
  BY <1>5, <1>0, <1>b DEF ShowProgram
<1>6. CASE SyncUnlock
  BY <1>6, <1>0, <1>b DEF SyncUnlock
<1>7. CASE SyncPoll
  <2>1. state = "SYNC_ON_TOGGLE_BIT"
    BY <1>7, <1>a DEF SyncPoll, PlaceInv
  <2> QED BY <1>7, <2>1, <1>0, <1>b DEF SyncPoll
<1>8. CASE SyncResult
  BY <1>8, <1>0, <1>b DEF SyncResult
<1>32. CASE SyncLock
  <2>1. state = "SYNC_ON_TOGGLE_BIT"
    BY <1>32, <1>a DEF SyncLock, PlaceInv
  <2> QED BY <1>32, <2>1, <1>0, <1>b DEF SyncLock
<1>9. CASE CheckResult
  BY <1>9, <1>0, <1>b DEF CheckResult
<1>10. CASE PositionPassed
  BY <1>10, <1>0, <1>b DEF PositionPassed
<1>11. CASE FetchNext
  <2>1. CASE sequence_pos + 1 >= Len(Program)
    <3>1. sequence_pos + 1 = Len(Program) /\ state' = "PASSED"
      BY <1>11, <1>0, <2>1 DEF FetchNext, MoveSequence
    <3>2. WeldedOk(Len(Program))'
      BY <1>11, <1>0, <1>b, <3>1 DEF FetchNext
    <3> QED BY <3>1, <3>2
  <2>2. CASE ~(sequence_pos + 1 >= Len(Program))
    <3>1. sequence_pos' = sequence_pos + 1 /\ state' = "SET_PROGRAM_ON_MACHINE"
      BY <1>11, <2>2 DEF FetchNext, MoveSequence
    <3>2. WeldedOk(sequence_pos + 1) /\ UNCHANGED <<stored, udi>>
      BY <1>11 DEF FetchNext
    <3>3. WeldedOk(sequence_pos)'
      BY <3>1, <3>2 DEF WeldedOk
    <3> QED BY <3>1, <3>3
  <2> QED BY <2>1, <2>2
<1>12. CASE Finished
  BY <1>12 DEF Finished
<1>13. CASE Stop
  BY <1>13 DEF Stop
<1>14. CASE ActFailed
  BY <1>14 DEF ActFailed
<1>15. CASE ActPositionPassed
  <2>1. stored' = Append(stored, Measurement)
    BY <1>15, <1>a DEF ActPositionPassed, StoreDb, Fault
  <2>2. WeldedOk(sequence_pos + 1)'
    BY <1>15, <1>0, <2>1, WeldedNext DEF ActPositionPassed
  <2> QED BY <1>15, <2>2 DEF ActPositionPassed, WeldedOk
<1>16. CASE ActPassed
  BY <1>16 DEF ActPassed
<1>17. CASE ActOther
  BY <1>17, <1>0, <1>b DEF ActOther
<1>18. CASE NoCommand
  BY <1>18, <1>0, <1>b DEF NoCommand
<1>19. CASE DropCommand
  BY <1>19, <1>0, <1>b DEF DropCommand
<1>20. CASE UdiScanned
  <2>1. CASE at' = "ended" \/ state' = "NONE"
    BY <2>1
  <2>2. CASE ~(at' = "ended" \/ state' = "NONE")
    BY <1>20, <2>2, <1>0, <1>b DEF UdiScanned, CloseMachine
  <2> QED BY <2>1, <2>2
<1>21. CASE MoveCounter
  <2>1. Len(q_cmd) > 0 /\ Head(q_cmd) = q_cmd[1]
    BY <1>21, <1>0 DEF MoveCounter, TypeOK
  <2> QED BY <1>21, <2>1 DEF MoveCounter, NoSkip, StationInv
<1>22. CASE ValidationWelding
  BY <1>22, <1>0, <1>b DEF ValidationWelding
<1>23. CASE Poison
  BY <1>23 DEF Poison
<1>24. CASE Window
  BY <1>24, <1>0, <1>b DEF Window
<1>25. CASE WeldEnds
  BY <1>25, <1>0, <1>b DEF WeldEnds, EndWeld
<1>26. CASE \E u \in Udis : Scan(u)
  BY <1>26, <1>0, <1>b DEF Scan
<1>27. CASE PressValidation
  BY <1>27, <1>0, <1>b DEF PressValidation
<1>28. CASE PressSkip
  BY <1>28, <1>0, <1>b DEF PressSkip
<1>29. CASE Close
  BY <1>29, <1>0, <1>b DEF Close
<1>30. CASE StartWeld
  BY <1>30, <1>0, <1>b DEF StartWeld
<1>31. CASE UNCHANGED vars
  BY <1>31, <1>0, <1>b
<1> QED BY <1>1, <1>2, <1>3, <1>4, <1>5, <1>6, <1>7, <1>8, <1>9, <1>10, <1>11,
          <1>12, <1>13, <1>14, <1>15, <1>16, <1>17, <1>18, <1>19, <1>20,
          <1>21, <1>22, <1>23, <1>24, <1>25, <1>26, <1>27, <1>28, <1>29,
          <1>30, <1>31, <1>32 DEF Next, Process

(* A report of "passed" finds all the battery's welds in the data base.     *)
LEMMA PassedReport ==
  ASSUME StationInv, RecordInv, SequenceInv, ActPassed, UNCHANGED made, sent' # sent
  PROVE  /\ Len(made) >= Len(Program)
         /\ \A p \in Positions :
              made[Len(made) - Len(Program) + 1 + p]
                = [udi |-> udi, pos |-> p, verdict |-> "ok"]
<1>1. at = "act" /\ state = "PASSED"
  BY DEF ActPassed
<1>2. WeldedOk(Len(Program))
  BY <1>1 DEF SequenceInv
<1>3. made = stored
  BY <1>1 DEF RecordInv, PendingInv, Pending
<1>4. Len(made) \in Nat /\ Len(Program) \in Nat
  BY SequenceFacts DEF StationInv, TypeInv, TypeOK
<1> QED BY <1>2, <1>3, <1>4 DEF WeldedOk, Positions

LEMMA PassedStep ==
  ASSUME StationInv, RecordInv, SequenceInv, [Next]_vars,
         sent' # sent, Last(sent').verdict = "passed"
  PROVE  /\ Len(made) >= Len(Program)
         /\ \A p \in Positions :
              made[Len(made) - Len(Program) + 1 + p]
                = [udi |-> udi, pos |-> p, verdict |-> "ok"]
<1>1. CASE ActPassed
  <2>1. UNCHANGED made
    BY <1>1 DEF ActPassed
  <2> QED BY <1>1, <2>1, PassedReport
<1>2. CASE ~ActPassed
  <2>1. \E v \in {"failed", "aborted"} :
           sent' = Append(sent, [udi |-> udi, verdict |-> v])
    <3>1. CASE ActFailed
      BY <3>1 DEF ActFailed, Reports
    <3>2. CASE Poison
      BY <3>2 DEF Poison
    <3>3. CASE ~ActFailed /\ ~Poison
      <4>1. CASE Process
        BY <1>2, <3>3, <4>1 DEF Process, Create, StartState, InitState, SetProgram,
           ShowProgram, SyncUnlock, SyncPoll, SyncResult, SyncLock, CheckResult,
           PositionPassed, FetchNext, Finished, Stop, ActPositionPassed, ActOther,
           NoCommand, DropCommand, UdiScanned, MoveCounter, ValidationWelding
      <4>2. CASE ~Process
        BY <4>2 DEF Next, Window, WeldEnds, EndWeld, Scan, PressValidation,
           PressSkip, Close, StartWeld
      <4> QED BY <4>1, <4>2
    <3> QED BY <3>1, <3>2, <3>3
  <2>2. sent \in Seq(Reported)
    BY DEF StationInv, TypeInv, TypeOK, Reported
  <2>3. Last(sent').verdict # "passed"
    BY <2>1, <2>2 DEF Last
  <2> QED BY <2>3
<1> QED BY <1>1, <1>2

(* For a careful operator and a data base that takes every record a battery *)
(* is reported as passed only when all its positions were welded, last, in  *)
(* order, and each ok: PassedIsWelded.                                      *)
THEOREM PassesWelded == ASSUME Careful PROVE Spec => PassedIsWelded
<1> DEFINE I == StationInv /\ WeldWithProgram /\ RecordInv /\ SequenceInv
<1>1. Init => I
  BY InitTyped, InitRecord DEF Init, StationInv, LockInv,
     PlaceInv, NoSkip, ProgramInv, ProgramSet, WeldWithProgram
<1>2. I /\ [Next]_vars => I'
  BY TypeStep, SafeStep, SkipStep, ProgramStep, RecordStep, SequenceStep
     DEF StationInv, Careful
<1>3. I /\ [Next]_vars =>
        [sent' # sent /\ Last(sent').verdict = "passed" =>
           /\ Len(made) >= Len(Program)
           /\ \A p \in Positions :
                made[Len(made) - Len(Program) + 1 + p]
                  = [udi |-> udi, pos |-> p, verdict |-> "ok"]]_vars
  BY PassedStep
<1> QED BY <1>1, <1>2, <1>3, PTL DEF Spec, PassedIsWelded
=============================================================================
