----------------------------- MODULE StationSPS -----------------------------
(***************************************************************************)
(* The welding station's control ("poor man's SPS", production mode): the  *)
(* process that runs the state machine SPSStateMachine on the welding      *)
(* machine and takes commands from a queue, the scanner and the window     *)
(* that put them there, and the operator at the machine's pedal.           *)
(*                                                                         *)
(* The station learns of a weld only by the machine's toggle bits.  It     *)
(* keeps the last bits it saw; the weld they announce belongs to the       *)
(* battery (udi) and the position the state machine is at when it notices. *)
(***************************************************************************)
EXTENDS Integers, Sequences, FiniteSets, SequencesExt

CONSTANTS
  Udis,       \* batteries
  Program,    \* program_sequence: the welding program of each position
  Habits,     \* what the operator may do: subset of HabitKinds
  Faults,     \* what may go wrong: subset of FaultKinds
  MaxWelds, MaxScans, MaxFaults   \* bounds

NoUdi == "undefined"   \* the UDI the data base stores for None

HabitKinds == {"early", "overlap", "skip", "close"}
FaultKinds == {"reject", "no_verdict", "mes", "dsp", "db"}

ASSUME StationAssumption ==
  /\ NoUdi \notin Udis
  /\ Program \in Seq(Nat) /\ Program # <<>>
  /\ Habits \subseteq HabitKinds /\ Faults \subseteq FaultKinds
  /\ MaxWelds \in Nat /\ MaxScans \in Nat /\ MaxFaults \in Nat

Positions == 0 .. Len(Program) - 1
ProgramAt(p) == Program[p + 1]

States == {"NONE", "START", "INIT", "SET_PROGRAM_ON_MACHINE",
           "SHOW_PROGRAM_STEP", "SYNC_ON_TOGGLE_BIT", "CHECK_WELDING_RESULT",
           "POSITION_PASSED", "FETCH_NEXT_PROGRAM", "FAILED", "PASSED", "STOP"}

VARIABLES
  state,           \* SM.state, "NONE" while SM is None
  at,              \* the place in ProcessSPS.run
  sequence_pos,
  machine_locked,  \* SM._machine_locked: what the station believes of coil
  toggle_bits,     \* dev._toggle_bits: the bits last seen
  welding_status,
  udi,             \* _udi
  validation,      \* welding_for_process_validation
  coil,            \* the machine's step lock
  toggle,          \* the machine's toggle bits
  result,          \* the machine's result bits
  program,         \* the program set on the machine
  weld,            \* the weld in progress
  q_cmd, q_res,    \* command_queue and response_queue
  unfinished,      \* commands put and not yet task_done
  skip_button,     \* VALIDATION WELDING NEXT POSITION
  closing,         \* the window is closed, the main process joins q_cmd
  made,            \* history: finished welds
  stored,          \* history: measurements committed to the data base
  sent,            \* history: results sent to the MES
  scans, faults    \* counters for the bounds

control == <<state, at, sequence_pos, udi, validation, welding_status>>
locking == <<machine_locked, coil>>
machine == <<toggle, result, program, weld, made>>
queues  == <<q_cmd, unfinished>>
window  == <<skip_button, closing>>
history == <<stored, sent>>
vars == <<control, locking, toggle_bits, machine, queues, q_res, window,
          history, scans, faults>>

Verdicts == {"ok", "reject", "none"}
NoWeld == [udi |-> NoUdi, pos |-> -1, program |-> -1]

Commands == [kind : {"udi_scanned"}, udi : Udis]
              \cup [kind : {"move_counter", "validation_welding", "poison"},
                    udi : {NoUdi}]
Command(k) == [kind |-> k, udi |-> NoUdi]

Fault(f) == f \in Faults /\ faults < MaxFaults /\ faults' = faults + 1

-----------------------------------------------------------------------------
(* The state machine: do_one_loop. *)

Step(s) == at = "step" /\ state = s
Then(s) == state' = s /\ at' = "act"

Lock   == coil' = TRUE /\ machine_locked' = TRUE
Unlock == coil' = FALSE /\ machine_locked' = FALSE

(* The station writes the lock only if it believes it has to. *)
LockMachine   == IF machine_locked THEN UNCHANGED locking ELSE Lock
UnlockIfLocked == IF machine_locked THEN Unlock ELSE UNCHANGED locking

Elsewhere == UNCHANGED <<queues, q_res, window, history, scans>>
KeepBattery == UNCHANGED <<udi, validation>>

ProgramSame == UNCHANGED <<toggle, result, weld, made>>
KeepMachine == UNCHANGED machine

StartState ==
  /\ Step("START")
  /\ LockMachine
  /\ Then("INIT")
  /\ KeepMachine /\ KeepBattery /\ Elsewhere
  /\ UNCHANGED <<sequence_pos, toggle_bits, welding_status, faults>>

InitState ==
  /\ Step("INIT")
  /\ machine_locked' = coil
  /\ Then("SET_PROGRAM_ON_MACHINE")
  /\ KeepMachine /\ KeepBattery /\ Elsewhere
  /\ UNCHANGED <<coil, sequence_pos, toggle_bits, welding_status, faults>>

SetProgram ==
  /\ Step("SET_PROGRAM_ON_MACHINE")
  /\ program' = ProgramAt(sequence_pos)
  /\ UnlockIfLocked
  /\ Then("SHOW_PROGRAM_STEP")
  /\ ProgramSame /\ KeepBattery /\ Elsewhere
  /\ UNCHANGED <<sequence_pos, toggle_bits, welding_status, faults>>

ShowProgram ==
  /\ Step("SHOW_PROGRAM_STEP")
  /\ Then("SYNC_ON_TOGGLE_BIT")
  /\ KeepMachine /\ KeepBattery /\ Elsewhere
  /\ UNCHANGED <<locking, sequence_pos, toggle_bits, welding_status, faults>>

(* SYNC_ON_TOGGLE_BIT: unlock, ... *)
SyncUnlock ==
  /\ Step("SYNC_ON_TOGGLE_BIT")
  /\ UnlockIfLocked
  /\ at' = "poll"
  /\ KeepMachine /\ KeepBattery /\ Elsewhere
  /\ UNCHANGED <<state, sequence_pos, toggle_bits, welding_status, faults>>

PollForgets ==   \* mutant: a changed toggle bit is stored and not acted upon
  /\ at = "poll"
  /\ toggle_bits' = toggle
  /\ at' = "act"
  /\ KeepMachine /\ KeepBattery /\ Elsewhere
  /\ UNCHANGED <<state, locking, sequence_pos, welding_status, faults>>

(* ... is_toggle_bit_changed() stores the bits it sees, ... *)
SyncPoll ==
  /\ at = "poll"
  /\ toggle_bits' = toggle
  /\ at' = IF toggle # toggle_bits THEN "result" ELSE "act"
  /\ KeepMachine /\ KeepBattery /\ Elsewhere
  /\ UNCHANGED <<state, locking, sequence_pos, welding_status, faults>>

(* ... then the result bits are read, the machine being free until ...      *)
SyncResult ==
  /\ at = "result"
  /\ welding_status' = result
  /\ at' = "lock"
  /\ KeepMachine /\ KeepBattery /\ Elsewhere
  /\ UNCHANGED <<state, locking, sequence_pos, toggle_bits, faults>>

(* ... it is locked.                                                        *)
SyncLock ==
  /\ at = "lock"
  /\ LockMachine
  /\ Then("CHECK_WELDING_RESULT")
  /\ KeepMachine /\ KeepBattery /\ Elsewhere
  /\ UNCHANGED <<welding_status, sequence_pos, toggle_bits, faults>>

CheckResult ==
  /\ Step("CHECK_WELDING_RESULT")
  /\ Then(IF welding_status = "ok" THEN "POSITION_PASSED" ELSE "FAILED")
  /\ KeepMachine /\ KeepBattery /\ Elsewhere
  /\ UNCHANGED <<locking, sequence_pos, toggle_bits, welding_status, faults>>

MoveKeepsProgram ==   \* mutant: the program of the next position is not set
  IF sequence_pos + 1 >= Len(Program)
  THEN state' = "PASSED" /\ UNCHANGED sequence_pos
  ELSE state' = "SHOW_PROGRAM_STEP" /\ sequence_pos' = sequence_pos + 1

MoveEndsEarly ==   \* mutant: off by one at the end of the sequence
  IF sequence_pos + 2 >= Len(Program)
  THEN state' = "PASSED" /\ UNCHANGED sequence_pos
  ELSE state' = "SET_PROGRAM_ON_MACHINE" /\ sequence_pos' = sequence_pos + 1

MovePastEnd ==   \* mutant: the end of the sequence is not seen
  IF sequence_pos + 1 > Len(Program)
  THEN state' = "PASSED" /\ UNCHANGED sequence_pos
  ELSE state' = "SET_PROGRAM_ON_MACHINE" /\ sequence_pos' = sequence_pos + 1

(* move_seqence_step(+1) *)
MoveSequence ==
  IF sequence_pos + 1 >= Len(Program)
  THEN state' = "PASSED" /\ UNCHANGED sequence_pos
  ELSE state' = "SET_PROGRAM_ON_MACHINE" /\ sequence_pos' = sequence_pos + 1

PositionPassed ==
  /\ Step("POSITION_PASSED")
  /\ Then("FETCH_NEXT_PROGRAM")
  /\ KeepMachine /\ KeepBattery /\ Elsewhere
  /\ UNCHANGED <<locking, sequence_pos, toggle_bits, welding_status, faults>>

FetchNext ==
  /\ Step("FETCH_NEXT_PROGRAM")
  /\ MoveSequence
  /\ at' = "act"
  /\ KeepMachine /\ KeepBattery /\ Elsewhere
  /\ UNCHANGED <<locking, toggle_bits, welding_status, faults>>

Finished ==
  /\ Step("FAILED") \/ Step("PASSED")
  /\ Then("STOP")
  /\ KeepMachine /\ KeepBattery /\ Elsewhere
  /\ UNCHANGED <<locking, sequence_pos, toggle_bits, welding_status, faults>>

Stop ==
  /\ Step("STOP")
  /\ LockMachine
  /\ Then("STOP")
  /\ KeepMachine /\ KeepBattery /\ Elsewhere
  /\ UNCHANGED <<sequence_pos, toggle_bits, welding_status, faults>>

-----------------------------------------------------------------------------
(* ProcessSPS.run: what is done in the state do_one_loop has reached.       *)

(* collect_parameters, a new state machine and a new device.  The DSP or    *)
(* the data base may raise: the process ends.                               *)
CreateBlind ==   \* mutant: the device starts without the machine's bits
  /\ at = "create"
  /\ \/ Fault("dsp") /\ at' = "ended"
        /\ UNCHANGED <<state, sequence_pos, machine_locked, toggle_bits>>
     \/ /\ at' = "step" /\ state' = "START" /\ sequence_pos' = 0
        /\ machine_locked' = FALSE
        /\ toggle_bits' = FALSE
        /\ UNCHANGED faults
  /\ KeepMachine /\ KeepBattery /\ Elsewhere
  /\ UNCHANGED <<coil, welding_status>>

CreateBelieves ==   \* mutant: the state machine starts believing in the lock
  /\ at = "create"
  /\ \/ Fault("dsp") /\ at' = "ended"
        /\ UNCHANGED <<state, sequence_pos, machine_locked, toggle_bits>>
     \/ /\ at' = "step" /\ state' = "START" /\ sequence_pos' = 0
        /\ machine_locked' = TRUE
        /\ toggle_bits' = toggle
        /\ UNCHANGED faults
  /\ KeepMachine /\ KeepBattery /\ Elsewhere
  /\ UNCHANGED <<coil, welding_status>>

Create ==
  /\ at = "create"
  /\ \/ Fault("dsp") /\ at' = "ended"
        /\ UNCHANGED <<state, sequence_pos, machine_locked, toggle_bits>>
     \/ /\ at' = "step" /\ state' = "START" /\ sequence_pos' = 0
        /\ machine_locked' = FALSE
        /\ toggle_bits' = toggle
        /\ UNCHANGED faults
  /\ KeepMachine /\ KeepBattery /\ Elsewhere
  /\ UNCHANGED <<coil, welding_status>>

Acting(S) == at = "act" /\ state \in S

(* Without a battery the machine is locked after every loop. *)
LockIfNoUdi == IF udi = NoUdi THEN LockMachine ELSE UNCHANGED locking

Measurement == [udi |-> udi, pos |-> sequence_pos, verdict |-> welding_status]

(* store_db: a DatabaseError on each of the three tries loses the data.     *)
StoreDb == \/ stored' = Append(stored, Measurement) /\ UNCHANGED faults
           \/ Fault("db") /\ UNCHANGED stored

Reports(v) == sent' = IF udi # NoUdi /\ ~validation
                      THEN Append(sent, [udi |-> udi, verdict |-> v])
                      ELSE sent

Release == /\ q_res' = Append(q_res, "result")
           /\ udi' = NoUdi /\ validation' = FALSE

ActFailed ==
  /\ Acting({"FAILED"})
  /\ LockIfNoUdi
  /\ \/ /\ Reports("failed") /\ StoreDb /\ Release
        /\ at' = "command"
     \/ /\ udi # NoUdi /\ ~validation /\ Fault("dsp")
        /\ at' = "ended"
        /\ UNCHANGED <<stored, sent, q_res, udi, validation>>
  /\ KeepMachine
  /\ UNCHANGED <<state, sequence_pos, welding_status, toggle_bits, queues,
                 window, scans>>

ActPositionPassed ==
  /\ Acting({"POSITION_PASSED"})
  /\ LockIfNoUdi
  /\ StoreDb
  /\ at' = "command"
  /\ KeepMachine /\ KeepBattery
  /\ UNCHANGED <<state, sequence_pos, welding_status, toggle_bits, queues,
                 q_res, window, sent, scans>>

ActPassed ==
  /\ Acting({"PASSED"})
  /\ LockIfNoUdi
  /\ \/ Reports("passed") /\ Release /\ at' = "command" /\ UNCHANGED faults
     \/ /\ udi # NoUdi /\ ~validation /\ Fault("dsp")
        /\ at' = "ended"
        /\ UNCHANGED <<sent, q_res, udi, validation>>
  /\ KeepMachine
  /\ UNCHANGED <<state, sequence_pos, welding_status, toggle_bits, queues,
                 window, stored, scans>>

ActOther ==
  /\ Acting(States \ {"FAILED", "POSITION_PASSED", "PASSED"})
  /\ LockIfNoUdi
  /\ at' = "command"
  /\ KeepMachine /\ KeepBattery /\ Elsewhere
  /\ UNCHANGED <<state, sequence_pos, welding_status, toggle_bits, faults>>

-----------------------------------------------------------------------------
(* The command taken from the queue. *)

NoCommand ==
  /\ at = "command" /\ q_cmd = <<>>
  /\ at' = "step"
  /\ KeepMachine /\ KeepBattery /\ Elsewhere
  /\ UNCHANGED <<state, sequence_pos, welding_status, locking, toggle_bits,
                 faults>>

Taken == at = "command" /\ q_cmd # <<>> /\ q_cmd' = Tail(q_cmd)
TaskDone == unfinished' = unfinished - 1
Ready == state \notin {"START", "INIT"}   \* is_ready_for_commands

Take(k) == Taken /\ Ready /\ Head(q_cmd).kind = k

(* A command that meets a state machine that is not ready is dropped, and   *)
(* the queue is not told.                                                   *)
DropCommand ==
  /\ Taken /\ ~Ready /\ Head(q_cmd).kind # "poison"
  /\ at' = "step"
  /\ KeepMachine /\ KeepBattery
  /\ UNCHANGED <<state, sequence_pos, welding_status, locking, toggle_bits,
                 unfinished, q_res, window, history, scans, faults>>

(* The state machine is closed, which locks the machine, and made anew.     *)
CloseMachine == coil' = TRUE /\ state' = "NONE"

(* A UDI is accepted before the sequence has left its first position.       *)
Accepting == udi = NoUdi \/ sequence_pos = 0

UdiScanned ==
  /\ Take("udi_scanned")
  /\ \/ /\ Accepting
        /\ validation' = FALSE /\ q_res' = Append(q_res, "validation_off")
        /\ \/ udi' = Head(q_cmd).udi /\ UNCHANGED faults
           \/ Fault("mes") /\ udi' = NoUdi
        /\ CloseMachine /\ at' = "create" /\ TaskDone
     \/ /\ Accepting /\ Fault("dsp")
        /\ udi' = Head(q_cmd).udi /\ validation' = FALSE
        /\ q_res' = Append(q_res, "validation_off")
        /\ at' = "ended"
        /\ UNCHANGED <<state, coil, unfinished>>
     \/ /\ ~Accepting
        /\ at' = "step" /\ TaskDone
        /\ UNCHANGED <<udi, validation, state, coil, q_res, faults>>
  /\ KeepMachine
  /\ UNCHANGED <<sequence_pos, machine_locked, toggle_bits, welding_status,
                 window, history, scans>>

MoveCounter ==
  /\ Take("move_counter")
  /\ IF udi # NoUdi THEN MoveSequence ELSE UNCHANGED <<state, sequence_pos>>
  /\ at' = "step" /\ TaskDone
  /\ KeepMachine /\ KeepBattery
  /\ UNCHANGED <<locking, toggle_bits, welding_status, q_res, window, history,
                 scans, faults>>

ValidationWelding ==
  /\ Take("validation_welding")
  /\ validation' = TRUE /\ q_res' = Append(q_res, "validation_on")
  /\ at' = "step" /\ TaskDone
  /\ KeepMachine
  /\ UNCHANGED <<state, sequence_pos, udi, locking, toggle_bits,
                 welding_status, window, history, scans, faults>>

(* The poison pill: the battery is reported as aborted, the machine locked. *)
Poison ==
  /\ Taken /\ Head(q_cmd).kind = "poison"
  /\ at' = "ended"
  /\ \/ /\ sent' = IF udi # NoUdi
                   THEN Append(sent, [udi |-> udi, verdict |-> "aborted"])
                   ELSE sent
        /\ CloseMachine /\ TaskDone /\ UNCHANGED faults
     \/ udi # NoUdi /\ Fault("dsp")
        /\ UNCHANGED <<sent, state, coil, unfinished>>
  /\ KeepMachine /\ KeepBattery
  /\ UNCHANGED <<sequence_pos, machine_locked, toggle_bits, welding_status,
                 q_res, window, stored, scans>>

-----------------------------------------------------------------------------
(* The scanner, the window, the operator and the machine. *)

Put(c) == q_cmd' = Append(q_cmd, c) /\ unfinished' = unfinished + 1

Unseen == toggle # toggle_bits \/ at \in {"result", "lock"}

(* No weld is in progress, unseen, or seen and not yet stored. *)
Quiet ==
  /\ weld = NoWeld /\ ~Unseen
  /\ state # "CHECK_WELDING_RESULT"
  /\ ~(at = "act" /\ state \in {"POSITION_PASSED", "FAILED"})

Scan(u) ==
  /\ ~closing /\ scans < MaxScans
  /\ Quiet \/ "overlap" \in Habits
  /\ Put([kind |-> "udi_scanned", udi |-> u])
  /\ scans' = scans + 1
  /\ KeepMachine
  /\ UNCHANGED <<control, locking, toggle_bits, q_res, window, history, faults>>

(* Bound: a button is pressed only when both queues are empty.              *)
Pressable == "skip" \in Habits /\ ~closing /\ q_cmd = <<>> /\ q_res = <<>>

PressValidation ==
  /\ Pressable /\ skip_button = "hidden"
  /\ Put(Command("validation_welding"))
  /\ KeepMachine
  /\ UNCHANGED <<control, locking, toggle_bits, q_res, window, history, scans,
                 faults>>

PressSkip ==
  /\ Pressable /\ skip_button = "shown"
  /\ Put(Command("move_counter"))
  /\ KeepMachine
  /\ UNCHANGED <<control, locking, toggle_bits, q_res, window, history, scans,
                 faults>>

(* process_command_queue *)
Window ==
  /\ ~closing /\ q_res # <<>>
  /\ q_res' = Tail(q_res)
  /\ skip_button' =
       CASE Head(q_res) = "validation_on"  -> "shown"
         [] Head(q_res) = "validation_off" -> "hidden"
         [] Head(q_res) = "result"         ->
              IF skip_button = "shown" THEN "disabled" ELSE skip_button
  /\ KeepMachine
  /\ UNCHANGED <<control, locking, toggle_bits, queues, closing, history,
                 scans, faults>>

(* The window is closed: the pill is put and q_cmd.join() waits. *)
Close ==
  /\ "close" \in Habits /\ ~closing /\ at # "ended"
  /\ closing' = TRUE
  /\ Put(Command("poison"))
  /\ KeepMachine
  /\ UNCHANGED <<control, locking, toggle_bits, q_res, skip_button, history,
                 scans, faults>>

(* The pedal starts a weld on a machine that is not locked.  The operator   *)
(* waits for a battery's UDI and for the result of the weld before, unless  *)
(* early.                                                                   *)
StartWeld ==
  /\ weld = NoWeld /\ ~coil /\ Len(made) < MaxWelds
  /\ "early" \in Habits \/ (udi # NoUdi /\ ~Unseen /\ q_cmd = <<>>)
  /\ weld' = [udi |-> udi, pos |-> sequence_pos, program |-> program]
  /\ result' = "none"
  /\ UNCHANGED <<toggle, program, made, control, locking, toggle_bits, queues,
                 q_res, window, history, scans, faults>>

EndWeld(v) ==
  /\ weld # NoWeld
  /\ weld' = NoWeld
  /\ toggle' = ~toggle
  /\ result' = v
  /\ \/ v = "ok" /\ UNCHANGED faults
     \/ v = "reject" /\ Fault("reject")
     \/ v = "none" /\ Fault("no_verdict")
  /\ made' = Append(made, [udi |-> weld.udi, pos |-> weld.pos, verdict |-> v])
  /\ UNCHANGED <<program, control, locking, toggle_bits, queues, q_res, window,
                 history, scans>>

-----------------------------------------------------------------------------

Init ==
  /\ state = "NONE" /\ at = "create" /\ sequence_pos = 0
  /\ udi = NoUdi /\ validation = FALSE /\ welding_status = "none"
  /\ machine_locked = FALSE /\ toggle_bits = FALSE
  /\ coil \in BOOLEAN /\ toggle \in BOOLEAN
  /\ result \in Verdicts /\ program \in {0, ProgramAt(0)} /\ weld = NoWeld
  /\ q_cmd = <<>> /\ unfinished = 0 /\ q_res = <<>>
  /\ skip_button = "hidden" /\ closing = FALSE
  /\ made = <<>> /\ stored = <<>> /\ sent = <<>>
  /\ scans = 0 /\ faults = 0

Process ==
  \/ Create
  \/ StartState \/ InitState \/ SetProgram \/ ShowProgram
  \/ SyncUnlock \/ SyncPoll \/ SyncResult \/ SyncLock
  \/ CheckResult \/ PositionPassed \/ FetchNext \/ Finished \/ Stop
  \/ ActFailed \/ ActPositionPassed \/ ActPassed \/ ActOther
  \/ NoCommand \/ DropCommand \/ UdiScanned \/ MoveCounter
  \/ ValidationWelding \/ Poison

WeldEnds == \E v \in Verdicts : EndWeld(v)

Next ==
  \/ Process \/ Window \/ WeldEnds
  \/ \E u \in Udis : Scan(u)
  \/ PressValidation \/ PressSkip \/ Close \/ StartWeld

Spec == Init /\ [][Next]_vars

(* The processes are scheduled and a weld ends. *)
FairSpec == Spec /\ WF_vars(Process) /\ WF_vars(Window) /\ WF_vars(WeldEnds)

-----------------------------------------------------------------------------
(* Properties. *)

Measurements == [udi : Udis \cup {NoUdi}, pos : Positions, verdict : Verdicts]

(* Every variable has its type; in particular the sequence never runs past  *)
(* its last position and only batteries with a UDI are reported.            *)
TypeOK ==
  /\ state \in States
  /\ at \in {"create", "step", "poll", "result", "lock", "act", "command",
            "ended"}
  /\ sequence_pos \in Positions
  /\ machine_locked \in BOOLEAN /\ toggle_bits \in BOOLEAN
  /\ welding_status \in Verdicts
  /\ udi \in Udis \cup {NoUdi} /\ validation \in BOOLEAN
  /\ coil \in BOOLEAN /\ toggle \in BOOLEAN /\ result \in Verdicts
  /\ program \in Nat
  /\ weld \in {NoWeld} \cup [udi : Udis \cup {NoUdi}, pos : Positions,
                            program : Nat]
  /\ q_cmd \in Seq(Commands) /\ unfinished \in Nat
  /\ q_res \in Seq({"validation_on", "validation_off", "result"})
  /\ skip_button \in {"hidden", "shown", "disabled"} /\ closing \in BOOLEAN
  /\ made \in Seq(Measurements) /\ stored \in Seq(Measurements)
  /\ sent \in Seq([udi : Udis, verdict : {"passed", "failed", "aborted"}])
  /\ scans \in Nat /\ faults \in Nat

(* The data base holds the welds that were made, each under its own battery *)
(* and position and with its own verdict, in their order; at most the last  *)
(* one is missing while the station runs.                                   *)
RecordsInOrder ==
  /\ IsPrefix(stored, made)
  /\ at # "ended" => Len(made) <= Len(stored) + 1

(* A battery is reported as passed only when the last welds made were those *)
(* of all its positions, in order, each ok.                                 *)
PassedIsWelded ==
  [][sent' # sent /\ Last(sent').verdict = "passed" =>
       /\ Len(made) >= Len(Program)
       /\ \A p \in Positions :
            made[Len(made) - Len(Program) + 1 + p]
              = [udi |-> udi, pos |-> p, verdict |-> "ok"]]_vars

(* Every weld is made with the program of its position. *)
WeldWithProgram == weld # NoWeld => weld.program = ProgramAt(weld.pos)

(* Once the machine is locked, the pedal is freed again only when the       *)
(* program of the current position is set on the machine, whatever the      *)
(* operator does: the next position is never opened with the last program.  *)
ReleasedForProgram ==
  [][coil /\ ~coil' => program' = ProgramAt(sequence_pos')]_vars

(* Between two loops of a state machine that has done its START, the pedal  *)
(* is locked while no battery is scanned: the belief after which the lock   *)
(* is written or not written never misses it.                               *)
LockedWithoutUdi ==
  udi = NoUdi /\ at \in {"command", "step"} /\ state # "START" => coil

(* The invariants behind these: the queue is told of no command it did not  *)
(* give, the station never believes the machine locked when it is not, the  *)
(* machine is locked from SyncLock on until the weld is stored and          *)
(* SET_PROGRAM_ON_MACHINE reached (an early weld may still begin between    *)
(* SyncPoll and SyncLock), ...                                              *)
QueueInv == unfinished >= Len(q_cmd)
LockInv ==
  /\ machine_locked => coil
  /\ state \in {"CHECK_WELDING_RESULT", "POSITION_PASSED",
                "FETCH_NEXT_PROGRAM", "FAILED"} => coil
  /\ state = "PASSED" /\ (at = "act" \/ udi = NoUdi) => coil
  /\ state \in {"INIT", "SET_PROGRAM_ON_MACHINE", "SHOW_PROGRAM_STEP",
                "SYNC_ON_TOGGLE_BIT", "STOP"}
       /\ udi = NoUdi /\ at \in {"command", "step"} => coil
ProgramSet == state \in {"SHOW_PROGRAM_STEP", "SYNC_ON_TOGGLE_BIT"}
                => program = ProgramAt(sequence_pos)
PlaceInv ==
  /\ at = "create" => state = "NONE"
  /\ at \in {"poll", "result", "lock"} => state = "SYNC_ON_TOGGLE_BIT"
  /\ state = "NONE" => at \in {"create", "ended"}

(* ... and for an operator who waits and does not skip: the pedal is free   *)
(* only while the program of the position is set, or before the first loop. *)
Waits == {"early", "skip"} \cap Habits = {}
NoSkip == \A i \in 1 .. Len(q_cmd) : q_cmd[i].kind # "move_counter"
ProgramInv ==
  /\ ProgramSet
  /\ \/ coil
     \/ state \in {"SHOW_PROGRAM_STEP", "SYNC_ON_TOGGLE_BIT"}
     \/ state \in {"NONE", "START"} /\ udi = NoUdi

(* ... and for one who also scans no battery while a weld is in progress or *)
(* not yet stored, with a data base that takes every record: what is made   *)
(* is stored, but for the weld the station is busy with, whose battery and  *)
(* position are still the station's.                                        *)
Careful == Waits /\ "overlap" \notin Habits /\ "db" \notin Faults

Pending == Unseen \/ state = "CHECK_WELDING_RESULT"
             \/ (at = "act" /\ state \in {"POSITION_PASSED", "FAILED"})
NoScan == \A i \in 1 .. Len(q_cmd) : q_cmd[i].kind # "udi_scanned"

WeldInv ==
  weld # NoWeld =>
    /\ ~Pending /\ NoScan
    /\ state \in {"SHOW_PROGRAM_STEP", "SYNC_ON_TOGGLE_BIT"}
    /\ weld.udi = udi /\ udi # NoUdi /\ weld.pos = sequence_pos

PendingInv ==
  Pending /\ at # "create" =>
    /\ NoScan
    /\ Unseen => state \in {"SHOW_PROGRAM_STEP", "SYNC_ON_TOGGLE_BIT"}
    /\ at \in {"result", "lock"} => toggle = toggle_bits
    /\ made = Append(stored,
                     [udi |-> udi, pos |-> sequence_pos,
                      verdict |-> IF Unseen /\ at # "lock"
                                 THEN result ELSE welding_status])

RecordInv ==
  /\ at # "ended" =>
       /\ WeldInv /\ PendingInv
       /\ ~Pending \/ at = "create" => made = stored
  /\ IsPrefix(stored, made)

(* ... and the last n of them are the first n positions of this battery.    *)
WeldedOk(n) ==
  /\ n <= Len(stored)
  /\ \A p \in 0 .. n - 1 :
       stored[Len(stored) - n + 1 + p]
         = [udi |-> udi, pos |-> p, verdict |-> "ok"]
SequenceInv ==
  at # "ended" =>
    /\ state \in {"START", "INIT", "SET_PROGRAM_ON_MACHINE",
                  "SHOW_PROGRAM_STEP", "SYNC_ON_TOGGLE_BIT",
                  "CHECK_WELDING_RESULT"}
         => WeldedOk(sequence_pos)
    /\ state = "POSITION_PASSED" =>
         IF at = "act"
         THEN WeldedOk(sequence_pos) /\ welding_status = "ok"
         ELSE WeldedOk(sequence_pos + 1)
    /\ state = "FETCH_NEXT_PROGRAM" => WeldedOk(sequence_pos + 1)
    /\ state = "PASSED" /\ at = "act" => WeldedOk(Len(Program))

(* Every weld is stored in the end, unless the window is closed or a DSP    *)
(* error has ended the process.                                             *)
WeldStored ==
  \A n \in 1 .. MaxWelds :
    Len(made) >= n ~> (closing \/ at = "ended" \/ Len(stored) >= n)

-----------------------------------------------------------------------------
(* What the comments of the program say, and the program does not keep.     *)

(* "Wait for SPS process to finish smoothly": q_cmd.join() returns.         *)
ShutdownEnds == closing ~> (closing /\ unfinished = 0)
=============================================================================
