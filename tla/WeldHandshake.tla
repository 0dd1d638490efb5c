--------------------------- MODULE WeldHandshake ---------------------------
(***************************************************************************)
(* The weld handshake of the automated table: FULL_AUTOMATION fires the    *)
(* head over a digital output of the ADAM module, waits for the stepping   *)
(* contact, and then polls the AWS3 machine over Modbus for the verdict.   *)
(* TableMachine has one verdict per weld; here is how the program comes by *)
(* it.                                                                     *)
(*                                                                         *)
(* The machine answers with levels (ready, ok, reject) and with one toggle *)
(* bit per axis that flips when the axis has new data.  Nothing in an      *)
(* answer says which weld it belongs to.                                   *)
(***************************************************************************)
EXTENDS Integers, FiniteSetsExt

CONSTANTS
  Faults,      \* what may go wrong: subset of FaultKinds
  MaxFaults    \* bound: how often in all

(* "output": a write of DO6 fails; "power": the machine loses its power.    *)
FaultKinds == {"output", "power"}

ASSUME HandshakeAssumption == Faults \subseteq FaultKinds /\ MaxFaults \in Nat

WeldAxes == {1, 2}
Levels   == {"ok", "reject", "neither"}
Outcomes == Levels \cup {"pending"}
Places   == {"check", "on", "contact", "release", "give_up", "poll",
             "toggle", "away"}

VARIABLES
  at,           \* the place in FULL_AUTOMATION, "away" in the other states
  waiting,      \* welder.waiting_for_result
  toggle_bits,  \* welder._toggle_bits: axes whose bit was set when last seen
  seen,         \* _ready and weld_result, as just read
  verdict,      \* weld_test_result of this firing, "pending" if none
  start,        \* DO6
  powered,      \* the machine has power
  ready, level, \* its level bits
  toggle,       \* its toggle bits
  owed,         \* axes whose bit will still flip for the last weld
  job,          \* its head: "idle", "down", or "weld" (stepping contact, DI7)
  own,          \* history: the last firing began a weld
  outcome,      \* history: how the weld of the last firing ended
  lost,         \* history: the machine lost its power since the last firing
  faults        \* counter for the bound

program == <<at, waiting, toggle_bits, seen, verdict>>
machine == <<powered, ready, level, toggle, owed, job>>
history == <<own, outcome, lost>>
vars == <<program, start, machine, history, faults>>

Fault(f) == f \in Faults /\ faults < MaxFaults /\ faults' = faults + 1

Init ==
  /\ at = "away" /\ waiting = FALSE
  /\ toggle \in SUBSET WeldAxes /\ toggle_bits = toggle
  /\ seen = [ready |-> FALSE, level |-> "neither"]
  /\ verdict = "pending" /\ start = FALSE
  /\ powered = TRUE /\ ready = TRUE /\ level = "neither"
  /\ owed = {} /\ job = "idle"
  /\ own = FALSE /\ outcome = "pending" /\ lost = FALSE
  /\ faults = 0

-----------------------------------------------------------------------------
(* The program.  Its Modbus reads are repeated until the machine answers,   *)
(* so a read is a step that is possible while the machine has power.        *)

(* The next point is reached, or this one again after a recovery.           *)
Arrive ==
  /\ at = "away"
  /\ at' = "check"
  /\ UNCHANGED <<waiting, toggle_bits, seen, verdict, start, machine, history,
                 faults>>

CheckBlind ==   \* mutant: fires without asking whether the machine is ready
  /\ at = "check" /\ ~waiting /\ powered
  /\ at' = "on"
  /\ UNCHANGED <<waiting, toggle_bits, seen, verdict, start, machine, history,
                 faults>>

(* Phase 1: wait for the machine to be ready.                               *)
Check ==
  /\ at = "check" /\ ~waiting /\ powered
  /\ at' = IF ready THEN "on" ELSE "check"
  /\ UNCHANGED <<waiting, toggle_bits, seen, verdict, start, machine, history,
                 faults>>

(* trigger_welding_start swallows every exception: the output has changed,  *)
(* or it has not, and the caller cannot tell.                               *)
WriteStart(v) ==
  \/ start' = v /\ UNCHANGED faults
  \/ Fault("output") /\ UNCHANGED start

(* The machine starts a weld when START rises while it is ready, and takes  *)
(* back the verdict of the last one.                                        *)
Rises == ~start /\ start' /\ ready

Fire ==
  /\ at = "on"
  /\ WriteStart(TRUE)
  /\ IF Rises
       THEN job' = "down" /\ ready' = FALSE /\ level' = "neither"
       ELSE UNCHANGED <<job, ready, level>>
  /\ own' = Rises
  /\ outcome' = "pending" /\ verdict' = "pending" /\ lost' = FALSE
  /\ at' = "contact"
  /\ UNCHANGED <<waiting, toggle_bits, seen, powered, toggle, owed>>

(* One of the 50 looks at DI7 shows the contact, or none does.              *)
Contact ==
  /\ at = "contact"
  /\ IF job = "weld" THEN at' = "release" ELSE at' \in {"contact", "give_up"}
  /\ UNCHANGED <<waiting, toggle_bits, seen, verdict, start, machine, history,
                 faults>>

ReleaseStart ==
  /\ at = "release"
  /\ WriteStart(FALSE)
  /\ waiting' = TRUE
  /\ at' = "poll"
  /\ UNCHANGED <<toggle_bits, seen, verdict, machine, history>>

GiveUpWaits ==   \* mutant: the wait for a result is not called off
  /\ at = "give_up"
  /\ WriteStart(FALSE)
  /\ waiting' = TRUE
  /\ at' = "away"
  /\ UNCHANGED <<toggle_bits, seen, verdict, machine, history>>

GiveUp ==
  /\ at = "give_up"
  /\ WriteStart(FALSE)
  /\ waiting' = FALSE
  /\ at' = "away"
  /\ UNCHANGED <<toggle_bits, seen, verdict, machine, history>>

(* Phase 2: two reads, and the machine goes on in between.                  *)
Poll ==
  /\ at = "poll" /\ waiting /\ powered
  /\ seen' = [ready |-> ready, level |-> level]
  /\ at' = "toggle"
  /\ UNCHANGED <<waiting, toggle_bits, verdict, start, machine, history,
                 faults>>

(* is_toggle_bit_changed: both bits differ from those kept; only then are   *)
(* the new ones kept.                                                       *)
Changed == SymDiff(toggle, toggle_bits) = WeldAxes
SeeToggle == toggle_bits' = IF Changed THEN toggle ELSE toggle_bits

Conclude(finished) ==
  /\ at = "toggle" /\ powered
  /\ SeeToggle
  /\ waiting' = ~finished
  /\ verdict' = IF finished /\ seen.level # "neither" THEN seen.level
                                                      ELSE verdict
  /\ at' = IF ~finished THEN "poll"
           ELSE IF seen.level = "neither" THEN "check" ELSE "away"
  /\ UNCHANGED <<seen, start, machine, history, faults>>

ToggleAlone ==   \* mutant: the bits alone end the weld, the machine unasked
  Conclude(Changed \/ seen.level # "neither")

LevelIgnored ==   \* mutant: the weld ends only by ready and the bits
  Conclude(seen.ready /\ Changed)

(* ready and flipped, or a verdict: done.  Done without a verdict leaves    *)
(* the state as it is, and the same point is fired again.                   *)
Toggle == Conclude((seen.ready /\ Changed) \/ seen.level # "neither")

Program == \/ Arrive \/ Check \/ Fire \/ Contact \/ ReleaseStart \/ GiveUp
           \/ Poll \/ Toggle

-----------------------------------------------------------------------------
(* The AWS3 machine.  Assumed of it: START is seen by its rising edge;      *)
(* START taken back before the contact stops the weld; ready comes after    *)
(* the verdict; the toggle bits flip in any order, at any time until the    *)
(* next weld ends.                                                          *)
Touch ==
  /\ job = "down"
  /\ job' = "weld"
  /\ UNCHANGED <<program, start, powered, ready, level, toggle, owed, history,
                 faults>>

Cancel ==
  /\ job = "down" /\ ~start
  /\ job' = "idle"
  /\ UNCHANGED <<program, start, powered, ready, level, toggle, owed, history,
                 faults>>

WeldEnd ==
  /\ job = "weld" /\ owed = {}
  /\ job' = "idle"
  /\ level' \in Levels
  /\ owed' = WeldAxes
  /\ outcome' = IF own THEN level' ELSE outcome
  /\ UNCHANGED <<program, start, powered, ready, toggle, own, lost, faults>>

BecomeReady ==
  /\ powered /\ job = "idle" /\ ~ready
  /\ ready' = TRUE
  /\ UNCHANGED <<program, start, powered, level, toggle, owed, job, history,
                 faults>>

Flip(a) ==
  /\ a \in owed
  /\ owed' = owed \ {a}
  /\ toggle' = SymDiff(toggle, {a})
  /\ UNCHANGED <<program, start, powered, ready, level, job, history, faults>>

(* The weld in progress is lost; whether the toggle bits survive is not     *)
(* known.                                                                   *)
PowerCut ==
  /\ powered /\ Fault("power")
  /\ powered' = FALSE /\ ready' = FALSE /\ level' = "neither"
  /\ job' = "idle" /\ owed' = {} /\ toggle' \in {toggle, {}}
  /\ lost' = TRUE
  /\ UNCHANGED <<program, start, own, outcome>>

PowerOn ==
  /\ ~powered /\ powered' = TRUE
  /\ UNCHANGED <<program, start, ready, level, toggle, owed, job, history,
                 faults>>

MachineWorks == \/ Touch \/ Cancel \/ WeldEnd \/ BecomeReady
                \/ \E a \in WeldAxes : Flip(a)

Next == Program \/ MachineWorks \/ PowerCut \/ PowerOn

(* The program's loop runs on, the machine finishes what it began, and its  *)
(* power comes back.                                                        *)
Spec == Init /\ [][Next]_vars
FairSpec == /\ Spec /\ WF_vars(Program) /\ WF_vars(PowerOn)
            /\ WF_vars(Cancel) /\ WF_vars(WeldEnd) /\ WF_vars(BecomeReady)
            /\ \A a \in WeldAxes : WF_vars(Flip(a))

-----------------------------------------------------------------------------
(* Types, and that the program waits for a result in phase 2 only.          *)
TypeOK ==
  /\ at \in Places
  /\ waiting \in BOOLEAN /\ (waiting <=> at \in {"poll", "toggle"})
  /\ toggle_bits \subseteq WeldAxes
  /\ seen \in [ready : BOOLEAN, level : Levels]
  /\ verdict \in Outcomes \ {"neither"}
  /\ start \in BOOLEAN /\ powered \in BOOLEAN /\ ready \in BOOLEAN
  /\ level \in Levels /\ toggle \subseteq WeldAxes /\ owed \subseteq WeldAxes
  /\ job \in {"idle", "down", "weld"}
  /\ own \in BOOLEAN /\ outcome \in Outcomes /\ lost \in BOOLEAN
  /\ faults \in Nat

(* A verdict the program acts on is the verdict of the weld it fired last,  *)
(* not of an earlier one whose levels were still up, and not of one that    *)
(* began late, after the program had given it up.                           *)
OwnVerdict == verdict # "pending" => verdict = outcome

(* The program fires the same point again at once only when the machine     *)
(* really ended its weld without a verdict, or lost it with its power: a    *)
(* toggle bit that flips late, in the next weld's time, does not do it.     *)
RepeatsUndecided ==
  [][at = "toggle" /\ at' = "check" => outcome = "neither" \/ lost]_vars

(* A verdict the machine shows is taken, unless its power goes first:       *)
(* toggle bits seen too early or too late do not keep the program waiting.  *)
VerdictTaken ==
  (waiting /\ level # "neither") ~> (~waiting \/ lost)
=============================================================================
