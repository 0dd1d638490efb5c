-------------------------- MODULE HandshakeProofs --------------------------
(***************************************************************************)
(* Proofs about WeldHandshake: the verdict the program acts on is that of  *)
(* the weld it fired, for any number of failed outputs and power failures. *)
(***************************************************************************)
EXTENDS WeldHandshake, TLAPS

Phase2 == {"release", "poll", "toggle"}

(* The head is idle when the program fires it, and stays so if START did    *)
(* not rise; in phase 2 the stepping contact was seen.                      *)
HeadInv ==
  /\ ready => job = "idle"
  /\ at = "on" => job = "idle"
  /\ at = "contact" => (own /\ start) \/ job = "idle"
  /\ at \in Phase2 => own /\ job # "down"

(* A weld of the last firing that goes on has no outcome yet.  From the     *)
(* firing on, the machine shows that outcome or nothing.                    *)
LevelInv ==
  /\ own /\ job # "idle" => outcome = "pending"
  /\ (at = "contact" /\ own) \/ at \in Phase2 =>
       IF lost \/ job # "idle" THEN level = "neither" ELSE level = outcome
  /\ lost /\ at \in Phase2 \cup {"contact"} => job = "idle"

(* What phase 2 has read is still so when it is acted upon.                 *)
SeenInv ==
  at = "toggle" =>
    /\ seen.level # "neither" => seen.level = outcome
    /\ seen.ready /\ seen.level = "neither" => outcome = "neither" \/ lost

IInv == TypeOK /\ HeadInv /\ LevelInv /\ SeenInv /\ OwnVerdict

-----------------------------------------------------------------------------
(* The types hold initially and are kept by every step.                     *)
LEMMA InitInv == Init => IInv
<1> SUFFICES ASSUME Init PROVE IInv
  OBVIOUS
<1>1. faults \in Nat
  BY DEF Init
<1>2. TypeOK
  BY <1>1, ZenonT(60) DEF Init, TypeOK, Places, Levels, Outcomes
<1>3. HeadInv /\ LevelInv /\ SeenInv /\ OwnVerdict
  BY Zenon DEF Init, HeadInv, LevelInv, SeenInv, OwnVerdict, Phase2
<1> QED
  BY <1>2, <1>3 DEF IInv

LEMMA FaultStep == ASSUME faults \in Nat, NEW f, Fault(f) PROVE faults' \in Nat
  BY DEF Fault

LEMMA TypeStep == TypeOK /\ [Next]_vars => TypeOK'
<1> SUFFICES ASSUME TypeOK, [Next]_vars PROVE TypeOK'
  OBVIOUS
<1> USE DEF TypeOK, Places, Levels, Outcomes
<1>1. CASE Program
  <2>1. CASE Arrive \/ Check \/ Contact \/ Poll
    BY <2>1 DEF Arrive, Check, Contact, Poll, machine, history
  <2>2. ASSUME NEW v \in BOOLEAN, WriteStart(v)
        PROVE  start' \in BOOLEAN /\ faults' \in Nat
    BY <2>2, FaultStep, Zenon DEF WriteStart
  <2>3. CASE Fire
    <3>1. WriteStart(TRUE) /\ Rises \in BOOLEAN
      BY <2>3, Zenon DEF Fire, Rises
    <3> QED
      BY <2>2, <2>3, <3>1, ZenonT(60) DEF Fire
  <2>4. CASE ReleaseStart
    <3>1. start' \in BOOLEAN /\ faults' \in Nat
      BY <2>2, <2>4, Zenon DEF ReleaseStart
    <3> QED
      BY <2>4, <3>1, ZenonT(60) DEF ReleaseStart, machine, history
  <2>5. CASE GiveUp
    <3>1. start' \in BOOLEAN /\ faults' \in Nat
      BY <2>2, <2>5, Zenon DEF GiveUp
    <3> QED
      BY <2>5, <3>1, ZenonT(60) DEF GiveUp, machine, history
  <2>6. CASE Toggle
    BY <2>6 DEF Toggle, Conclude, SeeToggle, machine, history
  <2> QED
    BY <1>1, <2>1, <2>3, <2>4, <2>5, <2>6 DEF Program
<1>2. CASE MachineWorks
  <2>1. CASE Touch \/ Cancel
    BY <2>1 DEF Touch, Cancel, program, history
  <2>2. CASE BecomeReady
    BY <2>2, ZenonT(60) DEF BecomeReady, program, history
  <2>3. CASE WeldEnd
    BY <2>3, ZenonT(60) DEF WeldEnd, program
  <2>4. ASSUME NEW a \in WeldAxes, Flip(a) PROVE TypeOK'
    BY <2>4 DEF Flip, SymDiff, program, history
  <2> QED
    BY <1>2, <2>1, <2>2, <2>3, <2>4 DEF MachineWorks
<1>3. CASE PowerCut
  <2>1. faults' \in Nat
    BY <1>3, FaultStep, Zenon DEF PowerCut
  <2> QED
    BY <1>3, <2>1, ZenonT(60) DEF PowerCut, program
<1>4. CASE PowerOn
  BY <1>4, SMTT(60) DEF PowerOn, program, history
<1>5. CASE UNCHANGED vars
  BY <1>5 DEF vars, program, machine, history
<1> QED
  BY <1>1, <1>2, <1>3, <1>4, <1>5 DEF Next

-----------------------------------------------------------------------------
LEMMA InvStep == IInv /\ [Next]_vars => IInv'
<1> SUFFICES ASSUME IInv, [Next]_vars PROVE IInv'
  OBVIOUS
<1>0. TypeOK'
  BY TypeStep DEF IInv
<1> SUFFICES (HeadInv /\ LevelInv /\ SeenInv /\ OwnVerdict)'
  BY <1>0 DEF IInv
<1> USE <1>0 DEF IInv, TypeOK, HeadInv, LevelInv, SeenInv, OwnVerdict, Places,
                 Levels, Outcomes, Phase2
<1>1. CASE Program
  <2>1. CASE Arrive \/ Check
    BY <2>1 DEF Arrive, Check, machine, history
  <2>2. CASE Fire
    BY <2>2 DEF Fire, Rises
  <2>3. CASE Contact
    BY <2>3 DEF Contact, machine, history
  <2>4. CASE ReleaseStart \/ GiveUp
    BY <2>4 DEF ReleaseStart, GiveUp, machine, history
  <2>5. CASE Poll
    BY <2>5 DEF Poll, machine, history
  <2>6. CASE Toggle
    BY <2>6 DEF Toggle, Conclude, machine, history
  <2> QED
    BY <1>1, <2>1, <2>2, <2>3, <2>4, <2>5, <2>6 DEF Program
<1>2. CASE MachineWorks
  <2>1. CASE Touch \/ Cancel
    BY <2>1 DEF Touch, Cancel, program, history
  <2>2. CASE WeldEnd
    BY <2>2 DEF WeldEnd, program
  <2>3. CASE BecomeReady
    BY <2>3 DEF BecomeReady, program, history
  <2>4. ASSUME NEW a \in WeldAxes, Flip(a)
        PROVE  (HeadInv /\ LevelInv /\ SeenInv /\ OwnVerdict)'
    BY <2>4 DEF Flip, program, history
  <2> QED
    BY <1>2, <2>1, <2>2, <2>3, <2>4 DEF MachineWorks
<1>3. CASE PowerCut \/ PowerOn
  BY <1>3 DEF PowerCut, PowerOn, program, history
<1>4. CASE UNCHANGED vars
  BY <1>4 DEF vars, program, machine, history
<1> QED
  BY <1>1, <1>2, <1>3, <1>4 DEF Next

LEMMA HandshakeInv == Spec => []IInv
<1> QED
  BY InitInv, InvStep, PTL DEF Spec

(* Every variable of the handshake keeps its type, and the program waits    *)
(* for a result in phase 2 only.                                            *)
THEOREM HandshakeTyped == Spec => []TypeOK
<1>1. IInv => TypeOK
  BY DEF IInv
<1> QED
  BY <1>1, HandshakeInv, PTL

(* The verdict the program acts on is always the verdict of the weld it     *)
(* fired last.                                                              *)
THEOREM VerdictIsOwn == Spec => []OwnVerdict
<1>1. IInv => OwnVerdict
  BY DEF IInv
<1> QED
  BY <1>1, HandshakeInv, PTL

(* A point is fired again at once only if its weld ended without a verdict  *)
(* or was lost with the machine's power.                                    *)
THEOREM RepeatsOnlyUndecided == Spec => RepeatsUndecided
<1>1. IInv /\ [Next]_vars =>
        [at = "toggle" /\ at' = "check" => outcome = "neither" \/ lost]_vars
  <2> SUFFICES ASSUME IInv, Next, at = "toggle", at' = "check"
               PROVE  outcome = "neither" \/ lost
    OBVIOUS
  <2>1. ~(at = at')
    BY Zenon
  <2>2. Toggle
    BY <2>1 DEF Next, Program, MachineWorks, Arrive, Check, Fire, Contact,
       ReleaseStart, GiveUp, Poll, PowerCut, PowerOn, Touch, Cancel, WeldEnd,
       BecomeReady, Flip, program
  <2> QED
    BY <2>2 DEF Toggle, Conclude, IInv, SeenInv, TypeOK, Levels
<1> QED
  BY <1>1, HandshakeInv, PTL DEF Spec, RepeatsUndecided
=============================================================================
