--------------------------- MODULE RecoveryProofs ---------------------------
(***************************************************************************)
(* Proofs about CommandRecovery: however deep the calls nest, the outage   *)
(* is the one lost call that StageDriver takes it for, and no downtime     *)
(* session outlives it.                                                    *)
(***************************************************************************)
EXTENDS CommandRecovery, TLAPS

(* A session is open only while the port is reopened.                       *)
SessionInv == downtime => at = "reopen"

IInv == TypeOK /\ SessionInv

LEMMA InitInv == Init => IInv
<1> SUFFICES ASSUME Init PROVE IInv
  OBVIOUS
<1>1. depth \in 0 .. MaxDepth /\ cuts \in Nat /\ noise \in Nat
  BY RecoveryAssumption DEF Init
<1>2. TypeOK
  BY <1>1, Zenon DEF Init, TypeOK, Places
<1> QED
  BY <1>2 DEF Init, IInv, SessionInv

(* The numbers: depth stays in bounds and is 0 just when the driver is idle. *)
LEMMA DepthStep ==
  ASSUME TypeOK, [Next]_vars
  PROVE  /\ at' \in Places /\ depth' \in 0 .. MaxDepth
         /\ at' = "idle" <=> depth' = 0
         /\ cuts' \in Nat /\ noise' \in Nat
<1> USE RecoveryAssumption DEF TypeOK, Places, bounds
<1>1. CASE Answered \/ Restored
  BY <1>1 DEF Answered, Restored, Leave
<1>2. CASE Silence \/ Garbled
  BY <1>2 DEF Silence, Garbled, CallStop
<1>3. CASE StartDowntime \/ Command \/ Rehome \/ Trip
  BY <1>3 DEF StartDowntime, Command, Rehome, Trip
<1>4. CASE PowerCut \/ PowerOn \/ UNCHANGED vars
  BY <1>4 DEF PowerCut, PowerOn, vars
<1> QED
  BY <1>1, <1>2, <1>3, <1>4 DEF Next, Driver

LEMMA InvStep == IInv /\ [Next]_vars => IInv'
<1> SUFFICES ASSUME IInv, [Next]_vars PROVE IInv'
  OBVIOUS
<1>1. TypeOK /\ SessionInv
  BY DEF IInv
<1>2. powered' \in BOOLEAN /\ downtime' \in BOOLEAN /\ known' \in BOOLEAN
        /\ flag' \in BOOLEAN /\ SessionInv'
  <2>0. powered \in BOOLEAN /\ downtime \in BOOLEAN /\ known \in BOOLEAN
          /\ flag \in BOOLEAN /\ (downtime => at = "reopen")
    BY <1>1, Zenon DEF TypeOK, SessionInv
  <2> USE <2>0 DEF SessionInv, driver
  <2>1. CASE Answered
    BY <2>1, ZenonT(60) DEF Answered
  <2>6. CASE Silence \/ Garbled
    <3>1. at = "request" /\ UNCHANGED <<powered, downtime, known, flag>>
      BY <2>6, ZenonT(60) DEF Silence, Garbled, CallStop
    <3> QED
      BY <3>1, Zenon
  <2>2. CASE StartDowntime \/ Restored
    BY <2>2, ZenonT(60) DEF StartDowntime, Restored
  <2>3. CASE Command
    BY <2>3, ZenonT(60) DEF Command
  <2>7. CASE Rehome
    BY <2>7, ZenonT(60) DEF Rehome
  <2>4. CASE Trip
    BY <2>4, ZenonT(60) DEF Trip
  <2>8. CASE PowerCut
    BY <2>8, ZenonT(60) DEF PowerCut
  <2>9. CASE PowerOn
    BY <2>9, ZenonT(60) DEF PowerOn
  <2>5. CASE UNCHANGED vars
    BY <2>5, ZenonT(60) DEF vars, bounds
  <2> QED
    BY <2>1, <2>2, <2>3, <2>4, <2>5, <2>6, <2>7, <2>8, <2>9 DEF Next, Driver
<1> QED
  BY <1>1, <1>2, DepthStep DEF IInv, TypeOK

LEMMA RecoveryInv == Spec => []IInv
<1> QED
  BY InitInv, InvStep, PTL DEF Spec

(* Every variable keeps its type, and a call that returns leaves none       *)
(* behind, up to Python's recursion limit whatever it is.                   *)
THEOREM RecoveryTyped == Spec => []TypeOK
<1>1. IInv => TypeOK
  BY DEF IInv
<1> QED
  BY <1>1, RecoveryInv, PTL

(* No downtime session is open when the program goes on.                    *)
THEOREM SessionsEnd == Spec => []NoSessionLeft
<1>1. IInv => NoSessionLeft
  BY DEF IInv, SessionInv, NoSessionLeft
<1> QED
  BY <1>1, RecoveryInv, PTL

-----------------------------------------------------------------------------
Asked == at = "request" /\ depth = 1

(* What each step is for the caller.                                        *)
LEMMA CallStep == IInv /\ [Next]_vars => [Call!Next]_(Call!vars)
<1> SUFFICES ASSUME TypeOK, [Next]_vars PROVE [Call!Next]_(Call!vars)
  BY DEF IInv
<1>0. at = "idle" <=> depth = 0
  BY DEF TypeOK
<1> USE <1>0 DEF TypeOK, Call!vars, driver
<1>1. CASE Command
  BY <1>1 DEF Command, Call!Next, Call!Ask
<1>2. CASE Answered
  <2>1. CASE depth = 1
    BY <1>2, <2>1 DEF Answered, Leave, Call!Next, Call!Answer
  <2>2. CASE depth # 1
    BY <1>2, <2>2 DEF Answered, Leave
  <2> QED
    BY <2>1, <2>2
<1>3. CASE Silence \/ Garbled
  <2>1. CallStop /\ at = "request"
    BY <1>3 DEF Silence, Garbled
  <2>2. at' = "crashed" \/ (at' = "request" /\ depth' = depth + 1)
    BY <2>1 DEF CallStop
  <2>3. depth \in Nat /\ depth # 0
    BY <2>1, RecoveryAssumption
  <2>4. ~Asked' /\ at' # "idle"
    BY <2>2, <2>3 DEF Asked
  <2> QED
    BY <2>1, <2>4 DEF Asked, CallStop, Call!Next, Call!Lose
<1>4. CASE StartDowntime
  BY <1>4 DEF StartDowntime
<1>5. CASE Restored
  BY <1>5 DEF Restored, Leave, Call!Next, Call!Forget
<1>6. CASE Rehome
  BY <1>6 DEF Rehome, Call!Next, Call!Rehome
<1>7. CASE Trip
  BY <1>7 DEF Trip, Call!Next, Call!Trip
<1>8. CASE PowerCut \/ PowerOn \/ UNCHANGED vars
  BY <1>8 DEF PowerCut, PowerOn, vars
<1> QED
  BY <1>1, <1>2, <1>3, <1>4, <1>5, <1>6, <1>7, <1>8 DEF Next, Driver

(* For its callers command() with its recursion through stop() is           *)
(* CommandCall: answered, or lost once and then forgotten and flagged.      *)
THEOREM CallImplemented == Spec => CallSpec
<1>1. Init => Call!Init
  BY DEF Init, Call!Init
<1> QED
  BY <1>1, CallStep, RecoveryInv, PTL DEF Spec, CallSpec, Call!Spec
=============================================================================
