---------------------------- MODULE CommandCall ----------------------------
(***************************************************************************)
(* What XYLinearStage.command() promises its callers, and what StageDriver *)
(* takes it for: a call is answered, or it is lost; a lost call ends only  *)
(* when the controller answers again, and by then the driver has forgotten *)
(* its positions and raised emergency_event_triggered.                     *)
(***************************************************************************)
VARIABLES
  call,    \* "idle", "asked" or "lost"
  known,   \* the cached positions are valid
  flag     \* emergency_event_triggered

vars == <<call, known, flag>>

Init == call = "idle" /\ known = FALSE /\ flag = FALSE

Ask    == call = "idle" /\ call' = "asked" /\ UNCHANGED <<known, flag>>
Answer == call = "asked" /\ call' = "idle" /\ UNCHANGED <<known, flag>>
Lose   == call = "asked" /\ call' = "lost" /\ UNCHANGED <<known, flag>>

Forget ==
  /\ call = "lost" /\ call' \in {"lost", "idle"}
  /\ known' = FALSE /\ flag' = TRUE

(* Between calls the program homes and resets the flag; a safety monitor    *)
(* raises it at any time.                                                   *)
Rehome == call = "idle" /\ known' = TRUE /\ flag' = FALSE /\ UNCHANGED call
Trip   == flag' = TRUE /\ UNCHANGED <<call, known>>

Next == Ask \/ Answer \/ Lose \/ Forget \/ Rehome \/ Trip

Spec == Init /\ [][Next]_vars
=============================================================================
