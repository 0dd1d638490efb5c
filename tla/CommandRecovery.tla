-------------------------- MODULE CommandRecovery --------------------------
(***************************************************************************)
(* How XYLinearStage.command() gets over an outage of the motion           *)
(* controller.  A request that is not understood, or not answered within   *)
(* 5 s, raises; the handler first calls stop(), which is a command itself  *)
(* and raises in the same way, so the calls nest as long as the controller *)
(* is silent.  When it answers, every call but the innermost goes through  *)
(* the rest of the handler: it opens a downtime session of EventLogger,    *)
(* reopens the port until the controller answers "?R", ends the session,   *)
(* raises the flag and forgets the positions.                              *)
(***************************************************************************)
EXTENDS Integers

CONSTANTS
  MaxDepth,   \* nested calls until Python raises RecursionError
  MaxCuts,    \* bound: power failures
  MaxNoise    \* bound: garbled answers

ASSUME RecoveryAssumption ==
  /\ MaxDepth \in Nat \ {0} /\ MaxCuts \in Nat /\ MaxNoise \in Nat

VARIABLES
  powered,    \* the controller has power
  depth,      \* commands in progress, one inside the other
  at,         \* the place of the innermost
  downtime,   \* downtime_start is not None
  known,      \* the cached positions are valid
  flag,       \* emergency_event_triggered
  cuts, noise \* counters for the bounds

vars == <<powered, depth, at, downtime, known, flag, cuts, noise>>
bounds == <<cuts, noise>>
driver == <<known, flag>>

Places == {"idle", "request", "stopped", "reopen", "crashed"}

Init ==
  /\ powered = TRUE /\ depth = 0 /\ at = "idle" /\ downtime = FALSE
  /\ known = FALSE /\ flag = FALSE /\ cuts = 0 /\ noise = 0

-----------------------------------------------------------------------------
Command ==
  /\ at = "idle"
  /\ at' = "request" /\ depth' = 1
  /\ UNCHANGED <<powered, downtime, driver, bounds>>

LeaveNested ==   \* mutant: the outermost call returns as if nested
  /\ depth' = depth - 1 /\ at' = "stopped"

(* A call ends; the one around it was waiting for its stop().               *)
Leave ==
  /\ depth' = depth - 1
  /\ at' = IF depth = 1 THEN "idle" ELSE "stopped"

Answered ==
  /\ at = "request" /\ powered
  /\ Leave
  /\ UNCHANGED <<powered, downtime, driver, bounds>>

(* The handler calls stop(), which calls command(); too deep, it raises     *)
(* RecursionError, which nobody catches.                                    *)
CallStop ==
  /\ IF depth < MaxDepth THEN depth' = depth + 1 /\ at' = "request"
                         ELSE at' = "crashed" /\ UNCHANGED depth
  /\ UNCHANGED <<powered, downtime, driver>>

Silence == at = "request" /\ ~powered /\ CallStop /\ UNCHANGED bounds

Garbled ==
  /\ at = "request" /\ powered
  /\ noise < MaxNoise /\ noise' = noise + 1
  /\ CallStop
  /\ UNCHANGED cuts

(* start_downtime returns at once if a session is open.                     *)
StartDowntime ==
  /\ at = "stopped"
  /\ downtime' = TRUE
  /\ at' = "reopen"
  /\ UNCHANGED <<powered, depth, driver, bounds>>

RestoredOpen ==   \* mutant: the session is ended by the outermost call only
  /\ at = "reopen" /\ powered
  /\ downtime' = (depth = 1)
  /\ flag' = TRUE /\ known' = FALSE
  /\ Leave
  /\ UNCHANGED <<powered, bounds>>

RestoredRetries ==   \* mutant: the positions are kept, to repeat the command
  /\ at = "reopen" /\ powered
  /\ downtime' = FALSE /\ flag' = TRUE
  /\ Leave
  /\ UNCHANGED <<powered, known, bounds>>

RestoredOutermost ==   \* mutant: nested calls leave the port to the outermost
  /\ at = "reopen" /\ powered /\ depth = 1
  /\ downtime' = FALSE /\ flag' = TRUE /\ known' = FALSE
  /\ Leave
  /\ UNCHANGED <<powered, bounds>>

(* "?R" is answered OK.                                                     *)
Restored ==
  /\ at = "reopen" /\ powered
  /\ downtime' = FALSE
  /\ flag' = TRUE /\ known' = FALSE
  /\ Leave
  /\ UNCHANGED <<powered, bounds>>

(* The program homes the table and goes on; a monitor sees a trip.          *)
Rehome ==
  /\ at = "idle"
  /\ known' = TRUE /\ flag' = FALSE
  /\ UNCHANGED <<powered, depth, at, downtime, bounds>>

Trip == flag' = TRUE /\ UNCHANGED <<powered, depth, at, downtime, known, bounds>>

PowerCut ==
  /\ powered /\ powered' = FALSE
  /\ cuts < MaxCuts /\ cuts' = cuts + 1
  /\ UNCHANGED <<depth, at, downtime, driver, noise>>

PowerOn ==
  /\ ~powered /\ powered' = TRUE
  /\ UNCHANGED <<depth, at, downtime, driver, bounds>>

Driver == Answered \/ Silence \/ Garbled \/ StartDowntime \/ Restored
Next == Driver \/ Command \/ Rehome \/ Trip \/ PowerCut \/ PowerOn

Spec == Init /\ [][Next]_vars

(* A request ends by an answer or its timeout; the power comes back.        *)
FairSpec == Spec /\ WF_vars(Driver) /\ WF_vars(PowerOn)

-----------------------------------------------------------------------------
(* Types; the calls nest no deeper than the bound, and no call is left      *)
(* behind.                                                                  *)
TypeOK ==
  /\ powered \in BOOLEAN /\ downtime \in BOOLEAN
  /\ known \in BOOLEAN /\ flag \in BOOLEAN
  /\ at \in Places /\ depth \in 0 .. MaxDepth
  /\ at = "idle" <=> depth = 0
  /\ cuts \in Nat /\ noise \in Nat

(* However deep the calls nested and however often the power failed again   *)
(* on the way back, no downtime session is open when the program goes on:   *)
(* the next outage gets a session of its own.                               *)
NoSessionLeft == at = "idle" => ~downtime

(* For its callers the recursion is the one lost call of CommandCall.       *)
Call == INSTANCE CommandCall WITH
          call <- IF at = "idle" THEN "idle"
                  ELSE IF at = "request" /\ depth = 1 THEN "asked" ELSE "lost"
CallSpec == Call!Spec

(* A command returns when the controller answers again, unless the outage   *)
(* lasted for the recursion limit.                                          *)
CommandReturns == (at # "idle") ~> (at \in {"idle", "crashed"})
=============================================================================
