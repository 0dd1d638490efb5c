---------------------------- MODULE StageDriver ----------------------------
(***************************************************************************)
(* The XY stage driver (class XYLinearStage) on top of the stepper motion  *)
(* controller it talks to over a serial line.                              *)
(*                                                                         *)
(* The controller counts the steps it makes since it was powered; it loses *)
(* the count when its power fails.  The driver caches the count of each    *)
(* axis in stage.position and computes every move as a displacement        *)
(* relative to that cache.  A command whose answer is empty or garbled is  *)
(* not repeated: the driver waits until the controller answers again,      *)
(* forgets the cached positions and raises emergency_event_triggered.      *)
(*                                                                         *)
(* Every driver method is a call (call # "idle") that sends one command    *)
(* per axis; a step of this module is one command and its answer.          *)
(***************************************************************************)
EXTENDS Integers

CONSTANTS
  NA,         \* number of axes; X is axis 1, Y is axis 2
  MaxTravel,  \* the end of each axis: max_position, where the limit switch is
  MaxFaults   \* bound: how many faults a behaviour contains

ASSUME DriverAssumption ==
  /\ NA \in Nat \ {0}
  /\ MaxTravel \in Nat \ {0}
  /\ MaxFaults \in Nat

Axes == 1 .. NA
Position == [Axes -> 1 .. MaxTravel]
HomePosition == [a \in Axes |-> 0]

Unknown == -1   \* stage.position = None
Forgotten == [a \in Axes |-> Unknown]

VARIABLES
  power,     \* the controller has power
  phys,      \* where each axis really stands, in steps from its home switch
  counter,   \* the controller's step counter of each axis
  cached,    \* stage.position of each stage
  emergency, \* xy_table.emergency_event_triggered
  call,      \* the driver method in progress, or "idle"
  axis,      \* the axis whose command is next in that call
  goal,      \* the arguments of goto_position
  ok,        \* the result of the last call
  seen,      \* the tuple built by positions_in_mm, Unknown for an omitted axis
  lost,      \* command() waits for the hardware to answer again
  faults     \* number of faults so far

driverVars == <<power, phys, counter, cached, emergency, call, axis, goal,
                ok, seen, lost, faults>>

Calls == {"idle", "home", "goto", "sync", "read", "ping"}

-----------------------------------------------------------------------------
(* The conversion of a target into a motion command. *)

Limited(t) == IF t > MaxTravel THEN MaxTravel ELSE t

CommandKind(pos, t) ==
  CASE Limited(t) <= 0                                            -> "home"
    [] Limited(t) > 0 /\ (pos = Unknown \/ Limited(t) = pos)      -> "skip"
    [] Limited(t) > 0 /\ ~(pos = Unknown \/ Limited(t) = pos)     -> "move"

Kind == IF call = "home" THEN "home" ELSE CommandKind(cached[axis], goal[axis])

(* Where the commanded motion of this axis is to end, and where it does. *)
Aim == IF Kind = "home" THEN 0
       ELSE phys[axis] + (Limited(goal[axis]) - cached[axis])

InTravel(p) == p \in 0 .. MaxTravel

AtLimit(p) == IF p < 0 THEN 0 ELSE IF p > MaxTravel THEN MaxTravel ELSE p

(* The places a motion from p to q passes, where an interruption leaves it. *)
Between(p, q) ==
  {x \in 0 .. MaxTravel : (p <= x /\ x <= q) \/ (q <= x /\ x <= p)}

(* The reply is parsed by collecting its digits: the sign is lost. *)
Digits(n) == IF n < 0 THEN -n ELSE n

-----------------------------------------------------------------------------
(* Calls and their ends. *)

StartCall(c) ==
  /\ call' = c
  /\ axis' = 1
  /\ ok' = TRUE
  /\ seen' = HomePosition

StartHome   == StartCall("home") /\ UNCHANGED goal
StartGoto(t) == StartCall("goto") /\ goal' = t
StartRead   == StartCall("read") /\ UNCHANGED goal
StartPing   == StartCall("ping") /\ UNCHANGED goal

Return(r) ==
  /\ call' = "idle"
  /\ axis' = 1
  /\ ok' = r

(* The command of this axis is answered: go on with the next axis.  After   *)
(* the last move goto_position reads all positions back into the cache.     *)
Advance ==
  \/ /\ axis < NA /\ call # "ping"
     /\ axis' = axis + 1
     /\ UNCHANGED <<call, ok>>
  \/ /\ axis = NA /\ call = "goto"
     /\ call' = "sync" /\ axis' = 1
     /\ UNCHANGED ok
  \/ /\ axis = NA \/ call = "ping"
     /\ call # "goto"
     /\ Return(ok)

(* The command failed: home, goto_position and is_connected return False at *)
(* once; position keeps the old cache and positions_in_mm omits the axis.   *)
Fail ==
  \/ call \in {"home", "goto", "ping"} /\ Return(FALSE)
  \/ call = "sync" /\ Advance
  \/ /\ call = "read"
     /\ ok' = FALSE
     /\ IF axis < NA THEN axis' = axis + 1 /\ UNCHANGED call
                     ELSE axis' = 1 /\ call' = "idle"

Omit == seen' = IF call = "read" THEN [seen EXCEPT ![axis] = Unknown] ELSE seen

(* The axes whose position the last positions_in_mm did not contain. *)
Omitted == {a \in Axes : seen[a] = Unknown}

Moving == call = "home" \/ (call = "goto" /\ Kind # "skip")

(* The axis comes to rest at p, every step counted. *)
Rest(p) ==
  /\ phys' = [phys EXCEPT ![axis] = p]
  /\ counter' = [counter EXCEPT ![axis] = @ + (p - phys[axis])]

Stopped == IF Moving THEN \E p \in Between(phys[axis], AtLimit(Aim)) : Rest(p)
                     ELSE UNCHANGED <<phys, counter>>

Disturb == faults < MaxFaults /\ faults' = faults + 1

-----------------------------------------------------------------------------
(* One command of the call in progress, answered as asked. *)

Ready == call # "idle" /\ ~lost

(* goto_position sends nothing for an axis that is believed to be there, or *)
(* whose position is unknown.                                               *)
SkipAxis ==
  /\ Ready /\ call = "goto" /\ Kind = "skip"
  /\ Advance
  /\ UNCHANGED <<power, phys, counter, cached, emergency, goal, seen, lost,
                 faults>>

HomeAxis ==
  /\ Ready /\ power /\ Moving /\ Kind = "home"
  /\ phys' = [phys EXCEPT ![axis] = 0]
  /\ counter' = [counter EXCEPT ![axis] = 0]
  /\ cached' = IF call = "home" THEN [cached EXCEPT ![axis] = 0] ELSE cached
  /\ Advance
  /\ UNCHANGED <<power, emergency, goal, seen, lost, faults>>

MoveAxis ==
  /\ Ready /\ power /\ Moving /\ Kind = "move"
  /\ InTravel(Aim)
  /\ Rest(Aim)
  /\ Advance
  /\ UNCHANGED <<power, cached, emergency, goal, seen, lost, faults>>

(* ERR5: the limit switch stops the axis before the end of the motion. *)
LimitSwitch ==
  /\ Ready /\ power /\ Moving /\ Kind = "move"
  /\ ~InTravel(Aim)
  /\ Rest(AtLimit(Aim))
  /\ Fail
  /\ UNCHANGED <<power, cached, emergency, goal, seen, lost, faults>>

QueryAxis ==
  /\ Ready /\ power /\ call \in {"sync", "read"}
  /\ cached' = [cached EXCEPT ![axis] = Digits(counter[axis])]
  /\ seen' = IF call = "read"
             THEN [seen EXCEPT ![axis] = Digits(counter[axis])] ELSE seen
  /\ Advance
  /\ UNCHANGED <<power, phys, counter, emergency, goal, lost, faults>>

Ping ==
  /\ Ready /\ power /\ call = "ping"
  /\ Advance
  /\ UNCHANGED <<power, phys, counter, cached, emergency, goal, seen, lost,
                 faults>>

-----------------------------------------------------------------------------
(* One command answered by an error, by garbage or not at all. *)

Commanding == Ready /\ ~(call = "goto" /\ Kind = "skip")

(* ERRn: the controller answers that it did not carry the command out. *)
ErrorReply ==
  /\ Commanding /\ power
  /\ Disturb
  /\ Stopped
  /\ Fail /\ Omit
  /\ UNCHANGED <<power, cached, emergency, goal, lost>>

(* The answer is garbled (empty, or without a number) although the          *)
(* controller has power: stop() and the reopened connection end the         *)
(* command, the positions are forgotten.  (One with a digit and neither OK  *)
(* nor ERR would pass for an answer.)                                       *)
GarbledReply ==
  /\ Commanding /\ power
  /\ Disturb
  /\ Stopped
  /\ cached' = Forgotten
  /\ emergency' = TRUE
  /\ Fail /\ Omit
  /\ UNCHANGED <<power, goal, lost>>

(* The power fails under the command: the axis stops where it is. *)
PowerCut ==
  /\ Commanding /\ power
  /\ Disturb
  /\ Stopped
  /\ power' = FALSE
  /\ lost' = TRUE
  /\ UNCHANGED <<cached, emergency, call, axis, goal, ok, seen>>

(* The command meets a controller that has no power. *)
NoAnswer ==
  /\ Commanding /\ ~power
  /\ lost' = TRUE
  /\ UNCHANGED <<power, phys, counter, cached, emergency, call, axis, goal,
                 ok, seen, faults>>

(* "?R" is answered again: command() reports the loss. *)
Reconnect ==
  /\ lost /\ power
  /\ lost' = FALSE
  /\ emergency' = TRUE
  /\ cached' = Forgotten
  /\ Fail /\ Omit
  /\ UNCHANGED <<power, phys, counter, goal, faults>>

(* The power returns: the controller starts counting from zero. *)
PowerOn ==
  /\ ~power
  /\ power' = TRUE
  /\ counter' = HomePosition
  /\ UNCHANGED <<phys, cached, emergency, call, axis, goal, ok, seen, lost,
                 faults>>

(* The power fails between two calls. *)
IdleCut ==
  /\ call = "idle" /\ power
  /\ Disturb
  /\ power' = FALSE
  /\ UNCHANGED <<phys, counter, cached, emergency, call, axis, goal, ok, seen,
                 lost>>

-----------------------------------------------------------------------------

Answer == SkipAxis \/ HomeAxis \/ MoveAxis \/ LimitSwitch \/ QueryAxis \/ Ping
          \/ NoAnswer \/ Reconnect

DriverInit ==
  /\ power = TRUE
  /\ phys \in [Axes -> 0 .. MaxTravel]
  /\ counter \in {HomePosition, phys}
  /\ cached = Forgotten
  /\ emergency = FALSE
  /\ call = "idle"
  /\ axis = 1
  /\ goal = HomePosition
  /\ ok = TRUE
  /\ seen = HomePosition
  /\ lost = FALSE
  /\ faults = 0

DriverTypeOK ==
  /\ power \in BOOLEAN
  /\ phys \in [Axes -> 0 .. MaxTravel]
  /\ counter \in [Axes -> Int]
  /\ cached \in [Axes -> Nat \cup {Unknown}]
  /\ emergency \in BOOLEAN
  /\ call \in Calls
  /\ axis \in Axes
  /\ goal \in [Axes -> Int]
  /\ ok \in BOOLEAN
  /\ seen \in [Axes -> Nat \cup {Unknown}]
  /\ lost \in BOOLEAN
  /\ faults \in Nat

(* The controller's counter tells where the table stands. *)
Referenced == phys = counter
=============================================================================
