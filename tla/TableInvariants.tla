-------------------------- MODULE TableInvariants ---------------------------
(***************************************************************************)
(* The inductive invariants behind the safety properties of TableMachine.  *)
(***************************************************************************)
EXTENDS TableMachine

(* Which machine state each place inside a call belongs to. *)
PlaceOf ==
  /\ at \in {"boot", "boot_home", "homing_ping", "homing_read",
             "homing_button", "homing_home"} => state = "HOMING"
  /\ at \in {"start_ping", "start_read", "start_button"} => state = "START"
  /\ at \in {"next_print", "next_ping"} => state = "MOVE_NEXT_COMMAND"
  /\ at \in {"weld_ping", "move_ping", "move_check", "sticky_log",
             "move_clear", "move_goto", "move_verify"}
       => state = "PROCESS_COMMAND"
  /\ at = "stepping_contact" => state = "FULL_AUTOMATION"
  /\ at = "unload_goto" => state = "ERROR_WELD"
  /\ at \in {"authorization", "restart_button", "emergency_home",
             "emergency_goto", "emergency_verify"}
       => state = "EMERGENCY_HANDLING"
  /\ at \in {"grind_goto", "return_goto", "return_verify"}
       => state = "GRINDING"

OnEntry(op) == table_index \in Indexes /\ Entry(table_index).op = op

(* Before the first entry, or on a command that MOVE_NEXT_COMMAND leaves. *)
BetweenMoves ==
  table_index = -1 \/ (table_index \in Indexes /\ Entry(table_index).op # "MOVE")

IndexOf ==
  /\ state = "HOMING" => table_index = -1
  /\ state \in {"START", "MOVE_NEXT_COMMAND"} => BetweenMoves
  /\ state = "START" => ~OnEntry("WELD")
  /\ state = "PROCESS_COMMAND" => table_index \in 0 .. Len(Table)
  /\ at = "weld_ping" => OnEntry("WELD")
  /\ at \in {"move_ping", "move_check", "sticky_log", "move_clear",
             "move_goto", "move_verify"} => OnEntry("MOVE")
  /\ state \in {"FULL_AUTOMATION", "ERROR_WELD"} => OnEntry("WELD")
  /\ state = "GRINDING" => OnEntry("MOVE")

(* The recovery context names the entry the recovery resumes at. *)
ToMove == context.ret = "PROCESS_COMMAND" /\ context.advance
            /\ OnEntry("MOVE") /\ context.target = MoveTarget
ToWeld == context.ret = "PROCESS_COMMAND" /\ ~context.advance
            /\ OnEntry("WELD") /\ context.target = WeldTarget
ToInit == context.ret = "INIT" /\ ~context.advance

ContextOf ==
  /\ at \in {"move_check", "sticky_log", "move_clear", "move_goto",
             "move_verify"} => ToMove
  /\ state = "FULL_AUTOMATION" => ToWeld
  /\ at \in {"homing_home", "unload_goto"} => ToInit
  /\ state = "EMERGENCY_HANDLING" /\ at # "crashed"
       => ToMove \/ ToWeld \/ ToInit
  /\ state = "GRINDING" /\ at # "crashed" => ToMove

(* A result that is waited for belongs to the entry being welded. *)
WeldOf ==
  /\ at = "stepping_contact" => ~waiting
  /\ waiting => state = "FULL_AUTOMATION"

(* The OK results are those of the WELD entries before table_index; when    *)
(* MOVE_NEXT_COMMAND is to leave a WELD entry, of that entry too.           *)
Passed(i) == i < table_index \/ (state = "MOVE_NEXT_COMMAND" /\ i = table_index)

WeldedOf == \A i \in Indexes : (IsWeld(i) /\ Passed(i)) <=> i \in welded

(* A weld that was made is the last of the entry: the machine is waited for *)
(* or has answered, and the table goes on or the battery is given up.       *)
Settled ==
  \/ state \in {"MOVE_NEXT_COMMAND", "ERROR_WELD", "INIT"}
  \/ state = "EMERGENCY_HANDLING" /\ context.ret = "INIT"

StruckOf ==
  \A i \in struck :
    i < table_index \/ (i = table_index /\ (waiting \/ Settled))

ControlInv == PlaceOf /\ IndexOf /\ ContextOf /\ WeldOf

-----------------------------------------------------------------------------
(* The reference of the table: what lets the controller's counter tell the  *)
(* truth wherever the program trusts it.  It holds in the environment the   *)
(* recovery is made for: homing is undisturbed, power fails under commands  *)
(* only in the states that send the flag to EMERGENCY_HANDLING and, while   *)
(* the program waits, only in that state.  With sticky electrodes it does   *)
(* not fail in PROCESS_COMMAND, which drops the answer of the read it logs  *)
(* (sticky_log) and goes on to the move.                                    *)

CutHandled == {"MOVE_NEXT_COMMAND", "PROCESS_COMMAND", "ERROR_WELD",
               "EMERGENCY_HANDLING"}

Tolerated ==
  /\ \A s \in States : <<"cut", s>> \in Exposed => s \in CutHandled
  /\ "sticky" \in Faults => <<"cut", "PROCESS_COMMAND">> \notin Exposed
  /\ \A s \in States : <<"idle_cut", s>> \in Exposed =>
        s = "EMERGENCY_HANDLING"
  /\ <<"error", "HOMING">> \notin Exposed
  /\ <<"garbled", "HOMING">> \notin Exposed

HomeCalls == {"boot_home", "homing_home", "emergency_home"}
GotoCalls == {"move_goto", "unload_goto", "emergency_goto", "grind_goto",
              "return_goto"}
ReadCalls == {"homing_read", "start_read", "sticky_log", "move_verify",
              "emergency_verify", "return_verify"}
PingCalls == {"homing_ping", "start_ping", "next_print", "next_ping",
              "weld_ping", "move_ping"}

(* Which driver method each place waits for. *)
CallOf ==
  /\ call = "home" => at \in HomeCalls
  /\ call \in {"goto", "sync"} => at \in GotoCalls
  /\ call = "read" => at \in ReadCalls
  /\ call = "ping" => at \in PingCalls
  /\ lost => call # "idle"

Good == power /\ Referenced
Flagged == emergency \/ lost

(* Power is missing between calls only where the recovery begins or waits. *)
PowerOf ==
  ~power /\ call = "idle" =>
    state = "EMERGENCY_HANDLING" /\ at \in {"loop", "authorization",
                                            "restart_button"}

(* The places that rely on the reference without looking at the flag ... *)
Strict ==
  \/ at = "loop" /\ state \in {"HOMING", "INIT", "START", "FULL_AUTOMATION",
                               "ERROR_WELD", "GRINDING"}
  \/ at = "loop" /\ state = "PROCESS_COMMAND"
       /\ table_index \in Indexes /\ Entry(table_index).op # "MOVE"
  \/ at \in {"homing_ping", "homing_read", "start_ping", "start_read",
             "start_button", "sticky_log", "move_clear", "stepping_contact",
             "grind_goto", "return_goto", "return_verify"}

(* ... those where a lost reference is flagged ... *)
Warned ==
  \/ at = "loop" /\ state = "MOVE_NEXT_COMMAND"
  \/ at = "loop" /\ state = "PROCESS_COMMAND" /\ OnEntry("MOVE")
  \/ at \in {"next_print", "next_ping", "move_ping", "move_check",
             "move_goto", "unload_goto"}

(* ... and those where it makes the call fail. *)
Answered == at \in {"weld_ping", "move_verify"}

AtHome(S) == \A a \in S : phys[a] = 0 /\ (power => counter[a] = 0)
Homed == IF call = "home" THEN 1 .. axis - 1 ELSE Axes

ReferenceOf ==
  /\ Strict => Good
  /\ Warned => Good \/ Flagged
  /\ Answered /\ ok => Good \/ lost
  /\ at \in {"boot_home", "emergency_home"} /\ ok /\ ~lost => AtHome(Homed)
  /\ at = "boot_home" => ok /\ ~lost /\ power
  /\ at \in {"homing_ping", "homing_read"}
       \/ (at = "loop" /\ state = "HOMING") => AtHome(Axes) /\ ok /\ ~lost
  /\ at \notin {"homing_button", "homing_home"}
  /\ at = "restart_button" => AtHome(Axes)
  /\ at = "emergency_goto" =>
       Flagged \/ (IF power THEN Referenced ELSE AtHome(Axes))
  /\ at = "emergency_verify" =>
       ~ok \/ lost \/ (IF power THEN Referenced ELSE AtHome(Axes))
  /\ at = "sticky_log" \/ state = "GRINDING" => "sticky" \in Faults

(* What positions_in_mm has read is where the table stands. *)
Read == IF call = "read" THEN 1 .. axis - 1 ELSE Axes

SeenOf ==
  at \in {"homing_read", "move_verify", "emergency_verify", "return_verify"}
    /\ ok /\ ~lost => \A a \in Read : seen[a] = phys[a]

(* A WELD entry is processed at the position of the entry before it. *)
Arrived ==
  (at = "loop" /\ state = "PROCESS_COMMAND" /\ OnEntry("WELD"))
    \/ at = "weld_ping" \/ state = "FULL_AUTOMATION"
  => phys = WeldTarget

ReferenceInv == CallOf /\ PowerOf /\ ReferenceOf /\ SeenOf /\ Arrived
-----------------------------------------------------------------------------
(* The driver's cache: goto_position computes a displacement from it, so a  *)
(* motion whose result is not looked at ends at its target only if the      *)
(* cache agrees with the controller's counter when it begins.  That holds   *)
(* for the way to the grind position, which must not be refused itself, if  *)
(* the unloading, whose result is not looked at either, is not refused, and *)
(* no reply is garbled in START and PROCESS_COMMAND, which reset the flag   *)
(* between the loss of the cache and the next motion.                       *)

GrindTolerated ==
  /\ <<"garbled", "START">> \notin Exposed
  /\ <<"garbled", "PROCESS_COMMAND">> \notin Exposed
  /\ <<"error", "ERROR_WELD">> \notin Exposed
  /\ <<"error", "GRINDING">> \notin Exposed

Agree(S) == \A a \in S : cached[a] = counter[a]

(* Between the motions and while they are prepared the cache agrees. *)
Steady ==
  \/ at = "loop" /\ state \notin {"EMERGENCY_HANDLING", "GRINDING"}
  \/ at = "loop" /\ state = "GRINDING" /\ context.phase \in {0, 1}
  \/ at \in {"homing_ping", "homing_read", "start_ping", "start_read",
             "start_button", "next_print", "next_ping", "weld_ping",
             "move_ping", "move_check", "sticky_log", "move_clear",
             "stepping_contact"}

(* goto_position(t), undisturbed: the axes passed have arrived, the others  *)
(* start from a cache that agrees; then all are read back.                  *)
Travels(t) ==
  /\ goal = t /\ ok
  /\ call = "goto" => /\ \A a \in 1 .. axis - 1 : phys[a] = t[a]
                     /\ Agree(axis .. NA)
  /\ call = "sync" => phys = t /\ Agree(1 .. axis - 1)
  /\ call = "idle" => phys = t /\ Agree(Axes)

(* Where the reference may be lost, so may the agreement, and is flagged.   *)
CacheInv ==
  /\ Steady => (power /\ ~lost /\ Agree(Axes)) \/ (Warned /\ Flagged)
  /\ at \in {"boot_home", "emergency_home"} /\ ok /\ ~lost
       => \A a \in Homed : cached[a] = 0
  /\ at \in {"move_verify", "emergency_verify", "return_verify"}
       => (power \/ lost) /\ (ok /\ ~lost => Agree(Read))
  /\ at = "unload_goto" => Flagged \/ Travels(Unload)
  /\ at = "grind_goto" => Flagged \/ Travels(Grind)
  /\ state = "GRINDING" /\ at \in {"grind_goto", "return_goto", "return_verify"}
       => context.phase = IF at = "grind_goto" THEN 1 ELSE 3
  /\ at \in {"move_check", "sticky_log"} => context.phase = 0
  /\ GroundAtGrind
=============================================================================
