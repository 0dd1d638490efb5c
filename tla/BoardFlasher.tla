---------------------------- MODULE BoardFlasher ----------------------------
(***************************************************************************)
(* A worker that programs the battery board in one socket: it switches the *)
(* board on, brings its chip to full access (unseal), executes the lines   *)
(* of a flash-stream file one by one, and switches the board off.          *)
(*                                                                         *)
(* The chip is taken by the security mode it is in and by the lines of the *)
(* file that have taken effect in its flash.                               *)
(***************************************************************************)
EXTENDS Integers, Sequences

CONSTANTS
  Sockets,     \* programmers, one board each
  MaxRuns,     \* bound: clicks; a worker has the number of its click
  Files,       \* flash-stream files, as sequences of LineKinds
  Recoveries,  \* those with RECOVERY in their name
  KeyTries,    \* how often the full access key is tried
  Faults,      \* what may go wrong: subset of FaultKinds
  MaxFaults    \* bound: how often in all

\* "write": W, SWB, SWW, SWC; "block": C, SCL; "word": SCW; "skip": a comment
\* or a wait; "malformed": one of the first three that cannot be parsed;
\* "short": one with too few bytes, or a wait that is no number.
LineKinds == {"write", "block", "word", "skip", "malformed", "short",
              "unknown"}

\* "odd": a transfer of a wrong length; "lost": OSError, from all tries of a
\* read; "implausible": BatteryError from a status of a wrong length;
\* "refuses": the chip takes no key; "weak": an acknowledged write has no
\* effect; "contact": the board loses its power for a moment; "switch": its
\* power is not switched.
FaultKinds == {"odd", "lost", "implausible", "refuses", "weak", "contact",
               "switch"}

ASSUME FlasherAssumption ==
  /\ MaxRuns \in Nat
  /\ Files \subseteq Seq(LineKinds) /\ Recoveries \subseteq Files
  /\ KeyTries \in Nat \ {0}
  /\ Faults \subseteq FaultKinds /\ MaxFaults \in Nat

Runs == 1 .. MaxRuns

VARIABLES
  file,      \* the product's file
  powered,   \* the board in a socket has power
  mode,      \* its chip: "sealed", "unsealed", "full", or "rom" (bootloader)
  written,   \* lines of the file that took effect in its flash
  socket,    \* the socket of a worker
  at,        \* the place of a worker
  pos,       \* the line it is at
  sec,       \* _operation_status["sec"], the shadow
  tries,     \* full access keys written
  ok,        \* the result so far
  faults     \* counter for the bound

board  == <<powered, mode, written>>
worker == <<at, pos, sec, tries, ok>>
flasher == <<file, board, socket, worker, faults>>

Modes  == {"sealed", "unsealed", "full", "rom"}
Places == {"none", "start", "ask", "keys", "check", "ask_full", "full_key",
           "lines", "off", "put", "ended"}

Fault(f) == f \in Faults /\ faults < MaxFaults /\ faults' = faults + 1

Go(r, p) == at' = [at EXCEPT ![r] = p]

(* process_file has a result: the board is switched off next.               *)
Finish(r, v) == Go(r, "off") /\ ok' = [ok EXCEPT ![r] = v]

(* An exception that only the worker catches.                               *)
Raise(r) == Go(r, "put") /\ ok' = [ok EXCEPT ![r] = FALSE]

(* Without power the chip forgets the keys; one that was never sealed, and  *)
(* one in its bootloader, is as before.                                     *)
Unpowered(s) ==
  mode' \in {[mode EXCEPT ![s] = IF @ = "rom" THEN @ ELSE m] :
             m \in {"sealed", "full"}}

(* switch_pcba_power: False is not looked at, an exception ends the work.   *)
Switch(r, v, next) ==
  \/ /\ powered' = [powered EXCEPT ![socket[r]] = v]
     /\ IF v THEN UNCHANGED mode ELSE Unpowered(socket[r])
     /\ Go(r, next) /\ UNCHANGED <<ok, faults>>
  \/ /\ Fault("switch") /\ UNCHANGED <<powered, mode>>
     /\ (Go(r, next) /\ UNCHANGED ok) \/ Raise(r)

SwitchOn(r) ==
  /\ at[r] = "start"
  /\ Switch(r, TRUE, IF file \in Recoveries THEN "lines" ELSE "ask")
  /\ UNCHANGED <<file, written, socket, pos, sec, tries>>

SwitchOff(r) ==
  /\ at[r] = "off"
  /\ Switch(r, FALSE, "put")
  /\ UNCHANGED <<file, written, socket, pos, sec, tries>>

-----------------------------------------------------------------------------
(* enable_full_access: unseal with both keys. *)

Mode(r) == mode[socket[r]]
Answers(r) == powered[socket[r]]

(* A transfer raises OSError.                                               *)
Lost(r) ==
  \/ ~Answers(r) /\ UNCHANGED faults
  \/ Fault("lost")

(* operation_status(), until Then(sec) or an exception; a chip in its       *)
(* bootloader does not know the command.                                    *)
Status(r, Then(_)) ==
  \/ /\ Answers(r) /\ Mode(r) # "rom" /\ UNCHANGED faults
     /\ sec' = [sec EXCEPT ![r] = Mode(r)]
     /\ Then(Mode(r))
  \/ /\ (Mode(r) = "rom" /\ UNCHANGED faults) \/ Lost(r)
     /\ Finish(r, FALSE) /\ UNCHANGED sec
  \/ Fault("implausible") /\ Raise(r) /\ UNCHANGED sec

(* Sealed, the chip takes the key in the course of twenty writes; the       *)
(* shadow is not read again in between.                                     *)
Unlock(r, from, to) ==
  \/ /\ mode' = [mode EXCEPT ![socket[r]] = IF @ = from THEN to ELSE @]
     /\ UNCHANGED faults
  \/ Fault("refuses") /\ UNCHANGED mode

Ask(r) ==
  /\ at[r] = "ask"
  /\ Status(r, LAMBDA s : /\ Go(r, IF s = "full" THEN "lines" ELSE "keys")
                          /\ UNCHANGED ok)
  /\ UNCHANGED <<file, board, socket, pos, tries>>

Keys(r) ==
  /\ at[r] = "keys"
  /\ \/ /\ Answers(r) /\ Unlock(r, "sealed", "unsealed")
        /\ Go(r, "check") /\ UNCHANGED ok
     \/ Lost(r) /\ Finish(r, FALSE) /\ UNCHANGED mode
  /\ UNCHANGED <<file, powered, written, socket, pos, sec, tries>>

(* Not unsealed: CantUnsealBatteryError, which is no OSError.               *)
Check(r) ==
  /\ at[r] = "check"
  /\ Status(r, LAMBDA s : IF s = "sealed" THEN Raise(r)
                          ELSE Go(r, "ask_full") /\ UNCHANGED ok)
  /\ UNCHANGED <<file, board, socket, pos, tries>>

AskFull(r) ==
  /\ at[r] = "ask_full"
  /\ Status(r, LAMBDA s : /\ Go(r, IF s = "full" THEN "lines" ELSE "full_key")
                          /\ UNCHANGED ok)
  /\ UNCHANGED <<file, board, socket, pos, tries>>

(* The key, ... *)
FullKey(r) ==
  /\ at[r] = "full_key" /\ tries[r] < KeyTries
  /\ \/ /\ Answers(r) /\ Unlock(r, "unsealed", "full")
        /\ tries' = [tries EXCEPT ![r] = @ + 1]
        /\ Go(r, "ask_full") /\ UNCHANGED ok
     \/ Lost(r) /\ Finish(r, FALSE) /\ UNCHANGED <<mode, tries>>
  /\ UNCHANGED <<file, powered, written, socket, pos, sec>>

(* ... and all tries used up.                                               *)
NoAccess(r) ==
  /\ at[r] = "full_key" /\ tries[r] = KeyTries
  /\ Raise(r)
  /\ UNCHANGED <<file, board, socket, pos, sec, tries, faults>>

-----------------------------------------------------------------------------
(* __process_file: the next line. *)

Line(r, kind) == at[r] = "lines" /\ pos[r] <= Len(file) /\ file[pos[r]] = kind

NextLineLate(r) ==   \* mutant: the line counter is moved by two
  pos' = [pos EXCEPT ![r] = @ + 2] /\ UNCHANGED <<at, ok>>

NextLine(r) == pos' = [pos EXCEPT ![r] = @ + 1] /\ UNCHANGED <<at, ok>>

(* A transfer that fails, with a result or with an exception.               *)
Failed(r) == (Lost(r) \/ Fault("odd")) /\ Finish(r, FALSE) /\ UNCHANGED pos

Accepts(r) == Mode(r) \in {"full", "rom"}

(* W, SWB, SWW, SWC: an acknowledged write is taken as done.                *)
WriteLine(r) ==
  /\ Line(r, "write")
  /\ \/ /\ Answers(r) /\ NextLine(r)
        /\ \/ /\ written' = [written EXCEPT ![socket[r]] =
                                 IF Accepts(r) THEN @ \cup {pos[r]} ELSE @]
              /\ UNCHANGED faults
           \/ Fault("weak") /\ UNCHANGED written
     \/ Failed(r) /\ UNCHANGED written
  /\ UNCHANGED <<file, powered, mode, socket, sec, tries>>

(* What the lines before p should have written is in the flash of socket s. *)
WrittenBefore(s, p) ==
  \A q \in 1 .. p - 1 : file[q] = "write" => q \in written[s]

Match(r) == Accepts(r) /\ WrittenBefore(socket[r], pos[r])

CompareBlind(r) ==   \* mutant: an answer of any content will do
  /\ Line(r, "block")
  /\ \/ Answers(r) /\ UNCHANGED faults /\ NextLine(r)
     \/ Failed(r)
  /\ UNCHANGED <<file, board, socket, sec, tries>>

(* C, SCL *)
CompareBlock(r) ==
  /\ Line(r, "block")
  /\ \/ /\ Answers(r) /\ UNCHANGED faults
        /\ \/ Match(r) /\ NextLine(r)
           \/ ~Match(r) /\ Finish(r, FALSE) /\ UNCHANGED pos
     \/ Failed(r)
  /\ UNCHANGED <<file, board, socket, sec, tries>>

(* SCW: the words differ, the loop is left, and prg_result is still True.   *)
CompareWord(r) ==
  /\ Line(r, "word")
  /\ \/ /\ Answers(r) /\ UNCHANGED faults
        /\ \/ Match(r) /\ NextLine(r)
           \/ ~Match(r) /\ Finish(r, TRUE) /\ UNCHANGED pos
     \/ Failed(r)
  /\ UNCHANGED <<file, board, socket, sec, tries>>

SkipLine(r) ==
  /\ Line(r, "skip") /\ NextLine(r)
  /\ UNCHANGED <<file, board, socket, sec, tries, faults>>

(* A line that cannot be parsed clears validation_result only, an unknown   *)
(* one prg_result too.  A short one has no data[2], or leaves time_ms       *)
(* unbound (or as an earlier wait set it: "skip"), and raises.              *)
BadLine(r) ==
  /\ \/ Line(r, "malformed") /\ Finish(r, TRUE)
     \/ Line(r, "unknown") /\ Finish(r, FALSE)
     \/ Line(r, "short") /\ Raise(r)
  /\ UNCHANGED <<file, board, socket, pos, sec, tries, faults>>

EndOfFile(r) ==
  /\ at[r] = "lines" /\ pos[r] > Len(file)
  /\ Finish(r, TRUE)
  /\ UNCHANGED <<file, board, socket, pos, sec, tries, faults>>

(* The needles lose the board for a moment.                                 *)
Contact(s) ==
  /\ powered[s] /\ Fault("contact") /\ Unpowered(s)
  /\ UNCHANGED <<file, powered, written, socket, worker>>

FlasherStep(r) ==
  \/ SwitchOn(r) \/ Ask(r) \/ Keys(r) \/ Check(r) \/ AskFull(r)
  \/ FullKey(r) \/ NoAccess(r)
  \/ WriteLine(r) \/ CompareBlock(r) \/ CompareWord(r) \/ SkipLine(r)
  \/ BadLine(r) \/ EndOfFile(r) \/ SwitchOff(r)
=============================================================================
