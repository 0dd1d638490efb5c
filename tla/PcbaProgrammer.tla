--------------------------- MODULE PcbaProgrammer ---------------------------
(***************************************************************************)
(* The window of the PCBA programmer and its workers: a button per socket  *)
(* puts a start into the command queue; the window takes one command at a  *)
(* time from it and starts a worker process unless the socket has one; the *)
(* worker puts its result into the same queue.                             *)
(***************************************************************************)
EXTENDS BoardFlasher

VARIABLES
  q_cmd,     \* the command queue
  futures,   \* the worker of a socket, 0 for None
  button,    \* the START button of a socket is "normal" or "disabled"
  shown,     \* the color of its progress bar
  clicks,    \* counter for the bound
  swapped    \* history: the board was changed since the worker's end

window == <<q_cmd, futures, button, shown, clicks>>
vars == <<flasher, window, swapped>>

Start(s) == [what |-> "start", socket |-> s, run |-> clicks + 1, ok |-> FALSE]
Result(r) == [what |-> "result", socket |-> socket[r], run |-> r, ok |-> ok[r]]

NewModes == {"sealed", "full", "rom"}

Init ==
  /\ file \in Files
  /\ powered = [s \in Sockets |-> FALSE] /\ mode \in [Sockets -> NewModes]
  /\ written = [s \in Sockets |-> {}]
  /\ \E s \in Sockets : socket = [r \in Runs |-> s]
  /\ at = [r \in Runs |-> "none"]
  /\ pos = [r \in Runs |-> 1] /\ sec = [r \in Runs |-> "none"]
  /\ tries = [r \in Runs |-> 0] /\ ok = [r \in Runs |-> FALSE]
  /\ q_cmd = <<>> /\ futures = [s \in Sockets |-> 0]
  /\ button = [s \in Sockets |-> "normal"] /\ shown = [s \in Sockets |-> "none"]
  /\ clicks = 0 /\ swapped = [s \in Sockets |-> TRUE] /\ faults = 0

(* A click, perhaps the second before the window has taken the first.       *)
Press(s) ==
  /\ button[s] = "normal" /\ clicks < MaxRuns
  /\ q_cmd' = Append(q_cmd, Start(s)) /\ clicks' = clicks + 1
  /\ UNCHANGED <<flasher, futures, button, shown, swapped>>

(* The operator puts the next board into a socket that shows START.         *)
Swap(s) ==
  /\ button[s] = "normal" /\ clicks < MaxRuns /\ ~swapped[s]
  /\ \E m \in NewModes : mode' = [mode EXCEPT ![s] = m]
  /\ written' = [written EXCEPT ![s] = {}]
  /\ swapped' = [swapped EXCEPT ![s] = TRUE]
  /\ UNCHANGED <<file, powered, socket, worker, faults, window>>

Command(what) == q_cmd # <<>> /\ Head(q_cmd).what = what

StartWorker(c) ==
  /\ socket' = [socket EXCEPT ![c.run] = c.socket]
  /\ at' = [at EXCEPT ![c.run] = "start"]
  /\ futures' = [futures EXCEPT ![c.socket] = c.run]
  /\ button' = [button EXCEPT ![c.socket] = "disabled"]
  /\ shown' = [shown EXCEPT ![c.socket] = "process"]
  /\ swapped' = [swapped EXCEPT ![c.socket] = FALSE]

StartUnchecked ==   \* mutant: a socket with a worker gets another
  /\ Command("start") /\ q_cmd' = Tail(q_cmd)
  /\ StartWorker(Head(q_cmd))
  /\ UNCHANGED <<file, board, pos, sec, tries, ok, faults, clicks>>

TakeStart ==
  /\ Command("start") /\ q_cmd' = Tail(q_cmd)
  /\ LET c == Head(q_cmd) IN
       \/ futures[c.socket] = 0 /\ StartWorker(c)
       \/ futures[c.socket] # 0
          /\ UNCHANGED <<socket, at, futures, button, shown, swapped>>
  /\ UNCHANGED <<file, board, pos, sec, tries, ok, faults, clicks>>

TakeResult ==
  /\ Command("result") /\ q_cmd' = Tail(q_cmd)
  /\ LET c == Head(q_cmd) IN
       /\ shown' = [shown EXCEPT ![c.socket] = IF c.ok THEN "pass" ELSE "fail"]
       /\ button' = [button EXCEPT ![c.socket] = "normal"]
       /\ futures' = [futures EXCEPT ![c.socket] = 0]
  /\ UNCHANGED <<flasher, clicks, swapped>>

RaisedIsSilent(r) ==   \* mutant: an exception ends the worker without a result
  /\ at[r] = "put" /\ Go(r, "ended")
  /\ q_cmd' = IF powered[socket[r]] THEN q_cmd ELSE Append(q_cmd, Result(r))
  /\ UNCHANGED <<file, board, socket, pos, sec, tries, ok, faults, futures,
                 button, shown, clicks, swapped>>

PutResult(r) ==
  /\ at[r] = "put" /\ Go(r, "ended")
  /\ q_cmd' = Append(q_cmd, Result(r))
  /\ UNCHANGED <<file, board, socket, pos, sec, tries, ok, faults, futures,
                 button, shown, clicks, swapped>>

Worker(r) ==
  \/ FlasherStep(r) /\ UNCHANGED <<window, swapped>>
  \/ PutResult(r)

process_command_queue == TakeStart \/ TakeResult

Next ==
  \/ \E s \in Sockets : \/ Press(s) \/ Swap(s)
                        \/ Contact(s) /\ UNCHANGED <<window, swapped>>
  \/ process_command_queue
  \/ \E r \in Runs : Worker(r)

Spec == Init /\ [][Next]_vars

FairSpec == Spec /\ WF_vars(process_command_queue)
                 /\ \A r \in Runs : WF_vars(Worker(r))

-----------------------------------------------------------------------------
(* Properties. *)

Messages == [what : {"start", "result"}, socket : Sockets, run : Runs, ok : BOOLEAN]

(* Every variable has its type, and no worker runs without a click.         *)
TypeOK ==
  /\ file \in Files
  /\ powered \in [Sockets -> BOOLEAN] /\ mode \in [Sockets -> Modes]
  /\ written \in [Sockets -> SUBSET (1 .. Len(file))]
  /\ socket \in [Runs -> Sockets] /\ at \in [Runs -> Places]
  /\ pos \in [Runs -> 1 .. Len(file) + 1]
  /\ sec \in [Runs -> Modes \cup {"none"}]
  /\ tries \in [Runs -> 0 .. KeyTries] /\ ok \in [Runs -> BOOLEAN]
  /\ q_cmd \in Seq(Messages) /\ futures \in [Sockets -> 0 .. MaxRuns]
  /\ button \in [Sockets -> {"normal", "disabled"}]
  /\ shown \in [Sockets -> {"none", "process", "pass", "fail"}]
  /\ clicks \in 0 .. MaxRuns
  /\ swapped \in [Sockets -> BOOLEAN] /\ faults \in 0 .. MaxFaults
  /\ \A r \in Runs : at[r] # "none" => r <= clicks

(* The file has no line that ends the programming with success.             *)
Plain == \A p \in 1 .. Len(file) : file[p] \notin {"word", "malformed"}

(* Every block the file compares is in the flash of the board in s.         *)
Programmed(s) == \A p \in 1 .. Len(file) : file[p] = "block" => WrittenBefore(s, p)

(* A board that the window shows as passed has in its flash what the file   *)
(* compares, whatever was lost, took no effect, or was clicked twice.       *)
PassIsProgrammed ==
  \A s \in Sockets : Plain /\ shown[s] = "pass" /\ ~swapped[s] => Programmed(s)

Working(r) == at[r] \notin {"none", "ended"}

(* No two workers write to the board of one socket.                         *)
OneWriter ==
  \A r1, r2 \in Runs :
    Working(r1) /\ Working(r2) /\ socket[r1] = socket[r2] => r1 = r2

(* A socket that programs becomes available again.                          *)
ButtonBack == \A s \in Sockets : futures[s] # 0 ~> futures[s] = 0
=============================================================================
