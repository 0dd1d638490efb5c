-------------------------- MODULE ProgrammerProofs --------------------------
(***************************************************************************)
(* Proofs about PcbaProgrammer, for any sockets, files, clicks and faults. *)
(*                                                                         *)
(* The argument: a working worker is the future of its socket, and a       *)
(* result in the queue is the only one of a socket whose future is set and *)
(* whose worker has ended; so no second worker is started beside the       *)
(* first, and no board is changed under one.  What a worker has compared   *)
(* stays in the flash, because only a new board takes it away.             *)
(***************************************************************************)
EXTENDS PcbaProgrammer, SequenceTheorems, TLAPS

IsResult(i) == i \in 1 .. Len(q_cmd) /\ q_cmd[i].what = "result"
IsStart(i)  == i \in 1 .. Len(q_cmd) /\ q_cmd[i].what = "start"

(* The socket of a working worker has it for its future.                    *)
FutureInv == \A r \in Runs : Working(r) => futures[socket[r]] = r

(* Results in the queue: whose, and how many of a socket.                   *)
ResultInv ==
  /\ \A i \in 1 .. Len(q_cmd) : IsResult(i) =>
       /\ futures[q_cmd[i].socket] # 0
       /\ \A r \in Runs : Working(r) => socket[r] # q_cmd[i].socket
  /\ \A i, j \in 1 .. Len(q_cmd) :
       IsResult(i) /\ IsResult(j) /\ q_cmd[i].socket = q_cmd[j].socket => i = j

(* Starts in the queue: of workers not started yet, each once.              *)
StartInv ==
  /\ \A i \in 1 .. Len(q_cmd) : IsStart(i) =>
       q_cmd[i].run <= clicks /\ at[q_cmd[i].run] = "none"
  /\ \A i, j \in 1 .. Len(q_cmd) :
       IsStart(i) /\ IsStart(j) /\ q_cmd[i].run = q_cmd[j].run => i = j
  /\ \A r \in Runs : at[r] = "none" => pos[r] = 1

ButtonInv == \A s \in Sockets : futures[s] # 0 => button[s] = "disabled"

(* The blocks compared so far are in the flash.                             *)
Passed(r) ==
  \A p \in 1 .. Len(file) :
    p < pos[r] /\ file[p] = "block" => WrittenBefore(socket[r], p)

FlashInv ==
  /\ \A r \in Runs : Working(r) => Passed(r)
  /\ \A r \in Runs : Plain /\ at[r] \in {"off", "put"} /\ ok[r]
                       => Programmed(socket[r])
  /\ \A i \in 1 .. Len(q_cmd) : Plain /\ IsResult(i) /\ q_cmd[i].ok
                       => Programmed(q_cmd[i].socket)

IInv == /\ TypeOK /\ FutureInv /\ ResultInv /\ StartInv /\ ButtonInv
        /\ FlashInv /\ PassIsProgrammed

-----------------------------------------------------------------------------
(* Lemmas about a step of a worker. *)

(* The types of what a worker works with.                                   *)
BoardType ==
  /\ file \in Seq(LineKinds)
  /\ powered \in [Sockets -> BOOLEAN] /\ mode \in [Sockets -> Modes]
  /\ written \in [Sockets -> SUBSET (1 .. Len(file))]
  /\ socket \in [Runs -> Sockets] /\ at \in [Runs -> Places]
  /\ pos \in [Runs -> 1 .. Len(file) + 1]
  /\ sec \in [Runs -> Modes \cup {"none"}]
  /\ tries \in [Runs -> 0 .. KeyTries] /\ ok \in [Runs -> BOOLEAN]
  /\ faults \in 0 .. MaxFaults

LEMMA Typed == TypeOK => BoardType
BY FlasherAssumption DEF TypeOK, BoardType

(* What a step of worker r changes, and what it says when it has a result.  *)
Moves(r) ==
  /\ at' \in [Runs -> Places] /\ at'[r] \notin {"none", "ended"}
  /\ \A q \in Runs : q # r => at'[q] = at[q]
  /\ pos' \in [Runs -> 1 .. Len(file) + 1]
  /\ \A q \in Runs : q # r => pos'[q] = pos[q]
  /\ ok' \in [Runs -> BOOLEAN]
  /\ \A q \in Runs : q # r => ok'[q] = ok[q]
  /\ pos'[r] = pos[r] \/ (/\ pos'[r] = pos[r] + 1 /\ at'[r] = "lines"
                          /\ file[pos[r]] = "block" => WrittenBefore(socket[r], pos[r]))
  /\ at'[r] \in {"off", "put"} /\ ok'[r] /\ Plain =>
       (at[r] \in {"off", "put"} /\ ok[r]) \/ pos[r] > Len(file)

Boards ==
  /\ powered' \in [Sockets -> BOOLEAN] /\ mode' \in [Sockets -> Modes]
  /\ written' \in [Sockets -> SUBSET (1 .. Len(file))]
  /\ \A s \in Sockets : written[s] \subseteq written'[s]
  /\ sec' \in [Runs -> Modes \cup {"none"}]
  /\ tries' \in [Runs -> 0 .. KeyTries]
  /\ faults' \in 0 .. MaxFaults /\ file' = file /\ socket' = socket

LEMMA FaultTyped ==
  ASSUME faults \in 0 .. MaxFaults, NEW f, Fault(f)
  PROVE  faults' \in 0 .. MaxFaults
BY FlasherAssumption DEF Fault

LEMMA FinishMoves ==
  ASSUME BoardType, NEW r \in Runs, NEW v \in BOOLEAN, Finish(r, v),
         pos' = pos, v => ~Plain \/ pos[r] > Len(file)
  PROVE  Moves(r)
BY DEF BoardType, Finish, Go, Moves, Places

LEMMA RaiseMoves ==
  ASSUME BoardType, NEW r \in Runs, Raise(r), pos' = pos
  PROVE  Moves(r)
BY DEF BoardType, Raise, Go, Moves, Places

LEMMA GoMoves ==
  ASSUME BoardType, NEW r \in Runs,
         NEW p \in Places \ {"none", "ended", "off", "put"},
         Go(r, p), pos' = pos, ok' = ok
  PROVE  Moves(r)
BY DEF BoardType, Go, Moves

LEMMA UnpoweredTyped ==
  ASSUME BoardType, NEW s \in Sockets, Unpowered(s)
  PROVE  mode' \in [Sockets -> Modes]
BY DEF BoardType, Unpowered, Modes

LEMMA SwitchStep ==
  ASSUME BoardType, NEW r \in Runs, NEW v \in BOOLEAN, NEW p \in Places,
         p \in {"lines", "ask"} \/ (p = "put" /\ at[r] = "off"),
         Switch(r, v, p), UNCHANGED <<file, written, socket, pos, sec, tries>>
  PROVE  Moves(r) /\ Boards
<1>1. socket[r] \in Sockets /\ faults' \in 0 .. MaxFaults
  <2>1. socket[r] \in Sockets
    BY DEF BoardType
  <2>2. faults' = faults \/ Fault("switch")
    BY DEF Switch
  <2> QED BY <2>1, <2>2, FaultTyped DEF BoardType
<1>2. mode' \in [Sockets -> Modes]
  <2>1. mode' = mode \/ Unpowered(socket[r])
    BY DEF Switch
  <2> QED BY <1>1, <2>1, UnpoweredTyped DEF BoardType
<1>3. powered' \in [Sockets -> BOOLEAN]
  BY <1>1 DEF Switch, BoardType
<1>4. Boards
  BY <1>1, <1>2, <1>3 DEF BoardType, Boards
<1>5. CASE Raise(r)
  BY <1>4, <1>5, RaiseMoves
<1>6. CASE Go(r, p) /\ ok' = ok
  <2>1. CASE p \in {"lines", "ask"}
    BY <1>4, <1>6, <2>1, GoMoves
  <2>2. CASE p = "put" /\ at[r] = "off"
    BY <1>4, <1>6, <2>2 DEF BoardType, Go, Moves, Places
  <2> QED BY <2>1, <2>2
<1> QED BY <1>5, <1>6 DEF Switch

LEMMA LostTyped ==
  ASSUME BoardType, NEW r \in Runs, Lost(r)
  PROVE  faults' \in 0 .. MaxFaults
BY FaultTyped DEF BoardType, Lost

(* A step that leaves the boards as they are, up to the mode of one.        *)
LEMMA BoardsKept ==
  ASSUME BoardType, UNCHANGED <<file, powered, written, socket>>,
         mode' \in [Sockets -> Modes], sec' \in [Runs -> Modes \cup {"none"}],
         tries' \in [Runs -> 0 .. KeyTries], faults' \in 0 .. MaxFaults
  PROVE  Boards
BY DEF BoardType, Boards

(* What Status leaves, whatever Then does with the answer.                  *)
StatusTyped(r) ==
  sec' \in [Runs -> Modes \cup {"none"}] /\ faults' \in 0 .. MaxFaults

LEMMA StatusFails ==
  ASSUME BoardType, NEW r \in Runs, pos' = pos, UNCHANGED sec,
         \/ ((Mode(r) = "rom" /\ UNCHANGED faults) \/ Lost(r)) /\ Finish(r, FALSE)
         \/ Fault("implausible") /\ Raise(r)
  PROVE  Moves(r) /\ StatusTyped(r)
<1>1. faults' \in 0 .. MaxFaults
  BY LostTyped, FaultTyped DEF BoardType
<1>2. Moves(r)
  BY FinishMoves, RaiseMoves
<1> QED BY <1>1, <1>2 DEF StatusTyped, BoardType

LEMMA StatusAnswers ==
  ASSUME BoardType, NEW r \in Runs, UNCHANGED faults,
         sec' = [sec EXCEPT ![r] = Mode(r)]
  PROVE  StatusTyped(r)
BY DEF BoardType, StatusTyped, Mode

LEMMA AskStep ==
  ASSUME BoardType, NEW r \in Runs, Ask(r) \/ Check(r) \/ AskFull(r)
  PROVE  Moves(r) /\ Boards
<1>1. UNCHANGED <<file, powered, mode, written, socket, pos, tries>>
  BY DEF Ask, Check, AskFull, board
<1>2. Moves(r) /\ StatusTyped(r)
  <2>1. CASE Ask(r)
    BY <1>1, <2>1, GoMoves, StatusFails, StatusAnswers DEF Ask, Status, Places
  <2>2. CASE Check(r)
    BY <1>1, <2>2, GoMoves, RaiseMoves, StatusFails, StatusAnswers
    DEF Check, Status, Places
  <2>3. CASE AskFull(r)
    BY <1>1, <2>3, GoMoves, StatusFails, StatusAnswers DEF AskFull, Status, Places
  <2> QED BY <2>1, <2>2, <2>3
<1> QED BY <1>1, <1>2, BoardsKept DEF StatusTyped, BoardType

LEMMA KeyStep ==
  ASSUME BoardType, NEW r \in Runs, Keys(r) \/ FullKey(r) \/ NoAccess(r)
  PROVE  Moves(r) /\ Boards
<1>1. UNCHANGED <<file, powered, written, socket, pos, sec>>
  BY DEF Keys, FullKey, NoAccess, board
<1>2. ASSUME NEW from, NEW to \in Modes, Unlock(r, from, to)
      PROVE  mode' \in [Sockets -> Modes] /\ faults' \in 0 .. MaxFaults
  BY <1>2, FaultTyped DEF Unlock, BoardType
<1>3. CASE Keys(r)
  <2>1. Moves(r)
    BY <1>1, <1>3, GoMoves, FinishMoves DEF Keys, Places
  <2>2. mode' \in [Sockets -> Modes] /\ faults' \in 0 .. MaxFaults
    BY <1>2, <1>3, LostTyped DEF Keys, BoardType, Modes
  <2> QED BY <1>1, <1>3, <2>1, <2>2, BoardsKept DEF Keys, BoardType
<1>4. CASE FullKey(r)
  <2>1. Moves(r)
    BY <1>1, <1>4, GoMoves, FinishMoves DEF FullKey, Places
  <2>2. mode' \in [Sockets -> Modes] /\ faults' \in 0 .. MaxFaults
    BY <1>2, <1>4, LostTyped DEF FullKey, BoardType, Modes
  <2>3. tries' \in [Runs -> 0 .. KeyTries]
    <3>1. tries \in [Runs -> 0 .. KeyTries] /\ tries[r] + 1 \in 0 .. KeyTries
      BY <1>4, FlasherAssumption DEF FullKey, BoardType
    <3> QED BY <1>4, <3>1 DEF FullKey
  <2> QED BY <1>1, <2>1, <2>2, <2>3, BoardsKept DEF BoardType
<1>5. CASE NoAccess(r)
  BY <1>1, <1>5, RaiseMoves, BoardsKept DEF NoAccess, BoardType, board
<1> QED BY <1>3, <1>4, <1>5

LEMMA NextLineMoves ==
  ASSUME BoardType, NEW r \in Runs, at[r] = "lines", pos[r] <= Len(file),
         NextLine(r), file[pos[r]] = "block" => WrittenBefore(socket[r], pos[r])
  PROVE  Moves(r)
<1>1. Len(file) \in Nat
  BY DEF BoardType
<1>2. pos[r] + 1 \in 1 .. Len(file) + 1
  BY <1>1 DEF BoardType
<1> QED BY <1>2 DEF BoardType, NextLine, Moves

LEMMA FailedMoves ==
  ASSUME BoardType, NEW r \in Runs, Failed(r)
  PROVE  Moves(r) /\ faults' \in 0 .. MaxFaults
BY FinishMoves, LostTyped, FaultTyped DEF Failed, BoardType

LEMMA WriteStep ==
  ASSUME BoardType, NEW r \in Runs, WriteLine(r)
  PROVE  Moves(r) /\ Boards
<1>1. UNCHANGED <<file, powered, mode, socket, sec, tries>>
      /\ at[r] = "lines" /\ pos[r] <= Len(file) /\ file[pos[r]] = "write"
  BY DEF WriteLine, Line
<1>2. Moves(r)
  BY <1>1, NextLineMoves, FailedMoves DEF WriteLine
<1>3. faults' \in 0 .. MaxFaults
  BY FailedMoves, FaultTyped DEF WriteLine, BoardType
<1>4. /\ written' \in [Sockets -> SUBSET (1 .. Len(file))]
      /\ \A s \in Sockets : written[s] \subseteq written'[s]
  <2>1. pos[r] \in 1 .. Len(file)
    BY <1>1 DEF BoardType
  <2>2. \/ UNCHANGED written
        \/ written' = [written EXCEPT ![socket[r]] =
                         IF Accepts(r) THEN @ \cup {pos[r]} ELSE @]
    BY DEF WriteLine
  <2>3. socket[r] \in Sockets /\ written \in [Sockets -> SUBSET (1 .. Len(file))]
    BY DEF BoardType
  <2>4. CASE Accepts(r)
    <3>1. UNCHANGED written
          \/ written' = [written EXCEPT ![socket[r]] = @ \cup {pos[r]}]
      BY <2>2, <2>4
    <3> QED BY <2>1, <2>3, <3>1
  <2>5. CASE ~Accepts(r)
    <3>1. UNCHANGED written \/ written' = [written EXCEPT ![socket[r]] = @]
      BY <2>2, <2>5
    <3> QED BY <2>3, <3>1
  <2> QED BY <2>4, <2>5
<1> QED BY <1>1, <1>2, <1>3, <1>4 DEF Boards, BoardType

LEMMA LineStep ==
  ASSUME BoardType, NEW r \in Runs,
         CompareBlock(r) \/ CompareWord(r) \/ SkipLine(r) \/ BadLine(r) \/ EndOfFile(r)
  PROVE  Moves(r) /\ Boards
<1>1. UNCHANGED <<file, powered, mode, written, socket, sec, tries>>
  BY DEF CompareBlock, CompareWord, SkipLine, BadLine, EndOfFile, board
<1>2. pos[r] \in 1 .. Len(file) + 1 /\ Len(file) \in Nat
  BY DEF BoardType
<1>3. Moves(r) /\ faults' \in 0 .. MaxFaults
  <2>1. CASE CompareBlock(r)
    BY <2>1, NextLineMoves, FinishMoves, FailedMoves
    DEF CompareBlock, Line, Match, BoardType
  <2>2. CASE CompareWord(r)
    <3>1. at[r] = "lines" /\ pos[r] <= Len(file) /\ file[pos[r]] = "word"
      BY <2>2 DEF CompareWord, Line
    <3>2. ~Plain
      BY <1>2, <3>1 DEF Plain
    <3> QED BY <2>2, <3>1, <3>2, NextLineMoves, FinishMoves, FailedMoves
            DEF CompareWord, BoardType
  <2>3. CASE SkipLine(r)
    BY <2>3, NextLineMoves DEF SkipLine, Line, BoardType
  <2>4. CASE BadLine(r)
    <3>1. CASE Line(r, "malformed")
      <4>1. ~Plain
        BY <1>2, <3>1 DEF Plain, Line
      <4>2. Finish(r, TRUE) /\ pos' = pos /\ faults' = faults
        BY <2>4, <3>1 DEF BadLine, Line
      <4> QED BY <4>1, <4>2, FinishMoves DEF BoardType
    <3>2. CASE Finish(r, FALSE)
      BY <2>4, <3>2, FinishMoves DEF BadLine, BoardType
    <3>3. CASE Line(r, "short") /\ Raise(r)
      BY <2>4, <3>3, RaiseMoves DEF BadLine, BoardType
    <3> QED BY <2>4, <3>1, <3>2, <3>3 DEF BadLine
  <2>5. CASE EndOfFile(r)
    BY <2>5, FinishMoves DEF EndOfFile, BoardType
  <2> QED BY <2>1, <2>2, <2>3, <2>4, <2>5
<1> QED BY <1>1, <1>3, BoardsKept DEF BoardType

LEMMA FlasherMoves ==
  ASSUME BoardType, NEW r \in Runs, FlasherStep(r)
  PROVE  Moves(r) /\ Boards
<1>1. CASE SwitchOn(r)
  BY <1>1, SwitchStep DEF SwitchOn, Places
<1>2. CASE SwitchOff(r)
  BY <1>2, SwitchStep DEF SwitchOff, Places
<1> QED BY <1>1, <1>2, AskStep, KeyStep, WriteStep, LineStep DEF FlasherStep

-----------------------------------------------------------------------------
(* The invariant. *)

LEMMA InitInv == Init => IInv
<1> SUFFICES ASSUME Init PROVE IInv
  OBVIOUS
<1>1. TypeOK
  <2>1. Len(file) \in Nat
    BY FlasherAssumption DEF Init
  <2>2. <<>> \in Seq(Messages)
    OBVIOUS
  <2>3. pos \in [Runs -> 1 .. Len(file) + 1]
    BY <2>1 DEF Init
  <2>4. written \in [Sockets -> SUBSET (1 .. Len(file))]
    BY DEF Init
  <2>5. tries \in [Runs -> 0 .. KeyTries] /\ faults \in 0 .. MaxFaults
        /\ clicks \in 0 .. MaxRuns /\ futures \in [Sockets -> 0 .. MaxRuns]
    BY FlasherAssumption DEF Init
  <2>6. mode \in [Sockets -> Modes]
    BY DEF Init, NewModes, Modes
  <2>7. at \in [Runs -> Places] /\ \A r \in Runs : at[r] = "none"
    BY DEF Init, Places
  <2>8. socket \in [Runs -> Sockets]
    BY DEF Init
  <2> QED BY <2>2, <2>3, <2>4, <2>5, <2>6, <2>7, <2>8 DEF Init, TypeOK
<1>2. (\A r \in Runs : ~Working(r) /\ at[r] = "none" /\ pos[r] = 1) /\ Len(q_cmd) = 0
      /\ \A s \in Sockets : futures[s] = 0 /\ shown[s] = "none"
  BY DEF Init, Working
<1>3. FutureInv /\ ResultInv /\ StartInv /\ ButtonInv
  BY <1>2 DEF FutureInv, ResultInv, StartInv, ButtonInv
<1>4. FlashInv /\ PassIsProgrammed
  BY <1>2 DEF FlashInv, PassIsProgrammed
<1> QED BY <1>1, <1>3, <1>4 DEF IInv

(* More in the flash keeps what is compared.                                *)
LEMMA WrittenKept ==
  ASSUME file' = file, NEW s, NEW p, written[s] \subseteq written'[s],
         WrittenBefore(s, p)
  PROVE  WrittenBefore(s, p)'
BY DEF WrittenBefore

LEMMA ProgrammedKept ==
  ASSUME file' = file, NEW s, written[s] \subseteq written'[s], Programmed(s)
  PROVE  Programmed(s)'
BY WrittenKept DEF Programmed

LEMMA FlasherWorks ==
  ASSUME NEW r \in Runs, FlasherStep(r)
  PROVE  Working(r)
BY DEF FlasherStep, SwitchOn, Ask, Keys, Check, AskFull, FullKey, NoAccess,
       WriteLine, CompareBlock, CompareWord, SkipLine, BadLine, EndOfFile,
       SwitchOff, Line, Working

LEMMA TailFacts ==
  ASSUME TypeOK, q_cmd # <<>>, q_cmd' = Tail(q_cmd)
  PROVE  /\ q_cmd' \in Seq(Messages) /\ Len(q_cmd') = Len(q_cmd) - 1
         /\ Len(q_cmd) \in Nat /\ Len(q_cmd') \in Nat
         /\ 1 \in 1 .. Len(q_cmd) /\ Head(q_cmd) = q_cmd[1]
         /\ \A i \in 1 .. Len(q_cmd) : q_cmd[i] \in Messages
         /\ \A i \in 1 .. Len(q_cmd') :
              i + 1 \in 1 .. Len(q_cmd) /\ i + 1 # 1 /\ q_cmd'[i] = q_cmd[i + 1]
BY DEF TypeOK

LEMMA AppendFacts ==
  ASSUME TypeOK, NEW m \in Messages, q_cmd' = Append(q_cmd, m)
  PROVE  /\ q_cmd' \in Seq(Messages) /\ Len(q_cmd') = Len(q_cmd) + 1
         /\ Len(q_cmd) \in Nat
         /\ q_cmd'[Len(q_cmd) + 1] = m
         /\ \A i \in 1 .. Len(q_cmd) : q_cmd'[i] = q_cmd[i] /\ q_cmd[i] \in Messages
         /\ \A i \in 1 .. Len(q_cmd') : i \in 1 .. Len(q_cmd) \/ i = Len(q_cmd) + 1
BY DEF TypeOK

LEMMA QueueTyped ==
  ASSUME TypeOK
  PROVE  \A i \in 1 .. Len(q_cmd) :
           /\ q_cmd[i] \in Messages /\ q_cmd[i].socket \in Sockets
           /\ q_cmd[i].run \in Runs
<1>1. \A i \in 1 .. Len(q_cmd) : q_cmd[i] \in Messages
  BY DEF TypeOK
<1> QED BY <1>1 DEF Messages

(* A step that only adds to the flash.                                      *)
LEMMA FlasherInv ==
  ASSUME IInv, NEW r \in Runs, FlasherStep(r), UNCHANGED <<window, swapped>>
  PROVE  IInv'
<1>0. TypeOK /\ FutureInv /\ ResultInv /\ StartInv /\ ButtonInv /\ FlashInv
      /\ PassIsProgrammed /\ BoardType
  BY Typed DEF IInv
<1>1. Moves(r) /\ Boards /\ Working(r)
  BY <1>0, FlasherMoves, FlasherWorks
<1>2. UNCHANGED <<q_cmd, futures, button, shown, clicks, swapped>>
  BY DEF window
<1>3. \A q \in Runs : (Working(q))' => Working(q)
  BY <1>1 DEF Moves, Working
<1>4. at[r] \notin {"none", "ended"} /\ at'[r] # "none" /\ socket' = socket
      /\ file' = file
  BY <1>1 DEF Working, Moves, Boards
<1>5. TypeOK'
  <2>1. \A q \in Runs : at'[q] # "none" => q <= clicks'
    BY <1>0, <1>1, <1>2, <1>4 DEF TypeOK, Moves
  <2>2. /\ file' \in Files
        /\ q_cmd' \in Seq(Messages) /\ futures' \in [Sockets -> 0 .. MaxRuns]
        /\ button' \in [Sockets -> {"normal", "disabled"}]
        /\ shown' \in [Sockets -> {"none", "process", "pass", "fail"}]
        /\ clicks' \in 0 .. MaxRuns /\ swapped' \in [Sockets -> BOOLEAN]
    BY <1>0, <1>2, <1>4 DEF TypeOK
  <2>3. /\ powered' \in [Sockets -> BOOLEAN] /\ mode' \in [Sockets -> Modes]
        /\ written' \in [Sockets -> SUBSET (1 .. Len(file'))]
        /\ socket' \in [Runs -> Sockets] /\ at' \in [Runs -> Places]
        /\ pos' \in [Runs -> 1 .. Len(file') + 1]
        /\ sec' \in [Runs -> Modes \cup {"none"}]
        /\ tries' \in [Runs -> 0 .. KeyTries] /\ ok' \in [Runs -> BOOLEAN]
        /\ faults' \in 0 .. MaxFaults
    BY <1>0, <1>1, <1>4 DEF BoardType, Moves, Boards
  <2> QED BY <2>1, <2>2, <2>3 DEF TypeOK
<1>6. FutureInv' /\ ButtonInv'
  BY <1>0, <1>2, <1>3, <1>4 DEF FutureInv, ButtonInv
<1>7. ResultInv'
  BY <1>0, <1>2, <1>3, <1>4 DEF ResultInv, IsResult
<1>8. StartInv'
  <2>1. \A q \in Runs : at[q] = "none" => at'[q] = "none" /\ pos'[q] = pos[q]
    BY <1>1, <1>4 DEF Moves
  <2>2. \A q \in Runs : at'[q] = "none" => at[q] = "none"
    BY <1>1, <1>4 DEF Moves
  <2>3. \A i \in 1 .. Len(q_cmd) : q_cmd[i].run \in Runs
    BY <1>0, QueueTyped
  <2> QED BY <1>0, <1>2, <2>1, <2>2, <2>3 DEF StartInv, IsStart
<1>9. \A s \in Sockets : written[s] \subseteq written'[s]
  BY <1>1 DEF Boards
<1>10. Plain' = Plain
  BY <1>4 DEF Plain
<1>11. \A q \in Runs : socket[q] \in Sockets
  BY <1>0 DEF BoardType
<1>12. FlashInv'
  <2>1. ASSUME NEW q \in Runs, (Working(q))' PROVE (Passed(q))'
    <3>1. Passed(q)
      BY <1>0, <1>3, <2>1 DEF FlashInv
    <3> SUFFICES ASSUME NEW p \in 1 .. Len(file), p < pos'[q], file[p] = "block"
                 PROVE  (WrittenBefore(socket[q], p))'
      BY <1>4 DEF Passed
    <3>2. pos[q] \in Nat /\ p \in Nat
      BY <1>0 DEF BoardType
    <3>3. WrittenBefore(socket[q], p)
      <4>1. CASE p < pos[q]
        BY <3>1, <4>1 DEF Passed
      <4>2. CASE ~(p < pos[q])
        <5>1. q = r /\ pos'[r] = pos[r] + 1
          BY <1>1, <3>2, <4>2 DEF Moves
        <5>2. p = pos[r]
          BY <3>2, <4>2, <5>1
        <5> QED BY <1>1, <3>2, <5>1, <5>2 DEF Moves
      <4> QED BY <4>1, <4>2
    <3>4. (WrittenBefore(socket[q], p))' <=> WrittenBefore(socket[q], p)'
      OBVIOUS
    <3> QED BY <1>4, <1>9, <1>11, <3>3, WrittenKept
  <2>2. ASSUME NEW q \in Runs, Plain', at'[q] \in {"off", "put"}, ok'[q]
        PROVE  (Programmed(socket[q]))'
    <3>1. Programmed(socket[q])
      <4>1. CASE at[q] \in {"off", "put"} /\ ok[q]
        BY <1>0, <1>10, <2>2, <4>1 DEF FlashInv
      <4>2. CASE ~(at[q] \in {"off", "put"} /\ ok[q])
        <5>1. q = r /\ pos[r] > Len(file)
          BY <1>1, <1>10, <2>2, <4>2 DEF Moves
        <5>2. Passed(r)
          BY <1>0, <1>1 DEF FlashInv
        <5>3. \A p \in 1 .. Len(file) : p < pos[r]
          BY <1>0, <5>1 DEF BoardType
        <5> QED BY <5>1, <5>2, <5>3 DEF Passed, Programmed
      <4> QED BY <4>1, <4>2
    <3> QED BY <1>4, <1>9, <1>11, <3>1, ProgrammedKept
  <2>3. ASSUME NEW i \in 1 .. Len(q_cmd), Plain, IsResult(i), q_cmd[i].ok
        PROVE  Programmed(q_cmd[i].socket)'
    <3> DEFINE s == q_cmd[i].socket
    <3>1. s \in Sockets /\ s' = s
      BY <1>0, <1>2, QueueTyped
    <3>2. Programmed(s)
      BY <1>0, <2>3 DEF FlashInv
    <3> HIDE DEF s
    <3>3. written[s] \subseteq written'[s]
      BY <1>9, <3>1
    <3>4. \A p \in 1 .. Len(file) : file[p] = "block" =>
            \A q \in 1 .. p - 1 : file[q] = "write" => q \in written'[s]
      BY <3>2, <3>3 DEF Programmed, WrittenBefore
    <3>5. \A p \in 1 .. Len(file') : file'[p] = "block" =>
            \A q \in 1 .. p - 1 : file'[q] = "write" => q \in written'[s']
      BY <1>4, <3>1, <3>4
    <3> QED BY <3>5 DEF Programmed, WrittenBefore, s
  <2> QED BY <1>2, <1>4, <1>10, <2>1, <2>2, <2>3 DEF FlashInv, IsResult
<1>13. PassIsProgrammed'
  BY <1>0, <1>2, <1>4, <1>9, <1>10, ProgrammedKept DEF PassIsProgrammed
<1> QED BY <1>5, <1>6, <1>7, <1>8, <1>12, <1>13 DEF IInv

LEMMA PutInv ==
  ASSUME IInv, NEW r \in Runs, PutResult(r)
  PROVE  IInv'
<1>0. TypeOK /\ FutureInv /\ ResultInv /\ StartInv /\ ButtonInv /\ FlashInv
      /\ PassIsProgrammed /\ BoardType
  BY Typed DEF IInv
<1>1. /\ at[r] = "put" /\ at' = [at EXCEPT ![r] = "ended"]
      /\ q_cmd' = Append(q_cmd, Result(r))
      /\ UNCHANGED <<file, powered, mode, written, socket, pos, sec, tries, ok,
                     faults, futures, button, shown, clicks, swapped>>
  BY DEF PutResult, Go, board
<1>2. at \in [Runs -> Places] /\ socket[r] \in Sockets /\ ok[r] \in BOOLEAN
      /\ r <= clicks
  <2>1. at \in [Runs -> Places] /\ socket[r] \in Sockets /\ ok[r] \in BOOLEAN
    BY <1>0 DEF BoardType
  <2>2. r <= clicks
    BY <1>0, <1>1 DEF TypeOK
  <2> QED BY <2>1, <2>2
<1>3. at'[r] = "ended" /\ (\A q \in Runs : q # r => at'[q] = at[q])
      /\ at' \in [Runs -> Places]
  BY <1>1, <1>2 DEF Places
<1>4. Working(r) /\ ~(Working(r))'
      /\ \A q \in Runs : (Working(q))' => Working(q) /\ q # r
  BY <1>1, <1>3 DEF Working
<1>5. Result(r) \in Messages
  BY <1>2 DEF Result, Messages
<1> DEFINE n == Len(q_cmd) + 1
<1>6. /\ q_cmd' \in Seq(Messages) /\ Len(q_cmd') = n /\ Len(q_cmd) \in Nat
      /\ q_cmd'[n] = Result(r)
      /\ \A i \in 1 .. Len(q_cmd) : q_cmd'[i] = q_cmd[i]
      /\ \A i \in 1 .. Len(q_cmd') : i \in 1 .. Len(q_cmd) \/ i = n
  BY <1>0, <1>1, <1>5, AppendFacts
<1> HIDE DEF n
<1>7. Result(r).what = "result" /\ Result(r).socket = socket[r]
      /\ Result(r).ok = ok[r]
  BY DEF Result
<1>8. TypeOK'
  <2>1. \A q \in Runs : at'[q] # "none" => q <= clicks
    BY <1>0, <1>2, <1>3 DEF TypeOK
  <2> QED BY <1>0, <1>1, <1>3, <1>6, <2>1 DEF TypeOK
<1>9. FutureInv' /\ ButtonInv'
  BY <1>0, <1>1, <1>4 DEF FutureInv, ButtonInv
<1>10. \A q \in Runs : Working(q) /\ socket[q] = socket[r] => q = r
  BY <1>0, <1>4 DEF FutureInv
<1>11. futures[socket[r]] # 0
  BY <1>0, <1>4 DEF FutureInv, Runs
<1>12. ResultInv'
  <2>1. ASSUME NEW i \in 1 .. Len(q_cmd'), IsResult(i)'
        PROVE  /\ futures'[q_cmd'[i].socket] # 0
               /\ \A q \in Runs : (Working(q))' => socket'[q] # q_cmd'[i].socket
    <3>1. CASE i \in 1 .. Len(q_cmd)
      BY <1>0, <1>1, <1>4, <1>6, <2>1, <3>1 DEF ResultInv, IsResult
    <3>2. CASE i = n
      BY <1>1, <1>4, <1>6, <1>7, <1>10, <1>11, <3>2
    <3> QED BY <1>6, <3>1, <3>2
  <2>2. ASSUME NEW i \in 1 .. Len(q_cmd'), NEW j \in 1 .. Len(q_cmd'),
               IsResult(i)', IsResult(j)', q_cmd'[i].socket = q_cmd'[j].socket
        PROVE  i = j
    <3>1. \A k \in 1 .. Len(q_cmd) : IsResult(k) => q_cmd[k].socket # socket[r]
      BY <1>0, <1>4 DEF ResultInv
    <3>2. CASE i \in 1 .. Len(q_cmd) /\ j \in 1 .. Len(q_cmd)
      BY <1>0, <1>6, <2>2, <3>2 DEF ResultInv, IsResult
    <3>3. CASE i \in 1 .. Len(q_cmd) /\ j = n
      BY <1>6, <1>7, <2>2, <3>1, <3>3 DEF IsResult
    <3>4. CASE i = n /\ j \in 1 .. Len(q_cmd)
      BY <1>6, <1>7, <2>2, <3>1, <3>4 DEF IsResult
    <3> QED BY <1>6, <3>2, <3>3, <3>4
  <2> QED BY <2>1, <2>2 DEF ResultInv
<1>13. StartInv'
  <2>1. \A i \in 1 .. Len(q_cmd') : IsStart(i)' => i \in 1 .. Len(q_cmd) /\ IsStart(i)
    BY <1>6, <1>7 DEF IsStart
  <2>2. \A i \in 1 .. Len(q_cmd) : q_cmd[i].run \in Runs
    BY <1>0, QueueTyped
  <2>3. \A q \in Runs : at[q] = "none" <=> at'[q] = "none"
    BY <1>1, <1>3
  <2> QED BY <1>0, <1>1, <1>6, <2>1, <2>2, <2>3 DEF StartInv
<1>14. FlashInv'
  <2>1. \A q \in Runs : (Working(q))' => (Passed(q))'
    BY <1>0, <1>1, <1>4 DEF FlashInv, Passed, WrittenBefore
  <2>2. (\A s \in Sockets : Programmed(s)' <=> Programmed(s)) /\ Plain' = Plain
    BY <1>1 DEF Programmed, WrittenBefore, Plain
  <2>3. \A q \in Runs : Plain' /\ at'[q] \in {"off", "put"} /\ ok'[q]
          => at[q] \in {"off", "put"} /\ ok[q] /\ Plain
    BY <1>1, <1>3, <2>2
  <2>4. \A q \in Runs : Plain /\ at[q] \in {"off", "put"} /\ ok[q]
          => Programmed(socket[q])
    BY <1>0 DEF FlashInv
  <2>5. \A q \in Runs : Plain' /\ at'[q] \in {"off", "put"} /\ ok'[q]
          => Programmed(socket[q])'
    BY <1>1, <2>3, <2>4 DEF Programmed, WrittenBefore
  <2>6. ASSUME NEW i \in 1 .. Len(q_cmd'), Plain', IsResult(i)', q_cmd'[i].ok
        PROVE  Programmed(q_cmd[i].socket)'
    <3>1. CASE i \in 1 .. Len(q_cmd)
      <4>1. Programmed(q_cmd[i].socket)
        BY <1>0, <1>6, <2>2, <2>6, <3>1 DEF FlashInv, IsResult
      <4> QED BY <1>1, <1>6, <3>1, <4>1 DEF Programmed, WrittenBefore
    <3>2. CASE i = n
      <4>1. q_cmd'[i].socket = socket[r] /\ Programmed(socket[r])
        BY <1>0, <1>1, <1>6, <1>7, <2>2, <2>6, <3>2 DEF FlashInv
      <4> QED BY <1>1, <4>1 DEF Programmed, WrittenBefore
    <3> QED BY <1>6, <3>1, <3>2
  <2> QED BY <2>1, <2>5, <2>6 DEF FlashInv
<1>15. PassIsProgrammed'
  BY <1>0, <1>1 DEF PassIsProgrammed, Programmed, WrittenBefore, Plain
<1> QED BY <1>8, <1>9, <1>12, <1>13, <1>14, <1>15 DEF IInv

LEMMA TakeStartInv ==
  ASSUME IInv, TakeStart
  PROVE  IInv'
<1>0. TypeOK /\ FutureInv /\ ResultInv /\ StartInv /\ ButtonInv /\ FlashInv
      /\ PassIsProgrammed /\ BoardType
  BY Typed DEF IInv
<1> DEFINE c == q_cmd[1]
           s == c.socket
           r == c.run
<1>1. /\ q_cmd # <<>> /\ q_cmd' = Tail(q_cmd) /\ Head(q_cmd).what = "start"
      /\ UNCHANGED <<file, powered, mode, written, pos, sec, tries, ok, faults, clicks>>
  BY DEF TakeStart, Command, board
<1>2. /\ q_cmd' \in Seq(Messages) /\ Len(q_cmd') = Len(q_cmd) - 1
      /\ 1 \in 1 .. Len(q_cmd) /\ Head(q_cmd) = c
      /\ \A i \in 1 .. Len(q_cmd') :
           i + 1 \in 1 .. Len(q_cmd) /\ i + 1 # 1 /\ q_cmd'[i] = q_cmd[i + 1]
  BY <1>0, <1>1, TailFacts
<1>3. s \in Sockets /\ r \in Runs /\ IsStart(1)
  BY <1>0, <1>1, <1>2, QueueTyped DEF IsStart
<1>4. at[r] = "none" /\ r <= clicks /\ pos[r] = 1
  BY <1>0, <1>2, <1>3 DEF StartInv
<1>5. \A i \in 1 .. Len(q_cmd') : IsStart(i)' => q_cmd'[i].run # r
  BY <1>0, <1>2, <1>3 DEF StartInv, IsStart
<1>6. \A i \in 1 .. Len(q_cmd') : IsStart(i)' => IsStart(i + 1)
  BY <1>2 DEF IsStart
<1>7. \A i \in 1 .. Len(q_cmd') : IsResult(i)' => IsResult(i + 1)
  BY <1>2 DEF IsResult
<1>8. \A i \in 1 .. Len(q_cmd') : q_cmd[i + 1].run \in Runs
                                  /\ q_cmd[i + 1].socket \in Sockets
  BY <1>0, <1>2, QueueTyped
<1>9. \A i, j \in 1 .. Len(q_cmd') : i + 1 = j + 1 => i = j
  BY <1>2
<1> HIDE DEF c, s, r
<1>10. (\A t \in Sockets : Programmed(t)' <=> Programmed(t)) /\ Plain' = Plain
  BY <1>1 DEF Programmed, WrittenBefore, Plain
<1>11. \A i \in 1 .. Len(q_cmd') : Plain' /\ IsResult(i)' /\ q_cmd'[i].ok
         => Programmed(q_cmd'[i].socket)
  BY <1>0, <1>2, <1>7, <1>10 DEF FlashInv
<1>12. \A i \in 1 .. Len(q_cmd') : Plain' /\ IsResult(i)' /\ q_cmd'[i].ok
         => Programmed(q_cmd[i].socket)'
  BY <1>1, <1>11 DEF Programmed, WrittenBefore
<1>13. CASE UNCHANGED <<socket, at, futures, button, shown, swapped>>
  <2>1. TypeOK'
    BY <1>0, <1>1, <1>2, <1>13 DEF TypeOK
  <2>2. FutureInv' /\ ButtonInv'
    BY <1>0, <1>13 DEF FutureInv, ButtonInv, Working
  <2>3. ResultInv'
    <3>1. ASSUME NEW i \in 1 .. Len(q_cmd'), IsResult(i)'
          PROVE  /\ futures'[q_cmd'[i].socket] # 0
                 /\ \A q \in Runs : (Working(q))' => socket'[q] # q_cmd'[i].socket
      <4>1. q_cmd'[i] = q_cmd[i + 1] /\ i + 1 \in 1 .. Len(q_cmd) /\ IsResult(i + 1)
        BY <1>2, <1>7, <3>1
      <4> QED BY <1>0, <1>13, <4>1 DEF ResultInv, Working
    <3>2. \A i, j \in 1 .. Len(q_cmd') :
            IsResult(i)' /\ IsResult(j)' /\ q_cmd'[i].socket = q_cmd'[j].socket => i = j
      BY <1>0, <1>2, <1>7, <1>9 DEF ResultInv
    <3> QED BY <3>1, <3>2 DEF ResultInv
  <2>4. StartInv'
    BY <1>0, <1>1, <1>2, <1>6, <1>9, <1>13 DEF StartInv
  <2>5. FlashInv'
    <3>1. \A q \in Runs : (Working(q))' => (Passed(q))'
      BY <1>0, <1>1, <1>13 DEF FlashInv, Passed, WrittenBefore, Working
    <3>2. \A q \in Runs : Plain' /\ at'[q] \in {"off", "put"} /\ ok'[q]
            => Programmed(socket[q])
      BY <1>0, <1>1, <1>10, <1>13 DEF FlashInv
    <3>3. \A q \in Runs : Plain' /\ at'[q] \in {"off", "put"} /\ ok'[q]
            => Programmed(socket[q])'
      BY <1>1, <1>13, <3>2 DEF Programmed, WrittenBefore
    <3> QED BY <1>12, <3>1, <3>3 DEF FlashInv
  <2>6. PassIsProgrammed'
    BY <1>0, <1>10, <1>13 DEF PassIsProgrammed
  <2> QED BY <2>1, <2>2, <2>3, <2>4, <2>5, <2>6 DEF IInv
<1>14. CASE futures[s] = 0 /\ StartWorker(c)
  <2>1. /\ socket' = [socket EXCEPT ![r] = s] /\ at' = [at EXCEPT ![r] = "start"]
        /\ futures' = [futures EXCEPT ![s] = r]
        /\ button' = [button EXCEPT ![s] = "disabled"]
        /\ shown' = [shown EXCEPT ![s] = "process"]
        /\ swapped' = [swapped EXCEPT ![s] = FALSE]
    BY <1>14 DEF StartWorker, s, r
  <2>2. /\ socket' \in [Runs -> Sockets] /\ at' \in [Runs -> Places]
        /\ socket'[r] = s /\ at'[r] = "start"
        /\ \A q \in Runs : q # r => socket'[q] = socket[q] /\ at'[q] = at[q]
    BY <1>0, <1>3, <2>1 DEF BoardType, Places
  <2>3. /\ futures' \in [Sockets -> 0 .. MaxRuns] /\ futures'[s] = r
        /\ \A t \in Sockets : t # s => futures'[t] = futures[t]
    <3>1. futures \in [Sockets -> 0 .. MaxRuns] /\ r \in 0 .. MaxRuns
      BY <1>0, <1>3 DEF TypeOK, Runs
    <3> QED BY <1>3, <2>1, <3>1
  <2>4. /\ button' \in [Sockets -> {"normal", "disabled"}] /\ button'[s] = "disabled"
        /\ shown' \in [Sockets -> {"none", "process", "pass", "fail"}]
        /\ shown'[s] = "process" /\ swapped' \in [Sockets -> BOOLEAN]
        /\ \A t \in Sockets : t # s => /\ button'[t] = button[t]
                                       /\ shown'[t] = shown[t]
                                       /\ swapped'[t] = swapped[t]
    BY <1>0, <1>3, <2>1 DEF TypeOK
  <2>5. \A q \in Runs : Working(q) => socket[q] # s
    BY <1>0, <1>14 DEF FutureInv, Runs
  <2>6. \A i \in 1 .. Len(q_cmd) : IsResult(i) => q_cmd[i].socket # s
    BY <1>0, <1>14 DEF ResultInv
  <2>7. \A q \in Runs : (Working(q))' => q = r \/ (q # r /\ Working(q))
    BY <2>2 DEF Working
  <2>8. TypeOK'
    <3>1. \A q \in Runs : at'[q] # "none" => q <= clicks'
      BY <1>0, <1>1, <1>4, <2>2 DEF TypeOK
    <3>2. /\ file' \in Files /\ clicks' \in 0 .. MaxRuns
          /\ powered' \in [Sockets -> BOOLEAN] /\ mode' \in [Sockets -> Modes]
          /\ written' \in [Sockets -> SUBSET (1 .. Len(file'))]
          /\ pos' \in [Runs -> 1 .. Len(file') + 1]
          /\ sec' \in [Runs -> Modes \cup {"none"}]
          /\ tries' \in [Runs -> 0 .. KeyTries] /\ ok' \in [Runs -> BOOLEAN]
          /\ faults' \in 0 .. MaxFaults
      BY <1>0, <1>1 DEF TypeOK
    <3> QED BY <1>2, <2>2, <2>3, <2>4, <3>1, <3>2 DEF TypeOK
  <2>9. FutureInv'
    <3>1. \A q \in Runs : socket[q] \in Sockets
      BY <1>0 DEF BoardType
    <3> QED BY <1>0, <2>2, <2>3, <2>5, <2>7, <3>1 DEF FutureInv
  <2>10. ButtonInv'
    BY <1>0, <2>3, <2>4 DEF ButtonInv
  <2>11. ResultInv'
    <3>1. ASSUME NEW i \in 1 .. Len(q_cmd'), IsResult(i)'
          PROVE  /\ futures'[q_cmd'[i].socket] # 0
                 /\ \A q \in Runs : (Working(q))' => socket'[q] # q_cmd'[i].socket
      <4>1. q_cmd'[i] = q_cmd[i + 1] /\ i + 1 \in 1 .. Len(q_cmd) /\ IsResult(i + 1)
            /\ q_cmd[i + 1].socket \in Sockets
        BY <1>2, <1>7, <1>8, <3>1
      <4>2. q_cmd[i + 1].socket # s
        BY <2>6, <4>1
      <4>3. /\ futures[q_cmd[i + 1].socket] # 0
            /\ \A q \in Runs : Working(q) => socket[q] # q_cmd[i + 1].socket
        BY <1>0, <4>1 DEF ResultInv
      <4>4. futures'[q_cmd'[i].socket] # 0
        BY <2>3, <4>1, <4>2, <4>3
      <4>5. \A q \in Runs : (Working(q))' => socket'[q] # q_cmd'[i].socket
        BY <2>2, <2>7, <4>1, <4>2, <4>3
      <4> QED BY <4>4, <4>5
    <3>2. \A i, j \in 1 .. Len(q_cmd') :
            IsResult(i)' /\ IsResult(j)' /\ q_cmd'[i].socket = q_cmd'[j].socket => i = j
      BY <1>0, <1>2, <1>7, <1>9 DEF ResultInv
    <3> QED BY <3>1, <3>2 DEF ResultInv
  <2>12. StartInv'
    <3>1. \A i \in 1 .. Len(q_cmd') : IsStart(i)' =>
            q_cmd'[i].run <= clicks' /\ at'[q_cmd'[i].run] = "none"
      BY <1>0, <1>1, <1>2, <1>5, <1>6, <1>8, <2>2 DEF StartInv, r, c
    <3>2. \A i, j \in 1 .. Len(q_cmd') :
            IsStart(i)' /\ IsStart(j)' /\ q_cmd'[i].run = q_cmd'[j].run => i = j
      BY <1>0, <1>2, <1>6, <1>9 DEF StartInv
    <3>3. \A q \in Runs : at'[q] = "none" => pos'[q] = 1
      BY <1>0, <1>1, <2>2 DEF StartInv
    <3> QED BY <3>1, <3>2, <3>3 DEF StartInv
  <2>13. FlashInv'
    <3>1. ASSUME NEW q \in Runs, (Working(q))' PROVE (Passed(q))'
      <4>1. CASE q = r
        <5>1. \A p \in 1 .. Len(file) : ~(p < 1)
          OBVIOUS
        <5> QED BY <1>1, <1>4, <4>1, <5>1 DEF Passed
      <4>2. CASE q # r
        BY <1>0, <1>1, <2>2, <2>7, <3>1, <4>2 DEF FlashInv, Passed, WrittenBefore
      <4> QED BY <4>1, <4>2
    <3>2. ASSUME NEW q \in Runs, Plain', at'[q] \in {"off", "put"}, ok'[q]
          PROVE  (Programmed(socket[q]))'
      <4>1. q # r /\ at[q] \in {"off", "put"} /\ ok[q] /\ Plain
        BY <1>1, <1>10, <2>2, <3>2
      <4>2. Programmed(socket[q]) /\ socket'[q] = socket[q]
        BY <1>0, <2>2, <4>1 DEF FlashInv
      <4> QED BY <1>1, <4>2 DEF Programmed, WrittenBefore
    <3> QED BY <1>12, <3>1, <3>2 DEF FlashInv
  <2>14. PassIsProgrammed'
    BY <1>0, <1>10, <2>4 DEF PassIsProgrammed
  <2> QED BY <2>8, <2>9, <2>10, <2>11, <2>12, <2>13, <2>14 DEF IInv
<1>15. Head(q_cmd) = c
  BY <1>2 DEF c
<1> QED BY <1>13, <1>14, <1>15 DEF TakeStart, s

LEMMA TakeResultInv ==
  ASSUME IInv, TakeResult
  PROVE  IInv'
<1>0. TypeOK /\ FutureInv /\ ResultInv /\ StartInv /\ ButtonInv /\ FlashInv
      /\ PassIsProgrammed
  BY DEF IInv
<1> DEFINE c == q_cmd[1]
           s == c.socket
<1>1. /\ q_cmd # <<>> /\ q_cmd' = Tail(q_cmd) /\ Head(q_cmd).what = "result"
      /\ UNCHANGED <<file, powered, mode, written, socket, at, pos, sec, tries,
                     ok, faults, clicks, swapped>>
  BY DEF TakeResult, Command, flasher, board, worker
<1>2. /\ q_cmd' \in Seq(Messages) /\ Len(q_cmd') = Len(q_cmd) - 1
      /\ 1 \in 1 .. Len(q_cmd) /\ Head(q_cmd) = c
      /\ \A i \in 1 .. Len(q_cmd') :
           i + 1 \in 1 .. Len(q_cmd) /\ i + 1 # 1 /\ q_cmd'[i] = q_cmd[i + 1]
  BY <1>0, <1>1, TailFacts
<1>3. s \in Sockets /\ IsResult(1)
  BY <1>0, <1>1, <1>2, QueueTyped DEF IsResult
<1>4. /\ shown' = [shown EXCEPT ![s] = IF c.ok THEN "pass" ELSE "fail"]
      /\ button' = [button EXCEPT ![s] = "normal"]
      /\ futures' = [futures EXCEPT ![s] = 0]
  BY <1>2 DEF TakeResult
<1>5. \A r \in Runs : Working(r) => socket[r] # s
  BY <1>0, <1>2, <1>3 DEF ResultInv
<1>6. \A i \in 1 .. Len(q_cmd') : IsResult(i)' => IsResult(i + 1)
  BY <1>2 DEF IsResult
<1>7. \A i \in 1 .. Len(q_cmd') : IsResult(i)' => q_cmd'[i].socket # s
  BY <1>0, <1>2, <1>3, <1>6 DEF ResultInv
<1>8. \A i \in 1 .. Len(q_cmd') : q_cmd'[i].socket \in Sockets
  BY <1>0, <1>2, QueueTyped
<1>9. \A i, j \in 1 .. Len(q_cmd') : i + 1 = j + 1 => i = j
  BY <1>2
<1>10. Plain /\ c.ok => Programmed(s)
  BY <1>0, <1>2, <1>3 DEF FlashInv
<1> HIDE DEF c, s
<1>11. /\ futures' \in [Sockets -> 0 .. MaxRuns] /\ futures'[s] = 0
       /\ \A t \in Sockets : t # s => futures'[t] = futures[t]
  <2>1. futures \in [Sockets -> 0 .. MaxRuns] /\ 0 \in 0 .. MaxRuns
    BY <1>0, FlasherAssumption DEF TypeOK
  <2> QED BY <1>3, <1>4, <2>1
<1>12. /\ button' \in [Sockets -> {"normal", "disabled"}]
       /\ shown' \in [Sockets -> {"none", "process", "pass", "fail"}]
       /\ shown'[s] = "pass" => c.ok
       /\ \A t \in Sockets : t # s => button'[t] = button[t] /\ shown'[t] = shown[t]
  BY <1>0, <1>3, <1>4 DEF TypeOK
<1>13. (\A t \in Sockets : Programmed(t)' <=> Programmed(t)) /\ Plain' = Plain
  BY <1>1 DEF Programmed, WrittenBefore, Plain
<1>14. TypeOK'
  BY <1>0, <1>1, <1>2, <1>11, <1>12 DEF TypeOK
<1>15. FutureInv'
  <2>1. \A r \in Runs : socket[r] \in Sockets
    BY <1>0 DEF TypeOK
  <2> QED BY <1>0, <1>1, <1>5, <1>11, <2>1 DEF FutureInv, Working
<1>16. ButtonInv'
  BY <1>0, <1>11, <1>12 DEF ButtonInv
<1>17. ResultInv'
  <2>1. ASSUME NEW i \in 1 .. Len(q_cmd'), IsResult(i)'
        PROVE  /\ futures'[q_cmd'[i].socket] # 0
               /\ \A r \in Runs : (Working(r))' => socket'[r] # q_cmd'[i].socket
    <3>1. /\ futures[q_cmd'[i].socket] # 0
          /\ \A r \in Runs : Working(r) => socket[r] # q_cmd'[i].socket
      BY <1>0, <1>2, <1>6, <2>1 DEF ResultInv
    <3> QED BY <1>1, <1>7, <1>8, <1>11, <2>1, <3>1 DEF Working
  <2>2. \A i, j \in 1 .. Len(q_cmd') :
          IsResult(i)' /\ IsResult(j)' /\ q_cmd'[i].socket = q_cmd'[j].socket => i = j
    BY <1>0, <1>2, <1>6, <1>9 DEF ResultInv
  <2> QED BY <2>1, <2>2 DEF ResultInv
<1>18. StartInv'
  <2>1. \A i \in 1 .. Len(q_cmd') : IsStart(i)' => IsStart(i + 1)
    BY <1>2 DEF IsStart
  <2> QED BY <1>0, <1>1, <1>2, <1>9, <2>1 DEF StartInv
<1>19. FlashInv'
  <2>1. \A r \in Runs : (Working(r))' => (Passed(r))'
    BY <1>0, <1>1 DEF FlashInv, Passed, WrittenBefore, Working
  <2>2. \A r \in Runs : Plain' /\ at'[r] \in {"off", "put"} /\ ok'[r]
          => Programmed(socket[r])
    BY <1>0, <1>1, <1>13 DEF FlashInv
  <2>3. \A r \in Runs : Plain' /\ at'[r] \in {"off", "put"} /\ ok'[r]
          => Programmed(socket[r])'
    BY <1>1, <2>2 DEF Programmed, WrittenBefore
  <2>4. \A i \in 1 .. Len(q_cmd') : Plain' /\ IsResult(i)' /\ q_cmd'[i].ok
          => Programmed(q_cmd'[i].socket)
    BY <1>0, <1>2, <1>6, <1>13 DEF FlashInv
  <2>5. \A i \in 1 .. Len(q_cmd') : Plain' /\ IsResult(i)' /\ q_cmd'[i].ok
          => Programmed(q_cmd[i].socket)'
    BY <1>1, <2>4 DEF Programmed, WrittenBefore
  <2> QED BY <2>1, <2>3, <2>5 DEF FlashInv
<1>20. PassIsProgrammed'
  BY <1>0, <1>1, <1>3, <1>10, <1>12, <1>13 DEF PassIsProgrammed
<1> QED BY <1>14, <1>15, <1>16, <1>17, <1>18, <1>19, <1>20 DEF IInv

LEMMA PressInv ==
  ASSUME IInv, NEW s \in Sockets, Press(s)
  PROVE  IInv'
<1>0. TypeOK /\ FutureInv /\ ResultInv /\ StartInv /\ ButtonInv /\ FlashInv
      /\ PassIsProgrammed
  BY DEF IInv
<1>1. /\ clicks < MaxRuns /\ q_cmd' = Append(q_cmd, Start(s)) /\ clicks' = clicks + 1
      /\ UNCHANGED <<file, powered, mode, written, socket, at, pos, sec, tries,
                     ok, faults, futures, button, shown, swapped>>
  BY DEF Press, flasher, board, worker
<1>2. clicks \in 0 .. MaxRuns /\ clicks + 1 \in 0 .. MaxRuns /\ clicks + 1 \in Runs
      /\ clicks \in Nat
  BY <1>0, <1>1, FlasherAssumption DEF TypeOK, Runs
<1>3. Start(s) \in Messages /\ Start(s).what = "start" /\ Start(s).run = clicks + 1
  BY <1>2 DEF Start, Messages
<1> DEFINE n == Len(q_cmd) + 1
<1>4. /\ q_cmd' \in Seq(Messages) /\ Len(q_cmd') = n /\ Len(q_cmd) \in Nat
      /\ q_cmd'[n] = Start(s)
      /\ \A i \in 1 .. Len(q_cmd) : q_cmd'[i] = q_cmd[i]
      /\ \A i \in 1 .. Len(q_cmd') : i \in 1 .. Len(q_cmd) \/ i = n
  BY <1>0, <1>1, <1>3, AppendFacts
<1> HIDE DEF n
<1>5. \A i \in 1 .. Len(q_cmd') : IsResult(i)' => i \in 1 .. Len(q_cmd) /\ IsResult(i)
  BY <1>3, <1>4 DEF IsResult
<1>6. \A r \in Runs : at[r] # "none" => r <= clicks
  BY <1>0 DEF TypeOK
<1>7. \A r \in Runs : r <= clicks => r <= clicks + 1
  BY <1>2 DEF Runs
<1>8. ~(clicks + 1 <= clicks)
  BY <1>2
<1>9. TypeOK'
  BY <1>0, <1>1, <1>2, <1>4, <1>6, <1>7 DEF TypeOK
<1>10. FutureInv' /\ ButtonInv'
  BY <1>0, <1>1 DEF FutureInv, ButtonInv, Working
<1>11. ResultInv'
  BY <1>0, <1>1, <1>4, <1>5 DEF ResultInv, Working
<1>12. StartInv'
  <2>1. \A i \in 1 .. Len(q_cmd) : q_cmd[i].run \in Runs
    BY <1>0, QueueTyped
  <2>2. \A i \in 1 .. Len(q_cmd) : IsStart(i)' => IsStart(i)
    BY <1>4 DEF IsStart
  <2>3. ASSUME NEW i \in 1 .. Len(q_cmd'), IsStart(i)'
        PROVE  q_cmd'[i].run <= clicks' /\ at'[q_cmd'[i].run] = "none"
    <3>1. CASE i \in 1 .. Len(q_cmd)
      <4>1. q_cmd'[i] = q_cmd[i] /\ q_cmd[i].run <= clicks /\ at[q_cmd[i].run] = "none"
        BY <1>0, <1>4, <2>2, <2>3, <3>1 DEF StartInv
      <4> QED BY <1>1, <1>7, <2>1, <3>1, <4>1
    <3>2. CASE i = n
      <4>1. at[clicks + 1] = "none"
        BY <1>2, <1>6, <1>8
      <4> QED BY <1>1, <1>2, <1>3, <1>4, <3>2, <4>1
    <3> QED BY <1>4, <3>1, <3>2
  <2>4. \A i \in 1 .. Len(q_cmd) : IsStart(i) => q_cmd[i].run # clicks + 1
    BY <1>0, <1>8 DEF StartInv
  <2>5. ASSUME NEW i \in 1 .. Len(q_cmd'), NEW j \in 1 .. Len(q_cmd'),
               IsStart(i)', IsStart(j)', q_cmd'[i].run = q_cmd'[j].run
        PROVE  i = j
    <3>1. CASE i \in 1 .. Len(q_cmd) /\ j \in 1 .. Len(q_cmd)
      BY <1>0, <1>4, <2>2, <2>5, <3>1 DEF StartInv
    <3>2. CASE i \in 1 .. Len(q_cmd) /\ j = n
      BY <1>3, <1>4, <2>2, <2>4, <2>5, <3>2
    <3>3. CASE i = n /\ j \in 1 .. Len(q_cmd)
      BY <1>3, <1>4, <2>2, <2>4, <2>5, <3>3
    <3> QED BY <1>4, <3>1, <3>2, <3>3
  <2> QED BY <1>0, <1>1, <2>3, <2>5 DEF StartInv
<1>13. (\A t \in Sockets : Programmed(t)' <=> Programmed(t)) /\ Plain' = Plain
  BY <1>1 DEF Programmed, WrittenBefore, Plain
<1>14. FlashInv'
  <2>1. \A r \in Runs : (Working(r))' => (Passed(r))'
    BY <1>0, <1>1 DEF FlashInv, Passed, WrittenBefore, Working
  <2>2. \A r \in Runs : Plain' /\ at'[r] \in {"off", "put"} /\ ok'[r]
          => Programmed(socket[r])
    BY <1>0, <1>1, <1>13 DEF FlashInv
  <2>3. \A r \in Runs : Plain' /\ at'[r] \in {"off", "put"} /\ ok'[r]
          => Programmed(socket[r])'
    BY <1>1, <2>2 DEF Programmed, WrittenBefore
  <2>4. \A i \in 1 .. Len(q_cmd') : Plain' /\ IsResult(i)' /\ q_cmd'[i].ok
          => Programmed(q_cmd'[i].socket)
    BY <1>0, <1>4, <1>5, <1>13 DEF FlashInv
  <2>5. \A i \in 1 .. Len(q_cmd') : Plain' /\ IsResult(i)' /\ q_cmd'[i].ok
          => Programmed(q_cmd[i].socket)'
    BY <1>1, <2>4 DEF Programmed, WrittenBefore
  <2> QED BY <2>1, <2>3, <2>5 DEF FlashInv
<1>15. PassIsProgrammed'
  BY <1>0, <1>1, <1>13 DEF PassIsProgrammed
<1> QED BY <1>9, <1>10, <1>11, <1>12, <1>14, <1>15 DEF IInv

(* No worker works on a socket that shows START, and no result is due.      *)
LEMMA SwapInv ==
  ASSUME IInv, NEW s \in Sockets, Swap(s)
  PROVE  IInv'
<1>0. TypeOK /\ FutureInv /\ ResultInv /\ StartInv /\ ButtonInv /\ FlashInv
      /\ PassIsProgrammed
  BY DEF IInv
<1>1. /\ button[s] = "normal" /\ written' = [written EXCEPT ![s] = {}]
      /\ swapped' = [swapped EXCEPT ![s] = TRUE]
      /\ UNCHANGED <<file, powered, socket, at, pos, sec, tries, ok, faults,
                     q_cmd, futures, button, shown, clicks>>
  BY DEF Swap, worker, window
<1>2. mode' \in [Sockets -> Modes]
  <2>1. PICK m \in NewModes : mode' = [mode EXCEPT ![s] = m]
    BY DEF Swap
  <2> QED BY <1>0, <2>1 DEF TypeOK, Modes, NewModes
<1>3. /\ written' \in [Sockets -> SUBSET (1 .. Len(file))]
      /\ \A t \in Sockets : t # s => written'[t] = written[t]
      /\ swapped' \in [Sockets -> BOOLEAN] /\ swapped'[s] = TRUE
      /\ \A t \in Sockets : t # s => swapped'[t] = swapped[t]
  BY <1>0, <1>1 DEF TypeOK
<1>4. futures[s] = 0
  BY <1>0, <1>1 DEF ButtonInv
<1>5. \A r \in Runs : Working(r) => socket[r] # s
  BY <1>0, <1>4 DEF FutureInv, Runs
<1>6. \A i \in 1 .. Len(q_cmd) : IsResult(i) => q_cmd[i].socket # s
  BY <1>0, <1>4 DEF ResultInv
<1>7. \A r \in Runs : socket[r] \in Sockets
  BY <1>0 DEF TypeOK
<1>8. Plain' = Plain /\ \A t \in Sockets : t # s => (Programmed(t) <=> Programmed(t)')
  BY <1>1, <1>3 DEF Plain, Programmed, WrittenBefore
<1>9. TypeOK'
  BY <1>0, <1>1, <1>2, <1>3 DEF TypeOK
<1>10. FutureInv' /\ ResultInv' /\ StartInv' /\ ButtonInv'
  BY <1>0, <1>1 DEF FutureInv, ResultInv, StartInv, ButtonInv, IsResult, IsStart,
                    Working
<1>11. FlashInv'
  <2>1. ASSUME NEW r \in Runs, (Working(r))' PROVE (Passed(r))'
    <3>1. Working(r) /\ Passed(r) /\ written'[socket[r]] = written[socket[r]]
      BY <1>0, <1>1, <1>3, <1>5, <1>7, <2>1 DEF FlashInv, Working
    <3> QED BY <1>1, <3>1 DEF Passed, WrittenBefore
  <2>2. ASSUME NEW r \in Runs, Plain', at'[r] \in {"off", "put"}, ok'[r]
        PROVE  (Programmed(socket[r]))'
    <3>1. Programmed(socket[r]) /\ socket[r] # s
      BY <1>0, <1>1, <1>5, <1>8, <2>2 DEF FlashInv, Working
    <3>2. written'[socket[r]] = written[socket[r]]
      BY <1>3, <1>7, <3>1
    <3> QED BY <1>1, <3>1, <3>2 DEF Programmed, WrittenBefore
  <2>3. ASSUME NEW i \in 1 .. Len(q_cmd), Plain, IsResult(i), q_cmd[i].ok
        PROVE  (Programmed(q_cmd[i].socket))'
    <3>1. Programmed(q_cmd[i].socket) /\ q_cmd[i].socket # s
          /\ q_cmd[i].socket \in Sockets
      BY <1>0, <1>6, <2>3, QueueTyped DEF FlashInv
    <3>2. written'[q_cmd[i].socket] = written[q_cmd[i].socket]
      BY <1>3, <3>1
    <3> QED BY <1>1, <3>1, <3>2 DEF Programmed, WrittenBefore
  <2> QED BY <1>1, <1>8, <2>1, <2>2, <2>3 DEF FlashInv, IsResult
<1>12. PassIsProgrammed'
  <2> SUFFICES ASSUME NEW t \in Sockets, Plain', shown'[t] = "pass", ~swapped'[t]
               PROVE  Programmed(t)'
    BY DEF PassIsProgrammed
  <2>1. t # s /\ ~swapped[t] /\ shown[t] = "pass"
    BY <1>1, <1>3
  <2>2. Programmed(t)
    BY <1>0, <1>8, <2>1 DEF PassIsProgrammed
  <2> QED BY <1>8, <2>1, <2>2
<1> QED BY <1>9, <1>10, <1>11, <1>12 DEF IInv

(* Neither the mode of a chip nor the fault counter is in the invariant.    *)
LEMMA OtherInv ==
  ASSUME IInv,
         UNCHANGED vars \/ \E s \in Sockets : Contact(s) /\ UNCHANGED <<window, swapped>>
  PROVE  IInv'
<1>0. TypeOK /\ FutureInv /\ ResultInv /\ StartInv /\ ButtonInv /\ FlashInv
      /\ PassIsProgrammed /\ BoardType
  BY Typed DEF IInv
<1>1. /\ UNCHANGED <<file, powered, written, socket, at, pos, sec, tries, ok,
                     q_cmd, futures, button, shown, clicks, swapped>>
      /\ mode' \in [Sockets -> Modes] /\ faults' \in 0 .. MaxFaults
  <2>1. CASE UNCHANGED vars
    BY <1>0, <2>1 DEF vars, flasher, board, worker, window, BoardType
  <2>2. CASE \E s \in Sockets : Contact(s) /\ UNCHANGED <<window, swapped>>
    BY <1>0, <2>2, FaultTyped, UnpoweredTyped DEF Contact, worker, window, BoardType
  <2> QED BY <2>1, <2>2
<1>2. TypeOK'
  BY <1>0, <1>1 DEF TypeOK
<1>3. FutureInv' /\ ResultInv' /\ StartInv' /\ ButtonInv'
  BY <1>0, <1>1 DEF FutureInv, ResultInv, StartInv, ButtonInv, IsResult, IsStart,
                    Working
<1>4. FlashInv' /\ PassIsProgrammed'
  BY <1>0, <1>1 DEF FlashInv, PassIsProgrammed, Passed, Programmed, WrittenBefore,
                    Plain, IsResult, Working
<1> QED BY <1>2, <1>3, <1>4 DEF IInv

LEMMA Step == IInv /\ [Next]_vars => IInv'
<1> SUFFICES ASSUME IInv, [Next]_vars PROVE IInv'
  OBVIOUS
<1>1. CASE \E s \in Sockets : Press(s) \/ Swap(s)
  BY <1>1, PressInv, SwapInv
<1>2. CASE \E s \in Sockets : Contact(s) /\ UNCHANGED <<window, swapped>>
  BY <1>2, OtherInv
<1>3. CASE process_command_queue
  BY <1>3, TakeStartInv, TakeResultInv DEF process_command_queue
<1>4. CASE \E r \in Runs : Worker(r)
  BY <1>4, FlasherInv, PutInv DEF Worker
<1>5. CASE UNCHANGED vars
  BY <1>5, OtherInv
<1> QED BY <1>1, <1>2, <1>3, <1>4, <1>5 DEF Next

(* Every variable of the programmer has its type.                           *)
THEOREM ProgrammerTyped == Spec => []TypeOK
<1>1. IInv => TypeOK
  BY DEF IInv
<1> QED BY <1>1, InitInv, Step, PTL DEF Spec

(* A board shown as passed has in its flash what the file compares, if no   *)
(* line of the file ends the programming with success.                      *)
THEOREM PassMeansProgrammed == Spec => []PassIsProgrammed
<1>1. IInv => PassIsProgrammed
  BY DEF IInv
<1> QED BY <1>1, InitInv, Step, PTL DEF Spec

(* No two workers write to the board of one socket.                         *)
THEOREM OneWriterPerSocket == Spec => []OneWriter
<1>1. IInv => OneWriter
  BY DEF IInv, FutureInv, OneWriter
<1> QED BY <1>1, InitInv, Step, PTL DEF Spec
=============================================================================
