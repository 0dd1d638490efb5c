---------------------------- MODULE ResultReport ----------------------------
(***************************************************************************)
(* DspInterface reports the result of a test run to the MES: it reads the  *)
(* list of the results kept in a local file, appends the new one, posts    *)
(* each, and saves the list of those the MES did not take.                 *)
(*                                                                         *)
(* What it does with a result the MES refuses is in Refused: no call saves *)
(* a list that is not empty.  A list may be in the file all the same, from *)
(* an earlier version of the program or from a script that saves before it *)
(* posts; its results are posted by every call until one call takes them   *)
(* all.                                                                    *)
(***************************************************************************)
EXTENDS Integers, SequencesExt

CONSTANTS
  Results,     \* test results, each reported by one call
  Faults,      \* what may go wrong: subset of FaultKinds
  MaxFaults,   \* bound: how often in all
  MaxKept      \* bound: how many results the file holds at the start

\* "refuse": the MES answers with another status than 200 and 202;
\* "silent": the request raises, the MES has taken the result or not;
\* "crash": the program ends and is started again.
FaultKinds == {"refuse", "silent", "crash"}

ASSUME ReportAssumption == /\ Faults \subseteq FaultKinds
                           /\ MaxFaults \in Nat /\ MaxKept \in Nat

VARIABLES
  has_file,     \* LOCAL_RESULT_FILE is set
  file,         \* the file: "missing", "corrupt" or a "list"
  kept,         \* the list in it, if it is one
  at,           \* the step of ts_send_result_for_testrun
  current,      \* its result
  result_list,  \* what it has to post, the first of it next
  remaining,    \* _remaining_list
  outcome,      \* history: how the call for a result ended
  taken,        \* history: how often the MES has taken a result
  faults        \* counter for the bound

disk == <<file, kept>>
lists == <<result_list, remaining>>
vars == <<has_file, disk, at, current, lists, outcome, taken, faults>>

Fault(f) == f \in Faults /\ faults < MaxFaults /\ faults' = faults + 1

(* The lists a file may hold when the program starts. *)
OldLists == {s \in UNION {[1 .. n -> Results] : n \in 0 .. MaxKept} :
               IsInjective(s)}
Kept(r) == \E i \in 1 .. Len(kept) : kept[i] = r

Init ==
  /\ has_file \in BOOLEAN
  /\ file \in {"missing", "corrupt", "list"}
  /\ kept \in OldLists /\ (kept # <<>> => has_file /\ file = "list")
  /\ at = "idle" /\ current \in Results
  /\ result_list = <<>> /\ remaining = <<>>
  /\ outcome = [r \in Results |-> IF Kept(r) THEN "kept" ELSE "none"]
  /\ taken = [r \in Results |-> 0]
  /\ faults = 0

EndSwallowed(o) ==   \* mutant: the exception is swallowed, the loop goes on
  at' = at /\ outcome' = [outcome EXCEPT ![current] = o]

End(o) == at' = "idle" /\ outcome' = [outcome EXCEPT ![current] = o]

SendResult(r) ==
  /\ at = "idle" /\ outcome[r] = "none"
  /\ at' = "load" /\ current' = r
  /\ outcome' = [outcome EXCEPT ![r] = "running"]
  /\ UNCHANGED <<has_file, disk, lists, taken, faults>>

LoadClears ==   \* mutant: the file is cleared when it is read
  /\ result_list' = Append(IF has_file /\ file = "list" THEN kept ELSE <<>>,
                           current)
  /\ IF has_file THEN file' = "list" /\ kept' = <<>> ELSE UNCHANGED disk

(* load_result_list_from_json, and the new result is appended.              *)
LoadList ==
  /\ result_list' = Append(IF has_file /\ file = "list" THEN kept ELSE <<>>,
                           current)
  /\ IF has_file /\ file # "list" THEN file' = "list" /\ kept' = <<>>
                                  ELSE UNCHANGED disk

Load ==
  /\ at = "load" /\ at' = "post"
  /\ LoadList /\ remaining' = <<>>
  /\ UNCHANGED <<has_file, current, outcome, taken, faults>>

Next1 == Head(result_list)

Taken ==
  /\ taken' = [taken EXCEPT ![Next1] = @ + 1]
  /\ result_list' = Tail(result_list)
  /\ UNCHANGED <<at, outcome, remaining, faults>>

(* The warning evaluates the answer with literal_eval, which takes a str,   *)
(* and the answer is bytes: ValueError, before the result is kept.          *)
Refused ==
  /\ Fault("refuse")
  /\ End("raised")
  /\ UNCHANGED <<lists, taken>>

Silent ==
  /\ Fault("silent")
  /\ taken' \in {taken, [taken EXCEPT ![Next1] = @ + 1]}
  /\ End("raised")
  /\ UNCHANGED <<lists>>

(* send_result_of_testrun                                                   *)
Post ==
  /\ at = "post" /\ result_list # <<>>
  /\ Taken \/ Refused \/ Silent
  /\ UNCHANGED <<has_file, disk, current>>

SaveNonEmpty ==   \* mutant: an empty list is not saved
  /\ at = "post" /\ result_list = <<>>
  /\ IF has_file /\ remaining # <<>>
     THEN file' = "list" /\ kept' = remaining ELSE UNCHANGED disk
  /\ End("returned")
  /\ UNCHANGED <<has_file, current, lists, taken, faults>>

Save ==
  /\ at = "post" /\ result_list = <<>>
  /\ IF has_file THEN file' = "list" /\ kept' = remaining ELSE UNCHANGED disk
  /\ End("returned")
  /\ UNCHANGED <<has_file, current, lists, taken, faults>>

(* The program ends, perhaps while it writes the file, or between the       *)
(* removal of a corrupt file and its replacement.                           *)
Crash ==
  /\ at # "idle" /\ Fault("crash")
  /\ End("crashed")
  /\ IF ~has_file THEN UNCHANGED disk
     ELSE \/ UNCHANGED disk
          \/ at = "load" /\ file # "list"
               /\ file' \in {"missing", "corrupt"} /\ UNCHANGED kept
          \/ at = "post" /\ result_list = <<>>
               /\ file' = "corrupt" /\ kept' = <<>>
  /\ UNCHANGED <<has_file, current, lists, taken>>

Next == (\E r \in Results : SendResult(r)) \/ Load \/ Post \/ Save \/ Crash

Spec == Init /\ [][Next]_vars

-----------------------------------------------------------------------------
(* Properties. *)

(* "kept": the result of a call of an earlier program, in the file at the   *)
(* start.                                                                   *)
Outcomes == {"kept", "none", "running", "returned", "raised", "crashed"}

(* Every variable has its type, and a call runs just when one is due.       *)
TypeOK ==
  /\ has_file \in BOOLEAN /\ file \in {"missing", "corrupt", "list"}
  /\ at \in {"idle", "load", "post"} /\ current \in Results
  /\ {kept, result_list, remaining} \subseteq Seq(Results)
  /\ outcome \in [Results -> Outcomes]
  /\ \A r \in Results : outcome[r] = "running" <=> (at # "idle" /\ r = current)
  /\ taken \in [Results -> Nat] /\ faults \in Nat

InFile(r) == has_file /\ file = "list" /\ Kept(r)

(* No result is dropped that a call has returned for or that the file held: *)
(* the MES has it, or the file has it for the next call, whatever posts     *)
(* fail and wherever the program ends.  (That a call which raises drops its *)
(* own is the code's doing: Refused.)                                       *)
NothingDropped ==
  \A r \in Results :
    outcome[r] \in {"returned", "kept"} => taken[r] > 0 \/ InFile(r)

(* The MES takes a result again only if a call has failed in between: a     *)
(* call's own result once at most, one the file held once more per failure. *)
TakenOnce ==
  \A r \in Results :
    taken[r] <= 1 + (IF outcome[r] = "kept" THEN faults ELSE 0)
=============================================================================
