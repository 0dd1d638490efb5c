---------------------------- MODULE ResultProofs ----------------------------
(***************************************************************************)
(* Proofs about ResultReport, for any results, any list in the file at the *)
(* start, and any faults and crashes.  The argument: a call posts the list *)
(* of the file and its own result in that order, so the first Posted of    *)
(* the file are taken, once more than before; a call that fails counts as  *)
(* a fault and leaves the file as it is, and the file is emptied only when *)
(* everything is posted.                                                   *)
(***************************************************************************)
EXTENDS ResultReport, SequenceTheorems, TLAPS

(* How many of the results of the file the call has posted (its own one    *)
(* too, when there is nothing left).                                       *)
Posted == IF at = "post" THEN Len(kept) + 1 - Len(result_list) ELSE 0

(* The list of the file: old results, each once.                            *)
FileInv ==
  /\ kept # <<>> => has_file /\ file = "list"
  /\ remaining = <<>>
  /\ \A i, j \in 1 .. Len(kept) : kept[i] = kept[j] => i = j
  /\ \A i \in 1 .. Len(kept) : outcome[kept[i]] = "kept"

(* What is left to post: the rest of the file, then the call's own result.  *)
ListInv ==
  at = "post" =>
    /\ Len(result_list) <= Len(kept) + 1
    /\ \A i \in 1 .. Len(result_list) :
         result_list[i] = IF Posted + i <= Len(kept) THEN kept[Posted + i]
                                                     ELSE current

(* How often the MES has taken a result of the file, and one that has left  *)
(* the file.                                                                *)
OldInv ==
  /\ \A i \in 1 .. Len(kept) :
       IF i <= Posted THEN taken[kept[i]] \in 1 .. faults + 1
                      ELSE taken[kept[i]] \in 0 .. faults
  /\ \A r \in Results :
       outcome[r] = "kept" /\ ~Kept(r) => taken[r] \in 1 .. faults + 1

(* How often it has taken the own result of a call.                         *)
NewInv ==
  /\ at = "load" => taken[current] = 0
  /\ at = "post" => taken[current] = IF result_list = <<>> THEN 1 ELSE 0
  /\ \A r \in Results : outcome[r] # "kept" => taken[r] \in {0, 1}
  /\ \A r \in Results : outcome[r] = "none" => taken[r] = 0
  /\ \A r \in Results : outcome[r] = "returned" => taken[r] = 1

IInv == TypeOK /\ FileInv /\ ListInv /\ OldInv /\ NewInv

LEMMA EmptyIsSeq == <<>> \in Seq(Results) /\ Len(<<>>) = 0
OBVIOUS

LEMMA KeptIsSeq == OldLists \subseteq Seq(Results)
<1> SUFFICES ASSUME NEW s \in OldLists PROVE s \in Seq(Results)
  OBVIOUS
<1>1. PICK n \in 0 .. MaxKept : s \in [1 .. n -> Results]
  BY DEF OldLists
<1> QED BY <1>1, ReportAssumption

LEMMA InitInv == Init => IInv
<1> SUFFICES ASSUME Init PROVE IInv
  OBVIOUS
<1>1. /\ at = "idle" /\ current \in Results /\ faults = 0
      /\ taken = [r \in Results |-> 0]
      /\ outcome = [r \in Results |-> IF Kept(r) THEN "kept" ELSE "none"]
      /\ remaining = <<>> /\ result_list = <<>>
      /\ kept \in Seq(Results)
      /\ (kept # <<>> => has_file /\ file = "list")
      /\ has_file \in BOOLEAN /\ file \in {"missing", "corrupt", "list"}
  BY KeptIsSeq DEF Init
<1>2. /\ outcome \in [Results -> Outcomes]
      /\ \A r \in Results : outcome[r] = IF Kept(r) THEN "kept" ELSE "none"
  BY <1>1 DEF Outcomes
<1>3. TypeOK
  BY <1>1, <1>2, EmptyIsSeq DEF TypeOK
<1>4. FileInv
  <2>1. IsInjective(kept)
    BY DEF Init, OldLists
  <2>2. \A i, j \in 1 .. Len(kept) : kept[i] = kept[j] => i = j
    BY <1>1, <2>1 DEF IsInjective
  <2>3. \A i \in 1 .. Len(kept) : kept[i] \in Results /\ Kept(kept[i])
    BY <1>1 DEF Kept
  <2> QED BY <1>1, <1>2, <2>2, <2>3 DEF FileInv
<1>5. ListInv
  BY <1>1 DEF ListInv
<1>6. OldInv
  <2>1. \A i \in 1 .. Len(kept) : taken[kept[i]] = 0 /\ ~(i <= Posted)
    BY <1>1 DEF Posted
  <2> QED BY <1>1, <1>2, <2>1 DEF OldInv
<1>7. NewInv
  BY <1>1, <1>2 DEF NewInv
<1> QED BY <1>3, <1>4, <1>5, <1>6, <1>7 DEF IInv

(* The invariant as facts on its parts.                                     *)
LEMMA Facts ==
  ASSUME IInv
  PROVE  /\ has_file \in BOOLEAN /\ file \in {"missing", "corrupt", "list"}
         /\ at \in {"idle", "load", "post"} /\ current \in Results
         /\ kept \in Seq(Results) /\ result_list \in Seq(Results)
         /\ remaining = <<>>
         /\ outcome \in [Results -> Outcomes]
         /\ \A r \in Results :
              outcome[r] = "running" <=> (at # "idle" /\ r = current)
         /\ taken \in [Results -> Nat] /\ faults \in Nat
         /\ \A i \in 1 .. Len(kept) :
              /\ kept[i] \in Results /\ outcome[kept[i]] = "kept"
              /\ Kept(kept[i])
              /\ (at # "idle" => kept[i] # current)
<1>1. /\ kept \in Seq(Results)
      /\ \A i \in 1 .. Len(kept) : outcome[kept[i]] = "kept"
  BY DEF IInv, TypeOK, FileInv
<1>2. \A i \in 1 .. Len(kept) : kept[i] \in Results /\ Kept(kept[i])
  BY <1>1 DEF Kept
<1>3. at # "idle" => outcome[current] = "running"
  BY DEF IInv, TypeOK
<1> QED BY <1>1, <1>2, <1>3 DEF IInv, TypeOK, FileInv

(* What a post has at hand: the next result of the file, or the own one.    *)
LEMMA PostFacts ==
  ASSUME IInv, at = "post", result_list # <<>>
  PROVE  /\ Posted \in 0 .. Len(kept) /\ Next1 \in Results
         /\ Next1 = IF Posted < Len(kept) THEN kept[Posted + 1] ELSE current
<1>1. /\ result_list \in Seq(Results) /\ kept \in Seq(Results)
      /\ Len(result_list) \in Nat /\ Len(kept) \in Nat
  BY Facts
<1>2. Len(result_list) >= 1 /\ Len(result_list) <= Len(kept) + 1
  BY <1>1 DEF IInv, ListInv
<1>3. Posted = Len(kept) + 1 - Len(result_list)
  BY DEF Posted
<1>4. Next1 = result_list[1] /\ Next1 \in Results
  BY <1>1, <1>2 DEF Next1
<1>5. result_list[1] = IF Posted + 1 <= Len(kept) THEN kept[Posted + 1]
                                                  ELSE current
  BY <1>1, <1>2 DEF IInv, ListInv
<1> QED BY <1>1, <1>2, <1>3, <1>4, <1>5

LEMMA TailFacts ==
  ASSUME NEW s \in Seq(Results), s # <<>>
  PROVE  /\ Tail(s) \in Seq(Results) /\ Len(Tail(s)) = Len(s) - 1
         /\ \A i \in 1 .. Len(Tail(s)) : Tail(s)[i] = s[i + 1]
         /\ Tail(s) = <<>> <=> Len(s) = 1
<1>1. Tail(s) \in Seq(Results) /\ Len(Tail(s)) = Len(s) - 1
  BY HeadTailProperties
<1>2. \A i \in 1 .. Len(Tail(s)) : Tail(s)[i] = s[i + 1]
  BY <1>1, HeadTailProperties
<1>3. Len(s) \in Nat /\ (Tail(s) = <<>> <=> Len(Tail(s)) = 0)
  BY <1>1, EmptySeq
<1> QED BY <1>1, <1>2, <1>3

(* A call ends with o.                                                      *)
LEMMA EndStep ==
  ASSUME IInv, at # "idle", NEW o \in Outcomes \ {"none", "running", "kept"},
         End(o)
  PROVE  /\ at' = "idle"
         /\ outcome' \in [Results -> Outcomes]
         /\ outcome'[current] = o
         /\ \A r \in Results : r # current => outcome'[r] = outcome[r]
         /\ \A r \in Results : outcome'[r] # "running"
         /\ \A i \in 1 .. Len(kept) : outcome'[kept[i]] = "kept"
<1>1. current \in Results /\ outcome \in [Results -> Outcomes]
      /\ \A r \in Results : outcome[r] = "running" => r = current
  BY Facts
<1>2. /\ at' = "idle" /\ outcome' \in [Results -> Outcomes]
      /\ outcome'[current] = o
      /\ \A r \in Results : r # current => outcome'[r] = outcome[r]
      /\ \A r \in Results : outcome'[r] # "running"
  BY <1>1 DEF End
<1> QED BY <1>2, Facts

(* A call fails: the file stays, one more fault counts, and the MES has     *)
(* taken nothing or the result the call was posting.                        *)
LEMMA FailStep ==
  ASSUME IInv, at # "idle",
         NEW o \in Outcomes \ {"none", "running", "kept", "returned"}, End(o),
         faults' = faults + 1, remaining' = remaining,
         UNCHANGED <<has_file, current, kept, result_list>>,
         kept # <<>> => file' = file, file' \in {"missing", "corrupt", "list"},
         \/ taken' = taken
         \/ /\ at = "post" /\ result_list # <<>>
            /\ taken' = [taken EXCEPT ![Next1] = @ + 1]
  PROVE  IInv'
<1>0. TypeOK /\ FileInv /\ OldInv /\ NewInv
  BY DEF IInv
<1>1. /\ at' = "idle"
      /\ outcome' \in [Results -> Outcomes]
      /\ outcome'[current] = o
      /\ \A r \in Results : r # current => outcome'[r] = outcome[r]
      /\ \A r \in Results : outcome'[r] # "running"
      /\ \A i \in 1 .. Len(kept) : outcome'[kept[i]] = "kept"
  BY EndStep
<1>2. /\ taken' \in [Results -> Nat]
      /\ \A r \in Results : taken'[r] # taken[r] =>
           /\ at = "post" /\ result_list # <<>> /\ r = Next1
           /\ taken'[r] = taken[r] + 1
  <2>1. CASE taken' = taken
    BY <2>1, Facts
  <2>2. CASE /\ at = "post" /\ result_list # <<>>
             /\ taken' = [taken EXCEPT ![Next1] = @ + 1]
    <3>1. Next1 \in Results /\ taken \in [Results -> Nat]
      BY <2>2, PostFacts, Facts
    <3> QED BY <2>2, <3>1
  <2> QED BY <2>1, <2>2
<1>20. at = "post" /\ result_list # <<>> =>
         /\ Posted \in 0 .. Len(kept)
         /\ Next1 = IF Posted < Len(kept) THEN kept[Posted + 1] ELSE current
  BY PostFacts
<1>21. at = "post" => \A i \in 1 .. Len(kept) : kept[i] # current
  BY Facts
<1>22. Len(kept) \in Nat
  BY Facts
<1>23. at = "post" => outcome[current] = "running"
  BY Facts
<1>3. TypeOK'
  BY <1>1, <1>2, Facts, EmptyIsSeq DEF TypeOK
<1>4. FileInv' /\ ListInv'
  BY <1>0, <1>1 DEF FileInv, ListInv
<1>5. ASSUME NEW i \in 1 .. Len(kept) PROVE taken'[kept[i]] \in 0 .. faults'
  <2>1. kept[i] \in Results /\ taken[kept[i]] \in Nat /\ faults \in Nat
    BY Facts
  <2>2. taken[kept[i]] \in 0 .. faults + 1
    BY <1>0, <2>1 DEF OldInv
  <2>3. CASE taken'[kept[i]] = taken[kept[i]]
    BY <2>1, <2>2, <2>3
  <2>4. CASE taken'[kept[i]] # taken[kept[i]]
    <3>1. /\ at = "post" /\ result_list # <<>> /\ kept[i] = Next1
          /\ taken'[kept[i]] = taken[kept[i]] + 1
      BY <1>2, <2>1, <2>4
    <3>2. Posted < Len(kept) /\ kept[i] = kept[Posted + 1]
          /\ Posted \in 0 .. Len(kept)
      BY <1>20, <1>21, <1>22, <3>1
    <3>3. i = Posted + 1
      BY <1>0, <3>2, Facts DEF FileInv
    <3>4. taken[kept[i]] \in 0 .. faults
      BY <1>0, <3>2, <3>3 DEF OldInv
    <3> QED BY <2>1, <3>1, <3>4
  <2> QED BY <2>3, <2>4
<1>6. ASSUME NEW r \in Results, outcome'[r] = "kept", ~Kept(r)
      PROVE  taken'[r] \in 1 .. faults' + 1
  <2>1. r # current /\ outcome[r] = "kept"
    BY <1>1, <1>6
  <2>2. taken[r] \in 1 .. faults + 1
    BY <1>0, <1>6, <2>1 DEF OldInv
  <2>3. taken'[r] = taken[r]
    <3> SUFFICES ASSUME taken'[r] # taken[r] PROVE FALSE
      OBVIOUS
    <3>1. at = "post" /\ result_list # <<>> /\ r = Next1
      BY <1>2
    <3>2. r = kept[Posted + 1] /\ Posted + 1 \in 1 .. Len(kept)
      BY <1>20, <1>22, <2>1, <3>1
    <3> QED BY <1>6, <3>2 DEF Kept
  <2> QED BY <2>2, <2>3, Facts
<1>7. OldInv'
  <2>1. Posted' = 0
    BY <1>1 DEF Posted
  <2>2. \A r \in Results : Kept(r)' <=> Kept(r)
    BY DEF Kept
  <2>3. \A i \in 1 .. Len(kept) : ~(i <= 0)
    BY Facts
  <2> QED BY <1>5, <1>6, <2>1, <2>2, <2>3 DEF OldInv
<1>8. NewInv'
  <2>1. ASSUME NEW r \in Results, outcome'[r] # "kept"
        PROVE  taken'[r] \in {0, 1}
    <3>1. outcome[r] # "kept"
      <4>1. CASE r = current
        <5>1. outcome[r] = "running"
          BY <4>1, Facts
        <5> QED BY <5>1
      <4>2. CASE r # current
        BY <1>1, <2>1, <4>2
      <4> QED BY <4>1, <4>2
    <3>2. taken[r] \in {0, 1}
      BY <1>0, <3>1 DEF NewInv
    <3>3. CASE taken'[r] = taken[r]
      BY <3>2, <3>3
    <3>4. CASE taken'[r] # taken[r]
      <4>1. /\ at = "post" /\ result_list # <<>> /\ r = Next1
            /\ taken'[r] = taken[r] + 1
        BY <1>2, <3>4
      <4>2. r = current
        <5>1. Posted < Len(kept) =>
                Posted + 1 \in 1 .. Len(kept) /\ outcome[kept[Posted + 1]] = "kept"
          BY <1>20, <1>22, <4>1, Facts
        <5> QED BY <1>20, <3>1, <4>1, <5>1
      <4>3. taken[r] = 0
        BY <1>0, <4>1, <4>2 DEF NewInv
      <4> QED BY <4>1, <4>3
    <3> QED BY <3>3, <3>4
  <2>2. ASSUME NEW r \in Results, outcome'[r] \in {"none", "returned"}
        PROVE  outcome[r] = outcome'[r] /\ taken'[r] = taken[r]
    <3>1. r # current /\ outcome[r] = outcome'[r]
      BY <1>1, <2>2
    <3>2. \A i \in 1 .. Len(kept) : kept[i] # r
      BY <2>2, <3>1, Facts
    <3>3. at = "post" /\ result_list # <<>> => r # Next1
      BY <1>20, <1>22, <3>1, <3>2
    <3> QED BY <1>2, <3>1, <3>3
  <2> QED BY <1>0, <1>1, <2>1, <2>2 DEF NewInv
<1> QED BY <1>3, <1>4, <1>7, <1>8 DEF IInv

LEMMA SendStep ==
  ASSUME IInv, NEW r \in Results, SendResult(r) PROVE IInv'
<1>0. TypeOK /\ FileInv /\ OldInv /\ NewInv
  BY DEF IInv
<1>1. /\ at = "idle" /\ outcome[r] = "none" /\ at' = "load" /\ current' = r
      /\ outcome' = [outcome EXCEPT ![r] = "running"]
      /\ UNCHANGED <<has_file, file, kept, result_list, remaining,
                     taken, faults>>
  BY DEF SendResult, disk, lists
<1>2. /\ outcome' \in [Results -> Outcomes]
      /\ \A s \in Results : outcome'[s] = "running" <=> s = r
      /\ \A s \in Results : s # r => outcome'[s] = outcome[s]
      /\ outcome'[r] = "running"
  BY <1>1, Facts DEF Outcomes
<1>3. \A i \in 1 .. Len(kept) : kept[i] # r /\ kept[i] \in Results
  BY <1>1, Facts
<1>4. TypeOK'
  BY <1>1, <1>2, Facts, EmptyIsSeq DEF TypeOK
<1>5. FileInv' /\ ListInv'
  BY <1>0, <1>1, <1>2, <1>3 DEF FileInv, ListInv
<1>6. OldInv'
  <2>1. Posted = 0 /\ Posted' = 0
    BY <1>1 DEF Posted
  <2>2. \A s \in Results : Kept(s)' <=> Kept(s)
    BY <1>1 DEF Kept
  <2>3. \A s \in Results : outcome'[s] = "kept" => outcome[s] = "kept"
    BY <1>1, <1>2
  <2> QED BY <1>0, <1>1, <2>1, <2>2, <2>3 DEF OldInv
<1>7. NewInv'
  BY <1>0, <1>1, <1>2 DEF NewInv
<1> QED BY <1>4, <1>5, <1>6, <1>7 DEF IInv

LEMMA LoadStep == ASSUME IInv, Load PROVE IInv'
<1>0. TypeOK /\ FileInv /\ OldInv /\ NewInv
  BY DEF IInv
<1>1. /\ at = "load" /\ at' = "post" /\ remaining' = <<>>
      /\ UNCHANGED <<has_file, current, outcome, taken, faults>>
  BY DEF Load
<1>2. /\ result_list' = Append(kept, current) /\ kept' = kept
      /\ file' \in {"missing", "corrupt", "list"}
      /\ (kept # <<>> => file' = file)
  <2>1. CASE has_file /\ file = "list"
    BY <2>1, Facts DEF Load, LoadList, disk
  <2>2. CASE ~(has_file /\ file = "list")
    BY <1>0, <2>2, Facts DEF Load, LoadList, disk, FileInv
  <2> QED BY <2>1, <2>2
<1>3. /\ result_list' \in Seq(Results) /\ Len(result_list') = Len(kept) + 1
      /\ Len(kept) \in Nat /\ result_list' # <<>>
      /\ \A i \in 1 .. Len(kept) : result_list'[i] = kept[i]
      /\ result_list'[Len(kept) + 1] = current
  BY <1>2, Facts
<1>4. Posted = 0 /\ Posted' = 0
  BY <1>1, <1>2, <1>3 DEF Posted
<1>5. TypeOK'
  BY <1>1, <1>2, <1>3, Facts, EmptyIsSeq DEF TypeOK
<1>6. FileInv'
  BY <1>0, <1>1, <1>2 DEF FileInv
<1>7. ListInv'
  BY <1>1, <1>2, <1>3, <1>4 DEF ListInv
<1>8. OldInv'
  <2>1. \A s \in Results : Kept(s)' <=> Kept(s)
    BY <1>2 DEF Kept
  <2> QED BY <1>0, <1>1, <1>2, <1>4, <2>1 DEF OldInv
<1>9. NewInv'
  BY <1>0, <1>1, <1>3 DEF NewInv
<1> QED BY <1>5, <1>6, <1>7, <1>8, <1>9 DEF IInv

LEMMA TakenStep == ASSUME IInv, Post, Taken PROVE IInv'
<1>0. TypeOK /\ FileInv /\ ListInv /\ OldInv /\ NewInv
  BY DEF IInv
<1>1. /\ at = "post" /\ result_list # <<>>
      /\ taken' = [taken EXCEPT ![Next1] = @ + 1]
      /\ result_list' = Tail(result_list)
      /\ UNCHANGED <<has_file, file, kept, current, at, outcome, remaining,
                     faults>>
  BY DEF Post, Taken, disk
<1>2. /\ Posted \in 0 .. Len(kept) /\ Next1 \in Results
      /\ Next1 = IF Posted < Len(kept) THEN kept[Posted + 1] ELSE current
      /\ Len(result_list') = Len(result_list) - 1
      /\ result_list' \in Seq(Results)
      /\ \A i \in 1 .. Len(result_list') : result_list'[i] = result_list[i + 1]
      /\ result_list' = <<>> <=> Posted = Len(kept)
      /\ Len(kept) \in Nat /\ Len(result_list) \in Nat
  <2>1. /\ Posted \in 0 .. Len(kept) /\ Next1 \in Results
        /\ Next1 = IF Posted < Len(kept) THEN kept[Posted + 1] ELSE current
    BY <1>1, PostFacts
  <2>2. result_list \in Seq(Results) /\ kept \in Seq(Results)
    BY Facts
  <2>3. Len(kept) \in Nat /\ Len(result_list) \in Nat
    BY <2>2
  <2>4. /\ Len(result_list') = Len(result_list) - 1
        /\ result_list' \in Seq(Results)
        /\ \A i \in 1 .. Len(result_list') : result_list'[i] = result_list[i + 1]
        /\ result_list' = <<>> <=> Len(result_list) = 1
    BY <1>1, <2>2, TailFacts
  <2>5. Posted = Len(kept) + 1 - Len(result_list)
    BY <1>1 DEF Posted
  <2> QED BY <2>1, <2>3, <2>4, <2>5
<1>3. Posted' = Posted + 1
  BY <1>1, <1>2 DEF Posted
<1>4. /\ taken' \in [Results -> Nat] /\ taken'[Next1] = taken[Next1] + 1
      /\ \A r \in Results : r # Next1 => taken'[r] = taken[r]
  <2>1. taken \in [Results -> Nat] /\ Next1 \in Results
    BY <1>2, Facts
  <2> QED BY <1>1, <2>1
<1>40. \A i \in 1 .. Len(kept) : kept[i] # current /\ kept[i] \in Results
  BY <1>1, Facts
<1>5. TypeOK'
  BY <1>1, <1>2, <1>4, Facts, EmptyIsSeq DEF TypeOK
<1>6. FileInv'
  BY <1>0, <1>1 DEF FileInv
<1>7. ListInv'
  <2>1. Len(result_list') <= Len(kept) + 1
    BY <1>0, <1>1, <1>2 DEF ListInv
  <2>2. ASSUME NEW i \in 1 .. Len(result_list')
        PROVE  result_list'[i] =
                 IF Posted' + i <= Len(kept) THEN kept[Posted' + i] ELSE current
    <3>1. i + 1 \in 1 .. Len(result_list) /\ Posted' + i = Posted + (i + 1)
      BY <1>2, <1>3
    <3> QED BY <1>0, <1>1, <1>2, <3>1 DEF ListInv
  <2> QED BY <1>1, <2>1, <2>2 DEF ListInv
<1>8. OldInv'
  <2>1. ASSUME NEW i \in 1 .. Len(kept)
        PROVE  IF i <= Posted' THEN taken'[kept[i]] \in 1 .. faults + 1
                               ELSE taken'[kept[i]] \in 0 .. faults
    <3>1. kept[i] \in Results /\ taken[kept[i]] \in Nat /\ faults \in Nat
      BY Facts
    <3>2. CASE i = Posted + 1
      <4>1. kept[i] = Next1 /\ taken[kept[i]] \in 0 .. faults
        BY <1>0, <1>2, <3>2 DEF OldInv
      <4> QED BY <1>3, <1>4, <3>1, <3>2, <4>1
    <3>3. CASE i # Posted + 1
      <4>1. kept[i] # Next1
        BY <1>0, <1>2, <1>40, <3>3 DEF FileInv
      <4>2. i <= Posted' <=> i <= Posted
        BY <1>2, <1>3, <3>3
      <4> QED BY <1>0, <1>4, <3>1, <4>1, <4>2 DEF OldInv
    <3> QED BY <3>2, <3>3
  <2>2. ASSUME NEW r \in Results, outcome[r] = "kept", ~Kept(r)
        PROVE  taken'[r] \in 1 .. faults + 1
    <3>1. r # Next1
      <4>1. r # current
        BY <1>1, <2>2, Facts
      <4>2. Posted < Len(kept) => Posted + 1 \in 1 .. Len(kept)
        BY <1>2
      <4> QED BY <1>2, <2>2, <4>1, <4>2 DEF Kept
    <3> QED BY <1>0, <1>4, <2>2, <3>1 DEF OldInv
  <2>3. \A r \in Results : Kept(r)' <=> Kept(r)
    BY <1>1 DEF Kept
  <2> QED BY <1>1, <2>1, <2>2, <2>3 DEF OldInv
<1>9. NewInv'
  <2>1. outcome[current] = "running" /\ current \in Results
    BY <1>1, Facts
  <2>2. ASSUME NEW r \in Results, outcome[r] # "kept", r # current
        PROVE  taken'[r] = taken[r]
    BY <1>1, <1>2, <1>4, <2>2, Facts
  <2>3. taken'[current] = IF result_list' = <<>> THEN 1 ELSE 0
    <3>1. taken[current] = 0
      BY <1>0, <1>1 DEF NewInv
    <3>2. Posted < Len(kept) => Posted + 1 \in 1 .. Len(kept)
      BY <1>2
    <3>3. Next1 = current <=> Posted = Len(kept)
      BY <1>2, <1>40, <3>2
    <3> QED BY <1>2, <1>4, <2>1, <3>1, <3>3
  <2> QED BY <1>0, <1>1, <2>1, <2>2, <2>3 DEF NewInv
<1> QED BY <1>5, <1>6, <1>7, <1>8, <1>9 DEF IInv

(* The file is emptied, or lost, after everything is posted.                *)
LEMMA EmptiedStep ==
  ASSUME IInv, at = "post", result_list = <<>>,
         NEW o \in {"returned", "crashed"}, End(o), kept' = <<>>,
         file' \in {"missing", "corrupt", "list"},
         faults' \in Nat, faults' >= faults,
         remaining' = remaining,
         UNCHANGED <<has_file, current, result_list, taken>>
  PROVE  IInv'
<1>0. TypeOK /\ FileInv /\ OldInv /\ NewInv
  BY DEF IInv
<1>1. o \in Outcomes \ {"none", "running", "kept"} /\ at # "idle"
  BY DEF Outcomes
<1>2. /\ at' = "idle"
      /\ outcome' \in [Results -> Outcomes]
      /\ outcome'[current] = o
      /\ \A r \in Results : r # current => outcome'[r] = outcome[r]
      /\ \A r \in Results : outcome'[r] # "running"
  BY <1>1, EndStep
<1>3. Posted = Len(kept) + 1 /\ Len(kept) \in Nat /\ taken[current] = 1
  BY <1>0, Facts, EmptyIsSeq DEF Posted, NewInv
<1>4. TypeOK'
  BY <1>2, Facts, EmptyIsSeq DEF TypeOK
<1>5. FileInv' /\ ListInv'
  BY <1>0, <1>2, EmptyIsSeq DEF FileInv, ListInv
<1>6. ASSUME NEW r \in Results, outcome'[r] = "kept"
      PROVE  taken[r] \in 1 .. faults' + 1
  <2>1. outcome[r] = "kept" /\ faults \in Nat
    BY <1>2, <1>6, Facts
  <2>2. taken[r] \in 1 .. faults + 1
    <3>1. CASE Kept(r)
      <4>1. PICK i \in 1 .. Len(kept) : kept[i] = r
        BY <3>1 DEF Kept
      <4>2. i <= Posted
        BY <1>3
      <4> QED BY <1>0, <4>1, <4>2 DEF OldInv
    <3>2. CASE ~Kept(r)
      BY <1>0, <2>1, <3>2 DEF OldInv
    <3> QED BY <3>1, <3>2
  <2> QED BY <2>1, <2>2
<1>7. OldInv'
  BY <1>6, EmptyIsSeq DEF OldInv
<1>8. NewInv'
  BY <1>0, <1>2, <1>3 DEF NewInv
<1> QED BY <1>4, <1>5, <1>7, <1>8 DEF IInv

(* Without a file the list of it is empty and stays so.                     *)
LEMMA SaveStep == ASSUME IInv, Save PROVE IInv'
<1>1. /\ at = "post" /\ result_list = <<>> /\ End("returned")
      /\ remaining' = remaining
      /\ UNCHANGED <<has_file, current, result_list, taken, faults>>
  BY DEF Save, lists
<1>2. kept' = <<>> /\ file' \in {"missing", "corrupt", "list"}
  <2>1. ~has_file => kept = <<>>
    BY DEF IInv, FileInv
  <2> QED BY <2>1, Facts DEF Save, disk
<1>3. faults' \in Nat /\ faults' >= faults
  BY <1>1, Facts
<1> QED BY <1>1, <1>2, <1>3, EmptiedStep

LEMMA CrashStep == ASSUME IInv, Crash PROVE IInv'
<1>1. /\ at # "idle" /\ End("crashed") /\ faults' = faults + 1
      /\ remaining' = remaining
      /\ UNCHANGED <<has_file, current, result_list, taken>>
  BY DEF Crash, Fault, lists
<1>2. "crashed" \in Outcomes \ {"none", "running", "kept", "returned"}
  BY DEF Outcomes
<1>3. CASE UNCHANGED disk
  <2>1. kept' = kept /\ file' \in {"missing", "corrupt", "list"}
        /\ file' = file
    BY <1>3, Facts DEF disk
  <2> QED BY <1>1, <1>2, <2>1, FailStep
<1>4. CASE /\ at = "load" /\ file # "list"
           /\ file' \in {"missing", "corrupt"} /\ UNCHANGED kept
  <2>1. kept = <<>>
    BY <1>4 DEF IInv, FileInv
  <2>2. file' \in {"missing", "corrupt", "list"}
    BY <1>4
  <2> QED BY <1>1, <1>2, <1>4, <2>1, <2>2, FailStep
<1>5. CASE /\ at = "post" /\ result_list = <<>>
           /\ file' = "corrupt" /\ kept' = <<>>
  <2>1. faults' \in Nat /\ faults' >= faults
    BY <1>1, Facts
  <2> QED BY <1>1, <1>5, <2>1, EmptiedStep
<1> QED BY <1>3, <1>4, <1>5 DEF Crash

LEMMA Step == IInv /\ [Next]_vars => IInv'
<1> SUFFICES ASSUME IInv, [Next]_vars PROVE IInv'
  OBVIOUS
<1>1. ASSUME NEW r \in Results, SendResult(r) PROVE IInv'
  BY <1>1, SendStep
<1>2. CASE Load
  BY <1>2, LoadStep
<1>3. CASE Post
  <2>1. CASE Taken
    BY <1>3, <2>1, TakenStep
  <2>2. CASE Refused \/ Silent
    <3>1. /\ at = "post" /\ result_list # <<>> /\ at # "idle"
          /\ UNCHANGED <<has_file, file, kept, current>>
      BY <1>3 DEF Post, disk
    <3>2. /\ End("raised") /\ faults' = faults + 1 /\ remaining' = remaining
          /\ UNCHANGED result_list
          /\ (taken' = taken \/ taken' = [taken EXCEPT ![Next1] = @ + 1])
      BY <2>2 DEF Refused, Silent, Fault, lists
    <3>3. "raised" \in Outcomes \ {"none", "running", "kept", "returned"}
      BY DEF Outcomes
    <3>4. file' \in {"missing", "corrupt", "list"} /\ file' = file
      BY <3>1, Facts
    <3> QED BY <3>1, <3>2, <3>3, <3>4, FailStep
  <2> QED BY <1>3, <2>1, <2>2 DEF Post
<1>4. CASE Save
  BY <1>4, SaveStep
<1>5. CASE Crash
  BY <1>5, CrashStep
<1>6. CASE UNCHANGED vars
  BY <1>6 DEF vars, disk, lists, IInv, TypeOK, FileInv, ListInv, OldInv,
              NewInv, Posted, Kept
<1> QED BY <1>1, <1>2, <1>3, <1>4, <1>5, <1>6 DEF Next

(* Every variable of the report has its type.                               *)
THEOREM ReportTyped == Spec => []TypeOK
<1>1. IInv => TypeOK
  BY DEF IInv
<1> QED BY <1>1, InitInv, Step, PTL DEF Spec

(* A result a call has returned for, and one the file held at the start, is *)
(* with the MES or in the file, whatever posts fail and wherever the        *)
(* program ends.                                                            *)
THEOREM ReturnedIsTaken == Spec => []NothingDropped
<1>1. IInv => NothingDropped
  <2> SUFFICES ASSUME IInv, NEW r \in Results,
                      outcome[r] \in {"returned", "kept"}
               PROVE  taken[r] > 0 \/ InFile(r)
    BY DEF NothingDropped
  <2>1. CASE outcome[r] = "returned"
    BY <2>1 DEF IInv, NewInv
  <2>2. CASE outcome[r] = "kept" /\ ~Kept(r)
    BY <2>2, Facts DEF IInv, OldInv
  <2>3. CASE Kept(r)
    <3>1. kept # <<>>
      BY <2>3, EmptyIsSeq DEF Kept
    <3> QED BY <2>3, <3>1 DEF IInv, FileInv, InFile
  <2> QED BY <2>1, <2>2, <2>3
<1> QED BY <1>1, InitInv, Step, PTL DEF Spec

(* The MES takes a result of a call once at most, and one the file held     *)
(* once more for each call that failed.                                     *)
THEOREM ResultTakenOnce == Spec => []TakenOnce
<1>1. IInv => TakenOnce
  <2> SUFFICES ASSUME IInv, NEW r \in Results
               PROVE  taken[r] <= 1 + (IF outcome[r] = "kept" THEN faults ELSE 0)
    BY DEF TakenOnce
  <2>1. faults \in Nat /\ taken[r] \in Nat
    BY Facts
  <2>2. CASE outcome[r] # "kept"
    BY <2>2 DEF IInv, NewInv
  <2>3. CASE outcome[r] = "kept" /\ ~Kept(r)
    BY <2>1, <2>3 DEF IInv, OldInv
  <2>4. CASE outcome[r] = "kept" /\ Kept(r)
    <3>1. PICK i \in 1 .. Len(kept) : kept[i] = r
      BY <2>4 DEF Kept
    <3>2. taken[r] \in 0 .. faults + 1
      BY <2>1, <3>1 DEF IInv, OldInv
    <3> QED BY <2>1, <2>4, <3>2
  <2> QED BY <2>2, <2>3, <2>4
<1> QED BY <1>1, InitInv, Step, PTL DEF Spec
=============================================================================
