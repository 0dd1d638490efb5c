------------------------- MODULE CalibrationProofs -------------------------
(***************************************************************************)
(* Proofs about CalibrationStore, for any channels, adapters, values and   *)
(* faults.                                                                 *)
(***************************************************************************)
EXTENDS CalibrationStore, TLAPS

(* The shadow is right, or the multiplexer has lost its channels, or the    *)
(* last write of a mask is in doubt; a transfer follows its selection.      *)
MaskInv ==
  /\ doubt \/ chip = {} \/ chip = current_mask
  /\ at = "transfer" => doubt \/ current_mask = {job.chan}

(* A written mask is in the shadow and in the chip, or in doubt.            *)
LEMMA MaskWritten ==
  ASSUME NEW m, NEW e, SetChannelMask(m, e),
         doubt \/ chip = {} \/ chip = current_mask
  PROVE  /\ doubt' \/ chip' = {} \/ chip' = current_mask'
         /\ e = "done" => current_mask' = m
         /\ e # "done" => doubt'
BY Zenon DEF SetChannelMask

LEMMA ChannelSelected ==
  ASSUME NEW c, NEW e, SetChannel(c, e),
         doubt \/ chip = {} \/ chip = current_mask
  PROVE  /\ doubt' \/ chip' = {} \/ chip' = current_mask'
         /\ doubt' \/ current_mask' = {c}
<1>1. CASE current_mask = {c}
  BY <1>1, Zenon DEF SetChannel, bus
<1>2. CASE current_mask # {c}
  BY <1>2, MaskWritten, Zenon DEF SetChannel
<1> QED BY <1>1, <1>2

LEMMA MaskStep == MaskInv /\ [Next]_vars => MaskInv'
<1> SUFFICES ASSUME MaskInv, [Next]_vars PROVE MaskInv'
  OBVIOUS
<1> USE DEF MaskInv
<1>1. ASSUME NEW j, Call(j) PROVE MaskInv'
  BY <1>1, Zenon DEF Call, bus
<1>2. CASE Select
  <2>1. PICK e \in Ends : SetChannel(job.chan, e)
                          /\ IF e \in {"done", "odd"}
                               THEN at' = "transfer" /\ UNCHANGED <<job, result, asked>>
                               ELSE Raise
    BY <1>2 DEF Select
  <2>2. /\ doubt' \/ chip' = {} \/ chip' = current_mask'
        /\ doubt' \/ current_mask' = {job.chan}
    BY <2>1, ChannelSelected
  <2>3. job' = job
    BY <2>1 DEF Raise
  <2> QED BY <2>2, <2>3
<1>3. CASE WritePage
  <2>1. at' \in {"select", "idle"} /\ UNCHANGED <<current_mask, chip, doubt>>
    BY <1>3, Zenon DEF WritePage, Raise, bus
  <2> QED BY <2>1
<1>4. CASE ReadBack
  <2>1. at' \in {"select", "idle"} /\ UNCHANGED <<current_mask, chip, doubt>>
    BY <1>4, Zenon DEF ReadBack, Raise
  <2> QED BY <2>1
<1>5. CASE VerifyPage
  <2>1. at' \in {"select", "idle"} /\ UNCHANGED <<current_mask, chip, doubt>>
    BY <1>5 DEF VerifyPage, Raise
  <2> QED BY <2>1
<1>6. CASE Others
  <2>1. at = "idle" /\ UNCHANGED <<at, job>>
    BY <1>6 DEF Others, call
  <2>2. PICK e \in Ends : \/ ResetMux(e)
                          \/ \E c \in Channels : ResetChannel(c, e)
                          \/ \E c \in Channels \ Adapters : SetChannel(c, e)
    BY <1>6 DEF Others
  <2>3. doubt' \/ chip' = {} \/ chip' = current_mask'
    BY <2>2, MaskWritten, ChannelSelected, Zenon DEF ResetMux, ResetChannel
  <2> QED BY <2>1, <2>3
<1>7. CASE Unplugged
  BY <1>7, Zenon DEF Unplugged, Replug, call
<1>8. CASE UNCHANGED vars
  BY <1>8, Zenon DEF vars, bus, call
<1> QED
  BY <1>1, <1>2, <1>3, <1>4, <1>5, <1>6, <1>7, <1>8, Zenon
  DEF Next, Load, Store

(* A transfer of I2CMuxedBus meets no channel but its own, unless the last  *)
(* write of a mask is in doubt.                                             *)
THEOREM MeetsOwnChannel == Spec => []OwnChannel
<1>1. Init => MaskInv
  BY Zenon DEF Init, BusInit, MaskInv
<1>2. MaskInv => OwnChannel
  BY DEF MaskInv, OwnChannel
<1> QED BY <1>1, <1>2, MaskStep, PTL DEF Spec

-----------------------------------------------------------------------------
(* Types. *)

(* A call is in progress just when a step of it is to come, on one of the   *)
(* pages of its value.                                                      *)
CallInv ==
  /\ at = "idle" <=> result # "busy"
  /\ job.page \in Pages(job.kind)

IInv == TypeOK /\ CallInv

LEMMA PageBounds ==
  ASSUME NEW k PROVE 1 \in Pages(k) /\ Pages(k) \subseteq 1 .. 3
BY DEF Pages

LEMMA VerifyFrom ==
  ASSUME NEW j \in Jobs, NEW p \in 1 .. 3
  PROVE  /\ [j EXCEPT !.phase = "verify", !.page = p] \in Jobs
         /\ [j EXCEPT !.phase = "verify", !.page = p].page = p
BY DEF Jobs

LEMMA InitInv == Init => IInv
<1> SUFFICES ASSUME Init PROVE IInv
  OBVIOUS
<1>1. current_mask \subseteq Channels /\ chip \subseteq Channels /\ faults \in Nat
        /\ doubt \in BOOLEAN
  <2>1. current_mask = {} /\ faults = 0 /\ doubt = (chip # {})
    BY DEF Init, BusInit
  <2>2. chip \subseteq Channels
    BY DEF Init, BusInit
  <2> QED BY <2>1, <2>2
<1>2. /\ mem \in [Adapters -> [Kinds -> [1 .. 3 -> Contents]]]
      /\ asked \in [Adapters -> [Kinds -> SUBSET Contents]]
  BY DEF Init, Contents
<1>3. job \in Jobs /\ job.page = 1
  BY DEF Init, Jobs, Contents
<1>4. /\ at \in {"idle", "select", "transfer"} /\ result \in Results
      /\ strayed \in BOOLEAN /\ calls \in Nat /\ at = "idle" /\ result # "busy"
  BY DEF Init, Results
<1> QED
  BY <1>1, <1>2, <1>3, <1>4, PageBounds DEF IInv, TypeOK, CallInv

LEMMA BusTyped ==
  ASSUME NEW e, NEW c \in Channels, TypeOK,
         SetChannel(c, e) \/ ResetMux(e) \/ ResetChannel(c, e) \/ Replug
  PROVE  /\ current_mask' \subseteq Channels /\ chip' \subseteq Channels
         /\ doubt' \in BOOLEAN /\ faults' \in Nat
<1>1. ASSUME NEW m \in SUBSET Channels, SetChannelMask(m, e)
      PROVE  /\ current_mask' \subseteq Channels /\ chip' \subseteq Channels
             /\ doubt' \in BOOLEAN /\ faults' \in Nat
  <2>1. CASE e = "done" /\ chip' = m /\ current_mask' = m /\ doubt' = FALSE
             /\ UNCHANGED faults
    BY <2>1 DEF TypeOK
  <2>2. CASE Fault(e) /\ chip' \in {chip, m} /\ doubt' = TRUE
             /\ UNCHANGED current_mask
    <3>1. faults' \in Nat
      BY <2>2 DEF Fault, TypeOK
    <3> QED BY <2>2, <3>1 DEF TypeOK
  <2> QED BY <1>1, <2>1, <2>2, Zenon DEF SetChannelMask
<1>2. CASE SetChannel(c, e)
  BY <1>1, <1>2 DEF SetChannel, TypeOK, bus
<1>3. CASE ResetMux(e)
  BY <1>1, <1>3 DEF ResetMux
<1>4. CASE ResetChannel(c, e)
  <2>1. current_mask \ {c} \in SUBSET Channels
    BY DEF TypeOK
  <2> QED BY <1>1, <1>4, <2>1 DEF ResetChannel
<1>5. CASE Replug
  BY <1>5 DEF Replug, Fault, TypeOK
<1> QED BY <1>2, <1>3, <1>4, <1>5

LEMMA PutTyped ==
  ASSUME IInv, NEW v \in Contents, Put(v)
  PROVE  mem' \in [Adapters -> [Kinds -> [1 .. 3 -> Contents]]]
<1>1. ASSUME NEW c \in Adapters
      PROVE  [mem[c] EXCEPT ![job.kind][job.page] = v]
               \in [Kinds -> [1 .. 3 -> Contents]]
  <2>1. mem[c] \in [Kinds -> [1 .. 3 -> Contents]]
    BY DEF IInv, TypeOK
  <2>2. job.kind \in Kinds /\ job.page \in 1 .. 3
    BY DEF IInv, TypeOK, Jobs
  <2> QED BY <2>1, <2>2
<1> QED BY <1>1 DEF Put, IInv, TypeOK

LEMMA StepInv == IInv /\ [Next]_vars => IInv'
<1> SUFFICES ASSUME IInv, [Next]_vars PROVE IInv'
  OBVIOUS
<1> USE DEF IInv, CallInv
<1>0. TypeOK /\ Adapters \subseteq Channels
  BY StoreAssumption
<1>1. ASSUME NEW c \in Adapters, NEW k \in Kinds, Load(c, k) PROVE IInv'
  <2>1. job' \in Jobs /\ job'.page = 1 /\ asked' = asked
    BY <1>1 DEF Load, Call, Jobs, Contents
  <2>2. at' = "select" /\ result' = "busy" /\ calls' \in Nat
        /\ UNCHANGED <<current_mask, chip, doubt, faults, mem, strayed>>
    BY <1>0, <1>1 DEF Load, Call, TypeOK, bus
  <2> QED BY <1>0, <2>1, <2>2, PageBounds DEF TypeOK, Results
<1>2. ASSUME NEW c \in Adapters, NEW k \in Kinds, NEW v \in Values, Store(c, k, v)
      PROVE IInv'
  <2>1. job' \in Jobs /\ job'.page = 1
    BY <1>2 DEF Store, Call, Jobs, Contents
  <2>2. at' = "select" /\ result' = "busy" /\ calls' \in Nat
        /\ UNCHANGED <<current_mask, chip, doubt, faults, mem, strayed>>
    BY <1>0, <1>2 DEF Store, Call, TypeOK, bus
  <2>3. asked' \in [Adapters -> [Kinds -> SUBSET Contents]]
    <3>1. asked[c] \in [Kinds -> SUBSET Contents] /\ v \in Contents
      BY <1>0 DEF TypeOK, Contents
    <3> QED BY <1>0, <1>2, <3>1 DEF Store, TypeOK
  <2> QED BY <1>0, <2>1, <2>2, <2>3, PageBounds DEF TypeOK, Results
<1>3. CASE Select
  <2>1. PICK e \in Ends : SetChannel(job.chan, e)
    BY <1>3 DEF Select
  <2>2. job.chan \in Channels
    BY <1>0 DEF TypeOK, Jobs
  <2>3. /\ current_mask' \subseteq Channels /\ chip' \subseteq Channels
        /\ doubt' \in BOOLEAN /\ faults' \in Nat
    BY <1>0, <2>1, <2>2, BusTyped
  <2>4. UNCHANGED <<job, asked, mem, strayed, calls>>
    BY <1>3 DEF Select, Raise
  <2>5. \/ at' = "transfer" /\ result' = "busy"
        \/ at' = "idle" /\ result' = "raised"
    BY <1>0, <1>3 DEF Select, Raise
  <2> QED BY <1>0, <2>3, <2>4, <2>5 DEF TypeOK, Results
<1>4. CASE WritePage
  <2>1. UNCHANGED <<current_mask, chip, doubt, asked, calls>> /\ faults' \in Nat
    BY <1>0, <1>4 DEF WritePage, Raise, bus, Fault, TypeOK
  <2>2. mem' \in [Adapters -> [Kinds -> [1 .. 3 -> Contents]]]
    <3>1. mem' = mem \/ Put(job.value) \/ Put(Torn(job.page))
      BY <1>4, Zenon DEF WritePage
    <3>2. job.value \in Contents /\ Torn(job.page) \in Contents
      BY <1>0 DEF TypeOK, Jobs, Contents
    <3> QED BY <1>0, <3>1, <3>2, PutTyped DEF TypeOK
  <2>3. \/ at' = "select" /\ result' = "busy" /\ job' = [job EXCEPT !.phase = "readback"]
        \/ at' = "idle" /\ result' = "raised" /\ job' = job
    BY <1>0, <1>4 DEF WritePage, Raise
  <2>4. job' \in Jobs /\ job'.page = job.page /\ job'.kind = job.kind
    BY <1>0, <2>3 DEF TypeOK, Jobs
  <2>5. strayed' \in BOOLEAN
    BY <1>4, Zenon DEF WritePage, Stray
  <2> QED BY <1>0, <2>1, <2>2, <2>3, <2>4, <2>5 DEF TypeOK, Results
<1>5. CASE ReadBack
  <2>1. UNCHANGED <<current_mask, chip, doubt, asked, mem, calls>> /\ faults' \in Nat
    BY <1>0, <1>5 DEF ReadBack, ReadFails, Raise, Fault, TypeOK
  <2>2. strayed' \in BOOLEAN
    BY <1>5, Zenon DEF ReadBack, Stray
  <2>3. CASE at' = "idle" /\ result' = "raised" /\ job' = job
    BY <1>0, <2>1, <2>2, <2>3 DEF TypeOK, Results
  <2>4. CASE at' = "select" /\ result' = "busy"
             /\ LastPage /\ job' = [job EXCEPT !.phase = "verify", !.page = 1]
    <3>0. job \in Jobs /\ job' = [job EXCEPT !.phase = "verify", !.page = 1]
      BY <1>0, <2>4 DEF TypeOK
    <3>1. job' \in Jobs /\ job'.page = 1
      <4>1. 1 \in 1 .. 3
        OBVIOUS
      <4> QED BY <3>0, <4>1, VerifyFrom
    <3> QED BY <1>0, <2>1, <2>2, <2>4, <3>1, PageBounds DEF TypeOK, Results
  <2>5. CASE at' = "select" /\ result' = "busy"
             /\ ~LastPage /\ job' = [job EXCEPT !.phase = "write", !.page = @ + 1]
    <3>1. job.page + 1 \in 1 .. 3 /\ job.page + 1 \in Pages(job.kind)
      BY <2>5, PageBounds DEF LastPage
    <3>2. job' \in Jobs /\ job'.page = job.page + 1 /\ job'.kind = job.kind
      BY <1>0, <2>5, <3>1 DEF TypeOK, Jobs
    <3> QED BY <1>0, <2>1, <2>2, <2>5, <3>1, <3>2 DEF TypeOK, Results
  <2> QED BY <1>0, <1>5, <2>3, <2>4, <2>5 DEF ReadBack, Raise
<1>6. CASE VerifyPage
  <2>1. UNCHANGED <<current_mask, chip, doubt, mem, calls>> /\ faults' \in Nat
    <3>1. UNCHANGED faults \/ ReadFails
      BY <1>6, Zenon DEF VerifyPage
    <3>2. faults' \in Nat
      BY <1>0, <3>1 DEF ReadFails, Fault, TypeOK
    <3> QED BY <1>6, <3>2, Zenon DEF VerifyPage
  <2>2. strayed' \in BOOLEAN
    BY <1>6, Zenon DEF VerifyPage, Stray
  <2>3. CASE Raise
    BY <1>0, <2>1, <2>2, <2>3 DEF Raise, TypeOK, Results
  <2>4. ASSUME NEW c \in Reached, NEW r,
               r = job.read \cup {mem[c][job.kind][job.page]},
               IF LastPage THEN at' = "idle" /\ Return(r)
               ELSE /\ at' = "select"
                    /\ job' = [job EXCEPT !.page = @ + 1, !.read = r]
                    /\ UNCHANGED <<result, asked>>
        PROVE  IInv'
    <3>1. r \subseteq Contents
      BY <1>0, <2>4 DEF Reached, TypeOK, Jobs
    <3>2. CASE LastPage
      <4>1. /\ job' \in Jobs /\ job'.page = job.page /\ job'.kind = job.kind
            /\ result' \in {"true", "false", "value", "raised"}
        BY <1>0, <2>4, <3>1, <3>2 DEF Return, TypeOK, Jobs
      <4>2. asked' \in [Adapters -> [Kinds -> SUBSET Contents]]
        <5>1. job.chan \in Adapters /\ {job.value} \in SUBSET Contents
          BY <1>0 DEF TypeOK, Jobs
        <5>2. asked[job.chan] \in [Kinds -> SUBSET Contents]
          BY <1>0, <5>1 DEF TypeOK
        <5>3. asked' = asked
              \/ asked' = [asked EXCEPT ![job.chan][job.kind] = {job.value}]
          BY <2>4, <3>2 DEF Return
        <5>4. [asked[job.chan] EXCEPT ![job.kind] = {job.value}]
                \in [Kinds -> SUBSET Contents]
          BY <5>1, <5>2
        <5> QED BY <1>0, <5>1, <5>3, <5>4 DEF TypeOK
      <4> QED BY <1>0, <2>1, <2>2, <2>4, <3>2, <4>1, <4>2 DEF TypeOK, Results
    <3>3. CASE ~LastPage
      <4>1. job.page + 1 \in 1 .. 3 /\ job.page + 1 \in Pages(job.kind)
        BY <3>3, PageBounds DEF LastPage
      <4>2. job' \in Jobs /\ job'.page = job.page + 1 /\ job'.kind = job.kind
        BY <1>0, <2>4, <3>1, <3>3, <4>1 DEF TypeOK, Jobs
      <4>3. at' = "select" /\ result' = "busy" /\ asked' = asked
        BY <1>0, <1>6, <2>4, <3>3 DEF VerifyPage
      <4> QED BY <1>0, <2>1, <2>2, <4>1, <4>2, <4>3 DEF TypeOK, Results
    <3> QED BY <3>2, <3>3
  <2> QED BY <1>6, <2>3, <2>4 DEF VerifyPage
<1>7. CASE Others
  <2>1. PICK e \in Ends : \/ ResetMux(e)
                          \/ \E c \in Channels : ResetChannel(c, e)
                          \/ \E c \in Channels \ Adapters : SetChannel(c, e)
    BY <1>7 DEF Others
  <2>2. PICK c \in Adapters : TRUE
    BY <1>0 DEF TypeOK, Jobs
  <2>3. /\ current_mask' \subseteq Channels /\ chip' \subseteq Channels
        /\ doubt' \in BOOLEAN /\ faults' \in Nat
    BY <1>0, <2>1, <2>2, BusTyped
  <2> QED BY <1>0, <1>7, <2>3 DEF Others, call, TypeOK
<1>8. CASE Unplugged
  <2>1. PICK c \in Adapters : TRUE
    BY <1>0 DEF TypeOK, Jobs
  <2>2. /\ current_mask' \subseteq Channels /\ chip' \subseteq Channels
        /\ doubt' \in BOOLEAN /\ faults' \in Nat
    BY <1>0, <1>8, <2>1, BusTyped DEF Unplugged
  <2> QED BY <1>0, <1>8, <2>2 DEF Unplugged, call, TypeOK
<1>9. CASE UNCHANGED vars
  BY <1>0, <1>9 DEF vars, bus, call, TypeOK
<1> QED
  BY <1>1, <1>2, <1>3, <1>4, <1>5, <1>6, <1>7, <1>8, <1>9, Zenon DEF Next

(* Every variable of the storage and of its bus has its type.               *)
THEOREM StorageTyped == Spec => []TypeOK
<1>1. IInv => TypeOK
  BY DEF IInv
<1> QED BY <1>1, InitInv, StepInv, PTL DEF Spec

-----------------------------------------------------------------------------
(* What the pages hold. *)

(* As long as no transfer strayed: a page holds what a store was asked to   *)
(* put there, or was torn; and the pages a call has read so far still hold  *)
(* what it read.                                                            *)
HeldInv ==
  /\ job.phase \in {"write", "readback"} => job.op = "store"
  /\ \/ strayed
     \/ /\ \A c \in Adapters, k \in Kinds : \A p \in Pages(k) :
             mem[c][k][p] \in asked[c][k] \cup {Torn(p)}
        /\ result = "busy" /\ job.op = "store"
             => job.value \in asked[job.chan][job.kind]
        /\ result = "busy" /\ job.phase = "verify"
             => \A p \in Pages(job.kind) :
                  p < job.page => mem[job.chan][job.kind][p] \in job.read

SafeInv == HeldInv /\ TrueIsStored /\ LoadedWasAsked

LEMMA InitSafe == Init => SafeInv
<1> SUFFICES ASSUME Init PROVE SafeInv
  OBVIOUS
<1>1. result = "none" /\ job.phase = "verify"
  BY DEF Init
<1>2. \A c \in Adapters, k \in Kinds : \A p \in Pages(k) :
        mem[c][k][p] \in asked[c][k] \cup {Torn(p)}
  BY PageBounds DEF Init
<1> QED
  BY <1>1, <1>2 DEF SafeInv, HeldInv, TrueIsStored, LoadedWasAsked

LEMMA StrayStays ==
  ASSUME [Next]_vars, ~strayed' PROVE ~strayed
BY Zenon DEF Next, Load, Store, Call, Select, WritePage, ReadBack, VerifyPage,
   Stray, Others, Unplugged, vars

(* A transfer that does not stray meets the EEPROM it is for, or none.      *)
LEMMA OwnReached ==
  ASSUME Stray, ~strayed' PROVE Reached \subseteq {job.chan}
<1>1. chip \subseteq {job.chan}
  BY Zenon DEF Stray
<1> QED BY <1>1 DEF Reached

(* A page written by a transfer that does not stray.                        *)
LEMMA PutHeld ==
  ASSUME IInv, NEW v, Put(v), Reached \subseteq {job.chan},
         NEW c \in Adapters, NEW k \in Kinds, NEW p \in Pages(k)
  PROVE  \/ mem'[c][k][p] = mem[c][k][p]
         \/ c = job.chan /\ k = job.kind /\ p = job.page /\ mem'[c][k][p] = v
<1>1. mem[c] \in [Kinds -> [1 .. 3 -> Contents]] /\ p \in 1 .. 3
  BY PageBounds DEF IInv, TypeOK
<1>2. CASE c \in Reached
  <2>1. mem'[c] = [mem[c] EXCEPT ![job.kind][job.page] = v] /\ c = job.chan
    BY <1>2 DEF Put
  <2> QED BY <1>1, <2>1
<1>3. CASE c \notin Reached
  BY <1>3 DEF Put
<1> QED BY <1>2, <1>3

(* All pages of the value of a call have been read: they hold what it read. *)
LEMMA ReadHeld ==
  ASSUME IInv, HeldInv, ~strayed, at = "transfer", job.phase = "verify",
         LastPage, NEW r,
         r = job.read \cup {mem[job.chan][job.kind][job.page]},
         NEW p \in Pages(job.kind)
  PROVE  mem[job.chan][job.kind][p] \in r
<1>1. result = "busy" /\ job.page \in Pages(job.kind)
  BY DEF IInv, CallInv
<1>2. p < job.page \/ p = job.page
  <2>1. p \in 1 .. 3 /\ job.page \in 1 .. 3 /\ job.page + 1 \notin Pages(job.kind)
    BY <1>1, PageBounds DEF LastPage
  <2> QED BY <1>1, <2>1 DEF Pages
<1> QED BY <1>1, <1>2 DEF HeldInv

LEMMA ReturnSafe ==
  ASSUME IInv, SafeInv, ~strayed, at = "transfer", job.phase = "verify",
         LastPage, NEW r,
         r = job.read \cup {mem[job.chan][job.kind][job.page]},
         Return(r), UNCHANGED mem
  PROVE  SafeInv'
<1> USE DEF SafeInv
<1>1. \A p \in Pages(job.kind) : mem[job.chan][job.kind][p] \in r
  BY ReadHeld
<1>2. job.chan \in Adapters /\ job.kind \in Kinds
  BY DEF IInv, TypeOK, Jobs
<1>3. job'.phase = "verify" /\ job'.chan = job.chan /\ job'.kind = job.kind
      /\ result' \in {"true", "false", "value", "raised"}
  BY DEF Return, IInv, TypeOK, Jobs
<1>4. CASE result' = "true"
  <2>1. job.op = "store" /\ r = {job.value} /\ job'.value = job.value
        /\ asked' = [asked EXCEPT ![job.chan][job.kind] = {job.value}]
    BY <1>4 DEF Return, Verified, IInv, TypeOK, Jobs
  <2>2. ASSUME NEW c \in Adapters, NEW k \in Kinds, NEW p \in Pages(k)
        PROVE  mem'[c][k][p] \in asked'[c][k] \cup {Torn(p)}
    <3>1. CASE c = job.chan /\ k = job.kind
      <4>1. asked'[c][k] = {job.value}
        BY <1>2, <2>1, <3>1 DEF IInv, TypeOK
      <4> QED BY <1>1, <2>1, <3>1, <4>1
    <3>2. CASE ~(c = job.chan /\ k = job.kind)
      <4>1. asked'[c][k] = asked[c][k]
        BY <1>2, <2>1, <3>2 DEF IInv, TypeOK
      <4> QED BY <4>1 DEF HeldInv
    <3> QED BY <3>1, <3>2
  <2> QED
    BY <1>1, <1>3, <1>4, <2>1, <2>2 DEF HeldInv, TrueIsStored, LoadedWasAsked
<1>5. CASE result' = "value"
  <2>1. PICK v \in Contents : r = {v} /\ job'.value = v
    BY <1>5 DEF Return, Agree, IInv, TypeOK, Jobs
  <2>2. asked' = asked
    BY <1>5 DEF Return
  <2>3. \A p \in Pages(job.kind) : v \in asked[job.chan][job.kind] \/ v = Torn(p)
    BY <1>1, <1>2, <2>1 DEF HeldInv
  <2>4. \/ v \in asked[job.chan][job.kind]
        \/ job.kind = "leak" /\ v = Torn(1)
    <3>1. CASE job.kind = "leak"
      BY <2>3, <3>1, PageBounds
    <3>2. CASE job.kind # "leak"
      <4>1. Torn(1) # Torn(2) /\ 1 \in Pages(job.kind) /\ 2 \in Pages(job.kind)
        BY <3>2 DEF Torn, Pages
      <4> QED BY <2>3, <4>1
    <3> QED BY <3>1, <3>2
  <2> QED
    BY <1>3, <1>5, <2>1, <2>2, <2>4 DEF HeldInv, TrueIsStored, LoadedWasAsked
<1>6. CASE result' \in {"false", "raised"}
  <2>1. asked' = asked
    BY <1>6 DEF Return
  <2> QED
    BY <1>3, <1>6, <2>1 DEF HeldInv, TrueIsStored, LoadedWasAsked
<1> QED BY <1>3, <1>4, <1>5, <1>6

LEMMA SafeStep == IInv /\ SafeInv /\ [Next]_vars => SafeInv'
<1> SUFFICES ASSUME IInv, SafeInv, [Next]_vars PROVE SafeInv'
  OBVIOUS
<1>0. HeldInv /\ TrueIsStored /\ LoadedWasAsked
  BY DEF SafeInv
<1>1. ASSUME NEW c \in Adapters, NEW k \in Kinds, Load(c, k) PROVE SafeInv'
  <2>1. /\ job' = [op |-> "load", chan |-> c, kind |-> k, value |-> Blank,
                   phase |-> "verify", page |-> 1, read |-> {}]
        /\ result' = "busy" /\ UNCHANGED <<mem, asked, strayed>>
    BY <1>1 DEF Load, Call
  <2>2. \A p \in Pages(k) : ~(p < 1)
    BY PageBounds
  <2> QED
    BY <1>0, <2>1, <2>2 DEF SafeInv, HeldInv, TrueIsStored, LoadedWasAsked
<1>2. ASSUME NEW c \in Adapters, NEW k \in Kinds, NEW v \in Values, Store(c, k, v)
      PROVE SafeInv'
  <2>1. /\ job' = [op |-> "store", chan |-> c, kind |-> k, value |-> v,
                   phase |-> "write", page |-> 1, read |-> {}]
        /\ result' = "busy" /\ UNCHANGED <<mem, strayed>>
        /\ asked' = [asked EXCEPT ![c][k] = @ \cup {v}]
    BY <1>2 DEF Store, Call
  <2>2. /\ v \in asked'[c][k]
        /\ \A d \in Adapters, l \in Kinds : asked[d][l] \subseteq asked'[d][l]
    BY <2>1 DEF IInv, TypeOK
  <2> QED
    BY <1>0, <2>1, <2>2 DEF SafeInv, HeldInv, TrueIsStored, LoadedWasAsked
<1>3. CASE Select
  <2>1. /\ UNCHANGED <<job, asked, mem, strayed>>
        /\ result' = "raised" \/ result' = result
    BY <1>3 DEF Select, Raise
  <2>2. result = "busy"
    BY <1>3 DEF Select, IInv, CallInv
  <2> QED
    BY <1>0, <2>1, <2>2 DEF SafeInv, HeldInv, TrueIsStored, LoadedWasAsked
<1>4. CASE WritePage
  <2>1. /\ result = "busy" /\ job.phase = "write" /\ asked' = asked
        /\ \/ result' = "busy" /\ job' = [job EXCEPT !.phase = "readback"]
           \/ result' = "raised" /\ job' = job
    BY <1>4 DEF WritePage, Raise, IInv, CallInv
  <2>2. job'.phase # "verify" /\ job'.op = "store" /\ job.op = "store"
        /\ job'.value = job.value /\ job'.chan = job.chan /\ job'.kind = job.kind
    BY <1>0, <2>1 DEF HeldInv, IInv, TypeOK, Jobs
  <2>3. ASSUME ~strayed',
               NEW c \in Adapters, NEW k \in Kinds, NEW p \in Pages(k)
        PROVE  mem'[c][k][p] \in asked'[c][k] \cup {Torn(p)}
    <3>1. ~strayed /\ Reached \subseteq {job.chan}
      BY <1>4, <2>3, StrayStays, OwnReached DEF WritePage
    <3>2. mem' = mem \/ Put(job.value) \/ Put(Torn(job.page))
      BY <1>4, Zenon DEF WritePage
    <3>3. mem[c][k][p] \in asked[c][k] \cup {Torn(p)}
          /\ job.value \in asked[job.chan][job.kind]
      BY <1>0, <2>1, <2>2, <3>1 DEF HeldInv
    <3>4. CASE Put(job.value)
      BY <2>1, <3>1, <3>3, <3>4, PutHeld
    <3>5. CASE Put(Torn(job.page))
      BY <2>1, <3>1, <3>3, <3>5, PutHeld
    <3> QED BY <2>1, <3>2, <3>3, <3>4, <3>5
  <2>4. strayed' \/ job'.value \in asked'[job'.chan][job'.kind]
    BY <1>0, <2>1, <2>2, StrayStays DEF HeldInv
  <2> QED
    BY <2>1, <2>2, <2>3, <2>4 DEF SafeInv, HeldInv, TrueIsStored, LoadedWasAsked
<1>5. CASE ReadBack
  <2>1. /\ result = "busy" /\ job.phase = "readback" /\ UNCHANGED <<asked, mem>>
        /\ result' \in {"busy", "raised"}
    BY <1>5 DEF ReadBack, Raise, IInv, CallInv
  <2>2. /\ job'.op = job.op /\ job'.value = job.value /\ job'.chan = job.chan
        /\ job'.kind = job.kind /\ job.op = "store"
    BY <1>0, <1>5, <2>1 DEF ReadBack, Raise, HeldInv, IInv, TypeOK, Jobs
  <2>3. job'.phase = "verify" => job'.page = 1
    BY <1>5, <2>1 DEF ReadBack, Raise, IInv, TypeOK, Jobs
  <2>4. job'.phase = "verify" => \A p \in Pages(job'.kind) : ~(p < job'.page)
    BY <2>3, PageBounds
  <2> QED
    BY <1>0, <2>1, <2>2, <2>4, StrayStays
    DEF SafeInv, HeldInv, TrueIsStored, LoadedWasAsked
<1>6. CASE VerifyPage
  <2>1. /\ at = "transfer" /\ job.phase = "verify" /\ result = "busy" /\ mem' = mem
    BY <1>6 DEF VerifyPage, IInv, CallInv
  <2>2. CASE Raise
    BY <1>0, <2>1, <2>2, StrayStays
    DEF Raise, SafeInv, HeldInv, TrueIsStored, LoadedWasAsked
  <2>3. ASSUME NEW c \in Reached, NEW r,
               r = job.read \cup {mem[c][job.kind][job.page]},
               IF LastPage THEN at' = "idle" /\ Return(r)
               ELSE /\ at' = "select"
                    /\ job' = [job EXCEPT !.page = @ + 1, !.read = r]
                    /\ UNCHANGED <<result, asked>>
        PROVE  SafeInv'
    <3>1. CASE strayed'
      <4>1. job'.phase = "verify"
        BY <2>1, <2>3 DEF Return, IInv, TypeOK, Jobs
      <4> QED
        BY <3>1, <4>1 DEF SafeInv, HeldInv, TrueIsStored, LoadedWasAsked
    <3>2. CASE ~strayed'
      <4>1. ~strayed /\ c = job.chan
        BY <1>6, <2>3, <3>2, StrayStays, OwnReached DEF VerifyPage
      <4>2. CASE LastPage
        BY <2>1, <2>3, <4>1, <4>2, ReturnSafe
      <4>3. CASE ~LastPage
        <5>1. /\ job'.op = job.op /\ job'.value = job.value
              /\ job'.chan = job.chan /\ job'.kind = job.kind
              /\ job'.phase = "verify" /\ job'.read = r
              /\ job'.page = job.page + 1
          BY <2>1, <2>3, <4>3 DEF IInv, TypeOK, Jobs
        <5>2. ASSUME NEW p \in Pages(job.kind), p < job.page + 1
              PROVE  mem[job.chan][job.kind][p] \in r
          <6>1. p < job.page \/ p = job.page
            BY <5>2, PageBounds DEF IInv, TypeOK, Jobs
          <6> QED BY <1>0, <2>1, <2>3, <4>1, <6>1 DEF HeldInv
        <5>3. UNCHANGED <<result, asked>>
          BY <2>3, <4>3
        <5> QED
          BY <1>0, <2>1, <4>1, <5>1, <5>2, <5>3
          DEF SafeInv, HeldInv, TrueIsStored, LoadedWasAsked
      <4> QED BY <4>2, <4>3
    <3> QED BY <3>1, <3>2
  <2> QED BY <1>6, <2>2, <2>3 DEF VerifyPage
<1>7. CASE Others \/ Unplugged \/ UNCHANGED vars
  <2>1. UNCHANGED <<job, result, asked, mem, strayed>>
    BY <1>7, Zenon DEF Others, Unplugged, call, vars
  <2> QED
    BY <1>0, <2>1 DEF SafeInv, HeldInv, TrueIsStored, LoadedWasAsked
<1> QED
  BY <1>1, <1>2, <1>3, <1>4, <1>5, <1>6, <1>7, Zenon DEF Next

(* A store that returns True has put its value on every page, in its own    *)
(* EEPROM, unless a transfer strayed.                                       *)
THEOREM TrueMeansStored == Spec => []TrueIsStored
<1>1. SafeInv => TrueIsStored
  BY DEF SafeInv
<1> QED BY <1>1, InitInv, StepInv, InitSafe, SafeStep, PTL DEF Spec

(* A load returns no value but one that a store was given, and of those     *)
(* none from before the last store that returned True.                      *)
THEOREM LoadedWasStored == Spec => []LoadedWasAsked
<1>1. SafeInv => LoadedWasAsked
  BY DEF SafeInv
<1> QED BY <1>1, InitInv, StepInv, InitSafe, SafeStep, PTL DEF Spec
=============================================================================
