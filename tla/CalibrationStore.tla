-------------------------- MODULE CalibrationStore --------------------------
(***************************************************************************)
(* CalibrationStorage on a muxed bus: the calibration values of an adapter *)
(* in its EEPROM.  A shunt resistance and an inventory number are written  *)
(* on three pages each and read back; a load returns a value only when its *)
(* pages agree.  A leakage current has one page.                           *)
(*                                                                         *)
(* Each step is one exchange with the gateway: the selection of the        *)
(* channel, or the transfer of a page.  An exception ends the call, and    *)
(* the caller goes on.                                                     *)
(***************************************************************************)
EXTENDS MuxedBus

CONSTANTS
  Adapters,    \* channels with an EEPROM
  Kinds,       \* the values in use: subset of AllKinds
  Values,      \* what is stored
  Short,       \* inventory numbers of less than eight characters
  MaxCalls     \* bound: calls of the storage

AllKinds == {"shunt", "inventory", "leak"}

ASSUME StoreAssumption ==
  /\ Adapters \subseteq Channels /\ Kinds \subseteq AllKinds
  /\ Short \subseteq Values /\ MaxCalls \in Nat

Pages(k) == IF k = "leak" THEN 1 .. 1 ELSE 1 .. 3

(* A page never written, 0xFF: no number, and the empty inventory number.   *)
Blank == <<"blank">>
Torn(p) == <<"torn", p>>
Contents == Values \cup {Blank} \cup {Torn(p) : p \in 1 .. 3}

VARIABLES
  mem,       \* mem[c][k][p]: a page of an EEPROM
  at,        \* "idle", "select" the channel, "transfer" a page
  job,       \* the call in progress, or the last one
  result,    \* how the last call ended, "busy" while one is in progress
  asked,     \* history: the value that the last store to return True was
             \* given, and those of the stores called since
  strayed,   \* history: a transfer has met another channel than its own
  calls      \* counter for the bound

call == <<at, job, result>>
vars == <<bus, mem, call, asked, strayed, calls>>

Jobs == [op : {"store", "load"}, chan : Adapters, kind : Kinds,
         value : Contents, phase : {"write", "readback", "verify"},
         page : 1 .. 3, read : SUBSET Contents]
Results == {"none", "busy", "true", "false", "value", "raised"}

Init ==
  /\ BusInit
  /\ mem = [c \in Adapters |-> [k \in Kinds |-> [p \in 1 .. 3 |-> Blank]]]
  /\ at = "idle" /\ result = "none"
  /\ job \in [op : {"load"}, chan : Adapters, kind : Kinds, value : {Blank},
              phase : {"verify"}, page : {1}, read : {{}}]
  /\ asked = [c \in Adapters |-> [k \in Kinds |-> {Blank}]]
  /\ strayed = FALSE /\ calls = 0

Call(j) ==
  /\ at = "idle" /\ calls < MaxCalls
  /\ at' = "select" /\ job' = j /\ result' = "busy"
  /\ calls' = calls + 1
  /\ UNCHANGED <<bus, mem, strayed>>

(* store_shunt_resistance_ohm, store_inventory_number, store_leakcurrent    *)
Store(c, k, v) ==
  /\ Call([op |-> "store", chan |-> c, kind |-> k, value |-> v,
           phase |-> "write", page |-> 1, read |-> {}])
  /\ asked' = [asked EXCEPT ![c][k] = @ \cup {v}]

(* load_shunt_resistance_ohm, load_inventory_number, load_leakcurrent_amps  *)
Load(c, k) ==
  /\ Call([op |-> "load", chan |-> c, kind |-> k, value |-> Blank,
           phase |-> "verify", page |-> 1, read |-> {}])
  /\ UNCHANGED asked

Raise == at' = "idle" /\ result' = "raised" /\ UNCHANGED <<job, asked>>

(* I2CMuxedBus does not look at what setChannel returns.                    *)
Select ==
  /\ at = "select"
  /\ \E e \in Ends :
       /\ SetChannel(job.chan, e)
       /\ IF e \in {"done", "odd"}
            THEN at' = "transfer" /\ UNCHANGED <<job, result, asked>>
            ELSE Raise
  /\ UNCHANGED <<mem, strayed, calls>>

-----------------------------------------------------------------------------
(* The transfer of a page, to whatever the chip connects. *)

Reached == chip \cap Adapters
Stray == strayed' = (strayed \/ ~(chip \subseteq {job.chan}))

Put(v) == mem' = [c \in Adapters |->
                    IF c \in Reached
                      THEN [mem[c] EXCEPT ![job.kind][job.page] = v]
                      ELSE mem[c]]

LastPageLate ==   \* mutant: off by one at the last page
  job.page \notin Pages(job.kind)

LastPage == job.page + 1 \notin Pages(job.kind)

(* write_page: write, wait, read back.  Neither the count of bytes written  *)
(* nor the comparison of what is read back is looked at.                    *)
WritePage ==
  /\ at = "transfer" /\ job.phase = "write"
  /\ \/ /\ Reached # {}
        /\ \/ Put(job.value) /\ UNCHANGED <<current_mask, chip, doubt, faults>>
           \/ /\ Fault("torn") /\ Put(Torn(job.page))
              /\ UNCHANGED <<current_mask, chip, doubt>>
           \/ /\ Fault("odd") /\ (Put(job.value) \/ UNCHANGED mem)
              /\ UNCHANGED <<current_mask, chip, doubt>>
        /\ at' = "select" /\ job' = [job EXCEPT !.phase = "readback"]
        /\ UNCHANGED <<result, asked>>
     \/ /\ Reached = {} /\ Raise /\ UNCHANGED <<bus, mem>>
     \/ /\ Fault("fails") /\ Raise /\ (Put(job.value) \/ UNCHANGED mem)
        /\ UNCHANGED <<current_mask, chip, doubt>>
  /\ Stray /\ UNCHANGED calls

ReadFails ==
  \/ Reached = {} /\ UNCHANGED faults
  \/ Fault("fails")

ReadBack ==
  /\ at = "transfer" /\ job.phase = "readback"
  /\ \/ /\ Reached # {} /\ UNCHANGED faults
        /\ at' = "select"
        /\ job' = IF LastPage THEN [job EXCEPT !.phase = "verify", !.page = 1]
                  ELSE [job EXCEPT !.phase = "write", !.page = @ + 1]
        /\ UNCHANGED <<result, asked>>
     \/ ReadFails /\ Raise
  /\ Stray /\ UNCHANGED <<current_mask, chip, doubt, mem, calls>>

AgreeAny(k, r) ==   \* mutant: the pages are not compared
  r # {}

(* len(read_set) == 1: a set holds each nan that is unpacked.               *)
Agree(k, r) ==
  \E v \in Contents : r = {v} /\ (v = Blank => k # "shunt")

VerifiedAgree(k, v, r) ==   \* mutant: the pages agree, on anything
  Agree(k, r) /\ ~(k = "inventory" /\ v \in Short)

(* value == read_back[1]: a short inventory number comes back padded.       *)
Verified(k, v, r) == r = {v} /\ ~(k = "inventory" /\ v \in Short)

(* __read_value has read its last page: a store compares, a load returns.   *)
Return(r) ==
  IF job.op = "store"
    THEN LET ok == Verified(job.kind, job.value, r)
         IN /\ result' = IF ok THEN "true" ELSE "false"
            /\ asked' = IF ok THEN [asked EXCEPT ![job.chan][job.kind] =
                                      {job.value}]
                              ELSE asked
            /\ job' = [job EXCEPT !.read = r]
    ELSE IF Agree(job.kind, r)
           THEN /\ result' = "value"
                /\ \E v \in r : job' = [job EXCEPT !.value = v, !.read = r]
                /\ UNCHANGED asked
           ELSE result' = "raised" /\ UNCHANGED <<job, asked>>

VerifyPage ==
  /\ at = "transfer" /\ job.phase = "verify"
  /\ \/ /\ UNCHANGED faults
        /\ \E c \in Reached :
             LET r == job.read \cup {mem[c][job.kind][job.page]}
             IN IF LastPage THEN at' = "idle" /\ Return(r)
                ELSE /\ at' = "select"
                     /\ job' = [job EXCEPT !.page = @ + 1, !.read = r]
                     /\ UNCHANGED <<result, asked>>
     \/ ReadFails /\ Raise
  /\ Stray /\ UNCHANGED <<current_mask, chip, doubt, mem, calls>>

-----------------------------------------------------------------------------
(* Other users of the bus, between two calls. *)

Others ==
  /\ at = "idle"
  /\ \E e \in Ends :
       \/ ResetMux(e)
       \/ \E c \in Channels : ResetChannel(c, e)
       \/ \E c \in Channels \ Adapters : SetChannel(c, e)
  /\ UNCHANGED <<mem, call, asked, strayed, calls>>

Unplugged == Replug /\ UNCHANGED <<mem, call, asked, strayed, calls>>

Next ==
  \/ \E c \in Adapters, k \in Kinds : Load(c, k) \/ \E v \in Values : Store(c, k, v)
  \/ Select \/ WritePage \/ ReadBack \/ VerifyPage
  \/ Others \/ Unplugged

Spec == Init /\ [][Next]_vars

-----------------------------------------------------------------------------
(* Properties. *)

(* Every variable has its type.                                             *)
TypeOK ==
  /\ current_mask \subseteq Channels /\ chip \subseteq Channels
  /\ doubt \in BOOLEAN /\ faults \in Nat
  /\ mem \in [Adapters -> [Kinds -> [1 .. 3 -> Contents]]]
  /\ at \in {"idle", "select", "transfer"}
  /\ job \in Jobs /\ result \in Results
  /\ asked \in [Adapters -> [Kinds -> SUBSET Contents]]
  /\ strayed \in BOOLEAN /\ calls \in Nat

(* A transfer of I2CMuxedBus meets no channel but its own, unless the last  *)
(* write of a mask ended without the board's word that it was done.         *)
OwnChannel == at = "transfer" => chip \subseteq {job.chan} \/ doubt

(* A store that returns True has put its value on every page, in its own    *)
(* EEPROM, unless a transfer strayed.                                       *)
TrueIsStored ==
  result = "true" =>
    strayed \/ \A p \in Pages(job.kind) : mem[job.chan][job.kind][p] = job.value

(* What a load returns was given to a store, and no store of this value has *)
(* returned True since; so a page torn by a loss of power never shows, but  *)
(* in a value that has a single page.                                       *)
LoadedWasAsked ==
  result = "value" =>
    \/ strayed
    \/ job.value \in asked[job.chan][job.kind]
    \/ job.kind = "leak" /\ job.value = Torn(1)
=============================================================================
