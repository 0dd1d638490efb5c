------------------------------ MODULE MuxedBus ------------------------------
(***************************************************************************)
(* An I2C bus behind a multiplexer: BusMux selects a channel of the chip   *)
(* over the gateway, and I2CMuxedBus selects its own channel before each   *)
(* transfer.  BusMux keeps a shadow of the chip's mask and does not write  *)
(* a mask that the shadow already shows.                                   *)
(*                                                                         *)
(* __data_exchange of the gateway tries an exchange up to three times, over *)
(* a new connection each time.  A mask and a page may be written twice, so  *)
(* the tries show only in how an exchange ends:                             *)
(*   "done"    the board answered that it is done;                          *)
(*   "odd"     an answer that is neither success nor error: writeto returns *)
(*             0, and the request is executed or not;                       *)
(*   "fails"   an exception: the board refused the last try, or did not     *)
(*             answer it, or no new connection was made.  The request is    *)
(*             executed or not, by this try or by one before.               *)
(***************************************************************************)
EXTENDS Integers, FiniteSets

CONSTANTS
  Channels,    \* channels of the multiplexer in use
  Faults,      \* what may go wrong: subset of FaultKinds
  MaxFaults    \* bound: how often in all

\* "replug": the multiplexer is powered off and on with its adapter;
\* "torn": an EEPROM loses its power while it programs a page.
Ends == {"done", "odd", "fails"}
FaultKinds == {"odd", "fails", "replug", "torn"}

ASSUME BusAssumption == Faults \subseteq FaultKinds /\ MaxFaults \in Nat

VARIABLES
  current_mask,  \* the shadow: channels
  chip,          \* the channels the multiplexer connects
  doubt,         \* history: the last mask written may not be the shadow
  faults         \* counter for the bound

bus == <<current_mask, chip, doubt, faults>>

Fault(f) == f \in Faults /\ faults < MaxFaults /\ faults' = faults + 1

BusInit == current_mask = {} /\ chip \in {{}} \cup {{c} : c \in Channels}
           /\ doubt = (chip # {}) /\ faults = 0

(* setChannelMask(m); its write ends with e.                                *)
SetChannelMask(m, e) ==
  \/ /\ e = "done"
     /\ chip' = m /\ current_mask' = m /\ doubt' = FALSE
     /\ UNCHANGED faults
  \/ /\ e \in {"odd", "fails"} /\ Fault(e)
     /\ chip' \in {chip, m} /\ doubt' = TRUE
     /\ UNCHANGED current_mask

AddChannel(c, e) ==   \* mutant: the other channels stay connected
  IF c \in current_mask
    THEN e = "done" /\ UNCHANGED bus
    ELSE SetChannelMask(current_mask \cup {c}, e)

SetChannel(c, e) ==
  IF current_mask = {c}
    THEN e = "done" /\ UNCHANGED bus
    ELSE SetChannelMask({c}, e)

ResetChannel(c, e) == c \in current_mask /\ SetChannelMask(current_mask \ {c}, e)

(* mux.reset(), also the first thing a change of the clock does.            *)
ResetMux(e) == SetChannelMask({}, e)

Replug == /\ Fault("replug")
          /\ chip' = {}
          /\ UNCHANGED <<current_mask, doubt>>
=============================================================================
