---------------------------- MODULE WeldingCycle ----------------------------
(***************************************************************************)
(* What the welding program promises of one battery, whatever happens to   *)
(* the machine: its points are welded in the order of the table, a point   *)
(* is fired only when every point before it has an OK result, and a point  *)
(* with an OK result is not fired again.                                   *)
(***************************************************************************)
EXTENDS Integers

CONSTANT Points   \* the welding points of a battery, numbered in welding order

VARIABLES
  welded,   \* the points with an OK result
  firing    \* the point being welded, or Nothing

vars == <<welded, firing>>

Nothing == -1

Init == welded = {} /\ firing = Nothing

NextBattery == firing = Nothing /\ welded' = {} /\ UNCHANGED firing

Fire(p) ==
  /\ firing = Nothing
  /\ p \notin welded
  /\ \A q \in Points : q < p => q \in welded
  /\ firing' = p
  /\ UNCHANGED welded

Accept ==
  /\ firing # Nothing
  /\ welded' = welded \cup {firing}
  /\ firing' = Nothing

Discard == firing # Nothing /\ firing' = Nothing /\ UNCHANGED welded

Next == NextBattery \/ Accept \/ Discard \/ \E p \in Points : Fire(p)

Spec == Init /\ [][Next]_vars
=============================================================================
