----------------------------- MODULE MCManual -----------------------------
(* A small instance of ManualTable: one point on each side of the battery. *)
EXTENDS ManualTable

At(p) == [a \in Axes |-> p]
MoveTo(p) == [op |-> "MOVE", to |-> At(p)]
Command(c) == [op |-> c, to |-> HomePosition]

MCTable == <<MoveTo(1), Command("WELD"), Command("USER"),
             MoveTo(3), Command("USER"),
             MoveTo(2), Command("WELD"), Command("USER"), MoveTo(3)>>
MCUnload == At(3)
MCGrind == At(2)

(* The power fails, or the operator grinds: not both in one behaviour.      *)
MCShifts == {{"cut", "idle_cut", "garbled", "error", "empty", "curtain",
              "denied", "reject", "no_verdict"},
             {"grind", "sticky", "error", "curtain", "reject"}}

AfterHoming == States \ {"HOMING"}
MCExposed ==
  ({"cut", "garbled"} \X States)
    \cup ({"error"} \X AfterHoming)
    \cup ({"empty"} \X States)
    \cup {<<"idle_cut", "EMERGENCY_HANDLING">>}
=============================================================================
