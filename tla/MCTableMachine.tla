--------------------------- MODULE MCTableMachine ---------------------------
(* Small instances of TableMachine: two welding points.                    *)
EXTENDS TableInvariants

(* The points of a column differ in the last axis only. *)
At(p) == [a \in Axes |-> IF a = NA THEN p ELSE 2]
MoveTo(p) == [op |-> "MOVE", to |-> At(p)]
Command(c) == [op |-> c, to |-> HomePosition]

(* Two points, then unload, as every face of POSITIONS_OF_PART. *)
MCTable == <<MoveTo(1), Command("WELD"), MoveTo(2), Command("WELD"),
             MoveTo(3), Command("USER"), MoveTo(3)>>
PausedTable == <<MoveTo(1), Command("WELD"), MoveTo(2), Command("PAUSE"),
                 MoveTo(3), Command("USER"), MoveTo(3)>>
MCUnload == At(3)
MCGrind == At(1)

Working == {"MOVE_NEXT_COMMAND", "PROCESS_COMMAND", "ERROR_WELD",
            "EMERGENCY_HANDLING"}
AfterHoming == States \ {"HOMING"}

(* The stage faults the recovery is made for: the largest Exposed that is   *)
(* Tolerated without sticky electrodes.                                     *)
MCExposed == ({"cut"} \X Working) \cup ({"error", "garbled"} \X AfterHoming)
             \cup {<<"idle_cut", "EMERGENCY_HANDLING">>}
MCFaults == FaultKinds \ {"sticky"}

(* The same with sticky electrodes (Tolerated and GrindTolerated): in        *)
(* PROCESS_COMMAND the power holds and no reply is garbled, in START neither *)
(* (with position None goto_position sends nothing and returns True), and    *)
(* the two motions whose result is dropped are not refused.                  *)
GrindExposed == ({"cut"} \X (Working \ {"PROCESS_COMMAND"}))
                \cup ({"error"} \X (AfterHoming \ {"GRINDING", "ERROR_WELD"}))
                \cup ({"garbled"} \X (AfterHoming \ {"START", "PROCESS_COMMAND"}))
                \cup {<<"idle_cut", "EMERGENCY_HANDLING">>}
GrindFaults == {"sticky", "trip", "contact", "reject", "output"}

(* Every stage fault in every state. *)
AllExposed == StageFaults \X States
=============================================================================
