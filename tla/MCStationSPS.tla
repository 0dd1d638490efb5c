---------------------------- MODULE MCStationSPS ----------------------------
(* Small instances of StationSPS: sequences of three and of two positions,   *)
(* each with two welding programs.                                           *)
EXTENDS StationSPS

ThreePositions == <<1, 1, 2>>
TwoPositions == <<1, 2>>
=============================================================================
