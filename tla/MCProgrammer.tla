---------------------------- MODULE MCProgrammer ----------------------------
(* Instances of PcbaProgrammer: five short flash-stream files.               *)
EXTENDS PcbaProgrammer

Recovery == <<"write", "block">>
MCFiles == {<<"write", "skip", "block">>, <<"write", "word", "unknown">>,
            <<"write", "malformed">>, <<"write", "short">>, Recovery}
MCRecoveries == {Recovery}
=============================================================================
