--------------------------- MODULE MCAgentsConsole ---------------------------
(* The console over the feed of two runs. *)
EXTENDS AgentsConsole

CONSTANTS s1, s2

OneSocket == {s1}
TwoSockets == {s1, s2}
FewSeqs == 0 .. 1
StepOrEnd == {"step", "run_end"}
OneOutcome == {"success"}
NoWarnings == {0}
BounceOrNoSpawn == {"read", "spawn"}
NoFaults == {}
=============================================================================
