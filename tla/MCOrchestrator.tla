--------------------------- MODULE MCOrchestrator ---------------------------
(* The modules of cmd/main.go in their registration order: game and login *)
(* (skeleton modules), gate, and the profile server that initial()        *)
(* appends because ProfileAddr is set.                                    *)
EXTENDS Orchestrator

MainKinds == <<"skel", "skel", "gate", "pprof">>

=============================================================================
