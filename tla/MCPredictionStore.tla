------------------------- MODULE MCPredictionStore -------------------------
(* Two runs of one market for TLC. *)
EXTENDS PredictionStore

MCRuns == {1, 2}
MCSettings == {[artifacts |-> TRUE,  mirror |-> TRUE,  full |-> FALSE],
               [artifacts |-> FALSE, mirror |-> TRUE,  full |-> FALSE],
               [artifacts |-> FALSE, mirror |-> TRUE,  full |-> TRUE]}
MCImport == {[artifacts |-> FALSE, mirror |-> TRUE, full |-> FALSE]}
=============================================================================
