------------------------------ MODULE MCIngest ------------------------------
(* Values of the constants of Ingest for model checking: one collector that   *)
(* reads the clock after the gateway answered and inserts twice, and the one  *)
(* that reads it before; the other three take the course of the first.        *)
EXTENDS Ingest, TLC
CONSTANTS f1, v1, v2
MCRegistered == <<"AggregatesCollector", "ConfigCollector">>
MCForcers == {f1}
MCPayloads == {v1, v2}
MCSymmetry == Permutations(MCPayloads)
=============================================================================
