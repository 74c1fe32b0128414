--------------------------- MODULE MCIngestPipeline ---------------------------
(* Values of the constants of IngestPipeline for TLC. *)
EXTENDS IngestPipeline, TLC

CONSTANTS a1, a2

TwoRecords == 1 .. 2

OneAgent == [r \in Records |-> a1]
TwoAgents == [r \in Records |-> IF r = 2 THEN a2 ELSE a1]

WorkerSymmetry == Permutations(Workers)
=============================================================================
