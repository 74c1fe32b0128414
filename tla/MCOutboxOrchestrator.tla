------------------------- MODULE MCOutboxOrchestrator -------------------------
(* Values of the constants of OutboxOrchestrator for TLC. *)
EXTENDS OutboxOrchestrator, TLC

CONSTANTS k1, k2

OneFinding == {{k1}}
\* An SBOM that reports two findings, a scanner that reports one of them.
Overlapping == {{k1, k2}, {k1}}
OneSbom == {{k1, k2}}
\* Two scanner findings, the second on a component without a package URL.
TwoScanners == {{k1}, {k2}}
\* The empty report: skipped as ambiguous or without a CVE.
SbomOrNothing == {{k1, k2}, {}}

ThreeEvents == 1 .. 3
FourEvents == 1 .. 4
FiveEvents == 1 .. 5

RowSymmetry == Permutations(Rows) \cup Permutations(Cases)
WorkerSymmetry == Permutations(Workers) \cup Permutations(Rows) \cup Permutations(Cases)
=============================================================================
