---------------------------- MODULE MCCaseWorkflow ----------------------------
(***************************************************************************)
(* Small instances of CaseWorkflow.  The configurations differ in the      *)
(* operations in use and in the targets clients ask for.                   *)
(***************************************************************************)
EXTENDS CaseWorkflow, TLC

\* Every case is due one tick after its creation.
OneDay == [c \in Cases |-> 1]

\* A complete scan that names its scope, one that does not, and a failed one.
ScanCoverages ==
  { [status |-> "complete", scoped |-> TRUE, fresh |-> TRUE],
    [status |-> "complete", scoped |-> FALSE, fresh |-> TRUE],
    [status |-> "partial", scoped |-> TRUE, fresh |-> TRUE] }

\* Everything a route or a test calls.
EveryOp == AllOps

\* The targets of the console and of API clients that leave suppression and
\* closing to decisions and verifications.
WorkTargets ==
  {"triage", "assigned", "in_progress", "awaiting_verification", "reopened"}

\* What clients that always send If-Match use, besides opening requests.
VersionedOps == {"transition_if_match", "request"}

\* The operations the HTTP API exposes: no route revokes, expires or reopens.
ApiOps == AllOps \ {"revoke", "expire", "reopen"}

\* Everything but revocation, which takes a case to triage from any status.
AllButRevoke == AllOps \ {"revoke"}

\* Working on a case, deciding on its risk, and sweeping.
WorkOps == {"transition", "verify", "request", "decide", "expire"}

Symmetry == Permutations(Sessions) \cup Permutations(Decisions)
=============================================================================
