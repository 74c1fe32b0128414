----------------------------- MODULE CaseWorkflow -----------------------------
(***************************************************************************)
(* Remediation cases and the risk decisions taken on them                  *)
(* (vulnops/cases/service.py behind vulnops/api/cases.py).                 *)
(*                                                                         *)
(* Every handler first loads the rows it works on into the identity map    *)
(* of its database session, then awaits the request body, and only then    *)
(* validates and commits.  The service loads the same rows again, but the  *)
(* identity map answers with the objects of the first load: a handler      *)
(* therefore decides on a snapshot, and other handlers commit between its  *)
(* two halves.  Each operation is two steps here: Begin takes the          *)
(* snapshot, a finishing action validates against it and commits.          *)
(*                                                                         *)
(* Only two statements look at the database again when they commit: the    *)
(* UPDATE of a transition that carries If-Match (WHERE version = expected) *)
(* and the UPDATE that claims a decision (WHERE status =                   *)
(* 'pending_approval').  All other writes go through the unit of work of   *)
(* the ORM, which writes the columns the handler changed, WHERE id = ...   *)
(***************************************************************************)
EXTENDS Naturals, FiniteSets

CONSTANTS
  Cases,        \* case ids
  Decisions,    \* risk decision ids
  Sessions,     \* database sessions: requests (or sweeps) in flight at once
  Users,        \* authenticated principals
  Approvers,    \* the human ones with risk:approve and an approver role
  Types,        \* the decision types requested
  Methods,      \* the verification methods submitted
  Coverages,    \* the coverage statements submitted with them
  Ops,          \* the operations in use
  Targets,      \* the targets clients put in a transition request
  Lifetimes,    \* how far in the future a requested decision expires
  SlaDays,      \* the SLA of each case, in ticks of the clock
  MaxTime,      \* bound on the clock
  MaxRequests,  \* bound on the requests begun
  None          \* no user, no case, no decision

Status == {"new", "triage", "assigned", "in_progress", "awaiting_verification",
           "closed", "risk_accepted", "not_applicable", "reopened"}

AllowedTransitions ==
  { <<"new", "triage">>,
    <<"triage", "assigned">>, <<"triage", "not_applicable">>,
    <<"triage", "risk_accepted">>,
    <<"assigned", "in_progress">>, <<"assigned", "triage">>,
    <<"in_progress", "awaiting_verification">>, <<"in_progress", "triage">>,
    <<"awaiting_verification", "closed">>,
    <<"awaiting_verification", "in_progress">>,
    <<"risk_accepted", "triage">>, <<"not_applicable", "triage">>,
    <<"closed", "reopened">>, <<"reopened", "triage">> }

DecisionStatus ==
  {"none", "pending_approval", "approved", "rejected", "revoked", "expired"}

AcceptingTypes == {"risk_accepted", "waiver", "compensating_control"}
AllTypes == AcceptingTypes \cup {"false_positive", "not_affected"}

\* target_state_map of an approval
DecisionTarget(type) ==
  IF type \in AcceptingTypes THEN "risk_accepted" ELSE "not_applicable"

CaseOps == {"transition", "transition_if_match", "verify", "request", "reopen"}
DecisionOps == {"decide", "revoke"}
AllOps == CaseOps \cup DecisionOps \cup {"expire"}

\* What a coverage statement says: the status the scanner reports, whether it
\* names the scope it covered, and whether the observation is under a day old.
AllMethods == {"scanner", "wazuh_inventory", "manual_attestation", "vex", "other"}
AllCoverages ==
  [status : {"missing", "partial", "unknown", "complete"},
   scoped : BOOLEAN, fresh : BOOLEAN]

ASSUME CaseConstants ==
  /\ None \notin Cases \cup Decisions \cup Users
  /\ Approvers \subseteq Users
  /\ Types \subseteq AllTypes
  /\ Methods \subseteq AllMethods
  /\ Coverages \subseteq AllCoverages
  /\ Ops \subseteq AllOps
  /\ Targets \subseteq Status
  /\ Lifetimes \subseteq Nat \ {0}
  /\ SlaDays \in [Cases -> Nat]
  /\ MaxTime \in Nat /\ MaxRequests \in Nat

VARIABLES
  now,       \* the clock
  case,      \* table remediation_cases
  decision,  \* table risk_decisions
  verdicts,  \* per decision, its approval and rejection rows in audit_events
  session,   \* per session, the running operation and its identity map
  journal,   \* the audit/outbox pairs and verifications the last step inserted
  budget     \* requests that may still begin

vars == <<now, case, decision, verdicts, session, journal, budget>>

-----------------------------------------------------------------------------
(* Rows.  A case that does not exist, and one a session has not loaded, is  *)
(* NoRow; likewise "none" for a decision.                                   *)

CaseRow == [status : Status \cup {"absent"}, version : Nat, due : Nat,
            sla_breached : BOOLEAN]
NoRow == [status |-> "absent", version |-> 0, due |-> 0, sla_breached |-> FALSE]

DecisionRow == [status : DecisionStatus, case : Cases \cup {None},
                type : AllTypes \cup {None}, requested_by : Users \cup {None},
                approver : Users \cup {None}, expires_at : Nat]
NoDecision == [status |-> "none", case |-> None, type |-> None,
               requested_by |-> None, approver |-> None, expires_at |-> 0]

Events ==
  {"case.created", "case.transitioned", "verification.completed",
   "verification.requires_approval", "verification.failed",
   "risk.decision.requested", "risk.accepted", "risk.decision.rejected",
   "risk.decision.revoked", "risk-decision.expired", "exposure.reopened"}

\* An audit row with the outbox row of the same transaction.
Entry(event, c, d, prior, new) ==
  [event |-> event, case |-> c, decision |-> d, prior |-> prior, new |-> new]

\* A row of table verifications.
Verification(c, m, cov, status) ==
  [event |-> "verification", case |-> c, method |-> m, coverage |-> cov,
   status |-> status]

SessionRow == [op : AllOps \cup {"idle"}, rows : [Cases -> CaseRow],
               drows : [Decisions -> DecisionStatus]]
Idle == [op |-> "idle", rows |-> [c \in Cases |-> NoRow],
         drows |-> [d \in Decisions |-> "none"]]

\* The identity map after loading the cases C and the decisions D.
Loaded(op, C, D) ==
  [op |-> op,
   rows |-> [c \in Cases |-> IF c \in C THEN case[c] ELSE NoRow],
   drows |-> [d \in Decisions |-> IF d \in D THEN decision[d].status ELSE "none"]]

Exists(row) == row.status # "absent"

\* The cases and decisions session s has loaded.
LoadedCases(s) == {c \in Cases : Exists(session[s].rows[c])}
LoadedDecisions(s) == {d \in Decisions : session[s].drows[d] # "none"}

\* Faulty: the whole row is written back.
FlushWholeRow(db, loaded, dirty) == dirty

\* What the unit of work writes: the columns that differ from the loaded row.
Flush(db, loaded, dirty) ==
  [db EXCEPT
     !.status = IF dirty.status = loaded.status THEN @ ELSE dirty.status,
     !.version = IF dirty.version = loaded.version THEN @ ELSE dirty.version,
     !.sla_breached =
        IF dirty.sla_breached = loaded.sla_breached THEN @ ELSE dirty.sla_breached]

\* A handler that moves its loaded case to another status.
Moved(row, status) == [row EXCEPT !.status = status, !.version = @ + 1]

Breached(row) == row.sla_breached \/ now > row.due

-----------------------------------------------------------------------------
(* The beginning of each operation: load, authorize, await the body.        *)

\* Faulty: no due date computed.
NewRowUndated(c) ==
  [status |-> "new", version |-> 1, due |-> None, sla_breached |-> FALSE]

\* The row create_case inserts, due by the SLA of its priority.
NewRow(c) ==
  [status |-> "new", version |-> 1, due |-> now + SlaDays[c], sla_breached |-> FALSE]

\* CaseService.create_case: one transaction, nothing read before it.
CreateCase(c) ==
  /\ ~Exists(case[c])
  /\ case' = [case EXCEPT ![c] = NewRow(c)]
  /\ journal' = {Entry("case.created", c, None, None, "new")}
  /\ UNCHANGED <<now, decision, verdicts, session, budget>>

Begin(s, op, C, D) ==
  /\ op \in Ops
  /\ session[s].op = "idle"
  /\ session' = [session EXCEPT ![s] = Loaded(op, C, D)]
  /\ journal' = {}
  /\ UNCHANGED <<now, case, decision, verdicts>>

BeginOnCase(s, op, c) ==
  /\ Exists(case[c])
  /\ budget > 0 /\ budget' = budget - 1
  /\ Begin(s, op, {c}, {})

\* approve_risk_decision returns early unless the loaded decision is pending;
\* revoke_decision takes any decision.
BeginOnDecision(s, op, d) ==
  /\ op = "decide" => decision[d].status = "pending_approval"
  /\ decision[d].status # "none"
  /\ budget > 0 /\ budget' = budget - 1
  /\ Begin(s, op, {decision[d].case}, {d})

\* Faulty: a decision expiring at this very moment is not selected.
OverdueStrict == {d \in Decisions :
                    decision[d].status = "approved" /\ decision[d].expires_at < now}

\* The decisions process_expirations selects, and the cases it then loads.
\* A sweep that selects nothing commits nothing.
Overdue == {d \in Decisions :
              decision[d].status = "approved" /\ decision[d].expires_at <= now}

BeginExpire(s) ==
  /\ Overdue # {}
  /\ Begin(s, "expire", {decision[d].case : d \in Overdue}, Overdue)
  /\ UNCHANGED budget

-----------------------------------------------------------------------------
(* The end of each operation: validate the snapshot and commit.             *)

\* The session ends with its operation.
Ends(s) == session' = [session EXCEPT ![s] = Idle]

\* Every refusal (invalid body, precondition failed, rowcount 0) and every
\* failure of the process or the database rolls back and changes nothing.
Abort(s) ==
  /\ session[s].op # "idle"
  /\ Ends(s)
  /\ journal' = {}
  /\ UNCHANGED <<now, case, decision, verdicts, budget>>

\* Faulty: UPDATE ... WHERE id only.
VersionUnchecked(c, expected) == TRUE

\* The predicate of the compare-and-swap UPDATE, over the stored row.
VersionMatches(c, expected) == case[c].version = expected

TransitionTo(row, target) ==
  [Moved(row, target) EXCEPT !.sla_breached = Breached(row)]

\* CaseService.transition with If-Match.  The header holds a version the
\* client has been given, so one not above the version just loaded.
TransitionIfMatch(s) ==
  /\ session[s].op = "transition_if_match"
  /\ \E c \in LoadedCases(s), target \in Targets :
       LET row == session[s].rows[c] IN
       \E expected \in 1 .. row.version :
         /\ <<row.status, target>> \in AllowedTransitions
         /\ VersionMatches(c, expected)
         /\ case' = [case EXCEPT ![c].status = target,
                                 ![c].version = expected + 1,
                                 ![c].sla_breached = Breached(row)]
         /\ journal' = {Entry("case.transitioned", c, None, row.status, target)}
  /\ Ends(s)
  /\ UNCHANGED <<now, decision, verdicts, budget>>

\* CaseService.transition without If-Match: the unit of work writes.
Transition(s) ==
  /\ session[s].op = "transition"
  /\ \E c \in LoadedCases(s), target \in Targets :
       LET row == session[s].rows[c] IN
         /\ <<row.status, target>> \in AllowedTransitions
         /\ case' = [case EXCEPT ![c] = Flush(@, row, TransitionTo(row, target))]
         /\ journal' = {Entry("case.transitioned", c, None, row.status, target)}
  /\ Ends(s)
  /\ UNCHANGED <<now, decision, verdicts, budget>>

\* Faulty: a manual attestation closes by itself.
CanCloseByAttestation(method, cov) ==
  cov.status = "complete" /\ method # "vex" /\ (method = "scanner" => cov.scoped)

\* evaluate_coverage.  A missing freshness counts as fresh.
CanClose(method, cov) ==
  /\ cov.status = "complete"
  /\ method = "scanner" => cov.scoped
  /\ method = "wazuh_inventory" => cov.fresh
  /\ method \notin {"manual_attestation", "vex"}

\* CaseService.verify.  Only a verification that can close touches the case.
Verify(s) ==
  /\ session[s].op = "verify"
  /\ \E c \in LoadedCases(s), m \in Methods, cov \in Coverages :
       LET row == session[s].rows[c] IN
       /\ row.status = "awaiting_verification"
       /\ \/ /\ CanClose(m, cov)
             /\ case' = [case EXCEPT ![c] = Flush(@, row, Moved(row, "closed"))]
             /\ journal' = {Verification(c, m, cov, "closed"),
                            Entry("verification.completed", c, None, None, None)}
          \/ /\ ~CanClose(m, cov)
             /\ UNCHANGED case
             /\ journal' =
                  IF m = "manual_attestation"
                  THEN {Verification(c, m, cov, "requires_approval"),
                        Entry("verification.requires_approval", c, None, None, None)}
                  ELSE {Verification(c, m, cov, "insufficient_evidence"),
                        Entry("verification.failed", c, None, None, None)}
  /\ Ends(s)
  /\ UNCHANGED <<now, decision, verdicts, budget>>

\* CaseService.create_risk_decision; the new row takes a free id.
RequestDecision(s) ==
  /\ session[s].op = "request"
  /\ \E c \in LoadedCases(s), d \in Decisions, type \in Types, user \in Users,
        life \in Lifetimes :
       /\ decision[d].status = "none"
       /\ decision' = [decision EXCEPT ![d] =
                         [status |-> "pending_approval", case |-> c, type |-> type,
                          requested_by |-> user, approver |-> None,
                          expires_at |-> now + life]]
       /\ journal' = {Entry("risk.decision.requested", c, d, None, None)}
  /\ Ends(s)
  /\ UNCHANGED <<now, case, verdicts, budget>>

\* Faulty: UPDATE ... WHERE id only.
ClaimUnchecked(d) == TRUE

\* The predicate of the UPDATE that claims a decision, over the stored row.
Claimable(d) == decision[d].status = "pending_approval"

\* Faulty: the instant of expiry still counts as before it.
UnexpiredOffByOne(d) == decision[d].expires_at >= now

\* The expiry, validated again when the verdict is given.
Unexpired(d) == decision[d].expires_at > now

\* Who may give the verdict on d.
MayDecide(user, d) == user \in Approvers /\ user # decision[d].requested_by

\* CaseService.approve_risk_decision: the claim, the case and both rows of the
\* journal in one transaction.
Decide(s) ==
  /\ session[s].op = "decide"
  /\ \E d \in LoadedDecisions(s), user \in Users :
       LET c == decision[d].case
           row == session[s].rows[c]
           target == DecisionTarget(decision[d].type)
       IN
       /\ MayDecide(user, d)
       /\ Claimable(d)
       /\ verdicts' = [verdicts EXCEPT ![d] = @ + 1]
       /\ \/ /\ Unexpired(d)
             /\ <<row.status, target>> \in AllowedTransitions
             /\ decision' = [decision EXCEPT ![d].status = "approved",
                                             ![d].approver = user]
             /\ case' = [case EXCEPT ![c] = Flush(@, row, Moved(row, target))]
             /\ journal' = {Entry("risk.accepted", c, d, row.status, target)}
          \/ /\ decision' = [decision EXCEPT ![d].status = "rejected",
                                             ![d].approver = user]
             /\ UNCHANGED case
             /\ journal' = {Entry("risk.decision.rejected", c, d, None, None)}
  /\ Ends(s)
  /\ UNCHANGED <<now, budget>>

\* What the unit of work writes into the status of decision d.
DecisionFlush(s, d, status) ==
  IF session[s].drows[d] = status THEN decision[d].status ELSE status

\* CaseService.revoke_decision: no condition on either row.
Revoke(s) ==
  /\ session[s].op = "revoke"
  /\ \E d \in LoadedDecisions(s) :
       LET c == decision[d].case
           row == session[s].rows[c]
       IN
       /\ decision' = [decision EXCEPT ![d].status = DecisionFlush(s, d, "revoked")]
       /\ case' = [case EXCEPT ![c] = Flush(@, row, Moved(row, "triage"))]
       /\ journal' = {Entry("risk.decision.revoked", c, d, row.status, "triage")}
  /\ Ends(s)
  /\ UNCHANGED <<now, verdicts, budget>>

\* Faulty: the sweep only marks decisions.
ReturnedNone(s) == {}

\* The cases process_expirations sends back to triage, and journals.
Returned(s) == {c \in LoadedCases(s) : session[s].rows[c].status = "risk_accepted"}

\* CaseService.process_expirations.  Of several overdue decisions on a case
\* the first sends it back, the others find it in triage: the journal names
\* only the first.
Expire(s) ==
  /\ session[s].op = "expire"
  /\ LET D == LoadedDecisions(s) IN
     \E first \in [Returned(s) -> D] :
       /\ \A c \in Returned(s) : decision[first[c]].case = c
       /\ decision' = [d \in Decisions |->
            IF d \in D THEN [decision[d] EXCEPT !.status = "expired"]
                       ELSE decision[d]]
       /\ case' = [c \in Cases |->
            IF c \in Returned(s)
            THEN Flush(case[c], session[s].rows[c],
                       Moved(session[s].rows[c], "triage"))
            ELSE case[c]]
       /\ journal' = {Entry("risk-decision.expired", c, first[c],
                            "risk_accepted", "triage") : c \in Returned(s)}
  /\ Ends(s)
  /\ UNCHANGED <<now, verdicts, budget>>

\* CaseService.reopen_on_evidence
Reopen(s) ==
  /\ session[s].op = "reopen"
  /\ \E c \in LoadedCases(s) :
       LET row == session[s].rows[c] IN
       /\ row.status = "closed"
       /\ case' = [case EXCEPT ![c] = Flush(@, row, Moved(row, "reopened"))]
       /\ journal' = {Entry("exposure.reopened", c, None, "closed", "reopened")}
  /\ Ends(s)
  /\ UNCHANGED <<now, decision, verdicts, budget>>

Tick ==
  /\ now < MaxTime
  /\ now' = now + 1
  /\ journal' = {}
  /\ UNCHANGED <<case, decision, verdicts, session, budget>>

-----------------------------------------------------------------------------
Init ==
  /\ now = 0
  /\ case = [c \in Cases |-> NoRow]
  /\ decision = [d \in Decisions |-> NoDecision]
  /\ verdicts = [d \in Decisions |-> 0]
  /\ session = [s \in Sessions |-> Idle]
  /\ journal = {}
  /\ budget = MaxRequests

Begins(s) ==
  \/ \E op \in CaseOps, c \in Cases : BeginOnCase(s, op, c)
  \/ \E op \in DecisionOps, d \in Decisions : BeginOnDecision(s, op, d)
  \/ BeginExpire(s)

Finishes(s) ==
  \/ TransitionIfMatch(s) \/ Transition(s) \/ Verify(s)
  \/ RequestDecision(s) \/ Decide(s) \/ Revoke(s) \/ Expire(s) \/ Reopen(s)

Next ==
  \/ Tick
  \/ \E c \in Cases : CreateCase(c)
  \/ \E s \in Sessions : Begins(s) \/ Finishes(s) \/ Abort(s)

Spec == Init /\ [][Next]_vars

\* A caller that sweeps for overdue decisions again and again, and is not
\* always interrupted before it commits; time passes.
Fairness ==
  /\ WF_vars(Tick)
  /\ \A s \in Sessions : WF_vars(BeginExpire(s)) /\ SF_vars(Expire(s))
                         /\ WF_vars(Finishes(s) \/ Abort(s))

FairSpec == Spec /\ Fairness

-----------------------------------------------------------------------------
(* Properties.                                                              *)

JournalRow ==
  [event : Events, case : Cases, decision : Decisions \cup {None},
   prior : Status \cup {"absent", None}, new : Status \cup {None}]
  \cup [event : {"verification"}, case : Cases, method : AllMethods,
        coverage : AllCoverages,
        status : {"closed", "requires_approval", "insufficient_evidence"}]

\* Every variable keeps its shape; a decision that exists names its case and
\* type, and a session has loaded only decisions that exist.
TypeOK ==
  /\ now \in Nat
  /\ case \in [Cases -> CaseRow]
  /\ decision \in [Decisions -> DecisionRow]
  /\ \A d \in Decisions : decision[d].status # "none" =>
       /\ decision[d].case \in Cases
       /\ decision[d].type \in AllTypes
  /\ verdicts \in [Decisions -> Nat]
  /\ session \in [Sessions -> SessionRow]
  /\ \A s \in Sessions, d \in Decisions :
       session[s].drows[d] # "none" => decision[d].status # "none"
  /\ journal \subseteq JournalRow
  /\ budget \in Nat

\* However many approvers load the same pending decision, at most one verdict
\* on it is ever journalled, and the row names an approver exactly when one is
\* (the conditional UPDATE of approve_risk_decision, "exactly one transaction
\* can claim the row").  A revocation or a sweep may overwrite the status
\* later, never the verdict.
DecidedAtMostOnce ==
  \A d \in Decisions :
    /\ verdicts[d] <= 1
    /\ verdicts[d] = 1 <=> decision[d].approver # None

\* A decision becomes approved only out of pending, before it expires, by an
\* approver other than its requester, and its case is in the status the
\* decision asks for in the same transaction: neither a stale approval nor a
\* sweep brings a rejected, revoked or expired decision back.
ApprovalTakesEffect ==
  [][\A d \in Decisions :
       decision[d].status # "approved" /\ decision'[d].status = "approved" =>
         /\ decision[d].status = "pending_approval"
         /\ now < decision[d].expires_at
         /\ decision'[d].approver \in Approvers \ {decision[d].requested_by}
         /\ case'[decision[d].case].status = DecisionTarget(decision[d].type)]_vars

\* A breach of the SLA, once recorded, is never erased, although transitions
\* write the flag they computed from a snapshot (CaseService.transition).
BreachIsSticky ==
  [][\A c \in Cases : case[c].sla_breached => case'[c].sla_breached]_vars

\* A case is closed only by a verification stored in the same transaction
\* whose coverage is complete and whose method proves remediation by itself.
ClosedByPositiveEvidence ==
  [][\A c \in Cases :
       case[c].status # "closed" /\ case'[c].status = "closed" =>
         \E v \in journal' :
           /\ v.event = "verification" /\ v.case = c
           /\ v.coverage.status = "complete"
           /\ v.method \notin {"manual_attestation", "vex"}]_vars

\* Some decision on c in force asks for the given status.
Backed(c, status) ==
  \E d \in Decisions :
    /\ decision[d].status = "approved"
    /\ decision[d].case = c
    /\ DecisionTarget(decision[d].type) = status

\* While a case is in risk_accepted, an approved decision accepts its risk:
\* revocation and expiry take the case back before none is left.
RiskAcceptedIsBacked ==
  \A c \in Cases :
    case[c].status = "risk_accepted" => Backed(c, "risk_accepted")

\* The same for a case suppressed as not applicable.
NotApplicableIsBacked ==
  \A c \in Cases :
    case[c].status = "not_applicable" => Backed(c, "not_applicable")

\* The history of a case is linear: every change of its status is a transition
\* of the map from the status it replaces, raises the version by exactly one,
\* and the journal names the status that was replaced.
HistoryIsLinear ==
  [][\A c \in Cases :
       Exists(case[c]) /\ case'[c] # case[c] =>
         /\ <<case[c].status, case'[c].status>> \in AllowedTransitions
         /\ case'[c].version = case[c].version + 1
         /\ \A e \in journal' :
              e.event # "verification" /\ e.case = c =>
                e.prior \in {None, case[c].status}]_vars

\* A version handed out as an entity tag never names two states of a case.
EtagsAreNotReused ==
  [][\A c \in Cases :
       case'[c] # case[c] => case'[c].version > case[c].version]_vars

\* Every change of a decision is journalled in its own transaction.
DecisionChangesAreJournalled ==
  [][\A d \in Decisions :
       decision'[d].status # decision[d].status =>
         \E e \in journal' : e.event # "verification" /\ e.decision = d]_vars

\* An approved decision past its expiry does not stay approved.
OverdueDecisionsExpire ==
  \A d \in Decisions :
    decision[d].status = "approved" /\ decision[d].expires_at <= now
      ~> decision[d].status # "approved"
=============================================================================
