-------------------------- MODULE CaseWorkflowProofs --------------------------
(***************************************************************************)
(* What holds of the case workflow for every set of cases, decisions,      *)
(* sessions and users, and every use of its operations.                    *)
(***************************************************************************)
EXTENDS CaseWorkflow, TLAPS

-----------------------------------------------------------------------------
(* The operators on rows.                                                   *)

LEMMA IdleType == Idle \in SessionRow
  BY DEF Idle, SessionRow, NoRow, CaseRow, DecisionStatus

LEMMA LoadedType ==
  ASSUME TypeOK, NEW op \in AllOps, NEW C, NEW D
  PROVE  Loaded(op, C, D) \in SessionRow
  BY DEF Loaded, SessionRow, TypeOK, NoRow, CaseRow, DecisionRow, DecisionStatus

LEMMA FlushType ==
  ASSUME NEW db \in CaseRow, NEW loaded \in CaseRow, NEW dirty \in CaseRow
  PROVE  /\ Flush(db, loaded, dirty) \in CaseRow
         /\ Flush(db, loaded, dirty).due = db.due
         /\ Flush(db, loaded, dirty).status =
              IF dirty.status = loaded.status THEN db.status ELSE dirty.status
         /\ Flush(db, loaded, dirty).version =
              IF dirty.version = loaded.version THEN db.version ELSE dirty.version
         /\ Flush(db, loaded, dirty).sla_breached =
              IF dirty.sla_breached = loaded.sla_breached
              THEN db.sla_breached ELSE dirty.sla_breached
  BY DEF Flush, CaseRow

LEMMA MovedType ==
  ASSUME NEW row \in CaseRow, NEW status \in Status
  PROVE  /\ Moved(row, status) \in CaseRow
         /\ Moved(row, status).status = status
         /\ Moved(row, status).version = row.version + 1
         /\ Moved(row, status).due = row.due
         /\ Moved(row, status).sla_breached = row.sla_breached
  <1>1. PICK v \in Nat : v = row.version + 1
    BY DEF CaseRow
  <1>2. Moved(row, status) = [row EXCEPT !.status = status, !.version = v]
    BY <1>1 DEF Moved
  <1>3. [row EXCEPT !.status = status, !.version = v] \in CaseRow
    BY DEF CaseRow
  <1> QED BY <1>1, <1>2, <1>3 DEF CaseRow

LEMMA TransitionToType ==
  ASSUME TypeOK, NEW row \in CaseRow, NEW status \in Status
  PROVE  /\ TransitionTo(row, status) \in CaseRow
         /\ TransitionTo(row, status).status = status
         /\ TransitionTo(row, status).version = row.version + 1
         /\ TransitionTo(row, status).sla_breached = Breached(row)
  <1>1. Breached(row) \in BOOLEAN
    BY DEF Breached, CaseRow
  <1> QED BY <1>1, MovedType DEF TransitionTo, CaseRow

LEMMA TargetInStatus == \A type : DecisionTarget(type) \in Status
  BY DEF DecisionTarget, Status

LEMMA EntryType ==
  ASSUME NEW event \in Events, NEW c \in Cases, NEW d \in Decisions \cup {None},
         NEW prior \in Status \cup {"absent", None}, NEW new \in Status \cup {None}
  PROVE  Entry(event, c, d, prior, new) \in JournalRow
  BY DEF Entry, JournalRow

LEMMA VerificationType ==
  ASSUME NEW c \in Cases, NEW m \in Methods, NEW cov \in Coverages,
         NEW status \in {"closed", "requires_approval", "insufficient_evidence"}
  PROVE  Verification(c, m, cov, status) \in JournalRow
  BY CaseConstants DEF Verification, JournalRow

\* What a session has loaded are rows, and loaded cases exist in a status.
LEMMA SnapshotType ==
  ASSUME TypeOK, NEW s \in Sessions
  PROVE  /\ session[s] \in SessionRow
         /\ \A c \in Cases : session[s].rows[c] \in CaseRow
         /\ \A d \in Decisions : session[s].drows[d] \in DecisionStatus
         /\ \A c \in LoadedCases(s) : c \in Cases /\ session[s].rows[c].status \in Status
         /\ LoadedDecisions(s) \subseteq Decisions
  BY DEF TypeOK, SessionRow, LoadedCases, LoadedDecisions, Exists, CaseRow

-----------------------------------------------------------------------------
(* Type correctness.                                                        *)

LEMMA EndsType ==
  ASSUME TypeOK, NEW s \in Sessions, Ends(s)
  PROVE  /\ session' \in [Sessions -> SessionRow]
         /\ \A t \in Sessions, d \in Decisions :
              session'[t].drows[d] # "none" => session[t].drows[d] # "none"
  <1>1. session' \in [Sessions -> SessionRow]
    BY IdleType DEF Ends, TypeOK
  <1>2. \A d \in Decisions : Idle.drows[d] = "none"
    BY DEF Idle
  <1> QED BY <1>1, <1>2 DEF Ends, TypeOK

\* A finishing action that leaves the decisions alone and replaces one row of
\* table remediation_cases.
LEMMA CaseWriteType ==
  ASSUME TypeOK, NEW s \in Sessions, Ends(s), NEW c \in Cases,
         NEW row \in CaseRow, case' = [case EXCEPT ![c] = row],
         journal' \subseteq JournalRow,
         UNCHANGED <<now, decision, verdicts, budget>>
  PROVE  TypeOK'
  BY EndsType DEF TypeOK

LEMMA CreateCaseType ==
  ASSUME TypeOK, NEW c \in Cases, CreateCase(c)
  PROVE  TypeOK'
  <1>1. NewRow(c) \in CaseRow
    BY CaseConstants DEF NewRow, CaseRow, Status, TypeOK
  <1>2. journal' \subseteq JournalRow
    BY EntryType DEF CreateCase, Status, Events
  <1> QED BY <1>1, <1>2 DEF CreateCase, TypeOK

LEMMA BeginType ==
  ASSUME TypeOK, NEW s \in Sessions, NEW op \in AllOps, NEW C,
         NEW D \in SUBSET {d \in Decisions : decision[d].status # "none"},
         Begin(s, op, C, D), budget' \in Nat
  PROVE  TypeOK'
  <1>1. Loaded(op, C, D) \in SessionRow
    BY LoadedType
  <1>2. \A d \in Decisions :
          Loaded(op, C, D).drows[d] # "none" => decision[d].status # "none"
    BY DEF Loaded
  <1> QED BY <1>1, <1>2 DEF Begin, TypeOK

LEMMA BeginsType ==
  ASSUME TypeOK, NEW s \in Sessions, Begins(s)
  PROVE  TypeOK'
  <1>1. ASSUME NEW op \in CaseOps, NEW c \in Cases, BeginOnCase(s, op, c)
        PROVE  TypeOK'
    <2>1. budget' \in Nat /\ op \in AllOps
      BY <1>1 DEF BeginOnCase, TypeOK, AllOps
    <2>2. {} \in SUBSET {d \in Decisions : decision[d].status # "none"}
      OBVIOUS
    <2> QED BY <1>1, <2>1, <2>2, BeginType DEF BeginOnCase
  <1>2. ASSUME NEW op \in DecisionOps, NEW d \in Decisions, BeginOnDecision(s, op, d)
        PROVE  TypeOK'
    <2>1. budget' \in Nat /\ op \in AllOps
      BY <1>2 DEF BeginOnDecision, TypeOK, AllOps
    <2>2. {d} \in SUBSET {e \in Decisions : decision[e].status # "none"}
      BY <1>2 DEF BeginOnDecision
    <2> QED BY <1>2, <2>1, <2>2, BeginType DEF BeginOnDecision
  <1>3. ASSUME BeginExpire(s)
        PROVE  TypeOK'
    <2>1. budget' \in Nat /\ "expire" \in AllOps
      BY <1>3 DEF BeginExpire, TypeOK, AllOps
    <2>2. Overdue \in SUBSET {d \in Decisions : decision[d].status # "none"}
      BY DEF Overdue
    <2> QED BY <1>3, <2>1, <2>2, BeginType DEF BeginExpire
  <1> QED BY <1>1, <1>2, <1>3 DEF Begins

LEMMA TransitionIfMatchType ==
  ASSUME TypeOK, NEW s \in Sessions, TransitionIfMatch(s)
  PROVE  TypeOK'
  <1>1. PICK c \in LoadedCases(s), target \in Targets :
          \E e \in 1 .. session[s].rows[c].version :
            /\ case' = [case EXCEPT ![c].status = target,
                                    ![c].version = e + 1,
                                    ![c].sla_breached = Breached(session[s].rows[c])]
            /\ journal' = {Entry("case.transitioned", c, None,
                                 session[s].rows[c].status, target)}
    BY Zenon DEF TransitionIfMatch
  <1>a. PICK expected \in 1 .. session[s].rows[c].version :
          /\ case' = [case EXCEPT ![c].status = target,
                                  ![c].version = expected + 1,
                                  ![c].sla_breached = Breached(session[s].rows[c])]
          /\ journal' = {Entry("case.transitioned", c, None,
                               session[s].rows[c].status, target)}
    BY <1>1
  <1>2. c \in Cases /\ session[s].rows[c].status \in Status
        /\ session[s].rows[c] \in CaseRow /\ target \in Status
    BY SnapshotType, CaseConstants
  <1>3. PICK v \in Nat, b \in BOOLEAN :
          v = expected + 1 /\ b = Breached(session[s].rows[c])
    <2>1. Breached(session[s].rows[c]) \in BOOLEAN
      BY <1>2 DEF Breached, CaseRow
    <2>2. expected + 1 \in Nat
      OBVIOUS
    <2> QED BY <2>1, <2>2, Zenon
  <1>4. [case[c] EXCEPT !.status = target, !.version = v, !.sla_breached = b]
          \in CaseRow
    BY <1>2 DEF TypeOK, CaseRow
  <1>5. case' = [case EXCEPT ![c] = [case[c] EXCEPT !.status = target,
                                       !.version = v, !.sla_breached = b]]
    BY <1>a, <1>2, <1>3 DEF TypeOK
  <1>6. journal' \subseteq JournalRow
    BY <1>a, <1>2, EntryType DEF Events
  <1> QED BY <1>2, <1>4, <1>5, <1>6, CaseWriteType DEF TransitionIfMatch

LEMMA TransitionType ==
  ASSUME TypeOK, NEW s \in Sessions, Transition(s)
  PROVE  TypeOK'
  <1>1. PICK c \in LoadedCases(s), target \in Targets :
          /\ case' = [case EXCEPT ![c] =
                        Flush(@, session[s].rows[c],
                              TransitionTo(session[s].rows[c], target))]
          /\ journal' = {Entry("case.transitioned", c, None,
                               session[s].rows[c].status, target)}
    BY DEF Transition
  <1>2. c \in Cases /\ session[s].rows[c].status \in Status
        /\ session[s].rows[c] \in CaseRow /\ target \in Status /\ case[c] \in CaseRow
    BY SnapshotType, CaseConstants DEF TypeOK
  <1>3. Flush(case[c], session[s].rows[c], TransitionTo(session[s].rows[c], target))
          \in CaseRow
    BY <1>2, FlushType, TransitionToType
  <1>4. journal' \subseteq JournalRow
    BY <1>1, <1>2, EntryType DEF Events
  <1> QED BY <1>1, <1>2, <1>3, <1>4, CaseWriteType DEF Transition

LEMMA VerifyType ==
  ASSUME TypeOK, NEW s \in Sessions, Verify(s)
  PROVE  TypeOK'
  <1>1. PICK c \in LoadedCases(s), m \in Methods, cov \in Coverages :
          \/ /\ case' = [case EXCEPT ![c] = Flush(@, session[s].rows[c],
                                              Moved(session[s].rows[c], "closed"))]
             /\ journal' = {Verification(c, m, cov, "closed"),
                            Entry("verification.completed", c, None, None, None)}
          \/ /\ UNCHANGED case
             /\ journal' =
                  IF m = "manual_attestation"
                  THEN {Verification(c, m, cov, "requires_approval"),
                        Entry("verification.requires_approval", c, None, None, None)}
                  ELSE {Verification(c, m, cov, "insufficient_evidence"),
                        Entry("verification.failed", c, None, None, None)}
    BY DEF Verify
  <1>2. c \in Cases /\ session[s].rows[c] \in CaseRow /\ case[c] \in CaseRow
        /\ "closed" \in Status
    BY SnapshotType DEF TypeOK, Status
  <1>3. Flush(case[c], session[s].rows[c], Moved(session[s].rows[c], "closed"))
          \in CaseRow
    BY <1>2, FlushType, MovedType
  <1>4. journal' \subseteq JournalRow
    <2>1. \A status \in {"closed", "requires_approval", "insufficient_evidence"},
             e \in {"verification.completed", "verification.requires_approval",
                    "verification.failed"} :
            /\ Verification(c, m, cov, status) \in JournalRow
            /\ Entry(e, c, None, None, None) \in JournalRow
      BY <1>2, EntryType, VerificationType DEF Events
    <2> QED BY <1>1, <2>1
  <1>5. case' \in [Cases -> CaseRow]
    BY <1>1, <1>2, <1>3 DEF TypeOK
  <1> QED BY <1>4, <1>5, EndsType DEF Verify, TypeOK

\* A finishing action that changes the status of decisions, and at most cases.
LEMMA DecisionWriteType ==
  ASSUME TypeOK, NEW s \in Sessions, Ends(s),
         case' \in [Cases -> CaseRow],
         decision' \in [Decisions -> DecisionRow],
         \A d \in Decisions :
           decision'[d] = decision[d]
             \/ (/\ decision'[d].case \in Cases
                 /\ decision'[d].type \in AllTypes
                 /\ decision'[d].status # "none"),
         verdicts' \in [Decisions -> Nat],
         journal' \subseteq JournalRow,
         UNCHANGED <<now, budget>>
  PROVE  TypeOK'
  BY EndsType DEF TypeOK

LEMMA RequestDecisionType ==
  ASSUME TypeOK, NEW s \in Sessions, RequestDecision(s)
  PROVE  TypeOK'
  <1>0. \E c \in LoadedCases(s), d \in Decisions, type \in Types, user \in Users,
             life \in Lifetimes :
          /\ decision[d].status = "none"
          /\ decision' = [decision EXCEPT ![d] =
                            [status |-> "pending_approval", case |-> c, type |-> type,
                             requested_by |-> user, approver |-> None,
                             expires_at |-> now + life]]
          /\ journal' = {Entry("risk.decision.requested", c, d, None, None)}
    BY Zenon DEF RequestDecision
  <1>1. PICK c \in LoadedCases(s), d \in Decisions, type \in Types, user \in Users,
             life \in Lifetimes :
          /\ decision' = [decision EXCEPT ![d] =
                            [status |-> "pending_approval", case |-> c, type |-> type,
                             requested_by |-> user, approver |-> None,
                             expires_at |-> now + life]]
          /\ journal' = {Entry("risk.decision.requested", c, d, None, None)}
    BY <1>0, Zenon
  <1>2. c \in Cases /\ type \in AllTypes /\ now + life \in Nat
    BY SnapshotType, CaseConstants DEF TypeOK
  <1>3. [status |-> "pending_approval", case |-> c, type |-> type,
         requested_by |-> user, approver |-> None, expires_at |-> now + life]
          \in DecisionRow
    BY <1>2 DEF DecisionRow, DecisionStatus
  <1>4. decision' \in [Decisions -> DecisionRow]
    BY <1>1, <1>3 DEF TypeOK
  <1>5. \A e \in Decisions :
          decision'[e] = decision[e]
            \/ (/\ decision'[e].case \in Cases
                /\ decision'[e].type \in AllTypes
                /\ decision'[e].status # "none")
    BY <1>1, <1>2 DEF TypeOK
  <1>6. journal' \subseteq JournalRow
    BY <1>1, <1>2, EntryType DEF Events
  <1>7. case' \in [Cases -> CaseRow] /\ verdicts' \in [Decisions -> Nat]
    BY DEF RequestDecision, TypeOK
  <1> QED BY <1>4, <1>5, <1>6, <1>7, DecisionWriteType DEF RequestDecision

LEMMA DecideType ==
  ASSUME TypeOK, NEW s \in Sessions, Decide(s)
  PROVE  TypeOK'
  <1> DEFINE row(d) == session[s].rows[decision[d].case]
             target(d) == DecisionTarget(decision[d].type)
  <1>1. PICK d \in LoadedDecisions(s), user \in Users :
          /\ Claimable(d)
          /\ verdicts' = [verdicts EXCEPT ![d] = @ + 1]
          /\ \/ /\ <<row(d).status, target(d)>> \in AllowedTransitions
                /\ decision' = [decision EXCEPT ![d].status = "approved",
                                                ![d].approver = user]
                /\ case' = [case EXCEPT ![decision[d].case] =
                              Flush(@, row(d), Moved(row(d), target(d)))]
                /\ journal' = {Entry("risk.accepted", decision[d].case, d,
                                     row(d).status, target(d))}
             \/ /\ decision' = [decision EXCEPT ![d].status = "rejected",
                                                ![d].approver = user]
                /\ UNCHANGED case
                /\ journal' = {Entry("risk.decision.rejected", decision[d].case, d,
                                     None, None)}
    BY Zenon DEF Decide
  <1>2. /\ d \in Decisions /\ decision[d].case \in Cases
        /\ row(d) \in CaseRow /\ case[decision[d].case] \in CaseRow
        /\ target(d) \in Status
        /\ decision[d] \in DecisionRow /\ decision[d].type \in AllTypes
    BY <1>1, SnapshotType, TargetInStatus DEF Claimable, TypeOK
  <1>3. \A st \in {"approved", "rejected"} :
          [decision[d] EXCEPT !.status = st, !.approver = user] \in DecisionRow
    BY <1>2 DEF DecisionRow, DecisionStatus
  <1>4. PICK st \in {"approved", "rejected"} :
          decision' = [decision EXCEPT ![d] =
                         [decision[d] EXCEPT !.status = st, !.approver = user]]
    BY <1>1, <1>2 DEF TypeOK
  <1>5. decision' \in [Decisions -> DecisionRow]
    BY <1>2, <1>3, <1>4 DEF TypeOK
  <1>6. \A e \in Decisions :
          decision'[e] = decision[e]
            \/ (/\ decision'[e].case \in Cases
                /\ decision'[e].type \in AllTypes
                /\ decision'[e].status # "none")
    BY <1>2, <1>4 DEF TypeOK, DecisionRow
  <1>7. Flush(case[decision[d].case], row(d), Moved(row(d), target(d))) \in CaseRow
    BY <1>2, FlushType, MovedType
  <1>8. case' \in [Cases -> CaseRow]
    BY <1>1, <1>2, <1>7 DEF TypeOK
  <1>9. journal' \subseteq JournalRow
    <2>1. CASE <<row(d).status, target(d)>> \in AllowedTransitions
      <3>1. row(d).status \in Status
        BY <2>1, <1>2 DEF AllowedTransitions, Status
      <3>2. /\ Entry("risk.accepted", decision[d].case, d, row(d).status, target(d))
                 \in JournalRow
            /\ Entry("risk.decision.rejected", decision[d].case, d, None, None)
                 \in JournalRow
        BY <3>1, <1>2, EntryType DEF Events
      <3> QED BY <3>2, <1>1
    <2>2. CASE <<row(d).status, target(d)>> \notin AllowedTransitions
      <3>1. Entry("risk.decision.rejected", decision[d].case, d, None, None)
                 \in JournalRow
        BY <1>2, EntryType DEF Events
      <3> QED BY <3>1, <2>2, <1>1
    <2> QED BY <2>1, <2>2
  <1>10. verdicts' \in [Decisions -> Nat]
    BY <1>1, <1>2 DEF TypeOK
  <1> QED BY <1>5, <1>6, <1>8, <1>9, <1>10, DecisionWriteType DEF Decide

LEMMA RevokeType ==
  ASSUME TypeOK, NEW s \in Sessions, Revoke(s)
  PROVE  TypeOK'
  <1> DEFINE row(d) == session[s].rows[decision[d].case]
  <1>1. PICK d \in LoadedDecisions(s) :
          /\ decision' = [decision EXCEPT ![d].status = DecisionFlush(s, d, "revoked")]
          /\ case' = [case EXCEPT ![decision[d].case] =
                        Flush(@, row(d), Moved(row(d), "triage"))]
          /\ journal' = {Entry("risk.decision.revoked", decision[d].case, d,
                               row(d).status, "triage")}
    BY Zenon DEF Revoke
  <1>2. /\ d \in Decisions /\ decision[d].case \in Cases
        /\ row(d) \in CaseRow /\ case[decision[d].case] \in CaseRow
        /\ "triage" \in Status /\ row(d).status \in Status \cup {"absent"}
        /\ decision[d] \in DecisionRow /\ decision[d].status # "none"
        /\ decision[d].type \in AllTypes
    BY <1>1, SnapshotType DEF TypeOK, LoadedDecisions, Status, CaseRow
  <1>3. PICK st \in DecisionStatus :
          st = DecisionFlush(s, d, "revoked") /\ st # "none"
    BY <1>2 DEF DecisionFlush, DecisionRow, DecisionStatus
  <1>4. decision' = [decision EXCEPT ![d] = [decision[d] EXCEPT !.status = st]]
    BY <1>1, <1>2, <1>3 DEF TypeOK
  <1>5. [decision[d] EXCEPT !.status = st] \in DecisionRow
    BY <1>2, <1>3 DEF DecisionRow
  <1>6. decision' \in [Decisions -> DecisionRow]
    BY <1>2, <1>4, <1>5 DEF TypeOK
  <1>7. \A e \in Decisions :
          decision'[e] = decision[e]
            \/ (/\ decision'[e].case \in Cases
                /\ decision'[e].type \in AllTypes
                /\ decision'[e].status # "none")
    BY <1>2, <1>3, <1>4 DEF TypeOK, DecisionRow
  <1>8. Flush(case[decision[d].case], row(d), Moved(row(d), "triage")) \in CaseRow
    BY <1>2, FlushType, MovedType
  <1>9. case' \in [Cases -> CaseRow]
    BY <1>1, <1>2, <1>8 DEF TypeOK
  <1>10. journal' \subseteq JournalRow
    BY <1>1, <1>2, EntryType DEF Events
  <1>11. verdicts' \in [Decisions -> Nat]
    BY DEF Revoke, TypeOK
  <1> QED BY <1>6, <1>7, <1>9, <1>10, <1>11, DecisionWriteType DEF Revoke

LEMMA ExpireType ==
  ASSUME TypeOK, NEW s \in Sessions, Expire(s)
  PROVE  TypeOK'
  <1> DEFINE D == LoadedDecisions(s)
  <1>1. PICK first \in [Returned(s) -> D] :
          /\ decision' = [d \in Decisions |->
               IF d \in D THEN [decision[d] EXCEPT !.status = "expired"]
                          ELSE decision[d]]
          /\ case' = [c \in Cases |->
               IF c \in Returned(s)
               THEN Flush(case[c], session[s].rows[c],
                          Moved(session[s].rows[c], "triage"))
               ELSE case[c]]
          /\ journal' = {Entry("risk-decision.expired", c, first[c],
                               "risk_accepted", "triage") : c \in Returned(s)}
    BY DEF Expire
  <1>2. "triage" \in Status /\ "risk_accepted" \in Status
        /\ Returned(s) \subseteq Cases /\ D \subseteq Decisions
    BY DEF Status, Returned, LoadedCases, LoadedDecisions
  <1>3. \A c \in Cases :
          Flush(case[c], session[s].rows[c], Moved(session[s].rows[c], "triage"))
            \in CaseRow
    BY <1>2, SnapshotType, FlushType, MovedType DEF TypeOK
  <1>4. case' \in [Cases -> CaseRow]
    BY <1>1, <1>3 DEF TypeOK
  <1>5. \A d \in Decisions :
          [decision[d] EXCEPT !.status = "expired"] \in DecisionRow
    BY DEF TypeOK, DecisionRow, DecisionStatus
  <1>6. decision' \in [Decisions -> DecisionRow]
    BY <1>1, <1>5 DEF TypeOK
  <1>7. \A d \in Decisions :
          decision'[d] = decision[d]
            \/ (/\ decision'[d].case \in Cases
                /\ decision'[d].type \in AllTypes
                /\ decision'[d].status # "none")
    <2> SUFFICES ASSUME NEW d \in D, d \in Decisions
                 PROVE  /\ decision'[d].case \in Cases
                        /\ decision'[d].type \in AllTypes
                        /\ decision'[d].status # "none"
      BY <1>1
    <2>1. decision[d].status # "none" /\ decision[d] \in DecisionRow
      BY DEF TypeOK, LoadedDecisions
    <2> QED BY <1>1, <2>1 DEF TypeOK, DecisionRow
  <1>8. journal' \subseteq JournalRow
    <2> SUFFICES ASSUME NEW c \in Returned(s)
                 PROVE  Entry("risk-decision.expired", c, first[c],
                              "risk_accepted", "triage") \in JournalRow
      BY <1>1
    <2>1. c \in Cases /\ first[c] \in Decisions
      BY <1>2
    <2> QED BY <1>2, <2>1, EntryType DEF Events
  <1>9. verdicts' \in [Decisions -> Nat]
    BY DEF Expire, TypeOK
  <1> QED BY <1>4, <1>6, <1>7, <1>8, <1>9, DecisionWriteType DEF Expire

LEMMA ReopenType ==
  ASSUME TypeOK, NEW s \in Sessions, Reopen(s)
  PROVE  TypeOK'
  <1>1. PICK c \in LoadedCases(s) :
          /\ case' = [case EXCEPT ![c] = Flush(@, session[s].rows[c],
                                           Moved(session[s].rows[c], "reopened"))]
          /\ journal' = {Entry("exposure.reopened", c, None, "closed", "reopened")}
    BY DEF Reopen
  <1>2. c \in Cases /\ session[s].rows[c] \in CaseRow /\ case[c] \in CaseRow
        /\ "closed" \in Status /\ "reopened" \in Status
    BY SnapshotType DEF TypeOK, Status
  <1>3. Flush(case[c], session[s].rows[c], Moved(session[s].rows[c], "reopened"))
          \in CaseRow
    BY <1>2, FlushType, MovedType
  <1>4. journal' \subseteq JournalRow
    BY <1>1, <1>2, EntryType DEF Events
  <1> QED BY <1>1, <1>2, <1>3, <1>4, CaseWriteType DEF Reopen

LEMMA InitType == Init => TypeOK
  <1>1. Init => session \in [Sessions -> SessionRow]
    BY IdleType DEF Init
  <1>2. Init => case \in [Cases -> CaseRow]
    BY DEF Init, NoRow, CaseRow
  <1>3. Init => decision \in [Decisions -> DecisionRow]
    BY DEF Init, NoDecision, DecisionRow, DecisionStatus
  <1>4. \A d \in Decisions : Idle.drows[d] = "none" /\ NoDecision.status = "none"
    BY DEF Idle, NoDecision
  <1>5. Init => /\ \A d \in Decisions : decision[d].status = "none"
                /\ \A s \in Sessions, d \in Decisions : session[s].drows[d] = "none"
    BY <1>4 DEF Init
  <1>6. Init => verdicts \in [Decisions -> Nat] /\ budget \in Nat /\ now \in Nat
                /\ journal \subseteq JournalRow
    BY CaseConstants DEF Init
  <1> QED BY <1>1, <1>2, <1>3, <1>5, <1>6 DEF TypeOK

LEMMA NextType == TypeOK /\ [Next]_vars => TypeOK'
  <1> SUFFICES ASSUME TypeOK, [Next]_vars PROVE TypeOK'
    OBVIOUS
  <1>1. ASSUME Tick PROVE TypeOK'
    BY <1>1 DEF Tick, TypeOK
  <1>2. ASSUME NEW s \in Sessions, Abort(s) PROVE TypeOK'
    BY <1>2, EndsType DEF Abort, TypeOK
  <1>3. ASSUME NEW s \in Sessions, Finishes(s) PROVE TypeOK'
    BY <1>3, TransitionIfMatchType, TransitionType, VerifyType, RequestDecisionType,
       DecideType, RevokeType, ExpireType, ReopenType DEF Finishes
  <1>4. CASE UNCHANGED vars
    BY <1>4 DEF vars, TypeOK
  <1> QED BY <1>1, <1>2, <1>3, <1>4, CreateCaseType, BeginsType DEF Next

\* In every behaviour, all rows keep their shape, existing decisions name their
\* case and type, and sessions have loaded only what exists.
THEOREM TypeCorrect == Spec => []TypeOK
  BY InitType, NextType, PTL DEF Spec

-----------------------------------------------------------------------------
(* What a step may do to a decision.                                        *)

Untouched(d) == decision'[d] = decision[d] /\ verdicts'[d] = verdicts[d]

Requested(d) ==
  /\ decision[d].status = "none"
  /\ decision'[d].status = "pending_approval"
  /\ decision'[d].approver = None
  /\ verdicts'[d] = verdicts[d]

Judged(d) ==
  /\ decision[d].status = "pending_approval"
  /\ decision'[d].approver \in Approvers \ {decision[d].requested_by}
  /\ verdicts'[d] = verdicts[d] + 1
  /\ \/ decision'[d].status = "rejected"
     \/ /\ decision'[d].status = "approved"
        /\ now < decision[d].expires_at
        /\ case'[decision[d].case].status = DecisionTarget(decision[d].type)

Overwritten(d) ==
  /\ decision[d].status # "none"
  /\ decision'[d].status \in {"revoked", "expired"} \cup {decision[d].status}
  /\ decision'[d].approver = decision[d].approver
  /\ verdicts'[d] = verdicts[d]

DecisionStep(d) == Untouched(d) \/ Requested(d) \/ Judged(d) \/ Overwritten(d)

LEMMA RequestDecisionStep ==
  ASSUME TypeOK, NEW s \in Sessions, RequestDecision(s), NEW d \in Decisions
  PROVE  DecisionStep(d)
  <1>1. PICK c \in LoadedCases(s), e \in Decisions, type \in Types, user \in Users,
             life \in Lifetimes :
          /\ decision[e].status = "none"
          /\ decision' = [decision EXCEPT ![e] =
                            [status |-> "pending_approval", case |-> c, type |-> type,
                             requested_by |-> user, approver |-> None,
                             expires_at |-> now + life]]
          /\ journal' = {Entry("risk.decision.requested", c, e, None, None)}
    BY Zenon DEF RequestDecision
  <1>2. CASE d = e
    BY <1>1, <1>2 DEF DecisionStep, Requested, RequestDecision, TypeOK
  <1>3. CASE d # e
    BY <1>1, <1>3 DEF DecisionStep, Untouched, RequestDecision, TypeOK
  <1> QED BY <1>2, <1>3

LEMMA DecideStep ==
  ASSUME TypeOK, NEW s \in Sessions, Decide(s), NEW d \in Decisions
  PROVE  DecisionStep(d)
  <1> DEFINE row(e) == session[s].rows[decision[e].case]
             target(e) == DecisionTarget(decision[e].type)
  <1>1. PICK e \in LoadedDecisions(s), user \in Users :
          /\ MayDecide(user, e)
          /\ Claimable(e)
          /\ verdicts' = [verdicts EXCEPT ![e] = @ + 1]
          /\ \/ /\ Unexpired(e)
                /\ <<row(e).status, target(e)>> \in AllowedTransitions
                /\ decision' = [decision EXCEPT ![e].status = "approved",
                                                ![e].approver = user]
                /\ case' = [case EXCEPT ![decision[e].case] =
                              Flush(@, row(e), Moved(row(e), target(e)))]
             \/ /\ decision' = [decision EXCEPT ![e].status = "rejected",
                                                ![e].approver = user]
                /\ UNCHANGED case
    BY Zenon DEF Decide
  <1>2. /\ e \in Decisions /\ decision[e].case \in Cases
        /\ row(e) \in CaseRow /\ case[decision[e].case] \in CaseRow
        /\ target(e) \in Status /\ decision[e] \in DecisionRow
    BY <1>1, SnapshotType, TargetInStatus DEF Claimable, TypeOK
  <1>3. CASE d # e
    BY <1>1, <1>2, <1>3 DEF DecisionStep, Untouched, TypeOK
  <1>4. CASE d = e
    <2>1. decision[d].status = "pending_approval" /\ user \in Approvers
          /\ user # decision[d].requested_by /\ verdicts'[d] = verdicts[d] + 1
      BY <1>1, <1>2, <1>4 DEF Claimable, MayDecide, TypeOK
    <2>2. decision'[d].approver = user
      BY <1>1, <1>2, <1>4 DEF TypeOK, DecisionRow
    <2>3. CASE decision' = [decision EXCEPT ![e].status = "rejected",
                                            ![e].approver = user]
      <3>1. decision'[d].status = "rejected"
        BY <2>3, <1>2, <1>4 DEF TypeOK, DecisionRow
      <3> QED BY <3>1, <2>1, <2>2 DEF DecisionStep, Judged
    <2>4. CASE /\ Unexpired(e)
               /\ <<row(e).status, target(e)>> \in AllowedTransitions
               /\ decision' = [decision EXCEPT ![e].status = "approved",
                                               ![e].approver = user]
               /\ case' = [case EXCEPT ![decision[e].case] =
                             Flush(@, row(e), Moved(row(e), target(e)))]
      <3>1. decision'[d].status = "approved"
        BY <2>4, <1>2, <1>4 DEF TypeOK, DecisionRow
      <3>2. now < decision[d].expires_at
        BY <2>4, <1>2, <1>4 DEF Unexpired, TypeOK, DecisionRow
      <3>3. target(e) # row(e).status
        BY <2>4 DEF AllowedTransitions
      <3>4. Flush(case[decision[e].case], row(e), Moved(row(e), target(e))).status
              = target(e)
        BY <1>2, <3>3, FlushType, MovedType
      <3>5. case'[decision[d].case].status = DecisionTarget(decision[d].type)
        BY <2>4, <3>4, <1>2, <1>4 DEF TypeOK
      <3> QED BY <3>1, <3>2, <3>5, <2>1, <2>2 DEF DecisionStep, Judged
    <2> QED BY <2>3, <2>4, <1>1
  <1> QED BY <1>3, <1>4

LEMMA RevokeStep ==
  ASSUME TypeOK, NEW s \in Sessions, Revoke(s), NEW d \in Decisions
  PROVE  DecisionStep(d)
  <1>1. PICK e \in LoadedDecisions(s) :
          decision' = [decision EXCEPT ![e].status = DecisionFlush(s, e, "revoked")]
    BY DEF Revoke
  <1>2. /\ e \in Decisions /\ decision[e] \in DecisionRow
        /\ decision[e].status # "none"
        /\ verdicts'[d] = verdicts[d]
    BY <1>1 DEF TypeOK, LoadedDecisions, Revoke
  <1>3. CASE d # e
    BY <1>1, <1>2, <1>3 DEF DecisionStep, Untouched, TypeOK
  <1>4. CASE d = e
    BY <1>1, <1>2, <1>4
       DEF DecisionStep, Overwritten, DecisionFlush, TypeOK, DecisionRow
  <1> QED BY <1>3, <1>4

LEMMA ExpireStep ==
  ASSUME TypeOK, NEW s \in Sessions, Expire(s), NEW d \in Decisions
  PROVE  DecisionStep(d)
  <1>1. decision' = [e \in Decisions |->
          IF e \in LoadedDecisions(s) THEN [decision[e] EXCEPT !.status = "expired"]
                                      ELSE decision[e]]
    BY DEF Expire
  <1>2. verdicts'[d] = verdicts[d] /\ decision[d] \in DecisionRow
    BY DEF Expire, TypeOK
  <1>3. CASE d \notin LoadedDecisions(s)
    BY <1>1, <1>2, <1>3 DEF DecisionStep, Untouched
  <1>4. CASE d \in LoadedDecisions(s)
    <2>1. decision[d].status # "none"
      BY <1>4 DEF TypeOK, LoadedDecisions
    <2> QED BY <1>1, <1>2, <1>4, <2>1 DEF DecisionStep, Overwritten, DecisionRow
  <1> QED BY <1>3, <1>4

LEMMA NextDecisionStep ==
  ASSUME TypeOK, [Next]_vars, NEW d \in Decisions
  PROVE  DecisionStep(d)
  <1>1. ASSUME UNCHANGED <<decision, verdicts>> PROVE DecisionStep(d)
    BY <1>1 DEF DecisionStep, Untouched
  <1>2. ASSUME Tick PROVE DecisionStep(d)
    BY <1>2, <1>1 DEF Tick
  <1>3. ASSUME NEW c \in Cases, CreateCase(c) PROVE DecisionStep(d)
    BY <1>3, <1>1 DEF CreateCase
  <1>4. ASSUME NEW s \in Sessions, Begins(s) \/ Abort(s) PROVE DecisionStep(d)
    BY <1>4, <1>1
       DEF Begins, BeginOnCase, BeginOnDecision, BeginExpire, Begin, Abort
  <1>5. ASSUME NEW s \in Sessions, Finishes(s) PROVE DecisionStep(d)
    <2>1. ASSUME TransitionIfMatch(s) \/ Transition(s) \/ Verify(s) \/ Reopen(s)
          PROVE  DecisionStep(d)
      BY <2>1, <1>1 DEF TransitionIfMatch, Transition, Verify, Reopen
    <2> QED BY <1>5, <2>1, RequestDecisionStep, DecideStep, RevokeStep, ExpireStep
            DEF Finishes
  <1>6. CASE UNCHANGED vars
    BY <1>6, <1>1 DEF vars
  <1> QED BY <1>2, <1>3, <1>4, <1>5, <1>6 DEF Next

-----------------------------------------------------------------------------
(* One verdict per decision.                                                *)

\* The strengthening: no verdict is journalled before the decision is claimed.
VerdictInv ==
  \A d \in Decisions :
    /\ verdicts[d] \in {0, 1}
    /\ verdicts[d] = 1 <=> decision[d].approver # None
    /\ decision[d].status \in {"none", "pending_approval"} => verdicts[d] = 0

LEMMA VerdictInit == Init => VerdictInv
  BY DEF Init, VerdictInv, NoDecision

LEMMA VerdictNext == TypeOK /\ VerdictInv /\ [Next]_vars => VerdictInv'
  <1> SUFFICES ASSUME TypeOK, VerdictInv, [Next]_vars, NEW d \in Decisions
               PROVE  /\ verdicts'[d] \in {0, 1}
                      /\ verdicts'[d] = 1 <=> decision'[d].approver # None
                      /\ decision'[d].status \in {"none", "pending_approval"}
                           => verdicts'[d] = 0
    BY DEF VerdictInv
  <1>1. /\ verdicts[d] \in {0, 1}
        /\ verdicts[d] = 1 <=> decision[d].approver # None
        /\ decision[d].status \in {"none", "pending_approval"} => verdicts[d] = 0
    BY DEF VerdictInv
  <1>2. CASE Untouched(d)
    BY <1>1, <1>2 DEF Untouched
  <1>3. CASE Requested(d)
    BY <1>1, <1>3 DEF Requested
  <1>4. CASE Judged(d)
    <2>1. decision'[d].approver # None
      BY <1>4, CaseConstants DEF Judged
    <2> QED BY <1>1, <1>4, <2>1 DEF Judged
  <1>5. CASE Overwritten(d)
    BY <1>1, <1>5 DEF Overwritten
  <1> QED BY <1>2, <1>3, <1>4, <1>5, NextDecisionStep DEF DecisionStep

\* For any number of concurrent approvers, revocations and sweeps: at most one
\* verdict is journalled on a decision, and its row names an approver exactly
\* then (approve_risk_decision).
THEOREM VerdictIsUnique == Spec => []DecidedAtMostOnce
  <1>1. VerdictInv => DecidedAtMostOnce
    BY DEF VerdictInv, DecidedAtMostOnce
  <1> QED BY <1>1, TypeCorrect, VerdictInit, VerdictNext, PTL DEF Spec

\* A decision is approved only out of pending, in time, by someone other than
\* its requester, and with its case moved in the same transaction: no stale
\* approval revives a rejected, revoked or expired decision.
THEOREM ApprovalIsSound == Spec => ApprovalTakesEffect
  <1>1. ASSUME TypeOK, [Next]_vars
        PROVE  [\A d \in Decisions :
                  decision[d].status # "approved" /\ decision'[d].status = "approved" =>
                    /\ decision[d].status = "pending_approval"
                    /\ now < decision[d].expires_at
                    /\ decision'[d].approver \in Approvers \ {decision[d].requested_by}
                    /\ case'[decision[d].case].status =
                         DecisionTarget(decision[d].type)]_vars
    <2> SUFFICES ASSUME NEW d \in Decisions,
                        decision[d].status # "approved", decision'[d].status = "approved"
                 PROVE  /\ decision[d].status = "pending_approval"
                        /\ now < decision[d].expires_at
                        /\ decision'[d].approver \in
                             Approvers \ {decision[d].requested_by}
                        /\ case'[decision[d].case].status =
                             DecisionTarget(decision[d].type)
      OBVIOUS
    <2>1. Judged(d)
      BY <1>1, NextDecisionStep DEF DecisionStep, Untouched, Requested, Overwritten
    <2> QED BY <2>1 DEF Judged
  <1> QED BY <1>1, TypeCorrect, PTL DEF Spec, ApprovalTakesEffect
-----------------------------------------------------------------------------
(* What a step may do to a case.                                            *)

\* Session s leaves the due date of c alone, gives it a proper status if any,
\* and of its breach flag writes nothing but what it computes from the row it
\* has loaded.
Writes(s, c) ==
  /\ case'[c].due = case[c].due
  /\ case'[c].status \in Status \cup {case[c].status}
  /\ \/ case'[c].sla_breached = case[c].sla_breached
     \/ /\ c \in LoadedCases(s)
        /\ case'[c].sla_breached = Breached(session[s].rows[c])

\* A row the unit of work writes.
LEMMA FlushWrites ==
  ASSUME TypeOK, NEW s \in Sessions, NEW c \in Cases, NEW dirty \in CaseRow,
         dirty.status \in Status,
         case' = [case EXCEPT ![c] = Flush(@, session[s].rows[c], dirty)],
         \/ dirty.sla_breached = session[s].rows[c].sla_breached
         \/ c \in LoadedCases(s) /\ dirty.sla_breached = Breached(session[s].rows[c])
  PROVE  /\ \A e \in Cases : Writes(s, e)
         /\ case'[c].status \in {case[c].status, dirty.status}
         /\ \A e \in Cases \ {c} : case'[e] = case[e]
  <1> DEFINE row == session[s].rows[c]
  <1>1. row \in CaseRow /\ case[c] \in CaseRow
    BY SnapshotType DEF TypeOK
  <1>2. case'[c] = Flush(case[c], row, dirty) /\ \A e \in Cases \ {c} : case'[e] = case[e]
    BY DEF TypeOK
  <1> HIDE DEF row
  <1>3. /\ case'[c].due = case[c].due
        /\ case'[c].status \in {case[c].status, dirty.status}
        /\ case'[c].sla_breached \in {case[c].sla_breached, dirty.sla_breached}
        /\ dirty.sla_breached = row.sla_breached
             => case'[c].sla_breached = case[c].sla_breached
    BY <1>1, <1>2, FlushType
  <1> USE DEF row
  <1> QED BY <1>2, <1>3 DEF Writes

\* A finishing action that moves its loaded case to another status.
LEMMA MovedWrites ==
  ASSUME TypeOK, NEW s \in Sessions, NEW c \in Cases, NEW status \in Status,
         case' = [case EXCEPT ![c] =
                    Flush(@, session[s].rows[c], Moved(session[s].rows[c], status))]
  PROVE  /\ \A e \in Cases : Writes(s, e)
         /\ case'[c].status \in {case[c].status, status}
         /\ \A e \in Cases \ {c} : case'[e] = case[e]
  <1> DEFINE dirty == Moved(session[s].rows[c], status)
  <1>1. session[s].rows[c] \in CaseRow
    BY SnapshotType
  <1>2. /\ dirty \in CaseRow /\ dirty.status = status
        /\ dirty.sla_breached = session[s].rows[c].sla_breached
    BY <1>1, MovedType
  <1>3. case' = [case EXCEPT ![c] = Flush(@, session[s].rows[c], dirty)]
    OBVIOUS
  <1> HIDE DEF dirty
  <1> QED BY <1>2, <1>3, FlushWrites

\* A finishing action takes a case into no status but the ones its operation
\* names.
LeadsTo(c, S) == case'[c].status \in {case[c].status} \cup S
Enters(c) == case'[c].status = "risk_accepted" /\ case[c].status # "risk_accepted"

LEMMA TransitionIfMatchWrites ==
  ASSUME TypeOK, NEW s \in Sessions, TransitionIfMatch(s), NEW e \in Cases
  PROVE  Writes(s, e) /\ LeadsTo(e, Targets)
  <1>1. PICK c \in LoadedCases(s), target \in Targets :
          \E v \in 1 .. session[s].rows[c].version :
            case' = [case EXCEPT ![c].status = target,
                                 ![c].version = v + 1,
                                 ![c].sla_breached = Breached(session[s].rows[c])]
    BY Zenon DEF TransitionIfMatch
  <1>2. c \in Cases /\ case[c] \in CaseRow
    BY SnapshotType DEF TypeOK
  <1>3. /\ case'[c].due = case[c].due /\ case'[c].status = target
        /\ case'[c].sla_breached = Breached(session[s].rows[c])
        /\ \A f \in Cases \ {c} : case'[f] = case[f]
    BY <1>1, <1>2 DEF TypeOK, CaseRow
  <1>4. target \in Status
    BY CaseConstants
  <1> QED BY <1>1, <1>3, <1>4 DEF Writes, LeadsTo

LEMMA TransitionWrites ==
  ASSUME TypeOK, NEW s \in Sessions, Transition(s), NEW e \in Cases
  PROVE  Writes(s, e) /\ LeadsTo(e, Targets)
  <1>1. PICK c \in LoadedCases(s), target \in Targets :
          case' = [case EXCEPT ![c] =
                     Flush(@, session[s].rows[c], TransitionTo(session[s].rows[c], target))]
    BY DEF Transition
  <1> DEFINE dirty == TransitionTo(session[s].rows[c], target)
  <1>2. /\ c \in Cases /\ target \in Status /\ session[s].rows[c] \in CaseRow
    BY SnapshotType, CaseConstants
  <1>3. /\ dirty \in CaseRow /\ dirty.status = target
        /\ dirty.sla_breached = Breached(session[s].rows[c])
    BY <1>2, TransitionToType
  <1>4. case' = [case EXCEPT ![c] = Flush(@, session[s].rows[c], dirty)]
    BY <1>1
  <1> HIDE DEF dirty
  <1>5. /\ Writes(s, e)
        /\ case'[c].status \in {case[c].status, target}
        /\ \A f \in Cases \ {c} : case'[f] = case[f]
    BY <1>1, <1>2, <1>3, <1>4, FlushWrites
  <1> QED BY <1>5 DEF LeadsTo

LEMMA VerifyWrites ==
  ASSUME TypeOK, NEW s \in Sessions, Verify(s), NEW e \in Cases
  PROVE  Writes(s, e) /\ LeadsTo(e, {"closed"})
  <1>1. PICK c \in LoadedCases(s) :
          \/ case' = [case EXCEPT ![c] = Flush(@, session[s].rows[c],
                                           Moved(session[s].rows[c], "closed"))]
          \/ UNCHANGED case
    BY DEF Verify
  <1>2. c \in Cases /\ "closed" \in Status
    BY SnapshotType DEF Status
  <1> QED BY <1>1, <1>2, MovedWrites DEF Writes, LeadsTo

LEMMA ReopenWrites ==
  ASSUME TypeOK, NEW s \in Sessions, Reopen(s), NEW e \in Cases
  PROVE  Writes(s, e) /\ LeadsTo(e, {"reopened"})
  <1>1. PICK c \in LoadedCases(s) :
          case' = [case EXCEPT ![c] = Flush(@, session[s].rows[c],
                                        Moved(session[s].rows[c], "reopened"))]
    BY DEF Reopen
  <1>2. c \in Cases /\ "reopened" \in Status
    BY SnapshotType DEF Status
  <1>3. /\ Writes(s, e)
        /\ case'[c].status \in {case[c].status, "reopened"}
        /\ \A f \in Cases \ {c} : case'[f] = case[f]
    BY <1>1, <1>2, MovedWrites
  <1> QED BY <1>3 DEF LeadsTo

LEMMA RevokeWrites ==
  ASSUME TypeOK, NEW s \in Sessions, Revoke(s), NEW e \in Cases
  PROVE  Writes(s, e) /\ LeadsTo(e, {"triage"})
  <1>1. PICK d \in LoadedDecisions(s) :
          case' = [case EXCEPT ![decision[d].case] =
                     Flush(@, session[s].rows[decision[d].case],
                           Moved(session[s].rows[decision[d].case], "triage"))]
    BY Zenon DEF Revoke
  <1>2. decision[d].case \in Cases /\ "triage" \in Status
    BY <1>1 DEF TypeOK, LoadedDecisions, Status
  <1>3. /\ Writes(s, e)
        /\ case'[decision[d].case].status \in {case[decision[d].case].status, "triage"}
        /\ \A f \in Cases \ {decision[d].case} : case'[f] = case[f]
    BY <1>1, <1>2, MovedWrites
  <1> QED BY <1>3 DEF LeadsTo

\* The sweep sends the cases it found accepted back to triage.
LEMMA ExpireWrites ==
  ASSUME TypeOK, NEW s \in Sessions, Expire(s), NEW e \in Cases
  PROVE  /\ Writes(s, e) /\ LeadsTo(e, {"triage"})
         /\ e \in Returned(s) => case'[e].status = "triage"
  <1>1. case'[e] = IF e \in Returned(s)
                   THEN Flush(case[e], session[s].rows[e], Moved(session[s].rows[e], "triage"))
                   ELSE case[e]
    BY DEF Expire
  <1>2. session[s].rows[e] \in CaseRow /\ case[e] \in CaseRow /\ "triage" \in Status
    BY SnapshotType DEF TypeOK, Status
  <1>3. CASE e \notin Returned(s)
    BY <1>1, <1>3 DEF Writes, LeadsTo
  <1>4. CASE e \in Returned(s)
    <2>1. session[s].rows[e].status = "risk_accepted"
      BY <1>4 DEF Returned
    <2> DEFINE dirty == Moved(session[s].rows[e], "triage")
    <2>2. /\ dirty \in CaseRow /\ dirty.status = "triage"
          /\ dirty.sla_breached = session[s].rows[e].sla_breached
      BY <1>2, MovedType
    <2>3. case'[e] = Flush(case[e], session[s].rows[e], dirty)
      BY <1>1, <1>4
    <2> HIDE DEF dirty
    <2>4. /\ case'[e].due = case[e].due /\ case'[e].status = "triage"
          /\ case'[e].sla_breached = case[e].sla_breached
      BY <1>2, <2>1, <2>2, <2>3, FlushType
    <2> QED BY <1>2, <2>4 DEF Writes, LeadsTo
  <1> QED BY <1>3, <1>4

\* An approval takes the case to what the decision asks for.
LEMMA DecideWrites ==
  ASSUME TypeOK, NEW s \in Sessions, Decide(s), NEW e \in Cases
  PROVE  /\ Writes(s, e) /\ LeadsTo(e, {"risk_accepted", "not_applicable"})
         /\ Enters(e) => \E d \in Decisions :
              /\ decision[d].status = "pending_approval" /\ decision'[d].status = "approved"
              /\ decision[d].case = e /\ DecisionTarget(decision[d].type) = "risk_accepted"
  <1> DEFINE row(d) == session[s].rows[decision[d].case]
             target(d) == DecisionTarget(decision[d].type)
  <1>1. PICK d \in LoadedDecisions(s), user \in Users :
          /\ Claimable(d)
          /\ \/ /\ decision' = [decision EXCEPT ![d].status = "approved",
                                                ![d].approver = user]
                /\ case' = [case EXCEPT ![decision[d].case] =
                              Flush(@, row(d), Moved(row(d), target(d)))]
             \/ UNCHANGED case
    BY Zenon DEF Decide
  <1>2. d \in Decisions /\ decision[d].case \in Cases /\ target(d) \in Status
    BY <1>1, TargetInStatus DEF LoadedDecisions, Claimable, TypeOK
  <1>3. CASE UNCHANGED case
    BY <1>3 DEF Writes, LeadsTo, Enters
  <1>4. CASE /\ decision' = [decision EXCEPT ![d].status = "approved", ![d].approver = user]
             /\ case' = [case EXCEPT ![decision[d].case] =
                           Flush(@, row(d), Moved(row(d), target(d)))]
    <2>1. /\ Writes(s, e)
          /\ case'[decision[d].case].status \in {case[decision[d].case].status, target(d)}
          /\ \A f \in Cases \ {decision[d].case} : case'[f] = case[f]
      BY <1>2, <1>4, MovedWrites
    <2>2. decision'[d].status = "approved"
      BY <1>2, <1>4 DEF TypeOK, DecisionRow
    <2>3. target(d) \in {"risk_accepted", "not_applicable"}
      BY DEF DecisionTarget
    <2> QED BY <1>1, <1>2, <2>1, <2>2, <2>3 DEF LeadsTo, Enters, Claimable
  <1> QED BY <1>1, <1>3, <1>4

LEMMA FinishWrites ==
  ASSUME TypeOK, NEW s \in Sessions, Finishes(s), NEW e \in Cases
  PROVE  Writes(s, e)
  <1>1. CASE RequestDecision(s)
    BY <1>1 DEF RequestDecision, Writes
  <1> QED BY <1>1, TransitionIfMatchWrites, TransitionWrites, VerifyWrites, DecideWrites,
             RevokeWrites, ExpireWrites, ReopenWrites DEF Finishes

-----------------------------------------------------------------------------
(* Breaches of the SLA.                                                     *)

\* A breach is on record only past the due date, and every session that has
\* loaded the case knows that date: it computes the flag anew from it.
BreachInv ==
  /\ \A c \in Cases : case[c].sla_breached => Exists(case[c]) /\ now > case[c].due
  /\ \A s \in Sessions, c \in Cases : Exists(session[s].rows[c]) =>
       /\ Exists(case[c])
       /\ session[s].rows[c].due = case[c].due
       /\ session[s].rows[c].sla_breached => now > case[c].due

LEMMA ClockKept ==
  ASSUME TypeOK, [Next]_vars
  PROVE  now \in Nat /\ now' \in Nat /\ now' >= now
  <1>1. ASSUME NEW s \in Sessions, Begins(s) \/ Finishes(s) \/ Abort(s)
        PROVE  UNCHANGED now
    BY <1>1 DEF Abort, Begins, BeginOnCase, BeginOnDecision, BeginExpire, Begin, Finishes,
                TransitionIfMatch, Transition, Verify, RequestDecision, Decide, Revoke,
                Expire, Reopen
  <1>2. CASE UNCHANGED now
    BY <1>2 DEF TypeOK
  <1>3. CASE Tick
    BY <1>3 DEF Tick, TypeOK
  <1> QED BY <1>1, <1>2, <1>3 DEF Next, CreateCase, vars

\* What a step leaves of what the sessions have loaded.
LEMMA SnapshotsKept ==
  ASSUME TypeOK, [Next]_vars, NEW t \in Sessions, NEW c \in Cases
  PROVE  \/ session'[t].rows[c] = session[t].rows[c]
         \/ session'[t].rows[c] = case[c] /\ case' = case
         \/ ~Exists(session'[t].rows[c])
  <1>1. ~Exists(Idle.rows[c]) /\ ~Exists(NoRow)
    BY DEF Idle, NoRow, Exists
  <1>2. ASSUME NEW s \in Sessions, Ends(s)
        PROVE  \/ session'[t].rows[c] = session[t].rows[c]
               \/ ~Exists(session'[t].rows[c])
    BY <1>1, <1>2 DEF Ends, TypeOK
  <1>3. ASSUME NEW s \in Sessions, Finishes(s) \/ Abort(s)
        PROVE  Ends(s)
    BY <1>3 DEF Finishes, TransitionIfMatch, Transition, Verify, RequestDecision, Decide,
                Revoke, Expire, Reopen, Abort
  <1>4. ASSUME NEW s \in Sessions, NEW op, NEW C, NEW D, Begin(s, op, C, D)
        PROVE  \/ session'[t].rows[c] = session[t].rows[c]
               \/ session'[t].rows[c] = case[c] /\ case' = case
               \/ ~Exists(session'[t].rows[c])
    BY <1>1, <1>4 DEF Begin, Loaded, TypeOK
  <1>5. ASSUME NEW s \in Sessions, Begins(s)
        PROVE  \E op, C, D : Begin(s, op, C, D)
    BY <1>5 DEF Begins, BeginOnCase, BeginOnDecision, BeginExpire
  <1>6. CASE UNCHANGED session
    BY <1>6
  <1> QED BY <1>2, <1>3, <1>4, <1>5, <1>6 DEF Next, Tick, CreateCase, vars

\* What a step leaves of a case.
LEMMA CaseKept ==
  ASSUME TypeOK, [Next]_vars, NEW c \in Cases
  PROVE  \/ case'[c] = case[c]
         \/ ~Exists(case[c]) /\ case'[c].sla_breached = FALSE
         \/ \E s \in Sessions : Writes(s, c)
  <1>1. ASSUME NEW e \in Cases, CreateCase(e)
        PROVE  case'[c] = case[c] \/ (~Exists(case[c]) /\ case'[c].sla_breached = FALSE)
    <2>1. NewRow(e).sla_breached = FALSE
      BY DEF NewRow
    <2>2. case'[c] = case[c] \/ (c = e /\ case'[c] = NewRow(e))
      BY <1>1 DEF CreateCase, TypeOK
    <2>3. ~Exists(case[e])
      BY <1>1 DEF CreateCase
    <2> QED BY <2>1, <2>2, <2>3
  <1>2. CASE UNCHANGED case
    BY <1>2
  <1> QED BY <1>1, <1>2, FinishWrites
      DEF Next, vars, Tick, Begins, BeginOnCase, BeginOnDecision, BeginExpire, Begin, Abort

LEMMA BreachStep ==
  ASSUME TypeOK, BreachInv, [Next]_vars
  PROVE  /\ BreachInv'
         /\ \A c \in Cases : case[c].sla_breached => case'[c].sla_breached
  <1>1. ASSUME NEW c \in Cases
        PROVE  /\ Exists(case[c]) => Exists(case'[c]) /\ case'[c].due = case[c].due
               /\ case[c].sla_breached => case'[c].sla_breached
               /\ case'[c].sla_breached => Exists(case'[c]) /\ now' > case'[c].due
    <2>1. case[c] \in CaseRow /\ case'[c] \in CaseRow
      BY NextType DEF TypeOK
    <2>2. case[c].sla_breached => Exists(case[c]) /\ now > case[c].due
      BY DEF BreachInv
    <2>3. CASE case'[c] = case[c]
      BY <2>1, <2>2, <2>3, ClockKept DEF CaseRow
    <2>4. CASE ~Exists(case[c]) /\ case'[c].sla_breached = FALSE
      BY <2>2, <2>4
    <2>5. ASSUME NEW s \in Sessions, Writes(s, c)
          PROVE  /\ Exists(case[c]) => Exists(case'[c]) /\ case'[c].due = case[c].due
                 /\ case[c].sla_breached => case'[c].sla_breached
                 /\ case'[c].sla_breached => Exists(case'[c]) /\ now' > case'[c].due
      <3>1. Exists(case[c]) => Exists(case'[c])
        BY <2>5 DEF Writes, Exists, Status
      <3>2. CASE case'[c].sla_breached = case[c].sla_breached
        BY <2>1, <2>2, <2>5, <3>1, <3>2, ClockKept DEF Writes, CaseRow
      <3>3. CASE /\ c \in LoadedCases(s)
                 /\ case'[c].sla_breached = Breached(session[s].rows[c])
        <4>1. /\ Exists(case[c]) /\ session[s].rows[c].due = case[c].due
              /\ session[s].rows[c].sla_breached => now > case[c].due
          BY <3>3 DEF BreachInv, LoadedCases
        <4>2. case'[c].sla_breached <=> now > case[c].due
          BY <3>3, <4>1 DEF Breached
        <4> QED BY <2>1, <2>2, <2>5, <3>1, <4>1, <4>2, ClockKept DEF Writes, CaseRow
      <3> QED BY <2>5, <3>2, <3>3 DEF Writes
    <2> QED BY <2>3, <2>4, <2>5, CaseKept
  <1>2. ASSUME NEW t \in Sessions, NEW c \in Cases, Exists(session'[t].rows[c])
        PROVE  /\ Exists(case'[c])
               /\ session'[t].rows[c].due = case'[c].due
               /\ session'[t].rows[c].sla_breached => now' > case'[c].due
    <2>1. case[c] \in CaseRow /\ case'[c] \in CaseRow
      BY NextType DEF TypeOK
    <2>2. CASE session'[t].rows[c] = session[t].rows[c]
      <3>1. /\ Exists(case[c])
            /\ session[t].rows[c].due = case[c].due
            /\ session[t].rows[c].sla_breached => now > case[c].due
        BY <1>2, <2>2 DEF BreachInv
      <3> QED BY <1>1, <2>1, <2>2, <3>1, ClockKept DEF CaseRow
    <2>3. CASE session'[t].rows[c] = case[c] /\ case' = case
      BY <1>1, <1>2, <2>3
    <2> QED BY <1>2, <2>2, <2>3, SnapshotsKept
  <1>3. BreachInv'
    BY <1>1, <1>2 DEF BreachInv
  <1> QED BY <1>1, <1>3

\* A breach of the SLA stays on record, although transitions write the flag
\* from rows that others have changed since (CaseService.transition): every
\* writer finds the due date passed that the first one has found passed.
THEOREM BreachesStay == Spec => BreachIsSticky
  <1>1. Init => BreachInv
    BY DEF Init, BreachInv, Idle, NoRow, Exists
  <1>2. TypeOK /\ BreachInv /\ [Next]_vars => BreachInv'
    BY BreachStep
  <1>3. TypeOK /\ BreachInv /\ [Next]_vars
          => [\A c \in Cases : case[c].sla_breached => case'[c].sla_breached]_vars
    BY BreachStep
  <1> QED BY <1>1, <1>2, <1>3, TypeCorrect, PTL DEF Spec, BreachIsSticky
-----------------------------------------------------------------------------
(* Accepted risks are backed by a decision.                                 *)

\* Of the decisions that back an accepted case, one is out of reach of every
\* sweep that would not take the case back as well.
Backing(d, c) ==
  /\ decision[d].status = "approved"
  /\ decision[d].case = c
  /\ DecisionTarget(decision[d].type) = "risk_accepted"
  /\ \A s \in Sessions :
       session[s].op = "expire" /\ session[s].drows[d] # "none" => c \in Returned(s)

BackedInv ==
  /\ \A s \in Sessions : session[s].op # "revoke"
  /\ \A s \in Sessions, d \in Decisions :
       session[s].op = "expire" /\ session[s].drows[d] # "none"
         => decision[d].status \notin {"none", "pending_approval"}
  /\ \A c \in Cases :
       case[c].status = "risk_accepted" => \E d \in Decisions : Backing(d, c)

\* The identity map of a session after a step: as it was, of a session that has
\* just begun, or empty.
LEMMA SessionStep ==
  ASSUME TypeOK, [Next]_vars, NEW s \in Sessions
  PROVE  \/ session'[s] = session[s]
         \/ session'[s] = Idle
         \/ /\ UNCHANGED <<case, decision>>
            /\ \/ \E op \in Ops \cap (CaseOps \cup DecisionOps) : \E C, D :
                    session'[s] = Loaded(op, C, D)
               \/ /\ "expire" \in Ops
                  /\ session'[s] =
                       Loaded("expire", {decision[d].case : d \in Overdue}, Overdue)
  <1>1. ASSUME NEW t \in Sessions, Ends(t)
        PROVE  session'[s] = session[s] \/ session'[s] = Idle
    BY <1>1 DEF Ends, TypeOK
  <1>2. ASSUME NEW t \in Sessions, Finishes(t) \/ Abort(t)
        PROVE  Ends(t)
    BY <1>2 DEF Finishes, TransitionIfMatch, Transition, Verify, RequestDecision, Decide,
                Revoke, Expire, Reopen, Abort
  <1>3. ASSUME NEW t \in Sessions, NEW op, NEW C, NEW D, Begin(t, op, C, D)
        PROVE  /\ UNCHANGED <<case, decision>> /\ op \in Ops
               /\ session'[s] = session[s] \/ session'[s] = Loaded(op, C, D)
    BY <1>3 DEF Begin, TypeOK
  <1>4. ASSUME NEW t \in Sessions, BeginExpire(t)
        PROVE  /\ UNCHANGED <<case, decision>> /\ "expire" \in Ops
               /\ \/ session'[s] = session[s]
                  \/ session'[s] =
                       Loaded("expire", {decision[d].case : d \in Overdue}, Overdue)
    BY <1>3, <1>4 DEF BeginExpire
  <1>5. ASSUME NEW t \in Sessions, NEW op \in CaseOps \cup DecisionOps, NEW C, NEW D,
               Begin(t, op, C, D)
        PROVE  /\ UNCHANGED <<case, decision>>
               /\ \/ session'[s] = session[s]
                  \/ \E o \in Ops \cap (CaseOps \cup DecisionOps) : \E A, B :
                       session'[s] = Loaded(o, A, B)
    BY <1>3, <1>5
  <1>6. ASSUME NEW t \in Sessions, Begins(t)
        PROVE  \/ BeginExpire(t)
               \/ \E op \in CaseOps \cup DecisionOps : \E C, D : Begin(t, op, C, D)
    BY <1>6 DEF Begins, BeginOnCase, BeginOnDecision
  <1>7. CASE UNCHANGED session
    BY <1>7
  <1> QED BY <1>1, <1>2, <1>4, <1>5, <1>6, <1>7 DEF Next, Tick, CreateCase, vars

\* A decision keeps its case and its type, and an approved one its status unless
\* a sweep that has loaded it or a revocation comes.
LEMMA DecisionNames ==
  ASSUME TypeOK, [Next]_vars, NEW d \in Decisions, decision[d].status # "none"
  PROVE  /\ decision'[d].case = decision[d].case /\ decision'[d].type = decision[d].type
         /\ decision'[d].status \notin {"none", "pending_approval"}
              \/ decision[d].status = "pending_approval"
         /\ decision[d].status = "approved" =>
              \/ decision'[d].status = "approved"
              \/ \E s \in Sessions : Revoke(s)
              \/ \E s \in Sessions : Expire(s) /\ session[s].drows[d] # "none"
  <1>1. decision[d] \in DecisionRow
    BY DEF TypeOK
  <1>2. ASSUME NEW e, NEW status, decision' = [decision EXCEPT ![e].status = status]
        PROVE  decision'[d].case = decision[d].case /\ decision'[d].type = decision[d].type
    BY <1>1, <1>2 DEF TypeOK, DecisionRow
  <1>3. decision'[d].status \notin {"none", "pending_approval"}
              \/ decision[d].status = "pending_approval"
    BY NextDecisionStep DEF DecisionStep, Untouched, Requested, Judged, Overwritten
  <1>4. CASE UNCHANGED decision
    BY <1>3, <1>4
  <1>5. ASSUME NEW s \in Sessions, RequestDecision(s)
        PROVE  decision'[d] = decision[d]
    <2>1. PICK e \in Decisions :
            decision[e].status = "none" /\ \E row : decision' = [decision EXCEPT ![e] = row]
      BY <1>5 DEF RequestDecision
    <2> QED BY <2>1 DEF TypeOK
  <1>6. ASSUME NEW s \in Sessions, Decide(s)
        PROVE  /\ decision'[d].case = decision[d].case /\ decision'[d].type = decision[d].type
               /\ decision[d].status = "approved" => decision'[d].status = "approved"
    <2>1. PICK e \in Decisions :
            /\ decision[e].status = "pending_approval"
            /\ \E user, status :
                 decision' = [decision EXCEPT ![e].status = status, ![e].approver = user]
      BY <1>6 DEF Decide, Claimable, LoadedDecisions
    <2> QED BY <1>1, <2>1 DEF TypeOK, DecisionRow
  <1>7. ASSUME NEW s \in Sessions, Revoke(s)
        PROVE  decision'[d].case = decision[d].case /\ decision'[d].type = decision[d].type
    <2>1. PICK e : decision' =
                     [decision EXCEPT ![e].status = DecisionFlush(s, e, "revoked")]
      BY <1>7 DEF Revoke
    <2> QED BY <1>2, <2>1
  <1>8. ASSUME NEW s \in Sessions, Expire(s)
        PROVE  /\ decision'[d].case = decision[d].case /\ decision'[d].type = decision[d].type
               /\ session[s].drows[d] = "none" => decision'[d] = decision[d]
    <2>1. decision'[d] = IF d \in LoadedDecisions(s)
                         THEN [decision[d] EXCEPT !.status = "expired"] ELSE decision[d]
      BY <1>8 DEF Expire
    <2> QED BY <1>1, <2>1 DEF DecisionRow, LoadedDecisions
  <1> QED BY <1>3, <1>4, <1>5, <1>6, <1>7, <1>8
      DEF Next, vars, Tick, CreateCase, Begins, BeginOnCase, BeginOnDecision, BeginExpire,
          Begin, Abort, Finishes, TransitionIfMatch, Transition, Verify, Reopen

LEMMA BackedStep ==
  ASSUME "revoke" \notin Ops, "risk_accepted" \notin Targets,
         TypeOK, BackedInv, [Next]_vars
  PROVE  BackedInv'
  <1>1. ASSUME NEW s \in Sessions PROVE session'[s].op # "revoke"
    <2>1. \A op, C, D : Loaded(op, C, D).op = op
      BY DEF Loaded
    <2>2. Idle.op = "idle" /\ session[s].op # "revoke"
      BY DEF Idle, BackedInv
    <2>3. CASE \E op \in Ops : \E C, D : session'[s] = Loaded(op, C, D)
      BY <2>1, <2>3
    <2>4. CASE session'[s] = Loaded("expire", {decision[d].case : d \in Overdue}, Overdue)
      BY <2>1, <2>4
    <2> QED BY <2>2, <2>3, <2>4, SessionStep
  <1>2. \A s \in Sessions : ~Revoke(s)
    BY DEF BackedInv, Revoke
  \* What a sweep holds after the step it held before, or has just loaded.
  <1>3. ASSUME NEW s \in Sessions, NEW d \in Decisions,
               session'[s].op = "expire", session'[s].drows[d] # "none"
        PROVE  \/ session'[s] = session[s]
               \/ /\ UNCHANGED <<case, decision>>
                  /\ decision[d].status = "approved"
                  /\ session'[s].rows[decision[d].case] = case[decision[d].case]
    <2>1. session'[s] # Idle
      BY <1>3 DEF Idle
    <2>2. ASSUME NEW op \in CaseOps \cup DecisionOps, NEW C, NEW D
          PROVE  session'[s] # Loaded(op, C, D)
      BY <1>3 DEF Loaded, CaseOps, DecisionOps
    <2>3. CASE session'[s] = Loaded("expire", {decision[e].case : e \in Overdue}, Overdue)
      <3>1. d \in Overdue
        BY <1>3, <2>3 DEF Loaded
      <3>2. decision[d].status = "approved" /\ decision[d].case \in Cases
        BY <3>1 DEF Overdue, TypeOK
      <3>3. session'[s].rows[decision[d].case] = case[decision[d].case]
        BY <2>3, <3>1, <3>2 DEF Loaded
      <3>4. session'[s] = session[s] \/ UNCHANGED <<case, decision>>
        BY <2>1, SessionStep
      <3> QED BY <3>2, <3>3, <3>4
    <2> QED BY <2>1, <2>2, <2>3, SessionStep
  <1>4. ASSUME NEW s \in Sessions, NEW d \in Decisions,
               session'[s].op = "expire", session'[s].drows[d] # "none"
        PROVE  decision'[d].status \notin {"none", "pending_approval"}
    <2>1. CASE session'[s] = session[s]
      <3>1. decision[d].status \notin {"none", "pending_approval"}
        BY <1>4, <2>1 DEF BackedInv
      <3> QED BY <3>1, DecisionNames
    <2>2. CASE UNCHANGED decision /\ decision[d].status = "approved"
      BY <2>2
    <2> QED BY <1>3, <1>4, <2>1, <2>2
  \* Backing survives, unless a sweep takes the case back.
  <1>5. ASSUME NEW d \in Decisions, NEW c \in Cases, Backing(d, c),
               case[c].status = "risk_accepted", case'[c].status = "risk_accepted"
        PROVE  Backing(d, c)'
    <2>1. decision'[d].status = "approved"
      <3>1. ASSUME NEW s \in Sessions, Expire(s) PROVE session[s].drows[d] = "none"
        <4>1. c \notin Returned(s)
          BY <1>5, <3>1, ExpireWrites
        <4> QED BY <1>5, <3>1, <4>1 DEF Backing, Expire
      <3> QED BY <1>2, <1>5, <3>1, DecisionNames DEF Backing
    <2>2. decision'[d].case = c /\ DecisionTarget(decision'[d].type) = "risk_accepted"
      BY <1>5, DecisionNames DEF Backing
    <2>3. ASSUME NEW s \in Sessions, session'[s].op = "expire", session'[s].drows[d] # "none"
          PROVE  /\ Exists(session'[s].rows[c])
                 /\ session'[s].rows[c].status = "risk_accepted"
      <3>1. CASE session'[s] = session[s]
        <4>1. c \in Returned(s)
          BY <1>5, <2>3, <3>1 DEF Backing
        <4> QED BY <3>1, <4>1 DEF Returned, LoadedCases
      <3>2. CASE session'[s].rows[decision[d].case] = case[decision[d].case]
        BY <1>5, <3>2 DEF Backing, Exists
      <3> QED BY <1>3, <2>3, <3>1, <3>2
    <2> QED BY <2>1, <2>2, <2>3 DEF Backing, Returned, LoadedCases
  <1>6. ASSUME NEW c \in Cases, Enters(c)
        PROVE  \E d \in Decisions : Backing(d, c)'
    <2>1. PICK s \in Sessions : Decide(s)
      <3>1. ASSUME NEW s \in Sessions, Finishes(s) PROVE Decide(s)
        <4>1. CASE RequestDecision(s)
          BY <1>6, <4>1 DEF RequestDecision, Enters
        <4> QED BY <1>6, <3>1, <4>1, TransitionIfMatchWrites, TransitionWrites,
                   VerifyWrites, RevokeWrites, ExpireWrites, ReopenWrites
            DEF Finishes, LeadsTo, Enters
      <3>2. ASSUME NEW e \in Cases, CreateCase(e) PROVE FALSE
        <4>1. NewRow(e).status = "new"
          BY DEF NewRow
        <4>2. case'[c] = case[c] \/ case'[c] = NewRow(e)
          BY <3>2 DEF CreateCase, TypeOK
        <4> QED BY <1>6, <4>1, <4>2 DEF Enters
      <3>3. CASE UNCHANGED case
        BY <1>6, <3>3 DEF Enters
      <3> QED BY <3>1, <3>2, <3>3
          DEF Next, vars, Tick, Begins, BeginOnCase, BeginOnDecision, BeginExpire, Begin,
              Abort
    <2>2. PICK d \in Decisions :
            /\ decision[d].status = "pending_approval" /\ decision'[d].status = "approved"
            /\ decision[d].case = c /\ DecisionTarget(decision[d].type) = "risk_accepted"
      BY <1>6, <2>1, DecideWrites
    <2>3. decision'[d].case = c /\ DecisionTarget(decision'[d].type) = "risk_accepted"
      BY <2>2, DecisionNames
    <2>4. ASSUME NEW t \in Sessions, session'[t].op = "expire"
          PROVE  session'[t].drows[d] = "none"
      <3>1. session'[t] = session[t] => session[t].drows[d] = "none"
        BY <2>2, <2>4 DEF BackedInv
      <3> QED BY <1>3, <2>2, <2>4, <3>1
    <2> QED BY <2>2, <2>3, <2>4 DEF Backing
  <1>7. ASSUME NEW c \in Cases, case'[c].status = "risk_accepted"
        PROVE  \E d \in Decisions : Backing(d, c)'
    <2>1. CASE case[c].status = "risk_accepted"
      BY <1>5, <1>7, <2>1 DEF BackedInv
    <2>2. CASE case[c].status # "risk_accepted"
      BY <1>6, <1>7, <2>2 DEF Enters
    <2> QED BY <2>1, <2>2
  <1> QED BY <1>1, <1>4, <1>7 DEF BackedInv

\* Where nobody revokes a decision and no transition names risk_accepted as its
\* target, a case in risk_accepted has an approved decision behind it, however
\* sweeps that loaded their rows long ago, approvals and transitions interleave
\* (approve_risk_decision, process_expirations).
THEOREM AcceptanceIsBacked ==
  ASSUME "revoke" \notin Ops, "risk_accepted" \notin Targets
  PROVE  Spec => []RiskAcceptedIsBacked
  <1>1. Init => BackedInv
    BY DEF Init, BackedInv, Idle, NoRow
  <1>2. TypeOK /\ BackedInv /\ [Next]_vars => BackedInv'
    BY BackedStep
  <1>3. BackedInv => RiskAcceptedIsBacked
    BY DEF BackedInv, Backing, RiskAcceptedIsBacked, Backed
  <1> QED BY <1>1, <1>2, <1>3, TypeCorrect, PTL DEF Spec
-----------------------------------------------------------------------------
(* Cases are closed by evidence.                                            *)

LEMMA OnlyVerifyCloses ==
  ASSUME "closed" \notin Targets, TypeOK, [Next]_vars, NEW c \in Cases,
         case[c].status # "closed", case'[c].status = "closed"
  PROVE  \E s \in Sessions : Verify(s)
  <1>1. ASSUME NEW s \in Sessions, Finishes(s) PROVE Verify(s)
    <2>1. CASE RequestDecision(s)
      BY <2>1 DEF RequestDecision
    <2> QED BY <1>1, <2>1, TransitionIfMatchWrites, TransitionWrites, DecideWrites,
               RevokeWrites, ExpireWrites, ReopenWrites
        DEF Finishes, LeadsTo
  <1>2. ASSUME NEW e \in Cases, CreateCase(e) PROVE FALSE
    <2>1. NewRow(e).status = "new"
      BY DEF NewRow
    <2>2. case'[c] = case[c] \/ case'[c] = NewRow(e)
      BY <1>2 DEF CreateCase, TypeOK
    <2> QED BY <2>1, <2>2
  <1>3. ~UNCHANGED case
    OBVIOUS
  <1> QED BY <1>1, <1>2, <1>3
      DEF Next, vars, Tick, Begins, BeginOnCase, BeginOnDecision, BeginExpire, Begin, Abort

\* The verification that closes a case is in the same transaction.
LEMMA VerifyIsPositive ==
  ASSUME TypeOK, NEW s \in Sessions, Verify(s), NEW e \in Cases, case'[e] # case[e]
  PROVE  \E v \in journal' :
           /\ v.event = "verification" /\ v.case = e
           /\ v.coverage.status = "complete"
           /\ v.method \notin {"manual_attestation", "vex"}
  <1>1. PICK c \in LoadedCases(s), m \in Methods, cov \in Coverages :
          /\ CanClose(m, cov)
          /\ case' = [case EXCEPT ![c] = Flush(@, session[s].rows[c],
                                           Moved(session[s].rows[c], "closed"))]
          /\ journal' = {Verification(c, m, cov, "closed"),
                         Entry("verification.completed", c, None, None, None)}
    BY DEF Verify
  <1>2. c = e
    <2>1. c \in Cases /\ "closed" \in Status
      BY SnapshotType DEF Status
    <2>2. \A f \in Cases \ {c} : case'[f] = case[f]
      BY <1>1, <2>1, MovedWrites
    <2> QED BY <2>2
  <1>3. /\ Verification(c, m, cov, "closed").event = "verification"
        /\ Verification(c, m, cov, "closed").case = c
        /\ Verification(c, m, cov, "closed").coverage = cov
        /\ Verification(c, m, cov, "closed").method = m
    BY DEF Verification
  <1> QED BY <1>1, <1>2, <1>3 DEF CanClose

\* Where no transition names closed as its target, a case is closed only by a
\* verification that proves the remediation by itself, stored in the same
\* transaction, whatever else holds an old snapshot of the case
\* (CaseService.verify, evaluate_coverage).
THEOREM ClosureIsProven ==
  ASSUME "closed" \notin Targets
  PROVE  Spec => ClosedByPositiveEvidence
  <1>1. ASSUME TypeOK, [Next]_vars
        PROVE  [\A c \in Cases :
                  case[c].status # "closed" /\ case'[c].status = "closed" =>
                    \E v \in journal' :
                      /\ v.event = "verification" /\ v.case = c
                      /\ v.coverage.status = "complete"
                      /\ v.method \notin {"manual_attestation", "vex"}]_vars
    BY <1>1, OnlyVerifyCloses, VerifyIsPositive
  <1> QED BY <1>1, TypeCorrect, PTL DEF Spec, ClosedByPositiveEvidence
-----------------------------------------------------------------------------
(* Versions order the history of a case.                                    *)

\* Only versioned operations are under way, and a session holds no version of a
\* case that is ahead of the table, nor another status under the same version.
VersionInv ==
  /\ \A s \in Sessions : session[s].op \in {"idle", "transition_if_match", "request"}
  /\ \A s \in Sessions, c \in Cases : Exists(session[s].rows[c]) =>
       /\ Exists(case[c])
       /\ session[s].rows[c].version <= case[c].version
       /\ session[s].rows[c].version = case[c].version
            => session[s].rows[c].status = case[c].status

\* A compare-and-swap moves one case from the status it was loaded with.
LEMMA SwapStep ==
  ASSUME TypeOK, VersionInv, NEW s \in Sessions, TransitionIfMatch(s), NEW e \in Cases
  PROVE  \/ case'[e] = case[e]
         \/ /\ <<case[e].status, case'[e].status>> \in AllowedTransitions
            /\ case'[e].version = case[e].version + 1
            /\ \A v \in journal' :
                 v.event # "verification" /\ v.case = e => v.prior = case[e].status
  <1> DEFINE Swaps(c, target, expected) ==
          /\ expected \in 1 .. session[s].rows[c].version
          /\ <<session[s].rows[c].status, target>> \in AllowedTransitions
          /\ VersionMatches(c, expected)
          /\ case' = [case EXCEPT ![c].status = target,
                                  ![c].version = expected + 1,
                                  ![c].sla_breached = Breached(session[s].rows[c])]
          /\ journal' = {Entry("case.transitioned", c, None,
                               session[s].rows[c].status, target)}
  <1>5. PICK c \in LoadedCases(s), target \in Targets : \E expected : Swaps(c, target, expected)
    BY Zenon DEF TransitionIfMatch
  <1>1. PICK expected : Swaps(c, target, expected)
    BY <1>5
  <1>2. c \in Cases /\ case[c] \in CaseRow /\ session[s].rows[c] \in CaseRow
        /\ Exists(session[s].rows[c])
    BY SnapshotType DEF TypeOK, LoadedCases
  <1>3. CASE e # c
    BY <1>1, <1>2, <1>3 DEF TypeOK
  <1>4. CASE e = c
    <2>1. case'[c].status = target /\ case'[c].version = expected + 1
      BY <1>1, <1>2 DEF TypeOK, CaseRow
    <2>2. case[c].version = expected /\ session[s].rows[c].version = expected
      BY <1>1, <1>2 DEF VersionMatches, VersionInv, CaseRow
    <2>3. session[s].rows[c].status = case[c].status
      BY <1>2, <2>2 DEF VersionInv
    <2>4. Entry("case.transitioned", c, None, case[c].status, target).prior = case[c].status
      BY DEF Entry
    <2> QED BY <1>1, <1>4, <2>1, <2>2, <2>3, <2>4
  <1> QED BY <1>3, <1>4

\* What a step does to the rows when only versioned operations are in use.
LEMMA VersionedStep ==
  ASSUME Ops \subseteq {"transition_if_match", "request"}, TypeOK, VersionInv, [Next]_vars,
         NEW e \in Cases
  PROVE  \/ case'[e] = case[e]
         \/ ~Exists(case[e])
         \/ \E s \in Sessions : TransitionIfMatch(s)
  <1>1. ASSUME NEW s \in Sessions, Finishes(s)
        PROVE  TransitionIfMatch(s) \/ UNCHANGED case
    BY <1>1 DEF Finishes, VersionInv, Transition, Verify, RequestDecision, Decide, Revoke,
                Expire, Reopen
  <1>2. ASSUME NEW c \in Cases, CreateCase(c)
        PROVE  case'[e] = case[e] \/ ~Exists(case[e])
    BY <1>2 DEF CreateCase, TypeOK
  <1>3. CASE UNCHANGED case
    BY <1>3
  <1> QED BY <1>1, <1>2, <1>3
      DEF Next, vars, Tick, Begins, BeginOnCase, BeginOnDecision, BeginExpire, Begin, Abort

LEMMA VersionInvStep ==
  ASSUME Ops \subseteq {"transition_if_match", "request"}, TypeOK, VersionInv, [Next]_vars
  PROVE  VersionInv'
  <1>1. ASSUME NEW s \in Sessions
        PROVE  session'[s].op \in {"idle", "transition_if_match", "request"}
    <2>2. Idle.op = "idle" /\ session[s].op \in {"idle", "transition_if_match", "request"}
      BY DEF Idle, VersionInv
    <2>3. ASSUME NEW op \in Ops, NEW C, NEW D, session'[s] = Loaded(op, C, D)
          PROVE  session'[s].op \in {"idle", "transition_if_match", "request"}
      <3>1. session'[s].op = Loaded(op, C, D).op
        BY <2>3
      <3>2. Loaded(op, C, D).op = op
        BY DEF Loaded
      <3> QED BY <3>1, <3>2
    <2> QED BY <2>2, <2>3, SessionStep
  <1>2. ASSUME NEW c \in Cases, Exists(case[c])
        PROVE  \/ case'[c] = case[c]
               \/ case'[c].version = case[c].version + 1 /\ Exists(case'[c])
    <2>1. \A u, v : <<u, v>> \in AllowedTransitions => v # "absent"
      BY DEF AllowedTransitions
    <2> QED BY <1>2, <2>1, VersionedStep, SwapStep DEF Exists
  <1>3. ASSUME NEW s \in Sessions, NEW c \in Cases, Exists(session'[s].rows[c])
        PROVE  /\ Exists(case'[c])
               /\ session'[s].rows[c].version <= case'[c].version
               /\ session'[s].rows[c].version = case'[c].version
                    => session'[s].rows[c].status = case'[c].status
    <2>1. case[c] \in CaseRow
      BY DEF TypeOK
    <2>2. case[c].version \in Nat
      BY <2>1 DEF CaseRow
    <2>3. CASE session'[s].rows[c] = session[s].rows[c]
      <3>1. session[s].rows[c] \in CaseRow /\ session[s].rows[c].version \in Nat
        BY SnapshotType DEF CaseRow
      <3>2. /\ session[s].rows[c].version <= case[c].version
            /\ session[s].rows[c].version = case[c].version
                 => session[s].rows[c].status = case[c].status
        BY <1>3, <2>3 DEF VersionInv
      <3>3. Exists(case[c])
        BY <1>3, <2>3 DEF VersionInv
      <3> QED BY <1>2, <2>2, <2>3, <3>1, <3>2, <3>3
    <2>4. CASE session'[s].rows[c] = case[c] /\ case' = case
      <3>1. case'[c] = case[c] /\ Exists(case[c])
        BY <1>3, <2>4
      <3> QED BY <2>2, <2>4, <3>1
    <2> QED BY <1>3, <2>3, <2>4, SnapshotsKept
  <1> QED BY <1>1, <1>3 DEF VersionInv

LEMMA HistoryStep ==
  ASSUME Ops \subseteq {"transition_if_match", "request"}, TypeOK, VersionInv, [Next]_vars,
         NEW c \in Cases, Exists(case[c]), case'[c] # case[c]
  PROVE  /\ <<case[c].status, case'[c].status>> \in AllowedTransitions
         /\ case'[c].version = case[c].version + 1
         /\ \A e \in journal' :
              e.event # "verification" /\ e.case = c => e.prior \in {None, case[c].status}
  <1>1. PICK s \in Sessions : TransitionIfMatch(s)
    BY VersionedStep
  <1> QED BY <1>1, SwapStep

\* Where every operation that writes a case carries If-Match, the history of a
\* case is linear, however many clients compete and whatever tags they hold
\* (CaseService.transition): a swap that matches the table has loaded the status
\* it replaces.
THEOREM HistoryIsOrdered ==
  ASSUME Ops \subseteq {"transition_if_match", "request"}
  PROVE  Spec => HistoryIsLinear
  <1>1. Init => VersionInv
    BY DEF Init, VersionInv, Idle, NoRow, Exists
  <1>2. TypeOK /\ VersionInv /\ [Next]_vars => VersionInv'
    BY VersionInvStep
  <1>3. ASSUME TypeOK, VersionInv, [Next]_vars
        PROVE  [\A c \in Cases :
                  Exists(case[c]) /\ case'[c] # case[c] =>
                    /\ <<case[c].status, case'[c].status>> \in AllowedTransitions
                    /\ case'[c].version = case[c].version + 1
                    /\ \A e \in journal' :
                         e.event # "verification" /\ e.case = c =>
                           e.prior \in {None, case[c].status}]_vars
    BY <1>3, HistoryStep
  <1> QED BY <1>1, <1>2, <1>3, TypeCorrect, PTL DEF Spec, HistoryIsLinear

\* A case that does not exist has no version yet.
AbsentInv == \A c \in Cases : ~Exists(case[c]) => case[c].version = 0

LEMMA AbsentStep ==
  ASSUME Ops \subseteq {"transition_if_match", "request"}, TypeOK, VersionInv, AbsentInv,
         [Next]_vars, NEW c \in Cases, case'[c] # case[c]
  PROVE  Exists(case'[c]) /\ case'[c].version = case[c].version + 1
  <1>1. \A u, v : <<u, v>> \in AllowedTransitions => v # "absent"
    BY DEF AllowedTransitions
  <1>2. CASE \E s \in Sessions : TransitionIfMatch(s)
    BY <1>1, <1>2, SwapStep DEF Exists
  <1>3. CASE \E e \in Cases : CreateCase(e)
    <2>1. CreateCase(c)
      BY <1>3 DEF CreateCase, TypeOK
    <2>2. case'[c] = NewRow(c) /\ ~Exists(case[c])
      BY <2>1 DEF CreateCase, TypeOK
    <2>3. NewRow(c).status = "new" /\ NewRow(c).version = 1
      BY DEF NewRow
    <2> QED BY <2>2, <2>3 DEF AbsentInv, Exists
  <1>4. ASSUME NEW s \in Sessions, Finishes(s)
        PROVE  TransitionIfMatch(s) \/ UNCHANGED case
    BY <1>4 DEF Finishes, VersionInv, Transition, Verify, RequestDecision, Decide, Revoke,
                Expire, Reopen
  <1>5. ~UNCHANGED case
    OBVIOUS
  <1> QED BY <1>2, <1>3, <1>4, <1>5
      DEF Next, vars, Tick, Begins, BeginOnCase, BeginOnDecision, BeginExpire, Begin, Abort

\* Then a version handed out as an entity tag names one state of the case
\* (CaseService.transition, "ETag"): a client that holds it swaps the very row
\* it was shown.
THEOREM TagsAreUnique ==
  ASSUME Ops \subseteq {"transition_if_match", "request"}
  PROVE  Spec => EtagsAreNotReused
  <1>1. Init => VersionInv /\ AbsentInv
    BY DEF Init, VersionInv, AbsentInv, Idle, NoRow, Exists
  <1>2. TypeOK /\ VersionInv /\ [Next]_vars => VersionInv'
    BY VersionInvStep
  <1>3. TypeOK /\ VersionInv /\ AbsentInv /\ [Next]_vars => AbsentInv'
    BY AbsentStep DEF AbsentInv
  <1>4. ASSUME TypeOK, VersionInv, AbsentInv, [Next]_vars
        PROVE  [\A c \in Cases :
                  case'[c] # case[c] => case'[c].version > case[c].version]_vars
    <2> SUFFICES ASSUME NEW c \in Cases, case'[c] # case[c]
                 PROVE  case'[c].version > case[c].version
      OBVIOUS
    <2>1. case'[c].version = case[c].version + 1 /\ case[c].version \in Nat
      BY <1>4, AbsentStep DEF TypeOK, CaseRow
    <2> QED BY <2>1
  <1> QED BY <1>1, <1>2, <1>3, <1>4, TypeCorrect, PTL DEF Spec, EtagsAreNotReused

-----------------------------------------------------------------------------
(* What a decision says stands.                                             *)

\* A decision keeps what it was requested with.
LEMMA TermsKept ==
  ASSUME TypeOK, [Next]_vars, NEW d \in Decisions, decision[d].status # "none"
  PROVE  /\ decision'[d].requested_by = decision[d].requested_by
         /\ decision'[d].expires_at = decision[d].expires_at
  <1> DEFINE Kept == /\ decision'[d].requested_by = decision[d].requested_by
                     /\ decision'[d].expires_at = decision[d].expires_at
  <1>1. decision[d] \in DecisionRow
    BY DEF TypeOK
  <1>2. CASE UNCHANGED decision
    BY <1>2
  <1>3. ASSUME NEW s \in Sessions, RequestDecision(s)
        PROVE  Kept
    <2>1. PICK e \in Decisions :
            decision[e].status = "none" /\ \E row : decision' = [decision EXCEPT ![e] = row]
      BY <1>3 DEF RequestDecision
    <2> QED BY <2>1 DEF TypeOK
  <1>4. ASSUME NEW s \in Sessions, Decide(s)
        PROVE  Kept
    <2>1. PICK e \in Decisions : \E user, status :
            decision' = [decision EXCEPT ![e].status = status, ![e].approver = user]
      BY <1>4 DEF Decide, LoadedDecisions
    <2> QED BY <1>1, <2>1 DEF TypeOK, DecisionRow
  <1>5. ASSUME NEW s \in Sessions, Revoke(s)
        PROVE  Kept
    <2>1. PICK e : decision' = [decision EXCEPT ![e].status = DecisionFlush(s, e, "revoked")]
      BY <1>5 DEF Revoke
    <2> QED BY <1>1, <2>1 DEF TypeOK, DecisionRow
  <1>6. ASSUME NEW s \in Sessions, Expire(s)
        PROVE  Kept
    <2>1. decision'[d] = IF d \in LoadedDecisions(s)
                         THEN [decision[d] EXCEPT !.status = "expired"] ELSE decision[d]
      BY <1>6 DEF Expire
    <2> QED BY <1>1, <2>1 DEF DecisionRow
  <1> QED BY <1>2, <1>3, <1>4, <1>5, <1>6
      DEF Next, vars, Tick, CreateCase, Begins, BeginOnCase, BeginOnDecision, BeginExpire,
          Begin, Abort, Finishes, TransitionIfMatch, Transition, Verify, Reopen

\* The approver a decision names was entitled to give the verdict, and is not
\* the one who asked for it.
FourEyes ==
  \A d \in Decisions :
    decision[d].approver # None =>
      decision[d].approver \in Approvers \ {decision[d].requested_by}

FourEyesInv ==
  \A d \in Decisions :
    decision[d].approver # None =>
      /\ decision[d].status # "none"
      /\ decision[d].approver \in Approvers \ {decision[d].requested_by}

\* No decision ever carries the verdict of its own requester, nor of a user who
\* may not approve, whatever is approved, rejected, revoked or swept at the same
\* time (approve_risk_decision: the requester cannot approve).
THEOREM SeparationOfDuties == Spec => []FourEyes
  <1>1. Init => FourEyesInv
    BY DEF Init, FourEyesInv, NoDecision
  <1>2. ASSUME TypeOK, FourEyesInv, [Next]_vars
        PROVE  FourEyesInv'
    <2> SUFFICES ASSUME NEW d \in Decisions, decision'[d].approver # None
                 PROVE  /\ decision'[d].status # "none"
                        /\ decision'[d].approver \in Approvers \ {decision'[d].requested_by}
      BY DEF FourEyesInv
    <2>1. DecisionStep(d)
      BY <1>2, NextDecisionStep
    <2>2. CASE Untouched(d)
      BY <1>2, <2>2 DEF Untouched, FourEyesInv
    <2>3. ~Requested(d)
      BY DEF Requested
    <2>4. CASE Judged(d)
      <3>1. decision'[d].requested_by = decision[d].requested_by
        BY <1>2, <2>4, TermsKept DEF Judged
      <3> QED BY <2>4, <3>1 DEF Judged
    <2>5. CASE Overwritten(d)
      <3>1. decision'[d].requested_by = decision[d].requested_by
        BY <1>2, <2>5, TermsKept DEF Overwritten
      <3> QED BY <1>2, <2>5, <3>1 DEF Overwritten, FourEyesInv
    <2> QED BY <2>1, <2>2, <2>3, <2>4, <2>5 DEF DecisionStep
  <1>3. FourEyesInv => FourEyes
    BY DEF FourEyesInv, FourEyes
  <1> QED BY <1>1, <1>2, <1>3, TypeCorrect, PTL DEF Spec

\* Nobody rewrites what was requested, nor who gave the verdict.
DecisionsStand ==
  [][\A d \in Decisions :
       /\ decision[d].status # "none" =>
            /\ decision'[d].status # "none"
            /\ decision'[d].case = decision[d].case
            /\ decision'[d].type = decision[d].type
            /\ decision'[d].requested_by = decision[d].requested_by
            /\ decision'[d].expires_at = decision[d].expires_at
       /\ decision[d].approver # None => decision'[d].approver = decision[d].approver]_vars

\* Stale approvals, revocations and sweeps change the status of a decision and
\* nothing else: its terms and its approver are what they were
\* (approve_risk_decision, revoke_decision, process_expirations).
THEOREM VerdictsStand == Spec => DecisionsStand
  <1>1. ASSUME TypeOK, VerdictInv, [Next]_vars
        PROVE  [\A d \in Decisions :
                  /\ decision[d].status # "none" =>
                       /\ decision'[d].status # "none"
                       /\ decision'[d].case = decision[d].case
                       /\ decision'[d].type = decision[d].type
                       /\ decision'[d].requested_by = decision[d].requested_by
                       /\ decision'[d].expires_at = decision[d].expires_at
                  /\ decision[d].approver # None =>
                       decision'[d].approver = decision[d].approver]_vars
    <2> SUFFICES ASSUME NEW d \in Decisions
                 PROVE  /\ decision[d].status # "none" =>
                             /\ decision'[d].status # "none"
                             /\ decision'[d].case = decision[d].case
                             /\ decision'[d].type = decision[d].type
                             /\ decision'[d].requested_by = decision[d].requested_by
                             /\ decision'[d].expires_at = decision[d].expires_at
                        /\ decision[d].approver # None =>
                             decision'[d].approver = decision[d].approver
      OBVIOUS
    <2>1. DecisionStep(d)
      BY <1>1, NextDecisionStep
    <2>2. decision[d].status \in {"none", "pending_approval"} => decision[d].approver = None
      BY <1>1 DEF VerdictInv
    <2>3. decision[d].approver # None => decision'[d].approver = decision[d].approver
      BY <2>1, <2>2 DEF DecisionStep, Untouched, Requested, Judged, Overwritten
    <2>4. decision[d].status # "none" => decision'[d].status # "none"
      BY <2>1 DEF DecisionStep, Untouched, Requested, Judged, Overwritten
    <2>5. ASSUME decision[d].status # "none"
          PROVE  /\ decision'[d].requested_by = decision[d].requested_by
                 /\ decision'[d].expires_at = decision[d].expires_at
      BY <1>1, <2>5, TermsKept
    <2>6. ASSUME decision[d].status # "none"
          PROVE  decision'[d].case = decision[d].case /\ decision'[d].type = decision[d].type
      BY <1>1, <2>6, DecisionNames
    <2> QED BY <2>3, <2>4, <2>5, <2>6
  <1> QED BY <1>1, TypeCorrect, VerdictInit, VerdictNext, PTL DEF Spec, DecisionsStand

-----------------------------------------------------------------------------
(* The journal.                                                             *)

\* The journal of a step names every case whose status it changes, and a status
\* it names is the one the case now has.  A revocation may name triage although
\* it found the case there and writes nothing.
Told(c) ==
  /\ case'[c].status # case[c].status =>
       \E e \in journal' : e.event # "verification" /\ e.case = c
  /\ \A e \in journal' :
       e.event \notin {"verification", "risk.decision.revoked"} /\ e.case = c /\ e.new # None =>
         case'[c].status = e.new

LEMMA EntryFields ==
  ASSUME NEW event, NEW c, NEW d, NEW prior, NEW new
  PROVE  LET e == Entry(event, c, d, prior, new)
         IN e.event = event /\ e.case = c /\ e.decision = d /\ e.new = new
  BY DEF Entry

\* An operation that takes one case to the status its entry names.
LEMMA OneTold ==
  ASSUME NEW c \in Cases, NEW e \in Cases, NEW event, NEW d, NEW prior, NEW new,
         event # "verification", journal' = {Entry(event, c, d, prior, new)},
         case'[c].status = new \/ event = "risk.decision.revoked",
         \A f \in Cases \ {c} : case'[f] = case[f]
  PROVE  Told(e)
  <1> DEFINE entry == Entry(event, c, d, prior, new)
  <1>1. entry.event = event /\ entry.case = c /\ entry.new = new
    BY EntryFields
  <1>2. journal' = {entry}
    OBVIOUS
  <1> HIDE DEF entry
  <1> QED BY <1>1, <1>2 DEF Told

LEMMA TransitionIfMatchTold ==
  ASSUME TypeOK, NEW s \in Sessions, TransitionIfMatch(s), NEW e \in Cases
  PROVE  Told(e)
  <1>1. PICK c \in LoadedCases(s), target \in Targets :
          \E v \in 1 .. session[s].rows[c].version :
            /\ case' = [case EXCEPT ![c].status = target,
                                    ![c].version = v + 1,
                                    ![c].sla_breached = Breached(session[s].rows[c])]
            /\ journal' = {Entry("case.transitioned", c, None,
                                 session[s].rows[c].status, target)}
    BY Zenon DEF TransitionIfMatch
  <1>2. c \in Cases /\ case[c] \in CaseRow
    BY SnapshotType DEF TypeOK
  <1>3. case'[c].status = target /\ \A f \in Cases \ {c} : case'[f] = case[f]
    BY <1>1, <1>2 DEF TypeOK, CaseRow
  <1>4. journal' = {Entry("case.transitioned", c, None, session[s].rows[c].status, target)}
    BY <1>1
  <1> QED BY <1>2, <1>3, <1>4, OneTold

LEMMA TransitionTold ==
  ASSUME TypeOK, NEW s \in Sessions, Transition(s), NEW e \in Cases
  PROVE  Told(e)
  <1>1. PICK c \in LoadedCases(s), target \in Targets :
          /\ <<session[s].rows[c].status, target>> \in AllowedTransitions
          /\ case' = [case EXCEPT ![c] =
                        Flush(@, session[s].rows[c], TransitionTo(session[s].rows[c], target))]
          /\ journal' = {Entry("case.transitioned", c, None,
                               session[s].rows[c].status, target)}
    BY DEF Transition
  <1> DEFINE dirty == TransitionTo(session[s].rows[c], target)
  <1>2. c \in Cases /\ target \in Status /\ session[s].rows[c] \in CaseRow
    BY SnapshotType, CaseConstants
  <1>3. dirty \in CaseRow /\ dirty.status = target
    BY <1>2, TransitionToType
  <1>4. session[s].rows[c].status # target
    BY <1>1 DEF AllowedTransitions
  <1>5. case' = [case EXCEPT ![c] = Flush(@, session[s].rows[c], dirty)]
    BY <1>1
  <1> HIDE DEF dirty
  <1>6. /\ case'[c] = Flush(case[c], session[s].rows[c], dirty) /\ case[c] \in CaseRow
        /\ \A f \in Cases \ {c} : case'[f] = case[f]
    BY <1>2, <1>5 DEF TypeOK
  <1>7. case'[c].status = target
    BY <1>2, <1>3, <1>4, <1>6, FlushType
  <1>8. journal' = {Entry("case.transitioned", c, None, session[s].rows[c].status, target)}
    BY <1>1
  <1> QED BY <1>2, <1>3, <1>6, <1>7, <1>8, OneTold

LEMMA VerifyTold ==
  ASSUME TypeOK, NEW s \in Sessions, Verify(s), NEW e \in Cases
  PROVE  Told(e)
  <1>1. PICK c \in LoadedCases(s), m \in Methods, cov \in Coverages :
          \E status, event :
            /\ event \notin {"verification", "risk.decision.revoked"}
            /\ journal' = {Verification(c, m, cov, status), Entry(event, c, None, None, None)}
            /\ \/ UNCHANGED case
               \/ case' = [case EXCEPT ![c] = Flush(@, session[s].rows[c],
                                                Moved(session[s].rows[c], "closed"))]
    <2>1. PICK c \in LoadedCases(s), m \in Methods, cov \in Coverages :
            \/ /\ case' = [case EXCEPT ![c] = Flush(@, session[s].rows[c],
                                                Moved(session[s].rows[c], "closed"))]
               /\ journal' = {Verification(c, m, cov, "closed"),
                              Entry("verification.completed", c, None, None, None)}
            \/ /\ UNCHANGED case
               /\ \/ journal' = {Verification(c, m, cov, "requires_approval"),
                                 Entry("verification.requires_approval", c, None, None, None)}
                  \/ journal' = {Verification(c, m, cov, "insufficient_evidence"),
                                 Entry("verification.failed", c, None, None, None)}
      BY DEF Verify
    <2> QED BY <2>1
  <1>2. PICK status, event :
          /\ event \notin {"verification", "risk.decision.revoked"}
          /\ journal' = {Verification(c, m, cov, status), Entry(event, c, None, None, None)}
          /\ \/ UNCHANGED case
             \/ case' = [case EXCEPT ![c] = Flush(@, session[s].rows[c],
                                              Moved(session[s].rows[c], "closed"))]
    BY <1>1
  <1> DEFINE entry == Entry(event, c, None, None, None)
             stored == Verification(c, m, cov, status)
  <1>3. entry.event = event /\ entry.case = c /\ entry.new = None
    BY EntryFields
  <1>4. stored.event = "verification"
    BY DEF Verification
  <1>5. c \in Cases /\ "closed" \in Status
    BY SnapshotType DEF Status
  <1>6. \A f \in Cases \ {c} : case'[f] = case[f]
    BY <1>2, <1>5, MovedWrites
  <1>7. journal' = {stored, entry}
    BY <1>2
  <1> HIDE DEF entry, stored
  <1> QED BY <1>2, <1>3, <1>4, <1>6, <1>7 DEF Told

LEMMA ReopenTold ==
  ASSUME TypeOK, NEW s \in Sessions, Reopen(s), NEW e \in Cases
  PROVE  Told(e)
  <1>1. PICK c \in LoadedCases(s) :
          /\ session[s].rows[c].status = "closed"
          /\ case' = [case EXCEPT ![c] = Flush(@, session[s].rows[c],
                                           Moved(session[s].rows[c], "reopened"))]
          /\ journal' = {Entry("exposure.reopened", c, None, "closed", "reopened")}
    BY DEF Reopen
  <1> DEFINE dirty == Moved(session[s].rows[c], "reopened")
  <1>2. c \in Cases /\ "reopened" \in Status /\ session[s].rows[c] \in CaseRow
    BY SnapshotType DEF Status
  <1>3. dirty \in CaseRow /\ dirty.status = "reopened"
    BY <1>2, MovedType
  <1>4. case' = [case EXCEPT ![c] = Flush(@, session[s].rows[c], dirty)]
    BY <1>1
  <1> HIDE DEF dirty
  <1>5. session[s].rows[c].status # dirty.status
    BY <1>1, <1>3
  <1>6. /\ case'[c] = Flush(case[c], session[s].rows[c], dirty) /\ case[c] \in CaseRow
        /\ \A f \in Cases \ {c} : case'[f] = case[f]
    BY <1>2, <1>4 DEF TypeOK
  <1>7. case'[c].status = dirty.status
    BY <1>2, <1>3, <1>5, <1>6, FlushType
  <1>8. journal' = {Entry("exposure.reopened", c, None, "closed", "reopened")}
    BY <1>1
  <1> QED BY <1>2, <1>3, <1>6, <1>7, <1>8, OneTold

LEMMA RevokeTold ==
  ASSUME TypeOK, NEW s \in Sessions, Revoke(s), NEW e \in Cases
  PROVE  Told(e)
  <1>1. PICK d \in LoadedDecisions(s) :
          /\ case' = [case EXCEPT ![decision[d].case] =
                        Flush(@, session[s].rows[decision[d].case],
                              Moved(session[s].rows[decision[d].case], "triage"))]
          /\ journal' = {Entry("risk.decision.revoked", decision[d].case, d,
                               session[s].rows[decision[d].case].status, "triage")}
    BY Zenon DEF Revoke
  <1>2. decision[d].case \in Cases /\ "triage" \in Status
    BY <1>1 DEF TypeOK, LoadedDecisions, Status
  <1>3. \A f \in Cases \ {decision[d].case} : case'[f] = case[f]
    BY <1>1, <1>2, MovedWrites
  <1> DEFINE entry == Entry("risk.decision.revoked", decision[d].case, d,
                            session[s].rows[decision[d].case].status, "triage")
  <1>4. entry.event = "risk.decision.revoked" /\ entry.case = decision[d].case
    BY EntryFields
  <1>5. journal' = {entry}
    BY <1>1
  <1> HIDE DEF entry
  <1> QED BY <1>3, <1>4, <1>5 DEF Told

LEMMA DecideTold ==
  ASSUME TypeOK, NEW s \in Sessions, Decide(s), NEW e \in Cases
  PROVE  Told(e)
  <1> DEFINE row(d) == session[s].rows[decision[d].case]
             target(d) == DecisionTarget(decision[d].type)
  <1>1. PICK d \in LoadedDecisions(s) :
          /\ Claimable(d)
          /\ \/ /\ <<row(d).status, target(d)>> \in AllowedTransitions
                /\ case' = [case EXCEPT ![decision[d].case] =
                              Flush(@, row(d), Moved(row(d), target(d)))]
                /\ journal' = {Entry("risk.accepted", decision[d].case, d,
                                     row(d).status, target(d))}
             \/ /\ UNCHANGED case
                /\ journal' = {Entry("risk.decision.rejected", decision[d].case, d, None, None)}
    BY Zenon DEF Decide
  <1>2. /\ decision[d].case \in Cases /\ target(d) \in Status
        /\ row(d) \in CaseRow
    BY <1>1, SnapshotType, TargetInStatus DEF LoadedDecisions, Claimable, TypeOK
  <1>3. CASE /\ UNCHANGED case
             /\ journal' = {Entry("risk.decision.rejected", decision[d].case, d, None, None)}
    <2> DEFINE entry == Entry("risk.decision.rejected", decision[d].case, d, None, None)
    <2>1. entry.new = None
      BY EntryFields
    <2> HIDE DEF entry
    <2>2. \A v \in journal' : v.new = None
      BY <1>3, <2>1 DEF entry
    <2> QED BY <1>3, <2>2 DEF Told
  <1>4. CASE /\ <<row(d).status, target(d)>> \in AllowedTransitions
             /\ case' = [case EXCEPT ![decision[d].case] =
                           Flush(@, row(d), Moved(row(d), target(d)))]
             /\ journal' = {Entry("risk.accepted", decision[d].case, d,
                                  row(d).status, target(d))}
    <2> DEFINE dirty == Moved(row(d), target(d))
               entry == Entry("risk.accepted", decision[d].case, d, row(d).status, target(d))
    <2>1. dirty \in CaseRow /\ dirty.status = target(d)
      BY <1>2, MovedType
    <2>2. row(d).status # target(d)
      BY <1>4 DEF AllowedTransitions
    <2>3. case' = [case EXCEPT ![decision[d].case] = Flush(@, row(d), dirty)]
      BY <1>4
    <2>4. /\ entry.event = "risk.accepted" /\ entry.case = decision[d].case
          /\ entry.new = target(d)
      BY EntryFields
    <2>5. journal' = {entry}
      BY <1>4
    <2> HIDE DEF dirty, entry
    <2>6. session[s].rows[decision[d].case].status # dirty.status
      BY <2>1, <2>2
    <2>7. /\ case'[decision[d].case] = Flush(case[decision[d].case], row(d), dirty)
          /\ case[decision[d].case] \in CaseRow
          /\ \A f \in Cases \ {decision[d].case} : case'[f] = case[f]
      BY <1>2, <2>3 DEF TypeOK
    <2>8. case'[decision[d].case].status = dirty.status
      BY <1>2, <2>1, <2>6, <2>7, FlushType
    <2> QED BY <2>1, <2>4, <2>5, <2>7, <2>8 DEF Told
  <1> QED BY <1>1, <1>3, <1>4

LEMMA ExpireTold ==
  ASSUME TypeOK, NEW s \in Sessions, Expire(s), NEW e \in Cases
  PROVE  Told(e)
  <1>1. PICK first \in [Returned(s) -> LoadedDecisions(s)] :
          journal' = {Entry("risk-decision.expired", c, first[c],
                            "risk_accepted", "triage") : c \in Returned(s)}
    BY DEF Expire
  <1>2. \A c \in Returned(s) :
          LET entry == Entry("risk-decision.expired", c, first[c], "risk_accepted", "triage")
          IN entry.event = "risk-decision.expired" /\ entry.case = c /\ entry.new = "triage"
    BY EntryFields
  <1>3. e \notin Returned(s) => case'[e] = case[e]
    BY DEF Expire
  <1>4. e \in Returned(s) => case'[e].status = "triage"
    BY ExpireWrites
  <1> QED BY <1>1, <1>2, <1>3, <1>4 DEF Told

LEMMA CreateTold ==
  ASSUME TypeOK, NEW c \in Cases, CreateCase(c), NEW e \in Cases
  PROVE  Told(e)
  <1>1. case'[c] = NewRow(c) /\ \A f \in Cases \ {c} : case'[f] = case[f]
    BY DEF CreateCase, TypeOK
  <1>2. case'[c].status = "new"
    BY <1>1 DEF NewRow
  <1>3. journal' = {Entry("case.created", c, None, None, "new")}
    BY DEF CreateCase
  <1> QED BY <1>1, <1>2, <1>3, OneTold

LEMMA NextTold ==
  ASSUME TypeOK, Next, NEW e \in Cases
  PROVE  Told(e)
  <1>1. ASSUME UNCHANGED case, journal' = {} PROVE Told(e)
    BY <1>1 DEF Told
  <1>2. CASE Tick
    BY <1>1, <1>2 DEF Tick
  <1>3. ASSUME NEW s \in Sessions, Begins(s) \/ Abort(s) PROVE Told(e)
    BY <1>1, <1>3 DEF Begins, BeginOnCase, BeginOnDecision, BeginExpire, Begin, Abort
  <1>4. ASSUME NEW s \in Sessions, RequestDecision(s) PROVE Told(e)
    <2>1. PICK c, d : journal' = {Entry("risk.decision.requested", c, d, None, None)}
      BY <1>4 DEF RequestDecision
    <2>2. \A v \in journal' : v.new = None
      BY <2>1, EntryFields
    <2>3. UNCHANGED case
      BY <1>4 DEF RequestDecision
    <2> QED BY <2>2, <2>3 DEF Told
  <1> QED BY <1>2, <1>3, <1>4, TransitionIfMatchTold, TransitionTold, VerifyTold, DecideTold,
             RevokeTold, ExpireTold, ReopenTold, CreateTold
      DEF Next, Finishes

\* The journal and the cases agree, step by step.
CaseChangesAreTold ==
  [][\A c \in Cases :
       /\ case'[c].status # case[c].status =>
            \E e \in journal' : e.event # "verification" /\ e.case = c
       /\ \A e \in journal' :
            e.event \notin {"verification", "risk.decision.revoked"} /\ e.case = c
              /\ e.new # None => case'[c].status = e.new]_vars

\* Every change of the status of a case is journalled in its own transaction,
\* and no transition, approval, sweep or reopening journals a status that the
\* unit of work then leaves out of its UPDATE, although it writes only what
\* differs from an old snapshot (CaseService.transition, process_expirations).
THEOREM JournalAgrees == Spec => CaseChangesAreTold
  <1>1. ASSUME TypeOK, [Next]_vars
        PROVE  [\A c \in Cases :
                  /\ case'[c].status # case[c].status =>
                       \E e \in journal' : e.event # "verification" /\ e.case = c
                  /\ \A e \in journal' :
                       e.event \notin {"verification", "risk.decision.revoked"} /\ e.case = c
                         /\ e.new # None => case'[c].status = e.new]_vars
    BY <1>1, NextTold DEF Told
  <1> QED BY <1>1, TypeCorrect, PTL DEF Spec, CaseChangesAreTold

\* A step that changes the status of a decision says so, but for the sweep.
LEMMA DecisionTold ==
  ASSUME TypeOK, [Next]_vars, NEW d \in Decisions,
         decision'[d].status # decision[d].status
  PROVE  \/ \E e \in journal' : e.event # "verification" /\ e.decision = d
         \/ decision'[d].status = "expired" /\ \E s \in Sessions : Expire(s)
  <1>1. ASSUME NEW e \in Decisions, NEW row, decision' = [decision EXCEPT ![e] = row]
        PROVE  e = d
    BY <1>1 DEF TypeOK
  <1>2. ASSUME NEW event, NEW c, NEW prior, NEW new, event # "verification",
               journal' = {Entry(event, c, d, prior, new)}
        PROVE  \E e \in journal' : e.event # "verification" /\ e.decision = d
    <2> DEFINE entry == Entry(event, c, d, prior, new)
    <2>1. entry.event = event /\ entry.decision = d
      BY EntryFields
    <2>2. journal' = {entry}
      BY <1>2
    <2> HIDE DEF entry
    <2> QED BY <1>2, <2>1, <2>2
  <1>3. ASSUME NEW s \in Sessions, RequestDecision(s)
        PROVE  \E e \in journal' : e.event # "verification" /\ e.decision = d
    <2>1. PICK e \in Decisions :
            /\ \E row : decision' = [decision EXCEPT ![e] = row]
            /\ \E c : journal' = {Entry("risk.decision.requested", c, e, None, None)}
      BY <1>3 DEF RequestDecision
    <2>2. PICK c : journal' = {Entry("risk.decision.requested", c, e, None, None)}
      BY <2>1
    <2> QED BY <1>1, <1>2, <2>1, <2>2
  <1>4. ASSUME NEW s \in Sessions, Decide(s)
        PROVE  \E e \in journal' : e.event # "verification" /\ e.decision = d
    <2>1. PICK e \in LoadedDecisions(s), user \in Users :
            \/ /\ decision' = [decision EXCEPT ![e].status = "approved", ![e].approver = user]
               /\ journal' = {Entry("risk.accepted", decision[e].case, e,
                                    session[s].rows[decision[e].case].status,
                                    DecisionTarget(decision[e].type))}
            \/ /\ decision' = [decision EXCEPT ![e].status = "rejected", ![e].approver = user]
               /\ journal' = {Entry("risk.decision.rejected", decision[e].case, e, None, None)}
      BY <1>4, Zenon DEF Decide
    <2>2. e = d
      BY <2>1 DEF TypeOK, LoadedDecisions
    <2> QED BY <1>2, <2>1, <2>2
  <1>5. ASSUME NEW s \in Sessions, Revoke(s)
        PROVE  \E e \in journal' : e.event # "verification" /\ e.decision = d
    <2>1. PICK e \in LoadedDecisions(s) :
            /\ decision' = [decision EXCEPT ![e].status = DecisionFlush(s, e, "revoked")]
            /\ journal' = {Entry("risk.decision.revoked", decision[e].case, e,
                                 session[s].rows[decision[e].case].status, "triage")}
      BY <1>5, Zenon DEF Revoke
    <2>2. e = d
      BY <2>1 DEF TypeOK, LoadedDecisions
    <2> QED BY <1>2, <2>1, <2>2
  <1>6. ASSUME NEW s \in Sessions, Expire(s)
        PROVE  decision'[d].status = "expired"
    <2>1. decision'[d] = IF d \in LoadedDecisions(s)
                         THEN [decision[d] EXCEPT !.status = "expired"] ELSE decision[d]
      BY <1>6 DEF Expire
    <2> QED BY <2>1 DEF TypeOK, DecisionRow
  <1>7. ~UNCHANGED decision
    OBVIOUS
  <1> QED BY <1>3, <1>4, <1>5, <1>6, <1>7
      DEF Next, vars, Tick, CreateCase, Begins, BeginOnCase, BeginOnDecision, BeginExpire,
          Begin, Abort, Finishes, TransitionIfMatch, Transition, Verify, Reopen

\* Every change of a decision but its expiry is journalled.
OtherChangesAreJournalled ==
  [][\A d \in Decisions :
       decision'[d].status \notin {decision[d].status, "expired"} =>
         \E e \in journal' : e.event # "verification" /\ e.decision = d]_vars

\* A request, a verdict and a revocation are each journalled in the transaction
\* that makes them, however many are under way (create_risk_decision,
\* approve_risk_decision, revoke_decision): what goes unsaid is an expiry.
THEOREM OnlyExpiryIsSilent == Spec => OtherChangesAreJournalled
  <1>1. ASSUME TypeOK, [Next]_vars
        PROVE  [\A d \in Decisions :
                  decision'[d].status \notin {decision[d].status, "expired"} =>
                    \E e \in journal' : e.event # "verification" /\ e.decision = d]_vars
    BY <1>1, DecisionTold
  <1> QED BY <1>1, TypeCorrect, PTL DEF Spec, OtherChangesAreJournalled

\* So without the sweep every change of a decision is journalled
\* (process_expirations).
THEOREM ChangesAreJournalled ==
  ASSUME "expire" \notin Ops
  PROVE  Spec => DecisionChangesAreJournalled
  <1> DEFINE NoSweep == \A s \in Sessions : session[s].op # "expire"
  <1>1. Init => NoSweep
    BY DEF Init, Idle
  <1>2. ASSUME TypeOK, NoSweep, [Next]_vars
        PROVE  NoSweep'
    <2> SUFFICES ASSUME NEW s \in Sessions PROVE session'[s].op # "expire"
      OBVIOUS
    <2>1. Idle.op # "expire" /\ session[s].op # "expire"
      BY <1>2 DEF Idle
    <2>2. ASSUME NEW op \in Ops, NEW C, NEW D, session'[s] = Loaded(op, C, D)
          PROVE  session'[s].op # "expire"
      <3>1. Loaded(op, C, D).op = op
        BY DEF Loaded
      <3> QED BY <2>2, <3>1
    <2> QED BY <1>2, <2>1, <2>2, SessionStep
  <1>3. ASSUME TypeOK, NoSweep, [Next]_vars
        PROVE  [\A d \in Decisions :
                  decision'[d].status # decision[d].status =>
                    \E e \in journal' : e.event # "verification" /\ e.decision = d]_vars
    BY <1>3, DecisionTold DEF Expire
  <1> QED BY <1>1, <1>2, <1>3, TypeCorrect, PTL DEF Spec, DecisionChangesAreJournalled
================================================================================
