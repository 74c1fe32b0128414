-------------------------- MODULE OutboxOrchestrator --------------------------
(***************************************************************************)
(* From evidence to exposures and cases: the worker that drains the outbox *)
(* (vulnops/workers/orchestration.py), with the reviews of exposures       *)
(* (vulnops/api/exposures.py) and the closing of cases that interleave.    *)
(*                                                                         *)
(* An outbox row of an evidence type names the findings its handler goes   *)
(* through: the (component, advisory) pairs of an SBOM, or the one CVE of  *)
(* a scanner finding.  For each, the handler matches, looks the exposure   *)
(* up by its natural identity, inserts or refreshes it and commits; looks  *)
(* for a case, creates one and commits; links the two and commits.  Every  *)
(* commit is a step here, so that another worker, a client, a failure or a *)
(* crash can come between any two of them.  The first commit also releases *)
(* the row locks the claim took (FOR UPDATE SKIP LOCKED).                  *)
(***************************************************************************)
EXTENDS Naturals, FiniteSets

CONSTANTS
  Workers,      \* orchestrator processes
  Events,       \* outbox rows, numbered in the order of created_at
  Keys,         \* natural identities of exposures (organization, vulnerability,
                \* detection context, component occurrence)
  Rows,         \* exposure ids
  Cases,        \* case ids
  Evidence,     \* what evidence events report: sets of keys
  Unpackaged,   \* the keys reported without a package URL
  Unreachable,  \* the keys whose advisory lookup may fail on its own
  Classes,      \* the classes the matcher may find
  AutoCreate,   \* setting CASE_AUTO_CREATE_ENABLED
  BatchSize,    \* setting ORCHESTRATOR_BATCH_SIZE
  MaxAttempts,  \* setting ORCHESTRATOR_MAX_ATTEMPTS
  MaxEvidence,  \* bound on the evidence events emitted
  MaxCrashes,   \* bound on the crashes
  ClientOps,    \* the client operations in use
  None

CaseClasses == {"confirmed", "deterministic"}
MatchClasses == CaseClasses \cup {"candidate", "not_affected"}
States == {"active", "candidate", "not_affected"}
AllClientOps == {"review", "close", "reopen"}

ASSUME OutboxConstants ==
  /\ Events \subseteq Nat
  /\ Evidence \subseteq SUBSET Keys
  /\ Unpackaged \subseteq Keys /\ Unreachable \subseteq Keys
  /\ Classes \subseteq MatchClasses
  /\ AutoCreate \in BOOLEAN
  /\ BatchSize \in Nat \ {0} /\ MaxAttempts \in Nat \ {0}
  /\ MaxEvidence \in Nat /\ MaxCrashes \in Nat
  /\ ClientOps \subseteq AllClientOps
  /\ None \notin Rows /\ None \notin Events /\ None \notin Cases
  /\ None \notin Keys /\ None \notin MatchClasses

VARIABLES
  outbox,    \* table outbox_events
  exposure,  \* table exposures
  evidence,  \* table match_evidence: exposure and event
  case,      \* table remediation_cases, with its links
  review,    \* per exposure, its last review in audit_events
  reviewing, \* the exposures that reviews have loaded
  worker,    \* per worker, where it is and what its session holds
  crashes    \* crashes so far

vars == <<outbox, exposure, evidence, case, review, reviewing, worker, crashes>>

-----------------------------------------------------------------------------
(* Rows.                                                                    *)

OutboxRow == [kind : {"absent", "evidence", "other"}, work : SUBSET Keys,
              attempts : Nat, delivered : BOOLEAN]
NoEvent == [kind |-> "absent", work |-> {}, attempts |-> 0, delivered |-> FALSE]
NewEvent(kind, work) == [NoEvent EXCEPT !.kind = kind, !.work = work]

ExposureRow == [key : Keys \cup {None}, class : MatchClasses \cup {None},
                state : States \cup {None}]
NoExposure == [key |-> None, class |-> None, state |-> None]

\* "linked" is the row of case_exposures and, where the finding carries one,
\* the external ticket: the handler commits them together after the case.
CaseRow == [status : {"absent", "open", "closed"}, exposure : Rows \cup {None},
            linked : BOOLEAN]
NoCase == [status |-> "absent", exposure |-> None, linked |-> FALSE]

WorkerRow ==
  [pc : {"idle", "ready", "finding", "found", "stored", "create", "link"},
   batch : SUBSET Events, locks : SUBSET Events, at : Events \cup {None},
   todo : SUBSET Keys, key : Keys \cup {None}, row : Rows \cup {None},
   seen : ExposureRow, case : Cases \cup {None}]
Idle == [pc |-> "idle", batch |-> {}, locks |-> {}, at |-> None, todo |-> {},
         key |-> None, row |-> None, seen |-> NoExposure, case |-> None]

\* Faulty: the class is stored as the state.
StateIsClass(class) == class

\* The state upsert_exposure derives from the class.
StateOf(class) ==
  CASE class \in CaseClasses -> "active"
    [] class = "not_affected" -> "not_affected"
    [] OTHER -> "candidate"

\* Faulty: only an active exposure is found again.
ActiveRowsOf(key) == {x \in Rows : exposure[x].key = key /\ exposure[x].state = "active"}

\* The exposures with the natural identity key.
RowsOf(key) == {x \in Rows : exposure[x].key = key}
Listing(x) == {c \in Cases : case[c].exposure = x}
OpenCases(x) == {c \in Listing(x) : case[c].status = "open"}

\* The row an insert takes: the next in the order of created_at.
NextEvent(e) ==
  /\ outbox[e].kind = "absent"
  /\ \A f \in Events : f < e => outbox[f].kind # "absent"

\* A bridge or the SBOM service commits an evidence event.
Emit(work) ==
  /\ Cardinality({e \in Events : outbox[e].kind = "evidence"}) < MaxEvidence
  /\ \E e \in Events :
       NextEvent(e) /\ outbox' = [outbox EXCEPT ![e] = NewEvent("evidence", work)]
  /\ UNCHANGED <<exposure, evidence, case, review, reviewing, worker, crashes>>

-----------------------------------------------------------------------------
(* The worker.                                                              *)

\* Faulty: the attempt cap is one too many.
ClaimableOffByOne(e) ==
  outbox[e].kind # "absent" /\ ~outbox[e].delivered /\ outbox[e].attempts <= MaxAttempts

\* The filter of claim_events.
Claimable(e) ==
  outbox[e].kind # "absent" /\ ~outbox[e].delivered /\ outbox[e].attempts < MaxAttempts

LockedByOthers(w) == UNION {worker[v].locks : v \in Workers \ {w}}

\* claim_events: up to BatchSize claimable rows, the oldest ones, that no
\* other worker holds locked.
Claim(w) ==
  /\ worker[w].pc = "idle"
  /\ LET free == {e \in Events : Claimable(e)} \ LockedByOthers(w)
         batch == {e \in free : Cardinality({f \in free : f < e}) < BatchSize}
     IN /\ batch # {}
        /\ worker' = [worker EXCEPT ![w] =
                        [Idle EXCEPT !.pc = "ready", !.batch = batch, !.locks = batch]]
  /\ UNCHANGED <<outbox, exposure, evidence, case, review, reviewing, crashes>>

Oldest(S, e) == e \in S /\ \A f \in S : e <= f

\* complete_event, and the end of the loop over the batch.
Complete(w, e) ==
  /\ outbox' = [outbox EXCEPT ![e].delivered = TRUE]
  /\ worker' = [worker EXCEPT ![w] =
       LET rest == worker[w].batch \ {e} IN
       [Idle EXCEPT !.pc = IF rest = {} THEN "idle" ELSE "ready", !.batch = rest]]

\* process_event of a type with no handler.
Skip(w) ==
  /\ worker[w].pc = "ready"
  /\ \E e \in Events :
       /\ Oldest(worker[w].batch, e)
       /\ outbox[e].kind = "other"
       /\ Complete(w, e)
  /\ UNCHANGED <<exposure, evidence, case, review, reviewing, crashes>>

\* What lookup_batch answers for: the components whose query failed are
\* dropped, and when all of them fail it raises instead (Fail).
Answers(work) ==
  {todo \in {work \ D : D \in SUBSET Unreachable} : todo = {} => work = {}}

\* The handler starts with the advisories of everything the event reports.
Start(w) ==
  /\ worker[w].pc = "ready"
  /\ \E e \in Events :
       /\ Oldest(worker[w].batch, e)
       /\ outbox[e].kind = "evidence"
       /\ \E todo \in Answers(outbox[e].work) :
            worker' = [worker EXCEPT ![w].pc = "finding", ![w].at = e, ![w].todo = todo]
  /\ UNCHANGED <<outbox, exposure, evidence, case, review, reviewing, crashes>>

\* The next finding, in no particular order (the occurrences are not sorted).
\* upsert_exposure, first half: SELECT by natural identity.
Lookup(w) ==
  /\ worker[w].pc = "finding"
  /\ \E key \in worker[w].todo :
     \E x \in IF RowsOf(key) = {} THEN {None} ELSE RowsOf(key) :
       worker' = [worker EXCEPT
                    ![w].pc = "found", ![w].key = key, ![w].row = x,
                    ![w].seen = IF x = None THEN NoExposure ELSE exposure[x]]
  /\ UNCHANGED <<outbox, exposure, evidence, case, review, reviewing, crashes>>

\* Faulty: a refresh touches the class but not the state derived from it.
RefreshedClassOnly(x, seen, class) ==
  [exposure[x] EXCEPT !.class = IF class = seen.class THEN @ ELSE class]

\* The refreshed row: the unit of work writes the columns that differ from
\* what the lookup loaded.
Refreshed(x, seen, class) ==
  [exposure[x] EXCEPT
     !.class = IF class = seen.class THEN @ ELSE class,
     !.state = IF StateOf(class) = seen.state THEN @ ELSE StateOf(class)]

\* Faulty: match evidence only for exposures seen for the first time.
RecordedIfNew(w, x) == IF worker[w].row = None THEN {<<x, worker[w].at>>} ELSE {}

\* The match_evidence row, at most one per exposure and event.
Recorded(w, x) == {<<x, worker[w].at>>}

\* upsert_exposure, second half, and its commit.
Store(w) ==
  /\ worker[w].pc = "found"
  /\ \E class \in Classes, x \in Rows :
       /\ IF worker[w].row = None
          THEN /\ exposure[x] = NoExposure
               /\ exposure' = [exposure EXCEPT ![x] =
                    [key |-> worker[w].key, class |-> class,
                     state |-> StateOf(class)]]
          ELSE /\ x = worker[w].row
               /\ exposure' = [exposure EXCEPT ![x] =
                                 Refreshed(x, worker[w].seen, class)]
       /\ evidence' = evidence \cup Recorded(w, x)
       /\ worker' = [worker EXCEPT ![w].pc = "stored", ![w].row = x,
                                   ![w].seen = NoExposure, ![w].locks = {}]
  /\ UNCHANGED <<outbox, case, review, reviewing, crashes>>

\* Faulty: only the link table tells that a case is there.
CoveredByLink(x) == \E c \in OpenCases(x) : case[c].linked

\* _maybe_create_case finds a case by the link table or by the list of
\* exposures in the case row.
Covered(x) == OpenCases(x) # {}

\* Faulty: the handler asks for a case only when the exposure is new.
WantsCaseOnce(x) ==
  /\ AutoCreate
  /\ exposure[x].class \in CaseClasses
  /\ exposure[x].key \notin Unpackaged
  /\ Cardinality({p \in evidence : p[1] = x}) = 1
  /\ ~Covered(x)

\* The conditions of _maybe_create_case and of its callers.
WantsCase(x) ==
  /\ AutoCreate
  /\ exposure[x].class \in CaseClasses
  /\ exposure[x].key \notin Unpackaged
  /\ ~Covered(x)

\* Done with the current finding.
NextFinding(w) ==
  [worker[w] EXCEPT !.pc = "finding", !.todo = @ \ {worker[w].key},
                    !.key = None, !.row = None, !.case = None]

Gate(w) ==
  /\ worker[w].pc = "stored"
  /\ worker' = [worker EXCEPT ![w] =
       IF WantsCase(worker[w].row) THEN [@ EXCEPT !.pc = "create"] ELSE NextFinding(w)]
  /\ UNCHANGED <<outbox, exposure, evidence, case, review, reviewing, crashes>>

\* CaseService.create_case: the case with its list of exposures and the
\* case.created event, in one commit.
OpenCase(w) ==
  /\ worker[w].pc = "create"
  /\ \E c \in Cases, e \in Events :
       /\ case[c] = NoCase
       /\ NextEvent(e)
       /\ case' = [case EXCEPT ![c] = [status |-> "open", exposure |-> worker[w].row,
                                       linked |-> FALSE]]
       /\ outbox' = [outbox EXCEPT ![e] = NewEvent("other", {})]
       /\ worker' = [worker EXCEPT ![w].pc = "link", ![w].case = c]
  /\ UNCHANGED <<exposure, evidence, review, reviewing, crashes>>

\* The end of _maybe_create_case: the link and the ticket.
Link(w) ==
  /\ worker[w].pc = "link"
  /\ case' = [case EXCEPT ![worker[w].case].linked = TRUE]
  /\ worker' = [worker EXCEPT ![w] = NextFinding(w)]
  /\ UNCHANGED <<outbox, exposure, evidence, review, reviewing, crashes>>

\* The handler has returned.
Finish(w) ==
  /\ worker[w].pc = "finding"
  /\ worker[w].todo = {}
  /\ Complete(w, worker[w].at)
  /\ UNCHANGED <<exposure, evidence, case, review, reviewing, crashes>>

\* Faulty: the attempt is not counted.
AttemptUncounted(n) == n

Attempted(n) == n + 1

\* The handler raises at any point: fail_event rolls back, counts the attempt
\* and the worker leaves the rest of its batch to the next poll.
Fail(w) ==
  /\ worker[w].pc \notin {"idle", "ready"}
  /\ outbox' = [outbox EXCEPT ![worker[w].at].attempts = Attempted(@)]
  /\ worker' = [worker EXCEPT ![w] = Idle]
  /\ UNCHANGED <<exposure, evidence, case, review, reviewing, crashes>>

\* The process dies, or the commit of complete_event or fail_event fails: the
\* session is lost, its locks are released, nothing is counted.
Crash(w) ==
  /\ worker[w].pc # "idle"
  /\ crashes < MaxCrashes
  /\ crashes' = crashes + 1
  /\ worker' = [worker EXCEPT ![w] = Idle]
  /\ UNCHANGED <<outbox, exposure, evidence, case, review, reviewing>>

-----------------------------------------------------------------------------
(* The clients.                                                             *)

\* review_exposure loads an exposure that is up for review.
BeginReview(x) ==
  /\ "review" \in ClientOps
  /\ exposure[x].state = "candidate"
  /\ reviewing' = reviewing \cup {x}
  /\ UNCHANGED <<outbox, exposure, evidence, case, review, worker, crashes>>

\* It commits class and state, whatever the row has become by now.  Any number
\* of reviews may have loaded the exposure together, so others can follow.
Review(x, verdict) ==
  /\ x \in reviewing
  /\ exposure' = [exposure EXCEPT ![x].class = verdict, ![x].state = StateOf(verdict)]
  /\ review' = [review EXCEPT ![x] = verdict]
  /\ UNCHANGED <<outbox, evidence, case, reviewing, worker, crashes>>

\* The operations of CaseWorkflow that close a case and open it again.  Bound:
\* no closing that would leave the workers without case ids.
Move(c, op, from, to) ==
  /\ op \in ClientOps
  /\ case[c].status = from
  /\ op = "close" => Cardinality({d \in Cases : case[d] = NoCase}) >= Cardinality(Workers)
  /\ case' = [case EXCEPT ![c].status = to]
  /\ UNCHANGED <<outbox, exposure, evidence, review, reviewing, worker, crashes>>

-----------------------------------------------------------------------------
Init ==
  /\ outbox = [e \in Events |-> NoEvent]
  /\ exposure = [x \in Rows |-> NoExposure]
  /\ evidence = {}
  /\ case = [c \in Cases |-> NoCase]
  /\ review = [x \in Rows |-> None]
  /\ reviewing = {}
  /\ worker = [w \in Workers |-> Idle]
  /\ crashes = 0

\* What a worker does when nothing goes wrong.
Work(w) ==
  \/ Claim(w) \/ Skip(w) \/ Start(w) \/ Lookup(w) \/ Store(w)
  \/ Gate(w) \/ OpenCase(w) \/ Link(w) \/ Finish(w)

Clients ==
  \/ \E x \in Rows : BeginReview(x)
  \/ \E x \in Rows, verdict \in {"confirmed", "not_affected"} : Review(x, verdict)
  \/ \E c \in Cases : Move(c, "close", "open", "closed")
                      \/ Move(c, "reopen", "closed", "open")

Next ==
  \/ \E work \in Evidence : Emit(work)
  \/ \E w \in Workers : Work(w) \/ Fail(w) \/ Crash(w)
  \/ Clients

Spec == Init /\ [][Next]_vars

\* run_forever catches everything and polls again: a worker never stops for
\* good.  A handler may fail any number of times.
FairSpec == Spec /\ \A w \in Workers : WF_vars(Work(w))

-----------------------------------------------------------------------------
(* Properties.                                                              *)

\* Inside a handler a worker works on an evidence event of its batch; past the
\* lookup it has a finding in hand, then an exposure, then a case.
WorkerOK(me, rows) ==
  /\ \A e \in me.batch : rows[e].kind # "absent"
  /\ me.pc \notin {"idle", "ready"} =>
       me.at \in me.batch /\ rows[me.at].kind = "evidence"
  /\ me.pc \in {"found", "stored", "create", "link"} => me.key \in me.todo
  /\ me.pc \in {"stored", "create", "link"} => me.row \in Rows
  /\ me.pc = "link" => me.case \in Cases

\* Every variable keeps its shape, and every worker is where its fields say.
TypeOK ==
  /\ outbox \in [Events -> OutboxRow]
  /\ exposure \in [Rows -> ExposureRow]
  /\ evidence \subseteq Rows \X Events
  /\ case \in [Cases -> CaseRow]
  /\ review \in [Rows -> {"confirmed", "not_affected", None}]
  /\ reviewing \subseteq Rows
  /\ worker \in [Workers -> WorkerRow]
  /\ \A w \in Workers : WorkerOK(worker[w], outbox)
  /\ crashes \in Nat

\* Everything event e reports has an exposure with e as evidence.
Applied(e) ==
  \A key \in outbox[e].work : \E x \in RowsOf(key) : <<x, e>> \in evidence

\* An evidence event is marked delivered only after everything it reports has
\* an exposure that names it as evidence: no failure, crash, redelivery or
\* second worker leaves a finding behind (process_event, complete_event).
DeliveredMeansApplied ==
  \A e \in Events : outbox[e].kind = "evidence" /\ outbox[e].delivered => Applied(e)

\* There is one exposure per natural identity (upsert_exposure, "Idempotently
\* create or refresh one exposure").
OneExposurePerKey ==
  \A x, y \in Rows : exposure[x].key = exposure[y].key /\ exposure[x].key # None => x = y

\* An exposure has at most one open case, whatever was redelivered after a
\* failure or a crash between the commit of the case and that of its link
\* (_maybe_create_case).
OneOpenCase ==
  \A c, d \in Cases :
    /\ case[c].status = "open" /\ case[d].status = "open"
    /\ case[c].exposure = case[d].exposure
    => c = d

\* When a handler completes its event, every match it recorded that calls for a
\* case has one, if only a closed one by now; a review that came in between
\* excuses it.
HandledMeansCased ==
  [][\A e \in Events, x \in Rows :
       /\ outbox'[e].delivered /\ ~outbox[e].delivered
       /\ <<x, e>> \in evidence
       /\ AutoCreate /\ exposure[x].key \notin Unpackaged
       /\ exposure[x].class \in CaseClasses /\ review[x] = None
       => Listing(x) # {}]_vars

\* The state of an exposure is the one its class calls for, although the
\* orchestrator writes either column only when it differs from a snapshot that
\* a review may have outdated (upsert_exposure, review_exposure).  It takes one
\* class for each state to hold: of a refresh from "confirmed" to
\* "deterministic" only the class is written.
StateFollowsClass ==
  \A x \in Rows : exposure[x].key # None => exposure[x].state = StateOf(exposure[x].class)

\* Every outbox row is eventually delivered or dead-lettered: neither a poison
\* event nor repeated failures hold the rows behind it up for ever.
EventuallySettled ==
  \A e \in Events :
    outbox[e].kind # "absent" ~>
      outbox[e].delivered \/ outbox[e].attempts >= MaxAttempts

\* What the rows say of an event, as a queue sees it.
Settled(e) ==
  IF outbox[e].kind = "absent" THEN "absent"
  ELSE IF outbox[e].delivered THEN "delivered"
  ELSE IF outbox[e].attempts >= MaxAttempts THEN "dead" ELSE "pending"

Queue == INSTANCE EvidenceQueue WITH
  Late <- Cardinality(Workers) - 1,
  status <- [e \in Events |-> Settled(e)],
  failures <- [e \in Events |-> outbox[e].attempts],
  applied <- {e \in Events : outbox[e].kind # "absent" /\ Applied(e)}

\* The outbox is the queue of EvidenceQueue: what has been applied is never
\* undone, an event is delivered only once applied and for good, dead only after
\* MaxAttempts failures, never tried again but by workers that had claimed it
\* before, and always gets to one of the two (claim_events, process_event,
\* complete_event, fail_event).
ImplementsQueue == Queue!QueueSpec

\* A reviewer's confirmation stands when the source observes the exposure
\* again, so that the case guard can pick it up.
ConfirmationStands ==
  [][\A x \in Rows :
       review[x] = "confirmed" /\ exposure[x].class = "confirmed"
         => exposure'[x].class \in CaseClasses]_vars

\* A closed case is reopened by new evidence, not doubled by another case.
RecurrenceReopens ==
  [][\A c \in Cases :
       case[c] = NoCase /\ case'[c] # NoCase => Listing(case'[c].exposure) = {}]_vars
=============================================================================
