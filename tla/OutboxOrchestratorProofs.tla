------------------------ MODULE OutboxOrchestratorProofs ------------------------
(***************************************************************************)
(* What holds of the outbox orchestrator for every number of events, keys, *)
(* exposures and cases, and for every number of workers unless a theorem   *)
(* says otherwise.                                                         *)
(***************************************************************************)
EXTENDS OutboxOrchestrator, FiniteSetTheorems, TLAPS

-----------------------------------------------------------------------------
(* The operators on rows.                                                   *)

LEMMA IdleType == Idle \in WorkerRow /\ (\A b \in SUBSET Events, pc \in {"idle", "ready"} :
                    [Idle EXCEPT !.pc = pc, !.batch = b] \in WorkerRow)
  BY DEF Idle, WorkerRow, NoExposure, ExposureRow

LEMMA NewEventType ==
  ASSUME NEW kind \in {"evidence", "other"}, NEW work \in SUBSET Keys
  PROVE  /\ NewEvent(kind, work) \in OutboxRow
         /\ NewEvent(kind, work).kind = kind
         /\ NewEvent(kind, work).work = work
         /\ NewEvent(kind, work).attempts = 0
         /\ NewEvent(kind, work).delivered = FALSE
  BY DEF NewEvent, NoEvent, OutboxRow

LEMMA StateOfType == \A class \in MatchClasses : StateOf(class) \in States
  BY DEF StateOf, States

LEMMA NoEventType == NoEvent \in OutboxRow
  BY DEF NoEvent, OutboxRow

LEMMA NoExposureType == NoExposure \in ExposureRow
  BY DEF NoExposure, ExposureRow

LEMMA NoCaseType == NoCase \in CaseRow
  BY DEF NoCase, CaseRow

LEMMA RefreshedType ==
  ASSUME TypeOK, NEW x \in Rows, NEW seen, NEW class \in MatchClasses
  PROVE  /\ Refreshed(x, seen, class) \in ExposureRow
         /\ Refreshed(x, seen, class).key = exposure[x].key
  BY StateOfType DEF Refreshed, ExposureRow, TypeOK

LEMMA AnswersAreWork ==
  ASSUME NEW work \in SUBSET Keys, NEW todo \in Answers(work)
  PROVE  todo \subseteq work
  BY DEF Answers

-----------------------------------------------------------------------------
(* Type correctness.                                                        *)

\* Rows of the outbox are never deleted and keep what they report.
Kept(e) == outbox[e].kind # "absent" =>
  outbox'[e].kind = outbox[e].kind /\ outbox'[e].work = outbox[e].work

\* A step that leaves the workers' row of every worker but w alone.
LEMMA WorkerStepType ==
  ASSUME TypeOK, NEW w \in Workers, NEW me \in WorkerRow,
         worker' = [worker EXCEPT ![w] = me], WorkerOK(me, outbox'),
         \A e \in Events : Kept(e),
         outbox' \in [Events -> OutboxRow], exposure' \in [Rows -> ExposureRow],
         evidence' \subseteq Rows \X Events, case' \in [Cases -> CaseRow],
         review' = review, reviewing' = reviewing, crashes' \in Nat
  PROVE  TypeOK'
  <1>1. ASSUME NEW v \in Workers PROVE WorkerOK(worker[v], outbox)'
    <2>1. CASE v = w
      BY <2>1 DEF TypeOK
    <2>2. CASE v # w
      <3>1. worker'[v] = worker[v] /\ worker[v] \in WorkerRow /\ WorkerOK(worker[v], outbox)
        BY <2>2 DEF TypeOK
      <3>2. \A e \in worker[v].batch : Kept(e)
        BY <3>1 DEF WorkerRow
      <3> QED BY <3>1, <3>2 DEF WorkerOK, Kept
    <2> QED BY <2>1, <2>2
  <1>2. worker' \in [Workers -> WorkerRow]
    BY DEF TypeOK
  <1> QED BY <1>1, <1>2 DEF TypeOK

\* The same, for a step that writes nothing but the worker.
LEMMA WorkerOnlyType ==
  ASSUME TypeOK, NEW w \in Workers, NEW me \in WorkerRow,
         worker' = [worker EXCEPT ![w] = me], WorkerOK(me, outbox),
         UNCHANGED <<outbox, exposure, evidence, case, review, reviewing, crashes>>
  PROVE  TypeOK'
  <1>1. WorkerOK(me, outbox')
    BY DEF WorkerOK
  <1> QED BY <1>1, WorkerStepType DEF TypeOK, Kept

LEMMA EmitType ==
  ASSUME TypeOK, NEW work \in Evidence, Emit(work)
  PROVE  TypeOK'
  <1>1. PICK e \in Events :
          NextEvent(e) /\ outbox' = [outbox EXCEPT ![e] = NewEvent("evidence", work)]
    BY DEF Emit
  <1>2. NewEvent("evidence", work) \in OutboxRow
    BY OutboxConstants, NewEventType
  <1>3. outbox' \in [Events -> OutboxRow] /\ \A f \in Events : Kept(f)
    BY <1>1, <1>2 DEF TypeOK, NextEvent, Kept
  <1>4. \A w \in Workers : WorkerOK(worker[w], outbox)'
    BY <1>3 DEF Emit, TypeOK, WorkerOK, WorkerRow, Kept
  <1> QED BY <1>3, <1>4 DEF Emit, TypeOK

LEMMA ClaimType ==
  ASSUME TypeOK, NEW w \in Workers, Claim(w)
  PROVE  TypeOK'
  <1>1. PICK batch \in SUBSET {e \in Events : Claimable(e)} :
          worker' = [worker EXCEPT ![w] =
                       [Idle EXCEPT !.pc = "ready", !.batch = batch, !.locks = batch]]
    BY Zenon DEF Claim
  <1> DEFINE me == [Idle EXCEPT !.pc = "ready", !.batch = batch, !.locks = batch]
  <1>2. me \in WorkerRow
    BY IdleType DEF WorkerRow
  <1>3. WorkerOK(me, outbox)
    BY <1>2 DEF WorkerOK, Idle, Claimable
  <1> QED BY <1>1, <1>2, <1>3, WorkerOnlyType DEF Claim

\* The worker after an event: idle, or at the rest of its batch.
LEMMA CompleteType ==
  ASSUME TypeOK, NEW w \in Workers, NEW e \in Events, Complete(w, e),
         UNCHANGED <<exposure, evidence, case, review, reviewing, crashes>>
  PROVE  TypeOK'
  <1> DEFINE rest == worker[w].batch \ {e}
             pc == IF rest = {} THEN "idle" ELSE "ready"
             me == [Idle EXCEPT !.pc = pc, !.batch = rest]
  <1>1. worker' = [worker EXCEPT ![w] = me]
    BY Zenon DEF Complete
  <1>2. rest \in SUBSET Events /\ pc \in {"idle", "ready"}
    BY DEF TypeOK, WorkerRow
  <1>3. me \in WorkerRow
    BY <1>2, IdleType
  <1>4. outbox' \in [Events -> OutboxRow] /\ \A f \in Events : Kept(f)
    BY DEF Complete, TypeOK, OutboxRow, Kept
  <1>5. WorkerOK(me, outbox')
    <2>1. WorkerOK(worker[w], outbox)
      BY DEF TypeOK
    <2>2. \A f \in rest : outbox[f].kind # "absent"
      BY <2>1 DEF WorkerOK
    <2>3. \A f \in rest : outbox'[f].kind # "absent"
      BY <2>2, <1>2, <1>4 DEF Kept
    <2>4. me.batch = rest /\ me.pc \in {"idle", "ready"}
      BY <1>2 DEF Idle
    <2> HIDE DEF me, pc
    <2> QED BY <2>3, <2>4 DEF WorkerOK
  <1> HIDE DEF me
  <1> QED BY <1>1, <1>3, <1>4, <1>5, WorkerStepType DEF TypeOK

LEMMA StartType ==
  ASSUME TypeOK, NEW w \in Workers, Start(w)
  PROVE  TypeOK'
  <1>1. PICK e \in Events :
          /\ Oldest(worker[w].batch, e)
          /\ outbox[e].kind = "evidence"
          /\ \E todo \in Answers(outbox[e].work) :
               worker' = [worker EXCEPT ![w].pc = "finding", ![w].at = e, ![w].todo = todo]
    BY DEF Start
  <1>2. PICK todo \in Answers(outbox[e].work) :
          worker' = [worker EXCEPT ![w].pc = "finding", ![w].at = e, ![w].todo = todo]
    BY <1>1
  <1> DEFINE me == [worker[w] EXCEPT !.pc = "finding", !.at = e, !.todo = todo]
  <1>3. worker' = [worker EXCEPT ![w] = me]
    BY <1>2 DEF TypeOK
  <1>4. me \in WorkerRow
    <2>1. outbox[e].work \in SUBSET Keys /\ worker[w] \in WorkerRow
      BY DEF TypeOK, OutboxRow
    <2>2. todo \in SUBSET Keys
      BY <2>1, AnswersAreWork
    <2> QED BY <2>1, <2>2 DEF WorkerRow
  <1>5. WorkerOK(me, outbox)
    BY <1>1 DEF TypeOK, WorkerOK, WorkerRow, Oldest
  <1> HIDE DEF me
  <1> QED BY <1>3, <1>4, <1>5, WorkerOnlyType DEF Start

LEMMA LookupType ==
  ASSUME TypeOK, NEW w \in Workers, Lookup(w)
  PROVE  TypeOK'
  <1>1. PICK key \in worker[w].todo :
          \E x \in IF RowsOf(key) = {} THEN {None} ELSE RowsOf(key) :
            worker' = [worker EXCEPT
                         ![w].pc = "found", ![w].key = key, ![w].row = x,
                         ![w].seen = IF x = None THEN NoExposure ELSE exposure[x]]
    BY DEF Lookup
  <1>2. PICK x \in Rows \cup {None} :
          worker' = [worker EXCEPT
                       ![w].pc = "found", ![w].key = key, ![w].row = x,
                       ![w].seen = IF x = None THEN NoExposure ELSE exposure[x]]
    BY <1>1 DEF RowsOf
  <1> DEFINE seen == IF x = None THEN NoExposure ELSE exposure[x]
             me == [worker[w] EXCEPT !.pc = "found", !.key = key, !.row = x,
                                     !.seen = seen]
  <1>3. worker' = [worker EXCEPT ![w] = me]
    BY <1>2 DEF TypeOK
  <1>4. seen \in ExposureRow
    BY NoExposureType, <1>2 DEF TypeOK
  <1>5. me \in WorkerRow
    <2>1. worker[w] \in WorkerRow /\ key \in Keys
      BY DEF TypeOK, WorkerRow
    <2> HIDE DEF seen
    <2> QED BY <1>4, <2>1 DEF WorkerRow
  <1>6. WorkerOK(me, outbox)
    BY DEF TypeOK, WorkerOK, WorkerRow, Lookup
  <1> HIDE DEF me
  <1> QED BY <1>3, <1>5, <1>6, WorkerOnlyType DEF Lookup

LEMMA StoreType ==
  ASSUME TypeOK, NEW w \in Workers, Store(w)
  PROVE  TypeOK'
  <1>1. PICK class \in Classes, x \in Rows :
          /\ IF worker[w].row = None
             THEN /\ exposure[x] = NoExposure
                  /\ exposure' = [exposure EXCEPT ![x] =
                       [key |-> worker[w].key, class |-> class,
                        state |-> StateOf(class)]]
             ELSE /\ x = worker[w].row
                  /\ exposure' = [exposure EXCEPT ![x] =
                                    Refreshed(x, worker[w].seen, class)]
          /\ evidence' = evidence \cup Recorded(w, x)
          /\ worker' = [worker EXCEPT ![w].pc = "stored", ![w].row = x,
                                      ![w].seen = NoExposure, ![w].locks = {}]
    BY DEF Store
  <1>2. class \in MatchClasses /\ worker[w] \in WorkerRow /\ WorkerOK(worker[w], outbox)
    BY OutboxConstants DEF TypeOK
  <1>3. worker[w].pc = "found" /\ worker[w].key \in Keys /\ worker[w].at \in Events
    BY <1>2 DEF WorkerOK, WorkerRow, Store
  <1>4. exposure' \in [Rows -> ExposureRow]
    <2>1. CASE worker[w].row = None
      <3>1. [key |-> worker[w].key, class |-> class, state |-> StateOf(class)] \in ExposureRow
        BY <1>2, <1>3, StateOfType DEF ExposureRow
      <3> QED BY <1>1, <2>1, <3>1 DEF TypeOK
    <2>2. CASE worker[w].row # None
      <3>1. Refreshed(x, worker[w].seen, class) \in ExposureRow
        BY <1>2, RefreshedType
      <3> QED BY <1>1, <2>2, <3>1 DEF TypeOK
    <2> QED BY <2>1, <2>2
  <1>5. evidence' \subseteq Rows \X Events
    BY <1>1, <1>3 DEF Recorded, TypeOK
  <1> DEFINE me == [worker[w] EXCEPT !.pc = "stored", !.row = x,
                                     !.seen = NoExposure, !.locks = {}]
  <1>6. worker' = [worker EXCEPT ![w] = me]
    BY <1>1 DEF TypeOK
  <1>7. me \in WorkerRow
    BY <1>2, NoExposureType DEF WorkerRow
  <1>8. WorkerOK(me, outbox')
    BY <1>2, <1>3 DEF WorkerOK, WorkerRow, Store
  <1> HIDE DEF me
  <1> QED BY <1>4, <1>5, <1>6, <1>7, <1>8, WorkerStepType DEF Store, TypeOK, Kept

\* Leaving a finding, whatever became of it.
LEMMA NextFindingType ==
  ASSUME TypeOK, NEW w \in Workers, worker[w].pc \notin {"idle", "ready"}
  PROVE  NextFinding(w) \in WorkerRow /\ WorkerOK(NextFinding(w), outbox)
  <1>1. worker[w] \in WorkerRow /\ WorkerOK(worker[w], outbox)
    BY DEF TypeOK
  <1>2. NextFinding(w) \in WorkerRow
    BY <1>1 DEF NextFinding, WorkerRow
  <1>3. WorkerOK(NextFinding(w), outbox)
    BY <1>1 DEF NextFinding, WorkerRow, WorkerOK
  <1> QED BY <1>2, <1>3

LEMMA GateType ==
  ASSUME TypeOK, NEW w \in Workers, Gate(w)
  PROVE  TypeOK'
  <1> DEFINE me == IF WantsCase(worker[w].row)
                   THEN [worker[w] EXCEPT !.pc = "create"] ELSE NextFinding(w)
  <1>1. worker' = [worker EXCEPT ![w] = me]
    BY DEF Gate, TypeOK
  <1>2. worker[w] \in WorkerRow /\ WorkerOK(worker[w], outbox) /\ worker[w].pc = "stored"
    BY DEF TypeOK, Gate
  <1>3. [worker[w] EXCEPT !.pc = "create"] \in WorkerRow
    BY <1>2 DEF WorkerRow
  <1>4. WorkerOK([worker[w] EXCEPT !.pc = "create"], outbox)
    BY <1>2 DEF WorkerRow, WorkerOK
  <1>5. me \in WorkerRow /\ WorkerOK(me, outbox)
    BY <1>2, <1>3, <1>4, NextFindingType
  <1> HIDE DEF me
  <1> QED BY <1>1, <1>5, WorkerOnlyType DEF Gate

LEMMA OpenCaseType ==
  ASSUME TypeOK, NEW w \in Workers, OpenCase(w)
  PROVE  TypeOK'
  <1>1. PICK c \in Cases, e \in Events :
          /\ NextEvent(e)
          /\ case' = [case EXCEPT ![c] = [status |-> "open", exposure |-> worker[w].row,
                                          linked |-> FALSE]]
          /\ outbox' = [outbox EXCEPT ![e] = NewEvent("other", {})]
          /\ worker' = [worker EXCEPT ![w].pc = "link", ![w].case = c]
    BY DEF OpenCase
  <1>2. worker[w] \in WorkerRow /\ WorkerOK(worker[w], outbox) /\ worker[w].pc = "create"
    BY DEF TypeOK, OpenCase
  <1>3. case' \in [Cases -> CaseRow]
    BY <1>1, <1>2 DEF TypeOK, CaseRow, WorkerOK
  <1>4. NewEvent("other", {}) \in OutboxRow
    BY NewEventType
  <1>5. outbox' \in [Events -> OutboxRow] /\ \A f \in Events : Kept(f)
    BY <1>1, <1>4 DEF TypeOK, NextEvent, Kept
  <1> DEFINE me == [worker[w] EXCEPT !.pc = "link", !.case = c]
  <1>6. worker' = [worker EXCEPT ![w] = me]
    BY <1>1 DEF TypeOK
  <1>7. me \in WorkerRow
    BY <1>2 DEF WorkerRow
  <1>8. WorkerOK(me, outbox')
    <2>1. WorkerOK(me, outbox)
      BY <1>2 DEF WorkerOK, WorkerRow
    <2>2. me.batch \subseteq Events
      BY <1>7 DEF WorkerRow
    <2> HIDE DEF me
    <2> QED BY <2>1, <2>2, <1>5 DEF WorkerOK, Kept
  <1> HIDE DEF me
  <1> QED BY <1>3, <1>5, <1>6, <1>7, <1>8, WorkerStepType DEF OpenCase, TypeOK

LEMMA LinkType ==
  ASSUME TypeOK, NEW w \in Workers, Link(w)
  PROVE  TypeOK'
  <1> DEFINE me == NextFinding(w)
  <1>1. me \in WorkerRow /\ WorkerOK(me, outbox)
    BY NextFindingType DEF Link
  <1>2. WorkerOK(me, outbox')
    BY <1>1 DEF WorkerOK, NextFinding, Link
  <1>3. case' \in [Cases -> CaseRow]
    BY DEF Link, TypeOK, CaseRow
  <1>4. worker' = [worker EXCEPT ![w] = me]
    BY DEF Link
  <1> HIDE DEF me
  <1> QED BY <1>1, <1>2, <1>3, <1>4, WorkerStepType DEF Link, TypeOK, Kept

\* A worker that has lost its session.
LEMMA IdleWorkerType ==
  ASSUME TypeOK, NEW w \in Workers, worker' = [worker EXCEPT ![w] = Idle],
         \A e \in Events : Kept(e), outbox' \in [Events -> OutboxRow], crashes' \in Nat,
         UNCHANGED <<exposure, evidence, case, review, reviewing>>
  PROVE  TypeOK'
  <1>1. Idle \in WorkerRow
    BY IdleType
  <1>2. WorkerOK(Idle, outbox')
    BY DEF WorkerOK, Idle
  <1> QED BY <1>1, <1>2, WorkerStepType DEF TypeOK

LEMMA FailType ==
  ASSUME TypeOK, NEW w \in Workers, Fail(w)
  PROVE  TypeOK'
  <1>1. outbox' \in [Events -> OutboxRow] /\ \A e \in Events : Kept(e)
    <2> DEFINE e == worker[w].at
    <2>1. outbox' = [outbox EXCEPT ![e].attempts = outbox[e].attempts + 1]
      BY Zenon DEF Fail, Attempted
    <2>2. outbox \in [Events -> OutboxRow]
      BY DEF TypeOK
    <2> HIDE DEF e
    <2>3. ASSUME NEW f \in Events PROVE outbox'[f] \in OutboxRow /\ Kept(f)
      <3>1. outbox[f] \in OutboxRow
        BY <2>2
      <3>2. [outbox[f] EXCEPT !.attempts = outbox[f].attempts + 1] \in OutboxRow
        BY <3>1 DEF OutboxRow
      <3>3. outbox'[f] = IF f = e THEN [outbox[f] EXCEPT !.attempts = outbox[f].attempts + 1]
                         ELSE outbox[f]
        BY <2>1, <2>2
      <3> QED BY <3>1, <3>2, <3>3 DEF Kept, OutboxRow
    <2> QED BY <2>1, <2>2, <2>3
  <1> QED BY <1>1, IdleWorkerType DEF Fail, TypeOK

LEMMA CrashType ==
  ASSUME TypeOK, NEW w \in Workers, Crash(w)
  PROVE  TypeOK'
  <1>1. outbox' \in [Events -> OutboxRow] /\ crashes' \in Nat
    BY DEF Crash, TypeOK
  <1>2. \A e \in Events : Kept(e)
    BY DEF Crash, Kept
  <1> QED BY <1>1, <1>2, IdleWorkerType DEF Crash

LEMMA ClientsType ==
  ASSUME TypeOK, Clients
  PROVE  TypeOK'
  <1>1. ASSUME NEW x \in Rows, BeginReview(x) PROVE TypeOK'
    BY <1>1 DEF BeginReview, TypeOK, WorkerOK
  <1>2. ASSUME NEW x \in Rows, NEW verdict \in {"confirmed", "not_affected"},
               Review(x, verdict)
        PROVE  TypeOK'
    <2>1. verdict \in MatchClasses /\ StateOf(verdict) \in States
      BY StateOfType DEF MatchClasses, CaseClasses
    <2>2. exposure' \in [Rows -> ExposureRow]
      BY <1>2, <2>1 DEF Review, TypeOK, ExposureRow
    <2> QED BY <1>2, <2>2 DEF Review, TypeOK, WorkerOK
  <1>3. ASSUME NEW c \in Cases, Move(c, "close", "open", "closed") PROVE TypeOK'
    BY <1>3 DEF Move, TypeOK, WorkerOK, CaseRow
  <1>4. ASSUME NEW c \in Cases, Move(c, "reopen", "closed", "open") PROVE TypeOK'
    BY <1>4 DEF Move, TypeOK, WorkerOK, CaseRow
  <1> QED BY <1>1, <1>2, <1>3, <1>4 DEF Clients

LEMMA NextType == TypeOK /\ [Next]_vars => TypeOK'
  <1> SUFFICES ASSUME TypeOK, [Next]_vars PROVE TypeOK'
    OBVIOUS
  <1>1. ASSUME NEW work \in Evidence, Emit(work) PROVE TypeOK'
    BY <1>1, EmitType
  <1>2. ASSUME NEW w \in Workers, Work(w) PROVE TypeOK'
    <2>1. CASE Skip(w)
      BY <2>1, CompleteType DEF Skip
    <2>2. CASE Finish(w)
      <3>1. worker[w].at \in Events
        BY <2>2 DEF Finish, TypeOK, WorkerOK, WorkerRow
      <3> QED BY <2>2, <3>1, CompleteType DEF Finish
    <2> QED BY <1>2, <2>1, <2>2, ClaimType, StartType, LookupType, StoreType, GateType,
               OpenCaseType, LinkType DEF Work
  <1>3. ASSUME NEW w \in Workers, Fail(w) \/ Crash(w) PROVE TypeOK'
    BY <1>3, FailType, CrashType
  <1>4. CASE Clients
    BY <1>4, ClientsType
  <1>5. CASE UNCHANGED vars
    BY <1>5 DEF vars, TypeOK, WorkerOK
  <1> QED BY <1>1, <1>2, <1>3, <1>4, <1>5 DEF Next

\* The shape of every table, and where every worker is when its fields say so,
\* for any number of workers, events and findings (run_once and its handlers).
THEOREM TypeCorrect == Spec => []TypeOK
  <1>1. Init => TypeOK
    <2> SUFFICES ASSUME Init PROVE TypeOK
      OBVIOUS
    <2>1. \A w \in Workers : worker[w] \in WorkerRow /\ WorkerOK(worker[w], outbox)
      BY IdleType DEF Init, WorkerOK, Idle
    <2> QED BY <2>1, NoEventType, NoExposureType, NoCaseType DEF Init, TypeOK
  <1> QED BY <1>1, NextType, PTL DEF Spec

-----------------------------------------------------------------------------
(* Nothing delivered is left behind.                                        *)

\* Event e is evidence of an exposure with the identity key.
Held(key, e, table, matches) ==
  \E x \in Rows : table[x].key = key /\ <<x, e>> \in matches

\* Inside a handler, what is no longer to do has an exposure and its evidence,
\* but for what the advisory lookup may have dropped; the row in hand is one of
\* the key in hand, and once it is stored the event in hand is evidence of it.
Sound(me, rows, table, matches) ==
  /\ me.pc \notin {"idle", "ready"} =>
       \A key \in rows[me.at].work \ (me.todo \cup Unreachable) :
         Held(key, me.at, table, matches)
  /\ me.pc = "found" /\ me.row # None => table[me.row].key = me.key
  /\ me.pc \in {"stored", "create", "link"} =>
       table[me.row].key = me.key /\ <<me.row, me.at>> \in matches

\* An evidence event is delivered only when each finding it reports, but for
\* those whose advisory lookup may fail on its own, has an exposure with that
\* event as evidence (process_event, complete_event, lookup_batch).
DeliveredUpToLookups ==
  \A e \in Events :
    outbox[e].kind = "evidence" /\ outbox[e].delivered =>
      \A key \in outbox[e].work \ Unreachable : \E x \in RowsOf(key) : <<x, e>> \in evidence

AppliedInv ==
  /\ DeliveredUpToLookups
  /\ \A w \in Workers : Sound(worker[w], outbox, exposure, evidence)

\* What no step takes back: what an event reports, the identity of an exposure,
\* match evidence.
Grows ==
  /\ \A e \in Events : Kept(e)
  /\ \A x \in Rows : exposure[x].key # None => exposure'[x].key = exposure[x].key
  /\ evidence \subseteq evidence'

LEMMA OutboxKept ==
  ASSUME TypeOK, [Next]_vars, NEW e \in Events
  PROVE  Kept(e)
  <1>1. ASSUME NEW f \in Events, NEW row, NextEvent(f), outbox' = [outbox EXCEPT ![f] = row]
        PROVE  Kept(e)
    BY <1>1 DEF NextEvent, TypeOK, Kept
  <1>2. ASSUME NEW f, outbox' = [outbox EXCEPT ![f].delivered = TRUE]
        PROVE  Kept(e)
    BY <1>2 DEF TypeOK, OutboxRow, Kept
  <1>3. ASSUME NEW f, outbox' = [outbox EXCEPT ![f].attempts = Attempted(@)]
        PROVE  Kept(e)
    BY <1>3 DEF TypeOK, OutboxRow, Kept
  <1>4. CASE UNCHANGED outbox
    BY <1>4 DEF Kept
  <1>5. ASSUME NEW w \in Workers, Work(w) \/ Fail(w) \/ Crash(w) PROVE Kept(e)
    BY <1>1, <1>2, <1>3, <1>4, <1>5
    DEF Work, Claim, Skip, Start, Lookup, Store, Gate, OpenCase, Link, Finish, Complete,
        Fail, Crash
  <1>6. CASE Clients
    BY <1>4, <1>6 DEF Clients, BeginReview, Review, Move
  <1>7. CASE \E work \in Evidence : Emit(work)
    BY <1>1, <1>7 DEF Emit
  <1> QED BY <1>4, <1>5, <1>6, <1>7 DEF Next, vars

LEMMA IdentityKept ==
  ASSUME TypeOK, [Next]_vars, NEW x \in Rows, exposure[x].key # None
  PROVE  exposure'[x].key = exposure[x].key
  <1>1. ASSUME NEW w \in Workers, Store(w) PROVE exposure'[x].key = exposure[x].key
    <2>1. CASE worker[w].row = None
      BY <1>1, <2>1 DEF Store, TypeOK, NoExposure
    <2>2. CASE worker[w].row # None
      <3>1. PICK class \in Classes, y \in Rows :
              exposure' = [exposure EXCEPT ![y] = Refreshed(y, worker[w].seen, class)]
        BY <1>1, <2>2 DEF Store
      <3>2. Refreshed(y, worker[w].seen, class).key = exposure[y].key
        BY OutboxConstants, RefreshedType
      <3> QED BY <3>1, <3>2 DEF TypeOK
    <2> QED BY <2>1, <2>2
  <1>2. ASSUME NEW y \in Rows, NEW verdict, Review(y, verdict)
        PROVE  exposure'[x].key = exposure[x].key
    BY <1>2 DEF Review, TypeOK, ExposureRow
  <1>3. CASE UNCHANGED exposure
    BY <1>3
  <1> QED BY <1>1, <1>2, <1>3
      DEF Next, vars, Emit, Work, Claim, Skip, Start, Lookup, Gate, OpenCase, Link, Finish,
          Fail, Crash, Clients, BeginReview, Move

LEMMA EvidenceKept ==
  ASSUME TypeOK, [Next]_vars
  PROVE  evidence \subseteq evidence'
  <1>1. ASSUME NEW w \in Workers, Store(w) PROVE evidence \subseteq evidence'
    BY <1>1 DEF Store
  <1>2. CASE UNCHANGED evidence
    BY <1>2
  <1> QED BY <1>1, <1>2
      DEF Next, vars, Emit, Work, Claim, Skip, Start, Lookup, Gate, OpenCase, Link, Finish,
          Fail, Crash, Clients, BeginReview, Review, Move

LEMMA NextGrows == TypeOK /\ [Next]_vars => Grows
  BY OutboxKept, IdentityKept, EvidenceKept DEF Grows

LEMMA HeldKept ==
  ASSUME Grows, NEW key \in Keys, NEW e \in Events, Held(key, e, exposure, evidence)
  PROVE  Held(key, e, exposure', evidence')
  BY OutboxConstants DEF Grows, Held

\* A worker's knowledge is not outdated by steps that only add.
LEMMA SoundKept ==
  ASSUME Grows, outbox \in [Events -> OutboxRow],
         NEW me \in WorkerRow, WorkerOK(me, outbox),
         Sound(me, outbox, exposure, evidence)
  PROVE  Sound(me, outbox', exposure', evidence')
  <1>1. ASSUME me.pc \notin {"idle", "ready"}
        PROVE  \A key \in outbox'[me.at].work \ (me.todo \cup Unreachable) :
                 Held(key, me.at, exposure', evidence')
    <2>1. me.at \in Events /\ outbox[me.at].kind = "evidence"
      BY <1>1 DEF WorkerOK, WorkerRow
    <2>2. outbox'[me.at].work = outbox[me.at].work /\ outbox[me.at].work \subseteq Keys
      BY <2>1 DEF Grows, Kept, OutboxRow
    <2> QED BY <1>1, <2>1, <2>2, HeldKept DEF Sound
  <1>2. ASSUME me.pc \in {"found", "stored", "create", "link"}
        PROVE  me.key \in Keys /\ me.key # None
    BY <1>2, OutboxConstants DEF WorkerOK, WorkerRow
  <1>3. ASSUME me.pc = "found", me.row # None PROVE exposure'[me.row].key = me.key
    <2>1. me.row \in Rows /\ exposure[me.row].key = me.key
      BY <1>3 DEF WorkerRow, Sound
    <2> QED BY <2>1, <1>2, <1>3 DEF Grows
  <1>4. ASSUME me.pc \in {"stored", "create", "link"}
        PROVE  exposure'[me.row].key = me.key /\ <<me.row, me.at>> \in evidence'
    <2>1. me.row \in Rows /\ exposure[me.row].key = me.key /\ <<me.row, me.at>> \in evidence
      BY <1>4 DEF WorkerOK, Sound
    <2> QED BY <2>1, <1>2, <1>4 DEF Grows
  <1> QED BY <1>1, <1>3, <1>4 DEF Sound

\* The worker a step is about, when it leaves the event in hand or has none.
LEMMA SoundIdle ==
  ASSUME NEW me, me.pc \in {"idle", "ready"}
  PROVE  Sound(me, outbox', exposure', evidence')
  BY DEF Sound

\* The SELECT of the lookup finds only rows of its key.
LEMMA SoundLookup ==
  ASSUME TypeOK, AppliedInv, NEW w \in Workers, Lookup(w)
  PROVE  Sound(worker'[w], outbox', exposure', evidence')
  <1>1. PICK key \in worker[w].todo :
          \E x \in IF RowsOf(key) = {} THEN {None} ELSE RowsOf(key) :
            worker' = [worker EXCEPT
                         ![w].pc = "found", ![w].key = key, ![w].row = x,
                         ![w].seen = IF x = None THEN NoExposure ELSE exposure[x]]
    BY DEF Lookup
  <1>2. PICK x :
          /\ x \in IF RowsOf(key) = {} THEN {None} ELSE RowsOf(key)
          /\ worker' = [worker EXCEPT
                         ![w].pc = "found", ![w].key = key, ![w].row = x,
                         ![w].seen = IF x = None THEN NoExposure ELSE exposure[x]]
    BY <1>1
  <1>3. x = None \/ exposure[x].key = key
    BY <1>2 DEF RowsOf
  <1>4. worker[w] \in WorkerRow /\ worker[w].pc = "finding"
    BY DEF TypeOK, Lookup
  <1>5. /\ worker'[w].pc = "found" /\ worker'[w].key = key /\ worker'[w].row = x
        /\ worker'[w].at = worker[w].at /\ worker'[w].todo = worker[w].todo
    BY <1>2, <1>4 DEF TypeOK, WorkerRow
  <1>6. Sound(worker[w], outbox, exposure, evidence)
    BY DEF AppliedInv
  <1> QED BY <1>3, <1>4, <1>5, <1>6 DEF Sound, Lookup

\* The commit of an exposure puts its match evidence beside it.
LEMMA SoundStore ==
  ASSUME TypeOK, AppliedInv, Grows, NEW w \in Workers, Store(w)
  PROVE  Sound(worker'[w], outbox', exposure', evidence')
  <1> DEFINE me == worker[w]
  <1>1. PICK class \in Classes, x \in Rows :
          /\ IF me.row = None
             THEN exposure' = [exposure EXCEPT ![x] =
                     [key |-> me.key, class |-> class, state |-> StateOf(class)]]
             ELSE x = me.row
          /\ evidence' = evidence \cup Recorded(w, x)
          /\ worker' = [worker EXCEPT ![w].pc = "stored", ![w].row = x,
                                      ![w].seen = NoExposure, ![w].locks = {}]
    BY DEF Store
  <1>2. me \in WorkerRow /\ WorkerOK(me, outbox) /\ Sound(me, outbox, exposure, evidence)
        /\ me.pc = "found"
    BY DEF TypeOK, AppliedInv, Store
  <1>3. Sound(me, outbox', exposure', evidence')
    BY <1>2, SoundKept DEF TypeOK
  <1>4. exposure'[x].key = me.key
    BY <1>1, <1>2, <1>3 DEF TypeOK, Sound
  <1>5. <<x, me.at>> \in evidence'
    BY <1>1 DEF Recorded
  <1>6. /\ worker'[w].pc = "stored" /\ worker'[w].row = x /\ worker'[w].key = me.key
        /\ worker'[w].at = me.at /\ worker'[w].todo = me.todo
    BY <1>1 DEF TypeOK, WorkerRow
  <1> QED BY <1>2, <1>3, <1>4, <1>5, <1>6 DEF Sound

\* A finding is left only when the event in hand is evidence of its exposure.
LEMMA SoundNext ==
  ASSUME TypeOK, AppliedInv, Grows, NEW w \in Workers,
         worker[w].pc \in {"stored", "create", "link"}
  PROVE  Sound(NextFinding(w), outbox', exposure', evidence')
  <1> DEFINE me == worker[w]
  <1>1. me \in WorkerRow /\ WorkerOK(me, outbox) /\ Sound(me, outbox, exposure, evidence)
    BY DEF TypeOK, AppliedInv
  <1>2. Sound(me, outbox', exposure', evidence')
    BY <1>1, SoundKept DEF TypeOK
  <1>3. Held(me.key, me.at, exposure', evidence')
    BY <1>1, <1>2 DEF Sound, Held, WorkerOK
  <1>4. /\ NextFinding(w).pc = "finding" /\ NextFinding(w).at = me.at
        /\ NextFinding(w).todo = me.todo \ {me.key}
    BY <1>1 DEF NextFinding, WorkerRow
  <1> QED BY <1>2, <1>3, <1>4 DEF Sound

LEMMA SoundWork ==
  ASSUME TypeOK, AppliedInv, Grows, NEW w \in Workers, Work(w)
  PROVE  Sound(worker'[w], outbox', exposure', evidence')
  <1> DEFINE me == worker[w]
  <1>1. me \in WorkerRow /\ WorkerOK(me, outbox) /\ Sound(me, outbox, exposure, evidence)
    BY DEF TypeOK, AppliedInv
  <1>2. Sound(me, outbox', exposure', evidence')
    BY <1>1, SoundKept DEF TypeOK
  <1>3. CASE Claim(w)
    <2>1. worker'[w].pc = "ready"
      BY <1>3 DEF Claim, TypeOK, Idle
    <2> QED BY <2>1, SoundIdle
  <1>4. CASE \E e \in Events : Complete(w, e)
    <2>1. worker'[w].pc \in {"idle", "ready"}
      BY <1>4 DEF Complete, TypeOK, Idle
    <2> QED BY <2>1, SoundIdle
  <1>5. CASE Start(w)
    <2>1. PICK e \in Events :
            /\ UNCHANGED outbox
            /\ \E todo \in Answers(outbox[e].work) :
                 worker' = [worker EXCEPT ![w].pc = "finding", ![w].at = e, ![w].todo = todo]
      BY <1>5 DEF Start
    <2>2. PICK todo \in Answers(outbox[e].work) :
            worker' = [worker EXCEPT ![w].pc = "finding", ![w].at = e, ![w].todo = todo]
      BY <2>1
    <2>3. outbox[e].work \ (todo \cup Unreachable) = {}
      BY <2>2 DEF Answers
    <2>4. worker'[w].pc = "finding" /\ worker'[w].at = e /\ worker'[w].todo = todo
      BY <1>1, <2>2 DEF TypeOK, WorkerRow
    <2> QED BY <2>1, <2>3, <2>4 DEF Sound
  <1>6. CASE Gate(w)
    <2>1. CASE WantsCase(me.row)
      <3>1. worker'[w] = [me EXCEPT !.pc = "create"]
        BY <1>6, <2>1 DEF Gate, TypeOK
      <3>2. /\ worker'[w].pc = "create" /\ worker'[w].row = me.row /\ worker'[w].key = me.key
            /\ worker'[w].at = me.at /\ worker'[w].todo = me.todo
        BY <1>1, <3>1 DEF WorkerRow
      <3> QED BY <1>2, <1>6, <3>2 DEF Sound, Gate
    <2>2. CASE ~WantsCase(me.row)
      BY <1>6, <2>2, SoundNext DEF Gate, TypeOK
    <2> QED BY <2>1, <2>2
  <1>7. CASE OpenCase(w)
    <2>1. /\ worker'[w].pc = "link" /\ worker'[w].row = me.row /\ worker'[w].key = me.key
          /\ worker'[w].at = me.at /\ worker'[w].todo = me.todo
      BY <1>1, <1>7 DEF OpenCase, TypeOK, WorkerRow
    <2> QED BY <1>2, <1>7, <2>1 DEF Sound, OpenCase
  <1>8. CASE Link(w)
    BY <1>8, SoundNext DEF Link, TypeOK
  <1>9. ASSUME Skip(w) \/ Finish(w) PROVE \E e \in Events : Complete(w, e)
    BY <1>1, <1>9 DEF Skip, Finish, WorkerOK, WorkerRow
  <1> QED BY <1>3, <1>4, <1>5, <1>6, <1>7, <1>8, <1>9, SoundLookup, SoundStore DEF Work

\* Only the end of a handler marks an evidence event delivered.
LEMMA DeliveredByFinish ==
  ASSUME TypeOK, [Next]_vars, NEW e \in Events,
         outbox'[e].kind = "evidence", outbox'[e].delivered
  PROVE  \/ outbox[e].kind = "evidence" /\ outbox[e].delivered
         \/ \E w \in Workers : Finish(w) /\ worker[w].at = e
  <1>1. ASSUME NEW f \in Events, NEW kind \in {"evidence", "other"}, NEW work \in SUBSET Keys,
               outbox' = [outbox EXCEPT ![f] = NewEvent(kind, work)]
        PROVE  outbox[e].kind = "evidence" /\ outbox[e].delivered
    <2>1. NewEvent(kind, work).delivered = FALSE
      BY DEF NewEvent, NoEvent
    <2>2. e # f
      BY <1>1, <2>1 DEF TypeOK
    <2> QED BY <1>1, <2>2 DEF TypeOK
  <1>2. CASE UNCHANGED outbox
    BY <1>2
  <1>3. ASSUME NEW f, outbox' = [outbox EXCEPT ![f].attempts = Attempted(@)]
        PROVE  outbox[e].kind = "evidence" /\ outbox[e].delivered
    BY <1>3 DEF TypeOK, OutboxRow
  <1>4. ASSUME NEW w \in Workers, NEW f \in Events, Complete(w, f), f # e
        PROVE  outbox[e].kind = "evidence" /\ outbox[e].delivered
    BY <1>4 DEF Complete, TypeOK
  <1>5. ASSUME NEW w \in Workers, Skip(w)
        PROVE  outbox[e].kind = "evidence" /\ outbox[e].delivered
    <2>1. PICK f \in Events : outbox[f].kind = "other" /\ Complete(w, f)
      BY <1>5 DEF Skip
    <2>2. f # e
      BY <2>1 DEF Complete, TypeOK, OutboxRow
    <2> QED BY <1>4, <2>1, <2>2
  <1>6. ASSUME NEW w \in Workers, Finish(w), worker[w].at # e
        PROVE  outbox[e].kind = "evidence" /\ outbox[e].delivered
    BY <1>4, <1>6 DEF Finish, TypeOK, WorkerOK, WorkerRow
  <1>7. ASSUME NEW work \in Evidence, Emit(work)
        PROVE  outbox[e].kind = "evidence" /\ outbox[e].delivered
    BY <1>1, <1>7, OutboxConstants DEF Emit
  <1>8. ASSUME NEW w \in Workers, OpenCase(w)
        PROVE  outbox[e].kind = "evidence" /\ outbox[e].delivered
    <2>1. PICK f \in Events : outbox' = [outbox EXCEPT ![f] = NewEvent("other", {})]
      BY <1>8 DEF OpenCase
    <2>2. {} \in SUBSET Keys /\ "other" \in {"evidence", "other"}
      OBVIOUS
    <2> QED BY <1>1, <2>1, <2>2
  <1>9. CASE Clients
    BY <1>2, <1>9 DEF Clients, BeginReview, Review, Move
  <1>10. ASSUME NEW w \in Workers, Fail(w)
         PROVE  outbox[e].kind = "evidence" /\ outbox[e].delivered
    BY <1>3, <1>10 DEF Fail
  <1> QED BY <1>2, <1>5, <1>6, <1>7, <1>8, <1>9, <1>10
      DEF Next, vars, Work, Claim, Start, Lookup, Store, Gate, Link, Crash

LEMMA AppliedInvStep ==
  ASSUME TypeOK, AppliedInv, [Next]_vars
  PROVE  AppliedInv'
  <1>1. Grows
    BY NextGrows
  <1>2. ASSUME NEW v \in Workers, worker'[v] = worker[v]
        PROVE  Sound(worker'[v], outbox', exposure', evidence')
    BY <1>1, <1>2, SoundKept DEF TypeOK, AppliedInv
  <1>3. ASSUME NEW v \in Workers PROVE Sound(worker'[v], outbox', exposure', evidence')
    <2>1. ASSUME NEW w \in Workers, Work(w) PROVE Sound(worker'[v], outbox', exposure', evidence')
      <3>1. CASE v = w
        BY <1>1, <2>1, <3>1, SoundWork
      <3>2. CASE v # w
        <4>1. worker'[v] = worker[v]
          BY <2>1, <3>2 DEF Work, Claim, Skip, Start, Lookup, Store, Gate, OpenCase, Link,
                            Finish, Complete, TypeOK
        <4> QED BY <1>2, <4>1
      <3> QED BY <3>1, <3>2
    <2>2. ASSUME NEW w \in Workers, Fail(w) \/ Crash(w)
          PROVE  Sound(worker'[v], outbox', exposure', evidence')
      <3>1. worker'[v] = worker[v] \/ worker'[v] = Idle
        BY <2>2 DEF Fail, Crash, TypeOK
      <3>2. Sound(Idle, outbox', exposure', evidence')
        BY SoundIdle DEF Idle
      <3> QED BY <1>2, <3>1, <3>2
    <2>3. CASE UNCHANGED worker
      BY <1>2, <2>3
    <2> QED BY <2>1, <2>2, <2>3
        DEF Next, vars, Emit, Clients, BeginReview, Review, Move
  <1>4. ASSUME NEW e \in Events, outbox[e].kind = "evidence",
               \A key \in outbox[e].work \ Unreachable : Held(key, e, exposure, evidence)
        PROVE  \A key \in outbox'[e].work \ Unreachable : Held(key, e, exposure', evidence')
    <2>1. outbox'[e].work = outbox[e].work /\ outbox[e].work \subseteq Keys
      BY <1>1, <1>4 DEF Grows, Kept, TypeOK, OutboxRow
    <2> QED BY <1>1, <1>4, <2>1, HeldKept
  <1>5. ASSUME NEW e \in Events, outbox'[e].kind = "evidence", outbox'[e].delivered
        PROVE  \A key \in outbox'[e].work \ Unreachable : Held(key, e, exposure', evidence')
    <2>1. CASE outbox[e].kind = "evidence" /\ outbox[e].delivered
      BY <1>4, <2>1 DEF AppliedInv, DeliveredUpToLookups, RowsOf, Held
    <2>2. ASSUME NEW w \in Workers, Finish(w), worker[w].at = e
          PROVE  \A key \in outbox'[e].work \ Unreachable : Held(key, e, exposure', evidence')
      <3>1. /\ Sound(worker[w], outbox, exposure, evidence) /\ WorkerOK(worker[w], outbox)
            /\ worker[w].todo = {} /\ worker[w].pc = "finding"
        BY <2>2 DEF AppliedInv, TypeOK, Finish
      <3>2. outbox[e].kind = "evidence"
        BY <2>2, <3>1 DEF WorkerOK
      <3>3. \A key \in outbox[e].work \ Unreachable : Held(key, e, exposure, evidence)
        BY <2>2, <3>1 DEF Sound
      <3> QED BY <1>4, <3>2, <3>3
    <2> QED BY <1>5, <2>1, <2>2, DeliveredByFinish
  <1>6. DeliveredUpToLookups'
    BY <1>5 DEF DeliveredUpToLookups, RowsOf, Held
  <1> QED BY <1>3, <1>6 DEF AppliedInv

LEMMA AppliedHolds == Spec => []AppliedInv
  <1>1. Init => AppliedInv
    <2> SUFFICES ASSUME Init PROVE AppliedInv
      OBVIOUS
    <2>1. \A e \in Events : outbox[e].kind = "absent"
      BY DEF Init, NoEvent
    <2>2. \A w \in Workers : worker[w].pc = "idle"
      BY DEF Init, Idle
    <2> QED BY <2>1, <2>2 DEF AppliedInv, DeliveredUpToLookups, Sound
  <1>2. TypeOK /\ AppliedInv /\ [Next]_vars => AppliedInv'
    BY AppliedInvStep
  <1> QED BY <1>1, <1>2, TypeCorrect, PTL DEF Spec

\* An evidence event is delivered only when each finding it reports has an
\* exposure with that event as evidence, or is one whose advisory lookup may fail
\* on its own: a component the lookup drops is all that is ever lost, for any
\* number of orchestrators, whatever fails, crashes or is redelivered
\* (lookup_batch, process_event, complete_event).
THEOREM OnlyLookupsLose == Spec => []DeliveredUpToLookups
  <1>1. AppliedInv => DeliveredUpToLookups
    BY DEF AppliedInv
  <1> QED BY <1>1, AppliedHolds, PTL

\* As long as no advisory lookup answers for only some of what it was asked, an
\* evidence event is delivered only when each finding it reports has an exposure
\* with that event as evidence, for any number of orchestrators, whatever fails,
\* crashes or is redelivered (process_event, complete_event).
THEOREM NothingLeftBehind ==
  ASSUME Unreachable = {}
  PROVE  Spec => []DeliveredMeansApplied
  <1>1. DeliveredUpToLookups => DeliveredMeansApplied
    BY DEF DeliveredUpToLookups, DeliveredMeansApplied, Applied
  <1> QED BY <1>1, OnlyLookupsLose, PTL

-----------------------------------------------------------------------------
(* What a single worker ensures.                                            *)

\* The identities of exposures change only when a row is inserted.
LEMMA KeysKept ==
  ASSUME TypeOK, NEW x \in Rows,
         \/ \E w \in Workers : Store(w) /\ worker[w].row # None
         \/ \E y \in Rows, verdict \in {"confirmed", "not_affected"} : Review(y, verdict)
         \/ UNCHANGED exposure
  PROVE  exposure'[x].key = exposure[x].key
  <1>1. ASSUME NEW w \in Workers, Store(w), worker[w].row # None
        PROVE  exposure'[x].key = exposure[x].key
    <2>1. PICK class \in Classes, y \in Rows :
            exposure' = [exposure EXCEPT ![y] = Refreshed(y, worker[w].seen, class)]
      BY <1>1 DEF Store
    <2>2. Refreshed(y, worker[w].seen, class).key = exposure[y].key
      BY OutboxConstants, RefreshedType
    <2> QED BY <2>1, <2>2 DEF TypeOK
  <1>2. ASSUME NEW y \in Rows, NEW verdict, Review(y, verdict)
        PROVE  exposure'[x].key = exposure[x].key
    BY <1>2 DEF Review, TypeOK, ExposureRow
  <1> QED BY <1>1, <1>2

\* The steps of a worker before and after what it does for a finding.
LEMMA OutsideFindings ==
  ASSUME TypeOK, NEW w \in Workers,
         Claim(w) \/ Skip(w) \/ Start(w) \/ Finish(w) \/ Fail(w) \/ Crash(w)
  PROVE  /\ UNCHANGED <<exposure, case>>
         /\ worker'[w].pc \in {"idle", "ready", "finding"}
         /\ \A v \in Workers \ {w} : worker'[v] = worker[v]
  <1>1. CASE Claim(w)
    BY <1>1 DEF Claim, Idle, TypeOK
  <1>2. ASSUME NEW e, Complete(w, e)
        PROVE  /\ worker'[w].pc \in {"idle", "ready"}
               /\ \A v \in Workers \ {w} : worker'[v] = worker[v]
    BY <1>2 DEF Complete, Idle, TypeOK
  <1>3. CASE Skip(w) \/ Finish(w)
    BY <1>2, <1>3 DEF Skip, Finish
  <1>4. CASE Start(w)
    <2>1. PICK e, todo :
            worker' = [worker EXCEPT ![w].pc = "finding", ![w].at = e, ![w].todo = todo]
      BY <1>4 DEF Start
    <2>2. worker'[w].pc = "finding" /\ \A v \in Workers \ {w} : worker'[v] = worker[v]
      BY <2>1 DEF TypeOK, WorkerRow
    <2> QED BY <1>4, <2>2 DEF Start
  <1>5. CASE Fail(w) \/ Crash(w)
    BY <1>5 DEF Fail, Crash, Idle, TypeOK
  <1> QED BY <1>1, <1>3, <1>4, <1>5

\* The steps of a worker on the case of a finding.
LEMMA OnTheCase ==
  ASSUME TypeOK, NEW w \in Workers, Gate(w) \/ OpenCase(w) \/ Link(w)
  PROVE  /\ UNCHANGED exposure
         /\ worker'[w].pc \in {"create", "link", "finding"}
         /\ \A v \in Workers \ {w} : worker'[v] = worker[v]
  <1>1. NextFinding(w).pc = "finding"
    BY DEF NextFinding, TypeOK, WorkerRow
  <1>2. CASE Gate(w)
    BY <1>1, <1>2 DEF Gate, TypeOK, WorkerRow
  <1>3. CASE OpenCase(w)
    <2>1. PICK c : worker' = [worker EXCEPT ![w].pc = "link", ![w].case = c]
      BY <1>3 DEF OpenCase
    <2>2. worker'[w].pc = "link" /\ \A v \in Workers \ {w} : worker'[v] = worker[v]
      BY <2>1 DEF TypeOK, WorkerRow
    <2> QED BY <1>3, <2>2 DEF OpenCase
  <1>4. CASE Link(w)
    BY <1>1, <1>4 DEF Link, TypeOK
  <1> QED BY <1>2, <1>3, <1>4

\* While the worker holds the answer "no such exposure", it stays true.
SoleInv ==
  /\ OneExposurePerKey
  /\ \A w \in Workers :
       worker[w].pc = "found" /\ worker[w].row = None => RowsOf(worker[w].key) = {}

LEMMA SoleStep ==
  ASSUME \A v, w \in Workers : v = w, TypeOK, SoleInv, [Next]_vars
  PROVE  SoleInv'
  <1>1. ASSUME \A x \in Rows : exposure'[x].key = exposure[x].key
        PROVE  /\ OneExposurePerKey'
               /\ \A key \in Keys : RowsOf(key)' = RowsOf(key)
    BY <1>1 DEF SoleInv, OneExposurePerKey, RowsOf
  <1>2. ASSUME NEW w \in Workers, worker'[w].pc # "found", OneExposurePerKey'
        PROVE  SoleInv'
    BY <1>2 DEF SoleInv
  <1>3. ASSUME UNCHANGED worker, \A x \in Rows : exposure'[x].key = exposure[x].key
        PROVE  SoleInv'
    <2>1. \A w \in Workers : worker[w].pc = "found" => worker[w].key \in Keys
      BY DEF TypeOK, WorkerRow, WorkerOK
    <2> QED BY <1>1, <1>3, <2>1 DEF SoleInv
  <1>4. ASSUME NEW w \in Workers, Store(w) PROVE SoleInv'
    <2>1. worker'[w].pc # "found"
      BY <1>4 DEF Store, TypeOK
    <2>2. CASE worker[w].row # None
      BY <1>1, <1>2, <1>4, <2>1, <2>2, KeysKept
    <2>3. CASE worker[w].row = None
      <3>1. PICK class \in Classes, x \in Rows :
              exposure' = [exposure EXCEPT ![x] =
                [key |-> worker[w].key, class |-> class, state |-> StateOf(class)]]
        BY <1>4, <2>3 DEF Store
      <3>2. \A y \in Rows : exposure[y].key # worker[w].key
        BY <1>4, <2>3 DEF Store, SoleInv, RowsOf
      <3>3. OneExposurePerKey'
        BY <3>1, <3>2 DEF SoleInv, OneExposurePerKey, TypeOK
      <3> QED BY <1>2, <2>1, <3>3
    <2> QED BY <2>2, <2>3
  <1>5. ASSUME NEW w \in Workers, Lookup(w) PROVE SoleInv'
    <2>1. PICK key \in worker[w].todo :
            \E x \in IF RowsOf(key) = {} THEN {None} ELSE RowsOf(key) :
              worker' = [worker EXCEPT
                           ![w].pc = "found", ![w].key = key, ![w].row = x,
                           ![w].seen = IF x = None THEN NoExposure ELSE exposure[x]]
      BY <1>5 DEF Lookup
    <2>2. PICK x :
            /\ x \in IF RowsOf(key) = {} THEN {None} ELSE RowsOf(key)
            /\ worker' = [worker EXCEPT
                           ![w].pc = "found", ![w].key = key, ![w].row = x,
                           ![w].seen = IF x = None THEN NoExposure ELSE exposure[x]]
      BY <2>1
    <2>3. x = None => RowsOf(key) = {}
      BY <2>2, OutboxConstants DEF RowsOf
    <2>4. worker'[w].key = key /\ worker'[w].row = x
      BY <2>2 DEF TypeOK, WorkerRow
    <2>5. UNCHANGED exposure
      BY <1>5 DEF Lookup
    <2>6. OneExposurePerKey'
      BY <1>1, <2>5
    <2>7. (worker[w].row = None => RowsOf(worker[w].key) = {})'
      BY <2>3, <2>4, <2>5 DEF RowsOf
    <2> QED BY <2>6, <2>7 DEF SoleInv
  <1>6. ASSUME NEW w \in Workers, UNCHANGED exposure, worker'[w].pc # "found"
        PROVE  SoleInv'
    BY <1>1, <1>2, <1>6
  <1>7. ASSUME NEW w \in Workers, Claim(w) \/ Skip(w) \/ Start(w) \/ Finish(w)
                                  \/ Fail(w) \/ Crash(w)
        PROVE  SoleInv'
    BY <1>6, <1>7, OutsideFindings
  <1>8. ASSUME NEW w \in Workers, Gate(w) \/ OpenCase(w) \/ Link(w) PROVE SoleInv'
    BY <1>6, <1>8, OnTheCase
  <1>9. CASE UNCHANGED <<worker, exposure>>
    BY <1>3, <1>9
  <1>10. ASSUME NEW x \in Rows, NEW verdict \in {"confirmed", "not_affected"},
                Review(x, verdict)
         PROVE  SoleInv'
    BY <1>3, <1>10, KeysKept DEF Review
  <1> QED BY <1>4, <1>5, <1>7, <1>8, <1>9, <1>10
      DEF Next, vars, Emit, Work, Clients, BeginReview, Move

\* With one orchestrator an organization, a vulnerability and a component have
\* one exposure, whatever is redelivered, fails or crashes between the lookup
\* and the insert, and whatever is reviewed meanwhile (upsert_exposure).
THEOREM OneWorkerOneExposure ==
  ASSUME \A v, w \in Workers : v = w
  PROVE  Spec => []OneExposurePerKey
  <1>1. Init => SoleInv
    BY DEF Init, SoleInv, OneExposurePerKey, NoExposure, Idle
  <1>2. TypeOK /\ SoleInv /\ [Next]_vars => SoleInv'
    BY SoleStep
  <1>3. SoleInv => OneExposurePerKey
    BY DEF SoleInv
  <1> QED BY <1>1, <1>2, <1>3, TypeCorrect, PTL DEF Spec

\* While the worker is about to open a case, nobody else has.
CaseInv ==
  /\ OneOpenCase
  /\ \A w \in Workers : worker[w].pc = "create" => OpenCases(worker[w].row) = {}

LEMMA CaseStep ==
  ASSUME \A v, w \in Workers : v = w, "reopen" \notin ClientOps, TypeOK, CaseInv, [Next]_vars
  PROVE  CaseInv'
  <1> USE DEF Listing, OpenCases
  <1>1. ASSUME \A c \in Cases : case'[c].exposure = case[c].exposure
                                /\ (case'[c].status = "open" => case[c].status = "open")
        PROVE  OneOpenCase' /\ \A x : OpenCases(x)' \subseteq OpenCases(x)
    BY <1>1 DEF CaseInv, OneOpenCase
  <1>2. ASSUME NEW w \in Workers, worker'[w].pc # "create", OneOpenCase'
        PROVE  CaseInv'
    BY <1>2 DEF CaseInv
  <1>3. ASSUME UNCHANGED worker,
               \A c \in Cases : case'[c].exposure = case[c].exposure
                                /\ (case'[c].status = "open" => case[c].status = "open")
        PROVE  CaseInv'
    BY <1>1, <1>3 DEF CaseInv
  <1>4. ASSUME NEW w \in Workers, OpenCase(w) PROVE CaseInv'
    <2>1. PICK c \in Cases :
            /\ case' = [case EXCEPT ![c] = [status |-> "open", exposure |-> worker[w].row,
                                            linked |-> FALSE]]
            /\ worker' = [worker EXCEPT ![w].pc = "link", ![w].case = c]
      BY <1>4 DEF OpenCase
    <2>2. \A d \in Cases : case[d].status = "open" => case[d].exposure # worker[w].row
      BY <1>4 DEF OpenCase, CaseInv
    <2>3. OneOpenCase'
      BY <2>1, <2>2 DEF CaseInv, OneOpenCase, TypeOK
    <2>4. worker'[w].pc # "create"
      BY <2>1 DEF TypeOK
    <2> QED BY <1>2, <2>3, <2>4
  <1>5. ASSUME NEW w \in Workers, Link(w) PROVE CaseInv'
    <2>1. \A c \in Cases : case'[c].exposure = case[c].exposure /\ case'[c].status = case[c].status
      BY <1>5 DEF Link, TypeOK, CaseRow
    <2>2. worker'[w].pc # "create"
      BY <1>5 DEF Link, NextFinding, TypeOK, WorkerRow
    <2> QED BY <1>1, <1>2, <2>1, <2>2
  <1>6. ASSUME NEW w \in Workers, Gate(w) PROVE CaseInv'
    <2>1. UNCHANGED case
      BY <1>6 DEF Gate
    <2>2. CASE WantsCase(worker[w].row)
      <3>1. worker'[w] = [worker[w] EXCEPT !.pc = "create"]
        BY <1>6, <2>2 DEF Gate, TypeOK
      <3>2. worker'[w].row = worker[w].row
        BY <3>1 DEF TypeOK, WorkerRow
      <3>3. OpenCases(worker[w].row) = {}
        BY <2>2 DEF WantsCase, Covered
      <3>4. (OpenCases(worker[w].row) = {})'
        BY <2>1, <3>2, <3>3
      <3>5. OneOpenCase'
        BY <1>1, <2>1
      <3> QED BY <3>4, <3>5 DEF CaseInv
    <2>3. CASE ~WantsCase(worker[w].row)
      <3>1. worker'[w].pc # "create"
        BY <1>6, <2>3 DEF Gate, NextFinding, TypeOK, WorkerRow
      <3> QED BY <1>1, <1>2, <2>1, <3>1
    <2> QED BY <2>2, <2>3
  <1>7. ASSUME NEW w \in Workers, UNCHANGED case, worker'[w].pc # "create"
        PROVE  CaseInv'
    BY <1>1, <1>2, <1>7
  <1>8. ASSUME NEW w \in Workers, Claim(w) \/ Skip(w) \/ Start(w) \/ Finish(w)
                                  \/ Fail(w) \/ Crash(w)
        PROVE  CaseInv'
    BY <1>7, <1>8, OutsideFindings
  <1>9. ASSUME NEW w \in Workers, Lookup(w) \/ Store(w) PROVE CaseInv'
    <2>1. CASE Lookup(w)
      BY <1>7, <2>1 DEF Lookup, TypeOK
    <2>2. CASE Store(w)
      BY <1>7, <2>2 DEF Store, TypeOK
    <2> QED BY <1>9, <2>1, <2>2
  <1>10. CASE UNCHANGED <<worker, case>>
    BY <1>3, <1>10
  <1>11. ASSUME NEW c \in Cases, Move(c, "close", "open", "closed") PROVE CaseInv'
    BY <1>3, <1>11 DEF Move, TypeOK, CaseRow
  <1>12. ASSUME NEW c \in Cases PROVE ~Move(c, "reopen", "closed", "open")
    BY DEF Move
  <1> QED BY <1>4, <1>5, <1>6, <1>7, <1>8, <1>9, <1>10, <1>11, <1>12
      DEF Next, vars, Emit, Work, Clients, BeginReview, Review

\* With one orchestrator, and as long as nobody opens a closed case again, an
\* exposure has at most one open case, although a case and its link are
\* committed apart and the handler may be repeated from any point in between
\* (_maybe_create_case).
THEOREM OneWorkerOneCase ==
  ASSUME \A v, w \in Workers : v = w, "reopen" \notin ClientOps
  PROVE  Spec => []OneOpenCase
  <1>1. Init => CaseInv
    BY DEF Init, CaseInv, OneOpenCase, NoCase, Idle
  <1>2. TypeOK /\ CaseInv /\ [Next]_vars => CaseInv'
    BY CaseStep
  <1>3. CaseInv => OneOpenCase
    BY DEF CaseInv
  <1> QED BY <1>1, <1>2, <1>3, TypeCorrect, PTL DEF Spec

-----------------------------------------------------------------------------
(* How far a race can go.                                                   *)

\* Together no more than the workers.
Within(S, T) ==
  /\ IsFiniteSet(S) /\ IsFiniteSet(T)
  /\ Cardinality(S) + Cardinality(T) <= Cardinality(Workers)

LEMMA FewerOfBoth ==
  ASSUME IsFiniteSet(Workers), NEW S, NEW T, Within(S, T), NEW A \in SUBSET S, NEW B \in SUBSET T
  PROVE  Within(A, B)
  <1>1. /\ IsFiniteSet(A) /\ Cardinality(A) <= Cardinality(S)
        /\ IsFiniteSet(B) /\ Cardinality(B) <= Cardinality(T)
    BY FS_Subset DEF Within
  <1>2. /\ Cardinality(A) \in Nat /\ Cardinality(B) \in Nat /\ Cardinality(S) \in Nat
        /\ Cardinality(T) \in Nat /\ Cardinality(Workers) \in Nat
    BY <1>1, FS_CardinalityType DEF Within
  <1> QED BY <1>1, <1>2 DEF Within

\* One more of the first for one less of the second.
LEMMA OneForTheOther ==
  ASSUME IsFiniteSet(Workers), NEW S, NEW T, Within(S, T), NEW x, NEW w \in T,
         NEW A \in SUBSET (S \cup {x}), NEW B \in SUBSET (T \ {w})
  PROVE  Within(A, B)
  <1> DEFINE S1 == S \cup {x}
             T1 == T \ {w}
  <1>1. /\ IsFiniteSet(S1) /\ Cardinality(S1) \in {Cardinality(S), Cardinality(S) + 1}
        /\ IsFiniteSet(T1) /\ Cardinality(T1) = Cardinality(T) - 1
    BY FS_AddElement, FS_RemoveElement DEF Within
  <1>2. Cardinality(S) \in Nat /\ Cardinality(T) \in Nat /\ Cardinality(Workers) \in Nat
    BY FS_CardinalityType DEF Within
  <1>3. Within(S1, T1)
    BY <1>1, <1>2 DEF Within
  <1> QED BY <1>3, FewerOfBoth

LEMMA NoneOfTheFirst ==
  ASSUME IsFiniteSet(Workers), NEW B \in SUBSET Workers
  PROVE  Within({}, B)
  <1>1. IsFiniteSet(B) /\ Cardinality(B) <= Cardinality(Workers)
    BY FS_Subset
  <1>2. IsFiniteSet({}) /\ Cardinality({}) = 0
    BY FS_EmptySet
  <1>3. Cardinality(B) \in Nat /\ Cardinality(Workers) \in Nat
    BY <1>1, FS_CardinalityType
  <1> QED BY <1>1, <1>2, <1>3 DEF Within

\* The workers that go by the answer "no such exposure".
Inserting(key) == {w \in Workers : /\ worker[w].pc = "found"
                                   /\ worker[w].key = key /\ worker[w].row = None}

\* A worker gets that answer only as long as there is none.
LEMMA InsertingStep ==
  ASSUME TypeOK, [Next]_vars, NEW key \in Keys
  PROVE  \/ Inserting(key)' \subseteq Inserting(key)
         \/ RowsOf(key) = {} /\ UNCHANGED exposure
  <1>1. ASSUME NEW w \in Workers, worker'[w].pc # "found",
               \A v \in Workers \ {w} : worker'[v] = worker[v]
        PROVE  Inserting(key)' \subseteq Inserting(key)
    BY <1>1 DEF Inserting
  <1>2. ASSUME NEW w \in Workers, Lookup(w)
        PROVE  \/ Inserting(key)' \subseteq Inserting(key)
               \/ RowsOf(key) = {} /\ UNCHANGED exposure
    <2>1. PICK k \in worker[w].todo :
            \E x \in IF RowsOf(k) = {} THEN {None} ELSE RowsOf(k) :
              worker' = [worker EXCEPT
                           ![w].pc = "found", ![w].key = k, ![w].row = x,
                           ![w].seen = IF x = None THEN NoExposure ELSE exposure[x]]
      BY <1>2 DEF Lookup
    <2>2. PICK x :
            /\ x \in IF RowsOf(k) = {} THEN {None} ELSE RowsOf(k)
            /\ worker' = [worker EXCEPT
                           ![w].pc = "found", ![w].key = k, ![w].row = x,
                           ![w].seen = IF x = None THEN NoExposure ELSE exposure[x]]
      BY <2>1
    <2>3. x = None => RowsOf(k) = {}
      BY <2>2, OutboxConstants DEF RowsOf
    <2>4. /\ worker'[w].key = k /\ worker'[w].row = x
          /\ \A v \in Workers \ {w} : worker'[v] = worker[v]
      BY <2>2 DEF TypeOK, WorkerRow
    <2> QED BY <1>2, <2>3, <2>4 DEF Inserting, Lookup
  <1>3. ASSUME NEW w \in Workers, Store(w)
        PROVE  worker'[w].pc # "found" /\ \A v \in Workers \ {w} : worker'[v] = worker[v]
    BY <1>3 DEF Store, TypeOK
  <1>4. CASE UNCHANGED worker
    BY <1>4 DEF Inserting
  <1> QED BY <1>1, <1>2, <1>3, <1>4, OutsideFindings, OnTheCase
      DEF Next, vars, Emit, Work, Clients, BeginReview, Review, Move

\* An exposure is inserted by a worker that goes by that answer.
LEMMA RowsOfStep ==
  ASSUME TypeOK, [Next]_vars, NEW key \in Keys
  PROVE  \/ RowsOf(key)' \subseteq RowsOf(key)
         \/ \E w \in Inserting(key), x \in Rows :
              /\ RowsOf(key)' \subseteq RowsOf(key) \cup {x}
              /\ Inserting(key)' \subseteq Inserting(key) \ {w}
  <1>1. ASSUME \A x \in Rows : exposure'[x].key = exposure[x].key
        PROVE  RowsOf(key)' \subseteq RowsOf(key)
    BY <1>1 DEF RowsOf
  <1>2. ASSUME NEW w \in Workers, Store(w), worker[w].row = None
        PROVE  \/ RowsOf(key)' \subseteq RowsOf(key)
               \/ \E u \in Inserting(key), x \in Rows :
                    /\ RowsOf(key)' \subseteq RowsOf(key) \cup {x}
                    /\ Inserting(key)' \subseteq Inserting(key) \ {u}
    <2>1. PICK class \in Classes, x \in Rows :
            exposure' = [exposure EXCEPT ![x] =
              [key |-> worker[w].key, class |-> class, state |-> StateOf(class)]]
      BY <1>2 DEF Store
    <2>2. worker[w].pc = "found" /\ worker'[w].pc = "stored"
          /\ \A v \in Workers \ {w} : worker'[v] = worker[v]
      BY <1>2 DEF Store, TypeOK, WorkerRow
    <2>3. CASE worker[w].key = key
      <3>1. w \in Inserting(key)
        BY <1>2, <2>2, <2>3 DEF Inserting
      <3>2. Inserting(key)' \subseteq Inserting(key) \ {w}
        BY <2>2 DEF Inserting
      <3>3. RowsOf(key)' \subseteq RowsOf(key) \cup {x}
        BY <2>1 DEF RowsOf, TypeOK
      <3> QED BY <3>1, <3>2, <3>3
    <2>4. CASE worker[w].key # key
      BY <2>1, <2>4 DEF RowsOf, TypeOK
    <2> QED BY <2>3, <2>4
  <1>3. \/ \A x \in Rows : exposure'[x].key = exposure[x].key
        \/ \E w \in Workers : Store(w) /\ worker[w].row = None
    <2>1. \/ \E w \in Workers : Store(w)
          \/ \E y \in Rows, verdict \in {"confirmed", "not_affected"} : Review(y, verdict)
          \/ UNCHANGED exposure
      BY OutsideFindings, OnTheCase
      DEF Next, vars, Emit, Work, Lookup, Clients, BeginReview, Move
    <2> QED BY <2>1, KeysKept
  <1> QED BY <1>1, <1>2, <1>3

\* Those that go by the answer may each insert an exposure.
TwinsInv == \A key \in Keys : Within(RowsOf(key), Inserting(key))

LEMMA TwinsStep ==
  ASSUME IsFiniteSet(Workers), TypeOK, TwinsInv, [Next]_vars
  PROVE  TwinsInv'
  <1> SUFFICES ASSUME NEW key \in Keys PROVE Within(RowsOf(key), Inserting(key))'
    BY DEF TwinsInv
  <1> SUFFICES Within(RowsOf(key)', Inserting(key)')
    BY DEF Within
  <1>1. Within(RowsOf(key), Inserting(key))
    BY DEF TwinsInv
  <1>2. CASE RowsOf(key) = {} /\ UNCHANGED exposure
    <2>1. RowsOf(key)' = {} /\ Inserting(key)' \in SUBSET Workers
      BY <1>2 DEF RowsOf, Inserting
    <2> QED BY <2>1, NoneOfTheFirst
  <1>3. CASE RowsOf(key)' \subseteq RowsOf(key) /\ Inserting(key)' \subseteq Inserting(key)
    BY <1>1, <1>3, FewerOfBoth
  <1>4. ASSUME NEW w \in Inserting(key), NEW x,
               RowsOf(key)' \subseteq RowsOf(key) \cup {x},
               Inserting(key)' \subseteq Inserting(key) \ {w}
        PROVE  Within(RowsOf(key)', Inserting(key)')
    <2> DEFINE A == RowsOf(key)'
               B == Inserting(key)'
               S == RowsOf(key)
               T == Inserting(key)
    <2>1. A \in SUBSET (S \cup {x}) /\ B \in SUBSET (T \ {w}) /\ w \in T /\ Within(S, T)
      BY <1>1, <1>4
    <2> HIDE DEF A, B, S, T
    <2>2. Within(A, B)
      BY <2>1, OneForTheOther
    <2> QED BY <2>2 DEF A, B
  <1>5. \/ Inserting(key)' \subseteq Inserting(key)
        \/ RowsOf(key) = {} /\ UNCHANGED exposure
    BY InsertingStep
  <1>6. \/ RowsOf(key)' \subseteq RowsOf(key)
        \/ \E w \in Inserting(key), x \in Rows :
             /\ RowsOf(key)' \subseteq RowsOf(key) \cup {x}
             /\ Inserting(key)' \subseteq Inserting(key) \ {w}
    BY RowsOfStep
  <1> QED BY <1>2, <1>3, <1>4, <1>5, <1>6, Zenon

\* An organization has at most as many exposures for a vulnerability and a
\* component as there are orchestrators.
FewExposuresPerKey ==
  \A key \in Keys :
    IsFiniteSet(RowsOf(key)) /\ Cardinality(RowsOf(key)) <= Cardinality(Workers)

\* The duplicates that the look-up and the insert of upsert_exposure let in are
\* bounded by the orchestrators that can race: once there is an exposure, no
\* redelivery, failure or crash adds to those already on their way.
THEOREM FewTwinExposures ==
  ASSUME IsFiniteSet(Workers)
  PROVE  Spec => []FewExposuresPerKey
  <1>1. Init => TwinsInv
    <2> SUFFICES ASSUME Init, NEW key \in Keys PROVE Within(RowsOf(key), Inserting(key))
      BY DEF TwinsInv
    <2>1. RowsOf(key) = {} /\ Inserting(key) \in SUBSET Workers
      BY OutboxConstants DEF Init, RowsOf, NoExposure, Inserting
    <2> QED BY <2>1, NoneOfTheFirst
  <1>2. TypeOK /\ TwinsInv /\ [Next]_vars => TwinsInv'
    BY TwinsStep
  <1>3. TwinsInv => FewExposuresPerKey
    <2> SUFFICES ASSUME TwinsInv, NEW key \in Keys
                 PROVE  IsFiniteSet(RowsOf(key)) /\ Cardinality(RowsOf(key)) <= Cardinality(Workers)
      BY DEF FewExposuresPerKey
    <2>1. Within(RowsOf(key), Inserting(key))
      BY DEF TwinsInv
    <2>2. /\ Cardinality(RowsOf(key)) \in Nat /\ Cardinality(Inserting(key)) \in Nat
          /\ Cardinality(Workers) \in Nat
      BY <2>1, FS_CardinalityType DEF Within
    <2> QED BY <2>1, <2>2 DEF Within
  <1> QED BY <1>1, <1>2, <1>3, TypeCorrect, PTL DEF Spec

\* The workers that are about to open a case for an exposure.
Opening(x) == {w \in Workers : worker[w].pc = "create" /\ worker[w].row = x}

\* A worker gets there only as long as the exposure has no open case.
LEMMA OpeningStep ==
  ASSUME TypeOK, [Next]_vars, NEW x \in Rows
  PROVE  \/ Opening(x)' \subseteq Opening(x)
         \/ OpenCases(x) = {} /\ UNCHANGED case
  <1>1. ASSUME NEW w \in Workers, worker'[w].pc # "create",
               \A v \in Workers \ {w} : worker'[v] = worker[v]
        PROVE  Opening(x)' \subseteq Opening(x)
    BY <1>1 DEF Opening
  <1>2. ASSUME NEW w \in Workers, Gate(w)
        PROVE  \/ Opening(x)' \subseteq Opening(x)
               \/ OpenCases(x) = {} /\ UNCHANGED case
    <2>1. \A v \in Workers \ {w} : worker'[v] = worker[v]
      BY <1>2, OnTheCase
    <2>2. CASE WantsCase(worker[w].row)
      <3>1. worker'[w] = [worker[w] EXCEPT !.pc = "create"]
        BY <1>2, <2>2 DEF Gate, TypeOK
      <3>2. worker'[w].row = worker[w].row
        BY <3>1 DEF TypeOK, WorkerRow
      <3>3. OpenCases(worker[w].row) = {} /\ UNCHANGED case
        BY <1>2, <2>2 DEF WantsCase, Covered, Gate
      <3> QED BY <2>1, <3>2, <3>3 DEF Opening
    <2>3. CASE ~WantsCase(worker[w].row)
      <3>1. worker'[w].pc # "create"
        BY <1>2, <2>3 DEF Gate, NextFinding, TypeOK, WorkerRow
      <3> QED BY <1>1, <2>1, <3>1
    <2> QED BY <2>2, <2>3
  <1>3. ASSUME NEW w \in Workers, OpenCase(w) \/ Link(w)
        PROVE  worker'[w].pc # "create" /\ \A v \in Workers \ {w} : worker'[v] = worker[v]
    <2>1. CASE OpenCase(w)
      <3>1. PICK c : worker' = [worker EXCEPT ![w].pc = "link", ![w].case = c]
        BY <2>1 DEF OpenCase
      <3> QED BY <3>1 DEF TypeOK, WorkerRow
    <2>2. CASE Link(w)
      BY <2>2 DEF Link, NextFinding, TypeOK, WorkerRow
    <2> QED BY <1>3, <2>1, <2>2
  <1>4. ASSUME NEW w \in Workers, Lookup(w) \/ Store(w)
        PROVE  worker'[w].pc # "create" /\ \A v \in Workers \ {w} : worker'[v] = worker[v]
    <2>1. CASE Lookup(w)
      BY <2>1 DEF Lookup, TypeOK
    <2>2. CASE Store(w)
      BY <2>2 DEF Store, TypeOK
    <2> QED BY <1>4, <2>1, <2>2
  <1>5. CASE UNCHANGED worker
    BY <1>5 DEF Opening
  <1>6. ASSUME NEW w \in Workers, Claim(w) \/ Skip(w) \/ Start(w) \/ Finish(w) \/ Fail(w) \/ Crash(w)
        PROVE  Opening(x)' \subseteq Opening(x)
    <2>1. worker'[w].pc # "create" /\ \A v \in Workers \ {w} : worker'[v] = worker[v]
      BY <1>6, OutsideFindings
    <2> QED BY <1>1, <2>1
  <1> QED BY <1>1, <1>2, <1>3, <1>4, <1>5, <1>6
      DEF Next, vars, Emit, Work, Clients, BeginReview, Review, Move

\* A case is opened by a worker that was about to, unless it is opened again.
LEMMA OpenCasesStep ==
  ASSUME "reopen" \notin ClientOps, TypeOK, [Next]_vars, NEW x \in Rows
  PROVE  \/ OpenCases(x)' \subseteq OpenCases(x)
         \/ \E w \in Opening(x), c \in Cases :
              /\ OpenCases(x)' \subseteq OpenCases(x) \cup {c}
              /\ Opening(x)' \subseteq Opening(x) \ {w}
  <1>1. ASSUME \A c \in Cases : case'[c].exposure = case[c].exposure
                                /\ (case'[c].status = "open" => case[c].status = "open")
        PROVE  OpenCases(x)' \subseteq OpenCases(x)
    BY <1>1 DEF OpenCases, Listing
  <1>2. ASSUME NEW w \in Workers, OpenCase(w)
        PROVE  \/ OpenCases(x)' \subseteq OpenCases(x)
               \/ \E u \in Opening(x), c \in Cases :
                    /\ OpenCases(x)' \subseteq OpenCases(x) \cup {c}
                    /\ Opening(x)' \subseteq Opening(x) \ {u}
    <2>1. PICK c \in Cases :
            /\ case' = [case EXCEPT ![c] = [status |-> "open", exposure |-> worker[w].row,
                                            linked |-> FALSE]]
            /\ worker' = [worker EXCEPT ![w].pc = "link", ![w].case = c]
      BY <1>2 DEF OpenCase
    <2>2. /\ worker[w].pc = "create" /\ worker'[w].pc = "link"
          /\ \A v \in Workers \ {w} : worker'[v] = worker[v]
      BY <1>2, <2>1 DEF OpenCase, TypeOK, WorkerRow
    <2>3. CASE worker[w].row = x
      <3>1. w \in Opening(x) /\ Opening(x)' \subseteq Opening(x) \ {w}
        BY <2>2, <2>3 DEF Opening
      <3>2. OpenCases(x)' \subseteq OpenCases(x) \cup {c}
        BY <2>1 DEF OpenCases, Listing, TypeOK
      <3> QED BY <3>1, <3>2
    <2>4. CASE worker[w].row # x
      BY <2>1, <2>4 DEF OpenCases, Listing, TypeOK
    <2> QED BY <2>3, <2>4
  <1>3. ASSUME NEW c \in Cases, Move(c, "close", "open", "closed")
        PROVE  OpenCases(x)' \subseteq OpenCases(x)
    BY <1>1, <1>3 DEF Move, TypeOK, CaseRow
  <1>4. ASSUME NEW c \in Cases PROVE ~Move(c, "reopen", "closed", "open")
    BY DEF Move
  <1>5. ASSUME NEW w \in Workers, Link(w) PROVE OpenCases(x)' \subseteq OpenCases(x)
    <2>1. \A c \in Cases : case'[c].exposure = case[c].exposure /\ case'[c].status = case[c].status
      BY <1>5 DEF Link, TypeOK, CaseRow
    <2> QED BY <1>1, <2>1
  <1>6. CASE UNCHANGED case
    BY <1>1, <1>6
  <1> QED BY <1>2, <1>3, <1>4, <1>5, <1>6, OutsideFindings
      DEF Next, vars, Emit, Work, Lookup, Store, Gate, Clients, BeginReview, Review

CasesInv == \A x \in Rows : Within(OpenCases(x), Opening(x))

LEMMA CasesStep ==
  ASSUME IsFiniteSet(Workers), "reopen" \notin ClientOps, TypeOK, CasesInv, [Next]_vars
  PROVE  CasesInv'
  <1> SUFFICES ASSUME NEW x \in Rows PROVE Within(OpenCases(x), Opening(x))'
    BY DEF CasesInv
  <1> SUFFICES Within(OpenCases(x)', Opening(x)')
    BY DEF Within
  <1>1. Within(OpenCases(x), Opening(x))
    BY DEF CasesInv
  <1>2. CASE OpenCases(x) = {} /\ UNCHANGED case
    <2>1. OpenCases(x)' = {} /\ Opening(x)' \in SUBSET Workers
      BY <1>2 DEF OpenCases, Listing, Opening
    <2> QED BY <2>1, NoneOfTheFirst
  <1>3. CASE OpenCases(x)' \subseteq OpenCases(x) /\ Opening(x)' \subseteq Opening(x)
    BY <1>1, <1>3, FewerOfBoth
  <1>4. ASSUME NEW w \in Opening(x), NEW c,
               OpenCases(x)' \subseteq OpenCases(x) \cup {c},
               Opening(x)' \subseteq Opening(x) \ {w}
        PROVE  Within(OpenCases(x)', Opening(x)')
    <2> DEFINE A == OpenCases(x)'
               B == Opening(x)'
               S == OpenCases(x)
               T == Opening(x)
    <2>1. A \in SUBSET (S \cup {c}) /\ B \in SUBSET (T \ {w}) /\ w \in T /\ Within(S, T)
      BY <1>1, <1>4
    <2> HIDE DEF A, B, S, T
    <2>2. Within(A, B)
      BY <2>1, OneForTheOther
    <2> QED BY <2>2 DEF A, B
  <1>5. \/ Opening(x)' \subseteq Opening(x)
        \/ OpenCases(x) = {} /\ UNCHANGED case
    BY OpeningStep
  <1>6. \/ OpenCases(x)' \subseteq OpenCases(x)
        \/ \E w \in Opening(x), c \in Cases :
             /\ OpenCases(x)' \subseteq OpenCases(x) \cup {c}
             /\ Opening(x)' \subseteq Opening(x) \ {w}
    BY OpenCasesStep
  <1> QED BY <1>2, <1>3, <1>4, <1>5, <1>6, Zenon

\* An exposure has at most as many open cases as there are orchestrators.
FewOpenCases ==
  \A x \in Rows :
    IsFiniteSet(OpenCases(x)) /\ Cardinality(OpenCases(x)) <= Cardinality(Workers)

\* As long as nobody opens a closed case again, the cases that _maybe_create_case
\* opens twice, between its look at the link table and the commit of a case, are
\* bounded by the orchestrators that can race.
THEOREM FewTwinCases ==
  ASSUME IsFiniteSet(Workers), "reopen" \notin ClientOps
  PROVE  Spec => []FewOpenCases
  <1>1. Init => CasesInv
    <2> SUFFICES ASSUME Init, NEW x \in Rows PROVE Within(OpenCases(x), Opening(x))
      BY DEF CasesInv
    <2>1. OpenCases(x) = {} /\ Opening(x) \in SUBSET Workers
      BY DEF Init, OpenCases, Listing, NoCase, Opening
    <2> QED BY <2>1, NoneOfTheFirst
  <1>2. TypeOK /\ CasesInv /\ [Next]_vars => CasesInv'
    BY CasesStep
  <1>3. CasesInv => FewOpenCases
    <2> SUFFICES ASSUME CasesInv, NEW x \in Rows
                 PROVE  IsFiniteSet(OpenCases(x)) /\ Cardinality(OpenCases(x)) <= Cardinality(Workers)
      BY DEF FewOpenCases
    <2>1. Within(OpenCases(x), Opening(x))
      BY DEF CasesInv
    <2>2. /\ Cardinality(OpenCases(x)) \in Nat /\ Cardinality(Opening(x)) \in Nat
          /\ Cardinality(Workers) \in Nat
      BY <2>1, FS_CardinalityType DEF Within
    <2> QED BY <2>1, <2>2 DEF Within
  <1> QED BY <1>1, <1>2, <1>3, TypeCorrect, PTL DEF Spec

-----------------------------------------------------------------------------
(* State and class.                                                         *)

\* The classes of which each has a state of its own.
Graded == MatchClasses \ {"deterministic"}

LEMMA StatesTellApart ==
  ASSUME NEW a \in Graded, NEW b \in Graded, StateOf(a) = StateOf(b)
  PROVE  a = b
  BY DEF Graded, MatchClasses, CaseClasses, StateOf

Agree(row) == row.class \in Graded /\ row.state = StateOf(row.class)

\* Row and snapshot both agree, if at different times.
GradedInv ==
  /\ \A x \in Rows : exposure[x].key # None => Agree(exposure[x])
  /\ \A w \in Workers : worker[w].pc = "found" /\ worker[w].row # None
       => exposure[worker[w].row].key # None /\ Agree(worker[w].seen)

LEMMA RefreshedAgrees ==
  ASSUME TypeOK, NEW x \in Rows, NEW seen, NEW class \in Graded,
         Agree(exposure[x]), Agree(seen)
  PROVE  Agree(Refreshed(x, seen, class))
  <1>1. exposure[x] \in ExposureRow
    BY DEF TypeOK
  <1>2. CASE class = seen.class
    BY <1>1, <1>2 DEF Agree, Refreshed, ExposureRow
  <1>3. CASE class # seen.class
    <2>1. StateOf(class) # seen.state
      BY <1>3, StatesTellApart DEF Agree
    <2> QED BY <1>1, <1>3, <2>1 DEF Agree, Refreshed, ExposureRow
  <1> QED BY <1>2, <1>3

LEMMA GradedStore ==
  ASSUME "deterministic" \notin Classes, TypeOK, GradedInv, NEW w \in Workers, Store(w)
  PROVE  /\ worker'[w].pc # "found"
         /\ \A y \in Rows : exposure'[y].key # None => Agree(exposure'[y])
  <1>1. PICK class \in Classes, x \in Rows :
          IF worker[w].row = None
          THEN exposure' = [exposure EXCEPT ![x] =
                  [key |-> worker[w].key, class |-> class, state |-> StateOf(class)]]
          ELSE /\ x = worker[w].row
               /\ exposure' = [exposure EXCEPT ![x] =
                                 Refreshed(x, worker[w].seen, class)]
    BY DEF Store
  <1>2. class \in Graded
    BY OutboxConstants DEF Graded
  <1>3. worker'[w].pc # "found"
    BY DEF Store, TypeOK
  <1>4. Agree(exposure'[x])
    <2>1. CASE worker[w].row = None
      BY <1>1, <1>2, <2>1 DEF Agree, TypeOK
    <2>2. CASE worker[w].row # None
      <3>1. Agree(exposure[x]) /\ Agree(worker[w].seen)
        BY <1>1, <2>2 DEF Store, GradedInv
      <3>2. exposure'[x] = Refreshed(x, worker[w].seen, class)
        BY <1>1, <2>2 DEF TypeOK
      <3> QED BY <1>2, <3>1, <3>2, RefreshedAgrees
    <2> QED BY <2>1, <2>2
  <1>5. \A y \in Rows \ {x} : exposure'[y] = exposure[y]
    BY <1>1 DEF TypeOK
  <1> QED BY <1>3, <1>4, <1>5 DEF GradedInv

LEMMA GradedStep ==
  ASSUME "deterministic" \notin Classes, TypeOK, GradedInv, [Next]_vars
  PROVE  GradedInv'
  <1>1. \A x \in Rows : exposure[x].key # None => exposure'[x].key # None
    BY IdentityKept
  <1>2. ASSUME \A x \in Rows : exposure'[x].key # None => Agree(exposure'[x]),
               \A v \in Workers : worker'[v] = worker[v] \/ worker'[v].pc # "found"
        PROVE  GradedInv'
    <2>1. \A v \in Workers : worker[v].row \in Rows \cup {None}
      BY DEF TypeOK, WorkerRow
    <2> QED BY <1>1, <1>2, <2>1 DEF GradedInv
  <1>3. ASSUME NEW w \in Workers, Store(w) PROVE GradedInv'
    <2>1. \A v \in Workers \ {w} : worker'[v] = worker[v]
      BY <1>3 DEF Store, TypeOK
    <2> QED BY <1>2, <1>3, <2>1, GradedStore
  <1>4. ASSUME NEW w \in Workers, Lookup(w) PROVE GradedInv'
    <2>1. PICK key \in worker[w].todo :
            \E x \in IF RowsOf(key) = {} THEN {None} ELSE RowsOf(key) :
              worker' = [worker EXCEPT
                           ![w].pc = "found", ![w].key = key, ![w].row = x,
                           ![w].seen = IF x = None THEN NoExposure ELSE exposure[x]]
      BY <1>4 DEF Lookup
    <2>2. PICK x :
            /\ x \in IF RowsOf(key) = {} THEN {None} ELSE RowsOf(key)
            /\ worker' = [worker EXCEPT
                           ![w].pc = "found", ![w].key = key, ![w].row = x,
                           ![w].seen = IF x = None THEN NoExposure ELSE exposure[x]]
      BY <2>1
    <2>3. UNCHANGED exposure /\ key # None
      BY <1>4, <2>1, OutboxConstants DEF Lookup, TypeOK, WorkerRow
    <2>4. x # None => x \in Rows /\ exposure[x].key # None
      BY <2>2, <2>3 DEF RowsOf
    <2>5. worker'[w].row = x /\ (x # None => worker'[w].seen = exposure[x])
      BY <2>2 DEF TypeOK, WorkerRow
    <2>6. \A v \in Workers \ {w} : worker'[v] = worker[v]
      BY <2>2 DEF TypeOK
    <2>7. worker'[w].row # None => exposure'[worker'[w].row].key # None /\ Agree(worker'[w].seen)
      BY <2>3, <2>4, <2>5 DEF GradedInv
    <2> QED BY <2>3, <2>6, <2>7 DEF GradedInv
  <1>5. ASSUME NEW w \in Workers, Claim(w) \/ Skip(w) \/ Start(w) \/ Gate(w) \/ OpenCase(w)
                                  \/ Link(w) \/ Finish(w) \/ Fail(w) \/ Crash(w)
        PROVE  GradedInv'
    <2>1. UNCHANGED exposure /\ worker'[w].pc # "found"
          /\ \A v \in Workers \ {w} : worker'[v] = worker[v]
      BY <1>5, OutsideFindings, OnTheCase
    <2> QED BY <1>2, <2>1 DEF GradedInv
  <1>6. ASSUME NEW x \in Rows, NEW verdict \in {"confirmed", "not_affected"},
               Review(x, verdict)
        PROVE  GradedInv'
    <2>1. exposure'[x] = [exposure[x] EXCEPT !.class = verdict, !.state = StateOf(verdict)]
      BY <1>6 DEF Review, TypeOK
    <2>2. Agree(exposure'[x])
      BY <2>1 DEF Agree, Graded, MatchClasses, CaseClasses, TypeOK, ExposureRow
    <2>3. \A y \in Rows \ {x} : exposure'[y] = exposure[y]
      BY <1>6 DEF Review, TypeOK
    <2>4. UNCHANGED worker
      BY <1>6 DEF Review
    <2> QED BY <1>2, <2>2, <2>3, <2>4 DEF GradedInv
  <1>7. CASE UNCHANGED <<worker, exposure>>
    BY <1>2, <1>7 DEF GradedInv
  <1> QED BY <1>3, <1>4, <1>5, <1>6, <1>7
      DEF Next, vars, Emit, Work, Clients, BeginReview, Move

\* As long as the matcher does not use both of the classes that stand for an
\* active exposure, state and class never come apart, for any number of
\* orchestrators and reviews: each writes either both columns or neither
\* (upsert_exposure, review_exposure).
THEOREM StatesAgree ==
  ASSUME "deterministic" \notin Classes
  PROVE  Spec => []StateFollowsClass
  <1>1. Init => GradedInv
    BY DEF Init, GradedInv, NoExposure, Idle
  <1>2. TypeOK /\ GradedInv /\ [Next]_vars => GradedInv'
    BY GradedStep
  <1>3. GradedInv => StateFollowsClass
    BY DEF GradedInv, Agree, StateFollowsClass
  <1> QED BY <1>1, <1>2, <1>3, TypeCorrect, PTL DEF Spec
-----------------------------------------------------------------------------
(* The workers implement the queue.                                         *)

\* What a lone worker has claimed stays claimable until it is done with it;
\* evidence is of stored exposures, events without a handler report nothing, and
\* only rows that are there have failed.
QueueInv ==
  /\ (\A v, w \in Workers : v = w) =>
       \A w \in Workers : \A e \in worker[w].batch : Claimable(e)
  /\ \A x \in Rows, e \in Events : <<x, e>> \in evidence => exposure[x].key # None
  /\ \A e \in Events : outbox[e].kind = "other" => outbox[e].work = {}
  /\ \A e \in Events : outbox[e].kind = "absent" => outbox[e].attempts = 0

\* The rows of the outbox after an insert.
LEMMA InsertedRow ==
  ASSUME TypeOK, NEW e \in Events, NEW kind \in {"evidence", "other"},
         NEW work \in SUBSET Keys, NextEvent(e),
         outbox' = [outbox EXCEPT ![e] = NewEvent(kind, work)]
  PROVE  /\ outbox[e].kind = "absent"
         /\ outbox'[e].kind = kind /\ outbox'[e].work = work
         /\ outbox'[e].attempts = 0 /\ outbox'[e].delivered = FALSE
         /\ \A f \in Events \ {e} : outbox'[f] = outbox[f]
  <1>1. outbox[e].kind = "absent"
    BY DEF NextEvent
  <1>2. outbox'[e] = NewEvent(kind, work) /\ \A f \in Events \ {e} : outbox'[f] = outbox[f]
    BY DEF TypeOK
  <1>3. /\ NewEvent(kind, work).kind = kind /\ NewEvent(kind, work).work = work
        /\ NewEvent(kind, work).attempts = 0 /\ NewEvent(kind, work).delivered = FALSE
    BY DEF NewEvent, NoEvent
  <1> QED BY <1>1, <1>2, <1>3

\* What is claimable stays so, but for the event in hand.
LEMMA ClaimableKept ==
  ASSUME TypeOK, [Next]_vars, NEW e \in Events, Claimable(e)
  PROVE  \/ Claimable(e)'
         \/ \E w \in Workers, f \in Events : f = e /\ Complete(w, f)
         \/ \E w \in Workers : Fail(w) /\ worker[w].at = e
  <1>1. ASSUME NEW f \in Events, NEW kind \in {"evidence", "other"},
               NEW work \in SUBSET Keys, NextEvent(f),
               outbox' = [outbox EXCEPT ![f] = NewEvent(kind, work)]
        PROVE  Claimable(e)'
    BY <1>1, InsertedRow DEF Claimable
  <1>2. ASSUME NEW work \in Evidence, Emit(work) PROVE Claimable(e)'
    BY <1>1, <1>2, OutboxConstants DEF Emit
  <1>3. ASSUME NEW w \in Workers, OpenCase(w) PROVE Claimable(e)'
    <2>1. PICK f \in Events :
            NextEvent(f) /\ outbox' = [outbox EXCEPT ![f] = NewEvent("other", {})]
      BY <1>3 DEF OpenCase
    <2>2. {} \in SUBSET Keys /\ "other" \in {"evidence", "other"}
      OBVIOUS
    <2> QED BY <1>1, <2>1, <2>2
  <1>4. ASSUME NEW w \in Workers, NEW f \in Events, Complete(w, f), f # e
        PROVE  Claimable(e)'
    BY <1>4 DEF Complete, Claimable, TypeOK
  <1>5. ASSUME NEW w \in Workers, Fail(w), worker[w].at # e
        PROVE  Claimable(e)'
    BY <1>5 DEF Fail, Claimable, TypeOK
  <1>6. CASE UNCHANGED outbox
    BY <1>6 DEF Claimable
  <1>7. ASSUME NEW w \in Workers, Skip(w) \/ Finish(w)
        PROVE  \E f \in Events : Complete(w, f)
    BY <1>7 DEF Skip, Finish, TypeOK, WorkerOK, WorkerRow
  <1> QED BY <1>2, <1>3, <1>4, <1>5, <1>6, <1>7
      DEF Next, vars, Work, Claim, Start, Lookup, Store, Gate, Link, Crash, Clients,
          BeginReview, Review, Move

LEMMA BatchStep ==
  ASSUME TypeOK, [Next]_vars, NEW w \in Workers, NEW e \in worker'[w].batch
  PROVE  \/ e \in worker[w].batch
         \/ Claimable(e) /\ UNCHANGED outbox
  <1>1. ASSUME NEW v \in Workers, Claim(v)
        PROVE  \/ e \in worker[w].batch
               \/ Claimable(e) /\ UNCHANGED outbox
    <2>1. PICK batch \in SUBSET {f \in Events : Claimable(f)} :
            worker' = [worker EXCEPT ![v] =
                         [Idle EXCEPT !.pc = "ready", !.batch = batch, !.locks = batch]]
      BY <1>1, Zenon DEF Claim
    <2>2. [Idle EXCEPT !.pc = "ready", !.batch = batch, !.locks = batch].batch = batch
      BY DEF Idle
    <2>3. worker'[w].batch \in {batch, worker[w].batch} /\ UNCHANGED outbox
      BY <1>1, <2>1, <2>2 DEF Claim, TypeOK
    <2> QED BY <2>1, <2>3
  <1>2. ASSUME NEW v \in Workers, NEW f, Complete(v, f)
        PROVE  worker'[w].batch \subseteq worker[w].batch
    BY <1>2 DEF Complete, Idle, TypeOK
  <1>3. ASSUME NEW v \in Workers, Fail(v) \/ Crash(v)
        PROVE  worker'[w].batch \subseteq worker[w].batch
    BY <1>3 DEF Fail, Crash, Idle, TypeOK
  <1>4. ASSUME NEW v \in Workers, NEW me, me.batch = worker[v].batch,
               worker' = [worker EXCEPT ![v] = me]
        PROVE  worker'[w].batch = worker[w].batch
    BY <1>4 DEF TypeOK
  <1>5. ASSUME NEW v \in Workers, Start(v) PROVE worker'[w].batch = worker[w].batch
    <2>1. PICK f, todo :
            worker' = [worker EXCEPT ![v].pc = "finding", ![v].at = f, ![v].todo = todo]
      BY <1>5 DEF Start
    <2> QED BY <2>1 DEF TypeOK, WorkerRow
  <1>6. ASSUME NEW v \in Workers, Lookup(v) PROVE worker'[w].batch = worker[w].batch
    <2>1. PICK key, x, seen :
            worker' = [worker EXCEPT ![v].pc = "found", ![v].key = key, ![v].row = x,
                                     ![v].seen = seen]
      BY <1>6 DEF Lookup
    <2> QED BY <2>1 DEF TypeOK, WorkerRow
  <1>7. ASSUME NEW v \in Workers, Store(v) PROVE worker'[w].batch = worker[w].batch
    <2>1. PICK x :
            worker' = [worker EXCEPT ![v].pc = "stored", ![v].row = x,
                                     ![v].seen = NoExposure, ![v].locks = {}]
      BY <1>7 DEF Store
    <2> QED BY <2>1 DEF TypeOK, WorkerRow
  <1>8. ASSUME NEW v \in Workers, OpenCase(v) PROVE worker'[w].batch = worker[w].batch
    <2>1. PICK c : worker' = [worker EXCEPT ![v].pc = "link", ![v].case = c]
      BY <1>8 DEF OpenCase
    <2> QED BY <2>1 DEF TypeOK, WorkerRow
  <1>9. ASSUME NEW v \in Workers, Gate(v) \/ Link(v) PROVE worker'[w].batch = worker[w].batch
    <2>1. NextFinding(v).batch = worker[v].batch
          /\ [worker[v] EXCEPT !.pc = "create"].batch = worker[v].batch
      BY DEF NextFinding, TypeOK, WorkerRow
    <2>2. PICK me \in {NextFinding(v), [worker[v] EXCEPT !.pc = "create"]} :
            worker' = [worker EXCEPT ![v] = me]
      BY <1>9, Zenon DEF Gate, Link, TypeOK
    <2> QED BY <1>4, <2>1, <2>2
  <1>10. CASE UNCHANGED worker
    BY <1>10
  <1> QED BY <1>1, <1>2, <1>3, <1>5, <1>6, <1>7, <1>8, <1>9, <1>10
      DEF Next, vars, Emit, Work, Skip, Finish, Clients, BeginReview, Review, Move


LEMMA OthersReportNothing ==
  ASSUME TypeOK, QueueInv, [Next]_vars, NEW e \in Events, outbox'[e].kind = "other"
  PROVE  outbox'[e].work = {}
  <1>1. CASE outbox[e].kind # "absent"
    BY <1>1, OutboxKept DEF Kept, QueueInv
  <1>2. ASSUME outbox[e].kind = "absent", NEW f \in Events, NEW kind \in {"evidence", "other"},
               NEW work \in SUBSET Keys, NextEvent(f), kind = "other" => work = {},
               outbox' = [outbox EXCEPT ![f] = NewEvent(kind, work)]
        PROVE  outbox'[e].work = {}
    BY <1>2, InsertedRow
  <1>3. ASSUME outbox[e].kind = "absent", NEW work \in Evidence, Emit(work)
        PROVE  outbox'[e].work = {}
    BY <1>2, <1>3, OutboxConstants DEF Emit
  <1>4. ASSUME outbox[e].kind = "absent", NEW w \in Workers, OpenCase(w)
        PROVE  outbox'[e].work = {}
    <2>1. PICK f \in Events :
            NextEvent(f) /\ outbox' = [outbox EXCEPT ![f] = NewEvent("other", {})]
      BY <1>4 DEF OpenCase
    <2>2. {} \in SUBSET Keys /\ "other" \in {"evidence", "other"}
      OBVIOUS
    <2> QED BY <1>2, <1>4, <2>1, <2>2
  <1>5. ASSUME NEW f, outbox' = [outbox EXCEPT ![f].delivered = TRUE]
        PROVE  outbox'[e].kind = outbox[e].kind
    BY <1>5 DEF TypeOK, OutboxRow
  <1>6. ASSUME NEW f, outbox' = [outbox EXCEPT ![f].attempts = Attempted(@)]
        PROVE  outbox'[e].kind = outbox[e].kind
    BY <1>6 DEF TypeOK, OutboxRow
  <1> QED BY <1>1, <1>3, <1>4, <1>5, <1>6
      DEF Next, vars, Work, Claim, Skip, Start, Lookup, Store, Gate, Link, Finish, Complete,
          Fail, Crash, Clients, BeginReview, Review, Move

LEMMA AbsentNeverFailed ==
  ASSUME TypeOK, QueueInv, [Next]_vars, NEW e \in Events, outbox'[e].kind = "absent"
  PROVE  outbox'[e].attempts = 0
  <1>1. outbox[e].kind = "absent" /\ outbox[e].attempts = 0
    BY OutboxKept DEF Kept, QueueInv
  <1>2. ASSUME NEW f \in Events, NEW kind \in {"evidence", "other"}, NEW work \in SUBSET Keys,
               NextEvent(f), outbox' = [outbox EXCEPT ![f] = NewEvent(kind, work)]
        PROVE  outbox'[e].attempts = 0
    BY <1>1, <1>2, InsertedRow
  <1>3. ASSUME NEW work \in Evidence, Emit(work) PROVE outbox'[e].attempts = 0
    BY <1>2, <1>3, OutboxConstants DEF Emit
  <1>4. ASSUME NEW w \in Workers, OpenCase(w) PROVE outbox'[e].attempts = 0
    <2>1. PICK f \in Events :
            NextEvent(f) /\ outbox' = [outbox EXCEPT ![f] = NewEvent("other", {})]
      BY <1>4 DEF OpenCase
    <2>2. {} \in SUBSET Keys /\ "other" \in {"evidence", "other"}
      OBVIOUS
    <2> QED BY <1>2, <2>1, <2>2
  <1>5. ASSUME NEW f, outbox' = [outbox EXCEPT ![f].delivered = TRUE]
        PROVE  outbox'[e].attempts = 0
    BY <1>1, <1>5 DEF TypeOK, OutboxRow
  <1>6. ASSUME NEW w \in Workers, Fail(w) PROVE outbox'[e].attempts = 0
    <2>1. worker[w].at # e
      BY <1>1, <1>6 DEF Fail, TypeOK, WorkerOK
    <2> QED BY <1>1, <1>6, <2>1 DEF Fail, TypeOK
  <1>7. CASE UNCHANGED outbox
    BY <1>1, <1>7
  <1> QED BY <1>3, <1>4, <1>5, <1>6, <1>7
      DEF Next, vars, Work, Claim, Skip, Start, Lookup, Store, Gate, Link, Finish, Complete,
          Crash, Clients, BeginReview, Review, Move

\* Match evidence is only added by the commit of an exposure.
LEMMA EvidenceByStore ==
  ASSUME TypeOK, [Next]_vars
  PROVE  UNCHANGED evidence \/ \E w \in Workers : Store(w)
  BY DEF Next, vars, Emit, Work, Claim, Skip, Start, Lookup, Gate, OpenCase, Link, Finish,
         Fail, Crash, Clients, BeginReview, Review, Move

\* The evidence a commit adds is of a stored exposure, for the event in hand.
LEMMA StoredEvidence ==
  ASSUME TypeOK, TypeOK', AppliedInv', NEW w \in Workers, Store(w),
         NEW x \in Rows, NEW e \in Events, <<x, e>> \in evidence', <<x, e>> \notin evidence
  PROVE  /\ e = worker[w].at /\ worker[w].pc = "found"
         /\ exposure'[x].key \in worker[w].todo /\ exposure'[x].key # None
  <1>1. PICK y \in Rows :
          /\ evidence' = evidence \cup Recorded(w, y)
          /\ worker' = [worker EXCEPT ![w].pc = "stored", ![w].row = y,
                                      ![w].seen = NoExposure, ![w].locks = {}]
    BY DEF Store
  <1>2. /\ worker'[w].pc = "stored" /\ worker'[w].row = y
        /\ worker'[w].todo = worker[w].todo /\ worker[w].pc = "found"
    BY <1>1 DEF Store, TypeOK, WorkerRow
  <1>3. x = y /\ e = worker[w].at
    BY <1>1 DEF Recorded
  <1>4. WorkerOK(worker'[w], outbox') /\ worker'[w].todo \subseteq Keys
    BY DEF TypeOK, WorkerRow
  <1>5. worker'[w].key \in Keys /\ worker'[w].key \in worker[w].todo
    BY <1>2, <1>4 DEF WorkerOK
  <1>6. Sound(worker'[w], outbox', exposure', evidence')
    BY DEF AppliedInv
  <1>7. exposure'[x].key = worker'[w].key
    BY <1>2, <1>3, <1>6 DEF Sound
  <1> QED BY <1>2, <1>3, <1>5, <1>7, OutboxConstants

LEMMA QueueInvStep ==
  ASSUME TypeOK, TypeOK', AppliedInv', QueueInv, [Next]_vars
  PROVE  QueueInv'
  <1>1. ASSUME \A u, v \in Workers : u = v, NEW w \in Workers, NEW e \in worker'[w].batch
        PROVE  Claimable(e)'
    <2>1. e \in Events
      BY <1>1 DEF TypeOK, WorkerRow
    <2>2. CASE Claimable(e) /\ UNCHANGED outbox
      BY <2>2 DEF Claimable
    <2>3. ASSUME Claimable(e), NEW v \in Workers, Complete(v, e)
          PROVE  FALSE
      <3>1. v = w
        BY <1>1
      <3> QED BY <1>1, <2>3, <3>1 DEF Complete, Idle, TypeOK
    <2>4. ASSUME Claimable(e), NEW v \in Workers, Fail(v)
          PROVE  FALSE
      <3>1. v = w
        BY <1>1
      <3> QED BY <1>1, <2>4, <3>1 DEF Fail, Idle, TypeOK
    <2>5. CASE e \in worker[w].batch
      BY <1>1, <2>1, <2>3, <2>4, <2>5, ClaimableKept DEF QueueInv
    <2> QED BY <1>1, <2>2, <2>5, BatchStep
  <1>2. ASSUME NEW x \in Rows, NEW e \in Events, <<x, e>> \in evidence'
        PROVE  exposure'[x].key # None
    <2>1. CASE <<x, e>> \in evidence
      BY <2>1, NextGrows DEF Grows, QueueInv
    <2>2. CASE <<x, e>> \notin evidence
      BY <1>2, <2>2, EvidenceByStore, StoredEvidence
    <2> QED BY <2>1, <2>2
  <1>3. \A e \in Events : outbox'[e].kind = "other" => outbox'[e].work = {}
    BY OthersReportNothing
  <1>4. \A e \in Events : outbox'[e].kind = "absent" => outbox'[e].attempts = 0
    BY AbsentNeverFailed
  <1> QED BY <1>1, <1>2, <1>3, <1>4 DEF QueueInv

\* The workers that have an event in their batch.
Holders(e) == {w \in Workers : e \in worker[w].batch}

\* A failure is counted by a worker that held the event and then lets it go.
AttemptsInv ==
  \A e \in Events :
    outbox[e].attempts + Cardinality(Holders(e)) < MaxAttempts + Cardinality(Workers)

LEMMA SomeWorkers ==
  ASSUME IsFiniteSet(Workers), NEW S \in SUBSET Workers
  PROVE  /\ IsFiniteSet(S) /\ Cardinality(S) \in Nat /\ Cardinality(Workers) \in Nat
         /\ Cardinality(S) <= Cardinality(Workers)
  BY FS_Subset, FS_CardinalityType

\* An attempt is counted by the failure of a worker at work on the event.
LEMMA AttemptsStep ==
  ASSUME TypeOK, [Next]_vars, NEW e \in Events
  PROVE  \/ outbox'[e].attempts = outbox[e].attempts
         \/ outbox'[e].attempts = 0
         \/ /\ outbox'[e].attempts = outbox[e].attempts + 1
            /\ \E w \in Workers : Fail(w) /\ worker[w].at = e
  <1>1. ASSUME NEW f \in Events, NEW kind \in {"evidence", "other"}, NEW work \in SUBSET Keys,
               NextEvent(f), outbox' = [outbox EXCEPT ![f] = NewEvent(kind, work)]
        PROVE  outbox'[e].attempts \in {0, outbox[e].attempts}
    BY <1>1, InsertedRow
  <1>2. ASSUME NEW work \in Evidence, Emit(work)
        PROVE  outbox'[e].attempts \in {0, outbox[e].attempts}
    BY <1>1, <1>2, OutboxConstants DEF Emit
  <1>3. ASSUME NEW w \in Workers, OpenCase(w)
        PROVE  outbox'[e].attempts \in {0, outbox[e].attempts}
    <2>1. PICK f \in Events :
            NextEvent(f) /\ outbox' = [outbox EXCEPT ![f] = NewEvent("other", {})]
      BY <1>3 DEF OpenCase
    <2>2. {} \in SUBSET Keys /\ "other" \in {"evidence", "other"}
      OBVIOUS
    <2> QED BY <1>1, <2>1, <2>2
  <1>4. ASSUME NEW f, outbox' = [outbox EXCEPT ![f].delivered = TRUE]
        PROVE  outbox'[e].attempts = outbox[e].attempts
    BY <1>4 DEF TypeOK, OutboxRow
  <1>5. ASSUME NEW w \in Workers, Fail(w)
        PROVE  outbox'[e].attempts =
                 IF worker[w].at = e THEN outbox[e].attempts + 1 ELSE outbox[e].attempts
    BY <1>5 DEF Fail, Attempted, TypeOK, OutboxRow
  <1>6. CASE UNCHANGED outbox
    BY <1>6
  <1> QED BY <1>2, <1>3, <1>4, <1>5, <1>6
      DEF Next, vars, Work, Claim, Skip, Start, Lookup, Store, Gate, Link, Finish, Complete,
          Crash, Clients, BeginReview, Review, Move

LEMMA AttemptsInvStep ==
  ASSUME IsFiniteSet(Workers), TypeOK, TypeOK', AttemptsInv, [Next]_vars
  PROVE  AttemptsInv'
  <1> SUFFICES ASSUME NEW e \in Events
               PROVE  outbox'[e].attempts + Cardinality(Holders(e)')
                        < MaxAttempts + Cardinality(Workers)
    BY DEF AttemptsInv
  <1> DEFINE before == Holders(e)
             after == {w \in Workers : e \in worker'[w].batch}
  <1>1. after = Holders(e)'
    BY DEF Holders
  <1>2. /\ IsFiniteSet(before) /\ Cardinality(before) \in Nat
        /\ IsFiniteSet(after) /\ Cardinality(after) \in Nat
        /\ Cardinality(after) <= Cardinality(Workers) /\ Cardinality(Workers) \in Nat
    BY SomeWorkers DEF Holders
  <1>3. /\ outbox[e].attempts \in Nat /\ outbox'[e].attempts \in Nat
        /\ MaxAttempts \in Nat /\ MaxAttempts > 0
    BY OutboxConstants DEF TypeOK, OutboxRow
  <1>4. outbox[e].attempts + Cardinality(before) < MaxAttempts + Cardinality(Workers)
    BY DEF AttemptsInv
  <1> HIDE DEF before, after
  <1>5. ASSUME after \subseteq before PROVE Cardinality(after) <= Cardinality(before)
    BY <1>2, <1>5, FS_Subset
  <1>6. CASE outbox'[e].attempts = 0
    BY <1>1, <1>2, <1>3, <1>6
  <1>7. CASE ~(after \subseteq before)
    <2>1. PICK w \in Workers : e \in worker'[w].batch /\ e \notin worker[w].batch
      BY <1>7 DEF before, after, Holders
    <2>2. Claimable(e) /\ UNCHANGED outbox
      BY <2>1, BatchStep
    <2>3. outbox'[e].attempts < MaxAttempts
      BY <2>2 DEF Claimable
    <2> QED BY <1>1, <1>2, <1>3, <2>3
  <1>8. CASE after \subseteq before /\ outbox'[e].attempts = outbox[e].attempts
    BY <1>1, <1>2, <1>3, <1>4, <1>5, <1>8
  <1>9. ASSUME outbox'[e].attempts = outbox[e].attempts + 1, after \subseteq before,
               NEW w \in Workers, Fail(w), worker[w].at = e
        PROVE  Cardinality(after) < Cardinality(before)
    <2>1. w \in before
      BY <1>9 DEF before, Holders, Fail, TypeOK, WorkerOK
    <2>2. w \notin after
      BY <1>9 DEF after, Fail, Idle, TypeOK
    <2>3. IsFiniteSet(before \ {w}) /\ Cardinality(before \ {w}) = Cardinality(before) - 1
      BY <1>2, <2>1, FS_RemoveElement
    <2>4. Cardinality(after) <= Cardinality(before \ {w})
      BY <1>9, <2>2, <2>3, FS_Subset
    <2> QED BY <1>2, <2>3, <2>4
  <1> QED BY <1>1, <1>2, <1>3, <1>4, <1>6, <1>7, <1>8, <1>9, AttemptsStep

LEMMA AttemptsHold ==
  ASSUME IsFiniteSet(Workers)
  PROVE  Spec => []AttemptsInv
  <1>1. Init => AttemptsInv
    <2> SUFFICES ASSUME Init, NEW e \in Events
                 PROVE  outbox[e].attempts + Cardinality(Holders(e))
                          < MaxAttempts + Cardinality(Workers)
      BY DEF AttemptsInv
    <2>1. Holders(e) \in SUBSET Workers
      BY DEF Holders
    <2>2. outbox[e].attempts = 0
      BY DEF Init, NoEvent
    <2> QED BY <2>1, <2>2, SomeWorkers, OutboxConstants
  <1>2. TypeOK /\ TypeOK' /\ AttemptsInv /\ [Next]_vars => AttemptsInv'
    BY AttemptsInvStep
  <1> QED BY <1>1, <1>2, TypeCorrect, PTL DEF Spec

\* Each failure of an event is counted by a worker that claimed it while it was
\* claimable, so that n workers try an event at most n - 1 times more often than
\* ORCHESTRATOR_MAX_ATTEMPTS (claim_events, fail_event).
AttemptsBounded ==
  \A e \in Events :
    outbox[e].attempts <= MaxAttempts + Cardinality(Workers) - 1

\* However many orchestrators claim, fail and claim again once the first commit
\* of a handler has released the row locks, an event is tried at most
\* MaxAttempts + n - 1 times by n of them (claim_events, fail_event).
THEOREM AttemptsAreBounded ==
  ASSUME IsFiniteSet(Workers)
  PROVE  Spec => []AttemptsBounded
  <1>1. TypeOK /\ AttemptsInv => AttemptsBounded
    <2> SUFFICES ASSUME TypeOK, AttemptsInv, NEW e \in Events
                 PROVE  outbox[e].attempts <= MaxAttempts + Cardinality(Workers) - 1
      BY DEF AttemptsBounded
    <2>1. Holders(e) \in SUBSET Workers
      BY DEF Holders
    <2>2. outbox[e].attempts \in Nat /\ MaxAttempts \in Nat
      BY OutboxConstants DEF TypeOK, OutboxRow
    <2>3. Cardinality(Holders(e)) \in Nat /\ Cardinality(Workers) \in Nat
      BY <2>1, SomeWorkers
    <2> QED BY <2>2, <2>3 DEF AttemptsInv
  <1> QED BY <1>1, AttemptsHold, TypeCorrect, PTL

\* What has been recorded of an event changes only with its match evidence.
LEMMA AppliedStays ==
  ASSUME TypeOK, QueueInv, [Next]_vars, NEW e \in Events, outbox[e].kind # "absent",
         \A x \in Rows : <<x, e>> \in evidence' <=> <<x, e>> \in evidence
  PROVE  Applied(e)' <=> Applied(e)
  <1>1. outbox'[e].work = outbox[e].work
    BY NextGrows DEF Grows, Kept
  <1>2. \A x \in Rows : <<x, e>> \in evidence => exposure'[x].key = exposure[x].key
    BY NextGrows DEF Grows, QueueInv
  <1> QED BY <1>1, <1>2 DEF Applied, RowsOf

\* What a worker holds is open in the queue, if only because another worker may
\* be done with it.
LEMMA HeldIsOpen ==
  ASSUME IsFiniteSet(Workers), TypeOK, QueueInv, NEW w \in Workers, NEW e \in worker[w].batch
  PROVE  e \in Events /\ outbox[e].kind # "absent" /\ Queue!Open(e)
  <1>1. e \in Events /\ outbox[e].kind # "absent"
    BY DEF TypeOK, WorkerOK, WorkerRow
  <1>2. CASE \A u, v \in Workers : u = v
    <2>1. Claimable(e)
      BY <1>2 DEF QueueInv
    <2>2. Settled(e) = "pending"
      BY <1>1, <2>1, OutboxConstants DEF Settled, Claimable, TypeOK, OutboxRow
    <2> QED BY <1>1, <2>2 DEF Queue!Open
  <1>3. ASSUME NEW u \in Workers, NEW v \in Workers, u # v PROVE Queue!Open(e)
    <2>1. IsFiniteSet({u}) /\ Cardinality({u}) = 1
      BY FS_Singleton
    <2>2. Cardinality({u} \cup {v}) = 2
      <3>1. v \notin {u}
        BY <1>3
      <3>2. Cardinality({u} \cup {v}) = Cardinality({u}) + 1
        BY ONLY <2>1, <3>1, FS_AddElement, Zenon
      <3> QED BY <2>1, <3>2
    <2>3. Cardinality({u} \cup {v}) <= Cardinality(Workers) /\ Cardinality(Workers) \in Nat
      BY SomeWorkers
    <2>4. Cardinality(Workers) - 1 > 0
      BY <2>2, <2>3
    <2>5. Settled(e) \in {"pending", "dead", "delivered"}
      BY <1>1 DEF Settled
    <2> QED BY <1>1, <2>4, <2>5 DEF Queue!Open
  <1> QED BY <1>1, <1>2, <1>3

\* The events that count as applied in the queue.
InQueue(e) == outbox[e].kind # "absent" /\ Applied(e)

\* Steps of the queue, event by event.
LEMMA MapsToInsert ==
  ASSUME NEW e \in Events, Settled(e) = "absent", Settled(e)' = "pending",
         \A f \in Events \ {e} : (Settled(f)' = Settled(f)) /\ (InQueue(f)' <=> InQueue(f)),
         \A f \in Events : outbox'[f].attempts = outbox[f].attempts,
         ~InQueue(e)
  PROVE  Queue!Insert(e)
  BY DEF Queue!Insert, InQueue

LEMMA MapsToApply ==
  ASSUME NEW e \in Events, Queue!Open(e), ~InQueue(e), InQueue(e)',
         \A f \in Events \ {e} : InQueue(f)' <=> InQueue(f),
         \A f \in Events : (Settled(f)' = Settled(f))
                           /\ outbox'[f].attempts = outbox[f].attempts
  PROVE  Queue!Apply(e)
  BY DEF Queue!Apply, InQueue

LEMMA MapsToDeliver ==
  ASSUME NEW e \in Events, Queue!Open(e), InQueue(e), Settled(e)' = "delivered",
         \A f \in Events \ {e} : Settled(f)' = Settled(f),
         \A f \in Events : (InQueue(f)' <=> InQueue(f))
                           /\ outbox'[f].attempts = outbox[f].attempts
  PROVE  Queue!Deliver(e)
  BY DEF Queue!Deliver, InQueue

LEMMA MapsToStutter ==
  ASSUME \A f \in Events : /\ Settled(f)' = Settled(f)
                           /\ InQueue(f)' <=> InQueue(f)
                           /\ outbox'[f].attempts = outbox[f].attempts
  PROVE  UNCHANGED Queue!qvars
  BY DEF Queue!qvars, InQueue

\* A failure counts, and is the death of a pending event that has failed often
\* enough.
LEMMA MapsToFailure ==
  ASSUME IsFiniteSet(Workers), TypeOK, NEW e \in Events, Queue!Open(e),
         outbox[e].kind # "absent",
         outbox[e].attempts < MaxAttempts + (Cardinality(Workers) - 1),
         outbox' = [outbox EXCEPT ![e].attempts = Attempted(@)],
         \A f \in Events : InQueue(f)' <=> InQueue(f)
  PROVE  Queue!FailAttempt(e)
  <1>2. outbox[e].attempts \in Nat /\ MaxAttempts \in Nat
    BY OutboxConstants DEF TypeOK, OutboxRow
  <1>3. /\ outbox'[e].kind = outbox[e].kind /\ outbox'[e].delivered = outbox[e].delivered
        /\ outbox'[e].attempts = outbox[e].attempts + 1
        /\ \A f \in Events \ {e} : outbox'[f] = outbox[f]
    BY DEF Attempted, TypeOK, OutboxRow
  <1>4. Settled(e)' = IF Settled(e) = "pending" /\ outbox[e].attempts + 1 >= MaxAttempts
                      THEN "dead" ELSE Settled(e)
    BY <1>2, <1>3 DEF Settled
  <1>5. \A f \in Events \ {e} : Settled(f)' = Settled(f)
    BY <1>3 DEF Settled
  <1> DEFINE status == [f \in Events |-> Settled(f)]
             failures == [f \in Events |-> outbox[f].attempts]
  <1>6. [f \in Events |-> outbox'[f].attempts] = [failures EXCEPT ![e] = @ + 1]
    <2>1. \A f \in Events : outbox'[f].attempts = IF f = e THEN outbox[e].attempts + 1
                                                           ELSE outbox[f].attempts
      BY <1>3
    <2>2. failures[e] = outbox[e].attempts
      OBVIOUS
    <2>3. [failures EXCEPT ![e] = outbox[e].attempts + 1]
            = [f \in Events |-> IF f = e THEN outbox[e].attempts + 1 ELSE outbox[f].attempts]
      OBVIOUS
    <2> HIDE DEF failures
    <2> QED BY <2>1, <2>2, <2>3, Zenon
  <1>8. [f \in Events |-> Settled(f)']
          = IF Settled(e) = "pending" /\ outbox[e].attempts + 1 >= MaxAttempts
            THEN [status EXCEPT ![e] = "dead"] ELSE status
    BY <1>4, <1>5
  <1>9. {f \in Events : InQueue(f)'} = {f \in Events : InQueue(f)}
    OBVIOUS
  <1>10. status[e] = Settled(e) /\ failures[e] = outbox[e].attempts
    OBVIOUS
  <1> QED BY <1>2, <1>6, <1>8, <1>9, <1>10 DEF Queue!FailAttempt, InQueue

\* A new row is a new event of the queue.
LEMMA InsertMaps ==
  ASSUME TypeOK, QueueInv, [Next]_vars, UNCHANGED evidence,
         NEW e \in Events, NEW kind \in {"evidence", "other"}, NEW work \in SUBSET Keys,
         NextEvent(e), outbox' = [outbox EXCEPT ![e] = NewEvent(kind, work)]
  PROVE  Queue!Insert(e)
  <1>1. /\ outbox[e].kind = "absent" /\ outbox'[e].kind = kind /\ kind # "absent"
        /\ outbox'[e].delivered = FALSE /\ outbox'[e].attempts = 0
        /\ \A f \in Events \ {e} : outbox'[f] = outbox[f]
    BY InsertedRow
  <1>2. Settled(e) = "absent" /\ Settled(e)' = "pending" /\ ~InQueue(e)
    BY <1>1, OutboxConstants DEF Settled, InQueue
  <1>3. \A f \in Events \ {e} : Settled(f)' = Settled(f)
    BY <1>1 DEF Settled
  <1>4. ASSUME NEW f \in Events \ {e} PROVE InQueue(f)' <=> InQueue(f)
    <2>1. CASE outbox[f].kind = "absent"
      BY <1>1, <2>1 DEF InQueue
    <2>2. CASE outbox[f].kind # "absent"
      BY <1>1, <2>2, AppliedStays DEF InQueue
    <2> QED BY <2>1, <2>2
  <1>5. outbox[e].attempts = 0
    BY <1>1 DEF QueueInv
  <1> QED BY <1>1, <1>2, <1>3, <1>4, <1>5, MapsToInsert

\* A delivery: the row is marked, and its findings are recorded.
LEMMA CompleteMaps ==
  ASSUME IsFiniteSet(Workers), TypeOK, QueueInv, [Next]_vars, UNCHANGED evidence,
         NEW w \in Workers, NEW e \in worker[w].batch, Complete(w, e), Applied(e)
  PROVE  Queue!Deliver(e) /\ e \in Events
  <1>1. e \in Events /\ outbox[e].kind # "absent" /\ Queue!Open(e)
    BY HeldIsOpen
  <1>2. /\ \A f \in Events : /\ outbox'[f].kind = outbox[f].kind
                             /\ outbox'[f].attempts = outbox[f].attempts
        /\ outbox'[e].delivered
        /\ \A f \in Events \ {e} : outbox'[f].delivered = outbox[f].delivered
    BY <1>1 DEF Complete, TypeOK, OutboxRow
  <1>3. ASSUME NEW f \in Events PROVE InQueue(f)' <=> InQueue(f)
    BY <1>2, AppliedStays DEF InQueue
  <1>4. InQueue(e) /\ Settled(e)' = "delivered"
    BY <1>1, <1>2 DEF InQueue, Settled
  <1>5. \A f \in Events \ {e} : Settled(f)' = Settled(f)
    BY <1>2 DEF Settled
  <1> QED BY <1>1, <1>2, <1>3, <1>4, <1>5, MapsToDeliver

\* The commit of an exposure records a finding of the event in hand: the last
\* one that was missing, or not.
LEMMA StoreMaps ==
  ASSUME IsFiniteSet(Workers), TypeOK, TypeOK', AppliedInv', QueueInv, [Next]_vars,
         NEW w \in Workers, Store(w)
  PROVE  \/ UNCHANGED Queue!qvars
         \/ \E e \in Events : Queue!Apply(e)
  <1>1. UNCHANGED outbox /\ worker[w].pc = "found"
    BY DEF Store
  <1>2. WorkerOK(worker[w], outbox) /\ worker[w].batch \subseteq Events
    BY DEF TypeOK, WorkerRow
  <1>3. PICK at \in worker[w].batch : at = worker[w].at
    BY <1>1, <1>2 DEF WorkerOK
  <1>4. at \in Events /\ Queue!Open(at)
    BY <1>3, HeldIsOpen
  <1>5. \A f \in Events : /\ Settled(f)' = Settled(f)
                          /\ outbox'[f].attempts = outbox[f].attempts
    BY <1>1 DEF Settled
  <1>6. ASSUME NEW f \in Events \ {at} PROVE InQueue(f)' <=> InQueue(f)
    <2>1. \A x \in Rows : <<x, f>> \in evidence' <=> <<x, f>> \in evidence
      BY <1>3, EvidenceKept, StoredEvidence
    <2> QED BY <1>1, <2>1, AppliedStays DEF InQueue
  <1>7. CASE InQueue(at)' <=> InQueue(at)
    BY <1>5, <1>6, <1>7, MapsToStutter
  <1>8. CASE ~InQueue(at) /\ InQueue(at)'
    BY <1>4, <1>5, <1>6, <1>8, MapsToApply
  <1>9. InQueue(at) => InQueue(at)'
    <2>1. SUFFICES ASSUME InQueue(at) PROVE Applied(at)'
      BY <1>1 DEF InQueue
    <2>2. \A key \in outbox[at].work : Held(key, at, exposure, evidence)
      BY <2>1 DEF InQueue, Applied, RowsOf, Held
    <2>3. outbox[at].work \subseteq Keys
      BY <1>4 DEF TypeOK, OutboxRow
    <2>4. \A key \in outbox[at].work : Held(key, at, exposure', evidence')
      BY <1>4, <2>2, <2>3, HeldKept, NextGrows
    <2> QED BY <1>1, <2>4 DEF Applied, RowsOf, Held
  <1> QED BY <1>7, <1>8, <1>9

LEMMA QueueStep ==
  ASSUME IsFiniteSet(Workers), Unreachable = {}, TypeOK, TypeOK', AppliedInv, AppliedInv',
         QueueInv, AttemptsInv, [Next]_vars
  PROVE  [Queue!QueueNext]_(Queue!qvars)
  <1>1. ASSUME NEW work \in Evidence, Emit(work) PROVE \E e \in Events : Queue!Insert(e)
    BY <1>1, InsertMaps, OutboxConstants DEF Emit
  <1>2. ASSUME NEW w \in Workers, OpenCase(w) PROVE \E e \in Events : Queue!Insert(e)
    <2>1. PICK e \in Events :
            NextEvent(e) /\ outbox' = [outbox EXCEPT ![e] = NewEvent("other", {})]
      BY <1>2 DEF OpenCase
    <2>2. {} \in SUBSET Keys /\ "other" \in {"evidence", "other"} /\ UNCHANGED evidence
      BY <1>2 DEF OpenCase
    <2> QED BY <2>1, <2>2, InsertMaps
  <1>3. ASSUME NEW w \in Workers, Skip(w) PROVE \E e \in Events : Queue!Deliver(e)
    <2>1. PICK e \in Events :
            e \in worker[w].batch /\ outbox[e].kind = "other" /\ Complete(w, e)
      BY <1>3 DEF Skip, Oldest
    <2>2. Applied(e)
      BY <2>1 DEF QueueInv, Applied
    <2> QED BY <1>3, <2>1, <2>2, CompleteMaps DEF Skip
  <1>4. ASSUME NEW w \in Workers, Finish(w) PROVE \E e \in Events : Queue!Deliver(e)
    <2> DEFINE e == worker[w].at
    <2>1. WorkerOK(worker[w], outbox) /\ Sound(worker[w], outbox, exposure, evidence)
          /\ worker[w].todo = {} /\ worker[w].pc = "finding"
      BY <1>4 DEF Finish, TypeOK, AppliedInv
    <2>2. e \in worker[w].batch /\ Applied(e)
      BY <2>1 DEF WorkerOK, Sound, Held, Applied, RowsOf
    <2> QED BY <1>4, <2>2, CompleteMaps DEF Finish
  <1>5. ASSUME NEW w \in Workers, Fail(w) PROVE \E e \in Events : Queue!FailAttempt(e)
    <2> DEFINE e == worker[w].at
    <2>1. e \in worker[w].batch
      BY <1>5 DEF Fail, TypeOK, WorkerOK
    <2>2. e \in Events /\ outbox[e].kind # "absent" /\ Queue!Open(e)
      BY <2>1, HeldIsOpen
    <2>6. outbox[e].attempts < MaxAttempts + (Cardinality(Workers) - 1)
      <3>1. IsFiniteSet(Holders(e)) /\ w \in Holders(e)
        BY <2>1, SomeWorkers DEF Holders
      <3>2. Cardinality(Holders(e)) # 0 /\ Cardinality(Holders(e)) \in Nat
        BY <3>1, FS_EmptySet, FS_CardinalityType
      <3>3. outbox[e].attempts \in Nat /\ MaxAttempts \in Nat /\ Cardinality(Workers) \in Nat
        BY <2>2, OutboxConstants, FS_CardinalityType DEF TypeOK, OutboxRow
      <3> QED BY <2>2, <3>2, <3>3 DEF AttemptsInv
    <2>3. outbox' = [outbox EXCEPT ![e].attempts = Attempted(@)] /\ UNCHANGED evidence
      BY <1>5 DEF Fail
    <2>4. \A f \in Events : outbox'[f].kind = outbox[f].kind
      BY <2>2, <2>3 DEF TypeOK, OutboxRow
    <2>5. \A f \in Events : InQueue(f)' <=> InQueue(f)
      BY <2>3, <2>4, AppliedStays DEF InQueue
    <2> QED BY <2>2, <2>3, <2>5, <2>6, MapsToFailure
  <1>6. CASE UNCHANGED <<outbox, evidence>>
    <2>1. \A f \in Events : InQueue(f)' <=> InQueue(f)
      BY <1>6, AppliedStays DEF InQueue
    <2> QED BY <1>6, <2>1, MapsToStutter DEF Settled
  <1>7. ASSUME NEW w \in Workers, Store(w) PROVE [Queue!QueueNext]_(Queue!qvars)
    BY <1>7, StoreMaps DEF Queue!QueueNext, Queue!Process
  <1>8. (\E e \in Events : Queue!Insert(e) \/ Queue!Deliver(e) \/ Queue!FailAttempt(e))
          => Queue!QueueNext
    BY DEF Queue!QueueNext, Queue!Process
  <1> QED BY <1>1, <1>2, <1>3, <1>4, <1>5, <1>6, <1>7, <1>8
      DEF Next, vars, Work, Claim, Start, Lookup, Gate, Link, Crash, Clients, BeginReview,
          Review, Move

\* The safety part of ImplementsQueue for any number of orchestrators: what they
\* apply stays applied, they deliver only what is applied, once and for good, and
\* give an event up only after MaxAttempts failures; the Late ones among them may
\* still apply, deliver or fail an event that another has done with (claim_events,
\* process_event, complete_event, fail_event).
THEOREM QueueIsImplemented ==
  ASSUME IsFiniteSet(Workers), Unreachable = {}
  PROVE  Spec => Queue!QueueInit /\ [][Queue!QueueNext]_(Queue!qvars)
  <1>1. Init => Queue!QueueInit
    <2> SUFFICES ASSUME Init PROVE Queue!QueueInit
      OBVIOUS
    <2>1. \A e \in Events : outbox[e].kind = "absent" /\ outbox[e].attempts = 0
      BY DEF Init, NoEvent
    <2> QED BY <2>1 DEF Queue!QueueInit, Settled
  <1>2. Init => QueueInv
    BY DEF Init, QueueInv, NoEvent, Idle
  <1>3. TypeOK /\ TypeOK' /\ AppliedInv' /\ QueueInv /\ [Next]_vars => QueueInv'
    BY QueueInvStep
  <1>4. TypeOK /\ TypeOK' /\ AppliedInv /\ AppliedInv' /\ QueueInv /\ AttemptsInv /\ [Next]_vars
          => [Queue!QueueNext]_(Queue!qvars)
    BY QueueStep
  <1> QED BY <1>1, <1>2, <1>3, <1>4, AppliedHolds, AttemptsHold, TypeCorrect, PTL DEF Spec

-----------------------------------------------------------------------------
(* What one worker has handled has its case.                                *)

\* The exposure calls for a case, as far as the source is concerned; if it does,
\* there is or was one.
Calls(x) ==
  /\ AutoCreate /\ exposure[x].key \notin Unpackaged
  /\ exposure[x].class \in CaseClasses /\ review[x] = None
Cased(x) == Calls(x) => Listing(x) # {}

\* Evidence is of findings its event reports.
Reported(x, e) == outbox[e].kind = "evidence" /\ exposure[x].key \in outbox[e].work

\* Of what a handler's event reports, either it is still to do or it has its
\* case; the case in hand is one of the exposure in hand.
Handled(w) ==
  /\ worker[w].pc \notin {"idle", "ready"} =>
       /\ worker[w].todo \subseteq outbox[worker[w].at].work
       /\ \A x \in Rows :
            <<x, worker[w].at>> \in evidence /\ exposure[x].key \notin worker[w].todo
              => Cased(x)
  /\ worker[w].pc = "link" => case[worker[w].case].exposure = worker[w].row

CasedInv ==
  /\ \A x \in Rows, e \in Events : <<x, e>> \in evidence => Reported(x, e)
  /\ \A w \in Workers : Handled(w)

\* A case stays the case of its exposure.
LEMMA ListingsGrow ==
  ASSUME TypeOK, [Next]_vars, NEW c \in Cases, case[c].exposure # None
  PROVE  case'[c].exposure = case[c].exposure
  <1>1. ASSUME NEW w \in Workers, OpenCase(w)
        PROVE  case'[c].exposure = case[c].exposure
    <2>1. PICK d \in Cases :
            case[d] = NoCase /\ \E row : case' = [case EXCEPT ![d] = row]
      BY <1>1 DEF OpenCase
    <2>2. c # d
      BY <2>1 DEF NoCase
    <2> QED BY <2>1, <2>2 DEF TypeOK
  <1>2. ASSUME NEW d, case' = [case EXCEPT ![d].linked = TRUE]
        PROVE  case'[c].exposure = case[c].exposure
    BY <1>2 DEF TypeOK, CaseRow
  <1>3. ASSUME NEW d, NEW status, case' = [case EXCEPT ![d].status = status]
        PROVE  case'[c].exposure = case[c].exposure
    BY <1>3 DEF TypeOK, CaseRow
  <1>4. CASE UNCHANGED case
    BY <1>4
  <1> QED BY <1>1, <1>2, <1>3, <1>4
      DEF Next, vars, Emit, Work, Claim, Skip, Start, Lookup, Store, Gate, Link, Finish,
          Fail, Crash, Clients, BeginReview, Review, Move

\* Only the commit of an exposure makes it call for a case.
LEMMA CasedKept ==
  ASSUME TypeOK, [Next]_vars, NEW x \in Rows, Cased(x),
         \/ exposure'[x] = exposure[x]
         \/ \E y \in Rows, verdict \in {"confirmed", "not_affected"} : Review(y, verdict)
  PROVE  Cased(x)'
  <1>1. Listing(x) \subseteq Listing(x)'
    BY ListingsGrow, OutboxConstants DEF Listing
  <1>2. ASSUME NEW y \in Rows, NEW verdict \in {"confirmed", "not_affected"},
               Review(y, verdict)
        PROVE  Calls(x)' => Calls(x)
    <2>1. CASE x = y
      <3>1. review'[x] = verdict
        BY <1>2, <2>1 DEF Review, TypeOK
      <3>2. verdict # None
        BY OutboxConstants DEF MatchClasses, CaseClasses
      <3> QED BY <3>1, <3>2 DEF Calls
    <2>2. CASE x # y
      <3>1. exposure'[x] = exposure[x] /\ review'[x] = review[x]
        BY <1>2, <2>2 DEF Review, TypeOK
      <3> QED BY <3>1 DEF Calls
    <2> QED BY <2>1, <2>2
  <1>3. ASSUME exposure'[x] = exposure[x], UNCHANGED review
        PROVE  Calls(x)' => Calls(x)
    BY <1>3 DEF Calls
  <1>4. \/ UNCHANGED review
        \/ \E y \in Rows, verdict \in {"confirmed", "not_affected"} : Review(y, verdict)
    BY DEF Next, vars, Emit, Work, Claim, Skip, Start, Lookup, Store, Gate, OpenCase, Link,
           Finish, Complete, Fail, Crash, Clients, BeginReview, Move
  <1> QED BY <1>1, <1>2, <1>3, <1>4 DEF Cased

LEMMA ReportedStep ==
  ASSUME TypeOK, TypeOK', AppliedInv', CasedInv, [Next]_vars,
         NEW x \in Rows, NEW e \in Events, <<x, e>> \in evidence'
  PROVE  Reported(x, e)'
  <1>1. CASE <<x, e>> \in evidence
    <2>1. outbox[e].kind = "evidence" /\ exposure[x].key \in outbox[e].work
      BY <1>1 DEF CasedInv, Reported
    <2>2. exposure[x].key # None
      BY <2>1, OutboxConstants DEF TypeOK, OutboxRow
    <2> QED BY <2>1, <2>2, NextGrows DEF Grows, Kept, Reported
  <1>2. CASE <<x, e>> \notin evidence
    <2>1. PICK w \in Workers : Store(w)
      BY <1>2, EvidenceByStore
    <2>2. /\ e = worker[w].at /\ worker[w].pc = "found"
          /\ exposure'[x].key \in worker[w].todo
      BY <1>2, <2>1, StoredEvidence
    <2>3. outbox[e].kind = "evidence"
      BY <2>2 DEF TypeOK, WorkerOK
    <2>4. exposure'[x].key \in outbox[e].work
      BY <2>2 DEF CasedInv, Handled
    <2> QED BY <2>1, <2>3, <2>4 DEF Store, Reported
  <1> QED BY <1>1, <1>2

\* A step that keeps the event in hand, and takes from what is to do only what
\* has its case.
LEMMA HandledKept ==
  ASSUME TypeOK, CasedInv, [Next]_vars, NEW w \in Workers,
         worker[w].pc \notin {"idle", "ready"}, worker'[w].at = worker[w].at,
         worker'[w].todo \subseteq worker[w].todo,
         \A x \in Rows : \/ exposure'[x] = exposure[x]
                         \/ \E y \in Rows, verdict \in {"confirmed", "not_affected"} :
                              Review(y, verdict),
         UNCHANGED evidence,
         \A x \in Rows : exposure[x].key \in worker[w].todo \ worker'[w].todo => Cased(x),
         worker'[w].pc = "link" => case'[worker'[w].case].exposure = worker'[w].row
  PROVE  Handled(w)'
  <1>1. PICK at \in Events : at = worker[w].at /\ outbox[at].kind = "evidence"
    BY DEF TypeOK, WorkerRow, WorkerOK
  <1>2. worker[w].todo \subseteq outbox[at].work
    BY <1>1 DEF CasedInv, Handled
  <1>3. outbox'[at].work = outbox[at].work
    BY <1>1, NextGrows DEF Grows, Kept
  <1>4. ASSUME NEW x \in Rows, <<x, at>> \in evidence', exposure'[x].key \notin worker'[w].todo
        PROVE  Cased(x)'
    <2>1. exposure'[x].key = exposure[x].key
      <3>1. CASE exposure'[x] = exposure[x]
        BY <3>1
      <3>2. CASE \E y \in Rows, verdict \in {"confirmed", "not_affected"} : Review(y, verdict)
        BY <3>2, KeysKept
      <3> QED BY <3>1, <3>2
    <2>2. Cased(x)
      BY <1>1, <1>4, <2>1 DEF CasedInv, Handled
    <2> QED BY <2>2, CasedKept
  <1> QED BY <1>1, <1>2, <1>3, <1>4 DEF Handled

\* The handler starts with everything its event reports.
LEMMA HandledStart ==
  ASSUME Unreachable = {}, TypeOK, CasedInv, NEW w \in Workers, Start(w)
  PROVE  Handled(w)'
  <1>6. PICK e \in Events : \E todo \in Answers(outbox[e].work) :
          worker' = [worker EXCEPT ![w].pc = "finding", ![w].at = e, ![w].todo = todo]
    BY DEF Start
  <1>1. PICK todo \in Answers(outbox[e].work) :
          worker' = [worker EXCEPT ![w].pc = "finding", ![w].at = e, ![w].todo = todo]
    BY <1>6
  <1>2. todo = outbox[e].work
    BY DEF Answers
  <1>3. worker'[w].pc = "finding" /\ worker'[w].at = e /\ worker'[w].todo = todo
    BY <1>1 DEF TypeOK, WorkerRow
  <1>4. UNCHANGED <<outbox, exposure, evidence>>
    BY DEF Start
  <1>5. \A x \in Rows : <<x, e>> \in evidence => exposure[x].key \in todo
    BY <1>2 DEF CasedInv, Reported
  <1> QED BY <1>2, <1>3, <1>4, <1>5 DEF Handled

\* What is recorded now is still to do.
LEMMA HandledStore ==
  ASSUME TypeOK, TypeOK', AppliedInv', CasedInv, [Next]_vars, NEW w \in Workers, Store(w)
  PROVE  Handled(w)'
  <1>1. PICK y \in Rows :
          /\ \A x \in Rows \ {y} : exposure'[x] = exposure[x]
          /\ evidence' = evidence \cup Recorded(w, y)
          /\ worker' = [worker EXCEPT ![w].pc = "stored", ![w].row = y,
                                      ![w].seen = NoExposure, ![w].locks = {}]
    <2>1. PICK class \in Classes, y \in Rows :
            /\ \E row : exposure' = [exposure EXCEPT ![y] = row]
            /\ evidence' = evidence \cup Recorded(w, y)
            /\ worker' = [worker EXCEPT ![w].pc = "stored", ![w].row = y,
                                        ![w].seen = NoExposure, ![w].locks = {}]
      BY DEF Store
    <2>2. \A x \in Rows \ {y} : exposure'[x] = exposure[x]
      BY <2>1 DEF TypeOK
    <2> QED BY <2>1, <2>2
  <1>2. PICK at \in Events : at = worker[w].at
    BY DEF Store, TypeOK, WorkerRow, WorkerOK
  <1>3. /\ worker'[w].pc = "stored" /\ worker'[w].row = y /\ worker'[w].at = at
        /\ worker'[w].todo = worker[w].todo /\ worker[w].pc = "found"
    BY <1>1, <1>2 DEF Store, TypeOK, WorkerRow
  <1>4. worker[w].todo \subseteq outbox'[at].work
    BY <1>2, <1>3 DEF Store, CasedInv, Handled
  <1>5. exposure'[y].key \in worker[w].todo
    <2>1. Sound(worker'[w], outbox', exposure', evidence') /\ WorkerOK(worker'[w], outbox')
      BY DEF AppliedInv, TypeOK
    <2> QED BY <1>3, <2>1 DEF Sound, WorkerOK
  <1>6. ASSUME NEW x \in Rows, <<x, at>> \in evidence', exposure'[x].key \notin worker[w].todo
        PROVE  Cased(x)'
    <2>1. x # y
      BY <1>5, <1>6
    <2>2. <<x, at>> \in evidence /\ exposure'[x] = exposure[x]
      BY <1>1, <1>6, <2>1 DEF Recorded
    <2>3. Cased(x)
      BY <1>2, <1>3, <1>6, <2>2 DEF CasedInv, Handled
    <2> QED BY <2>2, <2>3, CasedKept
  <1> QED BY <1>3, <1>4, <1>6 DEF Handled

\* Done with a finding that has its case, or asks for none.
LEMMA HandledNext ==
  ASSUME TypeOK, AppliedInv, SoleInv, CasedInv, [Next]_vars, NEW w \in Workers,
         worker[w].pc \in {"stored", "link"}, Cased(worker[w].row),
         worker'[w] = NextFinding(w), UNCHANGED <<exposure, evidence>>
  PROVE  Handled(w)'
  <1>1. /\ NextFinding(w).pc = "finding" /\ NextFinding(w).at = worker[w].at
        /\ NextFinding(w).todo = worker[w].todo \ {worker[w].key}
    BY DEF NextFinding, TypeOK, WorkerRow
  <1>2. Sound(worker[w], outbox, exposure, evidence) /\ WorkerOK(worker[w], outbox)
    BY DEF AppliedInv, TypeOK
  <1>3. exposure[worker[w].row].key = worker[w].key /\ worker[w].row \in Rows
        /\ worker[w].key \in worker[w].todo /\ worker[w].todo \subseteq Keys
    BY <1>2 DEF Sound, WorkerOK, TypeOK, WorkerRow
  <1>4. ASSUME NEW x \in Rows, exposure[x].key = worker[w].key
        PROVE  Cased(x)
    <2>1. x = worker[w].row
      BY <1>3, <1>4, OutboxConstants DEF SoleInv, OneExposurePerKey
    <2> QED BY <2>1
  <1> QED BY <1>1, <1>4, HandledKept

LEMMA CasedStep ==
  ASSUME \A v, w \in Workers : v = w, Unreachable = {}, TypeOK, TypeOK', AppliedInv,
         AppliedInv', SoleInv, CasedInv, [Next]_vars
  PROVE  CasedInv'
  <1>1. ASSUME NEW w \in Workers, worker'[w].pc \in {"idle", "ready"} PROVE Handled(w)'
    BY <1>1 DEF Handled
  <1>2. ASSUME NEW w \in Workers, Claim(w) \/ Skip(w) \/ Finish(w) \/ Fail(w) \/ Crash(w)
        PROVE  Handled(w)'
    <2>1. ASSUME NEW e, Complete(w, e) PROVE worker'[w].pc \in {"idle", "ready"}
      BY <2>1 DEF Complete, Idle, TypeOK
    <2>2. ASSUME Claim(w) PROVE worker'[w].pc = "ready"
      BY <2>2 DEF Claim, Idle, TypeOK
    <2>3. ASSUME Fail(w) \/ Crash(w) PROVE worker'[w].pc = "idle"
      BY <2>3 DEF Fail, Crash, Idle, TypeOK
    <2> QED BY <1>1, <1>2, <2>1, <2>2, <2>3 DEF Skip, Finish
  <1>3. ASSUME NEW w \in Workers, Lookup(w) PROVE Handled(w)'
    <2>1. PICK key, x, seen :
            worker' = [worker EXCEPT ![w].pc = "found", ![w].key = key, ![w].row = x,
                                     ![w].seen = seen]
      BY <1>3 DEF Lookup
    <2>2. /\ worker'[w].pc = "found" /\ worker'[w].at = worker[w].at
          /\ worker'[w].todo = worker[w].todo
      BY <2>1 DEF TypeOK, WorkerRow
    <2> QED BY <1>3, <2>2, HandledKept DEF Lookup
  <1>4. ASSUME NEW w \in Workers, Gate(w) PROVE Handled(w)'
    <2>1. CASE WantsCase(worker[w].row)
      <3>1. worker'[w] = [worker[w] EXCEPT !.pc = "create"]
        BY <1>4, <2>1 DEF Gate, TypeOK
      <3>2. /\ worker'[w].pc = "create" /\ worker'[w].at = worker[w].at
            /\ worker'[w].todo = worker[w].todo
        BY <3>1 DEF TypeOK, WorkerRow
      <3> QED BY <1>4, <3>2, HandledKept DEF Gate
    <2>2. CASE ~WantsCase(worker[w].row)
      <3>1. Cased(worker[w].row)
        BY <2>2 DEF WantsCase, Covered, OpenCases, Cased, Calls
      <3>2. worker'[w] = NextFinding(w)
        BY <1>4, <2>2 DEF Gate, TypeOK
      <3> QED BY <1>4, <3>1, <3>2, HandledNext DEF Gate
    <2> QED BY <2>1, <2>2
  <1>5. ASSUME NEW w \in Workers, OpenCase(w) PROVE Handled(w)'
    <2>1. PICK c \in Cases :
            /\ case' = [case EXCEPT ![c] = [status |-> "open", exposure |-> worker[w].row,
                                            linked |-> FALSE]]
            /\ worker' = [worker EXCEPT ![w].pc = "link", ![w].case = c]
      BY <1>5 DEF OpenCase
    <2>2. /\ worker'[w].pc = "link" /\ worker'[w].at = worker[w].at
          /\ worker'[w].todo = worker[w].todo /\ worker'[w].case = c
          /\ worker'[w].row = worker[w].row /\ case'[c].exposure = worker[w].row
      BY <2>1 DEF TypeOK, WorkerRow
    <2> QED BY <1>5, <2>2, HandledKept DEF OpenCase
  <1>6. ASSUME NEW w \in Workers, Link(w) PROVE Handled(w)'
    <2>1. case[worker[w].case].exposure = worker[w].row /\ worker[w].case \in Cases
      BY <1>6 DEF Link, CasedInv, Handled, TypeOK, WorkerOK
    <2>2. Cased(worker[w].row)
      BY <2>1 DEF Cased, Listing
    <2>3. worker'[w] = NextFinding(w)
      BY <1>6 DEF Link, TypeOK
    <2> QED BY <1>6, <2>2, <2>3, HandledNext DEF Link
  <1>7. ASSUME UNCHANGED <<worker, evidence>>,
               \/ UNCHANGED exposure
               \/ \E y \in Rows, verdict \in {"confirmed", "not_affected"} : Review(y, verdict),
               NEW w \in Workers
        PROVE  Handled(w)'
    <2>1. CASE worker[w].pc \in {"idle", "ready"}
      BY <1>1, <1>7, <2>1
    <2>2. CASE worker[w].pc \notin {"idle", "ready"}
      <3>1. worker[w].pc = "link" =>
              /\ worker[w].case \in Cases /\ worker[w].row \in Rows
              /\ case[worker[w].case].exposure = worker[w].row
        BY DEF CasedInv, Handled, TypeOK, WorkerOK
      <3>2. worker[w].pc = "link" => case'[worker[w].case].exposure = worker[w].row
        BY <3>1, ListingsGrow, OutboxConstants
      <3> QED BY <1>7, <2>2, <3>2, HandledKept
    <2> QED BY <2>1, <2>2
  <1>8. ASSUME NEW w \in Workers PROVE Handled(w)'
    <2>1. ASSUME NEW v \in Workers, Work(v) \/ Fail(v) \/ Crash(v) PROVE Handled(w)'
      <3>1. v = w
        OBVIOUS
      <3> QED BY <1>2, <1>3, <1>4, <1>5, <1>6, <2>1, <3>1, HandledStart, HandledStore DEF Work
    <2>2. CASE Clients \/ UNCHANGED vars \/ \E work \in Evidence : Emit(work)
      BY <1>7, <2>2 DEF vars, Emit, Clients, BeginReview, Review, Move
    <2> QED BY <2>1, <2>2 DEF Next
  <1> QED BY <1>8, ReportedStep DEF CasedInv

\* A delivery finds everything recorded for its event cased.
LEMMA DeliveredIsCased ==
  ASSUME TypeOK, CasedInv, [Next]_vars, NEW e \in Events, NEW x \in Rows,
         outbox'[e].delivered, ~outbox[e].delivered, <<x, e>> \in evidence
  PROVE  Cased(x)
  <1>1. outbox[e].kind = "evidence" /\ exposure[x].key \in outbox[e].work
    BY DEF CasedInv, Reported
  <1>2. outbox'[e].kind = "evidence"
    BY <1>1, NextGrows DEF Grows, Kept
  <1>3. PICK w \in Workers : Finish(w) /\ worker[w].at = e
    BY <1>2, DeliveredByFinish
  <1> QED BY <1>3 DEF Finish, CasedInv, Handled

\* With one orchestrator, when the handler of an event has returned, every match
\* it recorded that calls for a case has one, however often the event was given
\* up half-way and taken up again (_maybe_create_case, complete_event).
THEOREM OneWorkerCasesAll ==
  ASSUME \A v, w \in Workers : v = w, Unreachable = {}
  PROVE  Spec => HandledMeansCased
  <1>1. Init => SoleInv /\ CasedInv
    BY DEF Init, SoleInv, OneExposurePerKey, NoExposure, CasedInv, Handled, Idle
  <1>2. TypeOK /\ SoleInv /\ [Next]_vars => SoleInv'
    BY SoleStep
  <1>3. TypeOK /\ TypeOK' /\ AppliedInv /\ AppliedInv' /\ SoleInv /\ CasedInv /\ [Next]_vars
          => CasedInv'
    BY CasedStep
  <1>4. ASSUME TypeOK, CasedInv, [Next]_vars
        PROVE  [\A e \in Events, x \in Rows :
                  /\ outbox'[e].delivered /\ ~outbox[e].delivered
                  /\ <<x, e>> \in evidence
                  /\ AutoCreate /\ exposure[x].key \notin Unpackaged
                  /\ exposure[x].class \in CaseClasses /\ review[x] = None
                  => Listing(x) # {}]_vars
    BY <1>4, DeliveredIsCased DEF Cased, Calls
  <1> QED BY <1>1, <1>2, <1>3, <1>4, AppliedHolds, TypeCorrect, PTL
          DEF Spec, HandledMeansCased
=============================================================================
