----------------------------- MODULE IngestPipeline -----------------------------
(***************************************************************************)
(* From a scanner to the outbox: the poller of one source                  *)
(* (vulnops/workers/polling.py), the job queue in Redis, the ingestion     *)
(* workers (vulnops/workers/ingestion.py) and the bridges they call        *)
(* (vulnops/integrations/defectdojo.py, wazuh.py), which keep the raw      *)
(* bytes (vulnops/evidence/raw_store.py) and commit a source snapshot with *)
(* its outbox event.                                                       *)
(*                                                                         *)
(* A record of the source is a number, in the order the source lists its   *)
(* records; an observation is a record with its version, that is, with its *)
(* content: it is what a job carries, what a digest stands for and what a  *)
(* snapshot's natural key names.  The incremental source (DefectDojo) is   *)
(* read page by page above a cursor; the other one (Wazuh) is listed in    *)
(* full at every poll, agent by agent.                                     *)
(***************************************************************************)
EXTENDS Naturals, FiniteSets, Sequences

CONSTANTS
  Records,      \* records of the source, as numbers
  MaxVersion,   \* bound on the versions of a record
  Agents,       \* Wazuh agents
  AgentOf,      \* the agent each record is listed under
  Incremental,  \* DefectDojo, or else Wazuh
  Filtering,    \* DefectDojo applies the id__gt of the query
  PageSize,     \* the page_size of DefectDojoClient.fetch
  PackageLimit, \* the packages Wazuh lists for an agent
  Workers,      \* ingestion workers
  SourceOps,    \* what else the source does
  MaxFaults,    \* bound on failed polls and poller crashes
  MaxLosses,    \* bound on failed jobs and worker crashes
  LossAt,       \* where a worker may fail
  RedisAtStart, \* Redis answers whenever a worker starts
  MaxQueue      \* bound on the length of the job queue

Jobs == Records \X (1 .. MaxVersion)

ASSUME IngestConstants ==
  /\ Records \subseteq Nat \ {0}
  /\ MaxVersion \in Nat \ {0} /\ PageSize \in Nat \ {0} /\ PackageLimit \in Nat
  /\ AgentOf \in [Records -> Agents]
  /\ Incremental \in BOOLEAN /\ Filtering \in BOOLEAN /\ RedisAtStart \in BOOLEAN
  /\ SourceOps \subseteq {"edit", "delete"}
  /\ MaxFaults \in Nat /\ MaxLosses \in Nat /\ MaxQueue \in Nat

VARIABLES
  upstream,  \* the version of every record of the source, 0 if it is not there
  issued,    \* the last record the source has come up with
  status,    \* table source_statuses: the row of the source
  poller,    \* where the poller is and what it holds
  faults,    \* failed polls and agent queries, and poller crashes, so far
  queue,     \* the Redis list vulnops:ingest, next job first
  pushed,    \* the jobs ever pushed
  worker,    \* per ingestion worker, where it is and its job
  losses,    \* failed jobs and worker crashes so far
  raw,       \* the evidence files, one per digest
  events     \* per natural key, its snapshots, each with its outbox event

vars == <<upstream, issued, status, poller, faults, queue, pushed, worker, losses, raw,
          events>>
pollVars == <<status, poller, faults, queue, pushed>>
workVars == <<worker, losses, raw, events>>

-----------------------------------------------------------------------------
(* The source.                                                              *)

Present == {r \in Records : upstream[r] # 0}

\* The source numbers its records in the order it creates them.
Create(r) ==
  /\ r > issued
  /\ \A q \in Records : q > issued => r <= q
  /\ upstream' = [upstream EXCEPT ![r] = 1]
  /\ issued' = r
  /\ UNCHANGED <<pollVars, workVars>>

Edit(r) ==
  /\ "edit" \in SourceOps
  /\ upstream[r] \in 1 .. MaxVersion - 1
  /\ upstream' = [upstream EXCEPT ![r] = @ + 1]
  /\ UNCHANGED <<issued, pollVars, workVars>>

Delete(r) ==
  /\ "delete" \in SourceOps
  /\ upstream[r] # 0
  /\ upstream' = [upstream EXCEPT ![r] = 0]
  /\ UNCHANGED <<issued, pollVars, workVars>>

-----------------------------------------------------------------------------
(* The poller.                                                              *)

NoPoll == [pc |-> "idle", offset |-> 0, jobs |-> {}]

BeginPoll ==
  /\ poller.pc = "idle"
  /\ poller' = [NoPoll EXCEPT !.pc = "fetching"]
  /\ UNCHANGED <<upstream, issued, status, faults, queue, pushed, workVars>>

\* What a query above the cursor lists.
Listing == {r \in Present : Filtering => r > status.cursor}

Page(offset) ==
  {r \in Listing : LET before == Cardinality({q \in Listing : q < r}) IN
                   offset <= before /\ before < offset + PageSize}

NextOffset(offset) == offset + PageSize

\* Jobs for the records of the listing above the cursor.
JobsOf(records) == {<<r, upstream[r]>> : r \in records}

\* One turn of the loop of DefectDojoClient.fetch: one page, as the source is
\* now; a short one is the last.
FetchPage ==
  /\ Incremental
  /\ poller.pc = "fetching"
  /\ LET page == Page(poller.offset) IN
     poller' =
       [pc |-> IF Cardinality(page) < PageSize THEN "fetched" ELSE "fetching",
        offset |-> NextOffset(poller.offset),
        jobs |-> poller.jobs \cup JobsOf({r \in page : r > status.cursor})]
  /\ UNCHANGED <<upstream, issued, status, faults, queue, pushed, workVars>>

\* Something outside fails once more.
Fault == faults < MaxFaults /\ faults' = faults + 1

\* WazuhClient.fetch: the first packages of every agent that answers.
Packages(agent) ==
  LET all == {r \in Present : AgentOf[r] = agent} IN
  {r \in all : Cardinality({q \in all : q < r}) < PackageLimit}

\* An agent whose query fails is left out of the poll.
FetchInventory ==
  /\ ~Incremental
  /\ poller.pc = "fetching"
  /\ \E failed \in SUBSET Agents :
       /\ poller' = [poller EXCEPT !.pc = "fetched",
                       !.jobs = JobsOf(UNION {Packages(a) : a \in Agents \ failed})]
       /\ IF failed = {} THEN UNCHANGED faults ELSE Fault
  /\ UNCHANGED <<upstream, issued, status, queue, pushed, workVars>>

\* The orders in which the pipeline may push the jobs: those of their records.
Batches(jobs) ==
  {s \in UNION {[1 .. n -> jobs] : n \in 0 .. MaxQueue} :
     /\ \A j \in jobs : \E i \in DOMAIN s : s[i] = j
     /\ \A i, j \in DOMAIN s : i < j => s[i][1] < s[j][1]}

\* LPUSH of every job in one MULTI; the workers take them with BRPOP.
Push(jobs) ==
  \E batch \in Batches(jobs) :
    /\ Len(queue) + Len(batch) <= MaxQueue
    /\ queue' = queue \o batch
    /\ pushed' = pushed \cup jobs

Enqueue ==
  /\ poller.pc = "fetched"
  /\ Push(poller.jobs)
  /\ poller' = [poller EXCEPT !.pc = "enqueued"]
  /\ UNCHANGED <<upstream, issued, status, faults, workVars>>

\* The cursor after a poll that fetched these jobs.
NextCursor(jobs) ==
  LET ids == {j[1] : j \in jobs} IN
  IF Incremental /\ ids # {}
  THEN CHOOSE r \in ids : \A q \in ids : q <= r
  ELSE status.cursor

\* _checkpoint, fresh.
Checkpoint ==
  /\ poller.pc = "enqueued"
  /\ status' = [cursor |-> NextCursor(poller.jobs), freshness |-> "fresh"]
  /\ poller' = NoPoll
  /\ UNCHANGED <<upstream, issued, faults, queue, pushed, workVars>>

\* Faulty: the cursor moves on although the poll failed.
AfterFailureAdvanced == [cursor |-> NextCursor(poller.jobs), freshness |-> "stale"]

\* _checkpoint, stale, which keeps the cursor.
AfterFailure == [status EXCEPT !.freshness = "stale"]

\* The source or Redis fails, before the pipeline runs or after it has.
PollFails ==
  /\ poller.pc \in {"fetching", "fetched", "enqueued"}
  /\ Fault
  /\ status' = AfterFailure
  /\ poller' = NoPoll
  /\ UNCHANGED <<upstream, issued, queue, pushed, workVars>>

\* The process dies, or the checkpoint itself fails.
PollerCrash ==
  /\ poller.pc # "idle"
  /\ Fault
  /\ poller' = NoPoll
  /\ UNCHANGED <<upstream, issued, status, queue, pushed, workVars>>

-----------------------------------------------------------------------------
(* The ingestion workers.                                                   *)

NoJob == <<>>
Off == [pc |-> "off", job |-> NoJob]
Waiting == [pc |-> "idle", job |-> NoJob]

\* run_forever: a worker that finds no Redis when it starts never looks again.
Start(w) ==
  /\ worker[w].pc = "off"
  /\ \E pc \in IF RedisAtStart THEN {"idle"} ELSE {"idle", "deaf"} :
       worker' = [worker EXCEPT ![w].pc = pc]
  /\ UNCHANGED <<upstream, issued, pollVars, losses, raw, events>>

\* BRPOP: the job is gone from the queue.
Pop(w) ==
  /\ worker[w].pc = "idle"
  /\ queue # <<>>
  /\ worker' = [worker EXCEPT ![w] = [pc |-> "popped", job |-> Head(queue)]]
  /\ queue' = Tail(queue)
  /\ UNCHANGED <<upstream, issued, status, poller, faults, pushed, losses, raw, events>>

\* Faulty: the worker keeps the job it is done with.
GotoKeepingJob(w, pc) == worker' = [worker EXCEPT ![w].pc = pc]

Goto(w, pc) ==
  worker' = [worker EXCEPT ![w] = IF pc = "idle" THEN Waiting ELSE [@ EXCEPT !.pc = pc]]

\* Faulty: any snapshot of the record will do.
ExistingRecord(job) == \E j \in Jobs : j[1] = job[1] /\ events[j] > 0

\* The SELECT by natural key.
Existing(job) == events[job] > 0

Check(w) ==
  /\ worker[w].pc = "popped"
  /\ Goto(w, IF Existing(worker[w].job) THEN "idle" ELSE "new")
  /\ UNCHANGED <<upstream, issued, pollVars, losses, raw, events>>

\* Faulty: the commit does not wait for the file.
AfterInspectLazy(bytes) == "stored"

\* Faulty: a file that is there means that the job has been done.
AfterInspectDone(bytes) == IF bytes = "absent" THEN "creating" ELSE "idle"

\* _write_idempotent: a file that is there must have the digest; one cut short
\* does not, and the job fails.
AfterInspect(bytes) ==
  CASE bytes = "absent" -> "creating"
    [] bytes = "full" -> "stored"
    [] OTHER -> "idle"

Inspect(w) ==
  /\ worker[w].pc = "new"
  /\ Goto(w, AfterInspect(raw[worker[w].job]))
  /\ UNCHANGED <<upstream, issued, pollVars, losses, raw, events>>

\* open(path, "wb") empties the file.
Open(w) ==
  /\ worker[w].pc = "creating"
  /\ raw' = [raw EXCEPT ![worker[w].job] = "partial"]
  /\ Goto(w, "writing")
  /\ UNCHANGED <<upstream, issued, pollVars, losses, events>>

Write(w) ==
  /\ worker[w].pc = "writing"
  /\ raw' = [raw EXCEPT ![worker[w].job] = "full"]
  /\ Goto(w, "stored")
  /\ UNCHANGED <<upstream, issued, pollVars, losses, events>>

\* Faulty: the table has no unique constraint.
AlwaysUnique(job) == TRUE

\* uq_snapshot_natural_key.
Unique(job) == events[job] = 0

\* The commit of snapshot, audit row and outbox event; the one that comes
\* second fails on the constraint, is rolled back and its job is over.
Commit(w) ==
  /\ worker[w].pc = "stored"
  /\ events' = IF Unique(worker[w].job)
               THEN [events EXCEPT ![worker[w].job] = @ + 1] ELSE events
  /\ Goto(w, "idle")
  /\ UNCHANGED <<upstream, issued, pollVars, losses, raw>>

\* A job fails on the way, which process() reports to nobody, or the worker
\* dies and is started again; the job is not put back either way.
Lose(w) ==
  /\ worker[w].pc \in LossAt
  /\ losses < MaxLosses
  /\ losses' = losses + 1
  /\ worker' \in {[worker EXCEPT ![w] = me] : me \in {Waiting, Off}}
  /\ UNCHANGED <<upstream, issued, pollVars, raw, events>>

-----------------------------------------------------------------------------
Init ==
  /\ upstream = [r \in Records |-> 0]
  /\ issued = 0
  /\ status = [cursor |-> 0, freshness |-> "none"]
  /\ poller = NoPoll
  /\ faults = 0
  /\ queue = <<>>
  /\ pushed = {}
  /\ worker = [w \in Workers |-> Off]
  /\ losses = 0
  /\ raw = [j \in Jobs |-> "absent"]
  /\ events = [j \in Jobs |-> 0]

Source == \E r \in Records : Create(r) \/ Edit(r) \/ Delete(r)

\* What the poller and a worker do when nothing goes wrong.
Poll == BeginPoll \/ FetchPage \/ FetchInventory \/ Enqueue \/ Checkpoint
Process(w) ==
  Pop(w) \/ Check(w) \/ Inspect(w) \/ Open(w) \/ Write(w) \/ Commit(w)

Next ==
  \/ Source
  \/ Poll \/ PollFails \/ PollerCrash
  \/ \E w \in Workers : Start(w) \/ Process(w) \/ Lose(w)

Spec == Init /\ [][Next]_vars

\* The poller and the workers loop for ever (run_forever) and the supervisor
\* restarts them; faults are finitely many.
FairSpec ==
  /\ Spec
  /\ WF_vars(Poll)
  /\ \A w \in Workers : WF_vars(Start(w)) /\ WF_vars(Process(w))

-----------------------------------------------------------------------------
(* Properties.                                                              *)

Busy == {"popped", "new", "creating", "writing", "stored"}

\* Every variable keeps its shape; a worker past BRPOP has a job that was
\* pushed, and only pushed jobs are recorded.
TypeOK ==
  /\ upstream \in [Records -> 0 .. MaxVersion]
  /\ issued \in Records \cup {0}
  /\ status \in [cursor : Records \cup {0}, freshness : {"none", "fresh", "stale"}]
  /\ poller \in [pc : {"idle", "fetching", "fetched", "enqueued"}, offset : Nat,
                 jobs : SUBSET Jobs]
  /\ queue \in Seq(pushed)
  /\ pushed \subseteq Jobs
  /\ worker \in [Workers -> [pc : {"off", "idle", "deaf"}, job : {NoJob}]
                            \cup [pc : Busy, job : pushed]]
  /\ raw \in [Jobs -> {"absent", "partial", "full"}]
  /\ events \in [Jobs -> Nat]
  /\ \A j \in Jobs : events[j] > 0 => j \in pushed
  /\ faults \in Nat /\ losses \in Nat

\* The cursor never gets past a record the source still lists unless that
\* record was pushed: "checkpoints persist cursor and health only after jobs are
\* durably enqueued" (_poll_source).
CursorMeansEnqueued ==
  \A r \in Present : r <= status.cursor => \E j \in pushed : j[1] = r

\* However often an observation is pushed and whichever workers race on it, it
\* makes one snapshot and one outbox event (ingest_finding, ingest_event).
OneEventPerObservation == \A j \in Jobs : events[j] <= 1

\* The bytes behind a committed snapshot are there and whole
\* (persist_evidence_bytes before the commit).
SnapshotHasBytes == \A j \in Jobs : events[j] > 0 => raw[j] = "full"

InHand == {worker[w].job : w \in Workers}
Queued == {queue[i] : i \in DOMAIN queue}

\* A pushed job is recorded, or still queued, or in the hands of a worker
\* (run_forever, process).
NotLost == \A j \in pushed : events[j] > 0 \/ j \in Queued \/ j \in InHand

\* What the source says of a record is recorded, unless it says something else
\* by then.
LatestIsRecorded ==
  \A j \in Jobs : upstream[j[1]] = j[2] ~> events[j] > 0 \/ upstream[j[1]] # j[2]

\* The workers get round to everything in the queue (run_forever).
JobsDoNotRemainQueued == []<>(queue = <<>>)

Feed == INSTANCE EvidenceFeed WITH published <- pushed, recorded <- events

\* Poller, queue and workers together are the feed of EvidenceFeed: what is
\* pushed is recorded, exactly once.
ImplementsFeed == Feed!FeedSpec
=============================================================================
