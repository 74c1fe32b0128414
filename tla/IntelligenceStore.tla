--------------------------- MODULE IntelligenceStore ---------------------------
(***************************************************************************)
(* The persisted vulnerability intelligence: the catalogue of known        *)
(* exploited vulnerabilities (KEV), which every orchestrator process loads *)
(* at its start and refreshes in its loop and a dedicated poller refreshes *)
(* on its own (vulnops/workers/orchestration.py, workers/intel_refresh.py, *)
(* intelligence/kev.py), and the OSV advisories the handlers cache beside  *)
(* it (intelligence/persistence.py).                                       *)
(*                                                                         *)
(* A refresh fetches the catalogue into the memory of its process, selects *)
(* the vulnerabilities it knows, inserts the others and flushes, selects   *)
(* the assertions and the row of source health, and commits.  The tables   *)
(* have keys derived from the data, so two writers that both found nothing *)
(* cannot both insert: the second waits for the first and then fails, and  *)
(* its whole transaction with it.  A question whether a vulnerability is   *)
(* known exploited is answered from memory, and from the tables only where *)
(* no catalogue was ever loaded.                                           *)
(*                                                                         *)
(* Times are ages: how long ago something was, up to the refresh interval. *)
(* What the source publishes is numbered by edition, and the time stamps   *)
(* of source health stand for the edition that was current at that time.   *)
(***************************************************************************)
EXTENDS Naturals

CONSTANTS
  Loops,       \* orchestrator processes
  Pollers,     \* processes of intel_refresh
  Cves,        \* vulnerability ids
  Interval,    \* setting KEV_REFRESH_INTERVAL_SECONDS
  Uptimes,     \* how long the host may have been up in the initial state
  MaxEdition,  \* bound on the changes of the published catalogue
  MaxFaults,   \* bound on the fetches and commits that fail and on the restarts
  MaxCaches,   \* bound on the cache writes of handlers
  Repeats,     \* the vulnerabilities two components of one event may share
  None

Procs == Loops \cup Pollers
Editions == 0 .. MaxEdition
Ages == 0 .. Interval
Sources == {"kev", "osv"}
Freshness == {"unknown", "fresh", "stale", "degraded"}

ASSUME IntelligenceConstants ==
  /\ Loops \cap Pollers = {}
  /\ Interval \in Nat \ {0} /\ Uptimes \subseteq Ages /\ Repeats \subseteq Cves
  /\ MaxEdition \in Nat /\ MaxFaults \in Nat /\ MaxCaches \in Nat
  /\ None \notin Nat /\ None \notin Cves

VARIABLES
  catalog,   \* the editions of the published catalogue
  edition,   \* the current one
  uptime,    \* time.monotonic(): the age of the host
  vulns,     \* table vulnerabilities
  asserted,  \* table advisory_assertions, by source
  status,    \* the row of source_statuses for the catalogue, None before the first
  adapter,   \* per process, its KEVAdapter: catalogue in memory and health
  task,      \* per process, where it is and what its session holds
  budget     \* failures, restarts and cache writes so far

tables == <<vulns, asserted, status>>
world == <<catalog, edition, uptime>>
vars == <<world, tables, adapter, task, budget>>

-----------------------------------------------------------------------------
(* Rows and records.                                                        *)

Health == [freshness : Freshness, success : Editions \cup {None}]
Unknown == [freshness |-> "unknown", success |-> None]

\* _catalog stays None until the first fetch that succeeds.
Adapter == [memory : SUBSET Cves, health : Health]
NoCatalog == [memory |-> {}, health |-> Unknown]
Loaded(p) == adapter[p].health.success # None

\* "for" is what the transaction under way is for.
Writing == {"select", "insert", "assert", "commit"}
Task ==
  [pc : Writing \cup {"boot", "loop", "refresh", "record", "serve", "sleep"},
   for : {"boot", "refresh", "cache"}, batch : SUBSET Cves, twice : SUBSET Cves,
   new : SUBSET Cves, missing : SUBSET Cves, known : BOOLEAN, since : Ages, age : Ages]
At(pc, age) ==
  [pc |-> pc, for |-> IF pc = "boot" THEN "boot" ELSE "refresh", batch |-> {},
   twice |-> {}, new |-> {}, missing |-> {}, known |-> FALSE, since |-> 0, age |-> age]
\* main() starts an orchestrator with a refresh, a poller with its first cycle;
\* the time of the last refresh is 0.0, the start of the host's clock.
Started(p) == At(IF p \in Loops THEN "boot" ELSE "refresh", uptime)

Budget == [faults : 0 .. MaxFaults, caches : 0 .. MaxCaches]
Fault == budget.faults < MaxFaults /\ budget' = [budget EXCEPT !.faults = @ + 1]

SourceOf(p) == IF task[p].for = "cache" THEN "osv" ELSE "kev"
Current == catalog[edition]

-----------------------------------------------------------------------------
(* The source and the clock.                                                *)

Publish ==
  /\ edition < MaxEdition
  /\ edition' = edition + 1
  /\ UNCHANGED <<catalog, uptime, tables, adapter, task, budget>>

Older(age) == IF age < Interval THEN age + 1 ELSE age

Tick ==
  /\ uptime' = Older(uptime)
  /\ task' = [p \in Procs |->
       [task[p] EXCEPT !.age = Older(@),
                       !.since = IF task[p].pc \in Writing THEN Older(@) ELSE @]]
  /\ UNCHANGED <<catalog, edition, tables, adapter, budget>>

-----------------------------------------------------------------------------
(* Where a process goes after a transaction.                                *)

\* Faulty: nothing is rolled back, the session keeps what it had to insert.
AfterFailureUnrolled(p, t) == [t EXCEPT !.pc = "serve", !.batch = {}]

\* The except clauses: an orchestrator that started without the catalogue goes
\* on, one that failed to refresh it records the health of its source, a
\* poller and a cache write only log.  A poller sleeps after every cycle.
AfterFailure(p, t) ==
  CASE t.for = "cache" -> At("serve", t.age)
    [] p \in Pollers -> At("sleep", 0)
    [] t.for = "boot" -> At("loop", t.age)
    [] OTHER -> At("record", t.age)

\* After the commit: the loop remembers when it began, main() when it ended.
AfterCommit(p, t) ==
  CASE t.for = "cache" -> At("serve", t.age)
    [] p \in Pollers -> At("sleep", 0)
    [] t.for = "boot" -> At("loop", 0)
    [] OTHER -> At("serve", t.since)

Becomes(p, t) == task' = [task EXCEPT ![p] = t]
GiveUp(p) == Becomes(p, AfterFailure(p, task[p]))

-----------------------------------------------------------------------------
(* Refreshing the catalogue.                                                *)

\* _maybe_refresh_kev_catalog, and the end of the poller's sleep.
Iterate(p) ==
  /\ task[p].pc \in {"loop", "sleep"}
  /\ task[p].pc = "sleep" => task[p].age = Interval
  /\ Becomes(p, At(IF task[p].age < Interval THEN "serve" ELSE "refresh", task[p].age))
  /\ UNCHANGED <<world, tables, adapter, budget>>

\* fetch_catalog: the answer replaces the catalogue in memory before anything
\* is stored.
Fetch(p) ==
  /\ task[p].pc \in {"boot", "refresh"}
  /\ adapter' = [adapter EXCEPT ![p] =
       [memory |-> Current, health |-> [freshness |-> "fresh", success |-> edition]]]
  /\ Becomes(p, [task[p] EXCEPT !.pc = "select", !.batch = Current])
  /\ UNCHANGED <<world, tables, budget>>

\* No answer, or one that is no catalogue: what is in memory stays.
FetchFails(p) ==
  /\ task[p].pc \in {"boot", "refresh"}
  /\ Fault
  /\ \E freshness \in {"stale", "degraded"} :
       adapter' = [adapter EXCEPT ![p].health.freshness = freshness]
  /\ GiveUp(p)
  /\ UNCHANGED <<world, tables>>

\* _persist_advisories: a handler caches what OSV answered for the components
\* of its event.
Cache(p, batch, twice) ==
  /\ p \in Loops
  /\ task[p].pc = "serve"
  /\ batch # {}
  /\ budget.caches < MaxCaches
  /\ budget' = [budget EXCEPT !.caches = @ + 1]
  /\ Becomes(p, [task[p] EXCEPT !.pc = "select", !.for = "cache", !.batch = batch,
                                !.twice = twice \cap batch])
  /\ UNCHANGED <<world, tables, adapter>>

-----------------------------------------------------------------------------
(* upsert_advisory_records.                                                 *)

\* Faulty: every record is inserted, known or not.
SelectNothing(p) ==
  /\ task[p].pc = "select"
  /\ Becomes(p, [task[p] EXCEPT !.pc = "insert", !.new = task[p].batch])
  /\ UNCHANGED <<world, tables, adapter, budget>>

\* The SELECT of every vulnerability.  Sessions do not flush on their own, so
\* a second record of the same vulnerability finds nothing either.
Select(p) ==
  /\ task[p].pc = "select"
  /\ Becomes(p, [task[p] EXCEPT !.pc = "insert", !.new = task[p].batch \ vulns])
  /\ UNCHANGED <<world, tables, adapter, budget>>

\* The keys other transactions have inserted and not yet committed.
HeldByOthers(p) ==
  UNION {task[q].new : q \in {r \in Procs \ {p} : task[r].pc \in {"assert", "commit"}}}

\* The flush of the vulnerabilities waits for whoever is inserting one of them
\* and fails when it is there by then, or when the batch itself has it twice.
Insert(p) ==
  /\ task[p].pc = "insert"
  /\ task[p].new \cap HeldByOthers(p) = {}
  /\ IF task[p].new \cap (vulns \cup task[p].twice) = {}
     THEN Becomes(p, [task[p] EXCEPT !.pc = "assert"])
     ELSE GiveUp(p)
  /\ UNCHANGED <<world, tables, adapter, budget>>

\* The SELECTs of assertions and of source health.
Assert(p) ==
  /\ task[p].pc = "assert"
  /\ Becomes(p, [task[p] EXCEPT !.pc = "commit", !.known = (status # None),
                   !.missing = task[p].batch \ asserted[SourceOf(p)]])
  /\ UNCHANGED <<world, tables, adapter, budget>>

\* upsert_source_health: the last success is written with a fresh status only.
Mirror(health) ==
  [freshness |-> health.freshness,
   success |-> IF health.freshness = "fresh" THEN health.success
               ELSE IF status = None THEN None ELSE status.success]

Clashes(p) ==
  \/ task[p].missing \cap (asserted[SourceOf(p)] \cup task[p].twice) # {}
  \/ SourceOf(p) = "kev" /\ ~task[p].known /\ status # None

Commit(p) ==
  /\ task[p].pc = "commit"
  /\ ~Clashes(p)
  /\ vulns' = vulns \cup task[p].new
  /\ asserted' = [asserted EXCEPT ![SourceOf(p)] = @ \cup task[p].batch]
  /\ status' = IF SourceOf(p) = "kev" THEN Mirror(adapter[p].health) ELSE status
  /\ Becomes(p, AfterCommit(p, task[p]))
  /\ UNCHANGED <<world, adapter, budget>>

CommitFails(p) ==
  /\ task[p].pc = "commit"
  /\ Clashes(p)
  /\ GiveUp(p)
  /\ UNCHANGED <<world, tables, adapter, budget>>

DatabaseFails(p) ==
  /\ task[p].pc \in Writing
  /\ Fault
  /\ GiveUp(p)
  /\ UNCHANGED <<world, tables, adapter>>

\* The health of the source after a failed refresh, in a transaction of its
\* own that may fail as well.
Record(p) ==
  /\ task[p].pc = "record"
  /\ \/ /\ status' = Mirror(adapter[p].health)
        /\ UNCHANGED budget
     \/ /\ Fault
        /\ UNCHANGED status
  /\ Becomes(p, At("serve", task[p].age))
  /\ UNCHANGED <<world, vulns, asserted, adapter>>

-----------------------------------------------------------------------------
(* Using it.                                                                *)

\* Faulty: a row in the tables counts although the catalogue is loaded.
IsKevAnywhere(p, c) ==
  c \in asserted["kev"] \/ c \in adapter[p].memory

\* is_kev: memory governs where it is loaded, is_kev_persisted where it is not.
IsKev(p, c) ==
  IF Loaded(p) THEN c \in adapter[p].memory ELSE c \in asserted["kev"]

\* run_once is through, and the loop starts over.
Drained(p) ==
  /\ p \in Loops
  /\ task[p].pc = "serve"
  /\ Becomes(p, At("loop", task[p].age))
  /\ UNCHANGED <<world, tables, adapter, budget>>

\* The process dies and is started again: its transaction is rolled back.
Crash(p) ==
  /\ Fault
  /\ adapter' = [adapter EXCEPT ![p] = NoCatalog]
  /\ Becomes(p, Started(p))
  /\ UNCHANGED <<world, tables>>

-----------------------------------------------------------------------------
Init ==
  /\ catalog \in [Editions -> SUBSET Cves]
  /\ edition = 0
  /\ uptime \in Uptimes
  /\ vulns = {}
  /\ asserted = [s \in Sources |-> {}]
  /\ status = None
  /\ adapter = [p \in Procs |-> NoCatalog]
  /\ task = [p \in Procs |-> Started(p)]
  /\ budget = [faults |-> 0, caches |-> 0]

\* What a process does on its own.
Proceed(p) ==
  \/ Iterate(p) \/ Fetch(p) \/ Select(p) \/ Insert(p) \/ Assert(p)
  \/ Commit(p) \/ CommitFails(p) \/ Record(p) \/ Drained(p)

Interfere(p) ==
  \/ FetchFails(p) \/ DatabaseFails(p) \/ Crash(p)
  \/ \E batch \in SUBSET Cves, twice \in SUBSET Repeats : Cache(p, batch, twice)

Next ==
  \/ Publish \/ Tick
  \/ \E p \in Procs : Proceed(p) \/ Interfere(p)

Spec == Init /\ [][Next]_vars

\* Processes keep running and time passes; sources and databases fail finitely
\* often because the budget says so.
Fairness == WF_vars(Tick) /\ \A p \in Procs : WF_vars(Proceed(p))
FairSpec == Spec /\ Fairness

-----------------------------------------------------------------------------
(* Properties.                                                              *)

\* The tables, adapters and transactions keep their shapes, and a transaction
\* inserts no vulnerability outside its batch.
TypeOK ==
  /\ catalog \in [Editions -> SUBSET Cves]
  /\ edition \in Editions
  /\ uptime \in Ages
  /\ vulns \subseteq Cves
  /\ asserted \in [Sources -> SUBSET Cves]
  /\ status \in Health \cup {None}
  /\ adapter \in [Procs -> Adapter]
  /\ task \in [Procs -> Task]
  /\ \A p \in Procs : task[p].new \cup task[p].missing \subseteq task[p].batch
  /\ budget \in Budget

\* Whatever a handler asks, an answer from memory is that of the edition its
\* process last fetched, as docs/plans/2026-09-12-m2-intel-persistence.md:36
\* promises: rows that were withdrawn since do not escalate while a catalogue is
\* loaded.  An answer from the tables, which a process without a catalogue
\* gives, never names what no edition up to then has listed.
EscalationFollowsCatalog ==
  \A p \in Loops, c \in Cves : task[p].pc = "serve" =>
    /\ Loaded(p) => (IsKev(p, c) <=> c \in catalog[adapter[p].health.success])
    /\ IsKev(p, c) => \E e \in 0 .. edition : c \in catalog[e]

\* Once the catalogue stops changing, every orchestrator works with the last
\* edition and the tables hold all of it, whatever fetches, commits and
\* processes failed before and whoever else was writing.
EventuallyCurrent ==
  \A p \in Loops : <>[](adapter[p].memory = Current /\ Current \subseteq asserted["kev"])

\* A status that says fresh since an edition vouches for its records: they are
\* stored.  (persistence.py:66 "Mirror adapter SourceHealth into
\* source_statuses"; the source-health page shows it.)
FreshIsStored ==
  (status # None /\ status.freshness = "fresh")
    => catalog[status.success] \subseteq asserted["kev"]

\* An orchestrator without a catalogue does not go on to its events before it
\* has tried to load one, as docs/plans/2026-09-12-m2-intel-persistence.md:11
\* has it ("on orchestrator startup, on a configurable interval").
UnloadedTriesAgain ==
  [][\A p \in Loops : (task[p].pc = "loop" /\ task'[p].pc = "serve")
                        => Loaded(p)]_vars

\* What an orchestrator has fetched from OSV for an event is cached unless
\* another writer or a failure came in between
\* (docs/plans/2026-09-12-m2-intel-persistence.md:8).
AloneCachesAll ==
  [][\A p \in Loops : (task[p].pc \in {"insert", "commit"} /\ task[p].for = "cache"
                        /\ task'[p].pc = "serve")
                        => task[p].batch \subseteq asserted'["osv"]]_vars
=============================================================================
