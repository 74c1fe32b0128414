------------------------ MODULE IntelligenceStoreProofs ------------------------
(***************************************************************************)
(* What IntelligenceStore keeps for any number of orchestrators, pollers   *)
(* and vulnerabilities, however long it runs and whatever fails.           *)
(*                                                                         *)
(* An answer from memory is right because memory and the success of the    *)
(* adapter are replaced together; one from the tables because everything   *)
(* on its way there comes from an edition that was once published.  What   *)
(* handlers cache goes by the same transactions, so the argument has to    *)
(* tell the two kinds of batches apart.                                    *)
(*                                                                         *)
(* The last two parts say whose fault it is when a promise of the tables   *)
(* is broken: a status that vouches for nothing is written by Record       *)
(* alone, and an advisory is lost to another writer, a failure or a record *)
(* that is named twice.                                                    *)
(***************************************************************************)
EXTENDS IntelligenceStore, TLAPS

\* The vulnerabilities the catalogue has listed so far.
Seen == {c \in Cves : \E e \in 0 .. edition : c \in catalog[e]}

\* What a session has found missing is part of its batch, and nothing of it
\* outlives its transaction.
Tidy(t) ==
  /\ t \in Task
  /\ t.new \cup t.missing \subseteq t.batch
  /\ t.pc \notin {"insert", "assert", "commit"} => t.new = {}
  /\ t.pc # "commit" => t.missing = {}

\* A transaction of the catalogue writes what was published.
Vouched(t) == t.pc \in Writing /\ t.for # "cache" => t.batch \subseteq Seen

Tables ==
  /\ catalog \in [Editions -> SUBSET Cves]
  /\ edition \in Editions
  /\ uptime \in Ages
  /\ vulns \subseteq Cves
  /\ asserted \in [Sources -> SUBSET Cves]
  /\ status \in Health \cup {None}
  /\ adapter \in [Procs -> Adapter]
  /\ budget \in Budget

Tasks ==
  /\ task \in [Procs -> Task]
  /\ \A p \in Procs : Tidy(task[p]) /\ Vouched(task[p])

\* Memory is what the source had listed at the last success.
MemoryIsDated ==
  \A p \in Procs : Loaded(p) =>
    /\ adapter[p].health.success \in 0 .. edition
    /\ adapter[p].memory = catalog[adapter[p].health.success]

StoredWasSeen == asserted["kev"] \subseteq Seen

IInv == Tables /\ Tasks /\ MemoryIsDated /\ StoredWasSeen

-----------------------------------------------------------------------------
(* What a process becomes.                                                  *)

LEMMA AtIsTidy ==
  ASSUME NEW pc \in {"boot", "loop", "refresh", "record", "serve", "sleep"}, NEW age \in Ages
  PROVE  /\ Tidy(At(pc, age)) /\ Vouched(At(pc, age))
         /\ At(pc, age).pc = pc
  <1>1. At(pc, age) \in Task
    BY IntelligenceConstants DEF At, Task, Ages, Writing
  <1>2. /\ At(pc, age).pc = pc /\ At(pc, age).new = {} /\ At(pc, age).missing = {}
        /\ pc \notin Writing
    BY DEF At, Writing
  <1> QED BY <1>1, <1>2 DEF Tidy, Vouched, Writing

LEMMA ZeroIsAge == 0 \in Ages
  BY IntelligenceConstants DEF Ages

LEMMA StartedIsTidy ==
  ASSUME uptime \in Ages, NEW p \in Procs
  PROVE  Tidy(Started(p)) /\ Vouched(Started(p))
  BY AtIsTidy DEF Started

\* Giving up and committing both end the transaction.
LEMMA EndIsTidy ==
  ASSUME NEW p \in Procs, NEW t \in Task
  PROVE  /\ Tidy(AfterFailure(p, t)) /\ Vouched(AfterFailure(p, t))
         /\ Tidy(AfterCommit(p, t)) /\ Vouched(AfterCommit(p, t))
  <1>1. t.age \in Ages /\ t.since \in Ages
    BY DEF Task
  <1>2. AfterFailure(p, t) \in
          {At("serve", t.age), At("sleep", 0), At("loop", t.age), At("record", t.age)}
    BY DEF AfterFailure
  <1>3. AfterCommit(p, t) \in
          {At("serve", t.age), At("sleep", 0), At("loop", 0), At("serve", t.since)}
    BY DEF AfterCommit
  <1> QED BY <1>1, <1>2, <1>3, AtIsTidy, ZeroIsAge

\* A step that changes the task of one process and not the catalogue.
LEMMA BecomesTidy ==
  ASSUME Tasks, NEW p \in Procs, NEW t, Tidy(t), Vouched(t), Becomes(p, t),
         UNCHANGED <<catalog, edition>>
  PROVE  Tasks'
  <1>1. t \in Task
    BY DEF Tidy
  <1>2. task' \in [Procs -> Task]
    BY <1>1 DEF Becomes, Tasks
  <1>3. ASSUME NEW q \in Procs PROVE Tidy(task'[q]) /\ Vouched(task'[q])
    BY DEF Becomes, Tasks
  <1>4. Seen' = Seen
    BY DEF Seen
  <1>5. ASSUME NEW q \in Procs PROVE Tidy(task[q])' /\ Vouched(task[q])'
    BY <1>3, <1>4 DEF Tidy, Vouched
  <1> QED BY <1>2, <1>5 DEF Tasks

-----------------------------------------------------------------------------
(* The initial states.                                                      *)

LEMMA InitIInv == Init => IInv
  <1> SUFFICES ASSUME Init PROVE IInv
    OBVIOUS
  <1>1. NoCatalog \in Adapter
    BY DEF NoCatalog, Adapter, Unknown, Health, Freshness
  <1>2. Tables
    <2>1. /\ uptime \in Ages /\ edition \in Editions
          /\ [faults |-> 0, caches |-> 0] \in Budget
      BY IntelligenceConstants DEF Init, Editions, Budget
    <2> QED BY <1>1, <2>1 DEF Init, Tables
  <1>3. Tasks
    <2>1. uptime \in Ages
      BY <1>2 DEF Tables
    <2>2. ASSUME NEW p \in Procs PROVE Started(p) \in Task
      BY <2>1, StartedIsTidy DEF Tidy
    <2>3. task = [p \in Procs |-> Started(p)]
      BY DEF Init
    <2> QED BY <2>1, <2>2, <2>3, StartedIsTidy DEF Tasks
  <1>4. MemoryIsDated
    BY DEF Init, MemoryIsDated, Loaded, NoCatalog, Unknown
  <1>5. StoredWasSeen
    BY DEF Init, StoredWasSeen, Sources
  <1> QED BY <1>2, <1>3, <1>4, <1>5 DEF IInv

-----------------------------------------------------------------------------
(* The steps.                                                               *)

LEMMA PublishStep == IInv /\ Publish => IInv'
  <1> SUFFICES ASSUME IInv, Publish PROVE IInv'
    OBVIOUS
  <1>1. /\ edition \in Nat /\ edition' = edition + 1 /\ edition' \in Editions
        /\ UNCHANGED <<catalog, uptime, tables, adapter, task, budget>>
    BY IntelligenceConstants DEF IInv, Tables, Publish, Editions
  <1>2. Seen \subseteq Seen'
    BY <1>1 DEF Seen
  <1>3. Tables'
    BY <1>1 DEF IInv, Tables, tables
  <1>4. Tasks'
    <2>1. ASSUME NEW p \in Procs PROVE Tidy(task[p])' /\ Vouched(task[p])'
      BY <1>1, <1>2 DEF IInv, Tasks, Tidy, Vouched
    <2> QED BY <1>1, <2>1 DEF IInv, Tasks
  <1>5. MemoryIsDated'
    BY <1>1 DEF IInv, MemoryIsDated, Loaded
  <1>6. StoredWasSeen'
    BY <1>1, <1>2 DEF IInv, StoredWasSeen, tables
  <1> QED BY <1>3, <1>4, <1>5, <1>6 DEF IInv

LEMMA OlderIsAge == \A age \in Ages : Older(age) \in Ages
  BY IntelligenceConstants DEF Older, Ages

LEMMA TickStep == IInv /\ Tick => IInv'
  <1> SUFFICES ASSUME IInv, Tick PROVE IInv'
    OBVIOUS
  <1>1. /\ UNCHANGED <<catalog, edition, tables, adapter, budget>>
        /\ uptime' \in Ages
    BY OlderIsAge DEF Tick, IInv, Tables
  <1>2. Seen' = Seen
    BY <1>1 DEF Seen
  <1>3. Tasks'
    <2> DEFINE since(p) == IF task[p].pc \in Writing THEN Older(task[p].since)
                                                     ELSE task[p].since
               aged(p) == [task[p] EXCEPT !.age = Older(@), !.since = since(p)]
    <2>1. task' = [p \in Procs |-> aged(p)]
      BY DEF Tick
    <2>2. ASSUME NEW p \in Procs
          PROVE  /\ aged(p) \in Task
                 /\ aged(p).pc = task[p].pc /\ aged(p).for = task[p].for
                 /\ aged(p).batch = task[p].batch /\ aged(p).new = task[p].new
                 /\ aged(p).missing = task[p].missing
      <3>1. task[p] \in Task
        BY DEF IInv, Tasks
      <3>2. since(p) \in Ages /\ Older(task[p].age) \in Ages
        BY <3>1, OlderIsAge DEF Task
      <3> QED BY <3>1, <3>2 DEF Task
    <2> HIDE DEF aged
    <2>3. task' \in [Procs -> Task]
      BY <2>1, <2>2
    <2>4. ASSUME NEW p \in Procs PROVE Tidy(task[p])' /\ Vouched(task[p])'
      <3>1. task'[p] = aged(p)
        BY <2>1
      <3>2. Tidy(task[p]) /\ Vouched(task[p])
        BY DEF IInv, Tasks
      <3> QED BY <1>2, <2>2, <3>1, <3>2 DEF Tidy, Vouched
    <2> QED BY <2>3, <2>4 DEF Tasks
  <1>4. Tables'
    BY <1>1 DEF IInv, Tables, tables
  <1>5. MemoryIsDated' /\ StoredWasSeen'
    BY <1>1, <1>2 DEF IInv, MemoryIsDated, Loaded, StoredWasSeen, tables
  <1> QED BY <1>3, <1>4, <1>5 DEF IInv
\* What the conclusions need of a step that leaves memory and tables alone.
LEMMA QuietStep ==
  ASSUME IInv, UNCHANGED <<world, tables, adapter>>, budget' \in Budget, Tasks'
  PROVE  IInv'
  <1>1. Seen' = Seen
    BY DEF Seen, world
  <1>2. Tables'
    BY DEF IInv, Tables, world, tables
  <1>3. MemoryIsDated' /\ StoredWasSeen'
    BY <1>1 DEF IInv, MemoryIsDated, Loaded, StoredWasSeen, tables, world
  <1> QED BY <1>2, <1>3 DEF IInv

LEMMA BudgetStep == IInv /\ Fault => budget' \in Budget
  <1> SUFFICES ASSUME IInv, Fault PROVE budget' \in Budget
    OBVIOUS
  <1>1. /\ budget \in [faults : 0 .. MaxFaults, caches : 0 .. MaxCaches]
        /\ budget.faults < MaxFaults /\ budget' = [budget EXCEPT !.faults = @ + 1]
    BY DEF IInv, Tables, Budget, Fault
  <1>2. budget.faults + 1 \in 0 .. MaxFaults
    BY <1>1, IntelligenceConstants
  <1> QED BY <1>1, <1>2 DEF Budget

LEMMA GiveUpTidy ==
  ASSUME IInv, NEW p \in Procs, GiveUp(p), UNCHANGED <<catalog, edition>>
  PROVE  Tasks'
  <1>1. Tasks /\ task[p] \in Task
    BY DEF IInv, Tasks
  <1> QED BY <1>1, EndIsTidy, BecomesTidy DEF GiveUp

LEMMA IterateStep == ASSUME IInv, NEW p \in Procs, Iterate(p) PROVE IInv'
  <1> DEFINE pc == IF task[p].age < Interval THEN "serve" ELSE "refresh"
  <1>1. Tasks /\ task[p].age \in Ages
    BY DEF IInv, Tasks, Task
  <1>2. Tidy(At(pc, task[p].age)) /\ Vouched(At(pc, task[p].age))
    BY <1>1, AtIsTidy
  <1>3. Becomes(p, At(pc, task[p].age)) /\ UNCHANGED <<world, tables, adapter, budget>>
    BY DEF Iterate
  <1>4. Tasks'
    BY <1>1, <1>2, <1>3, BecomesTidy DEF world
  <1> QED BY <1>3, <1>4, QuietStep DEF IInv, Tables

LEMMA FetchStep == ASSUME IInv, NEW p \in Procs, Fetch(p) PROVE IInv'
  <1> DEFINE t == [task[p] EXCEPT !.pc = "select", !.batch = Current]
             fetched == [memory |-> Current,
                         health |-> [freshness |-> "fresh", success |-> edition]]
  <1>1. /\ Becomes(p, t) /\ adapter' = [adapter EXCEPT ![p] = fetched]
        /\ UNCHANGED <<world, tables, budget>>
        /\ task[p].pc \in {"boot", "refresh"}
    BY DEF Fetch
  <1>2. task[p] \in Task /\ task[p].new = {} /\ task[p].missing = {}
    BY <1>1 DEF IInv, Tasks, Tidy
  <1>3. Current \subseteq Cves /\ Current \subseteq Seen /\ edition \in 0 .. edition
    BY IntelligenceConstants DEF IInv, Tables, Current, Seen, Editions
  <1>4. Tidy(t) /\ Vouched(t)
    <2>1. t \in Task /\ t.pc = "select" /\ t.batch = Current
          /\ t.new = {} /\ t.missing = {}
      BY <1>2, <1>3 DEF Task, Writing
    <2> HIDE DEF t
    <2> QED BY <2>1, <1>3 DEF Tidy, Vouched
  <1>5. Tasks'
    <2> HIDE DEF t
    <2> QED BY <1>1, <1>4, BecomesTidy DEF IInv, world
  <1>6. fetched \in Adapter
    BY <1>3 DEF IInv, Tables, Adapter, Health, Freshness
  <1>7. Tables'
    <2> HIDE DEF fetched
    <2> QED BY <1>1, <1>6 DEF IInv, Tables, world, tables
  <1>8. MemoryIsDated'
    <2> SUFFICES ASSUME NEW q \in Procs, Loaded(q)'
                 PROVE  /\ adapter'[q].health.success \in 0 .. edition'
                        /\ adapter'[q].memory = catalog'[adapter'[q].health.success]
      BY DEF MemoryIsDated
    <2>1. CASE q = p
      <3>1. adapter'[q] = fetched
        BY <1>1, <2>1 DEF IInv, Tables
      <3> QED BY <1>1, <1>3, <3>1 DEF Current, world
    <2>2. CASE q # p
      <3>1. adapter'[q] = adapter[q]
        BY <1>1, <2>2 DEF IInv, Tables
      <3> QED BY <1>1, <3>1 DEF IInv, MemoryIsDated, Loaded, world
    <2> QED BY <2>1, <2>2
  <1>9. StoredWasSeen'
    BY <1>1 DEF IInv, StoredWasSeen, Seen, world, tables
  <1> QED BY <1>5, <1>7, <1>8, <1>9 DEF IInv

LEMMA FetchFailsStep == ASSUME IInv, NEW p \in Procs, FetchFails(p) PROVE IInv'
  <1>1. PICK freshness \in {"stale", "degraded"} :
          adapter' = [adapter EXCEPT ![p].health.freshness = freshness]
    BY DEF FetchFails
  <1>2. Fault /\ GiveUp(p) /\ UNCHANGED <<world, tables>>
    BY DEF FetchFails
  <1>3. /\ adapter' \in [Procs -> Adapter]
        /\ \A q \in Procs : /\ adapter'[q].memory = adapter[q].memory
                            /\ adapter'[q].health.success = adapter[q].health.success
    <2>1. adapter \in [Procs -> Adapter]
      BY DEF IInv, Tables
    <2> DEFINE a == [adapter[p] EXCEPT !.health.freshness = freshness]
    <2>2. a \in Adapter /\ a.memory = adapter[p].memory
          /\ a.health.success = adapter[p].health.success
      BY <2>1 DEF Adapter, Health, Freshness
    <2>3. adapter' = [adapter EXCEPT ![p] = a]
      BY <1>1, <2>1
    <2> HIDE DEF a
    <2> QED BY <2>1, <2>2, <2>3
  <1>4. Tasks'
    BY <1>2, GiveUpTidy DEF world
  <1>5. Tables'
    BY <1>2, <1>3, BudgetStep DEF IInv, Tables, world, tables
  <1>6. MemoryIsDated' /\ StoredWasSeen'
    BY <1>2, <1>3 DEF IInv, MemoryIsDated, Loaded, StoredWasSeen, Seen, world, tables
  <1> QED BY <1>4, <1>5, <1>6 DEF IInv

LEMMA CacheStep ==
  ASSUME IInv, NEW p \in Procs, NEW batch \in SUBSET Cves, NEW twice \in SUBSET Repeats,
         Cache(p, batch, twice)
  PROVE  IInv'
  <1> DEFINE t == [task[p] EXCEPT !.pc = "select", !.for = "cache", !.batch = batch,
                                  !.twice = twice \cap batch]
  <1>1. /\ Becomes(p, t) /\ task[p].pc = "serve" /\ budget.caches < MaxCaches
        /\ budget' = [budget EXCEPT !.caches = @ + 1]
        /\ UNCHANGED <<world, tables, adapter>>
    BY DEF Cache
  <1>2. task[p] \in Task /\ task[p].new = {} /\ task[p].missing = {}
    BY <1>1 DEF IInv, Tasks, Tidy
  <1>3. Tidy(t) /\ Vouched(t)
    <2>1. t \in Task /\ t.for = "cache" /\ t.new = {} /\ t.missing = {} /\ t.pc = "select"
      BY <1>2 DEF Task, Writing
    <2> HIDE DEF t
    <2> QED BY <2>1 DEF Tidy, Vouched
  <1>4. Tasks'
    <2> HIDE DEF t
    <2> QED BY <1>1, <1>3, BecomesTidy DEF IInv, world
  <1>5. budget' \in Budget
    <2>1. budget \in [faults : 0 .. MaxFaults, caches : 0 .. MaxCaches]
      BY DEF IInv, Tables, Budget
    <2>2. budget.caches + 1 \in 0 .. MaxCaches
      BY <1>1, <2>1, IntelligenceConstants
    <2> QED BY <1>1, <2>1, <2>2 DEF Budget
  <1> QED BY <1>1, <1>4, <1>5, QuietStep

LEMMA SelectStep == ASSUME IInv, NEW p \in Procs, Select(p) PROVE IInv'
  <1> DEFINE t == [task[p] EXCEPT !.pc = "insert", !.new = task[p].batch \ vulns]
  <1>1. Becomes(p, t) /\ task[p].pc = "select" /\ UNCHANGED <<world, tables, adapter, budget>>
    BY DEF Select
  <1>2. Tidy(task[p]) /\ Vouched(task[p]) /\ task[p] \in Task
    BY DEF IInv, Tasks
  <1>3. Tidy(t) /\ Vouched(t)
    <2>1. /\ t \in Task /\ t.pc = "insert" /\ t.new \subseteq t.batch
          /\ t.missing = task[p].missing /\ t.batch = task[p].batch /\ t.for = task[p].for
      BY <1>2 DEF Task, Writing
    <2> HIDE DEF t
    <2> QED BY <1>1, <1>2, <2>1 DEF Tidy, Vouched, Writing
  <1>4. Tasks'
    <2> HIDE DEF t
    <2> QED BY <1>1, <1>3, BecomesTidy DEF IInv, world
  <1> QED BY <1>1, <1>4, QuietStep DEF IInv, Tables

LEMMA InsertStep == ASSUME IInv, NEW p \in Procs, Insert(p) PROVE IInv'
  <1> DEFINE t == [task[p] EXCEPT !.pc = "assert"]
  <1>1. /\ task[p].pc = "insert" /\ UNCHANGED <<world, tables, adapter, budget>>
        /\ Becomes(p, t) \/ GiveUp(p)
    BY DEF Insert
  <1>2. Tidy(task[p]) /\ Vouched(task[p]) /\ task[p] \in Task
    BY DEF IInv, Tasks
  <1>3. Tidy(t) /\ Vouched(t)
    <2>1. /\ t \in Task /\ t.pc = "assert" /\ t.new = task[p].new
          /\ t.missing = task[p].missing /\ t.batch = task[p].batch /\ t.for = task[p].for
      BY <1>2 DEF Task, Writing
    <2> HIDE DEF t
    <2> QED BY <1>1, <1>2, <2>1 DEF Tidy, Vouched, Writing
  <1>4. Tasks'
    <2> HIDE DEF t
    <2>1. CASE Becomes(p, t)
      BY <1>1, <1>3, <2>1, BecomesTidy DEF IInv, world
    <2>2. CASE GiveUp(p)
      BY <1>1, <2>2, GiveUpTidy DEF world
    <2> QED BY <1>1, <2>1, <2>2
  <1> QED BY <1>1, <1>4, QuietStep DEF IInv, Tables

LEMMA AssertStep == ASSUME IInv, NEW p \in Procs, Assert(p) PROVE IInv'
  <1> DEFINE known == status # None
             t == [task[p] EXCEPT !.pc = "commit", !.known = known,
                                  !.missing = task[p].batch \ asserted[SourceOf(p)]]
  <1>1. Becomes(p, t) /\ task[p].pc = "assert" /\ UNCHANGED <<world, tables, adapter, budget>>
    BY DEF Assert
  <1>2. Tidy(task[p]) /\ Vouched(task[p]) /\ task[p] \in Task /\ known \in BOOLEAN
    BY DEF IInv, Tasks
  <1>3. Tidy(t) /\ Vouched(t)
    <2> HIDE DEF known
    <2>1. /\ t \in Task /\ t.pc = "commit" /\ t.new = task[p].new
          /\ t.missing \subseteq task[p].batch /\ t.batch = task[p].batch
          /\ t.for = task[p].for
      BY <1>2 DEF Task, Writing
    <2> HIDE DEF t
    <2> QED BY <1>1, <1>2, <2>1 DEF Tidy, Vouched, Writing
  <1>4. Tasks'
    <2> HIDE DEF t
    <2> QED BY <1>1, <1>3, BecomesTidy DEF IInv, world
  <1> QED BY <1>1, <1>4, QuietStep DEF IInv, Tables

LEMMA MirrorIsHealth ==
  ASSUME Tables, NEW p \in Procs
  PROVE  Mirror(adapter[p].health) \in Health
  <1>1. adapter[p].health \in Health /\ status \in Health \cup {None}
    BY DEF Tables, Adapter
  <1> QED BY <1>1 DEF Mirror, Health

LEMMA CommitStep == ASSUME IInv, NEW p \in Procs, Commit(p) PROVE IInv'
  <1>1. /\ task[p].pc = "commit" /\ Becomes(p, AfterCommit(p, task[p]))
        /\ vulns' = vulns \cup task[p].new
        /\ asserted' = [asserted EXCEPT ![SourceOf(p)] = @ \cup task[p].batch]
        /\ status' = IF SourceOf(p) = "kev" THEN Mirror(adapter[p].health) ELSE status
        /\ UNCHANGED <<world, adapter, budget>>
    BY DEF Commit
  <1>2. /\ Tidy(task[p]) /\ Vouched(task[p])
        /\ task[p].batch \subseteq Cves /\ task[p].new \subseteq Cves
    BY DEF IInv, Tasks, Task
  <1>3. SourceOf(p) \in Sources /\ asserted \in [Sources -> SUBSET Cves]
    BY DEF SourceOf, Sources, IInv, Tables
  <1>4. Tasks'
    <2>1. task[p] \in Task /\ Tasks
      BY DEF IInv, Tasks
    <2> QED BY <1>1, <2>1, EndIsTidy, BecomesTidy DEF world
  <1>5. Tables'
    <2>1. vulns' \subseteq Cves
      BY <1>1, <1>2 DEF IInv, Tables
    <2>2. asserted' \in [Sources -> SUBSET Cves]
      BY <1>1, <1>2, <1>3
    <2>3. status' \in Health \cup {None}
      BY <1>1, MirrorIsHealth DEF IInv, Tables
    <2> QED BY <1>1, <2>1, <2>2, <2>3 DEF IInv, Tables, world
  <1>6. Seen' = Seen
    BY <1>1 DEF Seen, world
  <1>7. StoredWasSeen'
    <2>1. CASE SourceOf(p) = "kev"
      <3>1. task[p].batch \subseteq Seen
        BY <1>1, <1>2, <2>1 DEF Vouched, Writing, SourceOf
      <3>2. asserted'["kev"] = asserted["kev"] \cup task[p].batch
        BY <1>1, <1>3, <2>1
      <3> QED BY <1>6, <3>1, <3>2 DEF IInv, StoredWasSeen
    <2>2. CASE SourceOf(p) # "kev"
      <3>1. asserted'["kev"] = asserted["kev"]
        BY <1>1, <1>3, <2>2 DEF Sources
      <3> QED BY <1>6, <3>1 DEF IInv, StoredWasSeen
    <2> QED BY <2>1, <2>2
  <1>8. MemoryIsDated'
    BY <1>1 DEF IInv, MemoryIsDated, Loaded, world
  <1> QED BY <1>4, <1>5, <1>7, <1>8 DEF IInv

LEMMA FailStep ==
  ASSUME IInv, NEW p \in Procs, CommitFails(p) \/ DatabaseFails(p)
  PROVE  IInv'
  <1>1. GiveUp(p) /\ UNCHANGED <<world, tables, adapter>>
    BY DEF CommitFails, DatabaseFails
  <1>2. budget' \in Budget
    BY BudgetStep DEF CommitFails, DatabaseFails, IInv, Tables
  <1>3. Tasks'
    BY <1>1, GiveUpTidy DEF world
  <1> QED BY <1>1, <1>2, <1>3, QuietStep

LEMMA RecordStep == ASSUME IInv, NEW p \in Procs, Record(p) PROVE IInv'
  <1>1. /\ Becomes(p, At("serve", task[p].age))
        /\ UNCHANGED <<world, vulns, asserted, adapter>>
        /\ \/ status' = Mirror(adapter[p].health) /\ UNCHANGED budget
           \/ Fault /\ UNCHANGED status
    BY DEF Record
  <1>2. Tasks'
    <2>1. Tasks /\ task[p].age \in Ages
      BY DEF IInv, Tasks, Task
    <2> QED BY <1>1, <2>1, AtIsTidy, BecomesTidy DEF world
  <1>3. status' \in Health \cup {None} /\ budget' \in Budget
    BY <1>1, MirrorIsHealth, BudgetStep DEF IInv, Tables
  <1>4. Tables'
    BY <1>1, <1>3 DEF IInv, Tables, world
  <1>5. MemoryIsDated' /\ StoredWasSeen'
    BY <1>1 DEF IInv, MemoryIsDated, Loaded, StoredWasSeen, Seen, world
  <1> QED BY <1>2, <1>4, <1>5 DEF IInv

LEMMA DrainedStep == ASSUME IInv, NEW p \in Procs, Drained(p) PROVE IInv'
  <1>1. /\ Becomes(p, At("loop", task[p].age))
        /\ UNCHANGED <<world, tables, adapter, budget>>
    BY DEF Drained
  <1>2. Tasks /\ task[p].age \in Ages
    BY DEF IInv, Tasks, Task
  <1>3. Tasks'
    BY <1>1, <1>2, AtIsTidy, BecomesTidy DEF world
  <1> QED BY <1>1, <1>3, QuietStep DEF IInv, Tables

LEMMA CrashStep == ASSUME IInv, NEW p \in Procs, Crash(p) PROVE IInv'
  <1>1. /\ adapter' = [adapter EXCEPT ![p] = NoCatalog]
        /\ Becomes(p, Started(p)) /\ UNCHANGED <<world, tables>>
    BY DEF Crash
  <1>2. budget' \in Budget
    BY BudgetStep DEF Crash
  <1>3. Tasks'
    <2>1. uptime \in Ages /\ Tasks
      BY DEF IInv, Tables
    <2> QED BY <1>1, <2>1, StartedIsTidy, BecomesTidy DEF world
  <1>4. NoCatalog \in Adapter /\ NoCatalog.health.success = None
    BY DEF NoCatalog, Adapter, Unknown, Health, Freshness
  <1>5. Tables'
    BY <1>1, <1>2, <1>4 DEF IInv, Tables, world, tables
  <1>6. MemoryIsDated'
    <2>1. \A q \in Procs : adapter'[q] = adapter[q] \/ adapter'[q].health.success = None
      BY <1>1, <1>4 DEF IInv, Tables
    <2> QED BY <1>1, <2>1 DEF IInv, MemoryIsDated, Loaded, world
  <1>7. StoredWasSeen'
    BY <1>1 DEF IInv, StoredWasSeen, Seen, world, tables
  <1> QED BY <1>3, <1>5, <1>6, <1>7 DEF IInv

-----------------------------------------------------------------------------
(* The theorems.                                                            *)

LEMMA NextIInv == IInv /\ [Next]_vars => IInv'
  <1> SUFFICES ASSUME IInv, [Next]_vars PROVE IInv'
    OBVIOUS
  <1>1. CASE Publish
    BY <1>1, PublishStep
  <1>2. CASE Tick
    BY <1>2, TickStep
  <1>3. ASSUME NEW p \in Procs, Proceed(p) PROVE IInv'
    BY <1>3, IterateStep, FetchStep, SelectStep, InsertStep, AssertStep, CommitStep,
       FailStep, RecordStep, DrainedStep DEF Proceed
  <1>4. ASSUME NEW p \in Procs, Interfere(p) PROVE IInv'
    BY <1>4, FetchFailsStep, FailStep, CrashStep, CacheStep DEF Interfere
  <1>5. CASE UNCHANGED vars
    <2>1. UNCHANGED <<world, tables, adapter, task, budget>>
      BY <1>5 DEF vars
    <2>2. Tasks'
      BY <2>1 DEF IInv, Tasks, Tidy, Vouched, Seen, world
    <2> QED BY <2>1, <2>2, QuietStep DEF IInv, Tables
  <1> QED BY <1>1, <1>2, <1>3, <1>4, <1>5 DEF Next

LEMMA Inductive == Spec => []IInv
  BY InitIInv, NextIInv, PTL DEF Spec

\* Tables, adapters and transactions keep their shapes whatever fails, and no
\* session inserts what its batch does not name (persistence.py:27).
THEOREM TypeCorrect == Spec => []TypeOK
  <1>1. IInv => TypeOK
    BY DEF IInv, Tables, Tasks, Tidy, TypeOK
  <1> QED BY <1>1, Inductive, PTL

\* is_kev (kev.py:70) answers from the edition its process last fetched, and
\* from the tables only what the catalogue has listed at some time.
THEOREM Escalation == Spec => []EscalationFollowsCatalog
  <1>1. IInv => EscalationFollowsCatalog
    <2> SUFFICES ASSUME IInv, NEW p \in Loops, NEW c \in Cves
                 PROVE  /\ Loaded(p) =>
                             (IsKev(p, c) <=> c \in catalog[adapter[p].health.success])
                        /\ IsKev(p, c) => \E e \in 0 .. edition : c \in catalog[e]
      BY DEF EscalationFollowsCatalog
    <2>1. p \in Procs
      BY DEF Procs
    <2>2. CASE Loaded(p)
      BY <2>1, <2>2 DEF IInv, MemoryIsDated, IsKev
    <2>3. CASE ~Loaded(p)
      BY <2>3 DEF IInv, StoredWasSeen, Seen, IsKev
    <2> QED BY <2>2, <2>3
  <1> QED BY <1>1, Inductive, PTL

-----------------------------------------------------------------------------
(* What a fresh status vouches for.                                         *)

\* While a refresh is written, its process has loaded what it writes.
Loading(t, a) ==
  t.pc \in Writing /\ t.for # "cache" => t.batch = a.memory /\ a.health.success # None

LoadingInv == \A p \in Procs : Loading(task[p], adapter[p])

\* Only an orchestrator records the health of the source apart from its records.
LoopsRecord == \A p \in Procs : task[p].pc = "record" => p \notin Pollers

LEMMA EndsOutside ==
  ASSUME NEW p \in Procs, NEW t \in Task
  PROVE  /\ AfterFailure(p, t).pc \notin Writing
         /\ AfterCommit(p, t).pc \notin Writing \cup {"record"}
         /\ Started(p).pc \notin Writing \cup {"record"}
         /\ AfterFailure(p, t).pc = "record" => p \notin Pollers
  BY DEF AfterFailure, AfterCommit, Started, At, Writing

\* A step of one process, with its own adapter at most.
LEMMA OneLoads ==
  ASSUME IInv, LoadingInv, LoopsRecord, NEW p \in Procs, NEW t, Becomes(p, t),
         \A q \in Procs \ {p} : adapter'[q] = adapter[q],
         Loading(t, adapter'[p]), t.pc = "record" => p \notin Pollers
  PROVE  LoadingInv' /\ LoopsRecord'
  <1>1. \A q \in Procs : task'[q] = IF q = p THEN t ELSE task[q]
    BY DEF IInv, Tasks, Becomes
  <1>2. ASSUME NEW q \in Procs
        PROVE  /\ Loading(task'[q], adapter'[q])
               /\ task'[q].pc = "record" => q \notin Pollers
    BY <1>1 DEF LoadingInv, LoopsRecord
  <1> QED BY <1>2 DEF LoadingInv, LoopsRecord, Loading

\* Where a process stands apart from every transaction.
LEMMA OutsideLoads ==
  ASSUME IInv, LoadingInv, LoopsRecord, NEW p \in Procs, NEW t, Becomes(p, t),
         t.pc \notin Writing, t.pc = "record" => p \notin Pollers,
         \A q \in Procs \ {p} : adapter'[q] = adapter[q]
  PROVE  LoadingInv' /\ LoopsRecord'
  BY OneLoads DEF Loading

LEMMA InitLoads == Init => LoadingInv /\ LoopsRecord
  <1> SUFFICES ASSUME Init PROVE LoadingInv /\ LoopsRecord
    OBVIOUS
  <1>1. ASSUME NEW p \in Procs PROVE task[p].pc \in {"boot", "refresh"}
    <2>1. task[p] = Started(p)
      BY DEF Init
    <2> QED BY <2>1 DEF Started, At
  <1> QED BY <1>1 DEF LoadingInv, LoopsRecord, Loading, Writing

LEMMA ProceedLoads ==
  ASSUME IInv, LoadingInv, LoopsRecord, NEW p \in Procs, Proceed(p)
  PROVE  LoadingInv' /\ LoopsRecord'
  <1>1. /\ task[p] \in Task /\ adapter \in [Procs -> Adapter]
        /\ Loading(task[p], adapter[p])
    BY DEF IInv, Tasks, Tables, LoadingInv
  <1>2. CASE Iterate(p)
    <2> DEFINE pc == IF task[p].age < Interval THEN "serve" ELSE "refresh"
    <2>1. At(pc, task[p].age).pc \notin Writing \cup {"record"}
      BY DEF At, Writing
    <2>2. Becomes(p, At(pc, task[p].age)) /\ UNCHANGED adapter
      BY <1>2 DEF Iterate
    <2> QED BY <2>1, <2>2, OutsideLoads
  <1>3. CASE Fetch(p)
    <2> DEFINE t == [task[p] EXCEPT !.pc = "select", !.batch = Current]
               fetched == [memory |-> Current,
                           health |-> [freshness |-> "fresh", success |-> edition]]
    <2>1. Becomes(p, t) /\ adapter' = [adapter EXCEPT ![p] = fetched]
      BY <1>3 DEF Fetch
    <2>2. t.pc = "select" /\ t.batch = Current
      BY <1>1 DEF Task
    <2>3. edition # None
      BY IntelligenceConstants DEF IInv, Tables, Editions
    <2>4. Loading(t, fetched) /\ fetched.memory = Current
      BY <2>2, <2>3 DEF Loading
    <2> HIDE DEF t, fetched
    <2>5. /\ adapter'[p] = fetched
          /\ \A q \in Procs \ {p} : adapter'[q] = adapter[q]
      BY <1>1, <2>1
    <2> QED BY <2>1, <2>2, <2>4, <2>5, OneLoads
  <1>4. CASE Select(p) \/ Assert(p) \/ (Insert(p) /\ ~GiveUp(p))
    <2>1. PICK t : /\ Becomes(p, t) /\ t.pc \in Writing
                   /\ t.for = task[p].for /\ t.batch = task[p].batch
      <3>1. CASE Select(p)
        <4> DEFINE t == [task[p] EXCEPT !.pc = "insert", !.new = task[p].batch \ vulns]
        <4>1. Becomes(p, t)
          BY <3>1 DEF Select
        <4>2. t.pc = "insert" /\ t.for = task[p].for /\ t.batch = task[p].batch
          BY <1>1 DEF Task
        <4> HIDE DEF t
        <4> QED BY <4>1, <4>2 DEF Writing
      <3>2. CASE Assert(p)
        <4> DEFINE known == status # None
                   t == [task[p] EXCEPT !.pc = "commit", !.known = known,
                           !.missing = task[p].batch \ asserted[SourceOf(p)]]
        <4>1. Becomes(p, t)
          BY <3>2 DEF Assert
        <4> HIDE DEF known
        <4>2. t.pc = "commit" /\ t.for = task[p].for /\ t.batch = task[p].batch
          BY <1>1 DEF Task
        <4> HIDE DEF t
        <4> QED BY <4>1, <4>2 DEF Writing
      <3>3. CASE Insert(p) /\ ~GiveUp(p)
        <4> DEFINE t == [task[p] EXCEPT !.pc = "assert"]
        <4>1. Becomes(p, t)
          BY <3>3 DEF Insert
        <4>2. t.pc = "assert" /\ t.for = task[p].for /\ t.batch = task[p].batch
          BY <1>1 DEF Task
        <4> HIDE DEF t
        <4> QED BY <4>1, <4>2 DEF Writing
      <3> QED BY <1>4, <3>1, <3>2, <3>3
    <2>2. task[p].pc \in Writing /\ UNCHANGED adapter
      BY <1>4 DEF Select, Insert, Assert, Writing
    <2>3. Loading(t, adapter'[p]) /\ t.pc # "record"
      BY <1>1, <2>1, <2>2 DEF Loading, Writing
    <2> QED BY <2>1, <2>2, <2>3, OneLoads
  <1>5. CASE GiveUp(p) /\ (Insert(p) \/ CommitFails(p))
    <2>1. Becomes(p, AfterFailure(p, task[p])) /\ UNCHANGED adapter
      BY <1>5 DEF GiveUp, Insert, CommitFails
    <2> QED BY <1>1, <2>1, EndsOutside, OutsideLoads
  <1>6. CASE Commit(p)
    <2>1. Becomes(p, AfterCommit(p, task[p])) /\ UNCHANGED adapter
      BY <1>6 DEF Commit
    <2> QED BY <1>1, <2>1, EndsOutside, OutsideLoads
  <1>7. CASE Record(p)
    <2>1. Becomes(p, At("serve", task[p].age)) /\ UNCHANGED adapter
      BY <1>7 DEF Record
    <2>2. At("serve", task[p].age).pc \notin Writing \cup {"record"}
      BY DEF At, Writing
    <2> QED BY <2>1, <2>2, OutsideLoads
  <1>8. CASE Drained(p)
    <2>1. Becomes(p, At("loop", task[p].age)) /\ UNCHANGED adapter
      BY <1>8 DEF Drained
    <2>2. At("loop", task[p].age).pc \notin Writing \cup {"record"}
      BY DEF At, Writing
    <2> QED BY <2>1, <2>2, OutsideLoads
  <1>9. CommitFails(p) => GiveUp(p)
    BY DEF CommitFails
  <1> QED BY <1>2, <1>3, <1>4, <1>5, <1>6, <1>7, <1>8, <1>9 DEF Proceed

LEMMA InterfereLoads ==
  ASSUME IInv, LoadingInv, LoopsRecord, NEW p \in Procs, Interfere(p)
  PROVE  LoadingInv' /\ LoopsRecord'
  <1>1. task[p] \in Task /\ adapter \in [Procs -> Adapter]
    BY DEF IInv, Tasks, Tables
  <1>2. CASE FetchFails(p) \/ DatabaseFails(p)
    <2>1. Becomes(p, AfterFailure(p, task[p]))
      BY <1>2 DEF GiveUp, FetchFails, DatabaseFails
    <2>2. \A q \in Procs \ {p} : adapter'[q] = adapter[q]
      BY <1>1, <1>2 DEF FetchFails, DatabaseFails
    <2> QED BY <1>1, <2>1, <2>2, EndsOutside, OutsideLoads
  <1>3. CASE Crash(p)
    <2>1. Becomes(p, Started(p)) /\ \A q \in Procs \ {p} : adapter'[q] = adapter[q]
      BY <1>1, <1>3 DEF Crash
    <2> QED BY <1>1, <2>1, EndsOutside, OutsideLoads
  <1>4. ASSUME NEW batch \in SUBSET Cves, NEW twice \in SUBSET Repeats, Cache(p, batch, twice)
        PROVE  LoadingInv' /\ LoopsRecord'
    <2> DEFINE t == [task[p] EXCEPT !.pc = "select", !.for = "cache", !.batch = batch,
                                    !.twice = twice \cap batch]
    <2>1. Becomes(p, t) /\ UNCHANGED adapter
      BY <1>4 DEF Cache
    <2>2. t.for = "cache" /\ t.pc = "select"
      BY <1>1 DEF Task
    <2> HIDE DEF t
    <2>3. Loading(t, adapter'[p])
      BY <2>2 DEF Loading
    <2> QED BY <2>1, <2>2, <2>3, OneLoads
  <1> QED BY <1>2, <1>3, <1>4 DEF Interfere

LEMMA NextLoads == IInv /\ LoadingInv /\ LoopsRecord /\ [Next]_vars => LoadingInv' /\ LoopsRecord'
  <1> SUFFICES ASSUME IInv, LoadingInv, LoopsRecord, [Next]_vars
               PROVE  LoadingInv' /\ LoopsRecord'
    OBVIOUS
  <1>1. CASE Publish \/ UNCHANGED vars
    BY <1>1 DEF Publish, vars, LoadingInv, LoopsRecord, Loading
  <1>2. CASE Tick
    <2>1. ASSUME NEW p \in Procs
          PROVE  /\ task'[p].pc = task[p].pc /\ task'[p].for = task[p].for
                 /\ task'[p].batch = task[p].batch
      <3>1. task[p] \in Task
        BY DEF IInv, Tasks
      <3> QED BY <1>2, <3>1 DEF Tick, Task
    <2> QED BY <1>2, <2>1 DEF Tick, LoadingInv, LoopsRecord, Loading
  <1>3. ASSUME NEW p \in Procs, Proceed(p) PROVE LoadingInv' /\ LoopsRecord'
    BY <1>3, ProceedLoads
  <1>4. ASSUME NEW p \in Procs, Interfere(p) PROVE LoadingInv' /\ LoopsRecord'
    BY <1>4, InterfereLoads
  <1> QED BY <1>1, <1>2, <1>3, <1>4 DEF Next

LEMMA Loads == Spec => [](IInv /\ LoadingInv /\ LoopsRecord)
  <1>1. Init => IInv /\ LoadingInv /\ LoopsRecord
    BY InitIInv, InitLoads
  <1>2. IInv /\ LoadingInv /\ LoopsRecord /\ [Next]_vars
          => (IInv /\ LoadingInv /\ LoopsRecord)'
    BY NextIInv, NextLoads
  <1> QED BY <1>1, <1>2, PTL DEF Spec

\* The commit of a refresh stores what its status vouches for.
LEMMA CommitVouches ==
  ASSUME IInv, LoadingInv, FreshIsStored, NEW p \in Procs, Commit(p)
  PROVE  FreshIsStored'
  <1>1. /\ task[p].pc = "commit"
        /\ asserted' = [asserted EXCEPT ![SourceOf(p)] = @ \cup task[p].batch]
        /\ status' = IF SourceOf(p) = "kev" THEN Mirror(adapter[p].health) ELSE status
        /\ UNCHANGED catalog
    BY DEF Commit, world
  <1>2. asserted \in [Sources -> SUBSET Cves] /\ SourceOf(p) \in Sources
    BY DEF IInv, Tables, SourceOf, Sources
  <1>3. CASE SourceOf(p) = "kev"
    <2>1. task[p].for # "cache"
      BY <1>3 DEF SourceOf
    <2>2. Loaded(p) /\ task[p].batch = catalog[adapter[p].health.success]
      BY <1>1, <2>1 DEF IInv, MemoryIsDated, LoadingInv, Loading, Loaded, Writing
    <2>3. asserted'["kev"] = asserted["kev"] \cup task[p].batch
      BY <1>1, <1>2, <1>3
    <2>4. status'.freshness = "fresh" => status'.success = adapter[p].health.success
      BY <1>1, <1>3 DEF Mirror
    <2> QED BY <1>1, <2>2, <2>3, <2>4 DEF FreshIsStored
  <1>4. CASE SourceOf(p) # "kev"
    <2>1. status' = status /\ asserted'["kev"] = asserted["kev"]
      BY <1>1, <1>2, <1>4 DEF Sources
    <2> QED BY <1>1, <2>1 DEF FreshIsStored
  <1> QED BY <1>3, <1>4

LEMMA OthersVouch ==
  ASSUME IInv, LoadingInv, FreshIsStored, [Next]_vars, \A p \in Procs : ~Record(p)
  PROVE  FreshIsStored'
  <1>1. CASE UNCHANGED <<catalog, tables>>
    BY <1>1 DEF FreshIsStored, tables
  <1>2. \/ UNCHANGED <<catalog, tables>>
        \/ \E p \in Procs : Commit(p)
    <2>1. Publish \/ Tick \/ UNCHANGED vars => UNCHANGED <<catalog, tables>>
      BY DEF Publish, Tick, vars, world
    <2>2. ASSUME NEW p \in Procs, Proceed(p), ~Commit(p)
          PROVE  UNCHANGED <<catalog, tables>>
      BY <2>2 DEF Proceed, Iterate, Fetch, Select, Insert, Assert, CommitFails, Drained, world
    <2>3. ASSUME NEW p \in Procs, Interfere(p)
          PROVE  UNCHANGED <<catalog, tables>>
      BY <2>3 DEF Interfere, FetchFails, DatabaseFails, Crash, Cache, world
    <2> QED BY <2>1, <2>2, <2>3 DEF Next
  <1> QED BY <1>1, <1>2, CommitVouches

\* The health an orchestrator writes after a failed refresh is the only thing
\* that can make a status vouch for records that were not stored: no other step
\* of anybody does (orchestration.py:334).
RecordAloneMisleads ==
  [][FreshIsStored /\ (\A p \in Procs : ~Record(p)) => FreshIsStored']_vars

THEOREM OnlyRecordMisleads == Spec => RecordAloneMisleads
  <1>1. IInv /\ LoadingInv /\ LoopsRecord /\ [Next]_vars
          => (FreshIsStored /\ (\A p \in Procs : ~Record(p)) => FreshIsStored')
    BY OthersVouch
  <1> QED BY <1>1, Loads, PTL DEF Spec, RecordAloneMisleads

\* A poller writes its status with the records it is about, or neither
\* (intel_refresh.py:44), however many there are: where only pollers refresh the
\* catalogue, a fresh status always vouches for stored records.
THEOREM PollersVouchTruly ==
  ASSUME Loops = {}
  PROVE  Spec => []FreshIsStored
  <1>1. Init => FreshIsStored
    BY DEF Init, FreshIsStored
  <1>2. ASSUME IInv, LoadingInv, LoopsRecord, FreshIsStored, [Next]_vars
        PROVE  FreshIsStored'
    <2>1. \A p \in Procs : ~Record(p)
      BY <1>2 DEF LoopsRecord, Record, Procs
    <2> QED BY <1>2, <2>1, OthersVouch
  <1> QED BY <1>1, <1>2, Loads, PTL DEF Spec

-----------------------------------------------------------------------------
(* A process that is alone with the tables.                                 *)

\* What a transaction has found missing is still missing, tables v, a and s.
Fresh(t, v, a, s) ==
  /\ t.twice = {}
  /\ t.pc \in {"insert", "assert", "commit"} => t.new \cap v = {}
  /\ t.pc = "commit" =>
       /\ t.missing \cap a[IF t.for = "cache" THEN "osv" ELSE "kev"] = {}
       /\ ~t.known => s = None

AloneInv == \A p \in Procs : Fresh(task[p], vulns, asserted, status)

\* One process, components that share no advisory, and no failure.
Alone ==
  /\ \A p \in Procs, q \in Procs : p = q
  /\ Repeats = {} /\ MaxFaults = 0

LEMMA NoFaults == IInv /\ Alone => ~Fault
  BY DEF IInv, Tables, Budget, Fault, Alone

LEMMA AloneStands ==
  ASSUME IInv, AloneInv, NEW p \in Procs
  PROVE  /\ Insert(p) => Becomes(p, [task[p] EXCEPT !.pc = "assert"])
         /\ ~CommitFails(p)
  <1>1. Fresh(task[p], vulns, asserted, status)
    BY DEF AloneInv
  <1>2. task[p].pc = "insert" => task[p].new \cap (vulns \cup task[p].twice) = {}
    BY <1>1 DEF Fresh
  <1>3. task[p].pc = "commit" => ~Clashes(p)
    BY <1>1 DEF Fresh, Clashes, SourceOf
  <1> QED BY <1>2, <1>3 DEF Insert, CommitFails

\* A process that has no transaction under way has found nothing missing.
LEMMA RestIsFresh ==
  ASSUME IInv, Alone, NEW p \in Procs,
         NEW pc \in {"boot", "loop", "refresh", "record", "serve", "sleep"}, NEW age,
         Becomes(p, At(pc, age))
  PROVE  AloneInv'
  <1>1. task'[p] = At(pc, age) /\ \A q \in Procs : q = p
    BY DEF IInv, Tasks, Becomes, Alone
  <1>2. task'[p].twice = {} /\ task'[p].pc = pc
    BY <1>1 DEF At
  <1> QED BY <1>1, <1>2 DEF AloneInv, Fresh

LEMMA AfterCommitRests ==
  ASSUME IInv, Alone, NEW p \in Procs, Becomes(p, AfterCommit(p, task[p]))
  PROVE  AloneInv'
  <1>1. PICK pc \in {"serve", "sleep", "loop"} : \E age : Becomes(p, At(pc, age))
    BY DEF AfterCommit
  <1>2. PICK age : Becomes(p, At(pc, age))
    BY <1>1
  <1> QED BY <1>2, RestIsFresh

LEMMA InitAlone == Init => AloneInv
  <1> SUFFICES ASSUME Init, NEW p \in Procs PROVE Fresh(task[p], vulns, asserted, status)
    BY DEF AloneInv
  <1>1. task[p] = Started(p)
    BY DEF Init
  <1>2. task[p].twice = {} /\ task[p].pc \in {"boot", "refresh"}
    BY <1>1 DEF Started, At
  <1> QED BY <1>2 DEF Fresh

LEMMA ProceedAlone ==
  ASSUME IInv, Alone, AloneInv, NEW p \in Procs, Proceed(p)
  PROVE  AloneInv'
  <1>1. /\ task[p] \in Task /\ Fresh(task[p], vulns, asserted, status)
        /\ task \in [Procs -> Task] /\ \A q \in Procs : q = p
    BY DEF IInv, Tasks, AloneInv, Alone
  <1>2. CASE Iterate(p) \/ Drained(p) \/ Record(p)
    BY <1>2, RestIsFresh DEF Iterate, Drained, Record
  <1>3. CASE Commit(p)
    BY <1>3, AfterCommitRests DEF Commit
  <1>4. CASE Fetch(p)
    <2>1. task'[p] = [task[p] EXCEPT !.pc = "select", !.batch = Current]
      BY <1>1, <1>4 DEF Fetch, Becomes
    <2>2. task'[p].twice = task[p].twice /\ task'[p].pc = "select"
      BY <1>1, <2>1 DEF Task
    <2> QED BY <1>1, <2>2 DEF AloneInv, Fresh
  <1>5. CASE Select(p)
    <2>1. task'[p] = [task[p] EXCEPT !.pc = "insert", !.new = task[p].batch \ vulns]
      BY <1>1, <1>5 DEF Select, Becomes
    <2>2. /\ task'[p].twice = task[p].twice /\ task'[p].pc = "insert"
          /\ task'[p].new \cap vulns = {}
      BY <1>1, <2>1 DEF Task
    <2>3. UNCHANGED tables
      BY <1>5 DEF Select
    <2> QED BY <1>1, <2>2, <2>3 DEF AloneInv, Fresh, tables
  <1>6. CASE Insert(p)
    <2>1. task'[p] = [task[p] EXCEPT !.pc = "assert"]
      BY <1>1, <1>6, AloneStands DEF Becomes
    <2>2. /\ task'[p].twice = task[p].twice /\ task'[p].pc = "assert"
          /\ task'[p].new = task[p].new
      BY <1>1, <2>1 DEF Task
    <2>3. task[p].pc = "insert" /\ UNCHANGED tables
      BY <1>6 DEF Insert
    <2> QED BY <1>1, <2>2, <2>3 DEF AloneInv, Fresh, tables
  <1>7. CASE Assert(p)
    <2> DEFINE known == status # None
    <2>1. task'[p] = [task[p] EXCEPT !.pc = "commit", !.known = known,
                        !.missing = task[p].batch \ asserted[SourceOf(p)]]
      BY <1>1, <1>7 DEF Assert, Becomes
    <2> HIDE DEF known
    <2>2. /\ task'[p].twice = task[p].twice /\ task'[p].pc = "commit"
          /\ task'[p].new = task[p].new /\ task'[p].for = task[p].for
          /\ task'[p].known = known
          /\ task'[p].missing \cap asserted[SourceOf(p)] = {}
      BY <1>1, <2>1 DEF Task
    <2>3. task[p].pc = "assert" /\ UNCHANGED tables
      BY <1>7 DEF Assert
    <2> QED BY <1>1, <2>2, <2>3 DEF AloneInv, Fresh, tables, SourceOf, known
  <1> QED BY <1>2, <1>3, <1>4, <1>5, <1>6, <1>7, AloneStands DEF Proceed

LEMMA NextAlone ==
  ASSUME Alone
  PROVE  IInv /\ AloneInv /\ [Next]_vars => AloneInv'
  <1> SUFFICES ASSUME IInv, AloneInv, [Next]_vars PROVE AloneInv'
    OBVIOUS
  <1>1. CASE Publish \/ UNCHANGED vars
    BY <1>1 DEF Publish, vars, tables, AloneInv, Fresh
  <1>2. CASE Tick
    <2>1. ASSUME NEW p \in Procs
          PROVE  /\ task'[p].pc = task[p].pc /\ task'[p].for = task[p].for
                 /\ task'[p].new = task[p].new /\ task'[p].missing = task[p].missing
                 /\ task'[p].twice = task[p].twice /\ task'[p].known = task[p].known
      <3>1. task[p] \in Task
        BY DEF IInv, Tasks
      <3> QED BY <1>2, <3>1 DEF Tick, Task
    <2>2. UNCHANGED tables
      BY <1>2 DEF Tick
    <2> QED BY <2>1, <2>2 DEF tables, AloneInv, Fresh
  <1>3. ASSUME NEW p \in Procs, Proceed(p) PROVE AloneInv'
    BY <1>3, ProceedAlone
  <1>4. ASSUME NEW p \in Procs, NEW batch \in SUBSET Cves, NEW twice \in SUBSET Repeats,
               Cache(p, batch, twice)
        PROVE  AloneInv'
    <2>1. /\ task[p] \in Task /\ task \in [Procs -> Task] /\ \A q \in Procs : q = p
          /\ twice = {}
      BY DEF IInv, Tasks, Alone
    <2> DEFINE both == twice \cap batch
    <2>2. task'[p] = [task[p] EXCEPT !.pc = "select", !.for = "cache", !.batch = batch,
                                     !.twice = both]
      BY <1>4, <2>1 DEF Cache, Becomes
    <2>3. both = {}
      BY <2>1
    <2> HIDE DEF both
    <2>4. task'[p].twice = {} /\ task'[p].pc = "select"
      BY <2>1, <2>2, <2>3 DEF Task
    <2> QED BY <2>1, <2>4 DEF AloneInv, Fresh
  <1>5. ASSUME NEW p \in Procs
        PROVE  ~FetchFails(p) /\ ~DatabaseFails(p) /\ ~Crash(p)
    BY NoFaults DEF FetchFails, DatabaseFails, Crash
  <1> QED BY <1>1, <1>2, <1>3, <1>4, <1>5 DEF Next, Interfere

\* Of a cache write, only the commit returns to the events.
LEMMA AloneCaches ==
  ASSUME Alone, IInv, AloneInv, [Next]_vars, NEW p \in Loops,
         task[p].pc \in {"insert", "commit"}, task[p].for = "cache", task'[p].pc = "serve"
  PROVE  task[p].batch \subseteq asserted'["osv"]
  <1>1. /\ p \in Procs /\ task[p] \in Task /\ task \in [Procs -> Task]
        /\ asserted \in [Sources -> SUBSET Cves] /\ \A q \in Procs : q = p
    BY DEF Procs, IInv, Tables, Tasks, Alone
  <1>2. ~(Publish \/ UNCHANGED vars)
    BY DEF Publish, vars
  <1>3. ~Tick
    <2>1. Tick => task'[p].pc = task[p].pc
      BY <1>1 DEF Tick, Task
    <2> QED BY <2>1
  <1>4. ~Interfere(p)
    <2>1. ~FetchFails(p) /\ ~DatabaseFails(p) /\ ~Crash(p)
      BY NoFaults DEF FetchFails, DatabaseFails, Crash
    <2> QED BY <2>1 DEF Interfere, Cache
  <1>5. Proceed(p)
    BY <1>1, <1>2, <1>3, <1>4 DEF Next
  <1>6. ~Insert(p)
    <2>1. Insert(p) => task'[p] = [task[p] EXCEPT !.pc = "assert"]
      BY <1>1, AloneStands DEF Becomes
    <2>2. [task[p] EXCEPT !.pc = "assert"].pc = "assert"
      BY <1>1 DEF Task
    <2> QED BY <2>1, <2>2
  <1>7. Commit(p)
    <2>1. ~Iterate(p) /\ ~Fetch(p) /\ ~Select(p) /\ ~Assert(p) /\ ~Record(p) /\ ~Drained(p)
      BY DEF Iterate, Fetch, Select, Assert, Record, Drained
    <2> QED BY <1>1, <1>5, <1>6, <2>1, AloneStands DEF Proceed
  <1>8. asserted' = [asserted EXCEPT !["osv"] = @ \cup task[p].batch]
    BY <1>7 DEF Commit, SourceOf
  <1> QED BY <1>1, <1>8 DEF Sources

\* An orchestrator that is the only process caches every answer of OSV for the
\* event it handles, refresh or not, as long as nothing fails and no two
\* components of an event share an advisory (persistence.py:27): what is lost
\* is lost to one of the three.
THEOREM AnswersAreCached ==
  ASSUME \A p \in Procs, q \in Procs : p = q, Repeats = {}, MaxFaults = 0
  PROVE  Spec => AloneCachesAll
  <1>1. Alone
    BY DEF Alone
  <1>2. IInv /\ AloneInv /\ [Next]_vars
          => (\A p \in Loops : (task[p].pc \in {"insert", "commit"} /\ task[p].for = "cache"
                                 /\ task'[p].pc = "serve")
                                 => task[p].batch \subseteq asserted'["osv"])
    BY <1>1, AloneCaches
  <1>3. Init => AloneInv
    BY InitAlone
  <1>4. IInv /\ AloneInv /\ [Next]_vars => AloneInv'
    BY <1>1, NextAlone
  <1> QED BY <1>2, <1>3, <1>4, Inductive, PTL DEF Spec, AloneCachesAll
=============================================================================
