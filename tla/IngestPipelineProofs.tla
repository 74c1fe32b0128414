-------------------------- MODULE IngestPipelineProofs --------------------------
(***************************************************************************)
(* What holds of the ingestion pipeline for every number of records,       *)
(* versions and workers, whatever the source does and whatever fails.      *)
(***************************************************************************)
EXTENDS IngestPipeline, SequenceTheorems, FiniteSetTheorems, TLAPS

-----------------------------------------------------------------------------
(* What is in the queue and in the hands of workers.                        *)

Me == [pc : {"off", "idle", "deaf"}, job : {NoJob}] \cup [pc : Busy, job : Jobs]

\* The part of TypeOK that the arguments below need.
Typed ==
  /\ upstream \in [Records -> 0 .. MaxVersion]
  /\ poller \in [pc : {"idle", "fetching", "fetched", "enqueued"}, offset : Nat,
                 jobs : SUBSET Jobs]
  /\ queue \in Seq(Jobs)
  /\ worker \in [Workers -> Me]
  /\ raw \in [Jobs -> {"absent", "partial", "full"}]
  /\ events \in [Jobs -> Nat]

LEMMA BusyHasJob ==
  ASSUME Typed, NEW w \in Workers, worker[w].pc \in Busy
  PROVE  worker[w].job \in Jobs
  BY DEF Typed, Me, Busy

LEMMA JobsOfType ==
  ASSUME Typed, NEW R \in SUBSET Present
  PROVE  JobsOf(R) \subseteq Jobs
  BY IngestConstants DEF Typed, JobsOf, Present, Jobs

LEMMA PageType ==
  ASSUME NEW offset
  PROVE  Page(offset) \subseteq Present
  BY DEF Page, Listing

LEMMA PushType ==
  ASSUME Typed, NEW jobs \in SUBSET Jobs, Push(jobs)
  PROVE  queue' \in Seq(Jobs)
  <1>1. PICK batch \in Batches(jobs) : queue' = queue \o batch
    BY DEF Push
  <1>2. PICK n \in 0 .. MaxQueue : batch \in [1 .. n -> jobs]
    BY <1>1 DEF Batches
  <1>3. n \in Nat
    BY <1>2, IngestConstants
  <1>4. batch \in [1 .. n -> Jobs]
    BY <1>2
  <1>5. batch \in Seq(Jobs)
    BY <1>3, <1>4
  <1> QED BY <1>1, <1>5 DEF Typed

LEMMA GotoType ==
  ASSUME Typed, NEW w \in Workers, worker[w].pc \in Busy,
         NEW pc \in Busy \cup {"idle"}, Goto(w, pc)
  PROVE  worker' \in [Workers -> Me]
  <1>1. Waiting \in Me
    BY DEF Waiting, Me
  <1>2. [worker[w] EXCEPT !.pc = pc] \in Me \/ pc = "idle"
    BY BusyHasJob DEF Typed, Me
  <1>3. worker' = [worker EXCEPT ![w] = IF pc = "idle" THEN Waiting
                                        ELSE [worker[w] EXCEPT !.pc = pc]]
    BY Zenon DEF Goto
  <1> QED BY <1>1, <1>2, <1>3 DEF Typed

LEMMA TypedStep == Typed /\ [Next]_vars => Typed'
  <1> SUFFICES ASSUME Typed, [Next]_vars PROVE Typed'
    OBVIOUS
  <1> USE DEF pollVars, workVars
  <1>1. ASSUME NEW r \in Records, Create(r) \/ Edit(r) \/ Delete(r) PROVE Typed'
    <2>1. upstream' \in [Records -> 0 .. MaxVersion]
      <3>1. CASE Create(r)
        <4>1. 1 \in 0 .. MaxVersion
          BY IngestConstants
        <4> QED BY <3>1, <4>1 DEF Create, Typed
      <3>2. CASE Edit(r)
        <4>1. upstream[r] + 1 \in 0 .. MaxVersion
          BY <3>2, IngestConstants DEF Edit, Typed
        <4> QED BY <3>2, <4>1 DEF Edit, Typed
      <3>3. CASE Delete(r)
        <4>1. 0 \in 0 .. MaxVersion
          BY IngestConstants
        <4> QED BY <3>3, <4>1 DEF Delete, Typed
      <3> QED BY <1>1, <3>1, <3>2, <3>3
    <2> QED BY <1>1, <2>1 DEF Create, Edit, Delete, Typed
  <1>2. CASE BeginPoll \/ Checkpoint \/ PollFails \/ PollerCrash
    <2>1. poller' \in {NoPoll, [NoPoll EXCEPT !.pc = "fetching"]}
      BY <1>2 DEF BeginPoll, Checkpoint, PollFails, PollerCrash
    <2>2. poller' \in [pc : {"idle", "fetching", "fetched", "enqueued"}, offset : Nat,
                      jobs : SUBSET Jobs]
      BY <2>1 DEF NoPoll
    <2> QED BY <1>2, <2>2 DEF BeginPoll, Checkpoint, PollFails, PollerCrash, Typed
  <1>3. CASE FetchPage
    <2> DEFINE taken == {r \in Page(poller.offset) : r > status.cursor}
    <2>1. JobsOf(taken) \subseteq Jobs
      BY PageType, JobsOfType
    <2>2. PICK pc \in {"fetched", "fetching"} :
            poller' = [pc |-> pc, offset |-> NextOffset(poller.offset),
                       jobs |-> poller.jobs \cup JobsOf(taken)]
      BY <1>3 DEF FetchPage
    <2>3. NextOffset(poller.offset) \in Nat /\ poller.jobs \in SUBSET Jobs
      BY IngestConstants DEF NextOffset, Typed
    <2>4. poller' \in [pc : {"idle", "fetching", "fetched", "enqueued"}, offset : Nat,
                      jobs : SUBSET Jobs]
      BY <2>1, <2>2, <2>3
    <2> QED BY <1>3, <2>4 DEF FetchPage, Typed
  <1>4. CASE FetchInventory
    <2>1. PICK failed \in SUBSET Agents : poller' = [poller EXCEPT !.pc = "fetched",
                          !.jobs = JobsOf(UNION {Packages(a) : a \in Agents \ failed})]
      BY <1>4 DEF FetchInventory
    <2>2. JobsOf(UNION {Packages(a) : a \in Agents \ failed}) \subseteq Jobs
      BY JobsOfType DEF Packages
    <2>3. poller' \in [pc : {"idle", "fetching", "fetched", "enqueued"}, offset : Nat,
                      jobs : SUBSET Jobs]
      BY <2>1, <2>2 DEF Typed
    <2> QED BY <1>4, <2>3 DEF FetchInventory, Typed
  <1>5. CASE Enqueue
    BY <1>5, PushType DEF Enqueue, Typed
  <1>6. ASSUME NEW w \in Workers, Start(w) PROVE Typed'
    <2>1. PICK pc \in {"idle", "deaf"} : worker' = [worker EXCEPT ![w].pc = pc]
      BY <1>6 DEF Start
    <2>2. [worker[w] EXCEPT !.pc = pc] \in Me
      BY <1>6 DEF Start, Typed, Me, Busy
    <2>3. worker' = [worker EXCEPT ![w] = [worker[w] EXCEPT !.pc = pc]]
      BY <2>1 DEF Typed
    <2>4. worker' \in [Workers -> Me]
      BY <2>2, <2>3 DEF Typed
    <2> QED BY <1>6, <2>4 DEF Start, Typed
  <1>7. ASSUME NEW w \in Workers, Pop(w) PROVE Typed'
    <2>1. Head(queue) \in Jobs /\ Tail(queue) \in Seq(Jobs)
      BY <1>7 DEF Pop, Typed
    <2>2. [pc |-> "popped", job |-> Head(queue)] \in Me
      BY <2>1 DEF Me, Busy
    <2> QED BY <1>7, <2>1, <2>2 DEF Pop, Typed
  <1>8. ASSUME NEW w \in Workers, Check(w) \/ Inspect(w) \/ Open(w) \/ Write(w) \/ Commit(w)
        PROVE  Typed'
    <2>1. worker[w].pc \in Busy
      BY <1>8 DEF Check, Inspect, Open, Write, Commit, Busy
    <2>2. \E pc \in Busy \cup {"idle"} : Goto(w, pc)
      BY <1>8 DEF Check, Inspect, AfterInspect, Open, Write, Commit, Busy
    <2>3. raw' \in [Jobs -> {"absent", "partial", "full"}]
      BY <1>8 DEF Check, Inspect, Open, Write, Commit, Typed
    <2>4. events' \in [Jobs -> Nat]
      BY <1>8, <2>1, BusyHasJob DEF Check, Inspect, Open, Write, Commit, Typed
    <2>5. worker' \in [Workers -> Me]
      BY <2>1, <2>2, GotoType
    <2> QED BY <1>8, <2>3, <2>4, <2>5 DEF Check, Inspect, Open, Write, Commit, Typed
  <1>9. ASSUME NEW w \in Workers, Lose(w) PROVE Typed'
    <2>1. PICK me \in {Waiting, Off} : worker' = [worker EXCEPT ![w] = me]
      BY <1>9 DEF Lose
    <2>2. me \in Me
      BY DEF Me, Waiting, Off
    <2> QED BY <1>9, <2>1, <2>2 DEF Lose, Typed
  <1>10. CASE UNCHANGED vars
    BY <1>10 DEF vars, Typed
  <1> QED BY <1>1, <1>2, <1>3, <1>4, <1>5, <1>6, <1>7, <1>8, <1>9, <1>10
      DEF Next, Source, Poll, Process

LEMMA TypedAlways == Spec => []Typed
  <1>1. Init => Typed
    BY IngestConstants DEF Init, Typed, NoPoll, Off, Me, Jobs
  <1> QED BY <1>1, TypedStep, PTL DEF Spec

-----------------------------------------------------------------------------
(* One observation, one event.                                              *)

\* However often an observation is pushed, and whichever workers race to record
\* it, uq_snapshot_natural_key lets one snapshot with one outbox event in.
THEOREM RecordedOnce == Spec => []OneEventPerObservation
  <1>1. Init => OneEventPerObservation
    BY DEF Init, OneEventPerObservation
  <1>2. Typed /\ OneEventPerObservation /\ [Next]_vars => OneEventPerObservation'
    <2> SUFFICES ASSUME Typed, OneEventPerObservation, [Next]_vars
                 PROVE  OneEventPerObservation'
      OBVIOUS
    <2>1. ASSUME NEW w \in Workers, Commit(w) PROVE OneEventPerObservation'
      BY <2>1 DEF Commit, Unique, OneEventPerObservation, Typed
    <2>2. CASE UNCHANGED events
      BY <2>2 DEF OneEventPerObservation
    <2> QED BY <2>1, <2>2
        DEF Next, vars, workVars, Source, Create, Edit, Delete, Poll, BeginPoll, FetchPage,
            FetchInventory, Enqueue, Checkpoint, PollFails, PollerCrash, Process, Start, Pop,
            Check, Inspect, Open, Write, Lose
  <1> QED BY <1>1, <1>2, TypedAlways, PTL DEF Spec

-----------------------------------------------------------------------------
(* Evidence keeps its bytes, as long as one worker writes them.             *)

\* A worker that is about to write the file of an observation knows that it has
\* not been recorded; one that is about to record it, that the file is whole.
WriterInv ==
  \A w \in Workers :
    /\ worker[w].pc \in {"new", "creating", "writing"} => events[worker[w].job] = 0
    /\ worker[w].pc = "stored" => raw[worker[w].job] = "full"

LEMMA WriterInvStep ==
  ASSUME \A v, w \in Workers : v = w,
         Typed, WriterInv, SnapshotHasBytes, [Next]_vars
  PROVE  WriterInv' /\ SnapshotHasBytes'
  <1> USE DEF pollVars, workVars
  <1>1. CASE UNCHANGED <<worker, raw, events>>
    BY <1>1 DEF WriterInv, SnapshotHasBytes
  <1>2. ASSUME NEW w \in Workers, Start(w) \/ Pop(w) \/ Lose(w)
        PROVE  WriterInv' /\ SnapshotHasBytes'
    <2>1. worker'[w].pc \notin {"new", "creating", "writing", "stored"}
      <3>1. CASE Start(w)
        BY <3>1 DEF Start, Typed, Me
      <3>2. CASE Pop(w)
        BY <3>2 DEF Pop, Typed
      <3>3. CASE Lose(w)
        <4>1. PICK me \in {Waiting, Off} : worker' = [worker EXCEPT ![w] = me]
          BY <3>3 DEF Lose
        <4>2. me.pc \in {"idle", "off"}
          BY DEF Waiting, Off
        <4> QED BY <4>1, <4>2 DEF Typed
      <3> QED BY <1>2, <3>1, <3>2, <3>3
    <2>2. \A v \in Workers : v = w
      OBVIOUS
    <2> QED BY <1>2, <2>1, <2>2 DEF Start, Pop, Lose, WriterInv, SnapshotHasBytes
  <1>3. ASSUME NEW w \in Workers, Check(w) \/ Inspect(w) \/ Open(w) \/ Write(w) \/ Commit(w)
        PROVE  WriterInv' /\ SnapshotHasBytes'
    <2> DEFINE job == worker[w].job
    <2>1. \A v \in Workers : v = w
      OBVIOUS
    <2>2. job \in Jobs
      BY <1>3, BusyHasJob DEF Check, Inspect, Open, Write, Commit, Busy
    <2>3. ASSUME NEW pc \in Busy, Goto(w, pc)
          PROVE  worker'[w].pc = pc /\ worker'[w].job = job
      BY <2>3, BusyHasJob, <1>3
      DEF Goto, Typed, Me, Busy, Check, Inspect, Open, Write, Commit
    <2>4. ASSUME Goto(w, "idle") PROVE worker'[w].pc = "idle"
      BY <2>4 DEF Goto, Waiting, Typed
    <2>5. CASE Check(w)
      BY <2>1, <2>2, <2>3, <2>4, <2>5
      DEF Check, Existing, Busy, WriterInv, SnapshotHasBytes, Typed
    <2>6. CASE Inspect(w)
      BY <2>1, <2>2, <2>3, <2>4, <2>6
      DEF Inspect, AfterInspect, Busy, WriterInv, SnapshotHasBytes, Typed
    <2>7. CASE Open(w)
      BY <2>1, <2>2, <2>3, <2>7 DEF Open, Busy, WriterInv, SnapshotHasBytes, Typed
    <2>8. CASE Write(w)
      BY <2>1, <2>2, <2>3, <2>8 DEF Write, Busy, WriterInv, SnapshotHasBytes, Typed
    <2>9. CASE Commit(w)
      BY <2>1, <2>2, <2>4, <2>9 DEF Commit, Busy, WriterInv, SnapshotHasBytes, Typed
    <2> QED BY <1>3, <2>5, <2>6, <2>7, <2>8, <2>9
  <1> QED BY <1>1, <1>2, <1>3
      DEF Next, vars, Source, Create, Edit, Delete, Poll, BeginPoll, FetchPage,
          FetchInventory, Enqueue, Checkpoint, PollFails, PollerCrash, Process

\* With one ingestion worker, a snapshot is never without its whole evidence
\* file, wherever jobs fail and the worker dies (_write_idempotent before the
\* commit of the bridge).
THEOREM OneWriterKeepsBytes ==
  ASSUME \A v, w \in Workers : v = w
  PROVE  Spec => []SnapshotHasBytes
  <1>1. Init => WriterInv /\ SnapshotHasBytes
    BY DEF Init, Off, WriterInv, SnapshotHasBytes
  <1>2. Typed /\ WriterInv /\ SnapshotHasBytes /\ [Next]_vars => WriterInv' /\ SnapshotHasBytes'
    BY WriterInvStep
  <1> QED BY <1>1, <1>2, TypedAlways, PTL DEF Spec

-----------------------------------------------------------------------------
(* The place of a record in a listing.                                      *)

Rank(S, r) == Cardinality({q \in S : q < r})

LEMMA RankType ==
  ASSUME NEW S, IsFiniteSet(S), NEW r
  PROVE  /\ IsFiniteSet({q \in S : q < r})
         /\ Rank(S, r) \in Nat
  BY FS_Subset, FS_CardinalityType DEF Rank

\* Who comes later in a listing has a higher rank.
LEMMA RankGrows ==
  ASSUME NEW S \in SUBSET Nat, IsFiniteSet(S), NEW q \in S, NEW r \in Nat, q < r
  PROVE  Rank(S, q) + 1 <= Rank(S, r)
  <1> DEFINE A == {p \in S : p < q}
             B == {p \in S : p < r}
  <1>1. IsFiniteSet(A) /\ IsFiniteSet(B)
    BY RankType
  <1>2. IsFiniteSet(A \cup {q}) /\ Cardinality(A \cup {q}) = Cardinality(A) + 1
    <2>1. q \notin A
      OBVIOUS
    <2> HIDE DEF A
    <2> QED BY <1>1, <2>1, FS_AddElement
  <1>3. A \cup {q} \subseteq B
    <2>1. ASSUME NEW p \in A PROVE p < r
      BY <2>1
    <2> QED BY <2>1
  <1>4. Cardinality(A \cup {q}) <= Cardinality(B)
    <2> HIDE DEF A, B
    <2> QED BY <1>1, <1>3, FS_Subset
  <1> QED BY <1>2, <1>4 DEF Rank

\* More records than places share a place.
LEMMA PlacesShared ==
  ASSUME NEW S, NEW P, IsFiniteSet(P), NEW T, IsFiniteSet(T), Cardinality(T) < Cardinality(P),
         \A r \in P : Rank(S, r) \in T
  PROVE  \E x \in P, y \in P : x # y /\ Rank(S, x) = Rank(S, y)
  <1>1. PICK f : f = [r \in P |-> Rank(S, r)]
    OBVIOUS
  <1>2. f \in [P -> T]
    BY <1>1
  <1>3. \E x \in P, y \in P : x # y /\ f[x] = f[y]
    BY <1>2, FS_PigeonHole
  <1> QED BY <1>1, <1>3

\* A full page reaches its last place.
LEMMA FullPage ==
  ASSUME NEW S \in SUBSET Nat, IsFiniteSet(S), NEW n \in Nat, NEW k \in Nat \ {0},
         NEW P \in SUBSET S, \A r \in P : n <= Rank(S, r) /\ Rank(S, r) < n + k,
         ~ Cardinality(P) < k
  PROVE  \E r \in S : Rank(S, r) = n + k - 1
  <1> SUFFICES ASSUME \A r \in S : Rank(S, r) # n + k - 1
               PROVE  FALSE
    OBVIOUS
  <1> DEFINE T == n .. n + k - 2
  <1>1. IsFiniteSet(P)
    BY FS_Subset
  <1>2. IsFiniteSet(T) /\ Cardinality(T) = k - 1
    <2>1. n \in Int /\ n + k - 2 \in Int
      OBVIOUS
    <2>2. IsFiniteSet(T) /\ Cardinality(T) = IF n > n + k - 2 THEN 0 ELSE n + k - 2 - n + 1
      BY <2>1, FS_Interval
    <2> QED BY <2>2
  <1>3. Cardinality(T) < Cardinality(P)
    BY <1>1, <1>2, FS_CardinalityType
  <1>4. ASSUME NEW r \in P PROVE Rank(S, r) \in T
    <2>1. r \in S /\ n <= Rank(S, r) /\ Rank(S, r) < n + k /\ Rank(S, r) \in Nat
      BY <1>4, RankType
    <2>2. Rank(S, r) # n + k - 1
      BY <2>1
    <2> QED BY <2>1, <2>2
  <1>5. PICK x \in P, y \in P : x # y /\ Rank(S, x) = Rank(S, y)
    <2> HIDE DEF T
    <2> QED BY <1>1, <1>2, <1>3, <1>4, PlacesShared
  <1>6. ASSUME NEW a \in S, NEW b \in S, a < b PROVE Rank(S, a) # Rank(S, b)
    <2>1. Rank(S, a) + 1 <= Rank(S, b) /\ Rank(S, a) \in Nat /\ Rank(S, b) \in Nat
      BY <1>6, RankGrows, RankType
    <2> QED BY <2>1
  <1>7. x \in S /\ y \in S /\ x \in Nat /\ y \in Nat /\ x # y
    BY <1>5
  <1>8. x < y \/ y < x
    BY <1>7
  <1> QED BY <1>5, <1>6, <1>7, <1>8

\* A finite listing that is not empty has a last record.
LEMMA LastExists ==
  ASSUME NEW S \in SUBSET Nat, IsFiniteSet(S), S # {}
  PROVE  \E m \in S : \A q \in S : q <= m
  <1> DEFINE k == Cardinality(S)
  <1>1. k \in Nat \ {0}
    BY FS_CardinalityType, FS_EmptySet
  <1>2. ASSUME NEW r \in S PROVE Rank(S, r) \in Nat /\ Rank(S, r) < k
    <2> DEFINE B == {q \in S : q < r}
    <2>1. B \subseteq S /\ r \notin B
      OBVIOUS
    <2>2. IsFiniteSet(B) /\ Cardinality(B) <= k /\ Cardinality(B) \in Nat
      BY <2>1, FS_Subset, RankType DEF Rank
    <2>3. Cardinality(B) # k
      <3> HIDE DEF B
      <3> QED BY <2>1, FS_Subset
    <2> QED BY <1>1, <2>2, <2>3 DEF Rank
  <1>3. \A r \in S : 0 <= Rank(S, r) /\ Rank(S, r) < 0 + k
    BY <1>1, <1>2
  <1>4. ~ Cardinality(S) < k
    BY <1>1
  <1>5. PICK m \in S : Rank(S, m) = 0 + k - 1
    <2> HIDE DEF k
    <2> QED BY <1>1, <1>3, <1>4, FullPage
  <1>6. ASSUME NEW q \in S, m < q PROVE FALSE
    <2>1. Rank(S, m) + 1 <= Rank(S, q)
      BY <1>6, RankGrows
    <2> QED BY <1>1, <1>2, <1>5, <2>1
  <1> QED BY <1>6

-----------------------------------------------------------------------------
(* Type correctness: what is queued, in hand or recorded was pushed.        *)

\* Nothing the source lists or the poller holds has a number not issued yet.
Numbered ==
  /\ \A r \in Present : r <= issued
  /\ \A j \in poller.jobs : j[1] <= issued

LEMMA TypeOKTyped == TypeOK => Typed
  BY DEF TypeOK, Typed, Me

LEMMA JobsAreNumbered ==
  ASSUME TypeOK
  PROVE  /\ poller.jobs \subseteq Jobs
         /\ \A j \in poller.jobs : j[1] \in Records /\ j[1] \in Nat
         /\ issued \in Nat
  <1>1. poller.jobs \subseteq Jobs /\ issued \in Records \cup {0}
    BY DEF TypeOK
  <1>2. Records \subseteq Nat
    BY IngestConstants
  <1>3. ASSUME NEW j \in Jobs PROVE j[1] \in Records /\ j[1] \in Nat
    BY <1>2, <1>3 DEF Jobs
  <1>4. issued \in Nat
    BY <1>1, <1>2
  <1>5. \A j \in poller.jobs : j[1] \in Records /\ j[1] \in Nat
    BY <1>1, <1>3
  <1> QED BY <1>1, <1>4, <1>5

\* The cursor moves to the highest number of the poll.
LEMMA CursorMoves ==
  ASSUME TypeOK, Numbered, Incremental, poller.jobs # {}
  PROVE  /\ \A j \in poller.jobs : j[1] <= NextCursor(poller.jobs)
         /\ \E j \in poller.jobs : NextCursor(poller.jobs) = j[1]
  <1> DEFINE ids == {j[1] : j \in poller.jobs}
  <1>1. ids \in SUBSET Nat /\ ids # {} /\ \A r \in ids : r <= issued
    BY JobsAreNumbered DEF Numbered
  <1>2. IsFiniteSet(ids)
    <2> HIDE DEF ids
    <2> QED BY <1>1, JobsAreNumbered, FS_BoundedSetOfNaturals
  <1>3. \E r \in ids : \A q \in ids : q <= r
    <2> HIDE DEF ids
    <2> QED BY <1>1, <1>2, LastExists
  <1>4. NextCursor(poller.jobs) = CHOOSE r \in ids : \A q \in ids : q <= r
    BY <1>1 DEF NextCursor
  <1>5. NextCursor(poller.jobs) \in ids /\ \A q \in ids : q <= NextCursor(poller.jobs)
    <2> HIDE DEF ids
    <2> QED BY <1>3, <1>4
  <1> QED BY <1>5

LEMMA CursorStays ==
  ASSUME ~Incremental \/ poller.jobs = {}
  PROVE  NextCursor(poller.jobs) = status.cursor
  BY DEF NextCursor

LEMMA SeqOfMore ==
  ASSUME NEW S, NEW T, S \subseteq T, NEW s \in Seq(S)
  PROVE  s \in Seq(T)
  OBVIOUS

LEMMA StatusStep ==
  ASSUME TypeOK, Numbered, [Next]_vars
  PROVE  /\ issued' \in Records \cup {0}
         /\ status' \in [cursor : Records \cup {0}, freshness : {"none", "fresh", "stale"}]
         /\ Numbered'
         /\ faults' \in Nat /\ losses' \in Nat
  <1> USE DEF pollVars, workVars
  <1>1. ASSUME NEW r \in Records, Create(r) \/ Edit(r) \/ Delete(r)
        PROVE  issued' \in Records \cup {0} /\ Numbered'
    <2>1. issued' \in Records \cup {0} /\ issued <= issued' /\ poller' = poller
      BY <1>1, IngestConstants DEF Create, Edit, Delete, TypeOK
    <2>2. ASSUME NEW q \in Present' PROVE q \in Present \/ q = issued'
      BY <1>1, <2>2 DEF Create, Edit, Delete, Present, TypeOK
    <2>3. issued \in Nat /\ issued' \in Nat
      BY <2>1, IngestConstants DEF TypeOK
    <2>4. ASSUME NEW q \in Present' PROVE q <= issued'
      <3>1. q \in Nat
        BY <2>4, IngestConstants DEF Present
      <3> QED BY <2>1, <2>2, <2>3, <2>4, <3>1 DEF Numbered
    <2>5. ASSUME NEW j \in poller'.jobs PROVE j[1] <= issued'
      BY <2>1, <2>3, <2>5, JobsAreNumbered DEF Numbered
    <2> QED BY <2>1, <2>4, <2>5 DEF Numbered
  <1>2. ASSUME UNCHANGED <<upstream, issued>>
        PROVE  issued' \in Records \cup {0} /\ Numbered'
    <2>1. Present' = Present
      BY <1>2 DEF Present
    <2>2. ASSUME NEW R \in SUBSET Present, NEW j \in JobsOf(R) PROVE j[1] <= issued
      BY <2>2 DEF JobsOf, Numbered
    <2>3. ASSUME NEW j \in poller'.jobs, [Next]_vars PROVE j[1] <= issued
      <3>1. CASE FetchPage
        <4> DEFINE taken == {r \in Page(poller.offset) : r > status.cursor}
        <4>1. taken \in SUBSET Present
          BY PageType
        <4>2. poller'.jobs = poller.jobs \cup JobsOf(taken)
          BY <3>1 DEF FetchPage
        <4> HIDE DEF taken
        <4> QED BY <2>2, <2>3, <4>1, <4>2 DEF Numbered
      <3>2. CASE FetchInventory
        <4>1. PICK failed \in SUBSET Agents : poller' = [poller EXCEPT !.pc = "fetched",
                          !.jobs = JobsOf(UNION {Packages(a) : a \in Agents \ failed})]
          BY <3>2 DEF FetchInventory
        <4> DEFINE taken == UNION {Packages(a) : a \in Agents \ failed}
        <4>2. taken \in SUBSET Present
          BY DEF Packages
        <4>3. poller'.jobs = JobsOf(taken)
          BY <4>1 DEF TypeOK
        <4> HIDE DEF taken
        <4> QED BY <2>2, <2>3, <4>2, <4>3
      <3>3. CASE poller'.jobs \in {{}, poller.jobs}
        BY <2>3, <3>3 DEF Numbered
      <3>4. CASE \E r \in Records : Create(r) \/ Edit(r) \/ Delete(r)
        BY <2>3, <3>4 DEF Create, Edit, Delete, Numbered
      <3>5. CASE BeginPoll \/ Enqueue \/ Checkpoint \/ PollFails \/ PollerCrash
        <4>1. poller'.jobs \in {{}, poller.jobs}
          BY <3>5 DEF BeginPoll, NoPoll, Enqueue, Checkpoint, PollFails, PollerCrash, TypeOK
        <4> QED BY <3>3, <4>1
      <3>6. CASE UNCHANGED poller
        BY <3>3, <3>6
      <3> QED BY <2>3, <3>1, <3>2, <3>4, <3>5, <3>6
          DEF Next, vars, Source, Poll, Process, Start, Pop, Check, Inspect, Open, Write,
              Commit, Lose
    <2>4. \A r \in Present' : r <= issued'
      BY <1>2, <2>1 DEF Numbered
    <2>5. \A j \in poller'.jobs : j[1] <= issued'
      BY <1>2, <2>3
    <2>6. issued' \in Records \cup {0}
      BY <1>2 DEF TypeOK
    <2> QED BY <2>4, <2>5, <2>6 DEF Numbered
  <1>3. issued' \in Records \cup {0} /\ Numbered'
    BY <1>1, <1>2
    DEF Next, vars, Source, Poll, BeginPoll, FetchPage, FetchInventory, Enqueue, Checkpoint,
        PollFails, PollerCrash, Process, Start, Pop, Check, Inspect, Open, Write, Commit, Lose
  <1>4. status' \in [cursor : Records \cup {0}, freshness : {"none", "fresh", "stale"}]
    <2>1. CASE Checkpoint
      <3>1. NextCursor(poller.jobs) \in Records \cup {0}
        BY CursorMoves, CursorStays, JobsAreNumbered, IngestConstants DEF TypeOK
      <3> QED BY <2>1, <3>1 DEF Checkpoint
    <2>2. CASE PollFails
      BY <2>2 DEF PollFails, AfterFailure, TypeOK
    <2>3. CASE UNCHANGED status
      BY <2>3 DEF TypeOK
    <2> QED BY <2>1, <2>2, <2>3
        DEF Next, vars, Source, Create, Edit, Delete, Poll, BeginPoll, FetchPage,
            FetchInventory, Enqueue, PollerCrash, Process, Start, Pop, Check, Inspect, Open,
            Write, Commit, Lose
  <1>5. faults' \in {faults, faults + 1} /\ losses' \in {losses, losses + 1}
    <2>1. CASE FetchInventory \/ PollFails \/ PollerCrash
      BY <2>1 DEF FetchInventory, PollFails, PollerCrash, Fault
    <2>2. CASE \E w \in Workers : Lose(w)
      BY <2>2 DEF Lose
    <2>3. CASE UNCHANGED <<faults, losses>>
      BY <2>3
    <2> QED BY <2>1, <2>2, <2>3
        DEF Next, vars, Source, Create, Edit, Delete, Poll, BeginPoll, FetchPage, Enqueue,
            Checkpoint, Process, Start, Pop, Check, Inspect, Open, Write, Commit
  <1>6. faults' \in Nat /\ losses' \in Nat
    BY <1>5 DEF TypeOK
  <1> QED BY <1>3, <1>4, <1>6

LEMMA PushedStep ==
  ASSUME TypeOK, [Next]_vars
  PROVE  /\ pushed \subseteq pushed'
         /\ pushed' \subseteq Jobs
         /\ queue' \in Seq(pushed')
         /\ \A w \in Workers : worker'[w].pc \in Busy => worker'[w].job \in pushed'
         /\ \A j \in Jobs : events'[j] > 0 => j \in pushed'
  <1> USE DEF pollVars, workVars
  <1>1. /\ queue \in Seq(pushed) /\ pushed \subseteq Jobs
        /\ \A w \in Workers : worker[w].pc \in Busy => worker[w].job \in pushed
        /\ \A j \in Jobs : events[j] > 0 => j \in pushed
    BY DEF TypeOK, Busy
  <1>2. CASE Enqueue
    <2>1. Push(poller.jobs) /\ UNCHANGED <<worker, events>>
      BY <1>2 DEF Enqueue
    <2>2. PICK batch \in Batches(poller.jobs) : queue' = queue \o batch
      BY <2>1 DEF Push
    <2>3. pushed' = pushed \cup poller.jobs /\ poller.jobs \subseteq Jobs
      BY <2>1 DEF Push, TypeOK
    <2>4. PICK n \in 0 .. MaxQueue : batch \in [1 .. n -> poller.jobs]
      BY <2>2 DEF Batches
    <2>5. batch \in Seq(poller.jobs)
      BY <2>4, IngestConstants
    <2>6. queue \in Seq(pushed') /\ batch \in Seq(pushed')
      BY <1>1, <2>3, <2>5, SeqOfMore
    <2> QED BY <1>1, <2>1, <2>2, <2>3, <2>6
  <1>3. ASSUME NEW w \in Workers, Pop(w)
        PROVE  /\ queue' \in Seq(pushed) /\ UNCHANGED <<pushed, events>>
               /\ \A v \in Workers : worker'[v].pc \in Busy => worker'[v].job \in pushed
    <2>1. Head(queue) \in pushed /\ Tail(queue) \in Seq(pushed)
      BY <1>1, <1>3 DEF Pop
    <2> QED BY <1>1, <1>3, <2>1 DEF Pop, TypeOK
  <1>4. ASSUME NEW w \in Workers, Check(w) \/ Inspect(w) \/ Open(w) \/ Write(w) \/ Commit(w)
        PROVE  /\ UNCHANGED <<queue, pushed>>
               /\ \A v \in Workers : worker'[v].pc \in Busy => worker'[v].job \in pushed
               /\ \A j \in Jobs : events'[j] > 0 => j \in pushed
    <2>1. worker[w].job \in pushed
      BY <1>1, <1>4 DEF Check, Inspect, Open, Write, Commit, Busy
    <2>2. PICK pc \in Busy \cup {"idle"} : Goto(w, pc)
      BY <1>4 DEF Check, Inspect, AfterInspect, Open, Write, Commit, Busy
    <2>3. worker' = [worker EXCEPT ![w] = IF pc = "idle" THEN Waiting
                                          ELSE [worker[w] EXCEPT !.pc = pc]]
      BY <2>2, Zenon DEF Goto
    <2>4. ASSUME NEW v \in Workers, worker'[v].pc \in Busy PROVE worker'[v].job \in pushed
      <3>1. CASE v # w
        BY <1>1, <2>3, <2>4, <3>1 DEF TypeOK
      <3>2. CASE v = w /\ pc # "idle"
        BY <2>1, <2>3, <3>2 DEF TypeOK
      <3>3. CASE v = w /\ pc = "idle"
        BY <2>3, <2>4, <3>3 DEF TypeOK, Waiting, Busy
      <3> QED BY <3>1, <3>2, <3>3
    <2>5. ASSUME NEW j \in Jobs, events'[j] > 0 PROVE j \in pushed
      BY <1>1, <1>4, <2>1, <2>5 DEF Check, Inspect, Open, Write, Commit, TypeOK
    <2> QED BY <1>4, <2>4, <2>5 DEF Check, Inspect, Open, Write, Commit
  <1>5. ASSUME NEW w \in Workers, Start(w) \/ Lose(w)
        PROVE  /\ UNCHANGED <<queue, pushed, events>>
               /\ \A v \in Workers : worker'[v].pc \in Busy => worker'[v].job \in pushed
    <2>1. \E me : worker' = [worker EXCEPT ![w] = me] /\ me.pc \notin Busy
      <3>1. CASE Start(w)
        <4>1. PICK pc \in {"idle", "deaf"} : worker' = [worker EXCEPT ![w].pc = pc]
          BY <3>1 DEF Start
        <4>2. [worker[w] EXCEPT !.pc = pc].pc \notin Busy
          BY <3>1 DEF Start, TypeOK, Busy
        <4>3. worker' = [worker EXCEPT ![w] = [worker[w] EXCEPT !.pc = pc]]
          BY <4>1 DEF TypeOK
        <4> QED BY <4>2, <4>3
      <3>2. CASE Lose(w)
        <4>1. PICK me \in {Waiting, Off} : worker' = [worker EXCEPT ![w] = me]
          BY <3>2 DEF Lose
        <4>2. me.pc \notin Busy
          BY DEF Waiting, Off, Busy
        <4> QED BY <4>1, <4>2
      <3> QED BY <1>5, <3>1, <3>2
    <2>2. \A v \in Workers : worker'[v].pc \in Busy => worker'[v].job \in pushed
      BY <1>1, <2>1 DEF TypeOK
    <2> QED BY <1>5, <2>2 DEF Start, Lose
  <1>6. CASE UNCHANGED <<queue, pushed, worker, events>>
    BY <1>1, <1>6
  <1> QED BY <1>1, <1>2, <1>3, <1>4, <1>5, <1>6
      DEF Next, vars, Source, Create, Edit, Delete, Poll, BeginPoll, FetchPage,
          FetchInventory, Checkpoint, PollFails, PollerCrash, Process

LEMMA TypeInit == Init => TypeOK /\ Numbered
  <1> SUFFICES ASSUME Init PROVE TypeOK /\ Numbered
    OBVIOUS
  <1>1. TypeOK
    BY IngestConstants DEF Init, TypeOK, NoPoll, Off, Jobs
  <1>2. Numbered
    BY DEF Init, Numbered, NoPoll, Present
  <1> QED BY <1>1, <1>2

LEMMA TypeStep == TypeOK /\ Numbered /\ [Next]_vars => TypeOK' /\ Numbered'
  <1> SUFFICES ASSUME TypeOK, Numbered, [Next]_vars PROVE TypeOK' /\ Numbered'
    OBVIOUS
  <1>1. Typed'
    BY TypeOKTyped, TypedStep
  <1>2. worker' \in [Workers -> [pc : {"off", "idle", "deaf"}, job : {NoJob}]
                               \cup [pc : Busy, job : pushed']]
    BY <1>1, PushedStep DEF Typed, Me
  <1> QED BY <1>1, <1>2, PushedStep, StatusStep DEF Typed, TypeOK

\* Every variable keeps its shape, whatever the source does and whatever fails;
\* a worker only ever has jobs that the poller pushed, and records no others
\* (enqueuer, run_forever, process).
THEOREM TypeCorrect == Spec => []TypeOK
  BY TypeInit, TypeStep, PTL DEF Spec

-----------------------------------------------------------------------------
(* The cursor follows what was pushed.                                      *)

\* The poll has fetched the record.
Taken(r) == \E j \in poller.jobs : j[1] = r

\* The pages so far hold the records of the listing up to the offset, and the
\* listing reaches that far, so that whatever the source adds comes later.
Paged ==
  /\ \A r \in Listing : r > status.cursor => (Taken(r) <=> Rank(Listing, r) < poller.offset)
  /\ poller.offset > 0 => \E r \in Listing : Rank(Listing, r) >= poller.offset - 1

\* Below a record that was fetched, none above the cursor was left out.
Closed == \A j \in poller.jobs, r \in Present : status.cursor < r /\ r <= j[1] => Taken(r)

CursorInv ==
  /\ \A r \in Records : r <= issued => r \in Present
  /\ status.cursor <= issued
  /\ ~Incremental => status.cursor = 0
  /\ CursorMeansEnqueued
  /\ \A j \in poller.jobs : j[1] \in Present /\ (Incremental => j[1] > status.cursor)
  /\ poller.pc = "enqueued" => poller.jobs \subseteq pushed
  /\ Incremental /\ poller.pc = "fetching" => Paged
  /\ Incremental /\ poller.pc \in {"fetched", "enqueued"} => Closed

LEMMA NumbersAreNat ==
  ASSUME TypeOK
  PROVE  issued \in Nat /\ status.cursor \in Nat /\ poller.offset \in Nat /\ Records \subseteq Nat
  <1>1. Records \subseteq Nat
    BY IngestConstants
  <1>2. issued \in Records \cup {0} /\ status.cursor \in Records \cup {0} /\ poller.offset \in Nat
    BY DEF TypeOK
  <1>3. Records \cup {0} \subseteq Nat
    BY <1>1
  <1>4. issued \in Nat /\ status.cursor \in Nat
    BY <1>2, <1>3
  <1> QED BY <1>1, <1>2, <1>4

LEMMA ListingIsFinite ==
  ASSUME TypeOK, Numbered
  PROVE  Listing \in SUBSET Nat /\ Listing \subseteq Present /\ IsFiniteSet(Listing)
  <1>1. Listing \subseteq Present /\ Present \subseteq Nat
    BY NumbersAreNat DEF Listing, Present
  <1>2. \A r \in Listing : r <= issued
    BY <1>1 DEF Numbered
  <1> QED BY <1>1, <1>2, NumbersAreNat, FS_BoundedSetOfNaturals

LEMMA TakenFromPage ==
  ASSUME NEW R, NEW r
  PROVE  (\E j \in JobsOf(R) : j[1] = r) <=> r \in R
  <1>1. \A q : <<q, upstream[q]>>[1] = q
    OBVIOUS
  <1>2. ASSUME NEW j \in JobsOf(R), j[1] = r PROVE r \in R
    BY <1>1, <1>2 DEF JobsOf
  <1>3. ASSUME r \in R PROVE \E j \in JobsOf(R) : j[1] = r
    BY <1>1, <1>3 DEF JobsOf
  <1> QED BY <1>2, <1>3

LEMMA PageStep ==
  ASSUME TypeOK, Numbered, CursorInv, FetchPage
  PROVE  CursorInv'
  <1> DEFINE S == Listing
             o == poller.offset
             P == Page(o)
             taken == {r \in P : r > status.cursor}
  <1>1. /\ Incremental /\ poller.pc = "fetching"
        /\ UNCHANGED <<upstream, issued, status, pushed>>
    BY DEF FetchPage
  <1>2. /\ poller'.jobs = poller.jobs \cup JobsOf(taken)
        /\ poller'.offset = o + PageSize
        /\ poller'.pc = IF Cardinality(P) < PageSize THEN "fetched" ELSE "fetching"
    BY DEF FetchPage, NextOffset
  <1>3. Present' = Present /\ Listing' = S
    <2>1. Present' = Present
      BY <1>1 DEF Present
    <2> QED BY <1>1, <2>1 DEF Listing
  <1>4. /\ S \in SUBSET Nat /\ S \subseteq Present /\ IsFiniteSet(S)
        /\ o \in Nat /\ PageSize \in Nat \ {0} /\ status.cursor \in Nat
    BY ListingIsFinite, NumbersAreNat, IngestConstants
  <1>5. P = {r \in S : o <= Rank(S, r) /\ Rank(S, r) < o + PageSize}
    BY DEF Page, Rank
  <1>6. \A r : Taken(r)' <=> Taken(r) \/ r \in taken
    <2> HIDE DEF taken
    <2> QED BY <1>2, TakenFromPage DEF Taken
  <1>7. \A r \in S : Rank(S, r) \in Nat
    BY <1>4, RankType
  <1>8. ASSUME NEW r \in S, r > status.cursor
        PROVE  Taken(r)' <=> Rank(S, r) < o + PageSize
    <2>1. Taken(r) <=> Rank(S, r) < o
      BY <1>1, <1>8 DEF CursorInv, Paged
    <2>2. r \in taken <=> o <= Rank(S, r) /\ Rank(S, r) < o + PageSize
      BY <1>5, <1>8
    <2> QED BY <1>4, <1>6, <1>7, <2>1, <2>2
  <1>9. ASSUME NEW j \in poller'.jobs
        PROVE  j[1] \in Present /\ j[1] > status.cursor
    <2>1. CASE j \in poller.jobs
      BY <1>1, <2>1 DEF CursorInv
    <2>2. CASE j \in JobsOf(taken)
      <3>1. j[1] \in taken
        BY <2>2, TakenFromPage
      <3> QED BY <1>4, <1>5, <3>1
    <2> QED BY <1>2, <1>9, <2>1, <2>2
  <1>10. \A r \in Present : r > status.cursor => r \in S
    BY DEF Listing
  <1>11. CASE Cardinality(P) < PageSize
    <2>1. poller'.pc = "fetched"
      BY <1>2, <1>11
    <2>2. ASSUME NEW j \in poller'.jobs, NEW r \in Present, status.cursor < r, r <= j[1]
          PROVE  Taken(r)'
      <3>1. j[1] \in S /\ r \in S /\ Taken(j[1])'
        BY <1>4, <1>9, <1>10, <2>2 DEF Taken
      <3>2. Rank(S, j[1]) < o + PageSize
        BY <1>8, <1>9, <2>2, <3>1
      <3>3. r \in Nat /\ j[1] \in Nat
        BY <1>4, <3>1
      <3>4. r = j[1] \/ Rank(S, r) + 1 <= Rank(S, j[1])
        BY <1>4, <2>2, <3>1, <3>3, RankGrows
      <3>5. Rank(S, r) < o + PageSize
        <4>1. Rank(S, r) \in Nat /\ Rank(S, j[1]) \in Nat
          BY <1>7, <3>1
        <4> HIDE DEF S, o
        <4> QED BY <1>4, <3>2, <3>4, <4>1
      <3> QED BY <1>4, <1>8, <2>2, <3>1, <3>3, <3>5
    <2>3. Closed'
      BY <1>1, <1>3, <2>2 DEF Closed
    <2> HIDE DEF S, o, P, taken
    <2> QED BY <1>1, <1>3, <1>9, <2>1, <2>3 DEF CursorInv, CursorMeansEnqueued
  <1>12. CASE ~ Cardinality(P) < PageSize
    <2>1. poller'.pc = "fetching"
      BY <1>2, <1>12
    <2>2. \E r \in S : Rank(S, r) = o + PageSize - 1
      <3>1. P \in SUBSET S /\ \A r \in P : o <= Rank(S, r) /\ Rank(S, r) < o + PageSize
        BY <1>5
      <3> HIDE DEF S, o, P
      <3> QED BY <1>4, <1>12, <3>1, FullPage
    <2>3. Paged'
      <3>1. \E r \in S : Rank(S, r) >= poller'.offset - 1
        BY <1>2, <1>4, <1>7, <2>2
      <3> QED BY <1>1, <1>2, <1>3, <1>8, <3>1 DEF Paged, Rank
    <2> HIDE DEF S, o, P, taken
    <2> QED BY <1>1, <1>3, <1>9, <2>1, <2>3 DEF CursorInv, CursorMeansEnqueued
  <1> QED BY <1>11, <1>12

LEMMA CreateStep ==
  ASSUME TypeOK, Numbered, CursorInv, NEW r \in Records, Create(r)
  PROVE  CursorInv'
  <1> USE DEF pollVars, workVars
  <1>1. /\ r > issued /\ issued' = r /\ UNCHANGED <<status, poller, pushed>>
        /\ \A q \in Records : q > issued => r <= q
    BY DEF Create
  <1>2. /\ issued \in Nat /\ status.cursor \in Nat /\ poller.offset \in Nat
        /\ Records \subseteq Nat /\ r \in Nat /\ status.cursor < r
    BY <1>1, NumbersAreNat DEF CursorInv
  <1>3. Present' = Present \cup {r}
    BY IngestConstants DEF Create, Present, TypeOK
  <1>4. Listing' = Listing \cup {r}
    BY <1>1, <1>2, <1>3 DEF Listing
  <1>5. ASSUME NEW q \in Present PROVE q < r /\ q \in Nat
    <2>1. q \in Nat /\ q <= issued
      BY <1>2 DEF Present, Numbered
    <2> QED BY <1>1, <1>2, <2>1
  <1>6. Listing \in SUBSET Nat /\ Listing \subseteq Present /\ IsFiniteSet(Listing)
    BY ListingIsFinite
  <1>7. Listing \cup {r} \in SUBSET Nat /\ IsFiniteSet(Listing \cup {r})
    BY <1>2, <1>6, FS_AddElement
  <1>8. ASSUME NEW q \in Listing PROVE Rank(Listing \cup {r}, q) = Rank(Listing, q)
    <2>1. q < r /\ q \in Nat
      BY <1>5, <1>6
    <2>2. {p \in Listing \cup {r} : p < q} = {p \in Listing : p < q}
      BY <1>2, <2>1
    <2> QED BY <2>2 DEF Rank
  <1>9. \A q : Taken(q)' <=> Taken(q)
    BY <1>1 DEF Taken
  <1>10. ~ Taken(r)
    <2> SUFFICES ASSUME NEW j \in poller.jobs, j[1] = r PROVE FALSE
      BY DEF Taken
    <2>1. j[1] \in Present
      BY DEF CursorInv
    <2> QED BY <1>2, <1>5, <2>1
  <1>11. ASSUME NEW q \in Records, q <= r PROVE q \in Present'
    <2>1. q <= issued \/ q = r
      BY <1>1, <1>2, <1>11
    <2> QED BY <1>3, <2>1 DEF CursorInv
  <1>12. CursorMeansEnqueued'
    <2>1. ASSUME NEW q \in Present', q <= status.cursor PROVE \E j \in pushed : j[1] = q
      <3>1. q \in Present
        BY <1>2, <1>3, <2>1
      <3> QED BY <2>1, <3>1 DEF CursorInv, CursorMeansEnqueued
    <2> QED BY <1>1, <2>1 DEF CursorMeansEnqueued
  <1>13. ASSUME Incremental, poller.pc = "fetching" PROVE Paged'
    <2>1. Paged
      BY <1>13 DEF CursorInv
    <2>2. ASSUME poller.offset > 0 PROVE poller.offset <= Rank(Listing \cup {r}, r)
      <3>1. PICK q \in Listing : Rank(Listing, q) >= poller.offset - 1
        BY <2>1, <2>2 DEF Paged
      <3>2. q < r
        BY <1>5, <1>6
      <3>3. Rank(Listing \cup {r}, q) + 1 <= Rank(Listing \cup {r}, r)
        BY <1>2, <1>7, <3>2, RankGrows
      <3>4. Rank(Listing \cup {r}, q) >= poller.offset - 1
        BY <1>8, <3>1
      <3>5. Rank(Listing \cup {r}, q) \in Nat /\ Rank(Listing \cup {r}, r) \in Nat
        BY <1>7, RankType
      <3> QED BY <1>2, <3>3, <3>4, <3>5
    <2>3. Rank(Listing \cup {r}, r) \in Nat
      BY <1>7, RankType
    <2>4. ~ (Rank(Listing \cup {r}, r) < poller.offset)
      BY <1>2, <2>2, <2>3
    <2>5. \A q \in Listing \cup {r} :
            q > status.cursor => (Taken(q) <=> Rank(Listing \cup {r}, q) < poller.offset)
      BY <1>8, <1>10, <2>1, <2>4 DEF Paged
    <2>6. poller.offset > 0 => \E q \in Listing \cup {r} :
            Rank(Listing \cup {r}, q) >= poller.offset - 1
      BY <1>8, <2>1 DEF Paged
    <2>7. \A q : Rank(Listing', q) = Rank(Listing, q)'
      BY DEF Rank
    <2> QED BY <1>1, <1>4, <1>9, <2>5, <2>6 DEF Paged, Rank
  <1>14. ASSUME Incremental, poller.pc \in {"fetched", "enqueued"} PROVE Closed'
    <2>1. ASSUME NEW j \in poller.jobs, NEW q \in Present', status.cursor < q, q <= j[1]
          PROVE  Taken(q)
      <3>1. j[1] < r /\ j[1] \in Nat
        BY <1>5 DEF CursorInv
      <3>2. q \in Present
        BY <1>2, <1>3, <2>1, <3>1
      <3> QED BY <1>14, <2>1, <3>2 DEF CursorInv, Closed
    <2> QED BY <1>1, <1>9, <2>1 DEF Closed
  <1>15. status.cursor <= r
    BY <1>2
  <1>16. \A j \in poller.jobs : j[1] \in Present' /\ (Incremental => j[1] > status.cursor)
    BY <1>3 DEF CursorInv
  <1> QED BY <1>1, <1>11, <1>12, <1>13, <1>14, <1>15, <1>16 DEF CursorInv

\* Whatever leaves the source's listing and the poller alone.
LEMMA FrameStep ==
  ASSUME CursorInv, Present' = Present, UNCHANGED <<issued, status, poller, pushed>>
  PROVE  CursorInv'
  <1>1. Listing' = Listing
    BY DEF Listing
  <1>2. Paged' <=> Paged
    BY <1>1 DEF Paged, Taken, Rank
  <1>3. Closed' <=> Closed
    BY DEF Closed, Taken
  <1>4. CursorMeansEnqueued' <=> CursorMeansEnqueued
    BY DEF CursorMeansEnqueued
  <1> QED BY <1>2, <1>3, <1>4 DEF CursorInv

LEMMA CheckpointStep ==
  ASSUME TypeOK, Numbered, CursorInv, Checkpoint
  PROVE  CursorInv'
  <1> DEFINE c == NextCursor(poller.jobs)
  <1>1. /\ poller.pc = "enqueued" /\ poller' = NoPoll
        /\ UNCHANGED <<upstream, issued, pushed>> /\ status'.cursor = c
    BY DEF Checkpoint
  <1>2. Present' = Present
    BY <1>1 DEF Present
  <1>3. CASE ~Incremental \/ poller.jobs = {}
    <2>1. c = status.cursor
      BY <1>3, CursorStays
    <2> HIDE DEF c
    <2> QED BY <1>1, <1>2, <2>1 DEF CursorInv, CursorMeansEnqueued, NoPoll
  <1>4. CASE Incremental /\ poller.jobs # {}
    <2>1. PICK last \in poller.jobs : c = last[1]
      BY <1>4, CursorMoves
    <2>2. c \in Present /\ c <= issued
      BY <2>1 DEF CursorInv, Numbered
    <2>3. ASSUME NEW r \in Present, r <= c PROVE \E j \in pushed : j[1] = r
      <3>1. r \in Nat /\ status.cursor \in Nat
        BY NumbersAreNat DEF Present
      <3>2. CASE r <= status.cursor
        BY <3>2 DEF CursorInv, CursorMeansEnqueued
      <3>3. CASE status.cursor < r
        <4>1. Closed /\ poller.jobs \subseteq pushed
          BY <1>1, <1>4 DEF CursorInv
        <4>2. Taken(r)
          BY <2>1, <2>3, <3>3, <4>1 DEF Closed
        <4> QED BY <4>1, <4>2 DEF Taken
      <3> QED BY <3>1, <3>2, <3>3
    <2> HIDE DEF c
    <2> QED BY <1>1, <1>2, <1>4, <2>2, <2>3 DEF CursorInv, CursorMeansEnqueued, NoPoll
  <1> QED BY <1>3, <1>4

LEMMA PollStep ==
  ASSUME TypeOK, Numbered, CursorInv,
         BeginPoll \/ FetchInventory \/ Enqueue \/ PollFails \/ PollerCrash
  PROVE  CursorInv'
  <1> USE DEF pollVars, workVars
  <1>1. UNCHANGED <<upstream, issued>> /\ status'.cursor = status.cursor
    BY DEF BeginPoll, FetchInventory, Enqueue, PollFails, AfterFailure, PollerCrash, TypeOK
  <1>2. Present' = Present /\ Listing' = Listing
    BY <1>1 DEF Present, Listing
  <1>3. CASE BeginPoll
    <2>1. /\ poller'.pc = "fetching" /\ poller'.jobs = {} /\ poller'.offset = 0
          /\ UNCHANGED <<status, pushed>>
      BY <1>3 DEF BeginPoll, NoPoll
    <2>2. \A r \in Listing : ~ (Rank(Listing, r) < 0)
      <3>1. \A r \in Listing : Rank(Listing, r) \in Nat
        BY ListingIsFinite, RankType
      <3> QED BY <3>1
    <2>3. Paged'
      BY <1>2, <2>1, <2>2 DEF Paged, Taken, Rank
    <2> QED BY <1>1, <1>2, <2>1, <2>3 DEF CursorInv, CursorMeansEnqueued
  <1>4. CASE FetchInventory
    <2>1. PICK failed \in SUBSET Agents : poller' = [poller EXCEPT !.pc = "fetched",
                          !.jobs = JobsOf(UNION {Packages(a) : a \in Agents \ failed})]
      BY <1>4 DEF FetchInventory
    <2> DEFINE taken == UNION {Packages(a) : a \in Agents \ failed}
    <2>2. taken \subseteq Present
      BY DEF Packages
    <2>3. poller'.pc = "fetched" /\ poller'.jobs = JobsOf(taken)
      BY <2>1 DEF TypeOK
    <2> HIDE DEF taken
    <2>4. \A j \in poller'.jobs : j[1] \in Present
      BY <2>2, <2>3, TakenFromPage
    <2>5. ~Incremental /\ UNCHANGED <<status, pushed>>
      BY <1>4 DEF FetchInventory
    <2> QED BY <1>1, <1>2, <2>3, <2>4, <2>5 DEF CursorInv, CursorMeansEnqueued
  <1>5. CASE Enqueue
    <2>1. /\ poller.pc = "fetched" /\ poller' = [poller EXCEPT !.pc = "enqueued"]
          /\ pushed' = pushed \cup poller.jobs /\ UNCHANGED status
      BY <1>5 DEF Enqueue, Push
    <2>2. poller'.pc = "enqueued" /\ poller'.jobs = poller.jobs
      BY <2>1 DEF TypeOK
    <2>3. Closed' <=> Closed
      BY <1>1, <1>2, <2>2 DEF Closed, Taken
    <2> QED BY <1>1, <1>2, <2>1, <2>2, <2>3 DEF CursorInv, CursorMeansEnqueued
  <1>6. CASE PollFails \/ PollerCrash
    <2>1. poller'.pc = "idle" /\ poller'.jobs = {} /\ UNCHANGED pushed
      BY <1>6 DEF PollFails, PollerCrash, NoPoll
    <2> QED BY <1>1, <1>2, <2>1 DEF CursorInv, CursorMeansEnqueued
  <1> QED BY <1>3, <1>4, <1>5, <1>6

\* As long as the source deletes nothing, the cursor never passes a record that
\* was not pushed, wherever polls fail, the poller dies between pushing and the
\* checkpoint, and the listing grows between two pages (fetch, _poll_source).
THEOREM CursorTrails ==
  ASSUME "delete" \notin SourceOps
  PROVE  Spec => []CursorMeansEnqueued
  <1>1. Init => TypeOK /\ Numbered /\ CursorInv
    <2> SUFFICES ASSUME Init PROVE TypeOK /\ Numbered /\ CursorInv
      OBVIOUS
    <2>1. TypeOK /\ Numbered
      BY TypeInit
    <2>2. \A r \in Records : r > 0
      BY IngestConstants
    <2>3. issued = 0 /\ status.cursor = 0 /\ poller.pc = "idle" /\ poller.jobs = {}
      BY DEF Init, NoPoll
    <2>4. \A r \in Records : ~ (r <= 0)
      BY <2>2, IngestConstants
    <2>5. CursorMeansEnqueued
      BY <2>3, <2>4 DEF CursorMeansEnqueued, Present
    <2> QED BY <2>1, <2>3, <2>4, <2>5 DEF CursorInv
  <1>2. TypeOK /\ Numbered /\ CursorInv /\ [Next]_vars => TypeOK' /\ Numbered' /\ CursorInv'
    <2> SUFFICES ASSUME TypeOK, Numbered, CursorInv, [Next]_vars
                 PROVE  TypeOK' /\ Numbered' /\ CursorInv'
      OBVIOUS
    <2>1. TypeOK' /\ Numbered'
      BY TypeStep
    <2>2. ASSUME NEW r \in Records, Edit(r) PROVE CursorInv'
      <3>1. Present' = Present
        BY <2>2, IngestConstants DEF Edit, Present, TypeOK
      <3> QED BY <2>2, <3>1, FrameStep DEF Edit, pollVars
    <2>3. CASE UNCHANGED <<upstream, issued, status, poller, pushed>>
      <3>1. Present' = Present
        BY <2>3 DEF Present
      <3>2. UNCHANGED <<issued, status, poller, pushed>>
        BY <2>3
      <3> QED BY <2>1, <3>1, <3>2, FrameStep
    <2>4. \A r \in Records : ~ Delete(r)
      BY DEF Delete
    <2> QED BY <2>1, <2>2, <2>3, <2>4, CreateStep, PageStep, CheckpointStep, PollStep
        DEF Next, vars, pollVars, Source, Poll, Process, Start, Pop, Check, Inspect, Open,
            Write, Commit, Lose
  <1>3. CursorInv => CursorMeansEnqueued
    BY DEF CursorInv
  <1> QED BY <1>1, <1>2, <1>3, PTL DEF Spec

-----------------------------------------------------------------------------
(* The pipeline is the feed of EvidenceFeed.                                *)

LEMMA FeedStep ==
  TypeOK /\ TypeOK' /\ [Next]_vars => [Feed!FeedNext]_(Feed!fvars)
  <1> SUFFICES ASSUME TypeOK, TypeOK', [Next]_vars PROVE [Feed!FeedNext]_(Feed!fvars)
    OBVIOUS
  <1> USE DEF pollVars, workVars
  <1>1. CASE Enqueue
    <2>1. pushed' = pushed \cup poller.jobs /\ UNCHANGED events
      BY <1>1 DEF Enqueue, Push
    <2>2. poller.jobs \in SUBSET Jobs
      BY DEF TypeOK
    <2>3. Feed!Publish(poller.jobs)
      BY <2>1 DEF Feed!Publish
    <2> QED BY <2>2, <2>3 DEF Feed!FeedNext
  <1>2. ASSUME NEW w \in Workers, Commit(w) PROVE [Feed!FeedNext]_(Feed!fvars)
    <2> DEFINE j == worker[w].job
    <2>1. worker[w].pc = "stored" /\ UNCHANGED pushed
      BY <1>2 DEF Commit
    <2>2. j \in pushed /\ j \in Jobs
      BY <2>1 DEF TypeOK, Busy
    <2>3. CASE events[j] = 0
      <3>1. events' = [events EXCEPT ![j] = 1]
        BY <1>2, <2>2, <2>3 DEF Commit, Unique, TypeOK
      <3>2. Feed!Record(j)
        BY <2>1, <2>2, <2>3, <3>1 DEF Feed!Record
      <3> QED BY <2>2, <3>2 DEF Feed!FeedNext
    <2>4. CASE events[j] # 0
      <3>1. UNCHANGED <<pushed, events>>
        BY <1>2, <2>1, <2>4 DEF Commit, Unique
      <3> QED BY <3>1 DEF Feed!fvars
    <2> QED BY <2>3, <2>4
  <1>3. CASE UNCHANGED <<pushed, events>>
    BY <1>3 DEF Feed!fvars
  <1> QED BY <1>1, <1>2, <1>3
      DEF Next, vars, Source, Create, Edit, Delete, Poll, BeginPoll, FetchPage,
          FetchInventory, Checkpoint, PollFails, PollerCrash, Process, Start, Pop, Check,
          Inspect, Open, Write, Lose

\* The safety part of ImplementsFeed, for every instance: what the poller pushes
\* is what is published, and workers record nothing else and nothing twice,
\* whatever is lost on the way (enqueuer, ingest_finding, ingest_event).
THEOREM FeedIsImplemented == Spec => Feed!FeedInit /\ [][Feed!FeedNext]_(Feed!fvars)
  <1>1. Init => Feed!FeedInit
    BY DEF Init, Feed!FeedInit
  <1> QED BY <1>1, FeedStep, TypeCorrect, PTL DEF Spec

-----------------------------------------------------------------------------
(* What a failure costs.                                                    *)

Writing(j) == \E w \in Workers : worker[w].pc = "writing" /\ worker[w].job = j

\* A file cut short that nobody is writing any more, and a job that is gone
\* from the queue and from all hands without a snapshot.
Torn == {j \in Jobs : raw[j] = "partial" /\ ~Writing(j)}
Lost == {j \in pushed : events[j] = 0 /\ j \notin Queued /\ j \notin InHand}

\* Every step of a worker changes that worker alone.
LEMMA OneWorkerMoves ==
  ASSUME TypeOK, NEW w \in Workers,
         \/ Start(w) \/ Pop(w) \/ Check(w) \/ Inspect(w) \/ Open(w) \/ Write(w) \/ Commit(w)
         \/ Lose(w)
  PROVE  \A v \in Workers \ {w} : worker'[v] = worker[v]
  BY DEF TypeOK, Start, Pop, Check, Inspect, Open, Write, Commit, Lose, Goto

LEMMA GotoMoves ==
  ASSUME TypeOK, NEW w \in Workers, worker[w].pc \in Busy, NEW pc \in Busy, Goto(w, pc)
  PROVE  worker'[w].pc = pc /\ worker'[w].job = worker[w].job
  <1>1. worker' = [worker EXCEPT ![w] = [worker[w] EXCEPT !.pc = pc]]
    BY Zenon DEF Goto, Busy
  <1> QED BY <1>1 DEF TypeOK, Busy

\* Only a worker that fails half-way leaves a file cut short.
LEMMA TornStep ==
  ASSUME TypeOK, [Next]_vars
  PROVE  \/ Torn' \subseteq Torn
         \/ \E w \in Workers : Lose(w) /\ Torn' \subseteq Torn \cup {worker[w].job}
  <1> USE DEF pollVars, workVars
  <1>1. ASSUME NEW w \in Workers, UNCHANGED raw, \A v \in Workers \ {w} : worker'[v] = worker[v]
        PROVE  Torn' \subseteq Torn \cup {worker[w].job}
    BY <1>1 DEF Torn, Writing
  <1>2. ASSUME NEW w \in Workers, UNCHANGED raw, worker[w].pc # "writing",
               \A v \in Workers \ {w} : worker'[v] = worker[v]
        PROVE  Torn' \subseteq Torn
    BY <1>2 DEF Torn, Writing
  <1>3. ASSUME NEW w \in Workers,
               Start(w) \/ Pop(w) \/ Check(w) \/ Inspect(w) \/ Commit(w)
        PROVE  Torn' \subseteq Torn
    <2>1. UNCHANGED raw /\ worker[w].pc # "writing"
      BY <1>3 DEF Start, Pop, Check, Inspect, Commit
    <2> QED BY <1>2, <1>3, <2>1, OneWorkerMoves
  <1>4. ASSUME NEW w \in Workers, Lose(w)
        PROVE  Torn' \subseteq Torn \cup {worker[w].job}
    BY <1>1, <1>4, OneWorkerMoves DEF Lose
  <1>5. ASSUME NEW w \in Workers, Open(w) \/ Write(w)
        PROVE  Torn' \subseteq Torn
    <2> DEFINE job == worker[w].job
    <2>1. job \in Jobs /\ worker[w].pc \in {"creating", "writing"}
      BY <1>5, TypeOKTyped, BusyHasJob DEF Open, Write, Busy
    <2>2. raw' = [raw EXCEPT ![job] = IF worker[w].pc = "creating" THEN "partial" ELSE "full"]
      BY <1>5 DEF Open, Write
    <2>3. \A v \in Workers \ {w} : worker'[v] = worker[v]
      BY <1>5, OneWorkerMoves
    <2>4. Open(w) => worker'[w].pc = "writing" /\ worker'[w].job = job
      BY GotoMoves DEF Open, Busy
    <2>5. ASSUME NEW j \in Jobs \ {job} PROVE j \in Torn' => j \in Torn
      <3>1. raw'[j] = raw[j]
        BY <2>2, <2>5 DEF TypeOK
      <3>2. Writing(j) => Writing(j)'
        BY <2>3, <2>5 DEF Writing
      <3> QED BY <3>1, <3>2 DEF Torn
    <2>6. job \notin Torn'
      <3>1. CASE Open(w)
        BY <2>4, <3>1 DEF Torn, Writing
      <3>2. CASE Write(w)
        <4>1. raw'[job] = "full"
          BY <2>1, <2>2, <3>2 DEF Write, TypeOK
        <4> QED BY <4>1 DEF Torn
      <3> QED BY <1>5, <3>1, <3>2
    <2>7. Torn' \subseteq Jobs
      BY DEF Torn
    <2> QED BY <2>5, <2>6, <2>7
  <1>6. CASE UNCHANGED <<raw, worker>>
    BY <1>6 DEF Torn, Writing
  <1> QED BY <1>3, <1>4, <1>5, <1>6
      DEF Next, vars, Source, Create, Edit, Delete, Poll, BeginPoll, FetchPage,
          FetchInventory, Enqueue, Checkpoint, PollFails, PollerCrash, Process

\* What is pushed is in the queue.
LEMMA PushQueues ==
  ASSUME TypeOK, NEW jobs \in SUBSET Jobs, Push(jobs)
  PROVE  Queued \subseteq Queued' /\ jobs \subseteq Queued'
  <1>1. PICK batch \in Batches(jobs) : queue' = queue \o batch
    BY DEF Push
  <1>2. PICK n \in 0 .. MaxQueue : batch \in [1 .. n -> jobs]
    BY <1>1 DEF Batches
  <1>3. n \in Nat
    BY <1>2, IngestConstants
  <1>4. queue \in Seq(Jobs) /\ batch \in Seq(Jobs) /\ Len(batch) = n
    <2>1. batch \in Seq(jobs) /\ Len(batch) = n
      BY <1>2, <1>3
    <2> QED BY <2>1, TypeOKTyped, SeqOfMore DEF Typed
  <1>5. /\ queue' \in Seq(Jobs) /\ Len(queue') = Len(queue) + Len(batch)
        /\ \A i \in 1 .. Len(queue) : queue'[i] = queue[i]
        /\ \A i \in 1 .. Len(batch) : queue'[Len(queue) + i] = batch[i]
    <2>1. queue \o batch \in Seq(Jobs) /\ Len(queue \o batch) = Len(queue) + Len(batch)
      BY <1>4, ConcatProperties
    <2>2. ASSUME NEW i \in 1 .. Len(queue) PROVE (queue \o batch)[i] = queue[i]
      BY <1>4
    <2>3. ASSUME NEW i \in 1 .. Len(batch) PROVE (queue \o batch)[Len(queue) + i] = batch[i]
      BY <1>4
    <2> QED BY <1>1, <2>1, <2>2, <2>3
  <1>6. ASSUME NEW i \in DOMAIN queue PROVE queue[i] \in Queued'
    <2>1. i \in 1 .. Len(queue) /\ i \in 1 .. Len(queue')
      BY <1>4, <1>5
    <2> QED BY <1>5, <2>1 DEF Queued
  <1>7. ASSUME NEW j \in jobs PROVE j \in Queued'
    <2>1. PICK i \in 1 .. n : batch[i] = j
      BY <1>1, <1>2 DEF Batches
    <2>2. Len(queue) + i \in 1 .. Len(queue') /\ queue'[Len(queue) + i] = j
      BY <1>3, <1>4, <1>5, <2>1
    <2>3. Len(queue) + i \in DOMAIN queue'
      BY <1>5, <2>2
    <2> QED BY <2>2, <2>3, Zenon DEF Queued
  <1> QED BY <1>6, <1>7 DEF Queued

\* What BRPOP takes from the queue is in the hands of the worker.
LEMMA PopHolds ==
  ASSUME TypeOK, NEW w \in Workers, Pop(w)
  PROVE  Queued \subseteq Queued' \cup {worker'[w].job}
  <1>1. queue \in Seq(Jobs) /\ queue # <<>> /\ queue' = Tail(queue)
    BY TypeOKTyped DEF Pop, Typed
  <1>2. worker'[w].job = Head(queue)
    BY DEF Pop, TypeOK
  <1>3. ASSUME NEW i \in DOMAIN queue, i # 1 PROVE queue[i] \in Queued'
    <2>1. i - 1 \in 1 .. Len(queue') /\ queue'[i - 1] = queue[i] /\ queue' \in Seq(Jobs)
      BY <1>1, <1>3
    <2> QED BY <2>1 DEF Queued
  <1>4. queue[1] = Head(queue)
    BY <1>1
  <1> QED BY <1>2, <1>3, <1>4 DEF Queued

\* A job leaves the queue and all hands only when it is recorded, or when it
\* fails: for a file cut short, or with a failure of its own.
LEMMA LostStep ==
  ASSUME TypeOK, [Next]_vars
  PROVE  \/ Lost' \subseteq Lost \cup Torn
         \/ \E w \in Workers : Lose(w) /\ Lost' \subseteq Lost \cup {worker[w].job}
  <1> USE DEF pollVars, workVars
  <1>1. NoJob \notin Jobs
    BY DEF NoJob, Jobs
  <1>2. ASSUME NEW w \in Workers, \A v \in Workers \ {w} : worker'[v] = worker[v],
               UNCHANGED <<queue, pushed>>,
               \A j \in Jobs : events'[j] = 0 => events[j] = 0
        PROVE  /\ Lost' \subseteq Lost \cup {worker[w].job}
               /\ worker'[w].job = worker[w].job => Lost' \subseteq Lost
    <2>1. pushed \subseteq Jobs
      BY DEF TypeOK
    <2>2. Queued' = Queued
      BY <1>2 DEF Queued
    <2>3. InHand \subseteq InHand' \cup {worker[w].job}
      BY <1>2 DEF InHand
    <2>4. worker'[w].job = worker[w].job => InHand' = InHand
      BY <1>2 DEF InHand
    <2> QED BY <1>2, <2>1, <2>2, <2>3, <2>4 DEF Lost
  <1>3. ASSUME NEW w \in Workers, Start(w) PROVE Lost' \subseteq Lost
    <2>1. worker'[w].job = worker[w].job
      BY <1>3 DEF Start, TypeOK
    <2>2. UNCHANGED <<queue, pushed, events>>
      BY <1>3 DEF Start
    <2> QED BY <1>2, <1>3, <2>1, <2>2, OneWorkerMoves
  <1>4. ASSUME NEW w \in Workers, Pop(w) PROVE Lost' \subseteq Lost
    <2>1. UNCHANGED <<pushed, events>> /\ worker[w].job = NoJob /\ pushed \subseteq Jobs
      BY <1>4 DEF Pop, TypeOK, Busy
    <2>2. InHand \subseteq InHand' \cup {NoJob} /\ worker'[w].job \in InHand'
      BY <1>4, <2>1, OneWorkerMoves DEF InHand
    <2> QED BY <1>1, <1>4, <2>1, <2>2, PopHolds DEF Lost
  <1>5. ASSUME NEW w \in Workers, Check(w) PROVE Lost' \subseteq Lost
    <2>1. worker[w].pc \in Busy /\ UNCHANGED <<queue, pushed, events>>
      BY <1>5 DEF Check, Busy
    <2>2. CASE events[worker[w].job] > 0
      <3>1. worker[w].job \notin Lost' /\ Lost' \subseteq Lost \cup {worker[w].job}
        BY <1>2, <1>5, <2>1, <2>2, OneWorkerMoves DEF Lost
      <3> QED BY <3>1
    <2>3. CASE ~(events[worker[w].job] > 0)
      <3>1. worker'[w].job = worker[w].job
        BY <1>5, <2>1, <2>3, GotoMoves DEF Check, Existing, Busy
      <3> QED BY <1>2, <1>5, <2>1, <3>1, OneWorkerMoves
    <2> QED BY <2>2, <2>3
  <1>6. ASSUME NEW w \in Workers, Inspect(w) PROVE Lost' \subseteq Lost \cup Torn
    <2> DEFINE job == worker[w].job
    <2>1. worker[w].pc = "new" /\ worker[w].pc \in Busy /\ job \in Jobs
          /\ UNCHANGED <<queue, pushed, events>>
      BY <1>6, TypeOKTyped, BusyHasJob DEF Inspect, Busy
    <2>2. \A v \in Workers \ {w} : worker'[v] = worker[v]
      BY <1>6, OneWorkerMoves
    <2>3. CASE raw[job] = "partial"
      <3>1. CASE Writing(job)
        <4>1. PICK v \in Workers : worker[v].pc = "writing" /\ worker[v].job = job
          BY <3>1 DEF Writing
        <4>2. job \in InHand'
          BY <2>1, <2>2, <4>1 DEF InHand
        <4>3. job \notin Lost'
          BY <4>2 DEF Lost
        <4> QED BY <1>2, <2>1, <2>2, <4>3
      <3>2. CASE ~Writing(job)
        <4>1. job \in Torn
          BY <2>1, <2>3, <3>2 DEF Torn
        <4> QED BY <1>2, <2>1, <2>2, <4>1
      <3> QED BY <3>1, <3>2
    <2>4. CASE raw[job] # "partial"
      <3>1. AfterInspect(raw[job]) \in Busy
        BY <2>1, <2>4 DEF AfterInspect, TypeOK, Busy
      <3>2. worker'[w].job = job
        BY <1>6, <2>1, <3>1, GotoMoves DEF Inspect
      <3> QED BY <1>2, <2>1, <2>2, <3>2
    <2> QED BY <2>3, <2>4
  <1>7. ASSUME NEW w \in Workers, Open(w) \/ Write(w) PROVE Lost' \subseteq Lost
    <2>1. worker[w].pc \in Busy /\ UNCHANGED <<queue, pushed, events>>
      BY <1>7 DEF Open, Write, Busy
    <2>2. worker'[w].job = worker[w].job
      BY <1>7, <2>1, GotoMoves DEF Open, Write, Busy
    <2> QED BY <1>2, <1>7, <2>1, <2>2, OneWorkerMoves
  <1>8. ASSUME NEW w \in Workers, Commit(w) PROVE Lost' \subseteq Lost
    <2> DEFINE job == worker[w].job
    <2>1. job \in Jobs /\ UNCHANGED <<queue, pushed>>
      BY <1>8, TypeOKTyped, BusyHasJob DEF Commit, Busy
    <2>2. events' = IF events[job] = 0 THEN [events EXCEPT ![job] = @ + 1] ELSE events
      BY <1>8 DEF Commit, Unique
    <2>3. events'[job] # 0 /\ \A j \in Jobs : events'[j] = 0 => events[j] = 0
      BY <2>1, <2>2 DEF TypeOK
    <2>4. job \notin Lost'
      BY <2>3 DEF Lost
    <2> QED BY <1>2, <1>8, <2>1, <2>3, <2>4, OneWorkerMoves
  <1>9. ASSUME NEW w \in Workers, Lose(w) PROVE Lost' \subseteq Lost \cup {worker[w].job}
    <2>1. UNCHANGED <<queue, pushed, events>>
      BY <1>9 DEF Lose
    <2> QED BY <1>2, <1>9, <2>1, OneWorkerMoves
  <1>10. CASE Enqueue
    <2>1. /\ Push(poller.jobs) /\ poller.jobs \in SUBSET Jobs
          /\ pushed' = pushed \cup poller.jobs /\ UNCHANGED <<worker, events>>
      BY <1>10 DEF Enqueue, Push, TypeOK
    <2>2. Queued \subseteq Queued' /\ poller.jobs \subseteq Queued'
      BY <2>1, PushQueues
    <2> QED BY <2>1, <2>2 DEF Lost, InHand
  <1>11. CASE UNCHANGED <<queue, pushed, worker, events>>
    BY <1>11 DEF Lost, Queued, InHand
  <1> QED BY <1>3, <1>4, <1>5, <1>6, <1>7, <1>8, <1>9, <1>10, <1>11
      DEF Next, vars, Source, Create, Edit, Delete, Poll, BeginPoll, FetchPage,
          FetchInventory, Checkpoint, PollFails, PollerCrash, Process

\* The observations lost or with a file cut short are no more than the failures.
LossesAreCounted ==
  IsFiniteSet(Lost \cup Torn) /\ Cardinality(Lost \cup Torn) <= losses

LEMMA LossesStep ==
  ASSUME TypeOK, LossesAreCounted, [Next]_vars
  PROVE  LossesAreCounted'
  <1> DEFINE before == Lost \cup Torn
             after == (Lost \cup Torn)'
  <1>1. /\ IsFiniteSet(before) /\ Cardinality(before) <= losses
        /\ Cardinality(before) \in Nat /\ losses \in Nat
    BY FS_CardinalityType DEF LossesAreCounted, TypeOK
  <1>2. losses' = losses \/ losses' = losses + 1
    BY DEF Next, vars, pollVars, workVars, Source, Create, Edit, Delete, Poll, BeginPoll,
           FetchPage, FetchInventory, Enqueue, Checkpoint, PollFails, PollerCrash, Process,
           Start, Pop, Check, Inspect, Open, Write, Commit, Lose
  <1>3. CASE after \subseteq before
    <2> HIDE DEF before, after
    <2>1. IsFiniteSet(after) /\ Cardinality(after) <= Cardinality(before)
      BY <1>1, <1>3, FS_Subset
    <2>2. Cardinality(after) \in Nat
      BY <2>1, FS_CardinalityType
    <2>3. IsFiniteSet(after) /\ Cardinality(after) <= losses'
      BY <1>1, <1>2, <2>1, <2>2
    <2> QED BY <2>3 DEF LossesAreCounted, after
  <1>4. ASSUME NEW j, after \subseteq before \cup {j}, losses' = losses + 1
        PROVE  LossesAreCounted'
    <2> HIDE DEF before, after
    <2>1. /\ IsFiniteSet(before \cup {j})
          /\ Cardinality(before \cup {j}) \in {Cardinality(before), Cardinality(before) + 1}
      BY <1>1, FS_AddElement
    <2>2. IsFiniteSet(after) /\ Cardinality(after) <= Cardinality(before \cup {j})
      BY <1>4, <2>1, FS_Subset
    <2>3. Cardinality(after) \in Nat
      BY <2>2, FS_CardinalityType
    <2>4. IsFiniteSet(after) /\ Cardinality(after) <= losses'
      BY <1>1, <1>4, <2>1, <2>2, <2>3
    <2> QED BY <2>4 DEF LossesAreCounted, after
  <1>5. ASSUME NEW w \in Workers, Lose(w)
        PROVE  after \subseteq before \cup {worker[w].job} /\ losses' = losses + 1
    <2>1. /\ UNCHANGED <<raw, queue, pushed, events>> /\ losses' = losses + 1
          /\ \A v \in Workers \ {w} : worker'[v] = worker[v]
      BY <1>5, OneWorkerMoves DEF Lose, pollVars
    <2>2. Torn' \subseteq Torn \cup {worker[w].job}
      BY <2>1 DEF Torn, Writing
    <2>3. Lost' \subseteq Lost \cup {worker[w].job}
      BY <2>1 DEF Lost, Queued, InHand
    <2> QED BY <2>1, <2>2, <2>3
  <1>6. \/ after \subseteq before
        \/ \E w \in Workers : Lose(w)
    BY TornStep, LostStep
  <1> QED BY <1>3, <1>4, <1>5, <1>6

\* Each job that fails after BRPOP, and each worker that dies with one, costs at
\* most the observation it was about: what is neither recorded nor queued nor in
\* the hands of a worker, together with the evidence files cut short for good,
\* never exceeds the failures, for any number of workers (process,
\* _write_idempotent).
THEOREM OneLossPerFailure == Spec => []LossesAreCounted
  <1>1. Init => LossesAreCounted
    <2> SUFFICES ASSUME Init PROVE LossesAreCounted
      OBVIOUS
    <2>1. Lost \cup Torn = {}
      <3>1. Lost = {}
        BY DEF Init, Lost
      <3>2. Torn = {}
        BY DEF Init, Torn
      <3> QED BY <3>1, <3>2
    <2>2. losses = 0 /\ IsFiniteSet({}) /\ Cardinality({}) = 0
      BY FS_EmptySet DEF Init
    <2>3. IsFiniteSet(Lost \cup Torn) /\ Cardinality(Lost \cup Torn) = 0
      BY <2>1, <2>2, Zenon
    <2> QED BY <2>2, <2>3 DEF LossesAreCounted
  <1>2. TypeOK /\ LossesAreCounted /\ [Next]_vars => LossesAreCounted'
    BY LossesStep
  <1> QED BY <1>1, <1>2, TypeCorrect, PTL DEF Spec

\* A snapshot is committed only once its file is there, if not for good.
BytesInv ==
  /\ \A w \in Workers : worker[w].pc = "stored" => raw[worker[w].job] # "absent"
  /\ \A j \in Jobs : events[j] > 0 => raw[j] # "absent"

LEMMA BytesStep ==
  ASSUME TypeOK, BytesInv, [Next]_vars
  PROVE  BytesInv'
  <1> USE DEF pollVars, workVars
  <1>1. ASSUME NEW j \in Jobs, raw[j] # "absent" PROVE raw'[j] # "absent"
    BY <1>1
    DEF Next, vars, Source, Create, Edit, Delete, Poll, BeginPoll, FetchPage, FetchInventory,
        Enqueue, Checkpoint, PollFails, PollerCrash, Process, Start, Pop, Check, Inspect, Open,
        Write, Commit, Lose, TypeOK
  <1>2. ASSUME NEW w \in Workers, worker[w].pc = "stored", worker'[w] = worker[w]
        PROVE  raw'[worker'[w].job] # "absent"
    <2>1. worker[w].job \in Jobs /\ raw[worker[w].job] # "absent"
      BY <1>2, TypeOKTyped, BusyHasJob DEF BytesInv, Busy
    <2> QED BY <1>1, <1>2, <2>1
  <1>3. ASSUME NEW w \in Workers, \A v \in Workers \ {w} : worker'[v] = worker[v],
               worker'[w].pc = "stored" => raw'[worker'[w].job] # "absent", UNCHANGED events
        PROVE  BytesInv'
    BY <1>1, <1>2, <1>3 DEF BytesInv
  <1>4. ASSUME NEW w \in Workers, Start(w) \/ Pop(w) \/ Lose(w) PROVE BytesInv'
    <2>1. worker'[w].pc # "stored"
      <3>1. CASE Start(w)
        BY <3>1 DEF Start, TypeOK
      <3>2. CASE Pop(w)
        BY <3>2 DEF Pop, TypeOK
      <3>3. CASE Lose(w)
        <4>1. PICK me \in {Waiting, Off} : worker' = [worker EXCEPT ![w] = me]
          BY <3>3 DEF Lose
        <4>2. me.pc # "stored"
          BY DEF Waiting, Off
        <4> QED BY <4>1, <4>2 DEF TypeOK
      <3> QED BY <1>4, <3>1, <3>2, <3>3
    <2>2. UNCHANGED events
      BY <1>4 DEF Start, Pop, Lose
    <2> QED BY <1>3, <1>4, <2>1, <2>2, OneWorkerMoves
  <1>5. ASSUME NEW w \in Workers, Goto(w, "idle") PROVE worker'[w].pc # "stored"
    BY <1>5 DEF Goto, Waiting, TypeOK
  <1>6. ASSUME NEW w \in Workers, Check(w) \/ Open(w) PROVE BytesInv'
    <2>1. worker[w].pc \in Busy /\ UNCHANGED events
      BY <1>6 DEF Check, Open, Busy
    <2>2. PICK pc \in {"idle", "new", "writing"} : Goto(w, pc)
      BY <1>6 DEF Check, Open
    <2>3. worker'[w].pc # "stored"
      BY <1>5, <2>1, <2>2, GotoMoves DEF Busy
    <2> QED BY <1>3, <1>6, <2>1, <2>3, OneWorkerMoves
  <1>7. ASSUME NEW w \in Workers, Inspect(w) PROVE BytesInv'
    <2>1. worker[w].pc \in Busy /\ UNCHANGED <<raw, events>>
      BY <1>7 DEF Inspect, Busy
    <2>2. CASE raw[worker[w].job] = "absent"
      <3>1. worker'[w].pc = "creating"
        BY <1>7, <2>1, <2>2, GotoMoves DEF Inspect, AfterInspect, Busy
      <3> QED BY <1>3, <1>7, <2>1, <3>1, OneWorkerMoves
    <2>3. CASE raw[worker[w].job] = "full"
      <3>1. worker'[w].job = worker[w].job
        BY <1>7, <2>1, <2>3, GotoMoves DEF Inspect, AfterInspect, Busy
      <3> QED BY <1>3, <1>7, <2>1, <2>3, <3>1, OneWorkerMoves
    <2>4. CASE raw[worker[w].job] \notin {"absent", "full"}
      <3>1. worker'[w].pc # "stored"
        BY <1>5, <1>7, <2>4 DEF Inspect, AfterInspect
      <3> QED BY <1>3, <1>7, <2>1, <3>1, OneWorkerMoves
    <2> QED BY <2>2, <2>3, <2>4
  <1>8. ASSUME NEW w \in Workers, Write(w) PROVE BytesInv'
    <2>1. worker[w].pc \in Busy /\ worker[w].job \in Jobs /\ UNCHANGED events
      BY <1>8, TypeOKTyped, BusyHasJob DEF Write, Busy
    <2>2. worker'[w].job = worker[w].job
      BY <1>8, <2>1, GotoMoves DEF Write, Busy
    <2>3. raw'[worker[w].job] = "full"
      BY <1>8, <2>1 DEF Write, TypeOK
    <2> QED BY <1>3, <1>8, <2>1, <2>2, <2>3, OneWorkerMoves
  <1>9. ASSUME NEW w \in Workers, Commit(w) PROVE BytesInv'
    <2>1. worker'[w].pc # "stored"
      BY <1>5, <1>9 DEF Commit
    <2>2. worker[w].job \in Jobs /\ raw[worker[w].job] # "absent"
      BY <1>9, TypeOKTyped, BusyHasJob DEF Commit, Busy, BytesInv
    <2>3. \A j \in Jobs : events'[j] > 0 => events[j] > 0 \/ j = worker[w].job
      BY <1>9 DEF Commit, TypeOK
    <2>4. \A j \in Jobs : events'[j] > 0 => raw'[j] # "absent"
      BY <1>1, <2>2, <2>3 DEF BytesInv
    <2>5. \A v \in Workers \ {w} : worker'[v] = worker[v]
      BY <1>9, OneWorkerMoves
    <2> QED BY <1>2, <2>1, <2>4, <2>5 DEF BytesInv
  <1>10. CASE UNCHANGED <<worker, raw, events>>
    BY <1>10 DEF BytesInv
  <1> QED BY <1>4, <1>6, <1>7, <1>8, <1>9, <1>10
      DEF Next, vars, Source, Create, Edit, Delete, Poll, BeginPoll, FetchPage,
          FetchInventory, Enqueue, Checkpoint, PollFails, PollerCrash, Process

\* Without a failed job a pushed job is recorded, queued or in the hands of a
\* worker, and the file behind a snapshot is whole or being written again.
NothingLostByRacing ==
  losses = 0 =>
    /\ NotLost
    /\ \A j \in Jobs : events[j] > 0 => raw[j] = "full" \/ Writing(j)

\* It takes a failure to lose a job or to leave a snapshot without its bytes:
\* workers that race and jobs pushed twice do neither, for any number of them
\* (run_forever, process, persist_evidence_bytes).
THEOREM OnlyFailuresLose == Spec => []NothingLostByRacing
  <1>1. TypeOK /\ LossesAreCounted /\ BytesInv => NothingLostByRacing
    <2> SUFFICES ASSUME TypeOK, LossesAreCounted, BytesInv, losses = 0
                 PROVE  NotLost /\ \A j \in Jobs : events[j] > 0 => raw[j] = "full" \/ Writing(j)
      BY DEF NothingLostByRacing
    <2>1. Cardinality(Lost \cup Torn) \in Nat /\ IsFiniteSet(Lost \cup Torn)
      BY FS_CardinalityType DEF LossesAreCounted
    <2>2. Cardinality(Lost \cup Torn) = 0
      BY <2>1 DEF LossesAreCounted
    <2>3. Lost \cup Torn = {}
      BY <2>1, <2>2, FS_EmptySet
    <2> QED BY <2>3 DEF Lost, Torn, NotLost, BytesInv, TypeOK
  <1>2. Init => BytesInv
    BY DEF Init, Off, BytesInv
  <1>3. TypeOK /\ BytesInv /\ [Next]_vars => BytesInv'
    BY BytesStep
  <1> QED BY <1>1, <1>2, <1>3, OneLossPerFailure, TypeCorrect, PTL DEF Spec
=============================================================================
