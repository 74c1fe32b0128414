-------------------------- MODULE OidcKeyCacheProofs --------------------------
(***************************************************************************)
(* What OidcKeyCache keeps for any number of threads and keys, any cache   *)
(* ages and any length of run.                                             *)
(*                                                                         *)
(* The two sides of the argument.  For the stampede: the lock is held by   *)
(* the one thread that fetches, and a key id that was force-fetched in     *)
(* this generation is on record as tried, or its fetch is still under way. *)
(* For the age of the keys: a key of the cache was published when the      *)
(* cache was filled, and a verification that got past its snapshot saw a   *)
(* cache filled at most JwksAge before it began.                           *)
(***************************************************************************)
EXTENDS OidcKeyCache, TLAPS

Past == {"look", "refresh", "final"}

\* The thread that holds the lock is the one that fetches.
LockIsFetcher == \A t \in Threads : lock = t <=> verify[t].pc \in Fetching

\* A forced fetch of this generation is on record, or under way.
ForcedIsKnown ==
  \A k \in KeyIds :
    \/ forced[k] = 0
    \/ forced[k] = 1 /\ tried[k] = jwks.gen
    \/ forced[k] = 1 /\ \E t \in Threads :
                          lock = t /\ verify[t].force /\ verify[t].key = k

\* The clock is past all that happened.
ClockIsPast ==
  /\ jwks.fetched # None => jwks.fetched <= now
  /\ \A k \in KeyIds : published.with[k] <= now /\ published.without[k] <= now
  /\ \A t \in Threads : verify[t].began <= now

\* The provider's record of its keys is up to date.
PublishedIsDated ==
  \A k \in KeyIds :
    IF k \in published.keys THEN published.with[k] = now ELSE published.without[k] = now

\* What the cache holds was published when it was filled, and what it lacks was not.
CacheIsDated ==
  /\ jwks.keys # {} => jwks.fetched # None
  /\ jwks.fetched # None =>
       \A k \in KeyIds :
         IF k \in jwks.keys THEN published.with[k] >= jwks.fetched
                            ELSE published.without[k] >= jwks.fetched

\* A verification past its snapshot has seen a cache young enough for it.
CacheIsYoung ==
  \A t \in Threads :
    verify[t].pc \in Past \/ (verify[t].pc \in Fetching /\ verify[t].force) =>
      jwks.fetched # None /\ jwks.fetched + JwksAge >= verify[t].began

\* The same of the keys it looks at, and of the one it does not find at last.
KeysAreYoung ==
  \A t \in Threads :
    verify[t].pc \in Past =>
      /\ \A k \in verify[t].keys : published.with[k] + JwksAge >= verify[t].began
      /\ verify[t].pc = "final" /\ verify[t].key \notin verify[t].keys =>
           published.without[verify[t].key] + JwksAge >= verify[t].began

IInv ==
  /\ TypeOK /\ LockIsFetcher /\ ForcedIsKnown /\ FailureIsRecent
  /\ ClockIsPast /\ PublishedIsDated /\ CacheIsDated /\ CacheIsYoung /\ KeysAreYoung
  /\ AcceptedKeyIsRecent /\ MissingKeyIsRecent

-----------------------------------------------------------------------------
(* Types.                                                                   *)

LEMMA NoCallType == NoCall \in Call
  BY DEF NoCall, Call, Waiting, Fetching, Verdicts

LEMMA TypeInit == Init => TypeOK
  <1> SUFFICES ASSUME Init PROVE TypeOK
    OBVIOUS
  <1>1. /\ verify \in [Threads -> Call]
        /\ \A t \in Threads : verify[t].pc = "idle" /\ verify[t].verdict = "none"
    BY NoCallType DEF Init, NoCall
  <1> QED BY <1>1, OidcConstants DEF Init, TypeOK

LEMMA PublishType ==
  ASSUME TypeOK, NEW K \in SUBSET KeyIds
  PROVE  /\ Publish(K) \in [keys : SUBSET KeyIds, changes : Nat, with : [KeyIds -> Nat],
                            without : [KeyIds -> Nat]]
         /\ Publish(K).keys = K
         /\ \A k \in KeyIds :
              /\ Publish(K).with[k] =
                   IF k \in K \cup published.keys THEN now ELSE published.with[k]
              /\ Publish(K).without[k] =
                   IF k \notin K \cap published.keys THEN now ELSE published.without[k]
  <1> DEFINE with == [k \in KeyIds |-> IF k \in K \cup published.keys THEN now
                                                             ELSE published.with[k]]
             without == [k \in KeyIds |-> IF k \notin K \cap published.keys THEN now
                                                               ELSE published.without[k]]
  <1>1. with \in [KeyIds -> Nat] /\ without \in [KeyIds -> Nat]
    BY DEF TypeOK
  <1> PICK c \in Nat : c = published.changes + 1
    BY DEF TypeOK
  <1>2. Publish(K) = [published EXCEPT !.keys = K, !.changes = c,
                                       !.with = with, !.without = without]
    BY DEF Publish
  <1>3. Publish(K) = [keys |-> K, changes |-> c, with |-> with, without |-> without]
    <2>1. published \in [keys : SUBSET KeyIds, changes : Nat, with : [KeyIds -> Nat],
                         without : [KeyIds -> Nat]]
      BY DEF TypeOK
    <2> HIDE DEF with, without
    <2> QED BY <1>2, <2>1
  <1> QED BY <1>1, <1>3

LEMMA TickType ==
  ASSUME TypeOK, Tick
  PROVE  /\ published' \in [keys : SUBSET KeyIds, changes : Nat, with : [KeyIds -> Nat],
                             without : [KeyIds -> Nat]]
         /\ published'.keys = published.keys
         /\ \A k \in KeyIds :
              /\ published'.with[k] =
                   IF k \in published.keys THEN now + 1 ELSE published.with[k]
              /\ published'.without[k] =
                   IF k \notin published.keys THEN now + 1 ELSE published.without[k]
  <1> DEFINE with == [k \in KeyIds |-> IF k \in published.keys THEN now + 1
                                                           ELSE published.with[k]]
             without == [k \in KeyIds |-> IF k \notin published.keys THEN now + 1
                                                              ELSE published.without[k]]
  <1>1. with \in [KeyIds -> Nat] /\ without \in [KeyIds -> Nat]
    BY DEF TypeOK
  <1>2. published' = [published EXCEPT !.with = with, !.without = without]
    BY DEF Tick
  <1>3. published' = [keys |-> published.keys, changes |-> published.changes,
                      with |-> with, without |-> without]
    <2> HIDE DEF with, without
    <2> QED BY <1>2 DEF TypeOK
  <1> QED BY <1>1, <1>3 DEF TypeOK

\* A verdict ends a verification and keeps what it was about.
LEMMA AnswerType ==
  ASSUME TypeOK, NEW t \in Threads, NEW verdict \in Verdicts, Answer(t, verdict)
  PROVE  /\ verify' \in [Threads -> Call]
         /\ \A u \in Threads \ {t} : verify'[u] = verify[u]
         /\ verify'[t].pc = "idle" /\ verify'[t].verdict = verdict
         /\ verify'[t].key = verify[t].key /\ verify'[t].began = verify[t].began
         /\ verify'[t].keys = {} /\ verify'[t].force = FALSE
  <1> DEFINE over == [NoCall EXCEPT !.key = verify[t].key, !.began = verify[t].began,
                                    !.verdict = verdict]
  <1>1. /\ over.pc = "idle" /\ over.verdict = verdict /\ over.keys = {} /\ over.force = FALSE
        /\ over.key = verify[t].key /\ over.began = verify[t].began
    BY DEF NoCall
  <1>2. over \in Call
    BY NoCallType DEF Call, TypeOK
  <1>3. verify' = [verify EXCEPT ![t] = over]
    BY DEF Answer
  <1> HIDE DEF over
  <1> QED BY <1>1, <1>2, <1>3 DEF TypeOK

\* What each other action makes of the verification of t.
LEMMA RowType ==
  ASSUME TypeOK, NEW t \in Threads, NEW row \in Call, verify' = [verify EXCEPT ![t] = row]
  PROVE  /\ verify' \in [Threads -> Call]
         /\ verify'[t] = row
         /\ \A u \in Threads \ {t} : verify'[u] = verify[u]
  BY DEF TypeOK

LEMMA BeginType ==
  ASSUME TypeOK, NEW t \in Threads, NEW k \in KeyIds, Begin(t, k)
  PROVE  /\ verify' \in [Threads -> Call]
         /\ \A u \in Threads \ {t} : verify'[u] = verify[u]
         /\ verify'[t].pc = "snapshot" /\ verify'[t].key = k /\ verify'[t].began = now
         /\ verify'[t].verdict = "none"
  <1> DEFINE row == [NoCall EXCEPT !.pc = "snapshot", !.key = k, !.began = now]
  <1>1. /\ row \in Call /\ row.pc = "snapshot" /\ row.key = k /\ row.began = now
        /\ row.verdict = "none"
    BY DEF NoCall, Call, Waiting, Verdicts, TypeOK
  <1>2. verify' = [verify EXCEPT ![t] = row]
    BY DEF Begin
  <1> HIDE DEF row
  <1> QED BY <1>1, <1>2, RowType

LEMMA FetchType ==
  ASSUME TypeOK, NEW t \in Threads, NEW force \in BOOLEAN, Fetch(t, force)
  PROVE  /\ verify' \in [Threads -> Call]
         /\ \A u \in Threads \ {t} : verify'[u] = verify[u]
         /\ verify'[t].pc \in Fetching /\ verify'[t].force = force
         /\ verify'[t].key = verify[t].key /\ verify'[t].began = verify[t].began
         /\ verify'[t].verdict = verify[t].verdict
  <1> DEFINE pc == IF Fresh(discovery, DiscoveryAge) THEN "fetching" ELSE "discovering"
             row == [verify[t] EXCEPT !.pc = pc, !.force = force]
  <1>1. pc \in Fetching
    BY DEF Fetching
  <1>2. verify' = [verify EXCEPT ![t] = row]
    BY DEF Fetch, TypeOK
  <1> HIDE DEF pc
  <1>3. verify[t] \in Call
    BY DEF TypeOK
  <1>4. row \in Call
    BY <1>1, <1>3 DEF Call
  <1>5. /\ row.pc = pc /\ row.force = force /\ row.key = verify[t].key
        /\ row.began = verify[t].began /\ row.verdict = verify[t].verdict
    BY <1>3 DEF Call
  <1> HIDE DEF row
  <1> QED BY <1>1, <1>2, <1>4, <1>5, RowType

LEMMA SnapshotType ==
  ASSUME TypeOK, NEW t \in Threads, Snapshot(t)
  PROVE  \/ Fetch(t, FALSE)
         \/ /\ Fresh(jwks.fetched, JwksAge) /\ lock' = lock
            /\ verify' \in [Threads -> Call]
            /\ \A u \in Threads \ {t} : verify'[u] = verify[u]
            /\ verify'[t].pc = "look" /\ verify'[t].keys = jwks.keys
            /\ verify'[t].key = verify[t].key /\ verify'[t].began = verify[t].began
            /\ verify'[t].force = verify[t].force /\ verify'[t].verdict = verify[t].verdict
  <1> SUFFICES ASSUME Fresh(jwks.fetched, JwksAge)
               PROVE  /\ lock' = lock
                      /\ verify' \in [Threads -> Call]
                      /\ \A u \in Threads \ {t} : verify'[u] = verify[u]
                      /\ verify'[t].pc = "look" /\ verify'[t].keys = jwks.keys
                      /\ verify'[t].key = verify[t].key /\ verify'[t].began = verify[t].began
                      /\ verify'[t].force = verify[t].force
                      /\ verify'[t].verdict = verify[t].verdict
    BY DEF Snapshot
  <1> DEFINE row == [verify[t] EXCEPT !.pc = "look", !.keys = jwks.keys, !.gen = jwks.gen]
  <1>1. verify' = [verify EXCEPT ![t] = row] /\ lock' = lock
    BY DEF Snapshot, TypeOK
  <1>2. verify[t] \in Call
    BY DEF TypeOK
  <1>3. row \in Call
    BY <1>2 DEF Call, Waiting, TypeOK
  <1>4. /\ row.pc = "look" /\ row.keys = jwks.keys /\ row.key = verify[t].key
        /\ row.began = verify[t].began /\ row.force = verify[t].force
        /\ row.verdict = verify[t].verdict
    BY <1>2 DEF Call
  <1> HIDE DEF row
  <1> QED BY <1>1, <1>3, <1>4, RowType

LEMMA FetchedType ==
  ASSUME TypeOK, NEW t \in Threads, Fetched(t)
  PROVE  /\ verify' \in [Threads -> Call]
         /\ \A u \in Threads \ {t} : verify'[u] = verify[u]
         /\ verify'[t].pc \in {"look", "final"} /\ verify'[t].keys = published.keys
         /\ verify'[t].key = verify[t].key /\ verify'[t].began = verify[t].began
         /\ verify'[t].force = verify[t].force /\ verify'[t].verdict = verify[t].verdict
  <1> DEFINE pc == IF verify[t].force THEN "final" ELSE "look"
  <1>1. pc \in {"look", "final"} /\ pc \in Waiting \cup Fetching
    BY DEF Waiting
  <1> PICK g \in Nat : g = jwks.gen + 1
    BY DEF TypeOK
  <1> DEFINE row == [verify[t] EXCEPT !.pc = pc, !.keys = published.keys, !.gen = g]
  <1>2. verify' = [verify EXCEPT ![t] = row]
    BY DEF Fetched, TypeOK
  <1> HIDE DEF pc
  <1>3. verify[t] \in Call /\ published.keys \in SUBSET KeyIds
    BY DEF TypeOK
  <1>4. row \in Call
    BY <1>1, <1>3 DEF Call
  <1>5. /\ row.pc = pc /\ row.keys = published.keys /\ row.key = verify[t].key
        /\ row.began = verify[t].began /\ row.force = verify[t].force
        /\ row.verdict = verify[t].verdict
    BY <1>3 DEF Call
  <1> HIDE DEF row
  <1> QED BY <1>1, <1>2, <1>4, <1>5, RowType

\* A verification goes on at pc and keeps its keys.
LEMMA MoveType ==
  ASSUME TypeOK, NEW t \in Threads, NEW pc \in Waiting \cup Fetching,
         verify' = [verify EXCEPT ![t].pc = pc]
  PROVE  /\ verify' \in [Threads -> Call]
         /\ \A u \in Threads \ {t} : verify'[u] = verify[u]
         /\ verify'[t].pc = pc /\ verify'[t].keys = verify[t].keys
         /\ verify'[t].key = verify[t].key /\ verify'[t].began = verify[t].began
         /\ verify'[t].force = verify[t].force /\ verify'[t].verdict = verify[t].verdict
  <1> DEFINE row == [verify[t] EXCEPT !.pc = pc]
  <1>1. verify[t] \in Call /\ verify' = [verify EXCEPT ![t] = row]
    BY DEF TypeOK
  <1>2. row \in Call
    BY <1>1 DEF Call
  <1>3. /\ row.pc = pc /\ row.keys = verify[t].keys /\ row.key = verify[t].key
        /\ row.began = verify[t].began /\ row.force = verify[t].force
        /\ row.verdict = verify[t].verdict
    BY <1>1 DEF Call
  <1> HIDE DEF row
  <1> QED BY <1>1, <1>2, <1>3, RowType

\* A verification whose refresh is spared ends up with the keys K.
Spared(t, K) == verify' = [verify EXCEPT ![t].pc = "final", ![t].keys = K]

LEMMA SparedType ==
  ASSUME TypeOK, NEW t \in Threads, NEW K \in SUBSET KeyIds, Spared(t, K)
  PROVE  /\ verify' \in [Threads -> Call]
         /\ \A u \in Threads \ {t} : verify'[u] = verify[u]
         /\ verify'[t].pc = "final" /\ verify'[t].keys = K
         /\ verify'[t].key = verify[t].key /\ verify'[t].began = verify[t].began
         /\ verify'[t].force = verify[t].force /\ verify'[t].verdict = verify[t].verdict
  <1> DEFINE row == [verify[t] EXCEPT !.pc = "final", !.keys = K]
  <1>1. verify' = [verify EXCEPT ![t] = row]
    BY DEF Spared, TypeOK
  <1>2. verify[t] \in Call
    BY DEF TypeOK
  <1>3. row \in Call
    BY <1>2 DEF Call, Waiting
  <1>4. /\ row.pc = "final" /\ row.keys = K /\ row.key = verify[t].key
        /\ row.began = verify[t].began /\ row.force = verify[t].force
        /\ row.verdict = verify[t].verdict
    BY <1>2 DEF Call
  <1> HIDE DEF row
  <1> QED BY <1>1, <1>3, <1>4, RowType

\* The ways out of the second taking of the lock.
LEMMA RefreshCases ==
  ASSUME TypeOK, NEW t \in Threads, Refresh(t)
  PROVE  /\ verify[t].key \in KeyIds /\ verify[t].pc = "refresh" /\ lock = None
         /\ \/ /\ Answer(t, "unavailable")
               /\ UNCHANGED <<jwks, discovery, tried, failure, lock, forced>>
            \/ \E K \in {jwks.keys, verify[t].keys} :
                 /\ K = jwks.keys \/ jwks.keys = {}
                 /\ Spared(t, K)
                 /\ UNCHANGED <<jwks, discovery, lock, forced>>
                 /\ \/ UNCHANGED <<tried, failure>>
                    \/ ReuseRefresh(t)
            \/ ForceRefresh(t)
  <1>1. verify[t].key \in KeyIds /\ verify[t].pc = "refresh" /\ lock = None
    BY DEF Refresh, TypeOK
  <1>2. CASE AlreadyTried(t) /\ failure[verify[t].key] # None
    BY <1>1, <1>2 DEF AlreadyTried
  <1>3. CASE AlreadyTried(t) /\ failure[verify[t].key] = None
    <2> DEFINE K == IF jwks.keys # {} THEN jwks.keys ELSE verify[t].keys
    <2>1. Spared(t, K)
      BY <1>3 DEF AlreadyTried, Spared, TypeOK
    <2>2. K \in {jwks.keys, verify[t].keys} /\ (K = jwks.keys \/ jwks.keys = {})
      OBVIOUS
    <2>3. UNCHANGED <<jwks, discovery, lock, forced>> /\ UNCHANGED <<tried, failure>>
      BY <1>3 DEF AlreadyTried
    <2> HIDE DEF K
    <2> QED BY <1>1, <2>1, <2>2, <2>3
  <1>4. CASE ReuseRefresh(t)
    BY <1>1, <1>4 DEF ReuseRefresh, Spared
  <1> QED BY <1>1, <1>2, <1>3, <1>4 DEF Refresh

LEMMA LookCases ==
  ASSUME TypeOK, NEW t \in Threads, Look(t)
  PROVE  \/ Answer(t, "accepted") /\ verify[t].key \in verify[t].keys
         \/ verify' = [verify EXCEPT ![t].pc = "refresh"]
  BY DEF Look

\* A verification that is under way keeps its key.
LEMMA KeysKept ==
  ASSUME TypeOK, NEW t \in Threads, verify[t].pc # "idle", verify'[t].key = verify[t].key,
         \A u \in Threads \ {t} : verify'[u] = verify[u]
  PROVE  \A u \in Threads :
           verify'[u].pc # "idle" \/ verify'[u].verdict # "none" => verify'[u].key \in KeyIds
  BY DEF TypeOK

LEMMA TypeStep == TypeOK /\ [Next]_vars => TypeOK'
  <1> SUFFICES ASSUME TypeOK, [Next]_vars PROVE TypeOK'
    OBVIOUS
  <1> USE OidcConstants
  <1> DEFINE KeysOK == \A t \in Threads :
                      verify[t].pc # "idle" \/ verify[t].verdict # "none" => verify[t].key \in KeyIds
  <1>1. CASE Rotate
    BY <1>1, PublishType DEF Rotate, TypeOK, cache
  <1>2. CASE Tick
    <2>1. published' \in [keys : SUBSET KeyIds, changes : Nat, with : [KeyIds -> Nat],
                          without : [KeyIds -> Nat]]
      BY <1>2, TickType
    <2>2. now' \in Nat /\ UNCHANGED <<cache, verify, calls>>
      BY <1>2 DEF Tick, TypeOK
    <2> QED BY <2>1, <2>2 DEF TypeOK, cache
  <1>3. ASSUME NEW t \in Threads, NEW k \in KeyIds, Begin(t, k) PROVE TypeOK'
    <2>1. verify' \in [Threads -> Call] /\ KeysOK'
      BY <1>3, BeginType DEF TypeOK
    <2> QED BY <1>3, <2>1 DEF Begin, TypeOK, cache
  <1>4. ASSUME NEW t \in Threads, Snapshot(t) PROVE TypeOK'
    <2>1. CASE Fetch(t, FALSE)
      <3>1. verify' \in [Threads -> Call] /\ KeysOK'
        BY <1>4, <2>1, FetchType DEF Snapshot, TypeOK
      <3> QED BY <1>4, <2>1, <3>1 DEF Snapshot, Fetch, TypeOK
    <2>2. CASE lock' = lock /\ verify' \in [Threads -> Call] /\ verify'[t].key = verify[t].key
               /\ \A u \in Threads \ {t} : verify'[u] = verify[u]
      <3>1. KeysOK'
        BY <1>4, <2>2 DEF Snapshot, TypeOK
      <3> QED BY <1>4, <2>2, <3>1 DEF Snapshot, TypeOK
    <2> QED BY <1>4, <2>1, <2>2, SnapshotType
  <1>5. ASSUME NEW t \in Threads, Discovered(t) PROVE TypeOK'
    <2>1. "fetching" \in Waiting \cup Fetching
      BY DEF Fetching
    <2>2. verify' \in [Threads -> Call] /\ KeysOK'
      <3>1. verify' = [verify EXCEPT ![t].pc = "fetching"] /\ verify[t].pc # "idle"
        BY <1>5 DEF Discovered
      <3> QED BY <2>1, <3>1, MoveType, KeysKept
    <2> QED BY <1>5, <2>2 DEF Discovered, TypeOK
  <1>6. ASSUME NEW t \in Threads, Fetched(t) PROVE TypeOK'
    <2>1. verify' \in [Threads -> Call] /\ KeysOK'
      <3>1. verify[t].pc # "idle"
        BY <1>6 DEF Fetched
      <3> QED BY <1>6, <3>1, FetchedType, KeysKept
    <2> QED BY <1>6, <2>1 DEF Fetched, Memo, TypeOK
  <1>7. ASSUME NEW t \in Threads, FetchFails(t) PROVE TypeOK'
    <2>1. verify[t].key \in KeyIds
      BY <1>7 DEF FetchFails, TypeOK
    <2>2. tried' \in [KeyIds -> Nat \cup {None}] /\ lock' \in Threads \cup {None}
      BY <1>7, <2>1 DEF FetchFails, TriedOnFailure, AfterFailure, TypeOK
    <2>3. failure' \in [KeyIds -> [gen : Nat, at : Nat] \cup {None}]
      BY <1>7, <2>1 DEF FetchFails, Failure, TypeOK
    <2>4. Answer(t, "unavailable") /\ "unavailable" \in Verdicts
      BY <1>7 DEF FetchFails, Verdicts
    <2>5. verify' \in [Threads -> Call] /\ KeysOK'
      <3>1. verify[t].pc # "idle"
        BY <1>7 DEF FetchFails
      <3> QED BY <2>4, <3>1, AnswerType, KeysKept
    <2> QED BY <1>7, <2>2, <2>3, <2>5 DEF FetchFails, TypeOK
  <1>8. ASSUME NEW t \in Threads, Look(t) PROVE TypeOK'
    <2>1. "accepted" \in Verdicts /\ "refresh" \in Waiting \cup Fetching
      BY DEF Verdicts, Waiting
    <2>2. verify[t].pc # "idle"
      BY <1>8 DEF Look
    <2>3. verify' \in [Threads -> Call] /\ KeysOK'
      <3>1. CASE Answer(t, "accepted")
        BY <2>1, <2>2, <3>1, AnswerType, KeysKept
      <3>2. CASE verify' = [verify EXCEPT ![t].pc = "refresh"]
        BY <2>1, <2>2, <3>2, MoveType, KeysKept
      <3> QED BY <1>8, <3>1, <3>2, LookCases
    <2> QED BY <1>8, <2>3 DEF Look, TypeOK, cache
  <1>9. ASSUME NEW t \in Threads, Refresh(t) PROVE TypeOK'
    <2>1. verify[t].key \in KeyIds /\ verify[t].pc = "refresh" /\ verify[t].keys \in SUBSET KeyIds
      BY <1>9, RefreshCases DEF TypeOK, Call
    <2>2. CASE Answer(t, "unavailable")
               /\ UNCHANGED <<jwks, discovery, tried, failure, lock, forced>>
      <3>1. verify' \in [Threads -> Call] /\ KeysOK'
        BY <2>1, <2>2, AnswerType DEF TypeOK, Verdicts
      <3> QED BY <1>9, <2>2, <3>1 DEF Refresh, TypeOK
    <2>3. ASSUME NEW K \in {jwks.keys, verify[t].keys},
                 Spared(t, K),
                 UNCHANGED <<jwks, discovery, lock, forced>>,
                 UNCHANGED <<tried, failure>> \/ ReuseRefresh(t)
          PROVE  TypeOK'
      <3>1. verify' \in [Threads -> Call] /\ KeysOK'
        BY <2>1, <2>3, SparedType DEF TypeOK
      <3>2. /\ tried' \in [KeyIds -> Nat \cup {None}]
            /\ failure' \in [KeyIds -> [gen : Nat, at : Nat] \cup {None}]
        BY <2>3 DEF ReuseRefresh, TypeOK
      <3> QED BY <1>9, <2>3, <3>1, <3>2 DEF Refresh, TypeOK
    <2>4. CASE ForceRefresh(t)
      <3>1. verify' \in [Threads -> Call] /\ KeysOK'
        BY <2>1, <2>4, FetchType DEF ForceRefresh, TypeOK
      <3> QED BY <1>9, <2>4, <3>1 DEF Refresh, ForceRefresh, Fetch, TypeOK
    <2> QED BY <1>9, <2>2, <2>3, <2>4, RefreshCases
  <1>10. ASSUME NEW t \in Threads, Conclude(t) PROVE TypeOK'
    <2>1. verify' \in [Threads -> Call] /\ KeysOK'
      BY <1>10, AnswerType DEF Conclude, TypeOK, Verdicts
    <2> QED BY <1>10, <2>1 DEF Conclude, TypeOK, cache
  <1>11. CASE UNCHANGED vars
    BY <1>11 DEF vars, cache, TypeOK
  <1> QED BY <1>1, <1>2, <1>3, <1>4, <1>5, <1>6, <1>7, <1>8, <1>9, <1>10, <1>11
      DEF Next, Proceed

\* Every reachable state is well typed, for any threads, keys and cache ages.
THEOREM TypeCorrect == Spec => []TypeOK
  BY TypeInit, TypeStep, PTL DEF Spec

-----------------------------------------------------------------------------
(* The lock and the stampede.                                               *)

LEMMA LockStep == TypeOK /\ TypeOK' /\ LockIsFetcher /\ Next => LockIsFetcher'
  <1> SUFFICES ASSUME TypeOK, TypeOK', LockIsFetcher, Next PROVE LockIsFetcher'
    OBVIOUS
  <1> USE OidcConstants DEF LockIsFetcher
  <1>1. CASE Rotate
    BY <1>1 DEF Rotate, cache
  <1>2. CASE Tick
    BY <1>2 DEF Tick, cache
  <1>3. ASSUME NEW t \in Threads, NEW k \in KeyIds, Begin(t, k) PROVE LockIsFetcher'
    BY <1>3, BeginType DEF Begin, cache, Fetching
  <1>4. ASSUME NEW t \in Threads, Snapshot(t) PROVE LockIsFetcher'
    <2>1. CASE Fetch(t, FALSE)
      BY <1>4, <2>1, FetchType DEF Snapshot, Fetch
    <2>2. CASE /\ lock' = lock /\ verify'[t].pc = "look"
               /\ \A u \in Threads \ {t} : verify'[u] = verify[u]
      BY <1>4, <2>2 DEF Snapshot, Fetching
    <2> QED BY <1>4, <2>1, <2>2, SnapshotType
  <1>5. ASSUME NEW t \in Threads, Discovered(t) PROVE LockIsFetcher'
    BY <1>5, MoveType DEF Discovered, Fetching
  <1>6. ASSUME NEW t \in Threads, Fetched(t) PROVE LockIsFetcher'
    <2>1. lock = t /\ lock' = None
      BY <1>6 DEF Fetched, Fetching
    <2> QED BY <1>6, <2>1, FetchedType DEF Fetching
  <1>7. ASSUME NEW t \in Threads, FetchFails(t) PROVE LockIsFetcher'
    <2>1. lock = t /\ lock' = None /\ Answer(t, "unavailable") /\ "unavailable" \in Verdicts
      BY <1>7 DEF FetchFails, Fetching, AfterFailure, Verdicts
    <2> QED BY <1>7, <2>1, AnswerType DEF Fetching
  <1>8. ASSUME NEW t \in Threads, Look(t) PROVE LockIsFetcher'
    <2>1. "accepted" \in Verdicts /\ "refresh" \in Waiting \cup Fetching
      BY DEF Verdicts, Waiting
    <2>2. /\ verify'[t].pc \in {"idle", "refresh"}
          /\ \A u \in Threads \ {t} : verify'[u] = verify[u]
      BY <1>8, <2>1, LookCases, AnswerType, MoveType
    <2> QED BY <1>8, <2>2 DEF Look, Fetching, cache
  <1>9. ASSUME NEW t \in Threads, Refresh(t) PROVE LockIsFetcher'
    <2>1. verify[t].pc = "refresh" /\ lock = None /\ verify[t].keys \in SUBSET KeyIds
      BY <1>9 DEF Refresh, TypeOK, Call
    <2>2. CASE Answer(t, "unavailable") /\ lock' = lock
      BY <2>1, <2>2, AnswerType DEF Verdicts, Fetching
    <2>3. ASSUME NEW K \in {jwks.keys, verify[t].keys}, Spared(t, K), lock' = lock
          PROVE  LockIsFetcher'
      <3>1. K \in SUBSET KeyIds
        BY <2>1 DEF TypeOK
      <3> QED BY <2>1, <2>3, <3>1, SparedType DEF Fetching
    <2>4. CASE ForceRefresh(t)
      BY <2>1, <2>4, FetchType DEF ForceRefresh, Fetch
    <2> QED BY <1>9, <2>2, <2>3, <2>4, RefreshCases
  <1>10. ASSUME NEW t \in Threads, Conclude(t) PROVE LockIsFetcher'
    <2>1. /\ verify'[t].pc = "idle" /\ \A u \in Threads \ {t} : verify'[u] = verify[u]
      BY <1>10, AnswerType DEF Conclude, Verdicts
    <2> QED BY <1>10, <2>1 DEF Conclude, Fetching, cache
  <1> QED BY <1>1, <1>2, <1>3, <1>4, <1>5, <1>6, <1>7, <1>8, <1>9, <1>10 DEF Next, Proceed

\* Nothing of what is counted and recorded changes, and the fetch under way,
\* if any, stays what it is.
LEMMA ForcedKept ==
  ASSUME TypeOK, ForcedIsKnown, UNCHANGED <<forced, tried, jwks, lock>>,
         \A t \in Threads : lock = t => verify'[t].force = verify[t].force
                                        /\ verify'[t].key = verify[t].key
  PROVE  ForcedIsKnown'
  BY DEF ForcedIsKnown

\* A thread takes the free lock, or whatever else happens while it is free.
LEMMA ForcedFree ==
  ASSUME TypeOK, ForcedIsKnown, lock = None, UNCHANGED <<forced, tried, jwks>>
  PROVE  ForcedIsKnown'
  BY OidcConstants DEF ForcedIsKnown

LEMMA ForcedStep ==
  TypeOK /\ TypeOK' /\ LockIsFetcher /\ ForcedIsKnown /\ Next => ForcedIsKnown'
  <1> SUFFICES ASSUME TypeOK, TypeOK', LockIsFetcher, ForcedIsKnown, Next PROVE ForcedIsKnown'
    OBVIOUS
  <1> USE OidcConstants
  <1>1. CASE Rotate
    BY <1>1, ForcedKept DEF Rotate, cache
  <1>2. CASE Tick
    BY <1>2, ForcedKept DEF Tick, cache
  <1>3. ASSUME NEW t \in Threads, NEW k \in KeyIds, Begin(t, k) PROVE ForcedIsKnown'
    <2>1. lock # t
      BY <1>3 DEF Begin, LockIsFetcher, Fetching
    <2> QED BY <1>3, <2>1, BeginType, ForcedKept DEF Begin, cache
  <1>4. ASSUME NEW t \in Threads, Snapshot(t) PROVE ForcedIsKnown'
    BY <1>4, ForcedFree DEF Snapshot
  <1>5. ASSUME NEW t \in Threads, Discovered(t) PROVE ForcedIsKnown'
    <2>1. "fetching" \in Waiting \cup Fetching
      BY DEF Fetching
    <2> QED BY <1>5, <2>1, MoveType, ForcedKept DEF Discovered
  <1>6. ASSUME NEW t \in Threads, Fetched(t) PROVE ForcedIsKnown'
    <2>1. jwks'.gen = jwks.gen + 1
      BY <1>6 DEF Fetched
    <2>2. \A k \in KeyIds :
            \/ forced'[k] = 0
            \/ forced'[k] = 1 /\ tried'[k] = jwks.gen + 1
      BY <1>6 DEF Fetched, Memo
    <2> QED BY <2>1, <2>2 DEF ForcedIsKnown
  <1>7. ASSUME NEW t \in Threads, FetchFails(t) PROVE ForcedIsKnown'
    <2>1. lock = t /\ verify[t].key \in KeyIds
      BY <1>7 DEF FetchFails, LockIsFetcher, Fetching, TypeOK
    <2>2. /\ forced' = forced /\ jwks' = jwks
          /\ \A k \in KeyIds : IF verify[t].force /\ k = verify[t].key
                                THEN tried'[k] = jwks.gen ELSE tried'[k] = tried[k]
      BY <1>7, <2>1 DEF FetchFails, TriedOnFailure, TypeOK
    <2> QED BY <2>1, <2>2 DEF ForcedIsKnown
  <1>8. ASSUME NEW t \in Threads, Look(t) PROVE ForcedIsKnown'
    <2>1. lock # t
      BY <1>8 DEF Look, LockIsFetcher, Fetching
    <2>2. \A u \in Threads \ {t} : verify'[u] = verify[u]
      BY <1>8, LookCases, AnswerType, MoveType DEF Verdicts, Waiting
    <2> QED BY <1>8, <2>1, <2>2, ForcedKept DEF Look, cache
  <1>9. ASSUME NEW t \in Threads, Refresh(t) PROVE ForcedIsKnown'
    <2>1. lock = None /\ verify[t].key \in KeyIds
      BY <1>9, RefreshCases
    <2>2. CASE UNCHANGED <<jwks, forced, tried>>
      BY <2>1, <2>2, ForcedFree
    <2>3. CASE ReuseRefresh(t)
      <3>1. /\ UNCHANGED <<jwks, forced>>
            /\ \A k \in KeyIds : tried'[k] = IF k = verify[t].key THEN jwks.gen ELSE tried[k]
        BY <2>1, <2>3 DEF ReuseRefresh, TypeOK
      <3> QED BY <2>1, <3>1 DEF ForcedIsKnown
    <2>4. CASE ForceRefresh(t)
      <3>1. /\ UNCHANGED <<jwks, tried>> /\ tried[verify[t].key] # jwks.gen
            /\ \A k \in KeyIds : forced'[k] = IF k = verify[t].key THEN forced[k] + 1
                                               ELSE forced[k]
        BY <2>1, <2>4 DEF ForceRefresh, TypeOK
      <3>2. forced[verify[t].key] = 0
        BY <2>1, <3>1 DEF ForcedIsKnown
      <3>3. lock' = t /\ verify'[t].force /\ verify'[t].key = verify[t].key
        BY <2>4, FetchType DEF ForceRefresh, Fetch
      <3> QED BY <2>1, <3>1, <3>2, <3>3 DEF ForcedIsKnown
    <2> QED BY <1>9, <2>2, <2>3, <2>4, RefreshCases
  <1>10. ASSUME NEW t \in Threads, Conclude(t) PROVE ForcedIsKnown'
    <2>1. lock # t
      BY <1>10 DEF Conclude, LockIsFetcher, Fetching
    <2>2. \A u \in Threads \ {t} : verify'[u] = verify[u]
      BY <1>10, AnswerType DEF Conclude, Verdicts
    <2> QED BY <1>10, <2>1, <2>2, ForcedKept DEF Conclude, cache
  <1> QED BY <1>1, <1>2, <1>3, <1>4, <1>5, <1>6, <1>7, <1>8, <1>9, <1>10 DEF Next, Proceed
-----------------------------------------------------------------------------
(* The age of the keys.                                                     *)

Dated == ClockIsPast /\ PublishedIsDated /\ CacheIsDated

\* What a step leaves to the clock, the provider and the cache.
Aged ==
  /\ now' >= now
  /\ \A k \in KeyIds : /\ published'.with[k] >= published.with[k]
                       /\ published'.without[k] >= published.without[k]
  /\ \/ jwks' = jwks
     \/ jwks'.fetched = now
  /\ \A t \in Threads : verify'[t].began \in {verify[t].began, now}

\* The verification a thread's step is about keeps the time it began at.
LEMMA BeganKept ==
  ASSUME TypeOK, NEW t \in Threads,
         \/ \E k \in KeyIds : Begin(t, k)
         \/ Proceed(t)
  PROVE  /\ verify'[t].began \in {verify[t].began, now}
         /\ \A u \in Threads \ {t} : verify'[u] = verify[u]
  <1>1. ASSUME NEW k \in KeyIds, Begin(t, k)
        PROVE  verify'[t].began = now /\ \A u \in Threads \ {t} : verify'[u] = verify[u]
    BY <1>1, BeginType
  <1> DEFINE Kept == /\ verify'[t].began = verify[t].began
                     /\ \A u \in Threads \ {t} : verify'[u] = verify[u]
  <1>2. CASE Snapshot(t)
    BY <1>2, SnapshotType, FetchType
  <1>3. CASE Discovered(t)
    BY <1>3, MoveType DEF Discovered, Fetching
  <1>4. CASE Fetched(t)
    BY <1>4, FetchedType
  <1>5. CASE FetchFails(t)
    BY <1>5, AnswerType DEF FetchFails, Verdicts
  <1>6. CASE Look(t)
    BY <1>6, LookCases, AnswerType, MoveType DEF Verdicts, Waiting
  <1>7. CASE Refresh(t)
    <2>1. jwks.keys \in SUBSET KeyIds /\ verify[t].keys \in SUBSET KeyIds
      BY DEF TypeOK, Call
    <2>2. ASSUME NEW K \in {jwks.keys, verify[t].keys}, Spared(t, K) PROVE Kept
      BY <2>1, <2>2, SparedType
    <2>3. CASE Answer(t, "unavailable")
      BY <2>3, AnswerType DEF Verdicts
    <2>4. CASE ForceRefresh(t)
      BY <2>4, FetchType DEF ForceRefresh
    <2> QED BY <1>7, <2>2, <2>3, <2>4, RefreshCases
  <1>8. CASE Conclude(t)
    BY <1>8, AnswerType DEF Conclude, Verdicts
  <1> QED BY <1>1, <1>2, <1>3, <1>4, <1>5, <1>6, <1>7, <1>8 DEF Proceed

\* Only an answer of the provider changes the keys of the cache, and no thread
\* changes the clock or the provider.
LEMMA CacheKept ==
  ASSUME TypeOK, NEW t \in Threads, Proceed(t)
  PROVE  /\ UNCHANGED <<now, published>>
         /\ \/ jwks' = jwks
            \/ jwks'.keys = published.keys /\ jwks'.fetched = now
  <1>1. CASE Fetched(t)
    BY <1>1 DEF Fetched
  <1>2. CASE Refresh(t)
    BY <1>2 DEF Refresh, AlreadyTried, ReuseRefresh, ForceRefresh
  <1>3. CASE Snapshot(t) \/ Discovered(t) \/ FetchFails(t)
    BY <1>3 DEF Snapshot, Discovered, FetchFails
  <1>4. CASE Look(t) \/ Conclude(t)
    BY <1>4 DEF Look, Conclude, cache
  <1> QED BY <1>1, <1>2, <1>3, <1>4 DEF Proceed

LEMMA DatedStep == TypeOK /\ TypeOK' /\ Dated /\ Next => Dated' /\ Aged
  <1> SUFFICES ASSUME TypeOK, TypeOK', Dated, Next PROVE Dated' /\ Aged
    OBVIOUS
  <1> USE OidcConstants
  <1>1. /\ now \in Nat /\ jwks.fetched \in Nat \cup {None}
        /\ \A k \in KeyIds : published.with[k] \in Nat /\ published.without[k] \in Nat
        /\ \A t \in Threads : verify[t].began \in Nat
    BY DEF TypeOK, Call
  <1>2. CASE Rotate
    <2>1. PICK K \in SUBSET KeyIds : published' = Publish(K)
      BY <1>2 DEF Rotate
    <2>2. UNCHANGED <<now, jwks, verify>>
      BY <1>2 DEF Rotate, cache
    <2>3. /\ published'.keys = K
          /\ \A k \in KeyIds :
               /\ published'.with[k] =
                    IF k \in K \cup published.keys THEN now ELSE published.with[k]
               /\ published'.without[k] =
                    IF k \notin K \cap published.keys THEN now ELSE published.without[k]
      BY <2>1, PublishType
    <2>4. \A k \in KeyIds : published.with[k] <= now /\ published.without[k] <= now
      BY DEF Dated, ClockIsPast
    <2>5. \A k \in KeyIds : /\ published'.with[k] >= published.with[k]
                           /\ published'.without[k] >= published.without[k]
      BY <1>1, <2>3, <2>4
    <2>6. ClockIsPast'
      BY <1>1, <2>2, <2>3, <2>4 DEF Dated, ClockIsPast
    <2>7. PublishedIsDated'
      BY <2>2, <2>3 DEF PublishedIsDated
    <2>8. CacheIsDated'
      <3>1. \A k \in KeyIds : published'.with[k] \in Nat /\ published'.without[k] \in Nat
        BY DEF TypeOK
      <3> QED BY <1>1, <2>2, <2>5, <3>1 DEF Dated, CacheIsDated
    <2> QED BY <1>1, <2>2, <2>5, <2>6, <2>7, <2>8 DEF Dated, Aged
  <1>3. CASE Tick
    <2>1. now' = now + 1 /\ UNCHANGED <<jwks, verify>>
      BY <1>3 DEF Tick, cache
    <2>2. /\ published'.keys = published.keys
          /\ \A k \in KeyIds :
               /\ published'.with[k] =
                    IF k \in published.keys THEN now + 1 ELSE published.with[k]
               /\ published'.without[k] =
                    IF k \notin published.keys THEN now + 1 ELSE published.without[k]
      BY <1>3, TickType
    <2>3. \A k \in KeyIds : published.with[k] <= now /\ published.without[k] <= now
      BY DEF Dated, ClockIsPast
    <2>4. \A k \in KeyIds : /\ published'.with[k] >= published.with[k]
                           /\ published'.without[k] >= published.without[k]
      BY <1>1, <2>2, <2>3
    <2>5. ClockIsPast'
      BY <1>1, <2>1, <2>2, <2>3 DEF Dated, ClockIsPast
    <2>6. PublishedIsDated'
      BY <2>1, <2>2 DEF PublishedIsDated
    <2>7. CacheIsDated'
      <3>1. \A k \in KeyIds : published'.with[k] \in Nat /\ published'.without[k] \in Nat
        BY DEF TypeOK
      <3> QED BY <1>1, <2>1, <2>4, <3>1 DEF Dated, CacheIsDated
    <2> QED BY <1>1, <2>1, <2>4, <2>5, <2>6, <2>7 DEF Dated, Aged
  <1>4. ASSUME NEW t \in Threads, (\E k \in KeyIds : Begin(t, k)) \/ Proceed(t)
        PROVE  Dated' /\ Aged
    <2>1. /\ UNCHANGED <<now, published>>
          /\ \/ jwks' = jwks
             \/ jwks'.keys = published.keys /\ jwks'.fetched = now
      BY <1>4, CacheKept DEF Begin, cache
    <2>2. \A u \in Threads : verify'[u].began \in {verify[u].began, now}
      BY <1>4, BeganKept
    <2>3. ClockIsPast'
      BY <1>1, <2>1, <2>2 DEF Dated, ClockIsPast
    <2>4. CacheIsDated'
      BY <1>1, <2>1 DEF Dated, CacheIsDated, PublishedIsDated
    <2> QED BY <1>1, <2>1, <2>2, <2>3, <2>4 DEF Dated, Aged, PublishedIsDated
  <1> QED BY <1>2, <1>3, <1>4 DEF Next

-----------------------------------------------------------------------------
(* The age of what a verification looks at.                                 *)

\* The verifications CacheIsYoung is about.
PastSnapshot(row) == row.pc \in Past \/ (row.pc \in Fetching /\ row.force)

\* The cache only gets younger.
LEMMA YoungKept ==
  ASSUME TypeOK, TypeOK', Dated, Aged, NEW u \in Threads,
         jwks.fetched # None, jwks.fetched + JwksAge >= verify[u].began,
         verify'[u].began = verify[u].began
  PROVE  jwks'.fetched # None /\ jwks'.fetched + JwksAge >= verify'[u].began
  <1>1. /\ verify[u].began \in Nat /\ now \in Nat /\ verify[u].began <= now
        /\ jwks.fetched \in Nat
    BY DEF TypeOK, Call, Dated, ClockIsPast
  <1> QED BY <1>1, OidcConstants DEF Aged

LEMMA YoungStep ==
  TypeOK /\ TypeOK' /\ Dated /\ Aged /\ CacheIsYoung /\ Next => CacheIsYoung'
  <1> SUFFICES ASSUME TypeOK, TypeOK', Dated, Aged, CacheIsYoung, Next,
                      NEW u \in Threads, PastSnapshot(verify'[u])
               PROVE  jwks'.fetched # None /\ jwks'.fetched + JwksAge >= verify'[u].began
    BY DEF CacheIsYoung, PastSnapshot
  <1> USE OidcConstants
  <1> DEFINE Goal == jwks'.fetched # None /\ jwks'.fetched + JwksAge >= verify'[u].began
  <1>1. ASSUME PastSnapshot(verify[u]), verify'[u].began = verify[u].began PROVE Goal
    BY <1>1, YoungKept DEF CacheIsYoung, PastSnapshot
  <1>2. CASE verify' = verify
    BY <1>1, <1>2
  <1>3. ASSUME NEW t \in Threads, t # u, (\E k \in KeyIds : Begin(t, k)) \/ Proceed(t)
        PROVE  Goal
    <2>1. verify'[u] = verify[u]
      BY <1>3, BeganKept
    <2> QED BY <1>1, <2>1
  <1>4. ASSUME NEW k \in KeyIds, Begin(u, k) PROVE Goal
    BY <1>4, BeginType DEF PastSnapshot, Past, Fetching
  <1>5. CASE Snapshot(u)
    <2>1. CASE Fetch(u, FALSE)
      BY <2>1, FetchType DEF PastSnapshot, Past, Fetching
    <2>2. CASE Fresh(jwks.fetched, JwksAge) /\ verify'[u].began = verify[u].began
      <3>1. jwks' = jwks /\ verify[u].began <= now /\ verify[u].began \in Nat /\ now \in Nat
        BY <1>5 DEF Snapshot, Dated, ClockIsPast, TypeOK, Call
      <3>2. jwks.fetched \in Nat /\ now - jwks.fetched < JwksAge
        BY <2>2 DEF Fresh, TypeOK
      <3> QED BY <2>2, <3>1, <3>2
    <2> QED BY <1>5, <2>1, <2>2, SnapshotType
  <1>6. CASE Discovered(u)
    <2>1. "fetching" \in Waiting \cup Fetching
      BY DEF Fetching
    <2>2. /\ verify'[u].pc = "fetching" /\ verify'[u].force = verify[u].force
          /\ verify'[u].began = verify[u].began
      BY <1>6, <2>1, MoveType DEF Discovered
    <2> QED BY <1>1, <1>6, <2>2 DEF PastSnapshot, Past, Fetching, Discovered
  <1>7. CASE Fetched(u)
    <2>1. jwks'.fetched = now /\ verify'[u].began = verify[u].began
      BY <1>7, FetchedType DEF Fetched
    <2>2. verify[u].began <= now /\ verify[u].began \in Nat /\ now \in Nat
      BY DEF Dated, ClockIsPast, TypeOK, Call
    <2> QED BY <2>1, <2>2
  <1>8. CASE FetchFails(u) \/ Conclude(u)
    <2>1. verify'[u].pc = "idle"
      BY <1>8, AnswerType DEF FetchFails, Conclude, Verdicts
    <2> QED BY <2>1 DEF PastSnapshot, Past, Fetching
  <1>9. CASE Look(u) \/ Refresh(u)
    <2>1. PastSnapshot(verify[u])
      BY <1>9 DEF Look, Refresh, PastSnapshot, Past
    <2>2. verify'[u].began = verify[u].began
      <3>1. CASE Answer(u, "accepted") \/ Answer(u, "unavailable")
        BY <3>1, AnswerType DEF Verdicts
      <3>2. CASE verify' = [verify EXCEPT ![u].pc = "refresh"]
        BY <3>2, MoveType DEF Waiting
      <3>3. ASSUME NEW K \in {jwks.keys, verify[u].keys}, Spared(u, K)
            PROVE  verify'[u].began = verify[u].began
        BY <3>3, SparedType DEF TypeOK, Call
      <3>4. CASE ForceRefresh(u)
        BY <3>4, FetchType DEF ForceRefresh
      <3> QED BY <1>9, <3>1, <3>2, <3>3, <3>4, LookCases, RefreshCases
    <2> QED BY <1>1, <2>1, <2>2
  <1> QED BY <1>2, <1>3, <1>4, <1>5, <1>6, <1>7, <1>8, <1>9
      DEF Next, Rotate, Tick, Proceed, cache

\* What KeysAreYoung says of one verification.
Young(row) ==
  /\ \A k \in row.keys : published.with[k] + JwksAge >= row.began
  /\ row.pc = "final" /\ row.key \notin row.keys =>
       published.without[row.key] + JwksAge >= row.began

\* The keys of the cache are young enough for those past their snapshot.
LEMMA CacheKeysYoung ==
  ASSUME TypeOK, Dated, NEW k \in KeyIds, NEW began \in Nat,
         jwks.fetched # None, jwks.fetched + JwksAge >= began
  PROVE  /\ k \in jwks.keys => published.with[k] + JwksAge >= began
         /\ k \notin jwks.keys => published.without[k] + JwksAge >= began
  <1>1. /\ jwks.fetched \in Nat
        /\ published.with[k] \in Nat /\ published.without[k] \in Nat
    BY DEF TypeOK
  <1> QED BY <1>1, OidcConstants DEF Dated, CacheIsDated

LEMMA KeysStep ==
  TypeOK /\ TypeOK' /\ Dated /\ Dated' /\ Aged /\ CacheIsYoung /\ CacheIsYoung' /\ KeysAreYoung
    /\ Next => KeysAreYoung'
  <1> SUFFICES ASSUME TypeOK, TypeOK', Dated, Dated', Aged, CacheIsYoung, CacheIsYoung',
                      KeysAreYoung, Next, NEW u \in Threads, verify'[u].pc \in Past
               PROVE  Young(verify[u])'
    BY DEF KeysAreYoung, Young
  <1> USE OidcConstants
  <1>1. /\ \A k \in KeyIds : /\ published.with[k] \in Nat /\ published.without[k] \in Nat
                            /\ published'.with[k] \in Nat /\ published'.without[k] \in Nat
                            /\ published'.with[k] >= published.with[k]
                            /\ published'.without[k] >= published.without[k]
        /\ verify[u].began \in Nat /\ verify[u].keys \in SUBSET KeyIds
        /\ verify'[u].began \in Nat /\ verify'[u].keys \in SUBSET KeyIds
        /\ verify[u].pc # "idle" => verify[u].key \in KeyIds
        /\ verify'[u].key \in KeyIds
    BY DEF TypeOK, Call, Aged, Past
  <1>2. ASSUME verify[u].pc \in Past, verify'[u].keys = verify[u].keys,
               verify'[u].began = verify[u].began, verify'[u].key = verify[u].key,
               verify'[u].pc = "final" => verify[u].pc = "final"
        PROVE  Young(verify[u])'
    BY <1>1, <1>2 DEF Young, KeysAreYoung
  <1>3. CASE verify' = verify
    BY <1>2, <1>3
  <1>4. ASSUME NEW t \in Threads, t # u, (\E k \in KeyIds : Begin(t, k)) \/ Proceed(t)
        PROVE  Young(verify[u])'
    <2>1. verify'[u] = verify[u]
      BY <1>4, BeganKept
    <2> QED BY <1>2, <2>1
  <1>5. ASSUME NEW k \in KeyIds, Begin(u, k) PROVE FALSE
    BY <1>5, BeginType DEF Past
  \* Whoever gets the keys of the cache gets young ones.
  <1>6. ASSUME verify'[u].keys = jwks'.keys PROVE Young(verify[u])'
    <2>1. jwks'.fetched # None /\ jwks'.fetched + JwksAge >= verify'[u].began
      BY DEF CacheIsYoung
    <2>2. \A k \in KeyIds :
            /\ k \in jwks'.keys => published'.with[k] + JwksAge >= verify'[u].began
            /\ k \notin jwks'.keys => published'.without[k] + JwksAge >= verify'[u].began
      <3>1. \A k \in KeyIds :
              IF k \in jwks'.keys THEN published'.with[k] >= jwks'.fetched
                                   ELSE published'.without[k] >= jwks'.fetched
        BY <2>1 DEF Dated, CacheIsDated
      <3>2. jwks'.fetched \in Nat
        BY <2>1 DEF TypeOK
      <3> QED BY <1>1, <2>1, <3>1, <3>2
    <2> QED BY <1>1, <1>6, <2>2 DEF Young
  <1>7. CASE Snapshot(u)
    <2>1. jwks' = jwks
      BY <1>7 DEF Snapshot
    <2>2. verify'[u].keys = jwks.keys
      BY <1>7, SnapshotType, FetchType DEF Past, Fetching
    <2> QED BY <1>6, <2>1, <2>2
  <1>8. CASE Fetched(u)
    BY <1>6, <1>8, FetchedType DEF Fetched
  <1>9. CASE Discovered(u) \/ FetchFails(u) \/ Conclude(u)
    <2>1. CASE Discovered(u)
      BY <2>1, MoveType DEF Discovered, Past, Fetching
    <2>2. CASE FetchFails(u) \/ Conclude(u)
      BY <2>2, AnswerType DEF FetchFails, Conclude, Verdicts, Past
    <2> QED BY <1>9, <2>1, <2>2
  <1>10. CASE Look(u)
    <2>1. verify[u].pc \in Past
      BY <1>10 DEF Look, Past
    <2>2. CASE Answer(u, "accepted")
      BY <2>2, AnswerType DEF Verdicts, Past
    <2>3. CASE verify' = [verify EXCEPT ![u].pc = "refresh"]
      BY <1>2, <2>1, <2>3, MoveType DEF Waiting
    <2> QED BY <1>10, <2>2, <2>3, LookCases
  <1>11. CASE Refresh(u)
    <2>1. verify[u].pc \in Past /\ verify[u].key \in KeyIds
      BY <1>11, RefreshCases DEF Past
    <2>2. CASE Answer(u, "unavailable")
      BY <2>2, AnswerType DEF Verdicts, Past
    <2>3. CASE ForceRefresh(u)
      BY <2>3, FetchType DEF ForceRefresh, Past, Fetching
    <2>4. ASSUME NEW K \in {jwks.keys, verify[u].keys}, K = jwks.keys \/ jwks.keys = {},
                 Spared(u, K), jwks' = jwks
          PROVE  Young(verify[u])'
      <3>1. /\ verify'[u].keys = K /\ verify'[u].key = verify[u].key
            /\ verify'[u].began = verify[u].began
        BY <1>1, <2>4, SparedType DEF TypeOK
      <3>2. CASE K = jwks.keys
        BY <1>6, <2>4, <3>1, <3>2
      <3>3. CASE jwks.keys = {} /\ K = verify[u].keys
        <4>1. \A k \in verify[u].keys : published'.with[k] + JwksAge >= verify[u].began
          BY <1>1, <2>1 DEF KeysAreYoung
        <4>2. jwks.fetched # None /\ jwks.fetched + JwksAge >= verify[u].began
          BY <2>1 DEF CacheIsYoung
        <4>3. published.without[verify[u].key] + JwksAge >= verify[u].began
          BY <1>1, <2>1, <3>3, <4>2, CacheKeysYoung
        <4> QED BY <1>1, <2>1, <3>1, <3>3, <4>1, <4>3 DEF Young
      <3> QED BY <2>4, <3>2, <3>3
    <2> QED BY <1>11, <2>2, <2>3, <2>4, RefreshCases
  <1> QED BY <1>3, <1>4, <1>5, <1>7, <1>8, <1>9, <1>10, <1>11
      DEF Next, Rotate, Tick, Proceed, cache

-----------------------------------------------------------------------------
(* The verdicts and the failures on record.                                 *)

\* A verdict on the keys comes from those the verification holds.
LEMMA VerdictCases ==
  ASSUME TypeOK, NEW t \in Threads, Proceed(t)
  PROVE  /\ verify[t].key \in KeyIds
         /\ \/ /\ verify'[t].verdict = verify[t].verdict
               /\ verify'[t].key = verify[t].key /\ verify'[t].began = verify[t].began
            \/ verify'[t].verdict = "unavailable"
            \/ /\ verify'[t].verdict = "accepted" /\ verify[t].pc \in Past
               /\ verify[t].key \in verify[t].keys
               /\ verify'[t].key = verify[t].key /\ verify'[t].began = verify[t].began
            \/ /\ verify'[t].verdict = "key_not_found" /\ verify[t].pc = "final"
               /\ verify[t].key \notin verify[t].keys
               /\ verify'[t].key = verify[t].key /\ verify'[t].began = verify[t].began
  <1> DEFINE Kept == /\ verify'[t].verdict = verify[t].verdict
                     /\ verify'[t].key = verify[t].key /\ verify'[t].began = verify[t].began
  <1>0. verify[t].key \in KeyIds
    BY DEF Proceed, Snapshot, Discovered, Fetched, FetchFails, Look, Refresh, Conclude, TypeOK
  <1>1. CASE Snapshot(t)
    BY <1>0, <1>1, SnapshotType, FetchType
  <1>2. CASE Discovered(t)
    BY <1>0, <1>2, MoveType DEF Discovered, Fetching
  <1>3. CASE Fetched(t)
    BY <1>0, <1>3, FetchedType
  <1>4. CASE FetchFails(t)
    BY <1>0, <1>4, AnswerType DEF FetchFails, Verdicts
  <1>5. CASE Look(t)
    <2>1. CASE verify' = [verify EXCEPT ![t].pc = "refresh"]
      BY <1>0, <2>1, MoveType DEF Waiting
    <2>2. CASE Answer(t, "accepted") /\ verify[t].key \in verify[t].keys
      BY <1>0, <1>5, <2>2, AnswerType DEF Look, Verdicts, Past
    <2> QED BY <1>5, <2>1, <2>2, LookCases
  <1>6. CASE Refresh(t)
    <2>1. CASE Answer(t, "unavailable")
      BY <1>0, <2>1, AnswerType DEF Verdicts
    <2>2. ASSUME NEW K \in {jwks.keys, verify[t].keys}, Spared(t, K) PROVE Kept
      BY <2>2, SparedType DEF TypeOK, Call
    <2>3. CASE ForceRefresh(t)
      BY <1>0, <2>3, FetchType DEF ForceRefresh
    <2> QED BY <1>0, <1>6, <2>1, <2>2, <2>3, RefreshCases
  <1>7. CASE Conclude(t)
    BY <1>0, <1>7, AnswerType DEF Conclude, Verdicts, Past
  <1> QED BY <1>1, <1>2, <1>3, <1>4, <1>5, <1>6, <1>7 DEF Proceed

\* What the two properties say of one verification.
Recent(row) ==
  /\ row.verdict = "accepted" => published.with[row.key] + JwksAge >= row.began
  /\ row.verdict = "key_not_found" => published.without[row.key] + JwksAge >= row.began

LEMMA VerdictStep ==
  TypeOK /\ TypeOK' /\ Aged /\ KeysAreYoung /\ AcceptedKeyIsRecent /\ MissingKeyIsRecent /\ Next
    => AcceptedKeyIsRecent' /\ MissingKeyIsRecent'
  <1> SUFFICES ASSUME TypeOK, TypeOK', Aged, KeysAreYoung, AcceptedKeyIsRecent,
                      MissingKeyIsRecent, Next, NEW u \in Threads
               PROVE  Recent(verify[u])'
    BY DEF AcceptedKeyIsRecent, MissingKeyIsRecent, Recent
  <1> USE OidcConstants
  <1>1. /\ \A k \in KeyIds : /\ published.with[k] \in Nat /\ published.without[k] \in Nat
                            /\ published'.with[k] \in Nat /\ published'.without[k] \in Nat
                            /\ published'.with[k] >= published.with[k]
                            /\ published'.without[k] >= published.without[k]
        /\ verify[u].began \in Nat
        /\ verify[u].verdict # "none" => verify[u].key \in KeyIds
    BY DEF TypeOK, Call, Aged
  <1>2. Recent(verify[u])
    BY DEF AcceptedKeyIsRecent, MissingKeyIsRecent, Recent
  <1>3. ASSUME verify'[u].verdict = verify[u].verdict, verify'[u].key = verify[u].key,
               verify'[u].began = verify[u].began
        PROVE  Recent(verify[u])'
    BY <1>1, <1>2, <1>3 DEF Recent
  <1>4. ASSUME NEW t \in Threads, t # u, (\E k \in KeyIds : Begin(t, k)) \/ Proceed(t)
        PROVE  Recent(verify[u])'
    BY <1>3, <1>4, BeganKept
  <1>5. ASSUME NEW k \in KeyIds, Begin(u, k) PROVE Recent(verify[u])'
    BY <1>5, BeginType DEF Recent
  <1>6. CASE Proceed(u)
    <2>1. CASE verify'[u].verdict = "unavailable"
      BY <2>1 DEF Recent
    <2>2. CASE /\ verify'[u].verdict = "accepted" /\ verify[u].pc \in Past
               /\ verify[u].key \in verify[u].keys /\ verify[u].key \in KeyIds
               /\ verify'[u].key = verify[u].key /\ verify'[u].began = verify[u].began
      <3>1. published.with[verify[u].key] + JwksAge >= verify[u].began
        BY <2>2 DEF KeysAreYoung
      <3> QED BY <1>1, <2>2, <3>1 DEF Recent
    <2>3. CASE /\ verify'[u].verdict = "key_not_found" /\ verify[u].pc = "final"
               /\ verify[u].key \notin verify[u].keys /\ verify[u].key \in KeyIds
               /\ verify'[u].key = verify[u].key /\ verify'[u].began = verify[u].began
      <3>1. published.without[verify[u].key] + JwksAge >= verify[u].began
        BY <2>3 DEF KeysAreYoung, Past
      <3> QED BY <1>1, <2>3, <3>1 DEF Recent
    <2> QED BY <1>3, <1>6, <2>1, <2>2, <2>3, VerdictCases
  <1> QED BY <1>3, <1>4, <1>5, <1>6 DEF Next, Rotate, Tick, cache

LEMMA FailureStep ==
  TypeOK /\ TypeOK' /\ Dated /\ CacheIsYoung /\ FailureIsRecent /\ Next => FailureIsRecent'
  <1> SUFFICES ASSUME TypeOK, TypeOK', Dated, CacheIsYoung, FailureIsRecent, Next
               PROVE  FailureIsRecent'
    OBVIOUS
  <1> USE OidcConstants
  <1>1. CASE UNCHANGED <<jwks, tried, failure>>
    BY <1>1 DEF FailureIsRecent
  <1>2. ASSUME NEW t \in Threads, Fetched(t) PROVE FailureIsRecent'
    BY <1>2 DEF Fetched, FailureIsRecent
  <1>3. ASSUME NEW t \in Threads, FetchFails(t), verify[t].force PROVE FailureIsRecent'
    <2>1. /\ jwks' = jwks /\ jwks.fetched # None
          /\ jwks.fetched <= now /\ verify[t].key \in KeyIds
      BY <1>3 DEF FetchFails, CacheIsYoung, Fetching, Dated, ClockIsPast, TypeOK
    <2>2. \A k \in KeyIds :
            IF k = verify[t].key
            THEN tried'[k] = jwks.gen /\ failure'[k] = [gen |-> jwks.gen, at |-> now]
            ELSE tried'[k] = tried[k] /\ failure'[k] = failure[k]
      BY <1>3, <2>1 DEF FetchFails, TriedOnFailure, Failure, TypeOK
    <2> QED BY <2>1, <2>2 DEF FailureIsRecent, TypeOK
  <1>4. ASSUME NEW t \in Threads, ReuseRefresh(t), verify[t].key \in KeyIds
        PROVE  FailureIsRecent'
    <2>1. /\ jwks' = jwks
          /\ \A k \in KeyIds :
               IF k = verify[t].key THEN failure'[k] = None
               ELSE tried'[k] = tried[k] /\ failure'[k] = failure[k]
      BY <1>4 DEF ReuseRefresh, TypeOK
    <2> QED BY <2>1 DEF FailureIsRecent
  <1>5. ASSUME NEW t \in Threads, Proceed(t) PROVE FailureIsRecent'
    <2>1. CASE FetchFails(t)
      BY <1>1, <1>3, <2>1 DEF FetchFails, TriedOnFailure
    <2>2. CASE Refresh(t)
      <3>1. verify[t].key \in KeyIds
        BY <2>2, RefreshCases
      <3>2. CASE AlreadyTried(t) \/ ForceRefresh(t)
        BY <1>1, <3>2 DEF AlreadyTried, ForceRefresh
      <3> QED BY <1>4, <2>2, <3>1, <3>2 DEF Refresh
    <2>3. CASE Snapshot(t) \/ Discovered(t) \/ Look(t) \/ Conclude(t)
      BY <1>1, <2>3 DEF Snapshot, Discovered, Look, Conclude, cache
    <2> QED BY <1>2, <1>5, <2>1, <2>2, <2>3 DEF Proceed
  <1>6. CASE Rotate \/ Tick \/ \E t \in Threads, k \in KeyIds : Begin(t, k)
    BY <1>1, <1>6 DEF Rotate, Tick, Begin, cache
  <1> QED BY <1>5, <1>6 DEF Next

-----------------------------------------------------------------------------
(* The invariant.                                                           *)

LEMMA InvInit == Init => IInv
  <1> SUFFICES ASSUME Init PROVE IInv
    OBVIOUS
  <1>1. TypeOK
    BY TypeInit
  <1>2. \A t \in Threads : /\ verify[t].pc = "idle" /\ verify[t].verdict = "none"
                          /\ verify[t].began = 0
    BY DEF Init, NoCall
  <1>3. LockIsFetcher /\ CacheIsYoung /\ KeysAreYoung
    BY <1>2, OidcConstants DEF Init, LockIsFetcher, CacheIsYoung, KeysAreYoung, Fetching, Past
  <1>4. ForcedIsKnown /\ FailureIsRecent
    BY DEF Init, ForcedIsKnown, FailureIsRecent
  <1>5. ClockIsPast /\ PublishedIsDated /\ CacheIsDated
    BY <1>2 DEF Init, ClockIsPast, PublishedIsDated, CacheIsDated
  <1>6. AcceptedKeyIsRecent /\ MissingKeyIsRecent
    BY <1>2 DEF AcceptedKeyIsRecent, MissingKeyIsRecent
  <1> QED BY <1>1, <1>3, <1>4, <1>5, <1>6 DEF IInv

LEMMA InvStep == IInv /\ [Next]_vars => IInv'
  <1> SUFFICES ASSUME IInv, [Next]_vars PROVE IInv'
    OBVIOUS
  <1>1. CASE Next
    <2>1. TypeOK /\ TypeOK' /\ Dated
      BY TypeStep DEF IInv, Dated
    <2>2. Dated' /\ Aged
      BY <1>1, <2>1, DatedStep
    <2>3. CacheIsYoung'
      BY <1>1, <2>1, <2>2, YoungStep DEF IInv
    <2>4. KeysAreYoung'
      BY <1>1, <2>1, <2>2, <2>3, KeysStep DEF IInv
    <2>5. LockIsFetcher' /\ ForcedIsKnown'
      BY <1>1, <2>1, LockStep, ForcedStep DEF IInv
    <2>6. FailureIsRecent' /\ AcceptedKeyIsRecent' /\ MissingKeyIsRecent'
      BY <1>1, <2>1, <2>2, FailureStep, VerdictStep DEF IInv
    <2> QED BY <2>1, <2>2, <2>3, <2>4, <2>5, <2>6 DEF IInv, Dated
  <1>2. CASE UNCHANGED vars
    BY <1>2 DEF vars, cache, IInv, TypeOK, LockIsFetcher, ForcedIsKnown, FailureIsRecent,
      ClockIsPast, PublishedIsDated, CacheIsDated, CacheIsYoung, KeysAreYoung,
      AcceptedKeyIsRecent, MissingKeyIsRecent
  <1> QED BY <1>1, <1>2

LEMMA Invariant == Spec => []IInv
  BY InvInit, InvStep, PTL DEF Spec

\* However many threads miss however many keys, a generation of the cache sees
\* at most one forced fetch per key id (verify_token).
THEOREM NoStampede == Spec => []OneForcedFetch
  <1>1. IInv => OneForcedFetch
    BY DEF IInv, ForcedIsKnown, OneForcedFetch
  <1> QED BY <1>1, Invariant, PTL

\* A key that a token was accepted on was published at most the cache age before
\* the verification began (_jwks_snapshot, _get_jwks, verify_token).
THEOREM VerdictsAreRecent == Spec => []AcceptedKeyIsRecent
  <1>1. IInv => AcceptedKeyIsRecent
    BY DEF IInv
  <1> QED BY <1>1, Invariant, PTL

\* A key said to be missing was absent at most that long before
\* (_kid_refresh_failures, verify_token).
THEOREM MissesAreRecent == Spec => []MissingKeyIsRecent
  <1>1. IInv => MissingKeyIsRecent
    BY DEF IInv
  <1> QED BY <1>1, Invariant, PTL

\* A failure on record is one of the generation in force
\* (_kid_refresh_failures).
THEOREM FailuresAreRecent == Spec => []FailureIsRecent
  <1>1. IInv => FailureIsRecent
    BY DEF IInv
  <1> QED BY <1>1, Invariant, PTL

\* One thread at a time talks to the provider, and whoever holds _cache_lock is
\* doing so: a thread that waits for the lock waits for one that can go on, never
\* for another that waits (_get_jwks).
OneFetchAtATime ==
  /\ lock # None => \E t \in Threads : lock = t /\ verify[t].pc \in Fetching
  /\ \A t, u \in Threads :
       verify[t].pc \in Fetching /\ verify[u].pc \in Fetching => t = u

THEOREM FetchesExclude == Spec => []OneFetchAtATime
  <1>1. IInv => OneFetchAtATime
    BY DEF IInv, TypeOK, LockIsFetcher, OneFetchAtATime
  <1> QED BY <1>1, Invariant, PTL
=============================================================================
