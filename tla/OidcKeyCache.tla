------------------------------ MODULE OidcKeyCache ------------------------------
(***************************************************************************)
(* The signing keys behind access tokens: the cache of the provider's      *)
(* JWKS that all request threads share (vulnops/auth/oidc.py).             *)
(*                                                                         *)
(* A verification takes a snapshot of the cache, which fetches the keys    *)
(* when they are too old, looks its key up, and when it is not there takes *)
(* the lock a second time for one forced fetch.  The lock is held across   *)
(* the requests to the provider but not between snapshot and refresh:      *)
(* other threads may have refreshed the cache by then.  A generation       *)
(* number, and for each key id the generation of its last forced fetch and *)
(* the failure it ended in, keep the threads from asking again.            *)
(*                                                                         *)
(* A key id stands for the pair of kid and algorithm the code keys its     *)
(* tables by; the signature and the claims are not modelled: a             *)
(* verification that finds its key succeeds.  A request to the provider    *)
(* may take any time, and the keys are as old as its answer.               *)
(***************************************************************************)
EXTENDS Naturals

CONSTANTS
  Threads,       \* request threads
  KeyIds,        \* (kid, algorithm) pairs tokens name
  JwksAge,       \* jwks_cache_age
  DiscoveryAge,  \* discovery_cache_age
  MaxTime,       \* bound on the clock
  MaxCalls,      \* bound on the verifications
  MaxRotations,  \* bound on the changes of the published keys
  None

ASSUME OidcConstants ==
  /\ JwksAge \in Nat /\ DiscoveryAge \in Nat
  /\ MaxTime \in Nat /\ MaxCalls \in Nat /\ MaxRotations \in Nat
  /\ None \notin Nat /\ None \notin KeyIds /\ None \notin Threads

VARIABLES
  now,        \* the clock
  published,  \* what the provider serves, and since when which keys were (not) in it
  jwks,       \* _jwks, _jwks_fetched_at and _jwks_generation
  discovery,  \* _discovery_fetched_at, None before the first discovery
  tried,      \* _kid_refresh_generations
  failure,    \* _kid_refresh_failures, with the time of the failure
  lock,       \* the thread that holds _cache_lock
  verify,     \* per thread, where its verification is and what it holds
  forced,     \* per key id, the forced fetches of this generation
  calls       \* verifications begun so far

cache == <<jwks, discovery, tried, failure, lock, forced>>
vars == <<now, published, cache, verify, calls>>

-----------------------------------------------------------------------------
(* The provider and the clock.                                              *)

\* "with" and "without" are the last times a key id was and was not published.
Publish(K) ==
  [published EXCEPT
     !.keys = K,
     !.changes = @ + 1,
     !.with = [k \in KeyIds |-> IF k \in K \cup published.keys THEN now ELSE @[k]],
     !.without = [k \in KeyIds |-> IF k \notin K \cap published.keys THEN now ELSE @[k]]]

Rotate ==
  /\ published.changes < MaxRotations
  /\ \E K \in SUBSET KeyIds : K # published.keys /\ published' = Publish(K)
  /\ UNCHANGED <<now, cache, verify, calls>>

Tick ==
  /\ now < MaxTime
  /\ now' = now + 1
  /\ published' = [published EXCEPT
       !.with = [k \in KeyIds |-> IF k \in published.keys THEN now + 1 ELSE @[k]],
       !.without = [k \in KeyIds |-> IF k \notin published.keys THEN now + 1 ELSE @[k]]]
  /\ UNCHANGED <<cache, verify, calls>>

-----------------------------------------------------------------------------
(* The verifications.                                                       *)

NoCall == [pc |-> "idle", key |-> None, keys |-> {}, gen |-> 0, began |-> 0,
           force |-> FALSE, verdict |-> "none"]

\* Faulty: keys once fetched are never too old.
FreshForever(fetched, age) == fetched # None

\* _cache_fresh
Fresh(fetched, age) == fetched # None /\ now - fetched < age

Begin(t, k) ==
  /\ verify[t].pc = "idle"
  /\ calls < MaxCalls
  /\ calls' = calls + 1
  /\ verify' = [verify EXCEPT ![t] =
                  [NoCall EXCEPT !.pc = "snapshot", !.key = k, !.began = now]]
  /\ UNCHANGED <<now, published, cache>>

\* The verification of t is over.
Answer(t, verdict) ==
  verify' = [verify EXCEPT ![t] = [NoCall EXCEPT !.key = verify[t].key,
                                     !.began = verify[t].began, !.verdict = verdict]]

\* _get_jwks past its early returns: the lock stays with t until the answers
\* are in, and a discovery document too old is fetched first.
Fetch(t, force) ==
  /\ lock' = t
  /\ verify' = [verify EXCEPT
                  ![t].pc = IF Fresh(discovery, DiscoveryAge) THEN "fetching" ELSE "discovering",
                  ![t].force = force]

\* _jwks_snapshot with keys that are still fresh, and otherwise the beginning
\* of an ordinary fetch.
Snapshot(t) ==
  /\ verify[t].pc = "snapshot"
  /\ lock = None
  /\ IF Fresh(jwks.fetched, JwksAge)
     THEN /\ verify' = [verify EXCEPT ![t].pc = "look", ![t].keys = jwks.keys,
                                      ![t].gen = jwks.gen]
          /\ UNCHANGED lock
     ELSE Fetch(t, FALSE)
  /\ UNCHANGED <<now, published, jwks, discovery, tried, failure, forced, calls>>

Discovered(t) ==
  /\ verify[t].pc = "discovering"
  /\ discovery' = now
  /\ verify' = [verify EXCEPT ![t].pc = "fetching"]
  /\ UNCHANGED <<now, published, jwks, tried, failure, lock, forced, calls>>

\* Faulty: the memo keeps the generation the fetch was asked in.
MemoAsAsked(t) ==
  [k \in KeyIds |-> IF verify[t].force /\ k = verify[t].key THEN jwks.gen ELSE None]

\* The forced fetches on record once t has stored a new generation.
Memo(t) ==
  [k \in KeyIds |-> IF verify[t].force /\ k = verify[t].key THEN jwks.gen + 1 ELSE None]

\* The keys arrive: a new generation, which forgets the attempts of the last
\* one but for the one that has just been made.
Fetched(t) ==
  /\ verify[t].pc = "fetching"
  /\ jwks' = [keys |-> published.keys, fetched |-> now, gen |-> jwks.gen + 1]
  /\ tried' = Memo(t)
  /\ failure' = [k \in KeyIds |-> None]
  /\ forced' = [k \in KeyIds |-> IF verify[t].force /\ k = verify[t].key THEN 1 ELSE 0]
  /\ lock' = None
  /\ verify' = [verify EXCEPT
                  ![t].pc = IF verify[t].force THEN "final" ELSE "look",
                  ![t].keys = published.keys, ![t].gen = jwks.gen + 1]
  /\ UNCHANGED <<now, published, discovery, calls>>

\* Faulty: a failed attempt is not an attempt.
TriedOnFailureForgotten(t) == tried

\* A failed forced fetch counts for the generation it leaves behind.
TriedOnFailure(t) ==
  IF verify[t].force THEN [tried EXCEPT ![verify[t].key] = jwks.gen] ELSE tried

\* Faulty: the failure is booked on the generation of the attempt before.
FailureAsTried(t) == [gen |-> tried[verify[t].key], at |-> now]

\* The failure the next callers are answered with.
Failure(t) == [gen |-> jwks.gen, at |-> now]

\* Faulty: whoever fails keeps the lock.
AfterFailureLocked(t) == t

\* The with statement releases the lock on the way out.
AfterFailure(t) == None

\* The provider does not answer, or not what _get_discovery and _get_jwks want.
FetchFails(t) ==
  /\ verify[t].pc \in {"discovering", "fetching"}
  /\ tried' = TriedOnFailure(t)
  /\ failure' = IF verify[t].force
                THEN [failure EXCEPT ![verify[t].key] = Failure(t)]
                ELSE failure
  /\ lock' = AfterFailure(t)
  /\ Answer(t, "unavailable")
  /\ UNCHANGED <<now, published, jwks, discovery, forced, calls>>

\* _key_for_token on the snapshot.
Look(t) ==
  /\ verify[t].pc = "look"
  /\ IF verify[t].key \in verify[t].keys
     THEN Answer(t, "accepted")
     ELSE verify' = [verify EXCEPT ![t].pc = "refresh"]
  /\ UNCHANGED <<now, published, cache, calls>>

\* Some thread has asked for k in this generation already: its failure counts
\* for all, and so do the keys it found, if any.
AlreadyTried(t) ==
  LET k == verify[t].key IN
  /\ tried[k] = jwks.gen
  /\ IF failure[k] # None
     THEN Answer(t, "unavailable")
     ELSE verify' = [verify EXCEPT ![t].pc = "final",
                       ![t].keys = IF jwks.keys # {} THEN jwks.keys ELSE @]
  /\ UNCHANGED <<jwks, discovery, tried, failure, lock, forced>>

\* The cache has moved on since the snapshot of t.
Overtaken(t) == jwks.gen # verify[t].gen

\* What other threads fetched in the meantime serves t as well.
ReuseRefresh(t) ==
  LET k == verify[t].key IN
  /\ tried[k] # jwks.gen
  /\ Overtaken(t)
  /\ verify' = [verify EXCEPT ![t].pc = "final", ![t].keys = jwks.keys]
  /\ tried' = [tried EXCEPT ![k] = jwks.gen]
  /\ failure' = [failure EXCEPT ![k] = None]
  /\ UNCHANGED <<jwks, discovery, lock, forced>>

ForceRefresh(t) ==
  LET k == verify[t].key IN
  /\ tried[k] # jwks.gen
  /\ ~Overtaken(t)
  /\ Fetch(t, TRUE)
  /\ forced' = [forced EXCEPT ![k] = @ + 1]
  /\ UNCHANGED <<jwks, discovery, tried, failure>>

\* The second taking of the lock.
Refresh(t) ==
  /\ verify[t].pc = "refresh"
  /\ lock = None
  /\ AlreadyTried(t) \/ ReuseRefresh(t) \/ ForceRefresh(t)
  /\ UNCHANGED <<now, published, calls>>

Conclude(t) ==
  /\ verify[t].pc = "final"
  /\ Answer(t, IF verify[t].key \in verify[t].keys THEN "accepted" ELSE "key_not_found")
  /\ UNCHANGED <<now, published, cache, calls>>

-----------------------------------------------------------------------------
Init ==
  /\ now = 0
  /\ published \in
       {[keys |-> K, changes |-> 0, with |-> [k \in KeyIds |-> 0],
         without |-> [k \in KeyIds |-> 0]] : K \in SUBSET KeyIds}
  /\ jwks = [keys |-> {}, fetched |-> None, gen |-> 0]
  /\ discovery = None
  /\ tried = [k \in KeyIds |-> None]
  /\ failure = [k \in KeyIds |-> None]
  /\ lock = None
  /\ verify = [t \in Threads |-> NoCall]
  /\ forced = [k \in KeyIds |-> 0]
  /\ calls = 0

Proceed(t) ==
  Snapshot(t) \/ Discovered(t) \/ Fetched(t) \/ FetchFails(t) \/ Look(t) \/ Refresh(t)
  \/ Conclude(t)

Next ==
  \/ Rotate \/ Tick
  \/ \E t \in Threads : Proceed(t) \/ \E k \in KeyIds : Begin(t, k)

Spec == Init /\ [][Next]_vars

\* Requests to the provider time out, and a thread that waits for the lock gets
\* it once it stays free.
FairSpec == Spec /\ \A t \in Threads : WF_vars(Proceed(t))

-----------------------------------------------------------------------------
(* Properties.                                                              *)

Verdicts == {"none", "accepted", "key_not_found", "unavailable"}
Waiting == {"snapshot", "look", "refresh", "final"}
Fetching == {"discovering", "fetching"}

Call == [pc : {"idle"} \cup Waiting \cup Fetching, key : KeyIds \cup {None},
         keys : SUBSET KeyIds, gen : Nat, began : Nat, force : BOOLEAN, verdict : Verdicts]

\* Every variable keeps its shape; a verification under way or concluded has a
\* key id.
TypeOK ==
  /\ now \in Nat /\ calls \in Nat
  /\ published \in [keys : SUBSET KeyIds, changes : Nat, with : [KeyIds -> Nat],
                    without : [KeyIds -> Nat]]
  /\ jwks \in [keys : SUBSET KeyIds, fetched : Nat \cup {None}, gen : Nat]
  /\ discovery \in Nat \cup {None}
  /\ tried \in [KeyIds -> Nat \cup {None}]
  /\ failure \in [KeyIds -> [gen : Nat, at : Nat] \cup {None}]
  /\ lock \in Threads \cup {None}
  /\ verify \in [Threads -> Call]
  /\ \A t \in Threads :
       verify[t].pc # "idle" \/ verify[t].verdict # "none" => verify[t].key \in KeyIds
  /\ forced \in [KeyIds -> Nat]

\* However many threads miss a key at once, one of them asks the provider: in
\* the life of a generation, the fetch that made it included, there is at most
\* one forced fetch per key id, be it a success or a failure (verify_token,
\* "concurrent/repeated callers do not stampede the provider").
OneForcedFetch == \A k \in KeyIds : forced[k] <= 1

\* A token is accepted on a key the provider published no longer than the cache
\* age before the verification began: neither snapshot nor memo makes a
\* withdrawn key last longer (_jwks_snapshot, _get_jwks).
AcceptedKeyIsRecent ==
  \A t \in Threads :
    verify[t].verdict = "accepted" =>
      published.with[verify[t].key] + JwksAge >= verify[t].began

\* A key is said to be missing only if the provider did not publish it at some
\* time no longer than the cache age before the verification began, although
\* threads conclude it from each other's fetches (verify_token).
MissingKeyIsRecent ==
  \A t \in Threads :
    verify[t].verdict = "key_not_found" =>
      published.without[verify[t].key] + JwksAge >= verify[t].began

\* A failure on record is one of the generation in force, so it is not older
\* than the keys that callers still take for fresh: an outage that is over does
\* not outlive the cache age (_kid_refresh_failures).
FailureIsRecent ==
  \A k \in KeyIds :
    failure[k] # None =>
      /\ failure[k].gen = jwks.gen
      /\ tried[k] = jwks.gen
      /\ jwks.fetched # None /\ failure[k].at >= jwks.fetched

\* Every verification comes to a verdict: no thread keeps the lock, and none
\* waits for another that waits for it (_cache_lock).
Answered == \A t \in Threads : verify[t].pc # "idle" ~> verify[t].pc = "idle"
=============================================================================
