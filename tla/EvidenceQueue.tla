----------------------------- MODULE EvidenceQueue -----------------------------
(***************************************************************************)
(* What the outbox promises to whoever writes into it: an event stays      *)
(* pending until what it reports has been applied and it is delivered, or  *)
(* until its processing has failed MaxAttempts times and it is dead.       *)
(* Every event gets to one of them, and delivery is final.  Death is, too, *)
(* but for the Late workers that may hold an event another one has done    *)
(* with: what they do with it still counts.                                *)
(***************************************************************************)
EXTENDS Naturals

CONSTANTS
  Events,       \* outbox rows
  MaxAttempts,  \* failures after which an event is dead
  Late          \* workers that may hold an event besides the one at work on it

VARIABLES
  status,    \* absent, pending, delivered or dead
  failures,  \* failed attempts of each event
  applied    \* the events all of whose findings are recorded

qvars == <<status, failures, applied>>

QueueInit ==
  /\ status = [e \in Events |-> "absent"]
  /\ failures = [e \in Events |-> 0]
  /\ applied = {}

\* A new event; one that reports nothing needs no applying.
Insert(e) ==
  /\ status[e] = "absent"
  /\ status' = [status EXCEPT ![e] = "pending"]
  /\ applied' \in {applied, applied \cup {e}}
  /\ UNCHANGED failures

\* A worker is at work on e, or still is.
Open(e) == status[e] = "pending" \/ (Late > 0 /\ status[e] \in {"dead", "delivered"})

Apply(e) ==
  /\ Open(e)
  /\ e \notin applied
  /\ applied' = applied \cup {e}
  /\ UNCHANGED <<status, failures>>

Deliver(e) ==
  /\ Open(e)
  /\ e \in applied
  /\ status' = [status EXCEPT ![e] = "delivered"]
  /\ UNCHANGED <<failures, applied>>

\* Failing does not undo what has been applied, or delivered.
FailAttempt(e) ==
  /\ Open(e)
  /\ failures[e] < MaxAttempts + Late
  /\ failures' = [failures EXCEPT ![e] = @ + 1]
  /\ status' = IF status[e] = "pending" /\ failures[e] + 1 >= MaxAttempts
               THEN [status EXCEPT ![e] = "dead"] ELSE status
  /\ UNCHANGED applied

Process(e) == Apply(e) \/ Deliver(e) \/ FailAttempt(e)

QueueNext == \E e \in Events : Insert(e) \/ Process(e)

QueueSpec ==
  /\ QueueInit /\ [][QueueNext]_qvars
  /\ \A e \in Events : WF_qvars(status[e] = "pending" /\ Process(e))
=============================================================================
