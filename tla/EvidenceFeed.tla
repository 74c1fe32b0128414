------------------------------ MODULE EvidenceFeed ------------------------------
(***************************************************************************)
(* What the pollers, the job queue and the ingestion workers promise       *)
(* between them: every observation published is recorded as evidence, once,*)
(* and nothing is recorded that was not published.                         *)
(***************************************************************************)
EXTENDS Naturals

CONSTANT Jobs  \* observations

VARIABLES
  published,  \* the observations handed over
  recorded    \* how many times each has been recorded

fvars == <<published, recorded>>

FeedInit == published = {} /\ recorded = [j \in Jobs |-> 0]

\* A batch of observations, some of which may have been published before.
Publish(batch) ==
  /\ published' = published \cup batch
  /\ UNCHANGED recorded

Record(j) ==
  /\ j \in published
  /\ recorded[j] = 0
  /\ recorded' = [recorded EXCEPT ![j] = 1]
  /\ UNCHANGED published

FeedNext == (\E batch \in SUBSET Jobs : Publish(batch)) \/ (\E j \in Jobs : Record(j))

FeedSpec ==
  /\ FeedInit /\ [][FeedNext]_fvars
  /\ \A j \in Jobs : WF_fvars(Record(j))
=============================================================================
