------------------------- MODULE ExposureGradingProofs -------------------------
(***************************************************************************)
(* What the handlers conclude, for every set of versions, advisories and   *)
(* observations and for every input of the policy.                         *)
(*                                                                         *)
(* The policy is monotone: every term of the score is, and the rules above *)
(* it only raise what the score says for stronger inputs.  The verdicts    *)
(* are true where the two bounds a range is folded into say what the range *)
(* says; that takes ranges of one interval and versions whose order the    *)
(* comparison gets right, which is stated as Plain.  What a class rests on *)
(* holds whatever the ranges say; what an event does to the exposures of   *)
(* another package, and what a second name hides, ends with the sharing.   *)
(***************************************************************************)
EXTENDS ExposureGrading, TLAPS

-----------------------------------------------------------------------------
(* The policy.                                                              *)

PolicyInput ==
  [kev : BOOLEAN, epss : 0 .. 100, percentile : 0 .. 100, cvss : 0 .. 100,
   criticality : {"critical", "high", "medium", "low", "unknown"},
   exposure : {"external", "internal", "unknown"}, confidence : 0 .. 100, class : Classes]

Scale == 0 .. 10000

\* The input j is as bad as i, or worse, in every respect.
AsBad(i, j) ==
  /\ i.kev => j.kev
  /\ i.epss <= j.epss /\ i.percentile <= j.percentile /\ i.cvss <= j.cvss
  /\ Criticality(i.criticality) <= Criticality(j.criticality)
  /\ Exposed(i.exposure) <= Exposed(j.exposure)
  /\ i.confidence <= j.confidence
  /\ Strength(i.class) <= Strength(j.class)
  /\ "not_affected" \notin {i.class, j.class}

LEMMA WeightsAreNumbers ==
  ASSUME NEW i \in PolicyInput
  PROVE  /\ Criticality(i.criticality) \in Int /\ Exposed(i.exposure) \in Int
         /\ Criticality(i.criticality) >= 2000 <=> i.criticality = "critical"
         /\ Exposed(i.exposure) >= 1000 <=> i.exposure = "external"
  <1>1. /\ i.criticality \in {"critical", "high", "medium", "low", "unknown"}
        /\ i.exposure \in {"external", "internal", "unknown"}
    BY DEF PolicyInput
  <1> QED BY <1>1 DEF Criticality, Exposed

LEMMA ScoreIsMonotone ==
  ASSUME NEW i \in PolicyInput, NEW j \in PolicyInput, AsBad(i, j)
  PROVE  /\ Clamped(i) \in Scale /\ Clamped(j) \in Scale
         /\ Clamped(i) <= Clamped(j)
  <1>1. /\ i.cvss \in Int /\ i.epss \in Int /\ i.percentile \in Int /\ i.confidence \in Int
        /\ j.cvss \in Int /\ j.epss \in Int /\ j.percentile \in Int /\ j.confidence \in Int
    BY DEF PolicyInput
  <1>2. /\ Criticality(i.criticality) \in Int /\ Exposed(i.exposure) \in Int
        /\ Criticality(j.criticality) \in Int /\ Exposed(j.exposure) \in Int
    BY WeightsAreNumbers
  <1>3. Total(i) \in Int /\ Total(j) \in Int /\ Total(i) <= Total(j)
    BY <1>1, <1>2 DEF Total, AsBad
  <1>4. PICK m \in Int, n \in Int : m = Total(i) /\ n = Total(j)
    BY <1>3
  <1>5. m <= n
    BY <1>3, <1>4
  <1>6. /\ Clamped(i) = IF m < 0 THEN 0 ELSE IF m > 10000 THEN 10000 ELSE m
        /\ Clamped(j) = IF n < 0 THEN 0 ELSE IF n > 10000 THEN 10000 ELSE n
    BY <1>4 DEF Clamped
  <1>7. Clamped(i) \in Scale
    BY <1>6 DEF Scale
  <1>8. Clamped(j) \in Scale
    BY <1>6 DEF Scale
  <1>9. Clamped(i) <= Clamped(j)
    BY <1>5, <1>6
  <1> QED BY <1>7, <1>8, <1>9

LEMMA EscalationIsMonotone ==
  ASSUME NEW i \in PolicyInput, NEW j \in PolicyInput, AsBad(i, j), Escalated(i)
  PROVE  Escalated(j)
  <1>1. /\ i.class \in Classes /\ j.class \in Classes
        /\ i.epss \in Int /\ j.epss \in Int /\ i.confidence \in Int /\ j.confidence \in Int
    BY DEF PolicyInput
  <1>2. i.class = "confirmed" => j.class = "confirmed"
    BY <1>1 DEF AsBad, Strength, Classes
  <1>3. i.class \in CaseClasses => j.class \in CaseClasses
    BY <1>1 DEF AsBad, Strength, Classes, CaseClasses
  <1>4. /\ i.criticality = "critical" => j.criticality = "critical"
        /\ i.exposure = "external" => j.exposure = "external"
    <2>1. /\ Criticality(i.criticality) \in Int /\ Criticality(j.criticality) \in Int
          /\ Exposed(i.exposure) \in Int /\ Exposed(j.exposure) \in Int
      BY WeightsAreNumbers
    <2>2. /\ Criticality(i.criticality) <= Criticality(j.criticality)
          /\ Exposed(i.exposure) <= Exposed(j.exposure)
      BY DEF AsBad
    <2> QED BY <2>1, <2>2, WeightsAreNumbers
  <1>5. i.kev => j.kev
    BY DEF AsBad
  <1>6. i.epss <= j.epss /\ i.confidence <= j.confidence
    BY DEF AsBad
  <1> QED BY <1>1, <1>2, <1>3, <1>4, <1>5, <1>6 DEF Escalated

LEMMA BandIsMonotone ==
  ASSUME NEW s \in Scale, NEW t \in Scale, s <= t
  PROVE  /\ Band(s) \in 0 .. 4 /\ Band(t) <= Band(s)
         /\ CandidateBand(s) \in 2 .. 4 /\ CandidateBand(t) <= CandidateBand(s)
         /\ Band(s) <= CandidateBand(s)
         /\ Band(s) \in {0, 1} => Band(s) + 1 <= CandidateBand(s)
  BY DEF Band, CandidateBand, Scale

\* Priorities stay within P0 to P4, and an input that is as bad or worse in
\* every respect never gets a lower one, whatever the rules, bands, caps and
\* adjustments do to each other (risk/policy.py:50).
THEOREM PolicyIsMonotone ==
  ASSUME NEW i \in PolicyInput, NEW j \in PolicyInput, AsBad(i, j)
  PROVE  /\ Priority(i) \in 0 .. 4 /\ Priority(j) \in 0 .. 4
         /\ Priority(j) <= Priority(i)
  <1> DEFINE s == Clamped(i)
             t == Clamped(j)
  <1>1. s \in Scale /\ t \in Scale /\ s <= t
    BY ScoreIsMonotone
  <1>2. Escalated(i) => Escalated(j)
    BY EscalationIsMonotone
  <1>3. j.class = "candidate" => i.class = "candidate"
    <2>1. i.class \in Classes /\ j.class \in Classes
      BY DEF PolicyInput
    <2> QED BY <2>1 DEF AsBad, Strength, Classes
  <1>4. j.confidence < 50 => i.confidence < 50
    <2>1. i.confidence \in Int /\ j.confidence \in Int
      BY DEF PolicyInput
    <2> QED BY <2>1 DEF AsBad
  <1> HIDE DEF s, t
  <1>5. /\ Band(s) \in 0 .. 4 /\ Band(t) \in 0 .. 4 /\ Band(t) <= Band(s)
        /\ CandidateBand(s) \in 2 .. 4 /\ CandidateBand(t) \in 2 .. 4
        /\ CandidateBand(t) <= CandidateBand(s)
        /\ Band(t) <= CandidateBand(t)
        /\ Band(t) \in {0, 1} => Band(t) + 1 <= CandidateBand(t)
    <2>1. Band(s) \in 0 .. 4 /\ Band(t) <= Band(s)
          /\ CandidateBand(s) \in 2 .. 4 /\ CandidateBand(t) <= CandidateBand(s)
      BY <1>1, BandIsMonotone
    <2>2. t <= t
      BY <1>1 DEF Scale
    <2>3. /\ Band(t) \in 0 .. 4 /\ CandidateBand(t) \in 2 .. 4
          /\ Band(t) <= CandidateBand(t)
          /\ Band(t) \in {0, 1} => Band(t) + 1 <= CandidateBand(t)
      BY <1>1, <2>2, BandIsMonotone
    <2> QED BY <2>1, <2>3
  <1>6. /\ Priority(i) = IF Escalated(i) THEN 0
                         ELSE IF i.class = "candidate" THEN CandidateBand(s)
                         ELSE IF i.confidence < 50 /\ Band(s) \in {0, 1} THEN Band(s) + 1
                         ELSE Band(s)
        /\ Priority(j) = IF Escalated(j) THEN 0
                         ELSE IF j.class = "candidate" THEN CandidateBand(t)
                         ELSE IF j.confidence < 50 /\ Band(t) \in {0, 1} THEN Band(t) + 1
                         ELSE Band(t)
    BY DEF Priority, s, t
  <1> QED BY <1>2, <1>3, <1>4, <1>5, <1>6

-----------------------------------------------------------------------------
(* Types and priorities of exposures.                                       *)

Verdict == [class : Classes, confidence : 0 .. 100]

LEMMA VerdictType ==
  /\ \A class \in Classes, confidence \in 0 .. 100 : Is(class, confidence) \in Verdict
  /\ \A c, advisory : ByRange(c, advisory) \in Verdict
  /\ \A c, advisory, verified, statement : Evaluate(c, advisory, verified, statement) \in Verdict
  /\ \A o, verdict : verdict \in Verdict => Unbound(o, verdict) \in Verdict
  <1>1. \A class \in Classes, confidence \in 0 .. 100 : Is(class, confidence) \in Verdict
    BY DEF Is, Verdict
  <1>2. /\ Is("confirmed", 99) \in Verdict /\ Is("confirmed", 98) \in Verdict
        /\ Is("not_affected", 95) \in Verdict /\ Is("deterministic", 93) \in Verdict
        /\ Is("not_affected", 85) \in Verdict /\ Is("candidate", 40) \in Verdict
        /\ Is("candidate", 30) \in Verdict
    BY <1>1 DEF Classes
  <1>3. \A c, advisory : ByRange(c, advisory) \in Verdict
    BY <1>2 DEF ByRange
  <1>4. \A c, advisory, verified, statement : Evaluate(c, advisory, verified, statement) \in Verdict
    BY <1>2, <1>3 DEF Evaluate
  <1>5. \A o, verdict : verdict \in Verdict => Unbound(o, verdict) \in Verdict
    BY <1>2 DEF Unbound
  <1> QED BY <1>1, <1>3, <1>4, <1>5

LEMMA InputType ==
  ASSUME NEW verdict \in Verdict, NEW listed \in BOOLEAN, NEW score \in Score
  PROVE  /\ Input(verdict, listed, score) \in PolicyInput
         /\ Input(verdict, listed, score).class = verdict.class
         /\ AsBad(Input(verdict, listed, score), Input(verdict, listed, score))
              \/ verdict.class = "not_affected"
  <1> DEFINE i == Input(verdict, listed, score)
  <1>1. i \in PolicyInput /\ i.class = verdict.class
    BY DEF Input, PolicyInput, Verdict, Score
  <1> HIDE DEF i
  <1>2. /\ i.epss \in Int /\ i.percentile \in Int /\ i.cvss \in Int /\ i.confidence \in Int
        /\ i.class \in Classes
    BY <1>1 DEF PolicyInput
  <1>3. Criticality(i.criticality) \in Int /\ Exposed(i.exposure) \in Int
    BY <1>1, WeightsAreNumbers
  <1>4. Strength(i.class) \in Int
    BY DEF Strength
  <1>5. i.class # "not_affected" => AsBad(i, i)
    BY <1>2, <1>3, <1>4 DEF AsBad
  <1> QED BY <1>1, <1>5 DEF i

\* Of any verdict: not affected ones are scored like the others.
LEMMA PriorityType ==
  ASSUME NEW i \in PolicyInput
  PROVE  Priority(i) \in 0 .. 4
  <1>1. Total(i) \in Int
    <2>1. i.cvss \in Int /\ i.epss \in Int /\ i.percentile \in Int /\ i.confidence \in Int
      BY DEF PolicyInput
    <2> QED BY <2>1, WeightsAreNumbers DEF Total
  <1>2. PICK n \in Int : n = Total(i)
    BY <1>1
  <1>3. Clamped(i) = IF n < 0 THEN 0 ELSE IF n > 10000 THEN 10000 ELSE n
    BY <1>2 DEF Clamped
  <1>4. Clamped(i) \in Scale
    BY <1>3 DEF Scale
  <1>5. PICK s \in Scale : s = Clamped(i)
    BY <1>4
  <1>6. s <= s
    BY <1>5 DEF Scale
  <1>7. Band(s) \in 0 .. 4 /\ CandidateBand(s) \in 2 .. 4
    BY <1>5, <1>6, BandIsMonotone
  <1>8. Priority(i) = IF Escalated(i) THEN 0
                      ELSE IF i.class = "candidate" THEN CandidateBand(s)
                      ELSE IF i.confidence < 50 /\ Band(s) \in {0, 1} THEN Band(s) + 1
                      ELSE Band(s)
    BY <1>5 DEF Priority
  <1> QED BY <1>7, <1>8

LEMMA PriorityForType ==
  ASSUME NEW verdict \in Verdict, NEW listed \in BOOLEAN, NEW score \in Score
  PROVE  PriorityFor(verdict, listed, score) \in 0 .. 4
  <1>1. Priority(Input(verdict, listed, score)) \in 0 .. 4
    BY InputType, PriorityType
  <1> QED BY <1>1 DEF PriorityFor

LEMMA GradedType ==
  ASSUME TypeOK, NEW o \in Observations, NEW id \in Ids, NEW verdict \in Verdict, NEW down
  PROVE  LET e == Graded(id, o, verdict, down)
         IN  /\ e \in Exposure
             /\ e.class = verdict.class /\ e.confidence = verdict.confidence
             /\ e.priority = PriorityFor(verdict, e.seen.listed, e.seen.score)
             /\ e.seen.verified = o.verified
             /\ e.seen.statement = StatementOn(id, o, down)
             /\ e.seen.affected = IsAffected(o.component, id, published)
             /\ e.seen.component = o.component
             /\ e.seen.listed <=> id \in kev
             /\ e.seen.exploited <=> \E r \in published : id \in Names(r) /\ Names(r) \cap kev # {}
  <1> DEFINE listed == id \in kev
             affected == IsAffected(o.component, id, published)
             exploited == \E r \in published : id \in Names(r) /\ Names(r) \cap kev # {}
             statement == StatementOn(id, o, down)
             score == ScoreOf(id, down)
             priority == PriorityFor(verdict, listed, score)
  <1>1. listed \in BOOLEAN /\ affected \in BOOLEAN /\ exploited \in BOOLEAN
    BY DEF IsAffected
  <1>2. score \in Score
    BY GradingConstants DEF TypeOK, ScoreOf, Score
  <1>3. statement \in Statements \cup {None}
    BY DEF TypeOK, StatementOn
  <1>4. priority \in 0 .. 4
    BY <1>1, <1>2, PriorityForType
  <1>5. o.component \in Component /\ o.verified \in BOOLEAN
    BY GradingConstants DEF Observation
  <1>6. Graded(id, o, verdict, down) =
          [class |-> verdict.class, confidence |-> verdict.confidence, priority |-> priority,
           seen |-> [component |-> o.component, verified |-> o.verified,
                     statement |-> statement, listed |-> listed, score |-> score,
                     affected |-> affected, exploited |-> exploited]]
    BY DEF Graded
  <1> HIDE DEF listed, affected, exploited, statement, score
  <1>7. priority = PriorityFor(verdict, listed, score)
    OBVIOUS
  <1> HIDE DEF priority
  <1>8. [component |-> o.component, verified |-> o.verified, statement |-> statement,
         listed |-> listed, score |-> score, affected |-> affected, exploited |-> exploited]
          \in Seen
    BY <1>1, <1>2, <1>3, <1>5 DEF Seen
  <1>9. Graded(id, o, verdict, down) \in Exposure
    BY <1>4, <1>6, <1>8 DEF Exposure, Verdict
  <1>10. /\ Graded(id, o, verdict, down).seen.component = o.component
         /\ Graded(id, o, verdict, down).seen.listed = listed
         /\ Graded(id, o, verdict, down).seen.exploited = exploited
    BY <1>6
  <1>11. /\ Graded(id, o, verdict, down).class = verdict.class
         /\ Graded(id, o, verdict, down).confidence = verdict.confidence
         /\ Graded(id, o, verdict, down).priority =
              PriorityFor(verdict, Graded(id, o, verdict, down).seen.listed,
                          Graded(id, o, verdict, down).seen.score)
         /\ Graded(id, o, verdict, down).seen.verified = o.verified
         /\ Graded(id, o, verdict, down).seen.statement = statement
         /\ Graded(id, o, verdict, down).seen.affected = affected
    BY <1>6, <1>7
  <1> QED BY <1>9, <1>10, <1>11 DEF affected, statement, listed, exploited

-----------------------------------------------------------------------------
(* What a handler may write.                                                *)

\* What the handlers conclude of a vulnerability from one answer of OSV.
FromSbom(o, id, verdict, down) ==
  \E r \in published :
    /\ r.id = id
    /\ verdict = Evaluate(o.component, Advisory(r), FALSE, StatementOn(id, o, down))
FromScan(o, id, verdict, down) ==
  \E advisory : verdict = Evaluate(o.component, advisory, o.verified, StatementOn(id, o, down))
FromAgent(o, id, verdict, down) ==
  \/ verdict = Unbound(o, Evaluate(o.component, {}, FALSE, StatementOn(id, o, down)))
  \/ \E r \in published :
       /\ id \in Names(r)
       /\ verdict = Evaluate(o.component, Advisory(r), FALSE, StatementOn(id, o, down))

Concluded(o, id, verdict, down) ==
  \/ o.by = "sbom" /\ FromSbom(o, id, verdict, down)
  \/ o.by = "defectdojo" /\ FromScan(o, id, verdict, down)
  \/ o.by = "wazuh" /\ FromAgent(o, id, verdict, down)

\* The exposures an observation is about: of its context, and of the
\* vulnerability it names where it names one.
Reports(o, k) == k[1] = o.context /\ (o.by # "sbom" => k[2] = o.cve)

Writes(o, k) ==
  \/ exposures'[k] = exposures[k]
  \/ Reports(o, k) /\ \E verdict \in Verdict : \E down :
       Concluded(o, k[2], verdict, down) /\ exposures'[k] = Graded(k[2], o, verdict, down)

LEMMA AnswersPublished ==
  ASSUME NEW c, NEW answer \in Answers(c), NEW r \in answer
  PROVE  r \in published
  BY DEF Answers, OfPackage

LEMMA ObservedWrites ==
  ASSUME TypeOK, NEW o \in Observations, o.by # "sbom",
         NEW verdict \in Verdict, NEW down,
         Concluded(o, o.cve, verdict, down), Observed(o, verdict, down)
  PROVE  /\ \A k \in Keys : Writes(o, k)
         /\ exposures' = [k \in Keys |-> exposures'[k]]
  <1>1. exposures \in [Keys -> Exposure \cup {None}]
    BY DEF TypeOK
  <1>2. exposures' = [exposures EXCEPT ![<<o.context, o.cve>>] = Graded(o.cve, o, verdict, down)]
    BY DEF Observed
  <1>3. <<o.context, o.cve>>[2] = o.cve
    OBVIOUS
  <1>4. ASSUME NEW k \in Keys
        PROVE  Writes(o, k)
    <2>1. CASE k = <<o.context, o.cve>>
      <3>1. exposures'[k] = Graded(o.cve, o, verdict, down)
        BY <1>1, <1>2, <2>1
      <3>2. k[1] = o.context /\ k[2] = o.cve
        BY <1>3, <2>1
      <3> QED BY <3>1, <3>2 DEF Writes, Reports
    <2>2. CASE k # <<o.context, o.cve>>
      BY <1>1, <1>2, <2>2 DEF Writes
    <2> QED BY <2>1, <2>2
  <1>5. exposures' = [k \in Keys |-> exposures'[k]]
    BY <1>1, <1>2
  <1> QED BY <1>4, <1>5

LEMMA SbomWrites ==
  ASSUME TypeOK, NEW o \in Observations, HandleSbom(o)
  PROVE  /\ \A k \in Keys : Writes(o, k)
         /\ exposures' = [k \in Keys |-> exposures'[k]]
         /\ UNCHANGED <<world, changes>>
  <1>1. o.by = "sbom" /\ UNCHANGED <<world, changes>>
    BY DEF HandleSbom
  <1>2. PICK answer \in Answers(o.component) :
        \E down \in SUBSET LookUps({r.id : r \in answer}) :
          exposures' = [k \in Keys |->
            IF k[1] = o.context /\ \E r \in answer : r.id = k[2]
            THEN Graded(k[2], o,
                   Evaluate(o.component, Advisory(CHOOSE r \in answer : r.id = k[2]), FALSE,
                            StatementOn((CHOOSE r \in answer : r.id = k[2]).id, o, down)), down)
            ELSE exposures[k]]
    BY DEF HandleSbom
  <1>3. PICK down :
          exposures' = [k \in Keys |->
            IF k[1] = o.context /\ \E r \in answer : r.id = k[2]
            THEN Graded(k[2], o,
                   Evaluate(o.component, Advisory(CHOOSE r \in answer : r.id = k[2]), FALSE,
                            StatementOn((CHOOSE r \in answer : r.id = k[2]).id, o, down)), down)
            ELSE exposures[k]]
    BY <1>2
  <1>4. ASSUME NEW k \in Keys
        PROVE  Writes(o, k)
    <2>1. CASE k[1] = o.context /\ \E r \in answer : r.id = k[2]
      <3> DEFINE q == CHOOSE r \in answer : r.id = k[2]
                 verdict == Evaluate(o.component, Advisory(q), FALSE, StatementOn(q.id, o, down))
      <3>1. q \in answer /\ q.id = k[2]
        BY <2>1
      <3>2. exposures'[k] = Graded(k[2], o, verdict, down)
        BY <1>3, <2>1
      <3> HIDE DEF q
      <3>3. q \in published
        BY <3>1, AnswersPublished
      <3>4. verdict \in Verdict
        BY VerdictType
      <3>5. Concluded(o, k[2], verdict, down)
        BY <1>1, <3>1, <3>3 DEF Concluded, FromSbom
      <3>6. Reports(o, k)
        BY <1>1, <2>1 DEF Reports
      <3> QED BY <3>2, <3>4, <3>5, <3>6 DEF Writes
    <2>2. CASE ~(k[1] = o.context /\ \E r \in answer : r.id = k[2])
      <3>1. exposures'[k] = exposures[k]
        BY <1>3, <2>2
      <3> QED BY <3>1 DEF Writes
    <2> QED BY <2>1, <2>2
  <1>5. exposures' = [k \in Keys |-> exposures'[k]]
    BY <1>3
  <1> QED BY <1>1, <1>4, <1>5

LEMMA ScanWrites ==
  ASSUME TypeOK, NEW o \in Observations, HandleDefectDojo(o)
  PROVE  /\ \A k \in Keys : Writes(o, k)
         /\ exposures' = [k \in Keys |-> exposures'[k]]
         /\ UNCHANGED <<world, changes>>
  <1>1. o.by = "defectdojo" /\ UNCHANGED <<world, changes>>
    BY DEF HandleDefectDojo
  <1>2. PICK advisory, down :
          Observed(o, Evaluate(o.component, advisory, o.verified, StatementOn(o.cve, o, down)), down)
    BY DEF HandleDefectDojo
  <1> DEFINE verdict == Evaluate(o.component, advisory, o.verified, StatementOn(o.cve, o, down))
  <1>3. verdict \in Verdict
    BY VerdictType
  <1>4. Concluded(o, o.cve, verdict, down)
    BY <1>1 DEF Concluded, FromScan
  <1>5. Observed(o, verdict, down)
    BY <1>2
  <1> HIDE DEF verdict
  <1> QED BY <1>1, <1>3, <1>4, <1>5, ObservedWrites

LEMMA AgentWrites ==
  ASSUME TypeOK, NEW o \in Observations, HandleWazuh(o)
  PROVE  /\ \A k \in Keys : Writes(o, k)
         /\ exposures' = [k \in Keys |-> exposures'[k]]
         /\ UNCHANGED <<world, changes>>
  <1>1. o.by = "wazuh" /\ UNCHANGED <<world, changes>>
    BY DEF HandleWazuh
  <1>2. PICK answer \in Answers(o.component), down \in SUBSET LookUps({o.cve}) :
          \/ Observed(o, Unbound(o, Evaluate(o.component, {}, FALSE, StatementOn(o.cve, o, down))), down)
          \/ \E r \in Binding(o, answer) :
               Observed(o, Evaluate(o.component, Advisory(r), FALSE, StatementOn(o.cve, o, down)), down)
    BY DEF HandleWazuh
  <1>3. CASE Observed(o, Unbound(o, Evaluate(o.component, {}, FALSE, StatementOn(o.cve, o, down))), down)
    <2> DEFINE verdict == Unbound(o, Evaluate(o.component, {}, FALSE, StatementOn(o.cve, o, down)))
    <2>1. verdict \in Verdict
      BY VerdictType
    <2>2. Concluded(o, o.cve, verdict, down)
      BY <1>1 DEF Concluded, FromAgent
    <2>3. Observed(o, verdict, down)
      BY <1>3
    <2> HIDE DEF verdict
    <2> QED BY <1>1, <2>1, <2>2, <2>3, ObservedWrites
  <1>4. ASSUME NEW r \in Binding(o, answer),
               Observed(o, Evaluate(o.component, Advisory(r), FALSE, StatementOn(o.cve, o, down)), down)
        PROVE  /\ \A k \in Keys : Writes(o, k)
               /\ exposures' = [k \in Keys |-> exposures'[k]]
    <2> DEFINE verdict == Evaluate(o.component, Advisory(r), FALSE, StatementOn(o.cve, o, down))
    <2>1. verdict \in Verdict
      BY VerdictType
    <2>2. r \in published /\ o.cve \in Names(r)
      BY AnswersPublished DEF Binding
    <2>3. Concluded(o, o.cve, verdict, down)
      BY <1>1, <2>2 DEF Concluded, FromAgent
    <2>4. Observed(o, verdict, down)
      BY <1>4
    <2> HIDE DEF verdict
    <2> QED BY <1>1, <2>1, <2>3, <2>4, ObservedWrites
  <1> QED BY <1>1, <1>2, <1>3, <1>4

\* A step is that of a handler, which leaves the world alone, or one of the world.
Handled ==
  /\ UNCHANGED <<world, changes>>
  /\ exposures' = [k \in Keys |-> exposures'[k]]
  /\ \E o \in Observations : \A k \in Keys : Writes(o, k)

LEMMA StepIsHandledOrWorld ==
  ASSUME TypeOK, [Next]_vars
  PROVE  \/ Handled
         \/ /\ UNCHANGED exposures
            /\ \/ \E r \in Records : Publish(r) \/ Withdraw(r)
               \/ \E id \in Ids, statement \in Statements \cup {None} : Assert(id, statement)
               \/ \E id \in Ids : Catalogue(id)
               \/ \E id \in Ids, score \in Scores \cup {None} : Rescore(id, score)
               \/ UNCHANGED vars
  <1>1. CASE UNCHANGED vars
    BY <1>1 DEF vars
  <1>2. ASSUME NEW o \in Observations, HandleSbom(o) \/ HandleDefectDojo(o) \/ HandleWazuh(o)
        PROVE  Handled
    <2>1. /\ \A k \in Keys : Writes(o, k)
          /\ exposures' = [k \in Keys |-> exposures'[k]]
          /\ UNCHANGED <<world, changes>>
      BY <1>2, SbomWrites, ScanWrites, AgentWrites
    <2> QED BY <2>1 DEF Handled
  <1>3. ASSUME NEW r \in Records, Publish(r) \/ Withdraw(r)
        PROVE  UNCHANGED exposures
    BY <1>3 DEF Publish, Withdraw, Change
  <1>4. ASSUME NEW id \in Ids, NEW statement \in Statements \cup {None}, Assert(id, statement)
        PROVE  UNCHANGED exposures
    BY <1>4 DEF Assert, Change
  <1>5. ASSUME NEW id \in Ids, Catalogue(id)
        PROVE  UNCHANGED exposures
    BY <1>5 DEF Catalogue, Change
  <1>6. ASSUME NEW id \in Ids, NEW score \in Scores \cup {None}, Rescore(id, score)
        PROVE  UNCHANGED exposures
    BY <1>6 DEF Rescore, Change
  <1> QED BY <1>1, <1>2, <1>3, <1>4, <1>5, <1>6 DEF Next

-----------------------------------------------------------------------------
(* Types.                                                                   *)

LEMMA InitType == Init => TypeOK
  BY GradingConstants DEF Init, TypeOK

LEMMA NextType ==
  ASSUME TypeOK, [Next]_vars
  PROVE  TypeOK'
  <1>1. CASE Handled
    <2>1. UNCHANGED <<published, vex, kev, epss, changes>>
      BY <1>1 DEF Handled, world
    <2>2. PICK o \in Observations : \A k \in Keys : Writes(o, k)
      BY <1>1 DEF Handled
    <2>3. ASSUME NEW k \in Keys
          PROVE  exposures'[k] \in Exposure \cup {None}
      <3>1. k[2] \in Ids
        BY DEF Keys
      <3>2. CASE exposures'[k] = exposures[k]
        BY <3>2 DEF TypeOK
      <3>3. ASSUME NEW verdict \in Verdict, NEW down, exposures'[k] = Graded(k[2], o, verdict, down)
            PROVE  exposures'[k] \in Exposure
        BY <3>1, <3>3, GradedType
      <3> QED BY <2>2, <3>2, <3>3 DEF Writes
    <2>4. exposures' = [k \in Keys |-> exposures'[k]]
      BY <1>1 DEF Handled
    <2>5. exposures' \in [Keys -> Exposure \cup {None}]
      BY <2>3, <2>4
    <2>6. Keys' = Keys
      BY DEF Keys
    <2> QED BY <2>1, <2>5, <2>6 DEF TypeOK
  <1>2. CASE UNCHANGED vars
    BY <1>2 DEF vars, world, TypeOK
  <1>3. ASSUME NEW r \in Records, Publish(r) \/ Withdraw(r)
        PROVE  TypeOK'
    BY <1>3, GradingConstants DEF Publish, Withdraw, Change, TypeOK
  <1>4. ASSUME NEW id \in Ids, NEW statement \in Statements \cup {None}, Assert(id, statement)
        PROVE  TypeOK'
    BY <1>4, GradingConstants DEF Assert, Change, TypeOK
  <1>5. ASSUME NEW id \in Ids, Catalogue(id)
        PROVE  TypeOK'
    BY <1>5, GradingConstants DEF Catalogue, Change, TypeOK
  <1>6. ASSUME NEW id \in Ids, NEW score \in Scores \cup {None}, Rescore(id, score)
        PROVE  TypeOK'
    BY <1>6, GradingConstants DEF Rescore, Change, TypeOK
  <1> QED BY <1>1, <1>2, <1>3, <1>4, <1>5, <1>6, StepIsHandledOrWorld

\* Whatever is published, revised or withdrawn, whichever look-ups fail, each
\* exposure keeps a known class, a confidence and a priority from P0 to P4
\* (matching/models.py, Exposure).
THEOREM TypeCorrect == Spec => []TypeOK
  <1>1. TypeOK /\ [Next]_vars => TypeOK'
    BY NextType
  <1> QED BY <1>1, InitType, PTL DEF Spec

-----------------------------------------------------------------------------
(* Priorities follow from what was seen.                                    *)

VerdictOf(e) == [class |-> e.class, confidence |-> e.confidence]
Priced(e) == e.priority = PriorityFor(VerdictOf(e), e.seen.listed, e.seen.score)
AllPriced == \A k \in Keys : exposures[k] # None => Priced(exposures[k])

LEMMA InitPriced == Init => AllPriced
  BY DEF Init, AllPriced

LEMMA NextPriced ==
  ASSUME TypeOK, AllPriced, [Next]_vars
  PROVE  AllPriced'
  <1>1. Keys' = Keys
    BY DEF Keys
  <1>2. CASE UNCHANGED exposures
    BY <1>1, <1>2 DEF AllPriced
  <1>3. CASE Handled
    <2>1. PICK o \in Observations : \A k \in Keys : Writes(o, k)
      BY <1>3 DEF Handled
    <2>2. ASSUME NEW k \in Keys, exposures'[k] # None
          PROVE  Priced(exposures'[k])
      <3>1. k[2] \in Ids
        BY DEF Keys
      <3>2. CASE exposures'[k] = exposures[k]
        BY <2>2, <3>2 DEF AllPriced
      <3>3. ASSUME NEW verdict \in Verdict, NEW down, exposures'[k] = Graded(k[2], o, verdict, down)
            PROVE  Priced(exposures'[k])
        <4>1. /\ exposures'[k].class = verdict.class
              /\ exposures'[k].confidence = verdict.confidence
              /\ exposures'[k].priority =
                   PriorityFor(verdict, exposures'[k].seen.listed, exposures'[k].seen.score)
          BY <3>1, <3>3, GradedType
        <4>2. VerdictOf(exposures'[k]) = verdict
          BY <4>1 DEF VerdictOf, Verdict
        <4> QED BY <4>1, <4>2 DEF Priced
      <3> QED BY <2>1, <3>2, <3>3 DEF Writes
    <2> QED BY <1>1, <2>2 DEF AllPriced
  <1> QED BY <1>2, <1>3, StepIsHandledOrWorld

LEMMA WorseIsMore ==
  ASSUME NEW e \in Exposure, NEW f \in Exposure, Priced(e), Priced(f), Rises(e, f)
  PROVE  f.priority <= e.priority
  <1> DEFINE i == Input(VerdictOf(e), e.seen.listed, e.seen.score)
             j == Input(VerdictOf(f), f.seen.listed, f.seen.score)
  <1>1. /\ e.class \in Classes /\ f.class \in Classes
        /\ e.confidence \in 0 .. 100 /\ f.confidence \in 0 .. 100
        /\ e.seen \in Seen /\ f.seen \in Seen
    BY DEF Exposure
  <1>2. /\ VerdictOf(e) \in Verdict /\ VerdictOf(f) \in Verdict
        /\ VerdictOf(e).class = e.class /\ VerdictOf(f).class = f.class
    BY <1>1 DEF VerdictOf, Verdict
  <1>3. /\ e.seen.listed \in BOOLEAN /\ f.seen.listed \in BOOLEAN
        /\ e.seen.score \in Score /\ f.seen.score \in Score
    BY <1>1 DEF Seen
  <1>4. i \in PolicyInput /\ j \in PolicyInput
    BY <1>2, <1>3, InputType
  <1>5. /\ i.kev = e.seen.listed /\ j.kev = f.seen.listed
        /\ i.epss = e.seen.score.score /\ j.epss = f.seen.score.score
        /\ i.percentile = e.seen.score.percentile /\ j.percentile = f.seen.score.percentile
        /\ i.cvss = 0 /\ j.cvss = 0
        /\ i.criticality = "medium" /\ j.criticality = "medium"
        /\ i.exposure = "internal" /\ j.exposure = "internal"
        /\ i.confidence = e.confidence /\ j.confidence = f.confidence
        /\ i.class = e.class /\ j.class = f.class
    BY DEF Input, VerdictOf
  <1>6. /\ Criticality("medium") = 1000 /\ Exposed("internal") = 200
    BY DEF Criticality, Exposed
  <1> HIDE DEF i, j
  <1>7. AsBad(i, j)
    BY <1>5, <1>6 DEF AsBad, Rises
  <1>8. Priority(i) \in 0 .. 4 /\ Priority(j) \in 0 .. 4 /\ Priority(j) <= Priority(i)
    BY <1>4, <1>7, PolicyIsMonotone
  <1>9. e.class \in CaseClasses => f.class \in CaseClasses
    BY <1>1 DEF Rises, Strength, Classes, CaseClasses
  <1>10. /\ e.priority = IF Priority(i) = 4 /\ e.class \in CaseClasses THEN 3 ELSE Priority(i)
         /\ f.priority = IF Priority(j) = 4 /\ f.class \in CaseClasses THEN 3 ELSE Priority(j)
    BY <1>2 DEF Priced, PriorityFor, i, j
  <1>11. f.class \in CaseClasses /\ e.class \notin CaseClasses => f.priority <= e.priority
    BY <1>8, <1>10
  <1> QED BY <1>8, <1>9, <1>10, <1>11

\* An exposure that is graded anew on evidence as bad or worse keeps its
\* priority or gets a more urgent one, for any weights of the evidence and any
\* order of events (risk/policy.py:50, orchestration.py, _priority_for).
THEOREM PriorityFollows == Spec => WorseIsNotLower
  <1>1. ASSUME TypeOK, TypeOK', AllPriced, AllPriced', [Next]_vars
        PROVE  [\A k \in Keys :
                  exposures[k] # None /\ exposures'[k] # None /\ Rises(exposures[k], exposures'[k])
                    => exposures'[k].priority <= exposures[k].priority]_vars
    <2>1. Keys' = Keys
      BY DEF Keys
    <2>2. ASSUME NEW k \in Keys, exposures[k] # None, exposures'[k] # None,
                 Rises(exposures[k], exposures'[k])
          PROVE  exposures'[k].priority <= exposures[k].priority
      <3>1. exposures[k] \in Exposure /\ exposures'[k] \in Exposure
        BY <1>1, <2>1, <2>2 DEF TypeOK
      <3>2. Priced(exposures[k]) /\ Priced(exposures'[k])
        BY <1>1, <2>1, <2>2 DEF AllPriced
      <3> QED BY <2>2, <3>1, <3>2, WorseIsMore
    <2> QED BY <2>2
  <1>2. TypeOK /\ AllPriced /\ [Next]_vars => AllPriced'
    BY NextPriced
  <1> QED BY <1>1, <1>2, InitPriced, TypeCorrect, PTL DEF Spec, WorseIsNotLower

-----------------------------------------------------------------------------
(* Verdicts are true where advisories are plain.                            *)

At(kind, v) == [kind |-> kind, at |-> v]

\* One interval, open or closed.
Single(events) ==
  \/ \E a \in Versions \cup {Zero} : events = <<At("introduced", a)>>
  \/ \E a \in Versions \cup {Zero}, b \in Versions :
       AtOrBelow(a, b) /\ events = <<At("introduced", a), At("fixed", b)>>

\* Versions compare as their ecosystem means, ranges have one interval, a name
\* belongs to one advisory, a package to one ecosystem, and scans are verified.
Plain ==
  /\ \A a \in Versions, b \in Versions : Before(a, b) <=> Order[a] < Order[b]
  /\ \A r \in Records : \A g \in r.affected : g.purl # None => Single(g.events)
  /\ \A r \in Records, q \in Records : Names(r) \cap Names(q) # {} => r.id = q.id
  /\ \A o \in Observations, r \in Records : \A g \in r.affected :
       g.purl = o.component.purl => Normalize(g.ecosystem) = Normalize(o.component.ecosystem)
  /\ \A o \in Observations : o.by = "defectdojo" => o.verified

LEMMA BoundsOfOpen ==
  ASSUME NEW a, NEW events, events = <<At("introduced", a)>>
  PROVE  LastAt(events, "introduced") = a /\ LastAt(events, "fixed") = None
  <1>1. DOMAIN events = {1} /\ events[1].kind = "introduced" /\ events[1].at = a
    BY DEF At
  <1>2. {i \in DOMAIN events : events[i].kind = "introduced"} = {1}
    BY <1>1
  <1>3. {i \in DOMAIN events : events[i].kind = "fixed"} = {}
    BY <1>1
  <1>4. (CHOOSE i \in {1} : \A j \in {1} : j <= i) = 1
    OBVIOUS
  <1> QED BY <1>1, <1>2, <1>3, <1>4 DEF LastAt

LEMMA BoundsOfClosed ==
  ASSUME NEW a, NEW b, NEW events, events = <<At("introduced", a), At("fixed", b)>>
  PROVE  LastAt(events, "introduced") = a /\ LastAt(events, "fixed") = b
  <1>1. /\ DOMAIN events = {1, 2}
        /\ events[1].kind = "introduced" /\ events[1].at = a
        /\ events[2].kind = "fixed" /\ events[2].at = b
    BY DEF At
  <1>2. {i \in DOMAIN events : events[i].kind = "introduced"} = {1}
    BY <1>1
  <1>3. {i \in DOMAIN events : events[i].kind = "fixed"} = {2}
    BY <1>1
  <1>4. (CHOOSE i \in {1} : \A j \in {1} : j <= i) = 1
    OBVIOUS
  <1>5. (CHOOSE i \in {2} : \A j \in {2} : j <= i) = 2
    OBVIOUS
  <1> QED BY <1>1, <1>2, <1>3, <1>4, <1>5 DEF LastAt

\* For one interval the two bounds say what the range says.
LEMMA SingleIsBounds ==
  ASSUME Plain, NEW g \in OsvRange, Single(g.events), NEW v \in Versions
  PROVE  /\ Bounds(g).introduced # None
         /\ InRange(v, Bounds(g).introduced, Bounds(g).fixed) <=> Affects(g.events, v)
  <1>0. /\ Order \in [Versions -> Int] /\ Zero \notin Versions
        /\ None \notin Versions /\ None # Zero
    BY GradingConstants
  <1>1. ASSUME NEW a \in Versions \cup {Zero}, g.events = <<At("introduced", a)>>
        PROVE  /\ Bounds(g).introduced # None
               /\ InRange(v, Bounds(g).introduced, Bounds(g).fixed) <=> Affects(g.events, v)
    <2>1. Bounds(g).introduced = a /\ Bounds(g).fixed = None
      BY <1>1, BoundsOfOpen DEF Bounds
    <2>2. DOMAIN g.events = {1} /\ g.events[1].kind = "introduced" /\ g.events[1].at = a
      BY <1>1 DEF At
    <2>3. Affects(g.events, v) <=> AtOrBelow(a, v)
      BY <2>2 DEF Affects
    <2>4. InRange(v, a, None) <=> AtOrBelow(a, v)
      <3>1. CASE a = Zero
        BY <3>1 DEF InRange, AtOrBelow
      <3>2. CASE a \in Versions
        <4>1. Before(v, a) <=> Order[v] < Order[a]
          BY <3>2 DEF Plain
        <4>2. Order[v] \in Int /\ Order[a] \in Int
          BY <1>0, <3>2
        <4> QED BY <1>0, <3>2, <4>1, <4>2 DEF InRange, AtOrBelow
      <3> QED BY <3>1, <3>2
    <2> QED BY <1>0, <2>1, <2>3, <2>4
  <1>2. ASSUME NEW a \in Versions \cup {Zero}, NEW b \in Versions, AtOrBelow(a, b),
               g.events = <<At("introduced", a), At("fixed", b)>>
        PROVE  /\ Bounds(g).introduced # None
               /\ InRange(v, Bounds(g).introduced, Bounds(g).fixed) <=> Affects(g.events, v)
    <2>1. Bounds(g).introduced = a /\ Bounds(g).fixed = b
      BY <1>2, BoundsOfClosed DEF Bounds
    <2>2. /\ DOMAIN g.events = {1, 2}
          /\ g.events[1].kind = "introduced" /\ g.events[1].at = a
          /\ g.events[2].kind = "fixed" /\ g.events[2].at = b
      BY <1>2 DEF At
    <2>3. Affects(g.events, v) <=> AtOrBelow(a, v) /\ ~AtOrBelow(b, v)
      BY <1>2, <2>2 DEF Affects
    <2>4. AtOrBelow(b, v) <=> ~Before(v, b)
      <3>1. Before(v, b) <=> Order[v] < Order[b]
        BY DEF Plain
      <3>2. Order[v] \in Int /\ Order[b] \in Int
        BY <1>0
      <3> QED BY <1>0, <3>1, <3>2 DEF AtOrBelow
    <2>5. (a \notin {None, Zero} => ~Before(v, a)) <=> AtOrBelow(a, v)
      <3>1. CASE a = Zero
        BY <3>1 DEF AtOrBelow
      <3>2. CASE a \in Versions
        <4>1. Before(v, a) <=> Order[v] < Order[a]
          BY <3>2 DEF Plain
        <4>2. Order[v] \in Int /\ Order[a] \in Int
          BY <1>0, <3>2
        <4> QED BY <1>0, <3>2, <4>1, <4>2 DEF AtOrBelow
      <3> QED BY <3>1, <3>2
    <2>6. InRange(v, a, b) <=> AtOrBelow(a, v) /\ ~AtOrBelow(b, v)
      BY <1>0, <2>4, <2>5 DEF InRange
    <2> QED BY <1>0, <2>1, <2>3, <2>6
  <1> QED BY <1>1, <1>2 DEF Single

\* At any time OSV publishes one revision of an advisory.
OneRevision == \A r \in published, q \in published : r.id = q.id => r = q

Truthful(e) ==
  CASE e.class = "confirmed" -> e.seen.verified \/ e.seen.statement = "affected"
    [] e.class = "deterministic" -> e.seen.affected
    [] e.class = "not_affected" -> e.seen.statement = "not_affected" \/ ~e.seen.affected
    [] OTHER -> TRUE

LEMMA RangeVerdict ==
  ASSUME Plain, TypeOK, OneRevision, NEW o \in Observations,
         NEW r \in published, NEW id \in Names(r),
         NEW class, class = ByRange(o.component, Advisory(r)).class
  PROVE  /\ class \in {"candidate", "deterministic", "not_affected"}
         /\ class = "deterministic" => IsAffected(o.component, id, published)
         /\ class = "not_affected" => ~IsAffected(o.component, id, published)
  <1> DEFINE c == o.component
  <1>1. r \in Records /\ published \subseteq Records
    BY DEF TypeOK
  <1>2. /\ c.purl \in Purls \cup {None} /\ c.version \in Versions \cup {None}
    BY GradingConstants DEF Observation, Component
  <1>3. \A g \in r.affected : g \in OsvRange
    BY <1>1, GradingConstants
  <1>4. class \in {"candidate", "deterministic", "not_affected"}
    BY DEF ByRange, Is
  <1>5. ASSUME class = "deterministic"
        PROVE  IsAffected(c, id, published)
    <2>1. /\ c.purl # None /\ c.version # None
          /\ \E b \in Advisory(r) : Concerns(c, b) /\ InRange(c.version, b.introduced, b.fixed)
      BY <1>5 DEF ByRange, Is
    <2>2. PICK g \in r.affected :
            Concerns(c, Bounds(g)) /\ InRange(c.version, Bounds(g).introduced, Bounds(g).fixed)
      BY <2>1 DEF Advisory
    <2>3. g.purl = c.purl
      BY <2>2 DEF Concerns, Bounds
    <2>4. Single(g.events)
      BY <1>1, <2>1, <2>3 DEF Plain
    <2>5. Affects(g.events, c.version)
      BY <1>2, <1>3, <2>1, <2>2, <2>4, SingleIsBounds
    <2> QED BY <2>3, <2>5 DEF IsAffected
  <1>6. ASSUME class = "not_affected", IsAffected(c, id, published)
        PROVE  FALSE
    <2>1. /\ c.purl # None /\ c.version # None
          /\ ~\E b \in Advisory(r) : Concerns(c, b) /\ InRange(c.version, b.introduced, b.fixed)
      BY <1>6 DEF ByRange, Is
    <2>2. PICK q \in published :
            id \in Names(q) /\ \E g \in q.affected : g.purl = c.purl /\ Affects(g.events, c.version)
      BY <1>6 DEF IsAffected
    <2>3. q.id = r.id
      BY <1>1, <2>2 DEF Plain
    <2>4. q = r
      BY <2>3 DEF OneRevision
    <2>5. PICK g \in r.affected : g.purl = c.purl /\ Affects(g.events, c.version)
      BY <2>2, <2>4
    <2>6. Single(g.events)
      BY <1>1, <2>1, <2>5 DEF Plain
    <2>7. Bounds(g).introduced # None /\ InRange(c.version, Bounds(g).introduced, Bounds(g).fixed)
      BY <1>2, <1>3, <2>1, <2>5, <2>6, SingleIsBounds
    <2>8. Bounds(g) \in Advisory(r)
      BY <2>7 DEF Advisory
    <2>9. Concerns(c, Bounds(g))
      <3>1. Normalize(g.ecosystem) = Normalize(c.ecosystem)
        BY <1>1, <2>5 DEF Plain
      <3>2. Bounds(g).ecosystem = g.ecosystem /\ Bounds(g).purl = g.purl
        BY DEF Bounds
      <3> QED BY <2>1, <2>5, <3>1, <3>2 DEF Concerns
    <2> QED BY <2>1, <2>7, <2>8, <2>9
  <1> QED BY <1>4, <1>5, <1>6

LEMMA ConclusionsAreTrue ==
  ASSUME Plain, TypeOK, OneRevision, NEW o \in Observations, NEW id \in Ids,
         NEW verdict \in Verdict, NEW down, Concluded(o, id, verdict, down),
         NEW e, e = Graded(id, o, verdict, down)
  PROVE  Truthful(e)
  <1> DEFINE statement == StatementOn(id, o, down)
             affected == IsAffected(o.component, id, published)
  <1>1. /\ e.class = verdict.class /\ e.seen.verified = o.verified
        /\ e.seen.statement = statement /\ e.seen.affected = affected
    BY GradedType
  <1> HIDE DEF statement, affected
  <1>2. SUFFICES
          CASE verdict.class = "confirmed" -> o.verified \/ statement = "affected"
            [] verdict.class = "deterministic" -> affected
            [] verdict.class = "not_affected" -> statement = "not_affected" \/ ~affected
            [] OTHER -> TRUE
    BY <1>1 DEF Truthful
  <1>3. ASSUME NEW r \in published, id \in Names(r),
               verdict = Evaluate(o.component, Advisory(r), FALSE, statement)
        PROVE  CASE verdict.class = "confirmed" -> o.verified \/ statement = "affected"
                 [] verdict.class = "deterministic" -> affected
                 [] verdict.class = "not_affected" -> statement = "not_affected" \/ ~affected
                 [] OTHER -> TRUE
    <2>1. CASE statement = "not_affected"
      BY <1>3, <2>1 DEF Evaluate, Is
    <2>2. CASE statement = "affected"
      BY <1>3, <2>2 DEF Evaluate, Is
    <2>3. CASE statement \notin {"affected", "not_affected"}
      <3>1. verdict.class = ByRange(o.component, Advisory(r)).class
        BY <1>3, <2>3 DEF Evaluate
      <3>2. /\ verdict.class \in {"candidate", "deterministic", "not_affected"}
            /\ verdict.class = "deterministic" => affected
            /\ verdict.class = "not_affected" => ~affected
        BY <1>3, <3>1, RangeVerdict DEF affected
      <3> QED BY <3>2
    <2> QED BY <2>1, <2>2, <2>3
  <1>4. CASE o.by = "sbom" /\ FromSbom(o, id, verdict, down)
    <2>1. PICK r \in published :
            r.id = id /\ verdict = Evaluate(o.component, Advisory(r), FALSE, statement)
      BY <1>4 DEF FromSbom, statement
    <2>2. id \in Names(r)
      BY <2>1 DEF Names
    <2> QED BY <1>3, <2>1, <2>2
  <1>5. CASE o.by = "defectdojo" /\ FromScan(o, id, verdict, down)
    <2>1. o.verified
      BY <1>5 DEF Plain
    <2>2. PICK advisory : verdict = Evaluate(o.component, advisory, o.verified, statement)
      BY <1>5 DEF FromScan, statement
    <2>3. verdict.class = "confirmed"
      BY <2>1, <2>2 DEF Evaluate, Is
    <2> QED BY <2>1, <2>3
  <1>6. CASE o.by = "wazuh" /\ FromAgent(o, id, verdict, down)
    <2>1. CASE verdict = Unbound(o, Evaluate(o.component, {}, FALSE, statement))
      <3>1. CASE statement = "not_affected"
        <4>1. Evaluate(o.component, {}, FALSE, statement) = Is("not_affected", 95)
          BY <3>1 DEF Evaluate
        <4>2. Is("not_affected", 95).class \notin CaseClasses
          BY DEF Is, CaseClasses
        <4>3. verdict = Is("not_affected", 95)
          BY <2>1, <4>1, <4>2 DEF Unbound
        <4>4. verdict.class = "not_affected"
          BY <4>3 DEF Is
        <4> QED BY <3>1, <4>4
      <3>2. CASE statement = "affected"
        <4>1. Evaluate(o.component, {}, FALSE, statement) = Is("confirmed", 98)
          BY <3>2 DEF Evaluate
        <4>2. verdict \in {Is("confirmed", 98), Is("candidate", 40)}
          BY <2>1, <4>1 DEF Unbound
        <4>3. verdict.class \in {"confirmed", "candidate"}
          BY <4>2 DEF Is
        <4> QED BY <3>2, <4>3
      <3>3. CASE statement \notin {"affected", "not_affected"}
        <4>1. Evaluate(o.component, {}, FALSE, statement).class = "candidate"
          BY <3>3 DEF Evaluate, ByRange, Is
        <4>2. verdict.class = "candidate"
          BY <2>1, <4>1 DEF Unbound, Is
        <4> QED BY <4>2
      <3> QED BY <3>1, <3>2, <3>3
    <2>2. ASSUME NEW r \in published, id \in Names(r),
                 verdict = Evaluate(o.component, Advisory(r), FALSE, statement)
          PROVE  CASE verdict.class = "confirmed" -> o.verified \/ statement = "affected"
                   [] verdict.class = "deterministic" -> affected
                   [] verdict.class = "not_affected" -> statement = "not_affected" \/ ~affected
                   [] OTHER -> TRUE
      BY <1>3, <2>2
    <2> QED BY <1>6, <2>1, <2>2 DEF FromAgent, statement
  <1> QED BY <1>4, <1>5, <1>6 DEF Concluded

LEMMA NextRevision ==
  ASSUME TypeOK, OneRevision, [Next]_vars
  PROVE  OneRevision'
  <1>1. CASE UNCHANGED published
    BY <1>1 DEF OneRevision
  <1>2. ASSUME NEW r \in Records, Publish(r) \/ Withdraw(r)
        PROVE  OneRevision'
    BY <1>2 DEF Publish, Withdraw, OneRevision
  <1>3. ASSUME NEW id \in Ids, NEW statement \in Statements \cup {None}, Assert(id, statement)
        PROVE  UNCHANGED published
    BY <1>3 DEF Assert
  <1>4. ASSUME NEW id \in Ids, Catalogue(id)
        PROVE  UNCHANGED published
    BY <1>4 DEF Catalogue
  <1>5. ASSUME NEW id \in Ids, NEW score \in Scores \cup {None}, Rescore(id, score)
        PROVE  UNCHANGED published
    BY <1>5 DEF Rescore
  <1>6. Handled => UNCHANGED published
    BY DEF Handled, world
  <1>7. UNCHANGED vars => UNCHANGED published
    BY DEF vars, world
  <1> QED BY <1>1, <1>2, <1>3, <1>4, <1>5, <1>6, <1>7, StepIsHandledOrWorld

LEMMA VerdictsStep ==
  ASSUME Plain, TypeOK, OneRevision, VerdictsAreTrue, [Next]_vars
  PROVE  VerdictsAreTrue'
  <1>1. VerdictsAreTrue <=> \A k \in Keys : exposures[k] # None => Truthful(exposures[k])
    BY DEF VerdictsAreTrue, Truthful
  <1>2. SUFFICES \A k \in Keys : exposures'[k] # None => Truthful(exposures'[k])
    BY DEF VerdictsAreTrue, Truthful, Keys
  <1>3. CASE UNCHANGED exposures
    BY <1>1, <1>3
  <1>4. CASE Handled
    <2>1. PICK o \in Observations : \A k \in Keys : Writes(o, k)
      BY <1>4 DEF Handled
    <2>2. ASSUME NEW k \in Keys, exposures'[k] # None
          PROVE  Truthful(exposures'[k])
      <3>1. k[2] \in Ids
        BY DEF Keys
      <3>2. CASE exposures'[k] = exposures[k]
        BY <1>1, <2>2, <3>2
      <3>3. ASSUME NEW verdict \in Verdict, NEW down, Concluded(o, k[2], verdict, down),
                   exposures'[k] = Graded(k[2], o, verdict, down)
            PROVE  Truthful(exposures'[k])
        BY <3>1, <3>3, ConclusionsAreTrue
      <3> QED BY <2>1, <3>2, <3>3 DEF Writes
    <2> QED BY <2>2
  <1> QED BY <1>3, <1>4, StepIsHandledOrWorld

\* Where ranges have one interval, versions compare as their ecosystem means,
\* names are not shared and scans are verified, no verdict contradicts the
\* advisories and statements it rests on, for any set of packages, versions and
\* advisories and any order of revisions and events (matching/service.py:99).
THEOREM Verdicts == ASSUME Plain PROVE Spec => []VerdictsAreTrue
  <1>1. Init => OneRevision /\ VerdictsAreTrue
    BY DEF Init, OneRevision, VerdictsAreTrue
  <1>2. TypeOK /\ OneRevision /\ [Next]_vars => OneRevision'
    BY NextRevision
  <1>3. TypeOK /\ OneRevision /\ VerdictsAreTrue /\ [Next]_vars => VerdictsAreTrue'
    BY VerdictsStep
  <1> QED BY <1>1, <1>2, <1>3, TypeCorrect, PTL DEF Spec

-----------------------------------------------------------------------------
(* What a class rests on, with no premise.                                  *)

\* A class never goes beyond its evidence, and a case is never in the last band.
Rests(e) ==
  /\ e.class = "confirmed" => e.seen.verified \/ e.seen.statement = "affected"
  /\ e.seen.verified => e.class = "confirmed"
  /\ ~e.seen.verified /\ e.seen.statement = "not_affected" => e.class = "not_affected"
  /\ e.class = "deterministic" =>
       /\ e.seen.component.purl # None /\ e.seen.component.version # None
       /\ Normalize(e.seen.component.ecosystem) \in Supported
  /\ e.class \in CaseClasses => e.priority < 4

ClassesRest == \A k \in Keys : exposures[k] # None => Rests(exposures[k])

LEMMA ConclusionsRest ==
  ASSUME TypeOK, NEW o \in Observations, NEW id \in Ids,
         NEW verdict \in Verdict, NEW down, Concluded(o, id, verdict, down),
         NEW e, e = Graded(id, o, verdict, down)
  PROVE  Rests(e)
  <1> DEFINE statement == StatementOn(id, o, down)
  <1>1. /\ e.class = verdict.class /\ e.seen.verified = o.verified
        /\ e.seen.statement = statement /\ e.seen.component = o.component
        /\ e.priority = PriorityFor(verdict, e.seen.listed, e.seen.score)
        /\ e.seen.listed \in BOOLEAN /\ e.seen.score \in Score
    BY GradedType DEF Exposure, Seen
  <1>2. /\ o.verified \in BOOLEAN
        /\ o.verified => o.by = "defectdojo"
    BY GradingConstants DEF Observation
  <1>3. PICK advisory :
          \/ verdict = Evaluate(o.component, advisory, o.verified, statement)
          \/ /\ ~o.verified
             /\ verdict = Unbound(o, Evaluate(o.component, advisory, o.verified, statement))
    <2>0. o.by # "defectdojo" => o.verified = FALSE
      BY <1>2
    <2>1. CASE o.by = "sbom" /\ FromSbom(o, id, verdict, down)
      BY <2>0, <2>1 DEF FromSbom
    <2>2. CASE o.by = "defectdojo" /\ FromScan(o, id, verdict, down)
      BY <2>2 DEF FromScan
    <2>3. CASE o.by = "wazuh" /\ FromAgent(o, id, verdict, down)
      BY <2>0, <2>3 DEF FromAgent
    <2> QED BY <2>1, <2>2, <2>3 DEF Concluded
  <1>4. e.class \in CaseClasses => e.priority < 4
    <2>1. e.priority \in 0 .. 4
      BY <1>1, PriorityForType
    <2>2. e.class \in CaseClasses => e.priority # 4
      BY <1>1 DEF PriorityFor
    <2> QED BY <2>1, <2>2
  <1> HIDE DEF statement
  <1>5. PICK judged : judged = Evaluate(o.component, advisory, o.verified, statement)
    OBVIOUS
  <1>6. /\ judged.class = "confirmed" => o.verified \/ statement = "affected"
        /\ o.verified => judged.class = "confirmed"
        /\ ~o.verified /\ statement = "not_affected" => judged.class = "not_affected"
        /\ judged.class = "deterministic" =>
             /\ o.component.purl # None /\ o.component.version # None
             /\ Normalize(o.component.ecosystem) \in Supported
    <2>1. CASE o.verified
      BY <1>5, <2>1 DEF Evaluate, Is
    <2>2. CASE ~o.verified /\ statement \in {"affected", "not_affected"}
      BY <1>5, <2>2 DEF Evaluate, Is
    <2>3. CASE ~o.verified /\ statement \notin {"affected", "not_affected"}
      <3>1. judged = ByRange(o.component, advisory)
        BY <1>5, <2>3 DEF Evaluate
      <3>2. /\ judged.class \in {"candidate", "deterministic", "not_affected"}
            /\ judged.class = "deterministic" =>
                 /\ o.component.purl # None /\ o.component.version # None
                 /\ Normalize(o.component.ecosystem) \in Supported
        BY <3>1 DEF ByRange, Is
      <3> QED BY <2>3, <3>2
    <2> QED BY <2>1, <2>2, <2>3
  <1>7. verdict = judged \/ (~o.verified /\ verdict = Unbound(o, judged))
    BY <1>3, <1>5
  <1> QED BY <1>1, <1>4, <1>6, <1>7 DEF Rests, Unbound, Is, CaseClasses

\* What holds of every conclusion holds of every exposure.
LEMMA WrittenHolds ==
  ASSUME TypeOK, NEW k \in Keys, exposures'[k] # exposures[k], [Next]_vars
  PROVE  \E o \in Observations, verdict \in Verdict : \E down :
           /\ Reports(o, k) /\ Concluded(o, k[2], verdict, down)
           /\ exposures'[k] = Graded(k[2], o, verdict, down)
  <1>1. Handled
    BY StepIsHandledOrWorld
  <1> QED BY <1>1 DEF Handled, Writes

\* Confirmed takes a verified scan or a statement, a supplier's "not affected"
\* always clears what no scan has verified, deterministic takes a package, a
\* version and an ecosystem whose versions compare, and what makes a case is
\* above the last band: for every advisory OSV may answer with, right or wrong
\* (matching/service.py:99, orchestration.py, _priority_for).
THEOREM EvidenceDecides == Spec => []ClassesRest
  <1>1. Init => ClassesRest
    BY DEF Init, ClassesRest
  <1>2. ASSUME TypeOK, ClassesRest, [Next]_vars
        PROVE  ClassesRest'
    <2>1. SUFFICES ASSUME NEW k \in Keys, exposures'[k] # None PROVE Rests(exposures'[k])
      BY DEF ClassesRest, Rests, Keys
    <2>2. CASE exposures'[k] = exposures[k]
      BY <1>2, <2>1, <2>2 DEF ClassesRest
    <2>3. CASE exposures'[k] # exposures[k]
      <3>1. PICK o \in Observations, verdict \in Verdict : \E down :
              /\ Reports(o, k) /\ Concluded(o, k[2], verdict, down)
              /\ exposures'[k] = Graded(k[2], o, verdict, down)
        BY <1>2, <2>3, WrittenHolds
      <3>2. k[2] \in Ids
        BY DEF Keys
      <3> QED BY <1>2, <3>1, <3>2, ConclusionsRest
    <2> QED BY <2>2, <2>3
  <1> QED BY <1>1, <1>2, TypeCorrect, PTL DEF Spec

-----------------------------------------------------------------------------
(* Where exposures are not shared, and names are not either.                *)

\* An exposure is about one package: whatever reports it names the same.
OnePackage ==
  \A k \in Keys, o \in Observations, q \in Observations :
    Reports(o, k) /\ Reports(q, k) => o.component = q.component

\* What an exposure was graded for is what one of its reporters named.
SeenIsReported ==
  \A k \in Keys : exposures[k] # None =>
    \E o \in Observations : Reports(o, k) /\ exposures[k].seen.component = o.component

LEMMA WrittenIsReported ==
  ASSUME TypeOK, NEW k \in Keys, exposures'[k] # exposures[k], [Next]_vars
  PROVE  \E o \in Observations : Reports(o, k) /\ exposures'[k].seen.component = o.component
  <1>1. PICK o \in Observations, verdict \in Verdict : \E down :
          /\ Reports(o, k) /\ Concluded(o, k[2], verdict, down)
          /\ exposures'[k] = Graded(k[2], o, verdict, down)
    BY WrittenHolds
  <1>2. k[2] \in Ids
    BY DEF Keys
  <1> QED BY <1>1, <1>2, GradedType

LEMMA ReportedStays == TypeOK /\ SeenIsReported /\ [Next]_vars => SeenIsReported'
  <1> SUFFICES ASSUME TypeOK, SeenIsReported, [Next]_vars, NEW k \in Keys, exposures'[k] # None
               PROVE  \E o \in Observations :
                        Reports(o, k) /\ exposures'[k].seen.component = o.component
    BY DEF SeenIsReported, Keys, Reports
  <1>1. CASE exposures'[k] = exposures[k]
    BY <1>1 DEF SeenIsReported
  <1>2. CASE exposures'[k] # exposures[k]
    BY <1>2, WrittenIsReported
  <1> QED BY <1>1, <1>2

\* No case is taken back for another package as long as no two packages share
\* an exposure: the sharing alone lets the last event decide for both
\* (orchestration.py:684).
THEOREM PackagesStandAlone == ASSUME OnePackage PROVE Spec => OthersDoNotClear
  <1>1. Init => SeenIsReported
    BY DEF Init, SeenIsReported
  <1>2. TypeOK /\ SeenIsReported /\ [Next]_vars
          => (\A k \in Keys :
                exposures[k] # None /\ exposures[k].class \in CaseClasses
                  /\ exposures'[k].class \notin CaseClasses
                  => exposures'[k].seen.component = exposures[k].seen.component)
    <2> SUFFICES ASSUME TypeOK, SeenIsReported, [Next]_vars, NEW k \in Keys,
                        exposures[k] # None, exposures'[k] # exposures[k]
                 PROVE  exposures'[k].seen.component = exposures[k].seen.component
      OBVIOUS
    <2>1. PICK o \in Observations : Reports(o, k) /\ exposures'[k].seen.component = o.component
      BY WrittenIsReported
    <2>2. PICK q \in Observations : Reports(q, k) /\ exposures[k].seen.component = q.component
      BY DEF SeenIsReported
    <2> QED BY <2>1, <2>2 DEF OnePackage
  <1> QED BY <1>1, <1>2, ReportedStays, TypeCorrect, PTL DEF Spec, OthersDoNotClear

\* A vulnerability in the catalogue is graded as listed where every advisory
\* has one name: a second name is the only way past the catalogue
\* (orchestration.py, _priority_for).
THEOREM OneNameIsSeen ==
  ASSUME \A r \in Records : r.aliases = {}
  PROVE  Spec => []ListingIsSeen
  <1>1. Init => ListingIsSeen
    BY DEF Init, ListingIsSeen
  <1>2. ASSUME TypeOK, ListingIsSeen, [Next]_vars
        PROVE  ListingIsSeen'
    <2>1. SUFFICES ASSUME NEW k \in Keys, exposures'[k] # None, exposures'[k].seen.exploited
                   PROVE  exposures'[k].seen.listed
      BY DEF ListingIsSeen, Keys
    <2>2. CASE exposures'[k] = exposures[k]
      BY <1>2, <2>1, <2>2 DEF ListingIsSeen
    <2>3. CASE exposures'[k] # exposures[k]
      <3>1. PICK o \in Observations, verdict \in Verdict : \E down :
              /\ Reports(o, k) /\ Concluded(o, k[2], verdict, down)
              /\ exposures'[k] = Graded(k[2], o, verdict, down)
        BY <1>2, <2>3, WrittenHolds
      <3>2. k[2] \in Ids
        BY DEF Keys
      <3>3. /\ exposures'[k].seen.listed <=> k[2] \in kev
            /\ \E r \in published : k[2] \in Names(r) /\ Names(r) \cap kev # {}
        BY <1>2, <2>1, <3>1, <3>2, GradedType
      <3>4. \A r \in published : Names(r) = {r.id}
        BY <1>2 DEF TypeOK, Names
      <3> QED BY <3>3, <3>4
    <2> QED BY <2>2, <2>3
  <1> QED BY <1>1, <1>2, TypeCorrect, PTL DEF Spec
=============================================================================
