---------------------------- MODULE ExposureGrading ----------------------------
(***************************************************************************)
(* What the handlers of the orchestrator conclude from an observation: the *)
(* class of the match, from the advisories OSV answers, a statement of VEX *)
(* or a verified scan (vulnops/matching/service.py, versioning.py,         *)
(* intelligence/osv.py, vex.py), and the priority of the exposure, from    *)
(* the KEV catalogue and EPSS (risk/policy.py, intelligence/epss.py).      *)
(*                                                                         *)
(* The world changes between two events: advisories are published, revised *)
(* and withdrawn, statements and scores change, and look-ups fail.  Every  *)
(* event grades its exposures anew.  How events are claimed, committed and *)
(* turned into cases is in OutboxOrchestrator; here a handler is one step. *)
(*                                                                         *)
(* Versions have three orders: Rank, that of packaging.Version, for those  *)
(* it parses; Text, that of the strings; and Order, the one the ecosystem  *)
(* means.  Confidences are percentages, scores hundredths of a point.      *)
(***************************************************************************)
EXTENDS Integers, Sequences

CONSTANTS
  Ids,           \* vulnerability ids: CVE, GHSA and the like
  Purls,         \* package URLs without version
  Versions,      \* versions of packages
  Pep,           \* those packaging.Version parses
  Rank, Text, Order,
  Zero,          \* the version "0" of OSV: before all others
  Records,       \* the advisories OSV may publish
  Observations,  \* the evidence events
  Scores,        \* EPSS probabilities and percentiles, in percent
  MaxChanges,    \* bound on the changes of the world
  None

Kinds == {"introduced", "fixed", "lastAffected"}
Ecosystems == {"pypi", "PyPI", "npm", "golang", "Go", "deb", "Debian", "Debian:12", "cargo"}
Event == [kind : Kinds, at : Versions \cup {Zero}]
OsvRange == [purl : Purls \cup {None}, ecosystem : Ecosystems, events : Seq(Event)]
Component == [purl : Purls \cup {None}, ecosystem : Ecosystems, version : Versions \cup {None}]
Handlers == {"sbom", "defectdojo", "wazuh"}

\* "context" stands for the detection context and, of an SBOM, the component
\* occurrence; an SBOM event names no vulnerability.
Observation == [by : Handlers, context : Nat, cve : Ids \cup {None}, verified : BOOLEAN,
                component : Component]

Score == [score : 0 .. 100, percentile : 0 .. 100]

ASSUME GradingConstants ==
  /\ \A r \in Records :
       /\ r.id \in Ids /\ r.aliases \subseteq Ids
       /\ r.affected \subseteq OsvRange
  /\ Observations \subseteq Observation
  /\ \A o \in Observations : o.by # "sbom" => o.cve # None
  /\ \A o \in Observations : o.verified => o.by = "defectdojo"
  /\ \A o \in Observations : o.by = "sbom" => o.component.purl # None /\ o.component.version # None
  /\ Pep \subseteq Versions /\ Zero \notin Versions
  /\ Rank \in [Versions -> Int] /\ Text \in [Versions -> Int] /\ Order \in [Versions -> Int]
  /\ Scores \subseteq Score
  /\ MaxChanges \in Nat
  /\ None \notin Ids /\ None \notin Purls /\ None \notin Versions /\ None # Zero

VARIABLES
  published,  \* the advisories of OSV
  vex,        \* per vulnerability, what VEX states
  kev,        \* the vulnerabilities in the KEV catalogue
  epss,       \* per vulnerability, its score, None where it has none
  exposures,  \* table exposures, by natural identity
  changes     \* of the world, so far

world == <<published, vex, kev, epss>>
vars == <<world, exposures, changes>>

Statements == {"affected", "not_affected"}
Classes == {"confirmed", "deterministic", "corroborated", "candidate", "not_affected"}
CaseClasses == {"confirmed", "deterministic"}
Keys == {o.context : o \in Observations} \X Ids
Names(r) == {r.id} \cup r.aliases

-----------------------------------------------------------------------------
(* Versions and ranges.                                                     *)

\* _compare_versions: the order of strings as soon as one does not parse.
Before(a, b) == IF {a, b} \subseteq Pep THEN Rank[a] < Rank[b] ELSE Text[a] < Text[b]

\* is_version_in_range.  No caller has a last affected version to pass on.
InRange(version, introduced, fixed) ==
  /\ introduced \notin {None, Zero} => ~Before(version, introduced)
  /\ fixed # None => Before(version, fixed)

\* The events of a range are folded into one of each kind, the last of it.
LastAt(events, kind) ==
  LET found == {i \in DOMAIN events : events[i].kind = kind}
  IN  IF found = {} THEN None
      ELSE events[CHOOSE i \in found : \A j \in found : j <= i].at

\* lookup_batch keeps two bounds of every range and neither the explicit
\* versions nor a last affected one; _advisory_from_record drops what has none.
Bounds(g) == [purl |-> g.purl, ecosystem |-> g.ecosystem,
              introduced |-> LastAt(g.events, "introduced"), fixed |-> LastAt(g.events, "fixed")]
Advisory(r) ==
  {b \in {Bounds(g) : g \in r.affected} : b.introduced # None \/ b.fixed # None}

\* What the OSV schema says of a range: a version is affected from an
\* introduction on that no fix at or below it and no last version below it ends.
AtOrBelow(a, b) == a = Zero \/ (b # Zero /\ Order[a] <= Order[b])
Affects(events, version) ==
  \E i \in DOMAIN events :
    /\ events[i].kind = "introduced" /\ AtOrBelow(events[i].at, version)
    /\ \A j \in DOMAIN events :
         /\ events[j].kind = "fixed" =>
              ~(AtOrBelow(events[i].at, events[j].at) /\ AtOrBelow(events[j].at, version))
         /\ events[j].kind = "lastAffected" =>
              ~(AtOrBelow(events[i].at, events[j].at) /\ ~AtOrBelow(version, events[j].at))

\* The reference for a component and a vulnerability.
IsAffected(c, id, records) ==
  \E r \in records : id \in Names(r) /\ \E g \in r.affected :
    g.purl = c.purl /\ Affects(g.events, c.version)

-----------------------------------------------------------------------------
(* MatchingService.evaluate.                                                *)

Normalize(ecosystem) ==
  CASE ecosystem = "PyPI" -> "pypi"
    [] ecosystem = "Debian" -> "deb"
    [] ecosystem = "Debian:12" -> "debian:12"
    [] ecosystem = "Go" -> "go"
    [] OTHER -> ecosystem
Supported == {"pypi", "deb", "maven", "npm", "golang", "generic"}

\* The advisory is about this package.  The bounds carry no name to fall back to.
Concerns(c, b) ==
  /\ Normalize(b.ecosystem) \in {Normalize(c.ecosystem), "generic"}
  /\ b.purl # None /\ b.purl = c.purl

Is(class, confidence) == [class |-> class, confidence |-> confidence]

\* By package URL and range.  Nothing observed has a CPE and no package URL, so
\* that the rules for CPEs do not come up.
ByRange(c, advisory) ==
  IF c.purl = None THEN Is("candidate", 30)
  ELSE IF c.version = None \/ Normalize(c.ecosystem) \notin Supported THEN Is("candidate", 40)
  ELSE IF \E b \in advisory : Concerns(c, b) /\ InRange(c.version, b.introduced, b.fixed)
       THEN Is("deterministic", 93)
  ELSE IF \E b \in advisory : Concerns(c, b) THEN Is("not_affected", 85)
  ELSE Is("candidate", 40)

Evaluate(c, advisory, verified, statement) ==
  IF verified THEN Is("confirmed", 99)
  ELSE IF statement = "not_affected" THEN Is("not_affected", 95)
  ELSE IF statement = "affected" THEN Is("confirmed", 98)
  ELSE ByRange(c, advisory)

-----------------------------------------------------------------------------
(* RiskPolicyEngine.  Priorities P0 to P4 are the numbers 0 to 4.           *)

Criticality(c) ==
  CASE c = "critical" -> 2000 [] c = "high" -> 1500 [] c = "medium" -> 1000 [] OTHER -> 500
Exposed(e) == CASE e = "external" -> 1000 [] e = "unknown" -> 500 [] OTHER -> 200

\* _calculate_score: CVSS in tenths, EPSS and its percentile in percent.
Total(i) ==
  50 * i.cvss + 20 * i.epss + 5 * i.percentile + Criticality(i.criticality)
    + Exposed(i.exposure) + 10 * (i.confidence - 50)
Clamped(i) == IF Total(i) < 0 THEN 0 ELSE IF Total(i) > 10000 THEN 10000 ELSE Total(i)

\* Faulty: the threshold of the second rule is the wrong way round.
EscalatedBelow(i) ==
  /\ i.kev
  /\ \/ /\ i.criticality = "critical" /\ i.exposure = "external"
        /\ i.class \in CaseClasses /\ i.confidence >= 70
     \/ i.class = "confirmed" /\ i.epss < 50

\* The hard escalation rules.
Escalated(i) ==
  /\ i.kev
  /\ \/ /\ i.criticality = "critical" /\ i.exposure = "external"
        /\ i.class \in CaseClasses /\ i.confidence >= 70
     \/ i.class = "confirmed" /\ i.epss > 50

Band(score) ==
  IF score >= 9000 THEN 0 ELSE IF score >= 7000 THEN 1 ELSE IF score >= 4000 THEN 2
  ELSE IF score >= 2000 THEN 3 ELSE 4
CandidateBand(score) == IF score >= 7000 THEN 2 ELSE IF score >= 4000 THEN 3 ELSE 4

Priority(i) ==
  IF Escalated(i) THEN 0
  ELSE IF i.class = "candidate" THEN CandidateBand(Clamped(i))
  ELSE IF i.confidence < 50 /\ Band(Clamped(i)) \in {0, 1} THEN Band(Clamped(i)) + 1
  ELSE Band(Clamped(i))

\* What _priority_for passes on: nothing of the asset and no CVSS.
Input(verdict, listed, score) ==
  [kev |-> listed, epss |-> score.score, percentile |-> score.percentile, cvss |-> 0,
   criticality |-> "medium", exposure |-> "internal", confidence |-> verdict.confidence, class |-> verdict.class]

\* Faulty: what makes no case goes down a band instead.
PriorityForLowered(verdict, listed, score) ==
  LET priority == Priority(Input(verdict, listed, score))
  IN  IF verdict.class \in CaseClasses THEN priority ELSE priority + 1

\* A match that makes a case is never in the last band.
PriorityFor(verdict, listed, score) ==
  LET priority == Priority(Input(verdict, listed, score))
  IN  IF priority = 4 /\ verdict.class \in CaseClasses THEN 3 ELSE priority

-----------------------------------------------------------------------------
(* The handlers.                                                            *)

\* What they were told, kept for the properties.
Seen ==
  [component : Component, verified : BOOLEAN, statement : Statements \cup {None},
   listed : BOOLEAN, score : Score, affected : BOOLEAN, exploited : BOOLEAN]
Exposure == [class : Classes, confidence : 0 .. 100, priority : 0 .. 4, seen : Seen]

\* OSV answers for a package and, where it is given one, a version: with what
\* affects it, and possibly with more.
OfPackage(c) == {r \in published : \E g \in r.affected : c.purl # None /\ g.purl = c.purl}
Answers(c) ==
  {answer \in SUBSET OfPackage(c) :
     \A r \in OfPackage(c) \ answer : c.version # None /\ ~IsAffected(c, r.id, {r})}

\* Look-ups of VEX and EPSS that fail count as no statement and no score.  A
\* verified finding asks for no statement.
LookUps(ids) == {"vex", "epss"} \X ids
StatementOn(id, o, down) == IF o.verified \/ <<"vex", id>> \in down THEN None ELSE vex[id]
ScoreOf(id, down) ==
  IF <<"epss", id>> \in down \/ epss[id] = None THEN [score |-> 0, percentile |-> 0] ELSE epss[id]

Graded(id, o, verdict, down) ==
  [class |-> verdict.class, confidence |-> verdict.confidence,
   priority |-> PriorityFor(verdict, id \in kev, ScoreOf(id, down)),
   seen |-> [component |-> o.component, verified |-> o.verified,
             statement |-> StatementOn(id, o, down), listed |-> id \in kev,
             score |-> ScoreOf(id, down),
             affected |-> IsAffected(o.component, id, published),
             exploited |-> \E r \in published : id \in Names(r) /\ Names(r) \cap kev # {}]]

\* _handle_sbom_processed: an exposure for every advisory OSV answers.
HandleSbom(o) ==
  /\ o.by = "sbom"
  /\ \E answer \in Answers(o.component) : \E down \in SUBSET LookUps({r.id : r \in answer}) :
       LET Judged(r) ==
             Evaluate(o.component, Advisory(r), FALSE, StatementOn(r.id, o, down))
       IN  exposures' = [k \in Keys |->
             IF k[1] = o.context /\ \E r \in answer : r.id = k[2]
             THEN Graded(k[2], o, Judged(CHOOSE r \in answer : r.id = k[2]), down)
             ELSE exposures[k]]
  /\ UNCHANGED <<world, changes>>

Observed(o, verdict, down) ==
  exposures' = [exposures EXCEPT ![<<o.context, o.cve>>] = Graded(o.cve, o, verdict, down)]

\* _handle_defectdojo_ingested: the first advisory of the answer, whatever it
\* is about.
HandleDefectDojo(o) ==
  /\ o.by = "defectdojo"
  /\ \E answer \in Answers(o.component), down \in SUBSET LookUps({o.cve}) :
     \E advisory \in IF answer = {} THEN {{}} ELSE {Advisory(r) : r \in answer} :
       Observed(o, Evaluate(o.component, advisory, o.verified, StatementOn(o.cve, o, down)), down)
  /\ UNCHANGED <<world, changes>>

\* Faulty: any advisory of the package binds.
BindingAny(o, answer) == answer

\* _select_osv_record_for_cve.
Binding(o, answer) == {r \in answer : o.cve \in Names(r)}

\* Without an advisory that names the vulnerability no match makes a case.
Unbound(o, verdict) ==
  IF o.component.purl # None /\ verdict.class \in CaseClasses THEN Is("candidate", 40) ELSE verdict

\* _handle_wazuh_ingested: an advisory that names the reported vulnerability.
HandleWazuh(o) ==
  /\ o.by = "wazuh"
  /\ \E answer \in Answers(o.component), down \in SUBSET LookUps({o.cve}) :
       LET Judged(advisory) ==
             Evaluate(o.component, advisory, FALSE, StatementOn(o.cve, o, down))
       IN  \/ /\ Binding(o, answer) = {}
              /\ Observed(o, Unbound(o, Judged({})), down)
           \/ \E r \in Binding(o, answer) : Observed(o, Judged(Advisory(r)), down)
  /\ UNCHANGED <<world, changes>>

-----------------------------------------------------------------------------
(* The world.                                                               *)

Change == changes < MaxChanges /\ changes' = changes + 1 /\ UNCHANGED exposures

\* A record is published, or takes the place of its earlier revision.
Publish(r) ==
  /\ r \notin published
  /\ published' = {q \in published : q.id # r.id} \cup {r}
  /\ Change /\ UNCHANGED <<vex, kev, epss>>

Withdraw(r) ==
  /\ r \in published
  /\ published' = published \ {r}
  /\ Change /\ UNCHANGED <<vex, kev, epss>>

Assert(id, statement) ==
  /\ statement # vex[id]
  /\ vex' = [vex EXCEPT ![id] = statement]
  /\ Change /\ UNCHANGED <<published, kev, epss>>

\* The catalogue lists a vulnerability, or no longer does.
Catalogue(id) ==
  /\ kev' = IF id \in kev THEN kev \ {id} ELSE kev \cup {id}
  /\ Change /\ UNCHANGED <<published, vex, epss>>

Rescore(id, score) ==
  /\ score # epss[id]
  /\ epss' = [epss EXCEPT ![id] = score]
  /\ Change /\ UNCHANGED <<published, vex, kev>>

-----------------------------------------------------------------------------
Init ==
  /\ published = {}
  /\ vex = [id \in Ids |-> None]
  /\ kev = {}
  /\ epss = [id \in Ids |-> None]
  /\ exposures = [k \in Keys |-> None]
  /\ changes = 0

Next ==
  \/ \E o \in Observations : HandleSbom(o) \/ HandleDefectDojo(o) \/ HandleWazuh(o)
  \/ \E r \in Records : Publish(r) \/ Withdraw(r)
  \/ \E id \in Ids, statement \in Statements \cup {None} : Assert(id, statement)
  \/ \E id \in Ids : Catalogue(id)
  \/ \E id \in Ids, score \in Scores \cup {None} : Rescore(id, score)

Spec == Init /\ [][Next]_vars

-----------------------------------------------------------------------------
(* Properties.                                                              *)

\* Exposures have a known class, a confidence and a priority.
TypeOK ==
  /\ published \subseteq Records
  /\ vex \in [Ids -> Statements \cup {None}]
  /\ kev \subseteq Ids
  /\ epss \in [Ids -> Scores \cup {None}]
  /\ exposures \in [Keys -> Exposure \cup {None}]
  /\ changes \in 0 .. MaxChanges

\* A class is what docs/architecture.md:117-121 says it means: confirmed rests
\* on a verified scan or a statement, deterministic on a version that the
\* advisories of that very vulnerability affect, and not affected on a
\* statement or on a version they do not affect.
VerdictsAreTrue ==
  \A k \in Keys : exposures[k] # None =>
    LET seen == exposures[k].seen
    IN  CASE exposures[k].class = "confirmed" -> seen.verified \/ seen.statement = "affected"
          [] exposures[k].class = "deterministic" -> seen.affected
          [] exposures[k].class = "not_affected" ->
               seen.statement = "not_affected" \/ ~seen.affected
          [] OTHER -> TRUE

Strength(class) ==
  CASE class = "confirmed" -> 3 [] class = "deterministic" -> 2
    [] class = "corroborated" -> 1 [] OTHER -> 0
Rises(e, f) ==
  /\ "not_affected" \notin {e.class, f.class}
  /\ Strength(e.class) <= Strength(f.class) /\ e.confidence <= f.confidence
  /\ e.seen.listed => f.seen.listed
  /\ e.seen.score.score <= f.seen.score.score
  /\ e.seen.score.percentile <= f.seen.score.percentile

\* When an event grades an exposure anew and all it is told is as bad as before
\* or worse, its priority does not fall, however the classes, bands,
\* escalations and caps interact (risk/policy.py, docs/modules.md section 6).
WorseIsNotLower ==
  [][\A k \in Keys :
       exposures[k] # None /\ exposures'[k] # None /\ Rises(exposures[k], exposures'[k])
         => exposures'[k].priority <= exposures[k].priority]_vars

\* An exposure for which a case is due is not cleared by what is found of
\* another package (matching is per package: docs/modules.md section 5).
OthersDoNotClear ==
  [][\A k \in Keys :
       exposures[k] # None /\ exposures[k].class \in CaseClasses
         /\ exposures'[k].class \notin CaseClasses
         => exposures'[k].seen.component = exposures[k].seen.component]_vars

\* A vulnerability that is in the catalogue by any of its names is graded as
\* listed (docs/data-model.md:93, one record with its aliases).
ListingIsSeen ==
  \A k \in Keys : exposures[k] # None => (exposures[k].seen.exploited => exposures[k].seen.listed)
=============================================================================
