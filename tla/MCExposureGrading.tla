--------------------------- MODULE MCExposureGrading ---------------------------
(***************************************************************************)
(* A package in three versions, whose strings are in another order than    *)
(* the versions (1.9, 1.10, 1.11), advisories about it that are revised,   *)
(* and observations of it by an SBOM, by scanners and by agents.           *)
(***************************************************************************)
EXTENDS ExposureGrading

MCVersions == 1 .. 3
MCRank == [v \in MCVersions |-> v]
MCText == [v \in MCVersions |-> IF v = 1 THEN 3 ELSE v - 1]

From(v) == [kind |-> "introduced", at |-> v]
Until(v) == [kind |-> "fixed", at |-> v]
Of(purl, events) == [purl |-> purl, ecosystem |-> "PyPI", events |-> events]

\* An advisory known by its CVE and one by its GHSA id, each in two revisions.
Cve == [id |-> "cve1", aliases |-> {}, affected |-> {Of("p", <<From(Zero), Until(2)>>)}]
CveLater == [Cve EXCEPT !.affected = {Of("p", <<From(Zero), Until(3)>>), Of("q", <<From(1)>>)}]
Ghsa == [id |-> "ghsa2", aliases |-> {"cve2"}, affected |-> {Of("p", <<From(2)>>)}]
GhsaNarrow == [Ghsa EXCEPT !.affected = {Of("p", <<From(2), Until(3)>>), Of(None, <<From(1)>>)}]

\* A package affected in two intervals.
Twice == [id |-> "cve1", aliases |-> {},
          affected |-> {Of("p", <<From(Zero), Until(2), From(3)>>)}]
Part(purl, version) == [purl |-> purl, ecosystem |-> "pypi", version |-> version]
By(handler, context, cve, part) ==
  [by |-> handler, context |-> context, cve |-> cve, verified |-> FALSE, component |-> part]

Sbom == By("sbom", 1, None, Part("p", 2))
Agent == By("wazuh", 2, "cve1", Part("p", 2))
AgentAlias == By("wazuh", 2, "cve2", Part("p", 1))
AgentEarly == By("wazuh", 2, "cve1", Part("p", 1))
AgentOther == By("wazuh", 2, "cve1", Part("other", 3))
Bare == By("wazuh", 3, "cve2", Part(None, 2))
Scan == [By("defectdojo", 4, "cve2", Part("p", 1)) EXCEPT !.verified = TRUE]
Unverified == By("defectdojo", 4, "cve2", Part("p", 1))

OneInterval == {CveLater, Ghsa, GhsaNarrow}
ByName == {Sbom, Agent, AgentAlias, Bare, Scan}
TwoIntervals == {Twice}
Early == {AgentEarly}
ByPackage == {Unverified}
TwoPackages == {Agent, AgentOther}
ByAlias == {Sbom}
MCScores == {[score |-> 20, percentile |-> 80], [score |-> 97, percentile |-> 99]}
=============================================================================
