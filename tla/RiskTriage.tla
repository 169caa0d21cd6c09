----------------------------- MODULE RiskTriage -----------------------------
(***************************************************************************)
(* How a finding is ranked: the score and the priority band of             *)
(* services/finding.py (prioritize), the SSVC decision of services/ssvc.py *)
(* which the attack_path node stores, and the order in which the pipeline  *)
(* writes both to findings.risk_factors and the report reads them.         *)
(*                                                                         *)
(* Scores are in hundredths, CVSS scores in tenths, EPSS in hundredths.    *)
(***************************************************************************)
EXTENDS Integers, FiniteSets

CONSTANTS
    NOTHING,        \* a column that is null
    Severities,     \* bound: the scanner's labels in use, of the five
    Criticalities,  \* bound: the criticalities in use, of the five
    CvssScores,     \* bound: CVSS scores of scanner and NVD, in tenths
    EpssScores,     \* bound: EPSS probabilities, in hundredths
    MaxRuns         \* bound: pipeline passes over the finding

(* f.vector: what the CVSS vector of NVD says of reach and impact *)
Vectors == {"local", "remote", "local_high", "remote_high"}

ASSUME RiskAssumption ==
    /\ NOTHING \notin Vectors
    /\ Severities \subseteq {"info", "low", "medium", "high", "critical"}
    /\ Criticalities \subseteq {"critical", "high", "normal", "low", "unknown"}
    /\ CvssScores \subseteq 0..100
    /\ EpssScores \subseteq 0..100
    /\ MaxRuns \in Nat

VARIABLES
    facts,          \* what the columns of finding, enrichment and asset say
    factors,        \* findings.risk_factors: its keys "ssvc" and "priority"
    node,           \* the next pipeline node: a queue of one finding
    runs

riskVars == <<facts, factors, node, runs>>

Known(x) == x # NOTHING
Bool(x) == x = TRUE
MinOf(a, b) == IF a < b THEN a ELSE b
Points(condition, weight) == IF condition THEN weight ELSE 0

-----------------------------------------------------------------------------
(* _score and _priority_for *)

SeverityRank == [info |-> 0, low |-> 1, medium |-> 2, high |-> 3, critical |-> 4]
SeverityPoints == [critical |-> 3800, high |-> 2900, medium |-> 1700, low |-> 700, info |-> 100]
CriticalityWeight == [critical |-> 100, high |-> 75, normal |-> 50, low |-> 25, unknown |-> 40]

(* the scanner's score, or else NVD's *)
CvssScore(f) == IF Known(f.cvss) THEN f.cvss ELSE f.nvd

SeverityComponent(f) ==
    IF Known(CvssScore(f)) THEN MinOf(4500, CvssScore(f) * 45) ELSE SeverityPoints[f.severity]

Score(f) ==
    IF f.excluded THEN 0
    ELSE SeverityComponent(f)
         + Points(Bool(f.in_kev), 2000)
         + (IF Known(f.epss) THEN 12 * f.epss ELSE 0)
         + Points(f.exposed, 1000)
         + 10 * CriticalityWeight[f.criticality]
         + Points(f.ransomware, 300)

Band(score) ==
    IF score >= 7500 THEN 1 ELSE IF score >= 5500 THEN 2
    ELSE IF score >= 3800 THEN 3 ELSE IF score >= 1800 THEN 4 ELSE 5

PriorityFor(f) ==
    IF f.excluded THEN 5
    ELSE IF Bool(f.in_kev) /\ f.exposed THEN 1
    ELSE IF Bool(f.in_kev) THEN MinOf(2, Band(Score(f)))
    ELSE Band(Score(f))

-----------------------------------------------------------------------------
(* services/ssvc.py *)

ExploitationStatus(f) ==
    IF Bool(f.in_kev) \/ (Known(f.epss) /\ f.epss >= 50) THEN "active"
    ELSE IF Known(f.epss) /\ f.epss >= 10 THEN "poc"
    ELSE IF f.ransomware THEN "active" ELSE "none"

(* f.webcwe: the CWE is one of the seven that scanners exploit *)
Automatable(f) ==
    \/ f.vector \in {"remote", "remote_high"}
    \/ f.webcwe
    \/ Known(f.cvss) /\ f.cvss >= 90
    \/ Known(f.epss) /\ f.epss >= 70

TechnicalImpactTotal(f) ==
    \/ f.vector \in {"remote_high", "local_high"}
    \/ Known(f.cvss) /\ f.cvss >= 70
    \/ f.severity \in {"critical", "high"}

(* of the copy that the finding has of its asset's criticality *)
MissionPrevalence(f) ==
    CASE f.snapshot \in {"critical", "high"} -> "critical"
      [] f.snapshot \in {"normal", "unknown"} -> "support"
      [] f.snapshot = "low" -> "minimal"

(* Mutant of DecisionTree: with a proof of concept only "support" attends *)
DecisionTreeSupportOnly(exploitation, automatable, total, mission) ==
    CASE exploitation = "active" -> IF total \/ mission = "critical" THEN "act" ELSE "attend"
      [] exploitation = "poc" ->
            IF total /\ automatable /\ mission = "support" THEN "attend" ELSE "track*"
      [] exploitation = "none" ->
            IF automatable /\ total /\ mission = "critical" THEN "attend" ELSE "track"

DecisionTree(exploitation, automatable, total, mission) ==
    CASE exploitation = "active" -> IF total \/ mission = "critical" THEN "act" ELSE "attend"
      [] exploitation = "poc" ->
            IF total /\ (mission = "critical" \/ (automatable /\ mission = "support"))
            THEN "attend" ELSE "track*"
      [] exploitation = "none" ->
            IF automatable /\ total /\ mission = "critical" THEN "attend" ELSE "track"

EvaluateSsvc(f) ==
    DecisionTree(ExploitationStatus(f), Automatable(f), TechnicalImpactTotal(f),
                 MissionPrevalence(f))

-----------------------------------------------------------------------------
(* A finding as it was imported, before anybody was asked about it. *)
RiskInit ==
    /\ \E severity \in Severities, cvss \in CvssScores \cup {NOTHING}, webcwe \in BOOLEAN,
          criticality \in Criticalities :
        facts = [severity |-> severity, cvss |-> cvss, webcwe |-> webcwe, excluded |-> FALSE,
                 nvd |-> NOTHING, vector |-> NOTHING, in_kev |-> NOTHING, epss |-> NOTHING,
                 ransomware |-> FALSE, exposed |-> FALSE,
                 criticality |-> criticality, snapshot |-> criticality]
    /\ factors = [ssvc |-> NOTHING, priority |-> NOTHING]
    /\ node = "enrich_intelligence"
    /\ runs = 0

(* enrich_intelligence, see module Enrichment: the ransomware column goes   *)
(* with a listing and stays through an outage.                              *)
EnrichFacts ==
    /\ node = "enrich_intelligence"
    /\ \E nvd \in CvssScores \cup {NOTHING}, vector \in Vectors, epss \in EpssScores \cup {NOTHING},
          in_kev \in BOOLEAN \cup {NOTHING}, ransomware \in BOOLEAN :
        facts' = [facts EXCEPT
            !.nvd = nvd, !.vector = IF Known(nvd) THEN vector ELSE NOTHING, !.epss = epss,
            !.in_kev = in_kev,
            !.ransomware = IF Known(in_kev) THEN in_kev /\ ransomware ELSE @]
    /\ node' = "attack_path"
    /\ UNCHANGED <<factors, runs>>

(* attack_path: merged into what risk_factors holds.  Duplicates and closed *)
(* findings are left out, and a failure is logged.                          *)
AttackPath(triaged) ==
    /\ node = "attack_path"
    /\ factors' = IF triaged THEN [factors EXCEPT !.ssvc = EvaluateSsvc(facts)] ELSE factors
    /\ node' = "prioritize_findings"
    /\ UNCHANGED <<facts, runs>>

(* prioritize: a new dictionary in the place of the old one *)
Prioritize ==
    /\ node = "prioritize_findings"
    /\ factors' = [ssvc |-> NOTHING, priority |-> PriorityFor(facts)]
    /\ facts' = [facts EXCEPT !.snapshot = facts.criticality]
    /\ node' = "generate_report"
    /\ UNCHANGED runs

(* Operators classify the asset at any time; imports mark duplicates and    *)
(* false positives, and another assessment begins.                          *)
EditAsset(exposed, criticality) ==
    /\ facts' = [facts EXCEPT !.exposed = exposed, !.criticality = criticality]
    /\ UNCHANGED <<factors, node, runs>>

NextImport(excluded) ==
    /\ node = "generate_report" /\ runs < MaxRuns
    /\ facts' = [facts EXCEPT !.excluded = excluded, !.snapshot = facts.criticality]
    /\ node' = "enrich_intelligence"
    /\ runs' = runs + 1
    /\ UNCHANGED factors

RiskNext ==
    \/ EnrichFacts
    \/ Prioritize
    \/ \E triaged \in BOOLEAN : AttackPath(triaged)
    \/ \E exposed \in BOOLEAN, criticality \in Criticalities : EditAsset(exposed, criticality)
    \/ \E excluded \in BOOLEAN : NextImport(excluded)

RiskSpec == RiskInit /\ [][RiskNext]_riskVars

-----------------------------------------------------------------------------
Facts ==
    [severity : Severities, cvss : CvssScores \cup {NOTHING}, webcwe : BOOLEAN, excluded : BOOLEAN,
     nvd : CvssScores \cup {NOTHING}, vector : Vectors \cup {NOTHING},
     in_kev : BOOLEAN \cup {NOTHING}, epss : EpssScores \cup {NOTHING},
     ransomware : BOOLEAN, exposed : BOOLEAN, criticality : Criticalities, snapshot : Criticalities]

RiskTypeOK ==
    /\ facts \in Facts
    /\ factors \in [ssvc : {"track", "track*", "attend", "act", NOTHING},
                    priority : 1..5 \cup {NOTHING}]
    /\ node \in {"enrich_intelligence", "attack_path", "prioritize_findings", "generate_report"}
    /\ runs \in 0..MaxRuns

Urgency(outcome) ==
    CASE outcome = "track" -> 0
      [] outcome = "track*" -> 1
      [] outcome = "attend" -> 2
      [] outcome = "act" -> 3

AtMost(x, y) == IF Known(x) /\ Known(y) THEN x <= y ELSE x = y

(* g is at least as bad as f in everything that is known of both *)
Worse(f, g) ==
    /\ SeverityRank[f.severity] <= SeverityRank[g.severity]
    /\ AtMost(f.cvss, g.cvss) /\ AtMost(f.nvd, g.nvd) /\ AtMost(f.epss, g.epss)
    /\ f.vector = g.vector \/ f.vector \in {"local", NOTHING} \/ g.vector = "remote_high"
    /\ Bool(f.in_kev) => Bool(g.in_kev)
    /\ f.ransomware => g.ransomware
    /\ f.webcwe => g.webcwe
    /\ f.exposed => g.exposed
    /\ CriticalityWeight[f.criticality] <= CriticalityWeight[g.criticality]
    /\ CriticalityWeight[f.snapshot] <= CriticalityWeight[g.snapshot]
    /\ f.excluded = g.excluded

(* the ransomware flag of a listing CISA could not confirm since *)
StaleRansomware(f) == f.ransomware /\ ~Bool(f.in_kev)

(* What gets worse in every respect never ranks lower, across the label     *)
(* fallback, the caps and the rules _priority_for states outright ("never   *)
(* bury this"), and its SSVC outcome is never calmer -- unless a ransomware *)
(* flag outlived its listing, which counts for less once EPSS is moderate.  *)
NothingWorseRanksLower ==
    [][Worse(facts, facts') =>
         /\ PriorityFor(facts') <= PriorityFor(facts)
         /\ \/ StaleRansomware(facts)
            \/ Urgency(EvaluateSsvc(facts)) <= Urgency(EvaluateSsvc(facts'))]_riskVars
=============================================================================
