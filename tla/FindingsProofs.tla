---------------------------- MODULE FindingsProofs --------------------------
(***************************************************************************)
(* What the tables say of the findings, for any scanners, weaknesses,      *)
(* faults and callers: the import, the analysis, the intelligence columns, *)
(* the ranking and the ledger of GitHub's alerts.                          *)
(***************************************************************************)
EXTENDS FindingAnalysis, Enrichment, RiskTriage, AlertLedger, FiniteSetTheorems, TLAPS

-----------------------------------------------------------------------------
(* The ranking.  Every part of the score, and every input of the SSVC tree, *)
(* goes one way when a finding gets worse.                                  *)

Exploitations == {"none", "poc", "active"}
Missions == {"minimal", "support", "critical"}

\* The inputs of the SSVC tree from calm to urgent.
Pressure == [none |-> 0, poc |-> 1, active |-> 2]
Weight == [minimal |-> 0, support |-> 1, critical |-> 2]

LEMMA FactsTyped ==
    ASSUME NEW f \in Facts
    PROVE  /\ f.severity \in {"info", "low", "medium", "high", "critical"}
           /\ f.criticality \in {"critical", "high", "normal", "low", "unknown"}
           /\ f.snapshot \in {"critical", "high", "normal", "low", "unknown"}
           /\ f.cvss # NOTHING => f.cvss \in 0..100
           /\ f.nvd # NOTHING => f.nvd \in 0..100
           /\ f.epss # NOTHING => f.epss \in 0..100
           /\ f.vector \in Vectors \cup {NOTHING}
           /\ f.excluded \in BOOLEAN /\ f.ransomware \in BOOLEAN
           /\ f.exposed \in BOOLEAN /\ f.webcwe \in BOOLEAN
BY RiskAssumption DEF Facts

LEMMA SeverityGrows ==
    ASSUME NEW f \in Facts, NEW g \in Facts, Worse(f, g)
    PROVE  /\ SeverityComponent(f) \in Nat /\ SeverityComponent(g) \in Nat
           /\ SeverityComponent(f) <= SeverityComponent(g)
<1>1. /\ f.cvss # NOTHING => f.cvss \in 0..100
      /\ g.cvss # NOTHING => g.cvss \in 0..100
      /\ f.nvd # NOTHING => f.nvd \in 0..100
      /\ g.nvd # NOTHING => g.nvd \in 0..100
  BY FactsTyped
<1>2. AtMost(f.cvss, g.cvss) /\ AtMost(f.nvd, g.nvd)
  BY DEF Worse
<1>3. CASE CvssScore(f) # NOTHING
  <2>1. CvssScore(f) \in 0..100 /\ CvssScore(g) \in 0..100 /\ CvssScore(f) <= CvssScore(g)
    BY <1>1, <1>2, <1>3 DEF CvssScore, AtMost, Known
  <2>2. CvssScore(g) # NOTHING
    BY <1>1, <1>2, <1>3 DEF CvssScore, AtMost, Known
  <2>3. /\ SeverityComponent(f) = MinOf(4500, CvssScore(f) * 45)
        /\ SeverityComponent(g) = MinOf(4500, CvssScore(g) * 45)
    BY <1>3, <2>2 DEF SeverityComponent, Known
  <2> QED
    BY <2>1, <2>3, SMTT(40) DEF MinOf
<1>4. CASE CvssScore(f) = NOTHING
  <2>1. CvssScore(g) = NOTHING
    BY <1>2, <1>4 DEF CvssScore, AtMost, Known
  <2>2. /\ SeverityComponent(f) = SeverityPoints[f.severity]
        /\ SeverityComponent(g) = SeverityPoints[g.severity]
    BY <1>4, <2>1 DEF SeverityComponent, Known
  <2>3. SeverityRank[f.severity] <= SeverityRank[g.severity]
    BY DEF Worse
  <2>4. /\ f.severity \in {"info", "low", "medium", "high", "critical"}
        /\ g.severity \in {"info", "low", "medium", "high", "critical"}
    BY FactsTyped
  <2> QED
    BY <2>2, <2>3, <2>4 DEF SeverityRank, SeverityPoints
<1> QED
  BY <1>3, <1>4

LEMMA ScoreGrows ==
    ASSUME NEW f \in Facts, NEW g \in Facts, Worse(f, g)
    PROVE  Score(f) \in Int /\ Score(g) \in Int /\ Score(f) <= Score(g)
<1> DEFINE epss(h) == IF Known(h.epss) THEN 12 * h.epss ELSE 0
           kev(h) == Points(Bool(h.in_kev), 2000)
           reach(h) == Points(h.exposed, 1000)
           asset(h) == 10 * CriticalityWeight[h.criticality]
           ransom(h) == Points(h.ransomware, 300)
<1>1. /\ SeverityComponent(f) \in Nat /\ SeverityComponent(g) \in Nat
      /\ SeverityComponent(f) <= SeverityComponent(g)
  BY SeverityGrows
<1>2. epss(f) \in Nat /\ epss(g) \in Nat /\ epss(f) <= epss(g)
  <2>1. /\ f.epss # NOTHING => f.epss \in 0..100
        /\ g.epss # NOTHING => g.epss \in 0..100
    BY FactsTyped
  <2>2. AtMost(f.epss, g.epss)
    BY DEF Worse
  <2> QED
    BY <2>1, <2>2, SMTT(40) DEF AtMost, Known
<1>3. kev(f) \in Nat /\ kev(g) \in Nat /\ kev(f) <= kev(g)
  BY DEF Worse, Points, Bool
<1>4. reach(f) \in Nat /\ reach(g) \in Nat /\ reach(f) <= reach(g)
  BY FactsTyped DEF Worse, Points
<1>5. asset(f) \in Nat /\ asset(g) \in Nat /\ asset(f) <= asset(g)
  <2>1. CriticalityWeight[f.criticality] <= CriticalityWeight[g.criticality]
    BY DEF Worse
  <2>2. CriticalityWeight[f.criticality] \in Nat /\ CriticalityWeight[g.criticality] \in Nat
    BY FactsTyped DEF CriticalityWeight
  <2> QED
    BY <2>1, <2>2
<1>6. ransom(f) \in Nat /\ ransom(g) \in Nat /\ ransom(f) <= ransom(g)
  BY FactsTyped DEF Worse, Points
<1>7. f.excluded = g.excluded /\ f.excluded \in BOOLEAN
  BY FactsTyped DEF Worse
<1>8. CASE f.excluded
  BY <1>7, <1>8 DEF Score
<1>9. CASE ~f.excluded
  <2>1. /\ Score(f) = SeverityComponent(f) + kev(f) + epss(f) + reach(f) + asset(f) + ransom(f)
        /\ Score(g) = SeverityComponent(g) + kev(g) + epss(g) + reach(g) + asset(g) + ransom(g)
    BY <1>7, <1>9 DEF Score
  <2> HIDE DEF epss, kev, reach, asset, ransom
  <2> QED
    BY <1>1, <1>2, <1>3, <1>4, <1>5, <1>6, <2>1
<1> QED
  BY <1>7, <1>8, <1>9

LEMMA BandFalls ==
    ASSUME NEW m \in Int, NEW n \in Int, m <= n
    PROVE  Band(m) \in 1..5 /\ Band(n) \in 1..5 /\ Band(n) <= Band(m)
BY DEF Band

LEMMA PriorityRises ==
    ASSUME NEW f \in Facts, NEW g \in Facts, Worse(f, g)
    PROVE  PriorityFor(g) <= PriorityFor(f)
<1>1. /\ Band(Score(f)) \in 1..5 /\ Band(Score(g)) \in 1..5
      /\ Band(Score(g)) <= Band(Score(f))
  BY ScoreGrows, BandFalls
<1>2. /\ f.excluded = g.excluded
      /\ Bool(f.in_kev) => Bool(g.in_kev)
      /\ f.exposed => g.exposed
  BY DEF Worse
<1> QED
  BY <1>1, <1>2 DEF PriorityFor, MinOf

LEMMA UrgencyOfTree ==
    ASSUME NEW e1 \in Exploitations, NEW e2 \in Exploitations, Pressure[e1] <= Pressure[e2],
           NEW a1 \in BOOLEAN, NEW a2 \in BOOLEAN, a1 => a2,
           NEW t1 \in BOOLEAN, NEW t2 \in BOOLEAN, t1 => t2,
           NEW m1 \in Missions, NEW m2 \in Missions, Weight[m1] <= Weight[m2]
    PROVE  Urgency(DecisionTree(e1, a1, t1, m1)) <= Urgency(DecisionTree(e2, a2, t2, m2))
<1>1. /\ Urgency("track") = 0 /\ Urgency("track*") = 1
      /\ Urgency("attend") = 2 /\ Urgency("act") = 3
  BY DEF Urgency
<1>2. m1 = "critical" => m2 = "critical"
  BY DEF Missions, Weight
<1>3. m1 = "support" => m2 \in {"support", "critical"}
  BY DEF Missions, Weight
<1>4. CASE e1 = "active"
  <2>1. e2 = "active"
    BY <1>4 DEF Exploitations, Pressure
  <2> QED
    BY <1>1, <1>2, <1>4, <2>1 DEF DecisionTree
<1>5. CASE e1 = "poc"
  <2>1. CASE e2 = "poc"
    BY <1>1, <1>2, <1>3, <1>5, <2>1 DEF DecisionTree
  <2>2. CASE e2 = "active"
    BY <1>1, <1>5, <2>2 DEF DecisionTree
  <2> QED
    BY <1>5, <2>1, <2>2 DEF Exploitations, Pressure
<1>6. CASE e1 = "none"
  <2>1. CASE e2 = "none"
    BY <1>1, <1>2, <1>6, <2>1 DEF DecisionTree
  <2>2. CASE e2 = "poc"
    BY <1>1, <1>2, <1>6, <2>2 DEF DecisionTree
  <2>3. CASE e2 = "active"
    BY <1>1, <1>2, <1>6, <2>3 DEF DecisionTree
  <2> QED
    BY <2>1, <2>2, <2>3 DEF Exploitations
<1> QED
  BY <1>4, <1>5, <1>6 DEF Exploitations

LEMMA OutcomeRises ==
    ASSUME NEW f \in Facts, NEW g \in Facts, Worse(f, g), ~StaleRansomware(f)
    PROVE  Urgency(EvaluateSsvc(f)) <= Urgency(EvaluateSsvc(g))
<1>1. /\ f.epss # NOTHING => f.epss \in 0..100
      /\ g.epss # NOTHING => g.epss \in 0..100
      /\ f.cvss # NOTHING => f.cvss \in 0..100
      /\ g.cvss # NOTHING => g.cvss \in 0..100
      /\ f.ransomware \in BOOLEAN /\ f.webcwe \in BOOLEAN
      /\ g.ransomware \in BOOLEAN /\ g.webcwe \in BOOLEAN
  BY FactsTyped
<1>2. /\ AtMost(f.epss, g.epss) /\ AtMost(f.cvss, g.cvss)
      /\ Bool(f.in_kev) => Bool(g.in_kev)
      /\ f.webcwe => g.webcwe
      /\ f.vector = g.vector \/ f.vector \in {"local", NOTHING} \/ g.vector = "remote_high"
      /\ SeverityRank[f.severity] <= SeverityRank[g.severity]
      /\ CriticalityWeight[f.snapshot] <= CriticalityWeight[g.snapshot]
  BY DEF Worse
<1>3. /\ ExploitationStatus(f) \in Exploitations /\ ExploitationStatus(g) \in Exploitations
      /\ Pressure[ExploitationStatus(f)] <= Pressure[ExploitationStatus(g)]
  <2>1. f.ransomware => Bool(f.in_kev)
    BY DEF StaleRansomware
  <2> QED
    BY <1>1, <1>2, <2>1, SMTT(40) DEF ExploitationStatus, Exploitations, Pressure, AtMost, Known
<1>4. NOTHING \notin Vectors
  BY RiskAssumption
<1>5. Automatable(f) => Automatable(g)
  BY <1>1, <1>2, <1>4, SMTT(40) DEF Automatable, AtMost, Known, Vectors
<1>6. TechnicalImpactTotal(f) => TechnicalImpactTotal(g)
  <2>1. f.severity \in {"critical", "high"} => g.severity \in {"critical", "high"}
    BY <1>2, FactsTyped DEF SeverityRank
  <2> QED
    BY <1>1, <1>2, <1>4, <2>1 DEF TechnicalImpactTotal, AtMost, Known, Vectors
<1>7. /\ MissionPrevalence(f) \in Missions /\ MissionPrevalence(g) \in Missions
      /\ Weight[MissionPrevalence(f)] <= Weight[MissionPrevalence(g)]
  <2>1. /\ f.snapshot \in {"critical", "high", "normal", "low", "unknown"}
        /\ g.snapshot \in {"critical", "high", "normal", "low", "unknown"}
    BY FactsTyped
  <2> QED
    BY <1>2, <2>1 DEF MissionPrevalence, Missions, Weight, CriticalityWeight
<1>8. /\ Automatable(f) \in BOOLEAN /\ Automatable(g) \in BOOLEAN
      /\ TechnicalImpactTotal(f) \in BOOLEAN /\ TechnicalImpactTotal(g) \in BOOLEAN
  BY <1>1 DEF Automatable, TechnicalImpactTotal
<1> QED
  BY <1>3, <1>5, <1>6, <1>7, <1>8, UrgencyOfTree DEF EvaluateSsvc

LEMMA RiskStarts == RiskInit => RiskTypeOK
<1> SUFFICES ASSUME RiskInit PROVE RiskTypeOK
  OBVIOUS
<1>1. facts \in Facts
  BY DEF RiskInit, Facts
<1>2. factors \in [ssvc : {"track", "track*", "attend", "act", NOTHING},
                   priority : 1..5 \cup {NOTHING}]
  BY DEF RiskInit
<1> QED
  BY <1>1, <1>2, RiskAssumption DEF RiskInit, RiskTypeOK

LEMMA Ranked ==
    ASSUME NEW f \in Facts
    PROVE  /\ EvaluateSsvc(f) \in {"track", "track*", "attend", "act"}
           /\ PriorityFor(f) \in 1..5
<1>1. ExploitationStatus(f) \in Exploitations
  BY DEF ExploitationStatus, Exploitations
<1>2. EvaluateSsvc(f) \in {"track", "track*", "attend", "act"}
  BY <1>1 DEF EvaluateSsvc, DecisionTree, Exploitations
<1>3. SeverityRank[f.severity] <= SeverityRank[f.severity]
  BY FactsTyped DEF SeverityRank
<1>4. CriticalityWeight[f.criticality] \in Nat /\ CriticalityWeight[f.snapshot] \in Nat
  BY FactsTyped DEF CriticalityWeight
<1>5. AtMost(f.cvss, f.cvss) /\ AtMost(f.nvd, f.nvd) /\ AtMost(f.epss, f.epss)
  BY FactsTyped DEF AtMost, Known
<1>6. Worse(f, f)
  BY <1>3, <1>4, <1>5 DEF Worse
<1>7. Band(Score(f)) \in 1..5
  BY <1>6, ScoreGrows, BandFalls
<1> QED
  BY <1>2, <1>7 DEF PriorityFor, MinOf

LEMMA RiskKept == RiskTypeOK /\ [RiskNext]_riskVars => RiskTypeOK'
<1> SUFFICES ASSUME RiskTypeOK, [RiskNext]_riskVars PROVE RiskTypeOK'
  OBVIOUS
<1> USE RiskAssumption
<1>1. facts \in Facts
  BY DEF RiskTypeOK
<1>2. CASE EnrichFacts
  <2>1. PICK nvd \in CvssScores \cup {NOTHING}, vector \in Vectors, epss \in EpssScores \cup {NOTHING},
             in_kev \in BOOLEAN \cup {NOTHING}, ransomware \in BOOLEAN :
           facts' = [facts EXCEPT
               !.nvd = nvd, !.vector = IF Known(nvd) THEN vector ELSE NOTHING, !.epss = epss,
               !.in_kev = in_kev,
               !.ransomware = IF Known(in_kev) THEN in_kev /\ ransomware ELSE @]
    BY <1>2 DEF EnrichFacts
  <2> DEFINE ransom == IF Known(in_kev) THEN in_kev /\ ransomware ELSE facts.ransomware
             reach == IF Known(nvd) THEN vector ELSE NOTHING
  <2>2. ransom \in BOOLEAN
    BY <1>1, FactsTyped DEF Known
  <2>3. reach \in Vectors \cup {NOTHING}
    OBVIOUS
  <2>4. facts' = [facts EXCEPT !.nvd = nvd, !.vector = reach, !.epss = epss,
                               !.in_kev = in_kev, !.ransomware = ransom]
    BY <2>1
  <2> DEFINE scored == [facts EXCEPT !.nvd = nvd, !.vector = reach, !.epss = epss]
  <2> HIDE DEF ransom, reach
  <2>5. scored \in Facts
    BY <1>1, <2>3, ZenonT(60) DEF Facts
  <2>6. facts' = [scored EXCEPT !.in_kev = in_kev, !.ransomware = ransom]
    BY <2>4
  <2> HIDE DEF scored
  <2>7. facts' \in Facts
    BY <2>2, <2>5, <2>6, ZenonT(60) DEF Facts
  <2> QED
    BY <1>2, <2>7 DEF RiskTypeOK, EnrichFacts
<1>3. CASE Prioritize
  <2>1. PriorityFor(facts) \in 1..5
    BY <1>1, Ranked
  <2>2. facts' \in Facts
    BY <1>1, <1>3 DEF Prioritize, Facts
  <2> QED
    BY <1>3, <2>1, <2>2 DEF RiskTypeOK, Prioritize
<1>4. ASSUME NEW triaged \in BOOLEAN, AttackPath(triaged) PROVE RiskTypeOK'
  <2>1. EvaluateSsvc(facts) \in {"track", "track*", "attend", "act"}
    BY <1>1, Ranked
  <2>2. factors' \in [ssvc : {"track", "track*", "attend", "act", NOTHING},
                      priority : 1..5 \cup {NOTHING}]
    BY <1>4, <2>1 DEF RiskTypeOK, AttackPath
  <2> QED
    BY <1>4, <2>2 DEF RiskTypeOK, AttackPath
<1>5. ASSUME NEW exposed \in BOOLEAN, NEW criticality \in Criticalities,
             EditAsset(exposed, criticality)
      PROVE  RiskTypeOK'
  <2>1. facts' \in Facts
    BY <1>1, <1>5, ZenonT(60) DEF EditAsset, Facts
  <2> QED
    BY <1>5, <2>1 DEF RiskTypeOK, EditAsset
<1>6. ASSUME NEW excluded \in BOOLEAN, NextImport(excluded) PROVE RiskTypeOK'
  <2>1. facts' \in Facts
    BY <1>1, <1>6, ZenonT(60) DEF NextImport, Facts
  <2> QED
    BY <1>6, <2>1 DEF RiskTypeOK, NextImport
<1>7. CASE UNCHANGED riskVars
  BY <1>7 DEF riskVars, RiskTypeOK
<1> QED
  BY <1>2, <1>3, <1>4, <1>5, <1>6, <1>7 DEF RiskNext

(* The columns of the ranking keep their types: there is always a band from *)
(* one to five and an outcome of the tree, or nothing yet.                  *)
THEOREM RiskTypesHold == RiskSpec => []RiskTypeOK
BY RiskStarts, RiskKept, PTL DEF RiskSpec

(* For any scores, labels and criticalities: what gets worse in every       *)
(* respect never gets a lower priority, and never a calmer SSVC outcome     *)
(* unless a ransomware flag outlived its listing.                           *)
THEOREM NothingWorseRanksLowerHolds == RiskSpec => NothingWorseRanksLower
<1> DEFINE Step == Worse(facts, facts') =>
                     /\ PriorityFor(facts') <= PriorityFor(facts)
                     /\ \/ StaleRansomware(facts)
                        \/ Urgency(EvaluateSsvc(facts)) <= Urgency(EvaluateSsvc(facts'))
<1>1. RiskTypeOK /\ RiskTypeOK' => [Step]_riskVars
  <2> SUFFICES ASSUME RiskTypeOK, RiskTypeOK', Worse(facts, facts')
               PROVE  /\ PriorityFor(facts') <= PriorityFor(facts)
                      /\ \/ StaleRansomware(facts)
                         \/ Urgency(EvaluateSsvc(facts)) <= Urgency(EvaluateSsvc(facts'))
    OBVIOUS
  <2>1. facts \in Facts /\ facts' \in Facts
    BY DEF RiskTypeOK
  <2>2. PriorityFor(facts') <= PriorityFor(facts)
    BY <2>1, PriorityRises
  <2>3. ~StaleRansomware(facts) => Urgency(EvaluateSsvc(facts)) <= Urgency(EvaluateSsvc(facts'))
    BY <2>1, OutcomeRises
  <2> QED
    BY <2>2, <2>3
<1> QED
  BY <1>1, RiskTypesHold, PTL DEF NothingWorseRanksLower

-----------------------------------------------------------------------------
(* The intelligence columns.  Whatever a row says of the catalogue is what  *)
(* was heard last, in the session of a pass as in the table.                *)

\* SilenceIsNoAnswer, of a row.
Tells(r) ==
    /\ r.in_kev # UNKNOWN => r.in_kev = (r.heard # {})
    /\ \A p \in Providers : r.status[p] = "pending" => r.heard = NOROW

TableTells(table) == \A f \in Findings : table[f] # NOROW => Tells(table[f])

\* A coroutine past _row_for has a row in the session.
HasRow == \A f \in Findings : item[f] \in {"flushing", "fetching"} => session[f] # NOROW

EnrichmentIInv ==
    EnrichmentTypeOK /\ TableTells(enrichments) /\ TableTells(session) /\ HasRow

LEMMA EnrichmentStarts == EnrichmentInit => EnrichmentIInv
<1> SUFFICES ASSUME EnrichmentInit PROVE EnrichmentIInv
  OBVIOUS
<1>1. EnrichmentTypeOK
  BY EnrichmentAssumption DEF EnrichmentInit, EnrichmentTypeOK, Resting
<1>2. \A f \in Findings : enrichments[f] = NOROW /\ session[f] = NOROW
  BY DEF EnrichmentInit
<1> QED
  BY <1>1, <1>2 DEF EnrichmentIInv, TableTells, HasRow, EnrichmentInit, Resting

LEMMA EnrichmentShows == EnrichmentIInv => EnrichmentInv
<1> SUFFICES ASSUME EnrichmentIInv, NEW f \in Findings, enrichments[f] # NOROW
             PROVE  /\ \A said \in {enrichments[f].in_kev, KevBlock(f)} :
                          said # UNKNOWN => said = (enrichments[f].heard # {})
                    /\ \A p \in Providers : Unasked(f, p) => enrichments[f].heard = NOROW
  BY DEF EnrichmentIInv, EnrichmentInv, SilenceIsNoAnswer
<1>1. Tells(enrichments[f])
  BY DEF EnrichmentIInv, TableTells
<1>2. KevBlock(f) \in {enrichments[f].in_kev, UNKNOWN}
  BY DEF KevBlock
<1>3. \A said \in {enrichments[f].in_kev, KevBlock(f)} :
         said # UNKNOWN => said = enrichments[f].in_kev
  BY <1>2
<1>4. \A p \in Providers : Unasked(f, p) => enrichments[f].heard = NOROW
  BY <1>1 DEF Tells, Unasked
<1> QED
  BY <1>1, <1>3, <1>4 DEF Tells

\* Every row that is written tells the truth of what was heard.
LEMMA PendingTells == Pending \in EnrichmentRows /\ Tells(Pending)
<1>1. Pending \in EnrichmentRows
  BY DEF Pending, EnrichmentRows, ColumnStatuses
<1> QED
  BY <1>1 DEF Pending, Tells

LEMMA NotApplicableTells ==
    ASSUME NEW r \in EnrichmentRows
    PROVE  MarkNotApplicable(r) \in EnrichmentRows /\ Tells(MarkNotApplicable(r))
<1>1. MarkNotApplicable(r) \in EnrichmentRows
  BY DEF MarkNotApplicable, EnrichmentRows, ColumnStatuses
<1>2. /\ MarkNotApplicable(r).in_kev = UNKNOWN
      /\ \A p \in Providers : MarkNotApplicable(r).status[p] = "not_applicable"
  BY DEF MarkNotApplicable, EnrichmentRows
<1> QED
  BY <1>1, <1>2 DEF Tells

Applied(r, answers, listed, ransomware) ==
    [ApplyKev(r, answers, listed, ransomware) EXCEPT
        !.status = [p \in Providers |-> ColumnAfter(p, answers)],
        !.heard = IF "cisa_kev" \in answers THEN listed ELSE UNKNOWN]

LEMMA AppliedTells ==
    ASSUME NEW r \in EnrichmentRows, NEW answers \in SUBSET Configured,
           NEW listed \in SUBSET CVEs, NEW ransomware \in BOOLEAN
    PROVE  /\ Applied(r, answers, listed, ransomware) \in EnrichmentRows
           /\ Tells(Applied(r, answers, listed, ransomware))
<1> DEFINE column == [p \in Providers |-> ColumnAfter(p, answers)]
           found == listed # {}
           ransom == found /\ ransomware
           kev == ApplyKev(r, answers, listed, ransomware)
           new == Applied(r, answers, listed, ransomware)
<1>1. column \in [Providers -> {"complete", "unavailable", "not_applicable"}]
  BY DEF ColumnAfter
<1>0. column \in [Providers -> ColumnStatuses]
  BY <1>1 DEF ColumnStatuses
<1>2. found \in BOOLEAN /\ ransom \in BOOLEAN
  OBVIOUS
<1>3. CASE "cisa_kev" \in answers
  <2>1. new = [r EXCEPT !.in_kev = found, !.ransomware = ransom, !.status = column,
                        !.heard = listed]
    BY <1>3 DEF Applied, ApplyKev, EnrichmentRows
  <2> HIDE DEF column, found, ransom, new
  <2>2. /\ new \in EnrichmentRows /\ new.in_kev = found /\ new.heard = listed
        /\ new.status = column
    BY <1>0, <1>2, <2>1 DEF EnrichmentRows
  <2>3. \A p \in Providers : new.status[p] # "pending"
    BY <1>1, <2>2
  <2> QED
    BY <2>2, <2>3 DEF Tells, found, new
<1>4. CASE "cisa_kev" \notin answers
  <2>1. new = [r EXCEPT !.in_kev = UNKNOWN, !.status = column, !.heard = UNKNOWN]
    BY <1>4 DEF Applied, ApplyKev, EnrichmentRows
  <2> HIDE DEF column, found, ransom, new
  <2>2. new \in EnrichmentRows /\ new.in_kev = UNKNOWN /\ new.status = column
    BY <1>0, <2>1 DEF EnrichmentRows
  <2>3. \A p \in Providers : new.status[p] # "pending"
    BY <1>1, <2>2
  <2> QED
    BY <2>2, <2>3 DEF Tells, new
<1> QED
  BY <1>3, <1>4

\* A step that writes one row of the session.
LEMMA SessionRow ==
    ASSUME EnrichmentIInv, NEW f \in Findings, NEW r \in EnrichmentRows, Tells(r),
           session' = [session EXCEPT ![f] = r]
    PROVE  /\ session' \in [Findings -> EnrichmentRows \cup {NOROW}] /\ TableTells(session')
           /\ \A g \in Findings : session[g] # NOROW \/ g = f => session'[g] # NOROW
<1>1. session \in [Findings -> EnrichmentRows \cup {NOROW}]
  BY DEF EnrichmentIInv, EnrichmentTypeOK
<1>2. session' \in [Findings -> EnrichmentRows \cup {NOROW}]
  BY <1>1
<1>3. \A g \in Findings : session'[g] = IF g = f THEN r ELSE session[g]
  BY <1>1
<1>4. TableTells(session')
  BY <1>3 DEF EnrichmentIInv, TableTells
<1> QED
  BY <1>2, <1>3, <1>4, EnrichmentAssumption

LEMMA EnrichmentKept == EnrichmentIInv /\ [EnrichmentNext]_enrichmentVars => EnrichmentIInv'
<1> SUFFICES ASSUME EnrichmentIInv, [EnrichmentNext]_enrichmentVars PROVE EnrichmentIInv'
  OBVIOUS
<1> DEFINE Tables == [Findings -> EnrichmentRows \cup {NOROW}]
           Items == [Findings -> {"idle", "waiting", "flushing", "fetching", "enriched", "failed"}]
<1>1. /\ cves \in [Findings -> CveLists] /\ catalogue \subseteq CVEs
      /\ enrichments \in Tables /\ session \in Tables /\ item \in Items
      /\ pass \in 0..MaxPasses /\ noted \subseteq Configured
      /\ TableTells(enrichments) /\ TableTells(session) /\ HasRow
  BY DEF EnrichmentIInv, EnrichmentTypeOK
<1>2. /\ cves' \in [Findings -> CveLists] /\ catalogue' \subseteq CVEs
      /\ pass' \in 0..MaxPasses /\ noted' \subseteq Configured
      /\ enrichments' \in Tables /\ session' \in Tables /\ item' \in Items
      /\ TableTells(enrichments') /\ TableTells(session') /\ HasRow'
      => EnrichmentIInv'
  BY DEF EnrichmentIInv, EnrichmentTypeOK, TableTells, Tells
<1>3. Resting \in Items
  BY DEF Resting
<1>4. CASE BeginPass
  <2>1. pass' \in 0..MaxPasses
    BY <1>1, <1>4, EnrichmentAssumption DEF BeginPass
  <2>2. item' \in Items /\ HasRow'
    BY <1>4 DEF BeginPass, HasRow
  <2> QED
    BY <1>1, <1>2, <1>4, <2>1, <2>2 DEF BeginPass
<1>5. CASE LosePass
  <2>1. HasRow'
    BY <1>5 DEF LosePass, HasRow, Resting
  <2> QED
    BY <1>1, <1>2, <1>3, <1>5, <2>1 DEF LosePass
<1>6. ASSUME NEW recorded \in SUBSET Configured, CommitPass(recorded) PROVE EnrichmentIInv'
  <2>1. HasRow'
    BY <1>6 DEF CommitPass, HasRow, Resting
  <2> QED
    BY <1>1, <1>2, <1>3, <1>6, <2>1 DEF CommitPass
<1>7. ASSUME NEW cve \in CVEs, Publish(cve) PROVE EnrichmentIInv'
  <2>1. HasRow'
    BY <1>1, <1>7 DEF Publish, HasRow
  <2> QED
    BY <1>1, <1>2, <1>7, <2>1 DEF Publish
<1>8. ASSUME NEW f \in Findings, RowFor(f) PROVE EnrichmentIInv'
  <2>1. item' \in Items
    BY <1>1, <1>8 DEF RowFor
  <2>2. /\ session' \in Tables /\ TableTells(session')
        /\ \A g \in Findings : session[g] # NOROW \/ g = f => session'[g] # NOROW
    <3>1. CASE session[f] = NOROW
      <4>1. session' = [session EXCEPT ![f] = Pending]
        BY <1>8, <3>1 DEF RowFor
      <4> QED
        BY <4>1, PendingTells, SessionRow
    <3>2. CASE session[f] # NOROW
      BY <1>1, <1>8, <3>2 DEF RowFor
    <3> QED
      BY <3>1, <3>2
  <2>3. \A g \in Findings : g # f => item'[g] = item[g]
    BY <1>1, <1>8 DEF RowFor
  <2>4. HasRow'
    BY <1>1, <2>2, <2>3 DEF HasRow
  <2> QED
    BY <1>1, <1>2, <1>8, <2>1, <2>2, <2>4 DEF RowFor
<1>9. ASSUME NEW f \in Findings, RowFlushed(f) PROVE EnrichmentIInv'
  <2>1. item' \in Items /\ HasRow'
    BY <1>1, <1>9 DEF RowFlushed, HasRow
  <2> QED
    BY <1>1, <1>2, <1>9, <2>1 DEF RowFlushed
<1>10. ASSUME NEW f \in Findings, NEW list \in CveLists, Reimport(f, list) PROVE EnrichmentIInv'
  <2>1. HasRow'
    BY <1>1, <1>10 DEF Reimport, HasRow
  <2> QED
    BY <1>1, <1>2, <1>10, <2>1 DEF Reimport
<1>11. ASSUME NEW f \in Findings, NEW answers \in SUBSET Configured, NEW ransomware \in BOOLEAN,
              Enrich(f, answers, ransomware)
       PROVE  EnrichmentIInv'
  <2>1. session[f] # NOROW
    BY <1>1, <1>11 DEF Enrich, HasRow
  <2>2. session[f] \in EnrichmentRows
    BY <1>1, <2>1
  <2>3. InCatalogue(f) \in SUBSET CVEs
    BY <1>1 DEF InCatalogue
  <2>4. /\ session' \in Tables /\ TableTells(session')
        /\ \A g \in Findings : session[g] # NOROW \/ g = f => session'[g] # NOROW
    <3>1. CASE cves[f] = <<>>
      <4>1. session' = [session EXCEPT ![f] = MarkNotApplicable(session[f])]
        BY <1>1, <1>11, <3>1 DEF Enrich
      <4> QED
        BY <2>2, <4>1, NotApplicableTells, SessionRow
    <3>2. CASE cves[f] # <<>>
      <4>1. session' = [session EXCEPT ![f] =
                          Applied(session[f], answers, InCatalogue(f), ransomware)]
        BY <1>11, <3>2 DEF Enrich, Applied
      <4> QED
        BY <2>2, <2>3, <4>1, AppliedTells, SessionRow
    <3> QED
      BY <3>1, <3>2
  <2>5. item' \in Items /\ \A g \in Findings : g # f => item'[g] = item[g]
    BY <1>1, <1>11 DEF Enrich
  <2>6. item'[f] = "enriched"
    BY <1>1, <1>11 DEF Enrich
  <2>7. HasRow'
    BY <1>1, <2>4, <2>5, <2>6 DEF HasRow
  <2> QED
    BY <1>1, <1>2, <1>11, <2>4, <2>5, <2>7 DEF Enrich
<1>12. CASE UNCHANGED enrichmentVars
  <2>1. HasRow'
    BY <1>1, <1>12 DEF enrichmentVars, HasRow
  <2> QED
    BY <1>1, <1>2, <1>12, <2>1 DEF enrichmentVars
<1> QED
  BY <1>4, <1>5, <1>6, <1>7, <1>8, <1>9, <1>10, <1>11, <1>12 DEF EnrichmentNext

(* For any findings, sources and passes: what a row says of the catalogue   *)
(* is the last answer, and only a row whose flush was refused has none.     *)
THEOREM EnrichmentInvHolds == EnrichmentSpec => []EnrichmentInv
<1>1. EnrichmentSpec => []EnrichmentIInv
  BY EnrichmentStarts, EnrichmentKept, PTL DEF EnrichmentSpec
<1> QED
  BY <1>1, EnrichmentShows, PTL


-----------------------------------------------------------------------------
(* The import.  DefectDojo only grows: a test keeps its job and what its    *)
(* output mentions, a finding keeps its decisions and whether it is a       *)
(* duplicate.  So what was mirrored once stays true of DefectDojo, and a    *)
(* job the loop has passed has all the findings of its test in the table.   *)

ImportTypes ==
    /\ pc \in ImportPoints \cup AnalysisPoints \cup {"analyzed", "failed"}
    /\ todo \in Seq(Jobs)
    /\ job \in Jobs \cup {NoJob}
    /\ reply \in 0 .. Len(tests)
    /\ product \in BOOLEAN
    /\ engagement \in BOOLEAN
    /\ tests \in Seq(Jobs)
    /\ jobTest \in [Jobs -> 0 .. Len(tests)]
    /\ absent \subseteq Jobs
    /\ lost \subseteq Test
    /\ rows \in [DOMAIN rows -> Row]

\* DefectDojo's findings are those its tests' outputs mention, and every weakness
\* has one that is not a duplicate.
DojoHolds ==
    /\ \A f \in DOMAIN dd : /\ dd[f] \subseteq Flags
                            /\ f = <<f[1], f[2]>>
                            /\ f[1] \in Test
                            /\ f[2] \in Reports[tests[f[1]]]
    /\ \A t \in Test : \A v \in Reports[tests[t]] : <<t, v>> \in DOMAIN dd
    /\ \A f \in DOMAIN dd : \E g \in DOMAIN dd : g[2] = f[2] /\ "duplicate" \notin dd[g]

TestsOfJobs ==
    /\ \A j \in Jobs : jobTest[j] # 0 => tests[jobTest[j]] = j
    /\ pc \in {"upload", "uploaded", "project"} => job \in Jobs
    /\ pc \in {"uploaded", "project"} => reply \in Test /\ tests[reply] = job
    /\ pc = "uploaded" => jobTest[job] \in {0, reply}
    /\ pc = "project" => jobTest[job] = reply

\* What a row copied from DefectDojo is still so there.
Mirrors ==
    \A f \in DOMAIN rows :
        /\ f \in DOMAIN dd
        /\ rows[f].is_duplicate <=> "duplicate" \in dd[f]
        /\ rows[f].status = "DUPLICATE" => "duplicate" \in dd[f]
        /\ rows[f].status = "FALSE_POSITIVE" => "false_p" \in dd[f]
        /\ rows[f].status = "OUT_OF_SCOPE" => "out_of_scope" \in dd[f]
        /\ rows[f].status = "RISK_ACCEPTED" => "risk_accepted" \in dd[f]

Settled(j) == jobTest[j] # 0 /\ Listed(jobTest[j]) \subseteq DOMAIN rows

\* The jobs the loop has passed; when it is done there are no others.
Passed ==
    /\ pc \notin {"ensure", "create", "engage", "context", "failed"} =>
        \A j \in Jobs : \/ j \in absent
                        \/ \E i \in 1 .. Len(todo) : todo[i] = j
                        \/ pc \in {"upload", "uploaded", "project"} /\ job = j
                        \/ Settled(j)
    /\ pc \notin ImportPoints \cup {"failed"} => todo = << >>

ImportIInv == /\ ImportTypes /\ DojoHolds /\ TestsOfJobs /\ Mirrors /\ Passed
              /\ SecondTestIsLost /\ CountersAgree

LEMMA CountedInv == ImportIInv => ImportInv
<1> SUFFICES ASSUME ImportIInv PROVE ImportInv
  OBVIOUS
<1> SUFFICES ASSUME pc \notin ImportPoints \cup {"failed"}, lost = {},
                    NEW j \in Jobs \ absent, NEW v \in Reports[j]
             PROVE  \/ \E f \in DOMAIN rows : f[2] = v /\ ~rows[f].is_duplicate
                    \/ \E i \in absent : jobTest[i] # 0 /\ v \in Reports[i]
  BY DEF ImportIInv, ImportInv, CountedUnlessLost
<1> USE DEF ImportIInv
<1>1. \A i \in Jobs : i \in absent \/ Settled(i)
  BY DEF Passed, ImportPoints
<1>2. jobTest[j] \in Test /\ tests[jobTest[j]] = j
  BY <1>1 DEF Settled, ImportTypes, TestsOfJobs, Test
<1>3. <<jobTest[j], v>> \in DOMAIN dd
  BY <1>2 DEF DojoHolds
<1>4. PICK g \in DOMAIN dd : g[2] = v /\ "duplicate" \notin dd[g]
  BY <1>3 DEF DojoHolds
<1>5. g[1] \in Test /\ tests[g[1]] \in Jobs /\ v \in Reports[tests[g[1]]]
  BY <1>4, SMTT(40) DEF DojoHolds, ImportTypes, Test
<1>6. jobTest[tests[g[1]]] = g[1]
  BY <1>5 DEF SecondTestIsLost, ImportPoints
<1>7. CASE tests[g[1]] \in absent
  BY <1>5, <1>6, <1>7 DEF Test
<1>8. CASE tests[g[1]] \notin absent
  <2>1. Listed(g[1]) \subseteq DOMAIN rows
    BY <1>1, <1>5, <1>6, <1>8 DEF Settled
  <2>2. g \in DOMAIN rows
    BY <2>1 DEF Listed
  <2>3. ~rows[g].is_duplicate
    BY <1>4, <2>2 DEF Mirrors
  <2> QED
    BY <1>4, <2>2, <2>3
<1> QED
  BY <1>7, <1>8

LEMMA Placed ==
    ASSUME NEW r, NEW i \in 1 .. 7, Precedence[i] \in r,
           \A k \in 1 .. 7 : k < i => Precedence[k] \notin r
    PROVE  StatusFor(r) = StatusOf[Precedence[i]]
<1> DEFINE set == {k \in 1 .. Len(Precedence) : Precedence[k] \in r}
<1>1. Len(Precedence) = 7
  BY DEF Precedence
<1>2. i \in set /\ \A k \in set : i <= k
  BY <1>1
<1>3. set \subseteq Int
  OBVIOUS
<1> HIDE DEF set
<1>4. i = CHOOSE m \in set : \A k \in set : m <= k
  <2> DEFINE least == CHOOSE m \in set : \A k \in set : m <= k
  <2>1. least \in set /\ \A k \in set : least <= k
    BY <1>2
  <2> HIDE DEF least
  <2>2. least <= i /\ i <= least /\ least \in Int /\ i \in Int
    BY <1>2, <1>3, <2>1
  <2>3. least = i
    BY <2>2
  <2> QED
    BY <2>3 DEF least
<1>5. set # {}
  BY <1>2
<1> QED
  BY <1>4, <1>5 DEF StatusFor, FirstOf, set

LEMMA StatusSaysWhy ==
    ASSUME NEW r
    PROVE  /\ StatusFor(r) \in Statuses
           /\ StatusFor(r) = "DUPLICATE" => "duplicate" \in r
           /\ StatusFor(r) = "FALSE_POSITIVE" => "false_p" \in r
           /\ StatusFor(r) = "OUT_OF_SCOPE" => "out_of_scope" \in r
           /\ StatusFor(r) = "RISK_ACCEPTED" => "risk_accepted" \in r
           /\ StatusFor(r) \in OpenStatuses =>
                r \cap (Decided \cup {"duplicate", "is_mitigated"}) = {}
<1>1. CASE \A k \in 1 .. 7 : Precedence[k] \notin r
  <2>1. StatusFor(r) = "MITIGATED"
    BY <1>1 DEF StatusFor, FirstOf, Precedence
  <2> QED
    BY <2>1 DEF Statuses, OpenStatuses
<1>2. CASE \E k \in 1 .. 7 : Precedence[k] \in r
  <2>1. PICK i \in 1 .. 7 : Precedence[i] \in r /\ \A k \in 1 .. 7 : k < i => Precedence[k] \notin r
    BY <1>2
  <2>2. StatusFor(r) = StatusOf[Precedence[i]]
    BY <2>1, Placed
  <2>3. \A k \in 1 .. 7 : k < i => Precedence[k] \notin r
    BY <2>1
  <2>4. Precedence[i] \in r
    BY <2>1
  <2>5. /\ Precedence[1] = "false_p" /\ Precedence[2] = "out_of_scope"
        /\ Precedence[3] = "risk_accepted" /\ Precedence[4] = "duplicate"
        /\ Precedence[5] = "is_mitigated" /\ Precedence[6] = "verified"
        /\ Precedence[7] = "active"
    BY DEF Precedence
  <2>6. CASE i = 1
    BY <2>2, <2>4, <2>5, <2>6 DEF StatusOf, Statuses, OpenStatuses
  <2>7. CASE i = 2
    BY <2>2, <2>4, <2>5, <2>7 DEF StatusOf, Statuses, OpenStatuses
  <2>8. CASE i = 3
    BY <2>2, <2>4, <2>5, <2>8 DEF StatusOf, Statuses, OpenStatuses
  <2>9. CASE i = 4
    BY <2>2, <2>4, <2>5, <2>9 DEF StatusOf, Statuses, OpenStatuses
  <2>10. CASE i = 5
    BY <2>2, <2>4, <2>5, <2>10 DEF StatusOf, Statuses, OpenStatuses
  <2>11. CASE i \in {6, 7}
    <3>1. \A k \in 1 .. 5 : Precedence[k] \notin r
      BY <2>3, <2>11
    <3>2. r \cap (Decided \cup {"duplicate", "is_mitigated"}) = {}
      BY <2>5, <3>1 DEF Decided
    <3>3. StatusFor(r) \in OpenStatuses
      BY <2>2, <2>5, <2>11 DEF StatusOf, OpenStatuses
    <3> QED
      BY <3>2, <3>3 DEF OpenStatuses, Statuses
  <2> QED
    BY <2>6, <2>7, <2>8, <2>9, <2>10, <2>11
<1> QED
  BY <1>1, <1>2

LEMMA ProjectedIsRow == ASSUME NEW r PROVE Projected(r) \in Row
BY StatusSaysWhy DEF Projected, Row

LEMMA ProjectedSaysWhy ==
    ASSUME NEW r
    PROVE  /\ Projected(r).is_duplicate <=> "duplicate" \in r
           /\ Projected(r).status = "DUPLICATE" => "duplicate" \in r
           /\ Projected(r).status = "FALSE_POSITIVE" => "false_p" \in r
           /\ Projected(r).status = "OUT_OF_SCOPE" => "out_of_scope" \in r
           /\ Projected(r).status = "RISK_ACCEPTED" => "risk_accepted" \in r
<1>1. /\ Projected(r).status = StatusFor(r)
      /\ Projected(r).is_duplicate = ("duplicate" \in r)
  BY DEF Projected
<1> QED
  BY <1>1, StatusSaysWhy


LEMMA ImportStarts == ImportInit => ImportIInv
<1> SUFFICES ASSUME ImportInit PROVE ImportIInv
  OBVIOUS
<1> USE DEF ImportInit
<1>1. Len(tests) = 0 /\ DOMAIN dd = {} /\ DOMAIN rows = {}
  OBVIOUS
<1>2. ImportTypes
  <2>1. rows \in [DOMAIN rows -> Row]
    BY <1>1
  <2>2. todo \in Seq(Jobs) /\ tests \in Seq(Jobs)
    OBVIOUS
  <2>3. jobTest \in [Jobs -> 0 .. Len(tests)] /\ reply \in 0 .. Len(tests)
    BY <1>1
  <2>4. pc \in ImportPoints
    BY DEF ImportPoints
  <2> QED
    BY <2>1, <2>2, <2>3, <2>4 DEF ImportTypes
<1>3. DojoHolds
  BY <1>1 DEF DojoHolds, Test
<1>4. TestsOfJobs /\ SecondTestIsLost
  BY <1>1 DEF TestsOfJobs, SecondTestIsLost, Test
<1>5. Mirrors
  BY <1>1 DEF Mirrors
<1>6. Passed
  BY DEF Passed, ImportPoints
<1>7. CountersAgree
  <2> DEFINE none == {}
  <2>1. /\ {f \in DOMAIN rows : ~rows[f].is_duplicate /\ ~rows[f].is_false_positive} = none
        /\ {f \in none : f[2] \in Minor} = {}
        /\ {f \in none : f[2] \notin Minor} = {}
    BY <1>1
  <2> HIDE DEF none
  <2>2. Counters(rows) = [minor |-> Cardinality({}), major |-> Cardinality({})]
    BY <2>1 DEF Counters
  <2> QED
    BY <2>2, FS_EmptySet DEF CountersAgree
<1> QED
  BY <1>2, <1>3, <1>4, <1>5, <1>6, <1>7 DEF ImportIInv

\* A step that leaves the stores and DefectDojo alone: what is left is where it goes.
LEMMA NodeMoves ==
    ASSUME ImportIInv, UNCHANGED <<tests, dd, jobTest, rows, total>>,
           pc' \in ImportPoints \cup AnalysisPoints \cup {"analyzed", "failed"},
           todo' \in Seq(Jobs), job' \in Jobs \cup {NoJob}, reply' \in 0 .. Len(tests),
           product' \in BOOLEAN, engagement' \in BOOLEAN, absent' \subseteq Jobs,
           TestsOfJobs', Passed', lost' \subseteq Test,
           SecondTestIsLost'
    PROVE  ImportIInv'
<1> USE DEF ImportIInv
<1>1. ImportTypes'
  BY DEF ImportTypes, Test
<1>2. DojoHolds'
  BY DEF DojoHolds, Test
<1>3. Mirrors'
  BY DEF Mirrors
<1>4. CountersAgree'
  <2>1. Counters(rows)' = Counters(rows)
    BY DEF Counters
  <2> QED
    BY <2>1 DEF CountersAgree
<1> QED
  BY <1>1, <1>2, <1>3, <1>4

\* The points where an upload is under way.
Uploading == {"upload", "uploaded", "project"}

\* ... and most of these steps are not about an upload at all.
LEMMA NodeMovesOn ==
    ASSUME ImportIInv, UNCHANGED <<tests, dd, jobTest, rows, total>>,
           pc' \in ImportPoints \cup AnalysisPoints \cup {"analyzed", "failed"},
           pc' \notin Uploading,
           todo' \in Seq(Jobs), job' \in Jobs \cup {NoJob}, reply' \in 0 .. Len(tests),
           product' \in BOOLEAN, engagement' \in BOOLEAN,
           absent' \subseteq Jobs, Passed',
           lost' = lost \cup Forgotten
    PROVE  ImportIInv'
<1> USE DEF ImportIInv
<1>1. TestsOfJobs'
  BY DEF TestsOfJobs, Uploading, Test
<1>2. Forgotten \subseteq Test
  BY DEF Forgotten, TestsOfJobs
<1>3. lost' \subseteq Test
  BY <1>2 DEF ImportTypes
<1>4. SecondTestIsLost'
  <2> SUFFICES ASSUME NEW t \in Test PROVE jobTest[tests[t]] = t \/ t \in lost'
    BY DEF SecondTestIsLost, Test
  <2>1. CASE pc = "uploaded" /\ reply = t /\ jobTest[tests[t]] # t
    BY <2>1 DEF Forgotten, TestsOfJobs
  <2> QED
    BY <2>1 DEF SecondTestIsLost
<1> QED
  BY <1>1, <1>3, <1>4, NodeMoves


\* What DefectDojo may do: it keeps the tests, the findings and their decisions.
DojoGrows ==
    /\ tests' \in Seq(Jobs)
    /\ Len(tests) <= Len(tests')
    /\ \A t \in Test : tests'[t] = tests[t]
    /\ \A f \in DOMAIN dd : /\ f \in DOMAIN dd'
                            /\ "duplicate" \in dd'[f] <=> "duplicate" \in dd[f]
                            /\ \A k \in Decided : k \in dd[f] => k \in dd'[f]
    /\ \A f \in DOMAIN dd' : f \in DOMAIN dd \/ f[1] > Len(tests)
    /\ DojoHolds'

LEMMA JudgeGrows ==
    ASSUME ImportIInv, NEW f \in DOMAIN dd, NEW k \in Judgements, Judge(f, k)
    PROVE  DojoGrows
<1> USE ImportConstants DEF ImportIInv
<1>1. k \in Flags /\ k # "active" /\ k # "duplicate"
  OBVIOUS
<1>2. UNCHANGED tests
  BY DEF Judge
<1>3. DOMAIN dd' = DOMAIN dd
  BY DEF Judge
<1>4. \A g \in DOMAIN dd : /\ "duplicate" \in dd'[g] <=> "duplicate" \in dd[g]
                           /\ \A d \in Decided : d \in dd[g] => d \in dd'[g]
                           /\ dd'[g] \subseteq dd[g] \cup {k}
  BY <1>1 DEF Judge, Decided
<1>5. DojoHolds'
  <2>1. \A g \in DOMAIN dd : dd'[g] \subseteq Flags
    BY <1>1, <1>4 DEF DojoHolds
  <2>2. \A g \in DOMAIN dd : \E h \in DOMAIN dd : h[2] = g[2] /\ "duplicate" \notin dd'[h]
    BY <1>4 DEF DojoHolds
  <2> QED
    BY <1>2, <1>3, <2>1, <2>2 DEF DojoHolds, Test
<1> QED
  BY <1>2, <1>3, <1>4, <1>5 DEF DojoGrows, ImportTypes

LEMMA ImportGrows ==
    ASSUME ImportIInv, job \in Jobs, NEW t, ImportScan(t)
    PROVE  DojoGrows /\ t = Len(tests) + 1 /\ Len(tests') = t /\ tests'[t] = job
<1> USE ImportConstants DEF ImportIInv
<1>1. tests \in Seq(Jobs) /\ t = Len(tests) + 1 /\ tests' = Append(tests, job)
  BY DEF ImportScan, ImportTypes
<1>2. /\ tests' \in Seq(Jobs) /\ Len(tests') = t /\ tests'[t] = job
      /\ \A u \in Test : tests'[u] = tests[u]
      /\ Len(tests) \in Nat
  BY <1>1 DEF Test
<1>3. Test' = Test \cup {t}
  BY <1>1, <1>2 DEF Test
<1> DEFINE new == {t} \X Reports[job]
<1>4. DOMAIN dd' = DOMAIN dd \cup new
  BY DEF ImportScan, Imported
<1>5. \A f \in DOMAIN dd : dd'[f] = dd[f]
  BY DEF ImportScan
<1>6. \A f \in DOMAIN dd : f[1] # t
  BY <1>1 DEF DojoHolds, Test
<1>7. \A f \in new : f \notin DOMAIN dd
  BY <1>6
<1>8. \A f \in new : dd'[f] = IF \E g \in DOMAIN dd : g[2] = f[2] THEN {"duplicate"} ELSE {"active"}
  BY <1>7 DEF ImportScan, Imported
<1>9. DojoHolds'
  <2>1. ASSUME NEW f \in DOMAIN dd'
        PROVE  /\ dd'[f] \subseteq Flags
               /\ f = <<f[1], f[2]>>
               /\ f[1] \in Test'
               /\ f[2] \in Reports[tests'[f[1]]]
    <3>1. CASE f \in DOMAIN dd
      BY <1>2, <1>3, <1>5, <3>1 DEF DojoHolds
    <3>2. CASE f \in new
      <4>1. dd'[f] \subseteq Flags
        BY <1>8, <3>2 DEF Flags
      <4>2. f = <<f[1], f[2]>> /\ f[1] = t /\ f[2] \in Reports[job]
        BY <3>2
      <4> QED
        BY <1>2, <1>3, <4>1, <4>2
    <3> QED
      BY <1>4, <3>1, <3>2
  <2>2. ASSUME NEW u \in Test', NEW v \in Reports[tests'[u]]
        PROVE  <<u, v>> \in DOMAIN dd'
    <3>1. CASE u = t
      BY <1>2, <1>4, <3>1
    <3>2. CASE u \in Test
      BY <1>2, <1>4, <3>2 DEF DojoHolds
    <3> QED
      BY <1>3, <3>1, <3>2
  <2>3. ASSUME NEW f \in DOMAIN dd'
        PROVE  \E g \in DOMAIN dd' : g[2] = f[2] /\ "duplicate" \notin dd'[g]
    <3>1. CASE \E g \in DOMAIN dd : g[2] = f[2]
      <4>1. PICK g \in DOMAIN dd : g[2] = f[2] /\ "duplicate" \notin dd[g]
        BY <3>1 DEF DojoHolds
      <4> QED
        BY <1>4, <1>5, <4>1
    <3>2. CASE ~\E g \in DOMAIN dd : g[2] = f[2]
      <4>1. f \in new
        BY <1>4, <3>2
      <4>2. dd'[f] = {"active"}
        BY <1>8, <3>2, <4>1
      <4> QED
        BY <4>2
    <3> QED
      BY <3>1, <3>2
  <2> QED
    BY <2>1, <2>2, <2>3 DEF DojoHolds
<1>10. \A f \in DOMAIN dd' : f \in DOMAIN dd \/ f[1] > Len(tests)
  BY <1>1, <1>2, <1>4
<1>11. Len(tests) <= Len(tests')
  BY <1>1, <1>2
<1>12. \A f \in DOMAIN dd : /\ f \in DOMAIN dd'
                            /\ "duplicate" \in dd'[f] <=> "duplicate" \in dd[f]
                            /\ \A k \in Decided : k \in dd[f] => k \in dd'[f]
  <2> HIDE DEF new
  <2> QED
    BY <1>4, <1>5
<1> QED
  BY <1>1, <1>2, <1>9, <1>10, <1>11, <1>12 DEF DojoGrows

LEMMA ReimportGrows ==
    ASSUME ImportIInv, NEW t, ReimportScan(t)
    PROVE  DojoGrows /\ UNCHANGED tests
<1> USE DEF ImportIInv
<1>1. UNCHANGED tests /\ DOMAIN dd' = DOMAIN dd
  BY DEF ReimportScan, Reimported
<1>2. \A f \in DOMAIN dd : dd'[f] = dd[f] \/ dd'[f] = (dd[f] \ {"is_mitigated"}) \cup {"active"}
  BY DEF ReimportScan, Reimported
<1>3. \A f \in DOMAIN dd : /\ "duplicate" \in dd'[f] <=> "duplicate" \in dd[f]
                           /\ \A k \in Decided : k \in dd[f] => k \in dd'[f]
                           /\ dd'[f] \subseteq dd[f] \cup {"active"}
  BY <1>2 DEF Decided
<1>4. DojoHolds'
  <2>1. \A g \in DOMAIN dd : dd'[g] \subseteq Flags
    BY <1>3 DEF DojoHolds, Flags
  <2>2. \A g \in DOMAIN dd : \E h \in DOMAIN dd : h[2] = g[2] /\ "duplicate" \notin dd'[h]
    BY <1>3 DEF DojoHolds
  <2> QED
    BY <1>1, <2>1, <2>2 DEF DojoHolds, Test
<1> QED
  BY <1>1, <1>3, <1>4 DEF DojoGrows, ImportTypes

\* What the tables say is still true when DefectDojo has grown.
LEMMA StillTrue ==
    ASSUME ImportIInv, DojoGrows, UNCHANGED <<jobTest, rows, total>>
    PROVE  /\ Test \subseteq Test'
           /\ Mirrors' /\ CountersAgree'
           /\ jobTest' \in [Jobs -> 0 .. Len(tests')]
           /\ \A j \in Jobs : jobTest'[j] # 0 => tests'[jobTest'[j]] = j
           /\ \A j \in Jobs : Settled(j) => Settled(j)'
<1> USE DEF ImportIInv
<1>1. Len(tests) \in Nat /\ Len(tests') \in Nat /\ Len(tests) <= Len(tests')
  BY DEF ImportTypes, DojoGrows
<1>2. Test \subseteq Test'
  BY <1>1 DEF Test
<1>3. jobTest \in [Jobs -> 0 .. Len(tests)]
  BY DEF ImportTypes
<1>4. jobTest' \in [Jobs -> 0 .. Len(tests')]
  BY <1>1, <1>3
<1>5. \A j \in Jobs : jobTest'[j] # 0 => tests'[jobTest'[j]] = j
  BY <1>1, <1>3 DEF TestsOfJobs, DojoGrows, Test
<1>6. Mirrors'
  BY DEF Mirrors, DojoGrows, Decided
<1>7. CountersAgree'
  <2>1. Counters(rows)' = Counters(rows)
    BY DEF Counters
  <2> QED
    BY <2>1 DEF CountersAgree
<1>8. ASSUME NEW j \in Jobs, Settled(j) PROVE Settled(j)'
  <2>1. jobTest[j] \in 1 .. Len(tests)
    BY <1>1, <1>3, <1>8 DEF Settled
  <2>2. \A f \in DOMAIN dd' : f[1] = jobTest[j] => f \in DOMAIN dd
    BY <1>1, <2>1 DEF DojoGrows
  <2> QED
    BY <1>8, <2>2 DEF Settled, Listed
<1> QED
  BY <1>2, <1>4, <1>5, <1>6, <1>7, <1>8


\* The effect of an upload, whatever becomes of its answer.
LEMMA SendGrows ==
    ASSUME ImportIInv, pc = "upload", NEW t \in 1 .. Len(tests) + 1, Send(t)
    PROVE  /\ DojoGrows
           /\ t \in Test' /\ tests'[t] = job
           /\ t > Len(tests) => Test' = Test \cup {t} /\ jobTest[job] = 0
           /\ t \in Test => jobTest[job] = t /\ UNCHANGED tests
<1> USE DEF ImportIInv
<1>1. job \in Jobs /\ jobTest[job] \in 0 .. Len(tests) /\ Len(tests) \in Nat
  BY DEF TestsOfJobs, ImportTypes
<1>2. CASE jobTest[job] = 0
  <2>1. ImportScan(t)
    BY <1>2 DEF Send
  <2>2. DojoGrows /\ t = Len(tests) + 1 /\ Len(tests') = t /\ tests'[t] = job
    BY <1>1, <2>1, ImportGrows
  <2> QED
    BY <1>1, <1>2, <2>2 DEF Test
<1>3. CASE jobTest[job] # 0
  <2>1. ReimportScan(t)
    BY <1>3 DEF Send
  <2>2. DojoGrows /\ UNCHANGED tests
    BY <2>1, ReimportGrows
  <2>3. t = jobTest[job]
    BY <2>1 DEF ReimportScan
  <2> QED
    BY <1>1, <1>3, <2>2, <2>3 DEF Test, TestsOfJobs
<1> QED
  BY <1>2, <1>3

LEMMA ImportKept == ImportIInv /\ [ImportNext]_importVars => ImportIInv'
<1> SUFFICES ASSUME ImportIInv, [ImportNext]_importVars PROVE ImportIInv'
  OBVIOUS
<1> USE ImportConstants
<1>1. /\ ImportTypes /\ DojoHolds /\ TestsOfJobs /\ Mirrors /\ Passed
      /\ SecondTestIsLost /\ CountersAgree
  BY DEF ImportIInv
<1>2. /\ todo \in Seq(Jobs) /\ job \in Jobs \cup {NoJob} /\ reply \in 0 .. Len(tests)
      /\ product \in BOOLEAN /\ engagement \in BOOLEAN /\ absent \subseteq Jobs
      /\ tests \in Seq(Jobs) /\ Len(tests) \in Nat
      /\ jobTest \in [Jobs -> 0 .. Len(tests)] /\ lost \subseteq Test
  BY <1>1 DEF ImportTypes
<1>3. pc # "uploaded" => Forgotten = {}
  BY DEF Forgotten
<1>4. CASE FindProduct \/ CreateProduct \/ EnsureEngagement
  <2>1. /\ UNCHANGED <<tests, dd, jobTest, rows, total, todo, job, reply, absent, lost>>
        /\ pc' \in {"create", "engage", "failed", "context"}
        /\ pc # "uploaded"
        /\ product' \in BOOLEAN /\ engagement' \in BOOLEAN
    BY <1>2, <1>4 DEF FindProduct, CreateProduct, EnsureEngagement, Goto, ddVars, storeVars
  <2>2. Passed'
    BY <2>1 DEF Passed, ImportPoints
  <2> QED
    BY <1>2, <1>3, <2>1, <2>2, NodeMovesOn DEF ImportPoints, Uploading
<1>5. CASE PlanImports
  <2>1. /\ UNCHANGED <<tests, dd, jobTest, rows, total, job, reply, product, engagement, lost>>
        /\ pc' = "import" /\ pc # "uploaded" /\ todo' = Plans /\ absent' = {}
    BY <1>5 DEF PlanImports, ddVars, storeVars
  <2>2. Passed'
    BY <2>1 DEF Passed, ImportPoints, Jobs
  <2> QED
    BY <1>2, <1>3, <2>1, <2>2, NodeMovesOn DEF ImportPoints, Uploading
<1>6. CASE SkipJob
  <2>1. /\ UNCHANGED <<tests, dd, jobTest, rows, total, job, reply, product, engagement, lost>>
        /\ pc = "import" /\ pc' = "import" /\ todo # << >>
        /\ todo' = Tail(todo) /\ absent' = absent \cup {Head(todo)}
    BY <1>6 DEF SkipJob, ddVars, storeVars
  <2>2. Passed'
    <3> SUFFICES ASSUME NEW j \in Jobs, j \notin absent', ~Settled(j)'
                 PROVE  \E i \in 1 .. Len(todo') : todo'[i] = j
      BY <2>1 DEF Passed, ImportPoints
    <3>1. ~Settled(j)
      BY <2>1 DEF Settled, Listed
    <3>2. PICK i \in 1 .. Len(todo) : todo[i] = j
      BY <1>1, <2>1, <3>1 DEF Passed
    <3>3. i # 1
      BY <1>2, <2>1, <3>2
    <3>4. i - 1 \in 1 .. Len(todo') /\ todo'[i - 1] = j
      BY <1>2, <2>1, <3>2, <3>3
    <3> QED
      BY <3>4
  <2>3. todo' \in Seq(Jobs) /\ absent' \subseteq Jobs
    BY <1>2, <2>1
  <2> QED
    BY <1>2, <1>3, <2>1, <2>2, <2>3, NodeMovesOn DEF ImportPoints, Uploading
<1>7. CASE BeginJob
  <2>1. /\ UNCHANGED <<tests, dd, jobTest, rows, total, reply, product, engagement, absent, lost>>
        /\ pc = "import" /\ pc' = "upload" /\ todo # << >>
        /\ todo' = Tail(todo) /\ job' = Head(todo)
    BY <1>7 DEF BeginJob, ddVars, storeVars
  <2>2. Passed'
    <3> SUFFICES ASSUME NEW j \in Jobs, j \notin absent, j # job', ~Settled(j)'
                 PROVE  \E i \in 1 .. Len(todo') : todo'[i] = j
      BY <2>1 DEF Passed, ImportPoints
    <3>1. ~Settled(j)
      BY <2>1 DEF Settled, Listed
    <3>2. PICK i \in 1 .. Len(todo) : todo[i] = j
      BY <1>1, <2>1, <3>1 DEF Passed
    <3>3. i # 1
      BY <1>2, <2>1, <3>2
    <3>4. i - 1 \in 1 .. Len(todo') /\ todo'[i - 1] = j
      BY <1>2, <2>1, <3>2, <3>3
    <3> QED
      BY <3>4
  <2>3. todo' \in Seq(Jobs) /\ job' \in Jobs
    BY <1>2, <2>1
  <2>4. TestsOfJobs'
    BY <1>1, <2>1, <2>3 DEF TestsOfJobs
  <2>5. SecondTestIsLost'
    BY <1>1, <2>1 DEF SecondTestIsLost, Test
  <2> QED
    BY <1>2, <2>1, <2>2, <2>3, <2>4, <2>5, NodeMoves DEF ImportPoints
<1>8. CASE Upload
  <2>1. PICK t \in 1 .. Len(tests) + 1 : Send(t) /\ reply' = t
    BY <1>8 DEF Upload
  <2>2. /\ UNCHANGED <<jobTest, rows, total, todo, job, product, engagement, absent, lost>>
        /\ pc = "upload" /\ pc' = "uploaded"
    BY <1>8 DEF Upload, storeVars
  <2>3. /\ DojoGrows
        /\ t \in Test' /\ tests'[t] = job
        /\ t > Len(tests) => Test' = Test \cup {t} /\ jobTest[job] = 0
        /\ t \in Test => jobTest[job] = t /\ UNCHANGED tests
    BY <2>1, <2>2, SendGrows
  <2>4. /\ Test \subseteq Test' /\ Mirrors' /\ CountersAgree'
        /\ jobTest' \in [Jobs -> 0 .. Len(tests')]
        /\ \A j \in Jobs : jobTest'[j] # 0 => tests'[jobTest'[j]] = j
        /\ \A j \in Jobs : Settled(j) => Settled(j)'
    BY <2>2, <2>3, StillTrue
  <2>5. t \in Test \/ t > Len(tests)
    BY <1>2 DEF Test
  <2>6. SecondTestIsLost'
    <3>1. ASSUME NEW u \in Test, u # t PROVE jobTest'[tests'[u]] = u \/ u \in lost'
      BY <1>1, <2>2, <2>3, <3>1 DEF SecondTestIsLost, DojoGrows
    <3>2. \A u \in Test' : u = t \/ u \in Test
      BY <2>3, <2>5 DEF Test
    <3> QED
      BY <2>1, <2>2, <3>1, <3>2 DEF SecondTestIsLost
  <2>7. TestsOfJobs'
    BY <1>1, <2>1, <2>2, <2>3, <2>4, <2>5 DEF TestsOfJobs
  <2>8. Passed'
    BY <1>1, <2>2, <2>4 DEF Passed, ImportPoints
  <2>9. ImportTypes'
    <3>1. reply' \in 0 .. Len(tests')
      BY <2>1, <2>3 DEF Test
    <3>2. lost' \subseteq Test'
      BY <1>2, <2>2, <2>4
    <3> QED
      BY <1>1, <2>2, <2>3, <2>4, <3>1, <3>2 DEF ImportTypes, DojoGrows, ImportPoints
  <2> QED
    BY <2>3, <2>4, <2>6, <2>7, <2>8, <2>9 DEF ImportIInv, DojoGrows
<1>9. CASE UploadUnanswered
  <2>1. PICK t \in 1 .. Len(tests) + 1 :
            Send(t) /\ lost' = IF t > Len(tests) THEN lost \cup {t} ELSE lost
    BY <1>9 DEF UploadUnanswered
  <2>2. /\ UNCHANGED <<jobTest, rows, total, todo, job, reply, product, engagement, absent>>
        /\ pc = "upload" /\ pc' = "failed"
    BY <1>9 DEF UploadUnanswered, storeVars, Goto
  <2>3. /\ DojoGrows
        /\ t \in Test' /\ tests'[t] = job
        /\ t > Len(tests) => Test' = Test \cup {t} /\ jobTest[job] = 0
        /\ t \in Test => jobTest[job] = t /\ UNCHANGED tests
    BY <2>1, <2>2, SendGrows
  <2>4. /\ Test \subseteq Test' /\ Mirrors' /\ CountersAgree'
        /\ jobTest' \in [Jobs -> 0 .. Len(tests')]
        /\ \A j \in Jobs : jobTest'[j] # 0 => tests'[jobTest'[j]] = j
        /\ \A j \in Jobs : Settled(j) => Settled(j)'
    BY <2>2, <2>3, StillTrue
  <2>5. t \in Test \/ t > Len(tests)
    BY <1>2 DEF Test
  <2>6. SecondTestIsLost'
    <3>1. ASSUME NEW u \in Test PROVE jobTest'[tests'[u]] = u \/ u \in lost'
      BY <1>1, <2>1, <2>2, <2>3 DEF SecondTestIsLost, DojoGrows
    <3>2. \A u \in Test' : u \in Test \/ u \in lost'
      BY <2>1, <2>3, <2>5 DEF Test
    <3> QED
      BY <3>1, <3>2 DEF SecondTestIsLost
  <2>7. TestsOfJobs'
    BY <2>2, <2>4 DEF TestsOfJobs
  <2>8. Passed'
    BY <2>2 DEF Passed, ImportPoints
  <2>9. ImportTypes'
    <3>1. reply' \in 0 .. Len(tests')
      BY <1>2, <2>2, <2>3 DEF DojoGrows
    <3>2. lost' \subseteq Test'
      BY <1>2, <2>1, <2>3, <2>4
    <3> QED
      BY <1>1, <2>2, <2>3, <2>4, <3>1, <3>2 DEF ImportTypes, DojoGrows, ImportPoints
  <2> QED
    BY <2>3, <2>4, <2>6, <2>7, <2>8, <2>9 DEF ImportIInv, DojoGrows
<1>10. CASE CommitTest
  <2>1. /\ UNCHANGED <<tests, dd, rows, total, todo, job, reply, product, engagement, absent, lost>>
        /\ pc = "uploaded" /\ pc' = "project"
        /\ jobTest' = [jobTest EXCEPT ![job] = reply]
    BY <1>10 DEF CommitTest, ddVars
  <2>2. /\ job \in Jobs /\ reply \in Test /\ tests[reply] = job
        /\ jobTest[job] \in {0, reply}
    BY <1>1, <2>1 DEF TestsOfJobs
  <2>3. /\ jobTest' \in [Jobs -> 0 .. Len(tests)] /\ jobTest'[job] = reply
        /\ \A j \in Jobs : j # job => jobTest'[j] = jobTest[j]
    BY <1>2, <2>1, <2>2
  <2>4. SecondTestIsLost'
    <3> SUFFICES ASSUME NEW t \in Test PROVE jobTest'[tests[t]] = t \/ t \in lost
      BY <2>1 DEF SecondTestIsLost, Test
    <3>1. tests[t] \in Jobs
      BY <1>2 DEF Test
    <3>2. CASE t = reply
      BY <2>2, <2>3, <3>2
    <3>3. CASE t # reply
      <4>1. jobTest[tests[t]] = t \/ t \in lost
        BY <1>1, <3>3 DEF SecondTestIsLost
      <4>2. t # 0
        BY DEF Test
      <4> QED
        BY <2>2, <2>3, <3>1, <3>3, <4>1, <4>2
    <3> QED
      BY <3>2, <3>3
  <2>5. TestsOfJobs'
    BY <1>1, <2>1, <2>2, <2>3 DEF TestsOfJobs, Test
  <2>6. Passed'
    <3> SUFFICES ASSUME NEW j \in Jobs, j # job, Settled(j) PROVE Settled(j)'
      BY <1>1, <2>1 DEF Passed, ImportPoints
    <3> QED
      BY <2>1, <2>3 DEF Settled, Listed
  <2>7. ImportTypes'
    BY <1>1, <2>1, <2>3 DEF ImportTypes, ImportPoints, Test
  <2>8. DojoHolds' /\ Mirrors'
    BY <1>1, <2>1 DEF DojoHolds, Mirrors, Test
  <2>9. CountersAgree'
    <3>1. Counters(rows)' = Counters(rows)
      BY <2>1 DEF Counters
    <3> QED
      BY <1>1, <2>1, <3>1 DEF CountersAgree
  <2> QED
    BY <2>4, <2>5, <2>6, <2>7, <2>8, <2>9 DEF ImportIInv
<1>11. CASE Project
  <2> DEFINE listed == Listed(reply)
             table  == [f \in DOMAIN rows \cup listed |->
                          IF f \in listed THEN Projected(dd[f]) ELSE rows[f]]
  <2>1. /\ UNCHANGED <<tests, dd, todo, product, engagement, absent, lost>>
        /\ pc = "project" /\ pc' = "import" /\ job' = NoJob /\ reply' = 0
    BY <1>11 DEF Project, ddVars
  <2>2. /\ rows' = table
        /\ total' = IF listed = {} THEN total ELSE Counters(table)
        /\ jobTest' = IF listed = {} THEN jobTest ELSE [jobTest EXCEPT ![job] = reply]
    BY <1>11 DEF Project
  <2>3. /\ job \in Jobs /\ reply \in Test /\ tests[reply] = job /\ jobTest[job] = reply
    BY <1>1, <2>1 DEF TestsOfJobs
  <2>4. jobTest' = jobTest
    BY <1>2, <2>2, <2>3
  <2>5. /\ DOMAIN rows' = DOMAIN rows \cup listed
        /\ \A f \in DOMAIN rows' : rows'[f] = IF f \in listed THEN Projected(dd[f]) ELSE rows[f]
    BY <2>2
  <2>6. CountersAgree'
    <3>1. CASE listed = {}
      <4>1. rows' = rows
        BY <1>1, <2>2, <3>1 DEF ImportTypes
      <4> QED
        BY <1>1, <2>2, <3>1, <4>1 DEF CountersAgree
    <3>2. CASE listed # {}
      <4> HIDE DEF table, listed
      <4>1. total' = Counters(rows')
        BY <2>2, <3>2
      <4> QED
        BY <4>1 DEF CountersAgree, Counters
    <3> QED
      BY <3>1, <3>2
  <2> HIDE DEF table
  <2>7. Mirrors'
    <3> SUFFICES ASSUME NEW f \in DOMAIN rows'
                 PROVE  /\ f \in DOMAIN dd
                        /\ rows'[f].is_duplicate <=> "duplicate" \in dd[f]
                        /\ rows'[f].status = "DUPLICATE" => "duplicate" \in dd[f]
                        /\ rows'[f].status = "FALSE_POSITIVE" => "false_p" \in dd[f]
                        /\ rows'[f].status = "OUT_OF_SCOPE" => "out_of_scope" \in dd[f]
                        /\ rows'[f].status = "RISK_ACCEPTED" => "risk_accepted" \in dd[f]
      BY <2>1 DEF Mirrors
    <3>1. CASE f \in listed
      <4>1. rows'[f] = Projected(dd[f]) /\ f \in DOMAIN dd
        BY <2>5, <3>1 DEF Listed
      <4> QED
        BY <4>1, ProjectedSaysWhy
    <3>2. CASE f \notin listed
      <4>1. rows'[f] = rows[f] /\ f \in DOMAIN rows
        BY <2>5, <3>2
      <4> QED
        BY <1>1, <4>1 DEF Mirrors
    <3> QED
      BY <3>1, <3>2
  <2>8. ImportTypes'
    <3>1. \A f \in DOMAIN rows' : rows'[f] \in Row
      BY <1>1, <2>5, ProjectedIsRow DEF ImportTypes
    <3>2. rows' \in [DOMAIN rows' -> Row]
      BY <2>2, <3>1 DEF table
    <3> QED
      BY <1>1, <2>1, <2>4, <3>2 DEF ImportTypes, ImportPoints, Test
  <2>9. Passed'
    <3> SUFFICES ASSUME NEW j \in Jobs, j = job \/ Settled(j) PROVE Settled(j)'
      BY <1>1, <2>1 DEF Passed, ImportPoints
    <3>1. CASE j = job
      BY <2>1, <2>3, <2>4, <2>5, <3>1 DEF Settled, Listed, Test
    <3>2. CASE Settled(j)
      BY <2>1, <2>4, <2>5, <3>2 DEF Settled, Listed
    <3> QED
      BY <3>1, <3>2
  <2>10. DojoHolds' /\ TestsOfJobs' /\ SecondTestIsLost'
    BY <1>1, <2>1, <2>4 DEF DojoHolds, TestsOfJobs, SecondTestIsLost, Test
  <2> QED
    BY <2>6, <2>7, <2>8, <2>9, <2>10 DEF ImportIInv
<1>12. CASE ImportDone
  <2>1. /\ UNCHANGED <<tests, dd, jobTest, rows, total, todo, job, reply, product, engagement,
                       absent, lost>>
        /\ pc = "import" /\ pc' = "correlate" /\ todo = << >>
    BY <1>12 DEF ImportDone, ddVars, storeVars, Goto
  <2>2. Passed'
    BY <1>1, <2>1 DEF Passed, Settled, Listed
  <2>3. /\ pc' \in ImportPoints \cup AnalysisPoints \cup {"analyzed", "failed"}
        /\ pc' \notin Uploading
        /\ lost' = lost \cup Forgotten
    BY <1>3, <2>1 DEF AnalysisPoints, Uploading
  <2>4. /\ todo' \in Seq(Jobs) /\ job' \in Jobs \cup {NoJob} /\ reply' \in 0 .. Len(tests)
        /\ product' \in BOOLEAN /\ engagement' \in BOOLEAN /\ absent' \subseteq Jobs
        /\ UNCHANGED <<tests, dd, jobTest, rows, total>>
    BY <1>2, <2>1
  <2> QED
    BY <2>2, <2>3, <2>4, NodeMovesOn
<1>13. CASE ImportFails \/ ImportCrash
  <2>1. /\ UNCHANGED <<tests, dd, jobTest, rows, total, product, engagement, absent>>
        /\ pc' \in {"failed", "ensure"} /\ lost' = lost \cup Forgotten
    BY <1>13 DEF ImportFails, ImportCrash, ddVars, storeVars, Goto
  <2>2. todo' \in Seq(Jobs) /\ job' \in Jobs \cup {NoJob} /\ reply' \in 0 .. Len(tests)
    <3>1. \/ todo' = todo /\ job' = job /\ reply' = reply
          \/ todo' = << >> /\ job' = NoJob /\ reply' = 0
      BY <1>13 DEF ImportFails, ImportCrash, Goto
    <3>2. << >> \in Seq(Jobs) /\ 0 \in 0 .. Len(tests)
      BY <1>2
    <3> QED
      BY <1>2, <3>1, <3>2
  <2>3. Passed'
    BY <2>1 DEF Passed, ImportPoints
  <2> QED
    BY <1>2, <2>1, <2>2, <2>3, NodeMovesOn DEF ImportPoints, Uploading
<1>14. CASE OtherCreatesProduct
  <2>1. /\ UNCHANGED <<pc, tests, dd, jobTest, rows, total, todo, job, reply, engagement,
                       absent, lost>>
        /\ product' = TRUE
    BY <1>14 DEF OtherCreatesProduct, nodeVars, storeVars
  <2>2. Passed' /\ TestsOfJobs' /\ SecondTestIsLost'
    BY <1>1, <2>1 DEF Passed, TestsOfJobs, SecondTestIsLost, Settled, Listed, Test
  <2>3. pc' \in ImportPoints \cup AnalysisPoints \cup {"analyzed", "failed"}
    BY <1>1, <2>1 DEF ImportTypes
  <2> QED
    BY <1>2, <2>1, <2>2, <2>3, NodeMoves
<1>15. ASSUME NEW f \in DOMAIN dd, NEW k \in Judgements, Judge(f, k) PROVE ImportIInv'
  <2>1. UNCHANGED <<pc, todo, job, reply, jobTest, rows, total, product, engagement, tests,
                    absent, lost>>
    BY <1>15 DEF Judge, nodeVars, storeVars
  <2>2. DojoGrows
    BY <1>15, JudgeGrows
  <2>3. /\ Mirrors' /\ CountersAgree'
        /\ \A j \in Jobs : Settled(j) => Settled(j)'
    BY <2>1, <2>2, StillTrue
  <2>4. TestsOfJobs' /\ SecondTestIsLost'
    BY <1>1, <2>1 DEF TestsOfJobs, SecondTestIsLost, Test
  <2>5. Passed'
    BY <1>1, <2>1, <2>3 DEF Passed
  <2>6. ImportTypes'
    BY <1>1, <2>1 DEF ImportTypes, Test
  <2> QED
    BY <2>2, <2>3, <2>4, <2>5, <2>6 DEF ImportIInv, DojoGrows
<1>16. CASE UNCHANGED importVars
  <2>1. UNCHANGED <<pc, tests, dd, jobTest, rows, total, todo, job, reply, product, engagement,
                    absent, lost>>
    BY <1>16 DEF importVars
  <2>2. Passed' /\ TestsOfJobs' /\ SecondTestIsLost'
    BY <1>1, <2>1, SMTT(40) DEF Passed, TestsOfJobs, SecondTestIsLost, Settled, Listed, Test
  <2>3. pc' \in ImportPoints \cup AnalysisPoints \cup {"analyzed", "failed"}
    BY <1>1, <2>1 DEF ImportTypes
  <2> QED
    BY <1>2, <2>1, <2>2, <2>3, NodeMoves
<1> QED
  BY <1>4, <1>5, <1>6, <1>7, <1>8, <1>9, <1>10, <1>11, <1>12, <1>13, <1>14, <1>15, <1>16
     DEF ImportNext


LEMMA AnalysisMoves ==
    ASSUME ImportIInv, pc \in AnalysisPoints,
           pc' \in AnalysisPoints \cup {"analyzed", "failed"},
           UNCHANGED <<todo, job, reply, ddVars, storeVars, absent, lost>>
    PROVE  ImportIInv'
<1>1. /\ ImportTypes /\ TestsOfJobs /\ Passed /\ SecondTestIsLost
  BY DEF ImportIInv
<1>2. UNCHANGED <<tests, dd, jobTest, rows, total, todo, job, reply, product, engagement,
                  absent, lost>>
  BY DEF ddVars, storeVars
<1>3. /\ pc' \notin Uploading /\ pc # "uploaded"
      /\ pc \notin ImportPoints /\ pc # "failed"
      /\ pc' \notin ImportPoints
  BY DEF AnalysisPoints, Uploading, ImportPoints
<1>4. lost' = lost \cup Forgotten
  BY <1>2, <1>3 DEF Forgotten
<1>5. Passed'
  <2>1. \A j \in Jobs : Settled(j)' = Settled(j)
    BY <1>2 DEF Settled, Listed
  <2>2. pc \notin {"ensure", "create", "engage", "context", "failed", "upload", "uploaded", "project"}
    BY <1>3 DEF ImportPoints
  <2> QED
    BY <1>1, <1>2, <1>3, <2>1, <2>2 DEF Passed
<1>6. /\ todo' \in Seq(Jobs) /\ job' \in Jobs \cup {NoJob} /\ reply' \in 0 .. Len(tests)
      /\ product' \in BOOLEAN /\ engagement' \in BOOLEAN /\ absent' \subseteq Jobs
      /\ UNCHANGED <<tests, dd, jobTest, rows, total>>
  BY <1>1, <1>2 DEF ImportTypes
<1>7. pc' \in ImportPoints \cup AnalysisPoints \cup {"analyzed", "failed"}
  OBVIOUS
<1> QED
  BY <1>3, <1>4, <1>5, <1>6, <1>7, NodeMovesOn

NodeOfAnalysis ==
    \/ CorrelateBegin \/ CorrelateEnd \/ SelectCandidates
    \/ \E f \in DOMAIN rows : NodeCall(f)
    \/ NodeAnswer \/ NodeAiError \/ NodeModelDown \/ MarkFinding \/ Degrade
    \/ AnalyzeDone \/ AnalysisFails \/ AnalysisCrash

LEMMA NodeKeepsImport ==
    NodeOfAnalysis => /\ pc \in AnalysisPoints
                      /\ pc' \in AnalysisPoints \cup {"analyzed", "failed"}
                      /\ UNCHANGED <<todo, job, reply, ddVars, storeVars, absent, lost>>
<1> USE DEF StepTo, Goto, AnalysisPoints
<1>1. CASE CorrelateBegin \/ CorrelateEnd \/ SelectCandidates \/ NodeAnswer \/ NodeAiError
  BY <1>1 DEF CorrelateBegin, CorrelateEnd, SelectCandidates, NodeAnswer, NodeAiError
<1>2. ASSUME NEW f \in DOMAIN rows, NodeCall(f)
      PROVE  /\ pc \in AnalysisPoints
             /\ pc' \in AnalysisPoints \cup {"analyzed", "failed"}
             /\ UNCHANGED <<todo, job, reply, ddVars, storeVars, absent, lost>>
  BY <1>2 DEF NodeCall
<1>3. CASE NodeModelDown \/ MarkFinding \/ Degrade \/ AnalyzeDone
  BY <1>3 DEF NodeModelDown, MarkFinding, Degrade, AnalyzeDone
<1>4. CASE AnalysisFails \/ AnalysisCrash
  BY <1>4 DEF AnalysisFails, AnalysisCrash
<1> QED
  BY <1>1, <1>2, <1>3, <1>4 DEF NodeOfAnalysis

\* What the analysis does to the import's state: nothing but moving on.
LEMMA NextKeepsImport == ImportIInv /\ [Next]_vars => ImportIInv'
<1> SUFFICES ASSUME ImportIInv, [Next]_vars PROVE ImportIInv'
  OBVIOUS
<1>1. CASE [ImportNext]_importVars
  BY <1>1, ImportKept
<1>2. CASE NodeOfAnalysis
  BY <1>2, NodeKeepsImport, AnalysisMoves
<1>3. \/ [ImportNext]_importVars
      \/ NodeOfAnalysis
      \/ \E o \in Operators : Answer(o)
      \/ \E o \in Operators, f \in DOMAIN rows, force \in BOOLEAN : Request(o, f, force)
  BY DEF Next, NodeOfAnalysis, vars
<1>4. ASSUME NEW o \in Operators, Answer(o) PROVE [ImportNext]_importVars
  BY <1>4 DEF Answer
<1>5. ASSUME NEW o \in Operators, NEW f \in DOMAIN rows, NEW force \in BOOLEAN,
             Request(o, f, force)
      PROVE  [ImportNext]_importVars
  BY <1>5 DEF Request
<1> QED
  BY <1>1, <1>2, <1>3, <1>4, <1>5

(* For any jobs, outputs, judgements and faults: a second test of a job is  *)
(* a lost one, what was imported is counted unless its original is in a     *)
(* test nobody listed, and the counters are those of the rows.              *)
THEOREM ImportInvHolds == Spec => []ImportInv
<1>1. Init => ImportIInv
  BY ImportStarts DEF Init
<1>2. Spec => []ImportIInv
  BY <1>1, NextKeepsImport, PTL DEF Spec
<1> QED
  BY <1>2, CountedInv, PTL

\* A projection opens again only what DefectDojo had mitigated.
LEMMA OpenedAgain ==
    ASSUME ImportIInv, [Next]_vars, NEW f \in DOMAIN rows,
           rows[f].status \notin OpenStatuses, rows'[f].status \in OpenStatuses
    PROVE  rows[f].status = "MITIGATED"
<1>1. CASE UNCHANGED rows
  BY <1>1
<1>2. CASE Project
  <2> DEFINE listed == Listed(reply)
  <2>1. rows' = [g \in DOMAIN rows \cup listed |->
                    IF g \in listed THEN Projected(dd[g]) ELSE rows[g]]
    BY <1>2 DEF Project
  <2> HIDE DEF listed
  <2>2. rows'[f] = IF f \in listed THEN Projected(dd[f]) ELSE rows[f]
    BY <2>1
  <2>3. rows'[f] = Projected(dd[f])
    BY <2>2
  <2>4. StatusFor(dd[f]) \in OpenStatuses
    BY <2>3 DEF Projected
  <2>5. dd[f] \cap (Decided \cup {"duplicate", "is_mitigated"}) = {}
    BY <2>4, StatusSaysWhy
  <2>6. rows[f].status \notin {"DUPLICATE", "FALSE_POSITIVE", "OUT_OF_SCOPE", "RISK_ACCEPTED"}
    BY <2>5 DEF ImportIInv, Mirrors, Decided
  <2>7. rows[f].status \in Statuses
    BY DEF ImportIInv, ImportTypes, Row
  <2> QED
    BY <2>6, <2>7 DEF Statuses, OpenStatuses
<1>3. UNCHANGED rows \/ Project
  <2>1. CASE ImportNext
    BY <2>1 DEF ImportNext, FindProduct, CreateProduct, EnsureEngagement, PlanImports, SkipJob,
           BeginJob, Upload, UploadUnanswered, CommitTest, ImportDone, ImportFails, ImportCrash,
           OtherCreatesProduct, Judge, storeVars
  <2>2. CASE NodeOfAnalysis
    BY <2>2, NodeKeepsImport DEF storeVars
  <2>3. ASSUME NEW o \in Operators, Answer(o) PROVE UNCHANGED rows
    BY <2>3 DEF Answer, importVars
  <2>4. ASSUME NEW o \in Operators, NEW g \in DOMAIN rows, NEW force \in BOOLEAN,
               Request(o, g, force)
        PROVE  UNCHANGED rows
    BY <2>4 DEF Request, importVars
  <2>5. CASE UNCHANGED vars
    BY <2>5 DEF vars, importVars
  <2> QED
    BY <2>1, <2>2, <2>3, <2>4, <2>5 DEF Next, NodeOfAnalysis
<1> QED
  BY <1>1, <1>2, <1>3

(* For any jobs, judgements and faults: a replayed import opens again only  *)
(* what was mitigated, never what an analyst decided or a duplicate.        *)
THEOREM DecisionStandsHolds == Spec => DecisionStands
<1> DEFINE Step == \A f \in DOMAIN rows :
                      rows[f].status \notin OpenStatuses /\ rows'[f].status \in OpenStatuses
                          => rows[f].status = "MITIGATED"
<1>1. Init => ImportIInv
  BY ImportStarts DEF Init
<1>2. ImportIInv /\ [Next]_vars => [Step]_importVars
  BY OpenedAgain
<1> HIDE DEF Step
<1>3. Spec => [][Step]_importVars
  BY <1>1, <1>2, NextKeepsImport, PTL DEF Spec
<1> QED
  BY <1>3 DEF DecisionStands, Step


-----------------------------------------------------------------------------
(* The analysis.  A finding whose columns were not touched by two writers   *)
(* at once has at most one call in flight, and that call, if nobody forced  *)
(* it, is its first; a finding that has an analysis or a reason keeps one.  *)

Silent == {"floor", "budget", "error"}

AnalysisTypes ==
    /\ IsFiniteSet(DOMAIN rows)
    /\ \A f \in DOMAIN ai : f \in DOMAIN rows /\ ai[f] \in AiRow
    /\ cands \subseteq DOMAIN rows
    /\ tx = [c \in Callers |-> tx[c]]
    /\ \A c \in Callers : tx[c].busy => /\ tx[c].finding \in DOMAIN rows
                                        /\ tx[c].reason \in Reasons
    /\ tx["node"].busy <=> pc = "calling"
    /\ pc = "marking" => tx["node"].finding \in DOMAIN rows

Columns ==
    \A f \in DOMAIN rows :
        /\ Ai[f].automatic <= Ai[f].analyses
        /\ Ai[f].automatic <= 1 \/ Ai[f].overlapped
        /\ Ai[f].analyses > 0 /\ Ai[f].reason \in Silent => Ai[f].overlapped

OnlyCall(c) == \A d \in Callers \ {c} : ~(tx[d].busy /\ tx[d].finding = tx[c].finding)

CallsHonest ==
    \A c \in Callers : tx[c].busy =>
        LET f == tx[c].finding IN
        /\ tx[c].reason # "none" => Explained(f)
        /\ Ai[f].overlapped \/ /\ OnlyCall(c)
                               /\ ~tx[c].force => Ai[f].analyses = 0
                               /\ tx[c].reason = "none" => Ai[f].reason \notin Silent

\* What the loop has not explained yet is still ahead of it.
Reached ==
    /\ pc = "analyzed" => cands = {} \/ degraded \/ unnoted
    /\ pc \in {"analyze", "calling", "marking", "degrade", "analyzed"} /\ ~unnoted /\ Budget > 0 =>
        \A f \in DOMAIN rows : Open(f) =>
            \/ Explained(f)
            \/ f \in cands
            \/ pc \in {"calling", "marking"} /\ tx["node"].finding = f

AnalysisIInv == ImportIInv /\ AnalysisTypes /\ Columns /\ CallsHonest /\ Reached

LEMMA AiTyped ==
    ASSUME AnalysisTypes
    PROVE  /\ DOMAIN Ai = DOMAIN rows
           /\ \A f \in DOMAIN rows : Ai[f] \in AiRow
<1>1. Blank \in AiRow
  BY DEF Blank, AiRow, Reasons
<1> QED
  BY <1>1 DEF AnalysisTypes, Ai

LEMMA AnalysisShows == AnalysisIInv => AnalysisInv
<1> SUFFICES ASSUME AnalysisIInv PROVE AnalysisInv
  OBVIOUS
<1> USE DEF AnalysisIInv
<1>1. \A f \in DOMAIN ai : f \in DOMAIN rows /\ Ai[f] = ai[f]
  BY DEF AnalysisTypes, Ai
<1>2. TypeOK
  <2>1. \A f \in DOMAIN dd : f \in Id /\ dd[f] \subseteq Flags
    <3> SUFFICES ASSUME NEW f \in DOMAIN dd PROVE f \in Id
      BY DEF ImportIInv, DojoHolds
    <3>1. f = <<f[1], f[2]>> /\ f[1] \in Nat /\ tests[f[1]] \in Jobs /\ f[2] \in Reports[tests[f[1]]]
      BY SMTT(40) DEF ImportIInv, DojoHolds, ImportTypes, Test
    <3>2. f[2] \in Vulns
      BY <3>1, ImportConstants
    <3> QED
      BY <3>1, <3>2 DEF Id
  <2>2. \A f \in DOMAIN rows : f \in DOMAIN dd /\ rows[f] \in Row
    BY DEF ImportIInv, Mirrors, ImportTypes
  <2> QED
    BY <2>1, <2>2 DEF TypeOK, ImportIInv, ImportTypes, AnalysisTypes
<1>3. BlankIsExplained
  BY DEF Reached, BlankIsExplained
<1>4. AnalyzedOnceUnlessOverlapped
  BY <1>1 DEF Columns, AnalyzedOnceUnlessOverlapped
<1>5. ReasonHonestUnlessOverlapped
  BY <1>1 DEF Columns, ReasonHonestUnlessOverlapped, Silent
<1> QED
  BY <1>2, <1>3, <1>4, <1>5 DEF AnalysisInv

LEMMA AnalysisStarts == Init => AnalysisIInv
<1> SUFFICES ASSUME Init PROVE AnalysisIInv
  OBVIOUS
<1>1. ImportIInv
  BY ImportStarts DEF Init
<1>2. DOMAIN rows = {} /\ DOMAIN ai = {} /\ pc = "ensure"
  BY DEF Init, ImportInit
<1>3. \A c \in Callers : tx[c] = NoTx
  BY DEF Init
<1>4. "node" \in Callers
  BY DEF Callers
<1>5. AnalysisTypes
  BY <1>2, <1>3, <1>4, FS_EmptySet DEF AnalysisTypes, Init, NoTx
<1> QED
  BY <1>1, <1>2, <1>3, <1>5 DEF AnalysisIInv, Columns, CallsHonest, Reached, NoTx

LEMMA PairsFinite ==
    ASSUME NEW n \in Nat, NEW S, S \subseteq (1 .. n) \X Vulns
    PROVE  IsFiniteSet(S)
<1>1. IsFiniteSet(1 .. n)
  BY FS_Interval
<1>2. IsFiniteSet(Vulns)
  BY ImportConstants
<1>3. IsFiniteSet((1 .. n) \X Vulns)
  BY <1>1, <1>2, FS_Product
<1> QED
  BY <1>3, FS_Subset

\* A step of the import changes no column of the analysis; new rows are blank.
LEMMA ImportKeepsAnalysis ==
    ASSUME AnalysisIInv, [ImportNext]_importVars, UNCHANGED analysisVars
    PROVE  AnalysisIInv'
<1>1. AnalysisTypes /\ Columns /\ CallsHonest /\ Reached
  BY DEF AnalysisIInv
<1>2. ImportIInv'
  BY ImportKept DEF AnalysisIInv
<1>3. /\ DOMAIN rows \subseteq DOMAIN rows'
      /\ pc' = pc \/ pc' \in ImportPoints \cup {"correlate", "failed"}
      /\ pc' = "analyzed" \/ pc' \in AnalysisPoints => pc' = "correlate" \/ rows' = rows
      /\ pc = "calling" => pc' = "calling"
  <2>1. CASE Project
    BY <2>1 DEF Project, ImportPoints, AnalysisPoints
  <2>2. CASE UNCHANGED importVars
    BY <2>2 DEF importVars
  <2>3. CASE ImportNext /\ ~Project
    BY <2>3 DEF ImportNext, FindProduct, CreateProduct, EnsureEngagement, PlanImports, SkipJob,
           BeginJob, Upload, UploadUnanswered, CommitTest, ImportDone, ImportFails, ImportCrash,
           OtherCreatesProduct, Judge, storeVars, nodeVars, Goto, ImportPoints
  <2> QED
    BY <2>1, <2>2, <2>3
<1>4. UNCHANGED <<ai, cands, tx, degraded, unnoted>>
  BY DEF analysisVars
<1>5. AnalysisTypes'
  <2>1. tx'["node"].busy <=> pc' = "calling"
    BY <1>1, <1>3, <1>4 DEF AnalysisTypes, ImportPoints
  <2>2. pc' = "marking" => tx'["node"].finding \in DOMAIN rows'
    BY <1>1, <1>3, <1>4 DEF AnalysisTypes, ImportPoints
  <2>3. IsFiniteSet(DOMAIN rows')
    <3>1. Len(tests') \in Nat
      BY <1>2 DEF ImportIInv, ImportTypes
    <3>2. ASSUME NEW f \in DOMAIN rows' PROVE f \in (1 .. Len(tests')) \X Vulns
      <4>1. f \in DOMAIN dd'
        BY <1>2 DEF ImportIInv, Mirrors
      <4>2. /\ f = <<f[1], f[2]>> /\ f[1] \in 1 .. Len(tests') /\ tests'[f[1]] \in Jobs
            /\ f[2] \in Reports[tests'[f[1]]]
        BY <1>2, <4>1 DEF ImportIInv, DojoHolds, ImportTypes, Test
      <4>3. f[2] \in Vulns
        BY <4>2, ImportConstants
      <4> QED
        BY <4>2, <4>3
    <3> QED
      BY <3>1, <3>2, PairsFinite
  <2> QED
    <3>1. \A f \in DOMAIN ai' : f \in DOMAIN rows' /\ ai'[f] \in AiRow
      BY <1>1, <1>3, <1>4 DEF AnalysisTypes
    <3>2. cands' \subseteq DOMAIN rows'
      BY <1>1, <1>3, <1>4 DEF AnalysisTypes
    <3>3. tx' = [c \in Callers |-> tx'[c]]
      BY <1>1, <1>4 DEF AnalysisTypes
    <3>4. \A c \in Callers : tx'[c].busy => /\ tx'[c].finding \in DOMAIN rows'
                                            /\ tx'[c].reason \in Reasons
      BY <1>1, <1>3, <1>4 DEF AnalysisTypes
    <3> QED
      BY <2>1, <2>2, <2>3, <3>1, <3>2, <3>3, <3>4 DEF AnalysisTypes
<1>6. /\ \A f \in DOMAIN rows : Ai'[f] = Ai[f]
      /\ \A f \in DOMAIN rows' : f \in DOMAIN rows \/ Ai'[f] = Blank
  BY <1>1, <1>3, <1>4 DEF AnalysisTypes, Ai
<1>7. Columns'
  <2>1. Blank.automatic = 0 /\ Blank.analyses = 0 /\ Blank.reason = "none"
    BY DEF Blank
  <2> QED
    BY <1>1, <1>6, <2>1 DEF Columns
<1>8. CallsHonest'
  BY <1>1, <1>4, <1>6 DEF CallsHonest, OnlyCall, Explained, AnalysisTypes
<1>9. Reached'
  <2>1. CASE pc' = pc /\ rows' = rows
    BY <1>1, <1>4, <1>6, <2>1 DEF Reached, Explained, Open
  <2>2. CASE pc' \notin {"analyze", "calling", "marking", "degrade", "analyzed"}
    BY <2>2 DEF Reached
  <2> QED
    BY <1>3, <2>1, <2>2 DEF AnalysisPoints, ImportPoints
<1> QED
  BY <1>2, <1>5, <1>7, <1>8, <1>9 DEF AnalysisIInv


\* A write that leaves the counts alone: a row keeps its columns, or gets a reason,
\* which nobody could have loaded as null meanwhile unless the overlap is noted.
Marked(f) ==
    \/ Ai'[f] = Ai[f]
    \/ /\ Ai'[f] \in AiRow
       /\ Ai'[f].analyses = Ai[f].analyses
       /\ Ai'[f].automatic = Ai[f].automatic
       /\ Ai'[f].reason # "none"
       /\ Ai[f].overlapped => Ai'[f].overlapped
       /\ Ai'[f].reason \in Silent => /\ Ai[f].analyses = 0
                                      /\ InFlight(f) => Ai'[f].overlapped

\* The steps that end a call without an answer, or begin none, and at most mark rows.
LEMMA MarkingKeeps ==
    ASSUME AnalysisIInv, ImportIInv', UNCHANGED rows,
           DOMAIN ai' \subseteq DOMAIN rows,
           \A f \in DOMAIN ai' : ai'[f] \in AiRow,
           \A f \in DOMAIN rows : Marked(f),
           tx' = [c \in Callers |-> tx'[c]],
           \A c \in Callers : tx'[c] = tx[c] \/ ~tx'[c].busy,
           cands' \subseteq DOMAIN rows,
           tx'["node"].busy <=> pc' = "calling",
           pc' = "marking" => tx'["node"].finding \in DOMAIN rows,
           Reached'
    PROVE  AnalysisIInv'
<1>1. AnalysisTypes /\ Columns /\ CallsHonest
  BY DEF AnalysisIInv
<1>2. AnalysisTypes'
  <2>1. \A c \in Callers : tx'[c].busy => /\ tx'[c].finding \in DOMAIN rows'
                                          /\ tx'[c].reason \in Reasons
    BY <1>1 DEF AnalysisTypes
  <2> QED
    BY <1>1, <2>1 DEF AnalysisTypes
<1>3. Columns'
  <2> SUFFICES ASSUME NEW f \in DOMAIN rows
               PROVE  /\ Ai'[f].automatic <= Ai'[f].analyses
                      /\ Ai'[f].automatic <= 1 \/ Ai'[f].overlapped
                      /\ Ai'[f].analyses > 0 /\ Ai'[f].reason \in Silent => Ai'[f].overlapped
    BY DEF Columns
  <2>1. Marked(f) /\ Ai[f] \in AiRow
    BY <1>1, AiTyped
  <2> QED
    BY <1>1, <2>1 DEF Marked, Columns, AiRow
<1>4. CallsHonest'
  <2> SUFFICES ASSUME NEW c \in Callers, tx'[c].busy, NEW f, f = tx'[c].finding
               PROVE  /\ tx'[c].reason # "none" => Explained(f)'
                      /\ Ai'[f].overlapped \/ /\ OnlyCall(c)'
                                              /\ ~tx'[c].force => Ai'[f].analyses = 0
                                              /\ tx'[c].reason = "none" => Ai'[f].reason \notin Silent
    BY DEF CallsHonest
  <2>1. tx'[c] = tx[c] /\ tx[c].busy
    <3>1. \A d \in Callers : tx'[d].busy => tx'[d] = tx[d]
      BY Zenon
    <3> QED
      BY <3>1, Zenon
  <2>2. f \in DOMAIN rows /\ f = tx[c].finding
    BY <1>1, <2>1 DEF AnalysisTypes
  <2>3. InFlight(f)
    BY <2>1, <2>2 DEF InFlight
  <2>4. Marked(f)
    BY <2>2
  <2>5. OnlyCall(c) => OnlyCall(c)'
    BY <2>1 DEF OnlyCall
  <2>6. /\ tx[c].reason # "none" => Explained(f)
        /\ Ai[f].overlapped \/ /\ OnlyCall(c)
                               /\ ~tx[c].force => Ai[f].analyses = 0
                               /\ tx[c].reason = "none" => Ai[f].reason \notin Silent
    BY <1>1, <2>1, <2>2 DEF CallsHonest
  <2>7. Explained(f) => Explained(f)'
    BY <2>4 DEF Marked, Explained
  <2>8. tx'[c].reason # "none" => Explained(f)'
    BY <2>1, <2>6, <2>7
  <2>9. Ai'[f].overlapped \/ /\ OnlyCall(c)'
                             /\ ~tx'[c].force => Ai'[f].analyses = 0
                             /\ tx'[c].reason = "none" => Ai'[f].reason \notin Silent
    BY <2>1, <2>3, <2>4, <2>5, <2>6 DEF Marked
  <2> QED
    BY <2>8, <2>9
<1> QED
  BY <1>2, <1>3, <1>4 DEF AnalysisIInv

\* A call begins: if another is in flight for the finding, both are noted.
LEMMA CallBegins ==
    ASSUME AnalysisIInv, ImportIInv', UNCHANGED rows, NEW c \in Callers, NEW f \in DOMAIN rows,
           NEW force \in BOOLEAN,
           Wanted(f, force), ~tx[c].busy, CallModel(c, f, force),
           cands' \subseteq DOMAIN rows,
           tx'["node"].busy <=> pc' = "calling",
           pc' # "marking" \/ (pc = "marking" /\ c # "node"),
           (\A g \in DOMAIN rows : Explained(g) => Explained(g)') => Reached'
    PROVE  AnalysisIInv'
<1>1. AnalysisTypes /\ Columns /\ CallsHonest
  BY DEF AnalysisIInv
<1>2. /\ DOMAIN Ai = DOMAIN rows /\ \A g \in DOMAIN rows : Ai[g] \in AiRow
      /\ Ai[f].reason \in Reasons
  BY <1>1, AiTyped DEF AiRow
<1> DEFINE call == [busy |-> TRUE, finding |-> f, force |-> force, reason |-> Ai[f].reason]
<1>3. /\ tx' = [c2 \in Callers |-> IF c2 = c THEN call ELSE tx[c2]]
      /\ ai' = [Ai EXCEPT ![f].overlapped = @ \/ InFlight(f)]
  BY <1>1 DEF CallModel, AnalysisTypes
<1>4. /\ call.busy = TRUE /\ call.finding = f /\ call.force = force
      /\ call.reason = Ai[f].reason
  OBVIOUS
<1> HIDE DEF call
<1>5. /\ tx'[c] = call /\ \A d \in Callers : d # c => tx'[d] = tx[d]
      /\ tx' = [d \in Callers |-> tx'[d]]
  BY <1>3
<1>6. InFlight(f) \in BOOLEAN /\ Ai[f].overlapped \in BOOLEAN
  BY <1>2 DEF InFlight, AiRow
<1>7. /\ DOMAIN ai' = DOMAIN rows
      /\ \A g \in DOMAIN rows : g # f => ai'[g] = Ai[g]
      /\ ai'[f] = [Ai[f] EXCEPT !.overlapped = @ \/ InFlight(f)]
  BY <1>2, <1>3
<1>8. /\ ai'[f] \in AiRow /\ ai'[f].analyses = Ai[f].analyses
      /\ ai'[f].automatic = Ai[f].automatic /\ ai'[f].reason = Ai[f].reason
      /\ ai'[f].overlapped = (Ai[f].overlapped \/ InFlight(f))
  BY <1>2, <1>6, <1>7 DEF AiRow
<1>9. \A g \in DOMAIN rows : Ai'[g] = ai'[g]
  BY <1>7 DEF Ai
<1>10. AnalysisTypes'
  <2>1. \A g \in DOMAIN ai' : g \in DOMAIN rows /\ ai'[g] \in AiRow
    BY <1>2, <1>7, <1>8
  <2>2. \A d \in Callers : tx'[d].busy => /\ tx'[d].finding \in DOMAIN rows
                                          /\ tx'[d].reason \in Reasons
    BY <1>1, <1>2, <1>4, <1>5 DEF AnalysisTypes
  <2>3. pc' = "marking" => tx'["node"].finding \in DOMAIN rows
    <3>1. "node" \in Callers
      BY DEF Callers
    <3> QED
      BY <1>1, <1>5, <3>1 DEF AnalysisTypes
  <2> QED
    BY <1>1, <1>5, <2>1, <2>2, <2>3 DEF AnalysisTypes
<1>11. Columns'
  <2> SUFFICES ASSUME NEW g \in DOMAIN rows
               PROVE  /\ Ai'[g].automatic <= Ai'[g].analyses
                      /\ Ai'[g].automatic <= 1 \/ Ai'[g].overlapped
                      /\ Ai'[g].analyses > 0 /\ Ai'[g].reason \in Silent => Ai'[g].overlapped
    BY DEF Columns
  <2>1. CASE g = f
    BY <1>1, <1>8, <1>9, <2>1 DEF Columns
  <2>2. CASE g # f
    BY <1>1, <1>7, <1>9, <2>2 DEF Columns
  <2> QED
    BY <2>1, <2>2
<1>12. \A g \in DOMAIN rows : Explained(g) => Explained(g)'
  BY <1>7, <1>8, <1>9, ZenonT(60) DEF Explained
<1>13. CallsHonest'
  <2> SUFFICES ASSUME NEW d \in Callers, tx'[d].busy, NEW g, g = tx'[d].finding
               PROVE  /\ tx'[d].reason # "none" => Explained(g)'
                      /\ Ai'[g].overlapped \/ /\ OnlyCall(d)'
                                              /\ ~tx'[d].force => Ai'[g].analyses = 0
                                              /\ tx'[d].reason = "none" => Ai'[g].reason \notin Silent
    BY DEF CallsHonest
  <2>1. CASE d = c
    <3>1. g = f
      BY <1>4, <1>5, <2>1
    <3>2. tx'[d].reason # "none" => Explained(g)'
      BY <1>4, <1>5, <1>8, <1>9, <2>1, <3>1 DEF Explained
    <3>3. CASE InFlight(f)
      BY <1>8, <1>9, <3>1, <3>2, <3>3
    <3>4. CASE ~InFlight(f)
      <4>1. OnlyCall(d)'
        BY <1>4, <1>5, <2>1, <3>4 DEF OnlyCall, InFlight
      <4>2. ~tx'[d].force => Ai'[g].analyses = 0
        BY <1>4, <1>5, <1>8, <1>9, <2>1, <3>1 DEF Wanted
      <4>3. ~Ai[f].overlapped /\ Ai[f].reason \in Silent => Ai[f].analyses = 0
        BY <1>1, <1>2 DEF Columns, AiRow
      <4>4. tx'[d].reason = "none" => Ai'[g].reason \notin Silent
        BY <1>4, <1>5, <1>8, <1>9, <2>1, <3>1 DEF Silent
      <4> QED
        BY <3>2, <4>1, <4>2, <4>4
    <3> QED
      BY <3>3, <3>4
  <2>2. CASE d # c
    <3>1. tx'[d] = tx[d] /\ tx[d].busy /\ g \in DOMAIN rows
      BY <1>1, <1>5, <2>2 DEF AnalysisTypes
    <3>2. /\ tx[d].reason # "none" => Explained(g)
          /\ Ai[g].overlapped \/ /\ OnlyCall(d)
                                 /\ ~tx[d].force => Ai[g].analyses = 0
                                 /\ tx[d].reason = "none" => Ai[g].reason \notin Silent
      BY <1>1, <3>1 DEF CallsHonest
    <3>3. tx'[d].reason # "none" => Explained(g)'
      BY <1>12, <3>1, <3>2
    <3>4. CASE g = f
      <4>1. InFlight(f)
        BY <3>1, <3>4 DEF InFlight
      <4> QED
        BY <1>8, <1>9, <3>3, <3>4, <4>1
    <3>5. CASE g # f
      <4>1. Ai'[g] = Ai[g]
        BY <1>7, <1>9, <3>1, <3>5
      <4>2. OnlyCall(d) => OnlyCall(d)'
        BY <1>4, <1>5, <3>1, <3>5 DEF OnlyCall
      <4> QED
        BY <3>1, <3>2, <3>3, <4>1, <4>2
    <3> QED
      BY <3>4, <3>5
  <2> QED
    BY <2>1, <2>2
<1> QED
  BY <1>10, <1>11, <1>12, <1>13 DEF AnalysisIInv


\* An answer: the call of c ends with a stored or a rejected analysis.
LEMMA AnswerKeeps ==
    ASSUME AnalysisIInv, ImportIInv', UNCHANGED rows, NEW c \in Callers,
           tx[c].busy, ai' \in Judged(c), tx' = [tx EXCEPT ![c] = NoTx],
           cands' \subseteq DOMAIN rows,
           tx'["node"].busy <=> pc' = "calling",
           pc' # "marking" \/ (pc = "marking" /\ c # "node"),
           NEW f, f = tx[c].finding,
           Explained(f)' /\ (\A g \in DOMAIN rows : Explained(g) => Explained(g)') => Reached'
    PROVE  AnalysisIInv'
<1>1. AnalysisTypes /\ Columns /\ CallsHonest
  BY DEF AnalysisIInv
<1>2. f \in DOMAIN rows /\ f = tx[c].finding
  BY <1>1 DEF AnalysisTypes
<1>3. /\ DOMAIN Ai = DOMAIN rows /\ \A g \in DOMAIN rows : Ai[g] \in AiRow
      /\ tx[c].reason \in Reasons
  BY <1>1, AiTyped DEF AnalysisTypes
<1>4. /\ ~tx'[c].busy /\ \A d \in Callers : d # c => tx'[d] = tx[d]
      /\ tx' = [d \in Callers |-> tx'[d]]
  BY <1>1 DEF AnalysisTypes, NoTx
<1>5. /\ DOMAIN ai' = DOMAIN rows
      /\ \A g \in DOMAIN rows : g # f => ai'[g] = Ai[g]
  BY <1>2, <1>3 DEF Judged, Stored, Rejected
<1>6. \/ ai'[f] = [[[Ai[f] EXCEPT !.analyses = @ + 1]
                           EXCEPT !.automatic = IF tx[c].force THEN @ ELSE @ + 1]
                           EXCEPT !.reason = Flushed(tx[c].reason, "none", @)]
      \/ ai'[f] = [Ai[f] EXCEPT !.reason = Flushed(tx[c].reason, "rejected", @)]
  BY <1>2, <1>3, SMTT(40) DEF Judged, Stored, Rejected
<1>7. /\ ai'[f] \in AiRow
      /\ ai'[f].overlapped = Ai[f].overlapped
      /\ \/ /\ ai'[f].analyses = Ai[f].analyses + 1
            /\ ai'[f].automatic = Ai[f].automatic + (IF tx[c].force THEN 0 ELSE 1)
            /\ ai'[f].reason = Flushed(tx[c].reason, "none", Ai[f].reason)
         \/ /\ ai'[f].analyses = Ai[f].analyses
            /\ ai'[f].automatic = Ai[f].automatic
            /\ ai'[f].reason = Flushed(tx[c].reason, "rejected", Ai[f].reason)
  <2>1. Ai[f] \in AiRow
    BY <1>2, <1>3
  <2>2. Flushed(tx[c].reason, "none", Ai[f].reason) \in Reasons
    BY <2>1 DEF Flushed, Reasons, AiRow
  <2>3. Flushed(tx[c].reason, "rejected", Ai[f].reason) \in Reasons
    BY <2>1 DEF Flushed, Reasons, AiRow
  <2> DEFINE stored == Flushed(tx[c].reason, "none", Ai[f].reason)
             refused == Flushed(tx[c].reason, "rejected", Ai[f].reason)
             once == IF tx[c].force THEN Ai[f].automatic ELSE Ai[f].automatic + 1
  <2>4. \/ ai'[f] = [[[Ai[f] EXCEPT !.analyses = @ + 1] EXCEPT !.automatic = once]
                             EXCEPT !.reason = stored]
        \/ ai'[f] = [Ai[f] EXCEPT !.reason = refused]
    BY <1>6, <2>1 DEF AiRow
  <2>5. once \in Nat /\ once = Ai[f].automatic + (IF tx[c].force THEN 0 ELSE 1)
    BY <2>1 DEF AiRow
  <2> HIDE DEF stored, refused, once
  <2>6. CASE ai'[f] = [[[Ai[f] EXCEPT !.analyses = @ + 1] EXCEPT !.automatic = once]
                               EXCEPT !.reason = stored]
    <3> DEFINE counted == [[Ai[f] EXCEPT !.analyses = @ + 1] EXCEPT !.automatic = once]
    <3>1. /\ counted \in AiRow
          /\ counted.overlapped = Ai[f].overlapped
          /\ counted.analyses = Ai[f].analyses + 1
          /\ counted.automatic = once
      <4> DEFINE more == [Ai[f] EXCEPT !.analyses = @ + 1]
      <4>1. /\ more \in AiRow
            /\ more.overlapped = Ai[f].overlapped
            /\ more.analyses = Ai[f].analyses + 1
        BY <2>1 DEF AiRow
      <4>2. counted = [more EXCEPT !.automatic = once]
        OBVIOUS
      <4> HIDE DEF more, counted
      <4>3. /\ counted \in AiRow
            /\ counted.overlapped = more.overlapped
            /\ counted.analyses = more.analyses
            /\ counted.automatic = once
        BY <2>5, <4>1, <4>2 DEF AiRow
      <4> QED
        BY <4>1, <4>3
    <3>2. ai'[f] = [counted EXCEPT !.reason = stored]
      BY <2>6
    <3>3. stored \in Reasons
      BY <2>2 DEF stored
    <3> HIDE DEF counted
    <3>4. /\ ai'[f] \in AiRow
          /\ ai'[f].overlapped = counted.overlapped
          /\ ai'[f].analyses = counted.analyses
          /\ ai'[f].automatic = counted.automatic
          /\ ai'[f].reason = stored
      BY <3>1, <3>2, <3>3 DEF AiRow
    <3> QED
      BY <2>5, <3>1, <3>4 DEF stored
  <2>7. CASE ai'[f] = [Ai[f] EXCEPT !.reason = refused]
    <3>1. /\ ai'[f] \in AiRow
          /\ ai'[f].overlapped = Ai[f].overlapped
          /\ ai'[f].analyses = Ai[f].analyses
          /\ ai'[f].automatic = Ai[f].automatic
          /\ ai'[f].reason = refused
      BY <2>1, <2>3, <2>7 DEF AiRow, refused
    <3> QED
      BY <3>1 DEF refused
  <2> QED
    BY <2>4, <2>6, <2>7
<1>8. \A g \in DOMAIN rows : Ai'[g] = ai'[g]
  BY <1>5 DEF Ai
<1>9. AnalysisTypes'
  <2>1. \A g \in DOMAIN ai' : g \in DOMAIN rows /\ ai'[g] \in AiRow
    BY <1>3, <1>5, <1>7
  <2>2. \A d \in Callers : tx'[d].busy => /\ tx'[d].finding \in DOMAIN rows
                                          /\ tx'[d].reason \in Reasons
    BY <1>1, <1>4 DEF AnalysisTypes
  <2>3. pc' = "marking" => tx'["node"].finding \in DOMAIN rows
    <3>1. "node" \in Callers
      BY DEF Callers
    <3> QED
      BY <1>1, <1>4, <3>1 DEF AnalysisTypes
  <2> QED
    BY <1>1, <1>4, <2>1, <2>2, <2>3 DEF AnalysisTypes
<1>10. /\ tx[c].reason # "none" => Explained(f)
       /\ Ai[f].overlapped \/ /\ OnlyCall(c)
                              /\ ~tx[c].force => Ai[f].analyses = 0
                              /\ tx[c].reason = "none" => Ai[f].reason \notin Silent
  BY <1>1, <1>2 DEF CallsHonest
<1>11. /\ Ai[f].analyses \in Nat /\ Ai[f].automatic \in Nat
       /\ Ai[f].automatic <= Ai[f].analyses
       /\ Ai[f].automatic <= 1 \/ Ai[f].overlapped
       /\ Ai[f].analyses > 0 /\ Ai[f].reason \in Silent => Ai[f].overlapped
  BY <1>1, <1>2, <1>3 DEF Columns, AiRow
<1>12. Columns'
  <2> SUFFICES ASSUME NEW g \in DOMAIN rows
               PROVE  /\ Ai'[g].automatic <= Ai'[g].analyses
                      /\ Ai'[g].automatic <= 1 \/ Ai'[g].overlapped
                      /\ Ai'[g].analyses > 0 /\ Ai'[g].reason \in Silent => Ai'[g].overlapped
    BY DEF Columns
  <2>1. CASE g = f
    <3>1. Ai'[g] = ai'[f]
      BY <1>8, <2>1
    <3>2. ai'[f].automatic <= ai'[f].analyses
      BY <1>7, <1>11
    <3>3. ai'[f].automatic <= 1 \/ ai'[f].overlapped
      BY <1>7, <1>10, <1>11
    <3>4. ai'[f].analyses > 0 /\ ai'[f].reason \in Silent => ai'[f].overlapped
      BY <1>7, <1>10, <1>11 DEF Flushed, Silent
    <3> QED
      BY <3>1, <3>2, <3>3, <3>4
  <2>2. CASE g # f
    BY <1>1, <1>5, <1>8, <2>2 DEF Columns
  <2> QED
    BY <2>1, <2>2
<1>13. \A g \in DOMAIN rows : Explained(g) => Explained(g)'
  <2>1. ai'[f].analyses > 0 \/ (ai'[f].analyses = Ai[f].analyses /\ (Ai[f].reason # "none" => ai'[f].reason # "none"))
    BY <1>7, <1>11 DEF Flushed
  <2> QED
    BY <1>5, <1>8, <2>1 DEF Explained
<1>14. Explained(f)'
  <2>1. ai'[f].analyses > 0 \/ ai'[f].reason # "none"
    BY <1>7, <1>10, <1>11 DEF Flushed, Explained
  <2> QED
    BY <1>2, <1>8, <2>1 DEF Explained
<1>15. CallsHonest'
  <2> SUFFICES ASSUME NEW d \in Callers, tx'[d].busy, NEW g, g = tx'[d].finding
               PROVE  /\ tx'[d].reason # "none" => Explained(g)'
                      /\ Ai'[g].overlapped \/ /\ OnlyCall(d)'
                                              /\ ~tx'[d].force => Ai'[g].analyses = 0
                                              /\ tx'[d].reason = "none" => Ai'[g].reason \notin Silent
    BY DEF CallsHonest
  <2>1. d # c
    BY <1>4
  <2>2. tx'[d] = tx[d] /\ tx[d].busy /\ g \in DOMAIN rows /\ g = tx[d].finding
    BY <1>1, <1>4, <2>1 DEF AnalysisTypes
  <2>3. /\ tx[d].reason # "none" => Explained(g)
        /\ Ai[g].overlapped \/ /\ OnlyCall(d)
                               /\ ~tx[d].force => Ai[g].analyses = 0
                               /\ tx[d].reason = "none" => Ai[g].reason \notin Silent
    BY <1>1, <2>2 DEF CallsHonest
  <2>4. tx'[d].reason # "none" => Explained(g)'
    BY <1>13, <2>2, <2>3
  <2>5. OnlyCall(d) => OnlyCall(d)'
    BY <1>4, <2>2 DEF OnlyCall
  <2>6. CASE g = f
    <3>1. ~OnlyCall(d)
      BY <1>2, <2>1, <2>2, <2>6 DEF OnlyCall
    <3>2. Ai'[g].overlapped
      BY <1>2, <1>7, <1>8, <2>3, <2>6, <3>1
    <3> QED
      BY <2>4, <3>2
  <2>7. CASE g # f
    <3>1. Ai'[g] = Ai[g]
      BY <1>5, <1>8, <2>2, <2>7
    <3> QED
      BY <2>2, <2>3, <2>4, <2>5, <3>1
  <2> QED
    BY <2>6, <2>7
<1> QED
  BY <1>9, <1>12, <1>13, <1>14, <1>15 DEF AnalysisIInv


\* A row that is only marked keeps what it explains.
LEMMA MarkedExplains ==
    ASSUME NEW f, Marked(f), Explained(f)
    PROVE  Explained(f)'
BY DEF Marked, Explained

LEMMA MarkSkippedMarks ==
    ASSUME NEW table, NEW S, NEW why \in Reasons \ {"none"}, NEW f \in DOMAIN table,
           table[f] \in AiRow
    PROVE  LET row == MarkSkipped(table, S, why)[f] IN
           /\ row \in AiRow
           /\ f \notin S => row = table[f]
           /\ \/ row = table[f] /\ (f \in S => table[f].analyses > 0)
              \/ /\ f \in S /\ table[f].analyses = 0
                 /\ row.analyses = table[f].analyses
                 /\ row.automatic = table[f].automatic
                 /\ row.reason = why
                 /\ row.overlapped = (table[f].overlapped \/ InFlight(f))
<1> DEFINE row == MarkSkipped(table, S, why)[f]
<1>1. row = IF f \in S /\ table[f].analyses = 0
              THEN [table[f] EXCEPT !.reason = why, !.overlapped = @ \/ InFlight(f)]
              ELSE table[f]
  BY DEF MarkSkipped
<1>2. InFlight(f) \in BOOLEAN /\ table[f].overlapped \in BOOLEAN /\ table[f].analyses \in Nat
  BY DEF InFlight, AiRow
<1> HIDE DEF row
<1>3. CASE f \in S /\ table[f].analyses = 0
  <2>1. row = [table[f] EXCEPT !.reason = why, !.overlapped = @ \/ InFlight(f)]
    BY <1>1, <1>3
  <2>2. /\ row \in AiRow
        /\ row.analyses = table[f].analyses
        /\ row.automatic = table[f].automatic
        /\ row.reason = why
        /\ row.overlapped = (table[f].overlapped \/ InFlight(f))
    BY <1>2, <2>1 DEF AiRow
  <2> QED
    BY <1>3, <2>2 DEF row
<1>4. CASE ~(f \in S /\ table[f].analyses = 0)
  <2>1. row = table[f]
    BY <1>1, <1>4
  <2> QED
    BY <1>2, <1>4, <2>1 DEF row
<1> QED
  BY <1>3, <1>4


\* A step that writes no column.
LEMMA QuietKeeps ==
    ASSUME AnalysisIInv, ImportIInv', UNCHANGED <<rows, ai>>,
           tx' = [c \in Callers |-> tx'[c]],
           \A c \in Callers : tx'[c] = tx[c] \/ ~tx'[c].busy,
           cands' \subseteq DOMAIN rows,
           tx'["node"].busy <=> pc' = "calling",
           pc' = "marking" => tx'["node"].finding \in DOMAIN rows,
           (\A f \in DOMAIN rows : Explained(f)' <=> Explained(f)) => Reached'
    PROVE  AnalysisIInv'
<1>1. Ai' = Ai
  BY DEF Ai
<1>2. \A f \in DOMAIN rows : Marked(f)
  BY <1>1 DEF Marked
<1>3. \A f \in DOMAIN rows : Explained(f)' <=> Explained(f)
  BY <1>1 DEF Explained
<1>4. Reached'
  BY <1>3
<1>5. DOMAIN ai' \subseteq DOMAIN rows /\ \A f \in DOMAIN ai' : ai'[f] \in AiRow
  BY DEF AnalysisIInv, AnalysisTypes
<1> QED
  BY <1>2, <1>4, <1>5, MarkingKeeps

\* The callers after the node let go of its call.
LEMMA NodeLetsGo ==
    ASSUME AnalysisIInv, tx' = [tx EXCEPT !["node"] = NoTx]
    PROVE  /\ tx' = [c \in Callers |-> tx'[c]]
           /\ \A c \in Callers : tx'[c] = tx[c] \/ ~tx'[c].busy
           /\ ~tx'["node"].busy
<1>1. "node" \in Callers
  BY DEF Callers
<1>2. tx = [c \in Callers |-> tx[c]]
  BY DEF AnalysisIInv, AnalysisTypes
<1> QED
  BY <1>1, <1>2 DEF NoTx

LEMMA NodeKeepsAnalysis ==
    ASSUME AnalysisIInv, ImportIInv', NodeOfAnalysis
    PROVE  AnalysisIInv'
<1>1. AnalysisTypes /\ Columns /\ CallsHonest /\ Reached
  BY DEF AnalysisIInv
<1>2. UNCHANGED rows
  BY NodeKeepsImport DEF storeVars
<1>3. "node" \in Callers
  BY DEF Callers
<1>4. /\ tx = [c \in Callers |-> tx[c]] /\ cands \subseteq DOMAIN rows
      /\ tx["node"].busy <=> pc = "calling"
      /\ IsFiniteSet(DOMAIN rows)
  BY <1>1 DEF AnalysisTypes
<1>5. \A f : Open(f)' <=> Open(f)
  BY <1>2 DEF Open
<1>6. CASE CorrelateBegin
  <2>1. /\ pc = "correlate" /\ pc' = "correlating"
        /\ UNCHANGED <<rows, ai, cands, tx>>
    BY <1>2, <1>6 DEF CorrelateBegin, StepTo, Goto
  <2>2. Reached'
    BY <2>1 DEF Reached
  <2> QED
    BY <1>4, <2>1, <2>2, QuietKeeps
<1>7. CASE CorrelateEnd
  <2>1. PICK S \in FalsePositives :
          ai' = [f \in DOMAIN rows |->
                    IF f \in S THEN [Ai[f] EXCEPT !.reason = "flagged"] ELSE Ai[f]]
    BY <1>7 DEF CorrelateEnd
  <2>2. /\ pc = "correlating" /\ pc' = "select"
        /\ UNCHANGED <<rows, cands, tx>>
    BY <1>2, <1>7 DEF CorrelateEnd, StepTo, Goto
  <2>3. Reached'
    BY <2>2 DEF Reached
  <2>4. DOMAIN ai' = DOMAIN rows /\ \A f \in DOMAIN rows : Ai'[f] = ai'[f]
    BY <1>2, <2>1 DEF Ai
  <2>5. ASSUME NEW f \in DOMAIN rows PROVE ai'[f] \in AiRow /\ Marked(f)
    <3>1. Ai[f] \in AiRow
      BY <1>1, AiTyped
    <3>2. CASE f \in S
      <4>1. ai'[f] = [Ai[f] EXCEPT !.reason = "flagged"]
        BY <2>1, <3>2
      <4>2. /\ ai'[f] \in AiRow /\ ai'[f].analyses = Ai[f].analyses
            /\ ai'[f].automatic = Ai[f].automatic /\ ai'[f].reason = "flagged"
            /\ ai'[f].overlapped = Ai[f].overlapped
        BY <3>1, <4>1 DEF AiRow, Reasons
      <4> QED
        BY <2>4, <4>2 DEF Marked, Silent
    <3>3. CASE f \notin S
      BY <2>1, <2>4, <3>1, <3>3 DEF Marked
    <3> QED
      BY <3>2, <3>3
  <2>6. \A c \in Callers : tx'[c] = tx[c] \/ ~tx'[c].busy
    BY <2>2
  <2>7. /\ tx' = [c \in Callers |-> tx'[c]] /\ cands' \subseteq DOMAIN rows
        /\ tx'["node"].busy <=> pc' = "calling"
    BY <1>4, <2>2
  <2> QED
    BY <1>2, <2>2, <2>3, <2>4, <2>5, <2>6, <2>7, MarkingKeeps
<1>8. CASE SelectCandidates
  <2> DEFINE open == {f \in DOMAIN rows : Open(f) /\ InFloor(f)}
             floored == MarkSkipped(Ai, {f \in DOMAIN rows : ~InFloor(f)}, "floor")
  <2>1. PICK S \in SUBSET open :
          /\ Cardinality(S) = IF Cardinality(open) < Budget THEN Cardinality(open) ELSE Budget
          /\ cands' = S
          /\ ai' = IF S = {} THEN floored
                   ELSE MarkSkipped(floored, {f \in DOMAIN rows : InFloor(f)} \ S, "budget")
    BY <1>8, ZenonT(60) DEF SelectCandidates
  <2>2. /\ pc = "select" /\ pc' = "analyze"
        /\ UNCHANGED <<rows, tx, unnoted>>
    BY <1>2, <1>8 DEF SelectCandidates, StepTo, Goto
  <2>3. S = {} /\ Budget > 0 => open = {}
    <3>1. IsFiniteSet(open)
      BY <1>4, FS_Subset
    <3> HIDE DEF open
    <3>2. /\ Cardinality(open) = 0 <=> open = {}
          /\ Cardinality(open) \in Nat
      BY <3>1, FS_EmptySet, FS_CardinalityType
    <3>3. S = {} => Cardinality(S) = 0
      BY FS_EmptySet
    <3>4. Budget \in Nat
      BY AnalysisConstants, SMTT(40)
    <3> QED
      BY <2>1, <3>2, <3>3, <3>4
  <2>4. DOMAIN Ai = DOMAIN rows /\ \A f \in DOMAIN rows : Ai[f] \in AiRow
    BY <1>1, AiTyped, SMTT(40)
  <2> DEFINE over == {f \in DOMAIN rows : InFloor(f)} \ S
             low == {f \in DOMAIN rows : ~InFloor(f)}
  <2>5. DOMAIN floored = DOMAIN rows
    BY <2>4, SMTT(40) DEF MarkSkipped
  <2>6. DOMAIN ai' = DOMAIN rows
    BY <2>1, <2>5 DEF MarkSkipped
  <2>7. \A f \in DOMAIN rows : Ai'[f] = ai'[f]
    BY <1>2, <2>6 DEF Ai
  <2>8. {"floor", "budget"} \subseteq Reasons \ {"none"}
    BY DEF Reasons
  <2>9. ASSUME NEW f \in DOMAIN rows
        PROVE  /\ ai'[f] \in AiRow
               /\ Marked(f)
               /\ Budget > 0 => ~Open(f) \/ f \in cands' \/ Explained(f)'
    <3> HIDE DEF over, open
    <3>1. CASE ~InFloor(f)
      <4>1. /\ floored[f] \in AiRow
            /\ \/ floored[f] = Ai[f] /\ (f \in low => Ai[f].analyses > 0)
               \/ /\ f \in low /\ Ai[f].analyses = 0
                  /\ floored[f].analyses = Ai[f].analyses
                  /\ floored[f].automatic = Ai[f].automatic
                  /\ floored[f].reason = "floor"
                  /\ floored[f].overlapped = (Ai[f].overlapped \/ InFlight(f))
        <5> HIDE DEF floored
        <5> QED
          BY <2>4, <2>8, MarkSkippedMarks DEF floored
      <4>2. f \in low /\ f \notin over
        BY <3>1 DEF over
      <4> HIDE DEF floored, low
      <4>3. ai'[f] = floored[f]
        <5>1. CASE S = {}
          BY <2>1, <5>1
        <5>2. CASE S # {}
          <6>1. ai' = MarkSkipped(floored, over, "budget")
            BY <2>1, <5>2 DEF over
          <6> QED
            BY <2>5, <4>2, <6>1 DEF MarkSkipped
        <5> QED
          BY <5>1, <5>2
      <4> QED
        BY <2>7, <4>1, <4>2, <4>3 DEF Marked, Silent, Explained
    <3>2. CASE InFloor(f)
      <4>1. floored[f] = Ai[f]
        <5>1. f \notin low
          BY <3>2
        <5> HIDE DEF floored
        <5> QED
          BY <2>4, <2>8, <5>1, MarkSkippedMarks DEF floored
      <4> HIDE DEF floored, low
      <4>2. CASE S = {}
        <5>1. ai'[f] = Ai[f]
          BY <2>1, <4>1, <4>2
        <5>2. Budget > 0 => ~Open(f)
          BY <2>3, <3>2, <4>2 DEF open
        <5> QED
          BY <2>4, <2>7, <5>1, <5>2 DEF Marked
      <4>3. CASE S # {}
        <5>1. ai' = MarkSkipped(floored, over, "budget")
          BY <2>1, <4>3 DEF over
        <5>2. /\ ai'[f] \in AiRow
              /\ f \notin over => ai'[f] = Ai[f]
              /\ \/ ai'[f] = Ai[f] /\ (f \in over => Ai[f].analyses > 0)
                 \/ /\ f \in over /\ Ai[f].analyses = 0
                    /\ ai'[f].analyses = Ai[f].analyses
                    /\ ai'[f].automatic = Ai[f].automatic
                    /\ ai'[f].reason = "budget"
                    /\ ai'[f].overlapped = (Ai[f].overlapped \/ InFlight(f))
          BY <2>4, <2>5, <2>8, <4>1, <5>1, MarkSkippedMarks
        <5>3. f \in over \/ f \in cands'
          BY <2>1, <3>2 DEF over
        <5> QED
          BY <2>7, <5>2, <5>3 DEF Marked, Silent, Explained
      <4> QED
        BY <4>2, <4>3
    <3> QED
      BY <3>1, <3>2
  <2>10. Reached'
    BY <1>2, <1>5, <2>2, <2>9 DEF Reached
  <2>11. \A c \in Callers : tx'[c] = tx[c] \/ ~tx'[c].busy
    BY <2>2
  <2>12. /\ tx' = [c \in Callers |-> tx'[c]] /\ cands' \subseteq DOMAIN rows
         /\ tx'["node"].busy <=> pc' = "calling"
    BY <1>4, <2>1, <2>2
  <2> QED
    BY <1>2, <2>2, <2>6, <2>9, <2>10, <2>11, <2>12, MarkingKeeps
<1>9. ASSUME NEW f \in DOMAIN rows, NodeCall(f) PROVE AnalysisIInv'
  <2>1. /\ pc = "analyze" /\ f \in cands /\ cands' = cands \ {f}
        /\ UNCHANGED <<rows, degraded, unnoted>>
    BY <1>2, <1>9 DEF NodeCall
  <2>2. CASE ~Wanted(f, FALSE)
    <3>1. pc' = "analyze" /\ UNCHANGED <<ai, tx>>
      BY <1>9, <2>2 DEF NodeCall, StepTo, Goto
    <3>2. Explained(f)
      <4>1. Ai[f] \in AiRow
        BY <1>1, AiTyped
      <4> QED
        BY <2>2, <4>1 DEF Wanted, Explained, AiRow
    <3>3. (\A g \in DOMAIN rows : Explained(g)' <=> Explained(g)) => Reached'
      BY <1>1, <1>5, <2>1, <3>1, <3>2 DEF Reached
    <3>4. \A c \in Callers : tx'[c] = tx[c] \/ ~tx'[c].busy
      BY <3>1
    <3>5. /\ tx' = [c \in Callers |-> tx'[c]] /\ cands' \subseteq DOMAIN rows
          /\ tx'["node"].busy <=> pc' = "calling"
      BY <1>4, <2>1, <3>1
    <3> QED
      BY <1>2, <3>1, <3>3, <3>4, <3>5, QuietKeeps
  <2>3. CASE Wanted(f, FALSE)
    <3>1. pc' = "calling" /\ CallModel("node", f, FALSE)
      BY <1>9, <2>3 DEF NodeCall, StepTo, Goto
    <3>2. tx'["node"].busy /\ tx'["node"].finding = f
      BY <1>3, <1>4, <3>1 DEF CallModel
    <3>3. (\A g \in DOMAIN rows : Explained(g) => Explained(g)') => Reached'
      BY <1>1, <1>5, <2>1, <3>1, <3>2 DEF Reached
    <3>4. /\ ~tx["node"].busy /\ cands' \subseteq DOMAIN rows
          /\ tx'["node"].busy <=> pc' = "calling"
          /\ pc' # "marking"
      BY <1>4, <2>1, <3>1, <3>2
    <3> QED
      BY <1>2, <1>3, <2>3, <3>1, <3>3, <3>4, CallBegins
  <2> QED
    BY <2>2, <2>3
<1>10. CASE NodeAnswer
  <2>1. /\ pc = "calling" /\ pc' = "analyze" /\ ai' \in Judged("node")
        /\ tx' = [tx EXCEPT !["node"] = NoTx]
        /\ UNCHANGED <<rows, cands, degraded, unnoted>>
    BY <1>2, <1>10 DEF NodeAnswer, StepTo, Goto
  <2>2. PICK f : f = tx["node"].finding
    OBVIOUS
  <2>3. Explained(f)' /\ (\A g \in DOMAIN rows : Explained(g) => Explained(g)') => Reached'
    BY <1>1, <1>5, <2>1, <2>2 DEF Reached
  <2>4. ~tx'["node"].busy
    BY <2>1, NodeLetsGo
  <2>5. /\ tx["node"].busy /\ cands' \subseteq DOMAIN rows
        /\ tx'["node"].busy <=> pc' = "calling"
        /\ pc' # "marking"
    BY <1>4, <2>1, <2>4
  <2> QED
    BY <1>2, <1>3, <2>1, <2>2, <2>3, <2>5, AnswerKeeps
<1>11. CASE NodeAiError
  <2>1. /\ pc = "calling" /\ pc' = "marking"
        /\ tx' = [tx EXCEPT !["node"] = [busy |-> FALSE, finding |-> @.finding]]
        /\ UNCHANGED <<rows, ai, cands, degraded, unnoted>>
    BY <1>2, <1>11 DEF NodeAiError, StepTo, Goto
  <2>2. /\ tx' = [c \in Callers |-> tx'[c]]
        /\ \A c \in Callers : tx'[c] = tx[c] \/ ~tx'[c].busy
        /\ ~tx'["node"].busy /\ tx'["node"].finding = tx["node"].finding
    BY <1>3, <1>4, <2>1
  <2>3. tx["node"].finding \in DOMAIN rows
    BY <1>1, <1>3, <1>4, <2>1 DEF AnalysisTypes
  <2>4. (\A g \in DOMAIN rows : Explained(g)' <=> Explained(g)) => Reached'
    BY <1>1, <1>2, <1>5, <2>1, <2>2 DEF Reached
  <2>5. cands' \subseteq DOMAIN rows /\ (tx'["node"].busy <=> pc' = "calling")
    BY <1>4, <2>1, <2>2
  <2> QED
    BY <2>1, <2>2, <2>3, <2>4, <2>5, QuietKeeps
<1>12. CASE NodeModelDown
  <2>1. /\ pc = "calling" /\ pc' = "degrade"
        /\ cands' = cands \cup {tx["node"].finding}
        /\ tx' = [tx EXCEPT !["node"] = NoTx]
        /\ UNCHANGED <<rows, ai, degraded, unnoted>>
    BY <1>2, <1>12 DEF NodeModelDown, StepTo, Goto
  <2>2. tx["node"].finding \in DOMAIN rows
    BY <1>1, <1>3, <1>4, <2>1 DEF AnalysisTypes
  <2>3. (\A g \in DOMAIN rows : Explained(g)' <=> Explained(g)) => Reached'
    BY <1>1, <1>2, <1>5, <2>1 DEF Reached
  <2>4. /\ tx' = [c \in Callers |-> tx'[c]]
        /\ \A c \in Callers : tx'[c] = tx[c] \/ ~tx'[c].busy
        /\ ~tx'["node"].busy
    BY <2>1, NodeLetsGo
  <2>5. /\ cands' \subseteq DOMAIN rows /\ (tx'["node"].busy <=> pc' = "calling")
        /\ pc' # "marking"
    BY <1>4, <2>1, <2>2, <2>4
  <2> QED
    BY <2>1, <2>3, <2>4, <2>5, QuietKeeps
<1>13. CASE MarkFinding
  <2>1. /\ pc = "marking" /\ pc' = "analyze"
        /\ tx' = [tx EXCEPT !["node"] = NoTx]
        /\ UNCHANGED <<rows, cands, degraded>>
    BY <1>2, <1>13 DEF MarkFinding, StepTo, Goto
  <2>2. /\ tx' = [c \in Callers |-> tx'[c]]
        /\ \A c \in Callers : tx'[c] = tx[c] \/ ~tx'[c].busy
        /\ ~tx'["node"].busy
    BY <2>1, NodeLetsGo
  <2>3. /\ cands' \subseteq DOMAIN rows /\ (tx'["node"].busy <=> pc' = "calling")
        /\ pc' # "marking"
    BY <1>4, <2>1, <2>2
  <2>4. PICK m \in DOMAIN rows : m = tx["node"].finding
    BY <1>1, <2>1 DEF AnalysisTypes
  <2>5. CASE ai' = MarkSkipped(Ai, {m}, "error") /\ UNCHANGED unnoted
    <3>1. DOMAIN Ai = DOMAIN rows /\ \A f \in DOMAIN rows : Ai[f] \in AiRow
      BY <1>1, AiTyped
    <3>2. DOMAIN ai' = DOMAIN rows
      BY <2>5, <3>1 DEF MarkSkipped
    <3>3. \A f \in DOMAIN rows : Ai'[f] = ai'[f]
      BY <1>2, <3>2 DEF Ai
    <3>4. ASSUME NEW f \in DOMAIN rows
          PROVE  ai'[f] \in AiRow /\ Marked(f) /\ (f = m => Explained(f)')
      <4>1. /\ ai'[f] \in AiRow
            /\ \/ ai'[f] = Ai[f] /\ (f \in {m} => Ai[f].analyses > 0)
               \/ /\ f \in {m} /\ Ai[f].analyses = 0
                  /\ ai'[f].analyses = Ai[f].analyses
                  /\ ai'[f].automatic = Ai[f].automatic
                  /\ ai'[f].reason = "error"
                  /\ ai'[f].overlapped = (Ai[f].overlapped \/ InFlight(f))
        <5>1. "error" \in Reasons \ {"none"}
          BY DEF Reasons
        <5> QED
          BY <2>5, <3>1, <5>1, MarkSkippedMarks
      <4> QED
        BY <3>3, <4>1 DEF Marked, Explained, Silent
    <3>5. \A f \in DOMAIN rows : Explained(f) => Explained(f)'
      BY <3>4, MarkedExplains
    <3>6. Explained(m)'
      BY <3>4
    <3>7. Reached'
      BY <1>1, <1>2, <1>5, <2>1, <2>4, <2>5, <3>5, <3>6 DEF Reached
    <3> QED
      BY <1>2, <2>2, <2>3, <3>2, <3>4, <3>7, MarkingKeeps
  <2>6. CASE unnoted' = TRUE /\ UNCHANGED ai
    <3>1. Reached'
      BY <2>1, <2>6 DEF Reached
    <3> QED
      BY <2>1, <2>2, <2>3, <2>6, <3>1, QuietKeeps
  <2> QED
    BY <1>13, <2>4, <2>5, <2>6 DEF MarkFinding
<1>14. CASE Degrade \/ AnalyzeDone
  <2>1. /\ pc \in {"degrade", "analyze"} /\ pc' = "analyzed"
        /\ UNCHANGED <<rows, ai, cands, tx>>
        /\ \/ degraded' = TRUE /\ UNCHANGED unnoted
           \/ unnoted' = TRUE
           \/ cands = {} /\ UNCHANGED <<degraded, unnoted>>
    BY <1>2, <1>14 DEF Degrade, RecordDegradation, AnalyzeDone, StepTo, Goto
  <2>2. (\A g \in DOMAIN rows : Explained(g)' <=> Explained(g)) => Reached'
    BY <1>1, <1>2, <1>5, <2>1 DEF Reached
  <2>3. \A c \in Callers : tx'[c] = tx[c] \/ ~tx'[c].busy
    BY <2>1
  <2>4. /\ tx' = [c \in Callers |-> tx'[c]] /\ cands' \subseteq DOMAIN rows
        /\ tx'["node"].busy <=> pc' = "calling"
        /\ pc' # "marking"
    BY <1>4, <2>1
  <2> QED
    BY <2>1, <2>2, <2>3, <2>4, QuietKeeps
<1>15. CASE AnalysisFails \/ AnalysisCrash
  <2>1. /\ pc' \in {"failed", "correlate", "select"}
        /\ tx' = [tx EXCEPT !["node"] = NoTx]
        /\ UNCHANGED <<rows, ai>>
        /\ cands' = cands \/ cands' = {}
    BY <1>2, <1>15 DEF AnalysisFails, AnalysisCrash, StepTo, Goto
  <2>2. Reached'
    BY <2>1 DEF Reached
  <2>3. /\ tx' = [c \in Callers |-> tx'[c]]
        /\ \A c \in Callers : tx'[c] = tx[c] \/ ~tx'[c].busy
        /\ ~tx'["node"].busy
    BY <2>1, NodeLetsGo
  <2>4. /\ cands' \subseteq DOMAIN rows /\ (tx'["node"].busy <=> pc' = "calling")
        /\ pc' # "marking"
    BY <1>4, <2>1, <2>3
  <2> QED
    BY <2>1, <2>2, <2>3, <2>4, QuietKeeps
<1> QED
  BY <1>6, <1>7, <1>8, <1>9, <1>10, <1>11, <1>12, <1>13, <1>14, <1>15 DEF NodeOfAnalysis


LEMMA RequestKeepsAnalysis ==
    ASSUME AnalysisIInv, ImportIInv', NEW o \in Operators, NEW f \in DOMAIN rows,
           NEW force \in BOOLEAN, Request(o, f, force)
    PROVE  AnalysisIInv'
<1>1. AnalysisTypes /\ Columns /\ CallsHonest /\ Reached
  BY DEF AnalysisIInv
<1>2. /\ o \in Callers /\ o # "node" /\ "node" \in Callers
  BY AnalysisConstants DEF Callers
<1>3. /\ UNCHANGED <<pc, rows, cands, degraded, unnoted>>
      /\ ~tx[o].busy /\ Wanted(f, force)
  BY DEF Request, importVars
<1>4. /\ tx = [c \in Callers |-> tx[c]] /\ cands \subseteq DOMAIN rows
      /\ tx["node"].busy <=> pc = "calling"
      /\ pc = "marking" => tx["node"].finding \in DOMAIN rows
  BY <1>1 DEF AnalysisTypes
<1>5. \A g : Open(g)' <=> Open(g)
  BY <1>3 DEF Open
<1>6. CASE SkipReason(f, force) # "none"
  <2>1. /\ ai' = [Ai EXCEPT ![f].reason = SkipReason(f, force),
                            ![f].overlapped = @ \/ InFlight(f)]
        /\ UNCHANGED tx
    BY <1>6 DEF Request
  <2>2. DOMAIN Ai = DOMAIN rows /\ \A g \in DOMAIN rows : Ai[g] \in AiRow
    BY <1>1, AiTyped
  <2>3. /\ DOMAIN ai' = DOMAIN rows
        /\ \A g \in DOMAIN rows : g # f => ai'[g] = Ai[g]
        /\ ai'[f] = [[Ai[f] EXCEPT !.reason = SkipReason(f, force)]
                            EXCEPT !.overlapped = @ \/ InFlight(f)]
    BY <2>1, <2>2
  <2>4. /\ SkipReason(f, force) \in Reasons \ {"none"}
        /\ SkipReason(f, force) \in Silent => ~force
    BY <1>6 DEF SkipReason, Reasons, Silent
  <2>5. /\ ai'[f] \in AiRow
        /\ ai'[f].analyses = Ai[f].analyses
        /\ ai'[f].automatic = Ai[f].automatic
        /\ ai'[f].reason = SkipReason(f, force)
        /\ ai'[f].overlapped = (Ai[f].overlapped \/ InFlight(f))
    <3> DEFINE told == [Ai[f] EXCEPT !.reason = SkipReason(f, force)]
    <3>1. /\ told \in AiRow
          /\ told.analyses = Ai[f].analyses
          /\ told.automatic = Ai[f].automatic
          /\ told.reason = SkipReason(f, force)
          /\ told.overlapped = Ai[f].overlapped
      BY <2>2, <2>4 DEF AiRow
    <3>2. InFlight(f) \in BOOLEAN /\ told.overlapped \in BOOLEAN
      BY <3>1 DEF InFlight, AiRow
    <3>3. ai'[f] = [told EXCEPT !.overlapped = @ \/ InFlight(f)]
      BY <2>3
    <3> HIDE DEF told
    <3> QED
      BY <3>1, <3>2, <3>3 DEF AiRow
  <2>6. \A g \in DOMAIN rows : Ai'[g] = ai'[g]
    BY <1>3, <2>3 DEF Ai
  <2>7. \A g \in DOMAIN rows : ai'[g] \in AiRow /\ Marked(g)
    <3>1. SkipReason(f, force) \in Silent => Ai[f].analyses = 0
      BY <1>3, <2>4 DEF Wanted
    <3> QED
      BY <2>2, <2>3, <2>4, <2>5, <2>6, <3>1, ZenonT(60) DEF Marked
  <2>8. \A g \in DOMAIN rows : Explained(g) => Explained(g)'
    BY <2>7, MarkedExplains
  <2>9. Reached'
    BY <1>1, <1>3, <1>5, <2>1, <2>8 DEF Reached
  <2>10. \A c \in Callers : tx'[c] = tx[c] \/ ~tx'[c].busy
    BY <2>1
  <2>11. /\ tx' = [c \in Callers |-> tx'[c]] /\ cands' \subseteq DOMAIN rows
         /\ tx'["node"].busy <=> pc' = "calling"
         /\ pc' = "marking" => tx'["node"].finding \in DOMAIN rows
    BY <1>3, <1>4, <2>1
  <2> QED
    BY <1>3, <2>3, <2>7, <2>9, <2>10, <2>11, MarkingKeeps
<1>7. CASE SkipReason(f, force) = "none"
  <2>1. CallModel(o, f, force)
    BY <1>7 DEF Request
  <2>2. tx'["node"] = tx["node"]
    BY <1>2, <1>4, <2>1 DEF CallModel
  <2>3. (\A g \in DOMAIN rows : Explained(g) => Explained(g)') => Reached'
    BY <1>1, <1>3, <1>5, <2>2 DEF Reached
  <2>4. /\ cands' \subseteq DOMAIN rows
        /\ tx'["node"].busy <=> pc' = "calling"
        /\ pc' # "marking" \/ (pc = "marking" /\ o # "node")
    BY <1>2, <1>3, <1>4, <2>2
  <2> QED
    BY <1>2, <1>3, <2>1, <2>3, <2>4, CallBegins
<1> QED
  BY <1>6, <1>7

LEMMA RollbackKeepsAnalysis ==
    ASSUME AnalysisIInv, ImportIInv', NEW o \in Operators, Answer(o)
    PROVE  AnalysisIInv'
<1>1. AnalysisTypes /\ Columns /\ CallsHonest /\ Reached
  BY DEF AnalysisIInv
<1>2. /\ o \in Callers /\ o # "node" /\ "node" \in Callers
  BY AnalysisConstants DEF Callers
<1>3. /\ UNCHANGED <<pc, rows, cands, degraded, unnoted>>
      /\ tx[o].busy
      /\ tx' = [tx EXCEPT ![o] = NoTx]
  BY DEF Answer, importVars
<1>4. /\ tx = [c \in Callers |-> tx[c]] /\ cands \subseteq DOMAIN rows
      /\ tx["node"].busy <=> pc = "calling"
      /\ pc = "marking" => tx["node"].finding \in DOMAIN rows
  BY <1>1 DEF AnalysisTypes
<1>5. \A g : Open(g)' <=> Open(g)
  BY <1>3 DEF Open
<1>6. tx'["node"] = tx["node"]
  BY <1>2, <1>3, <1>4
<1>7. (\A g \in DOMAIN rows : Explained(g) => Explained(g)') => Reached'
  BY <1>1, <1>3, <1>5, <1>6 DEF Reached
<1>8. CASE ai' \in Judged(o)
  <2>1. PICK f : f = tx[o].finding
    OBVIOUS
  <2>2. Explained(f)' /\ (\A g \in DOMAIN rows : Explained(g) => Explained(g)') => Reached'
    BY <1>7
  <2>3. /\ cands' \subseteq DOMAIN rows
        /\ tx'["node"].busy <=> pc' = "calling"
        /\ pc' # "marking" \/ (pc = "marking" /\ o # "node")
    BY <1>2, <1>3, <1>4, <1>6
  <2> QED
    BY <1>2, <1>3, <1>8, <2>1, <2>2, <2>3, AnswerKeeps
<1>9. CASE ai' = Ai
  <2>1. DOMAIN Ai = DOMAIN rows /\ \A g \in DOMAIN rows : Ai[g] \in AiRow
    BY <1>1, AiTyped
  <2>2. \A g \in DOMAIN rows : Ai'[g] = Ai[g]
    BY <1>3, <1>9, <2>1 DEF Ai
  <2>3. /\ DOMAIN ai' \subseteq DOMAIN rows
        /\ \A g \in DOMAIN ai' : ai'[g] \in AiRow
        /\ \A g \in DOMAIN rows : Marked(g)
    BY <1>9, <2>1, <2>2 DEF Marked
  <2>4. Reached'
    BY <1>7, <2>2 DEF Explained
  <2>5. /\ tx' = [c \in Callers |-> tx'[c]]
        /\ \A c \in Callers : tx'[c] = tx[c] \/ ~tx'[c].busy
    BY <1>3, <1>4 DEF NoTx
  <2>6. /\ cands' \subseteq DOMAIN rows
        /\ tx'["node"].busy <=> pc' = "calling"
        /\ pc' = "marking" => tx'["node"].finding \in DOMAIN rows
    BY <1>3, <1>4, <1>6
  <2> QED
    BY <1>3, <2>3, <2>4, <2>5, <2>6, MarkingKeeps
<1> QED
  BY <1>8, <1>9 DEF Answer

LEMMA AnalysisKept == AnalysisIInv /\ [Next]_vars => AnalysisIInv'
<1> SUFFICES ASSUME AnalysisIInv, [Next]_vars PROVE AnalysisIInv'
  OBVIOUS
<1>1. ImportIInv'
  BY NextKeepsImport DEF AnalysisIInv
<1>2. CASE ImportNext /\ UNCHANGED analysisVars
  BY <1>2, ImportKeepsAnalysis
<1>3. CASE NodeOfAnalysis
  BY <1>1, <1>3, NodeKeepsAnalysis
<1>4. ASSUME NEW o \in Operators, Answer(o) PROVE AnalysisIInv'
  BY <1>1, <1>4, RollbackKeepsAnalysis
<1>5. ASSUME NEW o \in Operators, NEW f \in DOMAIN rows, NEW force \in BOOLEAN,
             Request(o, f, force)
      PROVE  AnalysisIInv'
  BY <1>1, <1>5, RequestKeepsAnalysis
<1>6. CASE UNCHANGED vars
  <2>1. UNCHANGED importVars /\ UNCHANGED analysisVars
    BY <1>6 DEF vars
  <2> QED
    BY <2>1, ImportKeepsAnalysis
<1> QED
  BY <1>2, <1>3, <1>4, <1>5, <1>6 DEF Next, NodeOfAnalysis

(* For any findings, callers, faults and floors: an open finding the node   *)
(* leaves blank is explained, nothing is analyzed twice unasked and no      *)
(* analyzed finding says it was skipped, unless two writers overlapped.     *)
THEOREM AnalysisInvHolds == Spec => []AnalysisInv
<1>1. Spec => []AnalysisIInv
  BY AnalysisStarts, AnalysisKept, PTL DEF Spec
<1> QED
  BY <1>1, AnalysisShows, PTL


-----------------------------------------------------------------------------
(* The ledger.  GitHub's alerts move but do not go away, so what makes a    *)
(* sync miss one -- a twin, a feed longer than a page -- does not go away   *)
(* either: an alert that is steady and has neither was read as it is.       *)

Sync == [pc : {"idle", "reading", "read", "staged"}, feed : Nat \ {0},
         feeds : [Feeds -> SUBSET Entries], total : Nat]

LedgerTypes ==
    /\ github \in [Feeds -> [Alerts -> States \cup {"none"}]]
    /\ ledger \in [Feeds -> [Numbers -> Entries \cup {NOENTRY}]]
    /\ \A f \in Feeds, n \in Numbers : ledger[f][n] # NOENTRY => ledger[f][n].number = n
    /\ syncing \in [Syncs -> Sync]
    /\ \A s \in Syncs : syncing[s].pc = "reading" => syncing[s].feed \in Feeds
    /\ \A s \in Syncs : syncing[s].pc = "read" => \A f \in Feeds : f < syncing[s].feed
    /\ steady \in [Syncs -> SUBSET (Feeds \X Alerts)]
    /\ \A s \in Syncs : \A f \in Feeds, a \in Alerts :
          <<f, a>> \in steady[s] => github[f][a] # "none"
    /\ committing \in [Syncs -> BOOLEAN]

ReadWell ==
    \A s \in Syncs : syncing[s].pc \in {"reading", "read"} =>
        \A f \in Feeds, a \in Alerts : f < syncing[s].feed /\ <<f, a>> \in steady[s] =>
            \/ Twins(f, a) \/ Overfull(f)
            \/ {e \in syncing[s].feeds[f] : e.number = a[2]} = {EntryOf(f, a)}

LedgerIInv == LedgerTypes /\ ReadWell /\ NothingMissed /\ CountIsHonest

LEMMA LedgerShows == LedgerIInv => LedgerInv
<1> SUFFICES ASSUME LedgerIInv PROVE LedgerTypeOK
  BY DEF LedgerIInv, LedgerInv
<1>1. LedgerTypes
  BY DEF LedgerIInv
<1>2. ASSUME NEW f \in Feeds, NEW n \in Numbers, ledger[f][n] # NOENTRY
      PROVE  ledger[f][n].number = n /\ ledger[f][n].state \in States
  <2>1. ledger[f][n] \in Entries
    BY <1>1, <1>2 DEF LedgerTypes
  <2> QED
    BY <1>1, <1>2, <2>1 DEF LedgerTypes, Entries
<1>3. \A s \in Syncs : syncing[s].pc \in {"idle", "reading", "read", "staged"}
  BY <1>1 DEF LedgerTypes, Sync
<1> QED
  BY <1>2, <1>3 DEF LedgerTypeOK

LEMMA LedgerStarts == LedgerInit => LedgerIInv
<1> SUFFICES ASSUME LedgerInit PROVE LedgerIInv
  OBVIOUS
<1>1. NoSync \in Sync /\ NoSync.pc = "idle"
  BY DEF NoSync, Sync
<1>2. \A s \in Syncs : syncing[s].pc = "idle"
  BY <1>1 DEF LedgerInit
<1>3. github \in [Feeds -> [Alerts -> States \cup {"none"}]]
  BY DEF LedgerInit
<1>4. ledger \in [Feeds -> [Numbers -> Entries \cup {NOENTRY}]]
  BY DEF LedgerInit
<1>5. \A f \in Feeds, n \in Numbers : ledger[f][n] = NOENTRY
  BY DEF LedgerInit
<1>6. /\ syncing \in [Syncs -> Sync]
      /\ steady \in [Syncs -> SUBSET (Feeds \X Alerts)]
      /\ committing \in [Syncs -> BOOLEAN]
      /\ \A s \in Syncs : steady[s] = {}
  BY <1>1 DEF LedgerInit
<1> QED
  BY <1>2, <1>3, <1>4, <1>5, <1>6
     DEF LedgerIInv, LedgerTypes, ReadWell, NothingMissed, CountIsHonest

LEMMA RaisedFinite ==
    ASSUME NEW f
    PROVE  /\ IsFiniteSet(Raised(f)) /\ Raised(f) \subseteq Alerts
           /\ Cardinality(Raised(f)) \in Nat
<1>1. IsFiniteSet(Alerts)
  BY LedgerAssumption, FS_Product DEF Alerts
<1>2. Raised(f) \subseteq Alerts
  BY DEF Raised
<1> QED
  BY <1>1, <1>2, FS_Subset, FS_CardinalityType

\* Alerts do not go away, and what hides one does not either.
LEMMA GitHubOnlyGrows ==
    ASSUME LedgerTypes, NEW f \in Feeds, NEW a \in Alerts, NEW state \in States,
           github' = [github EXCEPT ![f][a] = state], NEW g \in Feeds
    PROVE  /\ Raised(g) \subseteq Raised(g)'
           /\ Overfull(g) => Overfull(g)'
           /\ \A b \in Raised(g) : Twins(g, b) => Twins(g, b)'
           /\ \A b \in Alerts : <<g, b>> # <<f, a>> => github'[g][b] = github[g][b]
           /\ github' \in [Feeds -> [Alerts -> States \cup {"none"}]]
           /\ \A b \in Alerts : github[g][b] # "none" => github'[g][b] # "none"
<1>1. github \in [Feeds -> [Alerts -> States \cup {"none"}]]
  BY DEF LedgerTypes
<1>2. \A b \in Alerts : github'[g][b] = IF g = f /\ b = a THEN state ELSE github[g][b]
  BY <1>1
<1>3. github' \in [Feeds -> [Alerts -> States \cup {"none"}]]
  BY <1>1
<1>4. state # "none"
  BY DEF States
<1>5. Raised(g) \subseteq Raised(g)'
  BY <1>2, <1>4 DEF Raised
<1>6. Overfull(g) => Overfull(g)'
  <2> DEFINE now == {b \in Alerts : github[g][b] # "none"}
             then == {b \in Alerts : github'[g][b] # "none"}
  <2>1. IsFiniteSet(Alerts)
    BY LedgerAssumption, FS_Product DEF Alerts
  <2>2. now \subseteq then /\ IsFiniteSet(then)
    BY <1>2, <1>4, <2>1, FS_Subset
  <2> HIDE DEF now, then
  <2>3. /\ IsFiniteSet(now) /\ Cardinality(now) <= Cardinality(then)
        /\ Cardinality(now) \in Nat /\ Cardinality(then) \in Nat
    BY <2>2, FS_Subset, FS_CardinalityType
  <2>4. Raised(g) = now /\ Raised(g)' = then
    BY DEF Raised, now, then
  <2> QED
    BY <2>3, <2>4, LedgerAssumption DEF Overfull
<1>7. ASSUME NEW b \in Raised(g), Twins(g, b) PROVE Twins(g, b)'
  <2>1. PICK c \in Raised(g) : c[2] = b[2] /\ c # b
    BY <1>7 DEF Twins
  <2>2. c \in Raised(g)'
    BY <1>5, <2>1
  <2> QED
    BY <2>1, <2>2 DEF Twins
<1> QED
  BY <1>2, <1>3, <1>4, <1>5, <1>6, <1>7


\* The tables of a ledger only fill up.
LEMMA HeldGrows ==
    ASSUME NEW before, NEW after,
           \A f \in Feeds, n \in Numbers : before[f][n] # NOENTRY => after[f][n] # NOENTRY
    PROVE  /\ Cardinality(Held(before)) \in Nat /\ Cardinality(Held(after)) \in Nat
           /\ Cardinality(Held(before)) <= Cardinality(Held(after))
<1>1. IsFiniteSet(Feeds \X Numbers)
  BY LedgerAssumption, FS_Product
<1>2. Held(after) \subseteq Feeds \X Numbers /\ Held(before) \subseteq Held(after)
  BY DEF Held
<1> QED
  BY <1>1, <1>2, FS_Subset, FS_CardinalityType

LEMMA MoveKeeps ==
    ASSUME LedgerIInv, NEW f \in Feeds, NEW a \in Alerts, NEW state \in States,
           GitHubMoves(f, a, state)
    PROVE  LedgerIInv'
<1>1. LedgerTypes /\ ReadWell /\ NothingMissed /\ CountIsHonest
  BY DEF LedgerIInv
<1>2. /\ github' = [github EXCEPT ![f][a] = state]
      /\ steady' = [s \in Syncs |-> steady[s] \ {<<f, a>>}]
      /\ UNCHANGED <<ledger, syncing, committing>>
  BY DEF GitHubMoves
<1>3. ASSUME NEW g \in Feeds, NEW b \in Alerts, NEW s \in Syncs, <<g, b>> \in steady'[s]
      PROVE  /\ <<g, b>> \in steady[s]
             /\ EntryOf(g, b)' = EntryOf(g, b)
             /\ Twins(g, b) => Twins(g, b)'
             /\ Overfull(g) => Overfull(g)'
             /\ github'[g][b] # "none"
  <2>1. <<g, b>> \in steady[s] /\ <<g, b>> # <<f, a>>
    BY <1>2, <1>3
  <2>2. github[g][b] # "none"
    BY <1>1, <2>1 DEF LedgerTypes
  <2>3. b \in Raised(g)
    BY <2>2 DEF Raised
  <2>4. /\ Overfull(g) => Overfull(g)'
        /\ \A c \in Raised(g) : Twins(g, c) => Twins(g, c)'
        /\ \A c \in Alerts : <<g, c>> # <<f, a>> => github'[g][c] = github[g][c]
    BY <1>1, <1>2, GitHubOnlyGrows, ZenonT(60)
  <2>5. github'[g][b] = github[g][b]
    BY <2>1, <2>4
  <2> QED
    BY <2>1, <2>2, <2>3, <2>4, <2>5 DEF EntryOf
<1>4. LedgerTypes'
  <2>1. github' \in [Feeds -> [Alerts -> States \cup {"none"}]]
    BY <1>1, <1>2, GitHubOnlyGrows
  <2>2. steady' \in [Syncs -> SUBSET (Feeds \X Alerts)]
    BY <1>1, <1>2 DEF LedgerTypes
  <2>3. \A s \in Syncs : \A g \in Feeds, b \in Alerts :
           <<g, b>> \in steady'[s] => github'[g][b] # "none"
    BY <1>3
  <2> QED
    BY <1>1, <1>2, <2>1, <2>2, <2>3 DEF LedgerTypes
<1>5. ReadWell'
  <2> SUFFICES ASSUME NEW s \in Syncs, syncing[s].pc \in {"reading", "read"},
                      NEW g \in Feeds, NEW b \in Alerts,
                      g < syncing[s].feed, <<g, b>> \in steady'[s]
               PROVE  \/ Twins(g, b)' \/ Overfull(g)'
                      \/ {e \in syncing[s].feeds[g] : e.number = b[2]} = {EntryOf(g, b)'}
    BY <1>2 DEF ReadWell
  <2>1. <<g, b>> \in steady[s]
    BY <1>3
  <2>2. \/ Twins(g, b) \/ Overfull(g)
        \/ {e \in syncing[s].feeds[g] : e.number = b[2]} = {EntryOf(g, b)}
    BY <1>1, <2>1 DEF ReadWell
  <2>3. /\ EntryOf(g, b)' = EntryOf(g, b)
        /\ Twins(g, b) => Twins(g, b)'
        /\ Overfull(g) => Overfull(g)'
    BY <1>3
  <2> QED
    BY <2>2, <2>3
<1>6. NothingMissed'
  <2> SUFFICES ASSUME NEW s \in Syncs, syncing[s].pc = "staged", ~committing[s],
                      NEW g \in Feeds, NEW b \in Alerts, <<g, b>> \in steady'[s]
               PROVE  \/ Twins(g, b)' \/ Overfull(g)' \/ ledger[g][b[2]] = EntryOf(g, b)'
    BY <1>2 DEF NothingMissed, EntryOf
  <2>1. <<g, b>> \in steady[s]
    BY <1>3
  <2>2. Twins(g, b) \/ Overfull(g) \/ ledger[g][b[2]] = EntryOf(g, b)
    BY <1>1, <2>1 DEF NothingMissed, EntryOf
  <2>3. /\ EntryOf(g, b)' = EntryOf(g, b)
        /\ Twins(g, b) => Twins(g, b)'
        /\ Overfull(g) => Overfull(g)'
    BY <1>3
  <2> QED
    BY <2>2, <2>3
<1>7. CountIsHonest'
  BY <1>1, <1>2 DEF CountIsHonest, Held
<1> QED
  BY <1>4, <1>5, <1>6, <1>7 DEF LedgerIInv

\* A step of one sync that neither writes the ledger nor says that it did.
LEMMA SyncMoves ==
    ASSUME LedgerIInv, NEW s \in Syncs, NEW new \in Sync,
           UNCHANGED <<github, ledger>>,
           syncing' = [syncing EXCEPT ![s] = new],
           \/ UNCHANGED <<steady, committing>>
           \/ /\ steady' = [steady EXCEPT ![s] = {k \in Feeds \X Alerts : k[2] \in Raised(k[1])}]
              /\ committing' = [committing EXCEPT ![s] = FALSE],
           new.pc # "staged",
           new.pc = "reading" => new.feed \in Feeds,
           new.pc = "read" => \A f \in Feeds : f < new.feed,
           new.pc \in {"reading", "read"} =>
              \A f \in Feeds, a \in Alerts : f < new.feed /\ <<f, a>> \in steady'[s] =>
                \/ Twins(f, a) \/ Overfull(f)
                \/ {e \in new.feeds[f] : e.number = a[2]} = {EntryOf(f, a)}
    PROVE  LedgerIInv'
<1>1. LedgerTypes /\ ReadWell /\ NothingMissed /\ CountIsHonest
  BY DEF LedgerIInv
<1>2. /\ syncing'[s] = new /\ \A u \in Syncs : u # s => syncing'[u] = syncing[u]
      /\ syncing' \in [Syncs -> Sync]
  BY <1>1 DEF LedgerTypes
<1>3. /\ \A f : Raised(f)' = Raised(f)
      /\ \A f : Overfull(f)' <=> Overfull(f)
      /\ \A f, a : Twins(f, a)' <=> Twins(f, a)
      /\ \A f, a : EntryOf(f, a)' = EntryOf(f, a)
  BY DEF Raised, Overfull, Twins, EntryOf
<1>4. /\ steady' \in [Syncs -> SUBSET (Feeds \X Alerts)]
      /\ committing' \in [Syncs -> BOOLEAN]
      /\ \A u \in Syncs : u # s => steady'[u] = steady[u] /\ committing'[u] = committing[u]
  <2>1. CASE UNCHANGED <<steady, committing>>
    BY <1>1, <2>1 DEF LedgerTypes
  <2>2. CASE /\ steady' = [steady EXCEPT ![s] = {k \in Feeds \X Alerts : k[2] \in Raised(k[1])}]
             /\ committing' = [committing EXCEPT ![s] = FALSE]
    <3> DEFINE firm == {k \in Feeds \X Alerts : k[2] \in Raised(k[1])}
    <3>1. firm \in SUBSET (Feeds \X Alerts)
      OBVIOUS
    <3>2. steady' = [steady EXCEPT ![s] = firm]
      BY <2>2
    <3> HIDE DEF firm
    <3>3. /\ steady' \in [Syncs -> SUBSET (Feeds \X Alerts)]
          /\ \A u \in Syncs : u # s => steady'[u] = steady[u]
      BY <1>1, <3>1, <3>2 DEF LedgerTypes
    <3>4. /\ committing' \in [Syncs -> BOOLEAN]
          /\ \A u \in Syncs : u # s => committing'[u] = committing[u]
      BY <1>1, <2>2 DEF LedgerTypes
    <3> QED
      BY <3>3, <3>4
  <2> QED
    BY <2>1, <2>2
<1>5. \A u \in Syncs : \A f \in Feeds, a \in Alerts :
         <<f, a>> \in steady'[u] => github[f][a] # "none"
  <2> SUFFICES ASSUME NEW u \in Syncs, NEW f \in Feeds, NEW a \in Alerts, <<f, a>> \in steady'[u]
               PROVE  github[f][a] # "none"
    OBVIOUS
  <2>1. <<f, a>> \in steady[u] \/ a \in Raised(f)
    BY <1>1, SMTT(40) DEF LedgerTypes
  <2> QED
    BY <1>1, <2>1 DEF LedgerTypes, Raised
<1>6. LedgerTypes'
  <2>1. /\ \A u \in Syncs : syncing'[u].pc = "reading" => syncing'[u].feed \in Feeds
        /\ \A u \in Syncs : syncing'[u].pc = "read" => \A f \in Feeds : f < syncing'[u].feed
    BY <1>1, <1>2 DEF LedgerTypes
  <2> QED
    BY <1>1, <1>2, <1>4, <1>5, <2>1 DEF LedgerTypes
<1>7. ReadWell'
  <2> SUFFICES ASSUME NEW u \in Syncs, syncing'[u].pc \in {"reading", "read"},
                      NEW f \in Feeds, NEW a \in Alerts,
                      f < syncing'[u].feed, <<f, a>> \in steady'[u]
               PROVE  \/ Twins(f, a) \/ Overfull(f)
                      \/ {e \in syncing'[u].feeds[f] : e.number = a[2]} = {EntryOf(f, a)}
    BY <1>3 DEF ReadWell
  <2>1. CASE u = s
    BY <1>2, <2>1
  <2>2. CASE u # s
    BY <1>1, <1>2, <1>4, <2>2 DEF ReadWell
  <2> QED
    BY <2>1, <2>2
<1>8. NothingMissed'
  <2> SUFFICES ASSUME NEW u \in Syncs, syncing'[u].pc = "staged", ~committing'[u],
                      NEW f \in Feeds, NEW a \in Alerts, <<f, a>> \in steady'[u]
               PROVE  Twins(f, a) \/ Overfull(f) \/ ledger[f][a[2]] = EntryOf(f, a)
    BY <1>3 DEF NothingMissed, EntryOf
  <2>1. u # s
    BY <1>2
  <2> QED
    BY <1>1, <1>2, <1>4, <2>1 DEF NothingMissed, EntryOf
<1>9. CountIsHonest'
  BY <1>1, <1>2 DEF CountIsHonest, Held
<1> QED
  BY <1>6, <1>7, <1>8, <1>9 DEF LedgerIInv


LEMMA ReadKeeps ==
    ASSUME LedgerIInv, NEW s \in Syncs, ReadFeed(s)
    PROVE  LedgerIInv'
<1>1. LedgerTypes /\ ReadWell
  BY DEF LedgerIInv
<1>2. PICK sync \in Sync : sync = syncing[s]
  BY <1>1 DEF LedgerTypes
<1>3. PICK f \in Feeds : f = sync.feed
  BY <1>1, <1>2 DEF ReadFeed, LedgerTypes
<1>4. PICK last \in Nat : Feeds = 1 .. last
  BY LedgerAssumption, FS_CardinalityType
<1>4a. f \in Nat \ {0} /\ f <= last
  <2>1. f \in 1 .. last
    BY <1>4
  <2> QED
    BY <1>4, <2>1
<1>5. PICK page \in Pages(f) : syncing' = [syncing EXCEPT ![s] = WithPage(sync, page)]
  BY <1>2, <1>3 DEF ReadFeed
<1>6. page \subseteq Raised(f) /\ (~Overfull(f) => page = Raised(f))
  <2>1. Cardinality(Raised(f)) \in Nat /\ PageSize \in Nat
    BY RaisedFinite, LedgerAssumption
  <2> QED
    BY <2>1 DEF Pages, Overfull
<1> DEFINE answer == {EntryOf(f, a) : a \in page}
           point == IF f + 1 \in Feeds THEN "reading" ELSE "read"
           filled == [sync.feeds EXCEPT ![f] = answer]
           new == [pc |-> point, feed |-> f + 1, feeds |-> filled, total |-> sync.total]
<1>8. answer \subseteq Entries
  <2> SUFFICES ASSUME NEW a \in page PROVE EntryOf(f, a) \in Entries
    OBVIOUS
  <2>1. a \in Alerts /\ github[f][a] # "none"
    BY <1>6 DEF Raised
  <2>2. github[f][a] \in States
    BY <1>1, <2>1 DEF LedgerTypes
  <2> QED
    BY <2>1, <2>2 DEF EntryOf, Entries, Alerts
<1>9. /\ filled \in [Feeds -> SUBSET Entries]
      /\ filled[f] = answer /\ \A g \in Feeds : g # f => filled[g] = sync.feeds[g]
  <2> HIDE DEF answer
  <2> QED
    BY <1>8 DEF Sync
<1>10. sync.pc = "reading" /\ point \in {"reading", "read"}
  BY <1>2 DEF ReadFeed
<1>11. syncing' = [syncing EXCEPT ![s] = new]
  BY <1>3, <1>5 DEF WithPage
<1>12. new \in Sync
  <2> HIDE DEF filled, point
  <2> QED
    BY <1>4a, <1>9, <1>10 DEF Sync
<1>13. /\ new.pc = "reading" => new.feed \in Feeds
       /\ new.pc = "read" => \A g \in Feeds : g < new.feed
  BY <1>4, <1>4a, <1>10
<1>14. ASSUME NEW g \in Feeds, NEW a \in Alerts, g < f + 1, <<g, a>> \in steady[s]
       PROVE  \/ Twins(g, a) \/ Overfull(g)
              \/ {e \in filled[g] : e.number = a[2]} = {EntryOf(g, a)}
  <2> HIDE DEF filled, answer
  <2>1. CASE g # f
    <3>1. g < sync.feed
      BY <1>3, <1>4, <1>4a, <1>14, <2>1
    <3>2. filled[g] = syncing[s].feeds[g]
      BY <1>2, <1>9, <2>1
    <3> QED
      BY <1>1, <1>2, <1>10, <1>14, <3>1, <3>2 DEF ReadWell
  <2>2. CASE g = f /\ ~Twins(f, a) /\ ~Overfull(f)
    <3>1. a \in Raised(f)
      BY <1>1, <1>14, <2>2 DEF LedgerTypes, Raised
    <3>2. \A b \in page : b[2] = a[2] => b = a
      BY <1>6, <2>2 DEF Twins
    <3>3. a \in page
      BY <1>6, <2>2, <3>1
    <3>4. \A b : EntryOf(f, b).number = b[2]
      BY DEF EntryOf
    <3>5. {e \in answer : e.number = a[2]} = {EntryOf(f, a)}
      BY <3>2, <3>3, <3>4 DEF answer
    <3> QED
      BY <1>9, <2>2, <3>5
  <2> QED
    BY <2>1, <2>2
<1>15. UNCHANGED <<github, ledger, steady, committing>>
  BY DEF ReadFeed
<1>16. new.pc # "staged"
  BY <1>10
<1>17. /\ new.feed = f + 1 /\ new.feeds = filled
       /\ steady'[s] = steady[s]
  BY <1>15
<1> HIDE DEF new, filled
<1>18. \A g \in Feeds, a \in Alerts : g < new.feed /\ <<g, a>> \in steady'[s] =>
                \/ Twins(g, a) \/ Overfull(g)
                \/ {e \in new.feeds[g] : e.number = a[2]} = {EntryOf(g, a)}
  BY <1>14, <1>17
<1> QED
  BY <1>11, <1>12, <1>13, <1>15, <1>16, <1>18, SyncMoves

LEMMA SyncStaged ==
    ASSUME NEW sync \in Sync, NEW count
    PROVE  [sync EXCEPT !.pc = "staged", !.total = count]
             = [pc |-> "staged", feed |-> sync.feed, feeds |-> sync.feeds, total |-> count]
<1> DEFINE one == [sync EXCEPT !.pc = "staged"]
<1>1. /\ one = [pc |-> "staged", feed |-> sync.feed, feeds |-> sync.feeds, total |-> sync.total]
  BY DEF Sync
<1> HIDE DEF one
<1>2. [one EXCEPT !.total = count]
        = [pc |-> "staged", feed |-> sync.feed, feeds |-> sync.feeds, total |-> count]
  BY <1>1
<1> QED
  BY <1>2 DEF one

LEMMA StageKeeps ==
    ASSUME LedgerIInv, NEW s \in Syncs, StageGithubAlerts(s)
    PROVE  LedgerIInv'
<1>1. LedgerTypes /\ ReadWell /\ NothingMissed /\ CountIsHonest
  BY DEF LedgerIInv
<1>2. PICK sync \in Sync : sync = syncing[s]
  BY <1>1 DEF LedgerTypes
<1>3. PICK table \in Normalized(s) :
         /\ ledger' = [f \in Feeds |-> [n \in Numbers |->
                          IF table[f][n] = NOENTRY THEN ledger[f][n] ELSE table[f][n]]]
         /\ syncing' = [syncing EXCEPT
               ![s] = [@ EXCEPT !.pc = "staged", !.total = Cardinality(Held(table))]]
  BY DEF StageGithubAlerts
<1>4. /\ committing' = [u \in Syncs |-> committing[u] \/ u # s]
      /\ UNCHANGED <<github, steady>>
      /\ sync.pc = "read"
  BY <1>2 DEF StageGithubAlerts
<1>5. ASSUME NEW f \in Feeds, NEW n \in Numbers
      PROVE  /\ ledger'[f][n] = IF table[f][n] = NOENTRY THEN ledger[f][n] ELSE table[f][n]
             /\ LET same == {e \in sync.feeds[f] : e.number = n} IN
                IF same = {} THEN table[f][n] = NOENTRY ELSE table[f][n] \in same
  <2>1. table \in Normalized(s)
    BY <1>3
  <2>2. LET same == {e \in syncing[s].feeds[f] : e.number = n} IN
        IF same = {} THEN table[f][n] = NOENTRY ELSE table[f][n] \in same
    BY <2>1 DEF Normalized
  <2> QED
    BY <1>2, <1>3, <2>2
<1>6. \A f \in Feeds : sync.feeds[f] \subseteq Entries
  BY DEF Sync
<1>7. ASSUME NEW f \in Feeds, NEW n \in Numbers
      PROVE  /\ ledger'[f][n] \in Entries \cup {NOENTRY}
             /\ ledger'[f][n] # NOENTRY => ledger'[f][n].number = n
             /\ ledger[f][n] # NOENTRY => ledger'[f][n] # NOENTRY
             /\ table[f][n] # NOENTRY => ledger'[f][n] # NOENTRY
  <2>1. /\ ledger[f][n] \in Entries \cup {NOENTRY}
        /\ ledger[f][n] # NOENTRY => ledger[f][n].number = n
    BY <1>1 DEF LedgerTypes
  <2>2. table[f][n] = NOENTRY \/ (table[f][n] \in Entries /\ table[f][n].number = n)
    BY <1>5, <1>6
  <2>3. ledger'[f][n] = IF table[f][n] = NOENTRY THEN ledger[f][n] ELSE table[f][n]
    BY <1>5
  <2> HIDE DEF Entries
  <2> QED
    BY <2>1, <2>2, <2>3
<1>8. ledger' \in [Feeds -> [Numbers -> Entries \cup {NOENTRY}]]
  <2>1. \A f \in Feeds : ledger'[f] \in [Numbers -> Entries \cup {NOENTRY}]
    <3> SUFFICES ASSUME NEW f \in Feeds
                 PROVE  ledger'[f] \in [Numbers -> Entries \cup {NOENTRY}]
      OBVIOUS
    <3>1. ledger'[f] = [n \in Numbers |->
                          IF table[f][n] = NOENTRY THEN ledger[f][n] ELSE table[f][n]]
      BY <1>3
    <3> QED
      BY <1>7, <3>1
  <2>2. ledger' = [f \in Feeds |-> ledger'[f]]
    BY <1>3
  <2> QED
    BY <2>1, <2>2
<1>9. Cardinality(Held(table)) \in Nat
  <2>1. \A f \in Feeds, n \in Numbers : table[f][n] # NOENTRY => table[f][n] # NOENTRY
    OBVIOUS
  <2> QED
    BY <2>1, HeldGrows
<1> DEFINE new == [pc |-> "staged", feed |-> sync.feed, feeds |-> sync.feeds,
                   total |-> Cardinality(Held(table))]
<1>10. /\ syncing'[s] = new /\ \A u \in Syncs : u # s => syncing'[u] = syncing[u]
       /\ new \in Sync
       /\ syncing' \in [Syncs -> Sync]
  <2>1. new \in Sync
    BY <1>9 DEF Sync
  <2>2. new = [sync EXCEPT !.pc = "staged", !.total = Cardinality(Held(table))]
    BY SyncStaged, Zenon
  <2>3. syncing' = [syncing EXCEPT ![s] = new]
    BY <1>2, <1>3, <2>2
  <2> HIDE DEF new
  <2> QED
    BY <1>1, <2>1, <2>3 DEF LedgerTypes
<1>11. new.pc = "staged" /\ new.total = Cardinality(Held(table))
  OBVIOUS
<1> HIDE DEF new
<1>12. \A u \in Syncs : committing'[u] = (committing[u] \/ u # s)
  BY <1>4
<1>13. /\ \A f : Raised(f)' = Raised(f)
       /\ \A f : Overfull(f)' <=> Overfull(f)
       /\ \A f, a : Twins(f, a)' <=> Twins(f, a)
       /\ \A f, a : EntryOf(f, a)' = EntryOf(f, a)
  BY <1>4 DEF Raised, Overfull, Twins, EntryOf
<1>14. LedgerTypes'
  <2>1. committing' \in [Syncs -> BOOLEAN]
    BY <1>4
  <2>2. \A f \in Feeds, n \in Numbers : ledger'[f][n] # NOENTRY => ledger'[f][n].number = n
    BY <1>7
  <2>3. /\ \A u \in Syncs : syncing'[u].pc = "reading" => syncing'[u].feed \in Feeds
        /\ \A u \in Syncs : syncing'[u].pc = "read" => \A f \in Feeds : f < syncing'[u].feed
    BY <1>1, <1>10, <1>11 DEF LedgerTypes
  <2>4. /\ github' \in [Feeds -> [Alerts -> States \cup {"none"}]]
        /\ steady' \in [Syncs -> SUBSET (Feeds \X Alerts)]
        /\ \A u \in Syncs : \A f \in Feeds, a \in Alerts :
              <<f, a>> \in steady'[u] => github'[f][a] # "none"
    BY <1>1, <1>4 DEF LedgerTypes
  <2> QED
    BY <1>8, <1>10, <2>1, <2>2, <2>3, <2>4 DEF LedgerTypes
<1>15. ReadWell'
  <2> SUFFICES ASSUME NEW u \in Syncs, syncing'[u].pc \in {"reading", "read"},
                      NEW f \in Feeds, NEW a \in Alerts,
                      f < syncing'[u].feed, <<f, a>> \in steady[u]
               PROVE  \/ Twins(f, a) \/ Overfull(f)
                      \/ {e \in syncing'[u].feeds[f] : e.number = a[2]} = {EntryOf(f, a)}
    BY <1>4, <1>13 DEF ReadWell
  <2>1. u # s
    BY <1>10, <1>11
  <2> QED
    BY <1>1, <1>10, <2>1 DEF ReadWell
<1>16. NothingMissed'
  <2> SUFFICES ASSUME NEW u \in Syncs, syncing'[u].pc = "staged", ~committing'[u],
                      NEW f \in Feeds, NEW a \in Alerts, <<f, a>> \in steady[u],
                      ~Twins(f, a), ~Overfull(f)
               PROVE  ledger'[f][a[2]] = EntryOf(f, a)
    BY <1>4, <1>13 DEF NothingMissed
  <2>1. u = s
    BY <1>12
  <2>2. f < sync.feed
    BY <1>1, <1>2, <1>4 DEF LedgerTypes
  <2>3. {e \in sync.feeds[f] : e.number = a[2]} = {EntryOf(f, a)}
    BY <1>1, <1>2, <1>4, <2>1, <2>2 DEF ReadWell
  <2>4. a[2] \in Numbers
    BY DEF Alerts
  <2>5. table[f][a[2]] = EntryOf(f, a)
    BY <1>5, <2>3, <2>4
  <2>6. EntryOf(f, a) # NOENTRY
    <3>1. EntryOf(f, a) \in sync.feeds[f]
      BY <2>3
    <3> QED
      BY <1>6, <3>1, LedgerAssumption
  <2> QED
    BY <1>5, <2>4, <2>5, <2>6
<1>17. CountIsHonest'
  <2> SUFFICES ASSUME NEW u \in Syncs, syncing'[u].pc = "staged"
               PROVE  syncing'[u].total <= Cardinality(Held(ledger'))
    BY DEF CountIsHonest, Held
  <2>1. CASE u = s
    <3>1. Cardinality(Held(table)) <= Cardinality(Held(ledger'))
      BY <1>7, HeldGrows
    <3> QED
      BY <1>10, <1>11, <2>1, <3>1
  <2>2. CASE u # s
    <3>1. /\ Cardinality(Held(ledger)) <= Cardinality(Held(ledger'))
          /\ Cardinality(Held(ledger)) \in Nat /\ Cardinality(Held(ledger')) \in Nat
      BY <1>7, HeldGrows
    <3>2. syncing'[u] = syncing[u]
      BY <1>10, <2>2
    <3>3. syncing[u].total <= Cardinality(Held(ledger)) /\ syncing[u].total \in Nat
      BY <1>1, <3>2 DEF CountIsHonest, LedgerTypes, Sync
    <3> HIDE DEF Held
    <3> QED
      BY <3>1, <3>2, <3>3
  <2> QED
    BY <2>1, <2>2
<1> QED
  BY <1>14, <1>15, <1>16, <1>17 DEF LedgerIInv

LEMMA BeginKeeps ==
    ASSUME LedgerIInv, NEW s \in Syncs, BeginSync(s)
    PROVE  LedgerIInv'
<1> DEFINE new == [NoSync EXCEPT !.pc = "reading"]
<1>1. new = [pc |-> "reading", feed |-> 1, feeds |-> [f \in Feeds |-> {}], total |-> 0]
  BY SMTT(40) DEF NoSync
<1>2. PICK last \in Nat : Feeds = 1 .. last
  BY LedgerAssumption, FS_CardinalityType
<1>3. 1 \in Feeds /\ ~\E f \in Feeds : f < 1
  BY <1>2, LedgerAssumption
<1>4. new \in Sync /\ new.pc = "reading" /\ new.feed = 1
  <2>1. [f \in Feeds |-> {}] \in [Feeds -> SUBSET Entries]
    OBVIOUS
  <2> HIDE DEF new
  <2> QED
    BY <1>1, <2>1 DEF Sync
<1>5. /\ UNCHANGED <<github, ledger>>
      /\ syncing' = [syncing EXCEPT ![s] = new]
      /\ steady' = [steady EXCEPT ![s] = {k \in Feeds \X Alerts : k[2] \in Raised(k[1])}]
      /\ committing' = [committing EXCEPT ![s] = FALSE]
  BY DEF BeginSync
<1> HIDE DEF new
<1>6. /\ new.pc # "staged" /\ new.pc # "read" /\ new.feed \in Feeds
      /\ \A f \in Feeds : ~(f < new.feed)
  BY <1>3, <1>4
<1> QED
  BY <1>4, <1>5, <1>6, SyncMoves

LEMMA EndKeeps ==
    ASSUME LedgerIInv, NEW s \in Syncs, FeedFails(s) \/ EndSync(s)
    PROVE  LedgerIInv'
<1>1. NoSync \in Sync /\ NoSync.pc = "idle"
  BY DEF NoSync, Sync
<1>2. UNCHANGED <<github, ledger, steady, committing>> /\ syncing' = [syncing EXCEPT ![s] = NoSync]
  BY DEF FeedFails, EndSync
<1>3. NoSync.pc \notin {"staged", "reading", "read"}
  BY <1>1
<1> QED
  BY <1>1, <1>2, <1>3, SyncMoves

LEMMA LedgerKept == LedgerIInv /\ [LedgerNext]_ledgerVars => LedgerIInv'
<1> SUFFICES ASSUME LedgerIInv, [LedgerNext]_ledgerVars PROVE LedgerIInv'
  OBVIOUS
<1>1. CASE LedgerNext
  <2>1. ASSUME NEW f \in Feeds, NEW a \in Alerts, NEW state \in States, GitHubMoves(f, a, state)
        PROVE  LedgerIInv'
    BY <2>1, MoveKeeps
  <2>2. ASSUME NEW s \in Syncs, BeginSync(s) PROVE LedgerIInv'
    BY <2>2, BeginKeeps
  <2>3. ASSUME NEW s \in Syncs, ReadFeed(s) PROVE LedgerIInv'
    BY <2>3, ReadKeeps
  <2>4. ASSUME NEW s \in Syncs, FeedFails(s) \/ EndSync(s) PROVE LedgerIInv'
    BY <2>4, EndKeeps
  <2>5. ASSUME NEW s \in Syncs, StageGithubAlerts(s) PROVE LedgerIInv'
    BY <2>5, StageKeeps
  <2> QED
    BY <1>1, <2>1, <2>2, <2>3, <2>4, <2>5 DEF LedgerNext
<1>2. CASE UNCHANGED ledgerVars
  <2>1. UNCHANGED <<github, ledger, syncing, steady, committing>>
    BY <1>2 DEF ledgerVars
  <2>2. \A f : Raised(f)' = Raised(f)
    BY <2>1 DEF Raised
  <2>3. LedgerTypes'
    BY <2>1 DEF LedgerIInv, LedgerTypes
  <2>4. ReadWell'
    BY <2>1, <2>2 DEF LedgerIInv, ReadWell, Twins, Overfull, EntryOf
  <2>5. NothingMissed'
    BY <2>1, <2>2 DEF LedgerIInv, NothingMissed, Twins, Overfull, EntryOf
  <2>6. CountIsHonest'
    BY <2>1 DEF LedgerIInv, CountIsHonest, Held
  <2> QED
    BY <2>3, <2>4, <2>5, <2>6 DEF LedgerIInv
<1> QED
  BY <1>1, <1>2

(* What a sync that says "staged" claims of the whole organization holds,   *)
(* whatever GitHub does while it reads and however syncs overlap: a steady  *)
(* alert with neither a twin nor an overfull feed is in the ledger as it    *)
(* is, and no more is counted than the ledger holds                         *)
(* (services/external_alert.py:102-163).                                    *)
THEOREM LedgerInvHolds == LedgerSpec => []LedgerInv
<1>1. LedgerInit => LedgerIInv
  BY LedgerStarts
<1>2. LedgerIInv /\ [LedgerNext]_ledgerVars => LedgerIInv'
  BY LedgerKept
<1>3. LedgerIInv => LedgerInv
  BY LedgerShows
<1> QED
  BY <1>1, <1>2, <1>3, PTL DEF LedgerSpec

=============================================================================
