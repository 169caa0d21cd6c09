------------------------------ MODULE MCFindings ----------------------------
(* The findings of an assessment: imported and analyzed (two scanners that *)
(* share a weakness, one more without output), enriched (two findings in   *)
(* one batch), ranked (one finding); and the alerts GitHub reports beside   *)
(* them.  They keep different columns and tables; a run moves one of them,  *)
(* the focus, and leaves the others at rest.                               *)
EXTENDS FindingAnalysis, Enrichment, RiskTriage, AlertLedger

CONSTANTS alice, rce, sqli, banner

MCPlans == <<"nmap", "nuclei", "zap">>
MCReports == [nmap |-> {rce, banner}, zap |-> {rce, sqli}, nuclei |-> {rce}]
MCCveLists == {<<>>, <<"c1">>, <<"c2", "c1">>}

VARIABLE focus

NoCves == [f \in Findings |-> <<>>]
RestingFinding == facts.severity = "medium" /\ facts.cvss = NOTHING /\ ~facts.webcwe
                     /\ facts.criticality = "low"

MCInit ==
    /\ focus \in {"analysis", "enrichment", "risk", "ledger"}
    /\ LedgerInit
    /\ Init /\ (focus = "analysis" \/ product)
    /\ EnrichmentInit /\ (focus = "enrichment" \/ (cves = NoCves /\ catalogue = {}))
    /\ RiskInit /\ (focus = "risk" \/ RestingFinding)

MCNext ==
    /\ UNCHANGED focus
    /\ \/ focus = "analysis" /\ Next /\ UNCHANGED <<enrichmentVars, riskVars, ledgerVars>>
       \/ focus = "enrichment" /\ EnrichmentNext /\ UNCHANGED <<vars, riskVars, ledgerVars>>
       \/ focus = "risk" /\ RiskNext /\ UNCHANGED <<vars, enrichmentVars, ledgerVars>>
       \/ focus = "ledger" /\ LedgerNext /\ UNCHANGED <<vars, enrichmentVars, riskVars>>

MCSpec == MCInit /\ [][MCNext]_<<focus, vars, enrichmentVars, riskVars, ledgerVars>>
=============================================================================
