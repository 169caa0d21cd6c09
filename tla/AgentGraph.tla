----------------------------- MODULE AgentGraph -----------------------------
(***************************************************************************)
(* The fixed pipeline of agent/graph.py and the assessment status each     *)
(* node moves the assessment to.                                           *)
(***************************************************************************)
EXTENDS AssessmentStatus

\* _NODES.
PipelineNodes ==
    {"understand", "plan", "recon", "discover_assets", "request_approval",
     "execute_scanners", "import_findings", "enrich_intelligence", "attack_path",
     "analyze_findings", "prioritize_findings", "remediate_findings",
     "create_actions", "generate_report"}

\* build_graph's edges: the nodes that may follow n; discover_assets is the one
\* branch (route_after_discovery), decided by depth and the selected assets.
PipelineEdges ==
    [n \in PipelineNodes |->
        CASE n = "understand"          -> {"plan"}
          [] n = "plan"                -> {"recon"}
          [] n = "recon"               -> {"discover_assets"}
          [] n = "discover_assets"     -> {"request_approval", "analyze_findings"}
          [] n = "request_approval"    -> {"execute_scanners"}
          [] n = "execute_scanners"    -> {"import_findings"}
          [] n = "import_findings"     -> {"enrich_intelligence"}
          [] n = "enrich_intelligence" -> {"attack_path"}
          [] n = "attack_path"         -> {"analyze_findings"}
          [] n = "analyze_findings"    -> {"prioritize_findings"}
          [] n = "prioritize_findings" -> {"remediate_findings"}
          [] n = "remediate_findings"  -> {"create_actions"}
          [] n = "create_actions"      -> {"generate_report"}
          [] OTHER                     -> {"END"}]

\* The node the compiled graph pauses in front of (interrupt_before), and the
\* node that opens the approval.
_SCANNER_NODE == "execute_scanners"
_APPROVAL_NODE == "request_approval"

\* The statuses each node asks assessment.transition for, one per transaction, in
\* the order the node runs them.  attack_path leaves the status alone;
\* generate_report enters REMEDIATING first and COMPLETED at the end (_complete).
UnderstandTargets == <<"PLANNING">>
PlanTargets       == <<"PLANNING">>
ReconTargets      == <<"DISCOVERY">>
DiscoverTargets   == <<"DISCOVERY">>
ApprovalTargets   == <<"WAITING_FOR_APPROVAL">>
ScanTargets       == <<"SCANNING">>
ImportTargets     == <<"ANALYZING">>
EnrichTargets     == <<"ANALYZING">>
AttackPathTargets == << >>
AnalyzeTargets    == <<"ANALYZING">>
PrioritizeTargets == <<"ANALYZING">>
RemediateTargets  == <<"REMEDIATING">>
ActionsTargets    == <<"REMEDIATING">>
ReportTargets     == <<"REMEDIATING", "COMPLETED">>

PipelineTargets ==
    [understand          |-> UnderstandTargets,
     plan                |-> PlanTargets,
     recon               |-> ReconTargets,
     discover_assets     |-> DiscoverTargets,
     request_approval    |-> ApprovalTargets,
     execute_scanners    |-> ScanTargets,
     import_findings     |-> ImportTargets,
     enrich_intelligence |-> EnrichTargets,
     attack_path         |-> AttackPathTargets,
     analyze_findings    |-> AnalyzeTargets,
     prioritize_findings |-> PrioritizeTargets,
     remediate_findings  |-> RemediateTargets,
     create_actions      |-> ActionsTargets,
     generate_report     |-> ReportTargets]
=============================================================================
