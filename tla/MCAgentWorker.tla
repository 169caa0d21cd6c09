---------------------------- MODULE MCAgentWorker ---------------------------
(* Two workers and one operator, on the pipeline of agent/graph.py and on a *)
(* short form of it in which neighbouring nodes that ask for the same       *)
(* status are one node.                                                     *)
EXTENDS AgentWorker, AgentGraph, TLC

CONSTANTS w1, w2, operator

MCWorkers == {w1, w2}
MCOperators == {operator}
WorkerSymmetry == Permutations(MCWorkers)

ShortNodes == {"plan", "recon", "request_approval", "execute_scanners",
               "import_findings", "generate_report"}

ShortEdges ==
    [n \in ShortNodes |->
        CASE n = "plan"             -> {"recon"}
          [] n = "recon"            -> {"request_approval", "import_findings"}
          [] n = "request_approval" -> {"execute_scanners"}
          [] n = "execute_scanners" -> {"import_findings"}
          [] n = "import_findings"  -> {"generate_report"}
          [] OTHER                  -> {"END"}]

\* A passive assessment: route_after_discovery always skips the scan block.
PassiveEdges == [ShortEdges EXCEPT !["recon"] = {"import_findings"}]

\* Both graphs ask once: these are the nodes behind request_approval.
AfterApproval ==
    Nodes \ {"understand", "plan", "recon", "discover_assets", "request_approval"}

ASSUME PipelineAsksOnce == AsksOnce(AfterApproval)

ShortTargets == [n \in ShortNodes |-> PipelineTargets[n]]
=============================================================================
