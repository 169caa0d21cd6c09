------------------------------ MODULE Outputs ------------------------------
(***************************************************************************)
(* What leaves a run towards others: the assets a scan hands to the        *)
(* inventory, and the prompts an exchange hands to a model.                *)
(***************************************************************************)
EXTENDS ReconOutput, PromptBudget

(* What of a scan reaches the inventory, and what of an exchange reaches a  *)
(* model: agent/nodes/recon.py, llm/budget.py.                              *)
OutputsInv == ReconInv /\ PromptInv
=============================================================================
