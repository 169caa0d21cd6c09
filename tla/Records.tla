------------------------------- MODULE Records ------------------------------
(***************************************************************************)
(* What a run shows to people and what it keeps of its work, across the    *)
(* components that show and keep it.                                       *)
(***************************************************************************)
EXTENDS Conversation, EventStream, StepLog, Inventory, Reports

(* The session of a run: the numbering, the retries and the counter of its  *)
(* conversation (api/v1/agent.py), and what a page of it may and may not    *)
(* show (services/events.py).                                               *)
SessionInv == ConversationInv /\ EventsInv

(* What a run keeps: the rows of its steps and the checklist made of them   *)
(* (services/progress.py), the inventory it shares with the runs of other   *)
(* assessments (services/asset.py), its reports (reporting/generate.py).    *)
RecordsInv == StepsInv /\ InventoryInv /\ ReportsInv
=============================================================================
