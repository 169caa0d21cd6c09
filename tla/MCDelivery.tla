------------------------------ MODULE MCDelivery ----------------------------
(* What a run hands on: the assets it finds and the inventory it keeps, the *)
(* steps, turns and events it shows, the prompts it makes, the tickets,     *)
(* fixes, alerts and reports it leaves.  No variable is shared; a run moves *)
(* one of them, the focus, and leaves the others at rest.                   *)
EXTENDS Tickets, Notifications, Remediation, Records, Outputs, TLC

CONSTANTS first, second

(* Two of a kind, of every kind that comes in twos; they are interchangeable *)
MCTwo == {first, second}
Symmetry == Permutations(MCTwo)

MCStageOrder == <<"recon", "scan", "report">>
MCChannels == <<"websocket", "slack", "email">>

VARIABLE focus

MCParts == {"tickets", "alerts", "fixes", "events", "steps", "inventory",
            "reports", "prompts", "recon", "turns"}

RestingQuestion == <<Message("system", 2, 1), Message("user", 1, 2)>>

MCInit ==
    /\ focus \in MCParts
    /\ TicketsInit /\ (focus = "tickets" \/ jira = "ready")
    /\ NotificationsInit /\ (focus = "alerts" \/ (~below /\ ~completion))
    /\ RemediationInit /\ (focus = "fixes" \/ dify = "ready")
    /\ EventsInit
    /\ StepsInit /\ (focus = "steps" \/ (depth = "active" /\ scoped))
    /\ InventoryInit
    /\ ReportsInit /\ (focus = "reports" \/ configured)
    /\ PromptInit /\ (focus = "prompts" \/ question = RestingQuestion)
    /\ ReconInit /\ (focus = "recon" \/ targets = <<<<"repository", NULL>>>>)
    /\ ConversationInit /\ (focus = "turns" \/ opened)

\* The parts other than the one in focus stay as they are.
OthersRest ==
    /\ IF focus = "tickets" THEN TRUE ELSE UNCHANGED ticketVars
    /\ IF focus = "alerts" THEN TRUE ELSE UNCHANGED notificationVars
    /\ IF focus = "fixes" THEN TRUE ELSE UNCHANGED remediationVars
    /\ IF focus = "events" THEN TRUE ELSE UNCHANGED eventVars
    /\ IF focus = "steps" THEN TRUE ELSE UNCHANGED stepVars
    /\ IF focus = "inventory" THEN TRUE ELSE UNCHANGED inventoryVars
    /\ IF focus = "reports" THEN TRUE ELSE UNCHANGED reportVars
    /\ IF focus = "prompts" THEN TRUE ELSE UNCHANGED promptVars
    /\ IF focus = "recon" THEN TRUE ELSE UNCHANGED reconVars
    /\ IF focus = "turns" THEN TRUE ELSE UNCHANGED conversationVars

MCNext ==
    /\ UNCHANGED focus
    /\ \/ focus = "tickets" /\ TicketsNext /\ OthersRest
       \/ focus = "alerts" /\ NotificationsNext /\ OthersRest
       \/ focus = "fixes" /\ RemediationNext /\ OthersRest
       \/ focus = "events" /\ EventsNext /\ OthersRest
       \/ focus = "steps" /\ StepsNext /\ OthersRest
       \/ focus = "inventory" /\ InventoryNext /\ OthersRest
       \/ focus = "reports" /\ ReportsNext /\ OthersRest
       \/ focus = "prompts" /\ PromptNext /\ OthersRest
       \/ focus = "recon" /\ ReconNext /\ OthersRest
       \/ focus = "turns" /\ ConversationNext /\ OthersRest

MCSpec ==
    MCInit /\ [][MCNext]_<<focus, ticketVars, notificationVars, remediationVars,
                           eventVars, stepVars, inventoryVars, reportVars, promptVars, reconVars,
                           conversationVars>>
=============================================================================
