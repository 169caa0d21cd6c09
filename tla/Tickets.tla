------------------------------ MODULE Tickets ------------------------------
(***************************************************************************)
(* One Jira issue per finding: services/ticket.py, integrations/jira.py    *)
(* and the create_actions node (agent/nodes/actions.py).                   *)
(*                                                                         *)
(* A filer is a run of the node, which files the findings without a link   *)
(* one by one, or a person's request for one finding.  Jira is outside: a  *)
(* POST may create the issue and lose the answer, and a search may fail.   *)
(***************************************************************************)
EXTENDS Naturals, FiniteSets

CONSTANTS
    Findings,       \* findings above the organization's ticket floor
    Agents,         \* runs of the node
    People,         \* requests of POST /findings/{id}/tickets
    MaxPosts,       \* RetryPolicy.max_attempts (3 in the source)
    MaxIssues,      \* bound: issues of one finding
    Integrations    \* what the Jira integration of the organization may be

ASSUME TicketsAssumption == MaxPosts \in Nat \ {0} /\ MaxIssues \in Nat

Filers == Agents \cup People

VARIABLES
    jira,           \* the integration: "ready", "unset" or "disabled"
    issues,         \* external: issues in Jira with the label of the finding
    links,          \* ticket_links: findings with a committed row
    filer,          \* the filers
    causes          \* history: what happened to the filings of a finding

ticketVars == <<jira, issues, links, filer, causes>>

Rest == [pc |-> "idle", todo |-> {}, finding |-> {}, attempts |-> 0]
Filing(p) == filer[p].pc \in {"search", "post", "repost", "link"}

TicketsInit ==
    /\ jira \in Integrations
    /\ issues = [f \in Findings |-> 0]
    /\ links = {}
    /\ filer = [p \in Filers |-> Rest]
    /\ causes = [f \in Findings |-> {}]

FilerGoes(p, pc) == filer' = [filer EXCEPT ![p].pc = pc, ![p].attempts = 0]
Causes(f, c) == causes' = [causes EXCEPT ![f] = @ \cup {c}]

-----------------------------------------------------------------------------
\* ticket_candidates, of those above the organization's floor.
Candidates == Findings \ links

(* _file_tickets: resolve_settings refuses a disabled integration, an       *)
(* integration that is not configured degrades the step                     *)
NodeStart(a) ==
    /\ filer[a].pc = "idle"
    /\ filer' = [filer EXCEPT ![a] =
                   CASE jira = "disabled" -> [Rest EXCEPT !.pc = "raised"]
                     [] jira = "unset" -> [Rest EXCEPT !.pc = "degraded"]
                     [] OTHER -> [Rest EXCEPT !.pc = "next", !.todo = Candidates]]
    /\ UNCHANGED <<jira, issues, links, causes>>

PersonAsks(p, f) ==
    /\ filer[p].pc = "idle"
    /\ filer' = [filer EXCEPT ![p] = [Rest EXCEPT !.pc = "next", !.todo = {f}]]
    /\ UNCHANGED <<jira, issues, links, causes>>

NodeDone(p) ==
    /\ filer[p].pc = "next"
    /\ filer[p].todo = {}
    /\ filer' = [filer EXCEPT ![p] = [Rest EXCEPT !.pc = "done"]]
    /\ UNCHANGED <<jira, issues, links, causes>>

(* create_ticket up to the call of Jira: the linked finding is left alone   *)
CreateTicket(p, f) ==
    /\ filer[p].pc = "next"
    /\ f \in filer[p].todo
    /\ filer' = [filer EXCEPT ![p] =
                   [Rest EXCEPT !.todo = filer[p].todo \ {f}, !.finding = {f},
                                !.pc = IF f \in links THEN "next"
                                       ELSE IF jira = "ready" THEN "search" ELSE "failed"]]
    /\ IF \E q \in Filers \ {p} : Filing(q) /\ filer[q].finding = {f}
       THEN Causes(f, "overlap") ELSE UNCHANGED causes
    /\ UNCHANGED <<jira, issues, links>>

(* Mutant: find_for_finding forgets the issue an earlier crash left behind  *)
SearchFindsNothing(p, answered) ==
    \E f \in filer[p].finding :
        /\ filer[p].pc = "search"
        /\ FilerGoes(p, "post")
        /\ IF answered THEN UNCHANGED causes ELSE Causes(f, "search failed")
        /\ UNCHANGED <<jira, issues, links>>

(* find_for_finding: a search that fails is taken for no issue              *)
Search(p, answered) ==
    \E f \in filer[p].finding :
        /\ filer[p].pc = "search"
        /\ FilerGoes(p, IF answered /\ issues[f] > 0 THEN "link" ELSE "post")
        /\ IF answered THEN UNCHANGED causes ELSE Causes(f, "search failed")
        /\ UNCHANGED <<jira, issues, links>>

(* An attempt of ResilientClient.request: the POST carries an idempotency   *)
(* key, so an attempt that got no answer or a retryable status is repeated, *)
(* a final status is not.                                                   *)
Answers == {"created", "created, no answer", "no answer", "refused"}

Post(p, answer) ==
    \E f \in filer[p].finding :
        LET again == answer \in {"created, no answer", "no answer"}
                     /\ filer[p].attempts + 1 < MaxPosts
        IN
        /\ filer[p].pc \in {"post", "repost"}
        /\ issues' = [issues EXCEPT ![f] =
                        IF answer \in {"created", "created, no answer"} THEN @ + 1 ELSE @]
        /\ issues'[f] <= MaxIssues
        /\ IF again
           THEN filer' = [filer EXCEPT ![p].attempts = @ + 1]
           ELSE FilerGoes(p, IF answer = "created" THEN "link"
                             ELSE IF filer[p].pc = "post" THEN "repost"  \* with fewer fields
                             ELSE "failed")
        /\ IF answer = "created, no answer" THEN Causes(f, "no answer") ELSE UNCHANGED causes
        /\ UNCHANGED <<jira, links>>

(* The link row and its commit.  unique_ticket_per_finding refuses a second *)
(* one, and the IntegrityError is no IntegrationError: it leaves the node.  *)
Link(p) ==
    \E f \in filer[p].finding :
        /\ filer[p].pc = "link"
        /\ links' = links \cup {f}
        /\ FilerGoes(p, IF f \in links THEN "raised" ELSE "next")
        /\ UNCHANGED <<jira, issues, causes>>

(* The batch stops at the first failure of Jira: degraded for the node, an  *)
(* error for the person; the transaction and its audit row are rolled back. *)
JiraFailed(p) ==
    /\ filer[p].pc = "failed"
    /\ filer' = [filer EXCEPT ![p] =
                   [Rest EXCEPT !.pc = IF p \in Agents THEN "degraded" ELSE "refused"]]
    /\ UNCHANGED <<jira, issues, links, causes>>

(* The process dies, or the transaction does not commit *)
FilerDies(p) ==
    /\ filer[p].pc \notin {"idle", "done", "degraded", "raised", "refused"}
    /\ filer' = [filer EXCEPT ![p] = Rest]
    /\ UNCHANGED <<jira, issues, links, causes>>

(* The next run of the node, or the person, asks again *)
Again(p) ==
    /\ filer[p].pc \in {"done", "degraded", "raised", "refused"}
    /\ filer' = [filer EXCEPT ![p] = Rest]
    /\ UNCHANGED <<jira, issues, links, causes>>

TicketsNext ==
    \E p \in Filers :
        \/ p \in Agents /\ NodeStart(p)
        \/ \E f \in Findings : p \in People /\ PersonAsks(p, f)
        \/ \E f \in Findings : CreateTicket(p, f)
        \/ \E answered \in BOOLEAN : Search(p, answered)
        \/ \E answer \in Answers : Post(p, answer)
        \/ NodeDone(p)
        \/ Link(p)
        \/ JiraFailed(p)
        \/ FilerDies(p)
        \/ Again(p)

TicketsSpec == TicketsInit /\ [][TicketsNext]_ticketVars

-----------------------------------------------------------------------------
TicketsTypeOK ==
    /\ jira \in Integrations
    /\ issues \in [Findings -> 0..MaxIssues]
    /\ links \subseteq Findings
    /\ \A p \in Filers :
         /\ filer[p].pc \in {"idle", "next", "search", "post", "repost", "link", "failed",
                             "done", "degraded", "raised", "refused"}
         /\ filer[p].todo \subseteq Findings
         /\ filer[p].attempts \in 0..MaxPosts

(* A crash between the POST and the commit files no second issue: a finding *)
(* has several only if an answer of Jira was lost, a search failed, or two  *)
(* filings of it overlapped.                                                *)
OneIssueUnlessDisturbed == \A f \in Findings : issues[f] > 1 => causes[f] # {}

(* A filing that fails leaves the run of the node standing: it raises only  *)
(* when two filings of one finding overlapped, or when the integration is   *)
(* disabled (resolve_settings raises what the node does not catch).         *)
RaisesOnlyOnOverlap ==
    \A a \in Agents :
        filer[a].pc = "raised" /\ jira # "disabled" => \E f \in Findings : "overlap" \in causes[f]

(* services/ticket.py: what a crash, a lost answer and a failed search may  *)
(* do to the issues, the links and the run, over every order of the filers. *)
TicketsInv == TicketsTypeOK /\ OneIssueUnlessDisturbed /\ RaisesOnlyOnOverlap
=============================================================================
