---------------------------- MODULE ApprovalGate ----------------------------
(***************************************************************************)
(* The FR-011 gate: the approval rows of one assessment, the operators who *)
(* answer them through the API, and the two graph nodes on either side,    *)
(* request_approval (which proposes a scope and opens a row) and           *)
(* execute_scanners (which re-reads the rows and scans what was granted).  *)
(*                                                                         *)
(* The driving process may die at any point; LangGraph then re-enters the  *)
(* node it was in.  When and how the paused run is resumed is AgentWorker's*)
(* subject: here it may be resumed at any time, so that what is shown of   *)
(* the gate does not depend on the queue.                                  *)
(***************************************************************************)
EXTENDS Naturals, Sequences, FiniteSets

CONSTANTS Assets,          \* assets of the organization
          Scanners,        \* active scanners
          Operators,       \* people answering through the API
          NoRequest,       \* no request open
          Unspecified,     \* a field of ApproveIn left out
          SelectedAssets,  \* what discover_assets selected
          DepthScanners,   \* active_scanners(depth)
          MaxAssets,       \* _MAX_ASSETS
          MaxRows,         \* bound on approval rows
          MaxCrashes       \* bound on crashes of the driving process

\* What a payload names.
Scopes == [assets : SUBSET Assets, scanners : SUBSET Scanners]

Nothing == [assets |-> {}, scanners |-> {}]

\* ApprovalDecision, and _GRANTING_DECISIONS / Approval.is_granted.
Decisions == {"pending", "approved", "approved_all", "customized", "rejected", "expired"}
GrantingDecisions == {"approved", "approved_all", "customized"}

\* A row of the approvals table: requested_payload and approved_payload.
Approvals == [decision : Decisions, requested : Scopes, approved : Scopes]

\* A resolve request between its checks and its UPDATE.
Requests ==
    [row : 1 .. MaxRows, decision : GrantingDecisions \cup {"rejected"}, approved : Scopes]

ASSUME GateConstants ==
    /\ SelectedAssets \subseteq Assets
    /\ DepthScanners \subseteq Scanners
    /\ \A S \in SUBSET Assets : S # Unspecified
    /\ \A S \in SUBSET Scanners : S # Unspecified
    /\ \A r \in Requests : r # NoRequest
    /\ MaxAssets \in Nat \ {0}
    /\ MaxRows \in Nat
    /\ MaxCrashes \in Nat

\* Where the driving process stands: in request_approval, its row committed but
\* not yet checkpointed, paused in front of the gate, in execute_scanners before
\* and after its plan, past it.
Points == {"request", "opened", "paused", "gate", "scanning", "past"}

VARIABLES
    rows,      \* the approvals table, oldest first
    answered,  \* rows in the order of their resolved_at
    lapsed,    \* rows whose expires_at has passed
    denied,    \* the organization's denied_targets
    request,   \* request[o]: the resolve request of o in progress
    node,      \* where the driving process stands
    plan,      \* the scope execute_scanners planned, less the scanners already run
    started,   \* <<asset, scanner>> pairs a scanner was started on
    crashes

vars == <<rows, answered, lapsed, denied, request, node, plan, started, crashes>>

\* Rows, requests and the plan are of the kinds the tables and the code give them.
TypeOK ==
    /\ rows \in Seq(Approvals)
    /\ Len(rows) <= MaxRows
    /\ answered \in Seq(1 .. MaxRows)
    /\ lapsed \subseteq 1 .. MaxRows
    /\ denied \subseteq Assets
    /\ request \in [Operators -> Requests \cup {NoRequest}]
    /\ node \in Points
    /\ plan \in Scopes
    /\ started \subseteq Assets \X Scanners
    /\ crashes \in Nat

Init ==
    /\ rows = << >>
    /\ answered = << >>
    /\ lapsed = {}
    /\ denied = {}
    /\ request = [o \in Operators |-> NoRequest]
    /\ node = "request"
    /\ plan = Nothing
    /\ started = {}
    /\ crashes = 0

-----------------------------------------------------------------------------
(* request_approval                                                        *)

Pending == {i \in DOMAIN rows : rows[i].decision = "pending"}

\* The row open_approval inserts, with the payload of _requested_payload.
NewApproval ==
    [decision  |-> "pending",
     requested |-> [assets |-> SelectedAssets, scanners |-> DepthScanners],
     approved  |-> Nothing]

\* Mutant of OpenApproval: a row is inserted whether or not one is pending.
OpenApprovalAgain ==
    /\ node = "request"
    /\ node' = "opened"
    /\ Len(rows) < MaxRows
    /\ rows' = Append(rows, NewApproval)
    /\ UNCHANGED <<answered, lapsed, denied, request, plan, started, crashes>>

\* _open_and_stage: open_approval reuses the pending row, expired or not, and
\* inserts one otherwise.
OpenApproval ==
    /\ node = "request"
    /\ node' = "opened"
    /\ IF Pending # {}
       THEN UNCHANGED rows
       ELSE /\ Len(rows) < MaxRows
            /\ rows' = Append(rows, NewApproval)
    /\ UNCHANGED <<answered, lapsed, denied, request, plan, started, crashes>>

\* The node returns, its checkpoint is saved, and the graph pauses in front of
\* execute_scanners (interrupt_before).
Pause ==
    /\ node = "opened"
    /\ node' = "paused"
    /\ UNCHANGED <<rows, answered, lapsed, denied, request, plan, started, crashes>>

-----------------------------------------------------------------------------
(* resolve_approval                                                        *)

\* Mutant of Narrow: a customized selection is taken as the client sent it.
NarrowVerbatim(requested, decision, assets, scanners) ==
    IF decision = "approved_all" THEN requested
    ELSE [assets   |-> IF assets = Unspecified THEN requested.assets ELSE assets,
          scanners |-> IF scanners = Unspecified THEN requested.scanners ELSE scanners]

\* _narrow_payload before its size cap: the operator's selection, cut down to
\* what was proposed.
Narrow(requested, decision, assets, scanners) ==
    IF decision = "approved_all" THEN requested
    ELSE [assets   |-> IF assets = Unspecified THEN requested.assets
                       ELSE requested.assets \cap assets,
          scanners |-> IF scanners = Unspecified THEN requested.scanners
                       ELSE requested.scanners \cap scanners]

\* asset_ids[:_MAX_ASSETS].
Capped(assets) ==
    IF Cardinality(assets) <= MaxAssets THEN {assets}
    ELSE {kept \in SUBSET assets : Cardinality(kept) = MaxAssets}

\* A granting request passes the checks of resolve_approval and _narrow_payload
\* on the row it loaded: pending, not expired, a customized one names assets, and
\* neither selection comes out empty.
SubmitGrant(o, i, decision, assets, scanners) ==
    LET narrowed == Narrow(rows[i].requested, decision, assets, scanners)
    IN  /\ request[o] = NoRequest
        /\ i \in Pending \ lapsed
        /\ decision = "customized" => assets \notin {Unspecified, {}}
        /\ narrowed.assets # {}
        /\ narrowed.scanners # {}
        /\ \E kept \in Capped(narrowed.assets) :
              request' = [request EXCEPT ![o] =
                 [row |-> i, decision |-> decision,
                  approved |-> [assets |-> kept, scanners |-> narrowed.scanners]]]
        /\ UNCHANGED <<rows, answered, lapsed, denied, node, plan, started, crashes>>

\* A rejection needs no payload.
SubmitReject(o, i) ==
    /\ request[o] = NoRequest
    /\ i \in Pending \ lapsed
    /\ request' = [request EXCEPT ![o] =
                     [row |-> i, decision |-> "rejected", approved |-> Nothing]]
    /\ UNCHANGED <<rows, answered, lapsed, denied, node, plan, started, crashes>>

\* The row with decision and approved_payload set.
Answer(row, r) ==
    [decision |-> r.decision, requested |-> row.requested, approved |-> r.approved]

\* Mutant of Resolve: a plain UPDATE by primary key, trusting the earlier read.
ResolveUnconditional(o) ==
    LET r == request[o]
    IN  /\ r # NoRequest
        /\ rows' = [rows EXCEPT ![r.row] = Answer(@, r)]
        /\ answered' = Append(answered, r.row)
        /\ request' = [request EXCEPT ![o] = NoRequest]
        /\ UNCHANGED <<lapsed, denied, node, plan, started, crashes>>

\* The conditional UPDATE (WHERE decision = 'pending') and its commit; it does
\* not look at expires_at again.
Resolve(o) ==
    LET r == request[o]
    IN  /\ r # NoRequest
        /\ r.row \in Pending
        /\ rows' = [rows EXCEPT ![r.row] = Answer(@, r)]
        /\ answered' = Append(answered, r.row)
        /\ request' = [request EXCEPT ![o] = NoRequest]
        /\ UNCHANGED <<lapsed, denied, node, plan, started, crashes>>

\* rowcount is 0: ConflictError.
ResolveConflict(o) ==
    /\ request[o] # NoRequest
    /\ request[o].row \notin Pending
    /\ request' = [request EXCEPT ![o] = NoRequest]
    /\ UNCHANGED <<rows, answered, lapsed, denied, node, plan, started, crashes>>

\* An answer to an expired row: _mark_expired writes EXPIRED, but the
\* ConflictError raised next makes get_db roll it back.  Nothing remains.
ResolveExpired(o, i) ==
    /\ request[o] = NoRequest
    /\ i \in Pending \cap lapsed
    /\ UNCHANGED vars

-----------------------------------------------------------------------------
(* execute_scanners                                                        *)

\* The paused run is invoked again: a RESUME, or a redelivered message.
Resume ==
    /\ node = "paused"
    /\ node' = "gate"
    /\ UNCHANGED <<rows, answered, lapsed, denied, request, plan, started, crashes>>

Granted(i) == rows[i].decision \in GrantingDecisions

\* granted_approval: the grant with the latest resolved_at.
GrantedApproval(i) ==
    \E k \in DOMAIN answered :
        /\ answered[k] = i
        /\ Granted(i)
        /\ \A l \in DOMAIN answered : l > k => ~Granted(answered[l])

\* Mutant of ResolveScope: the plan is made from what the agent proposed.
ResolveScopeFromRequest(i) ==
    [assets |-> rows[i].requested.assets \ denied, scanners |-> rows[i].requested.scanners]

\* _resolve_scope: approval_targets, the deny list as it is now
\* (_canonical_targets).
ResolveScope(i) ==
    [assets |-> rows[i].approved.assets \ denied, scanners |-> rows[i].approved.scanners]

\* _authorize_and_plan with a grant.
AuthorizeAndPlan(i) ==
    /\ node = "gate"
    /\ i \in DOMAIN rows
    /\ GrantedApproval(i)
    /\ LET scope == ResolveScope(i)
       IN  IF scope.assets = {} \/ scope.scanners = {}
           THEN node' = "past" /\ plan' = Nothing
           ELSE node' = "scanning" /\ plan' = scope
    /\ UNCHANGED <<rows, answered, lapsed, denied, request, started, crashes>>

\* _authorize_and_plan without one, or with an assessment that is no longer
\* waiting or scanning: nothing is scanned.
NoScan ==
    /\ node = "gate"
    /\ node' = "past"
    /\ UNCHANGED <<rows, answered, lapsed, denied, request, plan, started, crashes>>

\* _run_scanner: one scanner of the plan is started on all its targets, or
\* degraded before it starts (no slot, refused invocation).
RunScanner(s) ==
    /\ node = "scanning"
    /\ s \in plan.scanners
    /\ plan' = [assets |-> plan.assets, scanners |-> plan.scanners \ {s}]
    /\ \/ started' = started \cup (plan.assets \X {s})
       \/ UNCHANGED started
    /\ UNCHANGED <<rows, answered, lapsed, denied, request, node, crashes>>

\* The node returns after its last scanner.
ScanDone ==
    /\ node = "scanning"
    /\ plan.scanners = {}
    /\ node' = "past"
    /\ plan' = Nothing
    /\ UNCHANGED <<rows, answered, lapsed, denied, request, started, crashes>>

-----------------------------------------------------------------------------
(* Around the gate                                                         *)

\* The driving process dies before the node it is in was checkpointed, and the
\* run is driven again from that node.
Crash ==
    /\ node \in {"opened", "gate", "scanning"}
    /\ crashes < MaxCrashes
    /\ crashes' = crashes + 1
    /\ node' = IF node = "opened" THEN "request" ELSE "gate"
    /\ plan' = Nothing
    /\ UNCHANGED <<rows, answered, lapsed, denied, request, started>>

\* A row passes its expires_at.
Lapse(i) ==
    /\ i \in DOMAIN rows \ lapsed
    /\ lapsed' = lapsed \cup {i}
    /\ UNCHANGED <<rows, answered, denied, request, node, plan, started, crashes>>

\* The organization denies one more target.
Deny(a) ==
    /\ a \in Assets \ denied
    /\ denied' = denied \cup {a}
    /\ UNCHANGED <<rows, answered, lapsed, request, node, plan, started, crashes>>

Operator(o) ==
    \/ \E i \in 1 .. MaxRows :
          \/ SubmitReject(o, i)
          \/ ResolveExpired(o, i)
          \/ i \in DOMAIN rows /\
             \E decision \in GrantingDecisions, assets \in (SUBSET Assets) \cup {Unspecified},
                scanners \in (SUBSET Scanners) \cup {Unspecified} :
                   SubmitGrant(o, i, decision, assets, scanners)
    \/ Resolve(o)
    \/ ResolveConflict(o)

Driver ==
    \/ OpenApproval \/ Pause \/ NoScan \/ ScanDone
    \/ \E i \in 1 .. MaxRows : AuthorizeAndPlan(i)
    \/ \E s \in Scanners : RunScanner(s)

Next ==
    \/ \E o \in Operators : Operator(o)
    \/ Driver
    \/ Resume
    \/ Crash
    \/ \E i \in 1 .. MaxRows : Lapse(i)
    \/ \E a \in Assets : Deny(a)

Spec == Init /\ [][Next]_vars

-----------------------------------------------------------------------------
(* Properties                                                              *)

\* A decision is made once: whatever two operators, a replayed node or a crash
\* do, a row that left `pending' keeps its decision and its approved payload.
AnsweredOnce ==
    [][\A i \in DOMAIN rows : rows[i].decision # "pending" => rows'[i] = rows[i]]_vars

\* Consent only narrows: what a granted row authorizes is part of what its
\* operator was shown, and is something.
ConsentNarrows ==
    \A i \in DOMAIN rows : Granted(i) =>
        /\ rows[i].approved.assets \subseteq rows[i].requested.assets
        /\ rows[i].approved.scanners \subseteq rows[i].requested.scanners
        /\ rows[i].approved.assets # {}
        /\ rows[i].approved.scanners # {}

\* Every scanner that was ever started on a target had a row that grants this
\* scanner for this target, across replays of the node and later changes of the
\* rows: authority is read from the table, never from the checkpoint.
ScanWithinConsent ==
    \A p \in started :
        \E i \in DOMAIN rows :
            /\ Granted(i)
            /\ p[1] \in rows[i].approved.assets
            /\ p[2] \in rows[i].approved.scanners

\* One question at a time: re-entering the node never puts a second pending row
\* beside the first.
OnePending == \A i, j \in Pending : i = j

\* What the module docstring wants the single gate for: nobody gets "a second
\* chance to approve something the operator already rejected".
RejectionStands ==
    \A i, j \in DOMAIN rows : rows[i].decision = "rejected" => ~Granted(j)
=============================================================================
