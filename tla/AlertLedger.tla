----------------------------- MODULE AlertLedger ---------------------------
(***************************************************************************)
(* The ledger of GitHub's security alerts: POST /integrations/github/sync, *)
(* integrations/github.py and services/external_alert.py.  A sync reads    *)
(* the feeds one after another while GitHub moves on, then upserts what it *)
(* read in one statement; nothing keeps two syncs apart but the unique key *)
(* of the table, which is the feed and the alert's number.                 *)
(***************************************************************************)
EXTENDS Naturals, FiniteSets

CONSTANTS
    Syncs,          \* syncs under way at the same time
    Feeds,          \* _SECURITY_FEEDS, read in this order: 1..n
    Repositories,   \* repositories of the GitHub organization
    Numbers,        \* alert numbers; GitHub counts in every repository
    PageSize,       \* external: alerts of one answer
    MaxMoves,       \* bound: changes at GitHub
    NOENTRY         \* no such row of the ledger

Alerts == Repositories \X Numbers
States == {"open", "fixed"}

\* A normalized alert: normalize_github_alert.
Entries == [repository : Repositories, number : Numbers, state : States]

ASSUME LedgerAssumption ==
    /\ IsFiniteSet(Feeds) /\ Feeds # {} /\ Feeds = 1 .. Cardinality(Feeds)
    /\ IsFiniteSet(Repositories)
    /\ IsFiniteSet(Numbers)
    /\ PageSize \in Nat
    /\ MaxMoves \in Nat
    /\ NOENTRY \notin Entries

VARIABLES
    github,         \* external: the state of every alert, or "none"
    moves,          \* bound: changes at GitHub so far
    ledger,         \* rows of external_security_alerts
    syncing,        \* the syncs
    steady,         \* history: alerts as they have been since each sync began
    committing      \* history: another sync committed since each one began

ledgerVars == <<github, moves, ledger, syncing, steady, committing>>

NoSync == [pc |-> "idle", feed |-> 1, feeds |-> [f \in Feeds |-> {}], total |-> 0]

LedgerInit ==
    /\ github = [f \in Feeds |-> [a \in Alerts |-> "none"]]
    /\ moves = 0
    /\ ledger = [f \in Feeds |-> [n \in Numbers |-> NOENTRY]]
    /\ syncing = [s \in Syncs |-> NoSync]
    /\ steady = [s \in Syncs |-> {}]
    /\ committing = [s \in Syncs |-> FALSE]

Raised(f) == {a \in Alerts : github[f][a] # "none"}

(* An alert is raised, fixed or raised again *)
GitHubMoves(f, a, state) ==
    /\ moves < MaxMoves
    /\ github[f][a] # state
    /\ moves' = moves + 1
    /\ github' = [github EXCEPT ![f][a] = state]
    /\ steady' = [s \in Syncs |-> steady[s] \ {<<f, a>>}]
    /\ UNCHANGED <<ledger, syncing, committing>>

BeginSync(s) ==
    /\ syncing[s].pc = "idle"
    /\ syncing' = [syncing EXCEPT ![s] = [NoSync EXCEPT !.pc = "reading"]]
    /\ steady' = [steady EXCEPT ![s] = {k \in Feeds \X Alerts : k[2] \in Raised(k[1])}]
    /\ committing' = [committing EXCEPT ![s] = FALSE]
    /\ UNCHANGED <<github, moves, ledger>>

(* One answer holds a page, and no other page is asked for *)
Pages(f) ==
    IF Cardinality(Raised(f)) <= PageSize THEN {Raised(f)}
    ELSE {some \in SUBSET Raised(f) : Cardinality(some) = PageSize}

\* Mutant: a feed that fails counts as empty.
FeedTakenAsEmpty(s) ==
    /\ syncing[s].pc = "reading"
    /\ syncing' = [syncing EXCEPT ![s].feed = @ + 1,
                                  ![s].pc = IF syncing[s].feed + 1 \in Feeds THEN @ ELSE "read"]
    /\ UNCHANGED <<github, moves, ledger, steady, committing>>

\* The alert as normalize_github_alert has it now.
EntryOf(f, a) == [repository |-> a[1], number |-> a[2], state |-> github[f][a]]

\* A sync that has read one more feed.
WithPage(sync, page) ==
    [pc    |-> IF sync.feed + 1 \in Feeds THEN "reading" ELSE "read",
     feed  |-> sync.feed + 1,
     feeds |-> [sync.feeds EXCEPT ![sync.feed] = {EntryOf(sync.feed, a) : a \in page}],
     total |-> sync.total]

(* list_security_alerts: the next feed's page ... *)
ReadFeed(s) ==
    /\ syncing[s].pc = "reading"
    /\ \E page \in Pages(syncing[s].feed) :
         syncing' = [syncing EXCEPT ![s] = WithPage(@, page)]
    /\ UNCHANGED <<github, moves, ledger, steady, committing>>

(* ... or its error, which ends the sync before anything is staged *)
FeedFails(s) ==
    /\ syncing[s].pc = "reading"
    /\ syncing' = [syncing EXCEPT ![s] = NoSync]
    /\ UNCHANGED <<github, moves, ledger, steady, committing>>

\* The keys that a table has a row for.
Held(table) == {k \in Feeds \X Numbers : table[k[1]][k[2]] # NOENTRY}

(* normalize_github_alert and the dictionary by external_id: of two alerts   *)
(* of a feed with one number the later one in the answer is kept             *)
Normalized(s) ==
    {rows \in [Feeds -> [Numbers -> (UNION {syncing[s].feeds[f] : f \in Feeds}) \cup {NOENTRY}]] :
        \A f \in Feeds : \A n \in Numbers :
            LET same == {alert \in syncing[s].feeds[f] : alert.number = n} IN
            IF same = {} THEN rows[f][n] = NOENTRY ELSE rows[f][n] \in same}

(* stage_github_alerts and the commit: insert, or update the row in place;  *)
(* what was not read stays as it was                                        *)
StageGithubAlerts(s) ==
    /\ syncing[s].pc = "read"
    /\ \E rows \in Normalized(s) :
         /\ ledger' = [f \in Feeds |-> [n \in Numbers |->
                          IF rows[f][n] = NOENTRY THEN ledger[f][n] ELSE rows[f][n]]]
         /\ syncing' = [syncing EXCEPT
               ![s] = [@ EXCEPT !.pc = "staged", !.total = Cardinality(Held(rows))]]
    /\ committing' = [other \in Syncs |-> committing[other] \/ other # s]
    /\ UNCHANGED <<github, moves, steady>>

EndSync(s) ==
    /\ syncing[s].pc \in {"read", "staged"}
    /\ syncing' = [syncing EXCEPT ![s] = NoSync]
    /\ UNCHANGED <<github, moves, ledger, steady, committing>>

LedgerNext ==
    \/ \E f \in Feeds, a \in Alerts, state \in States : GitHubMoves(f, a, state)
    \/ \E s \in Syncs :
          BeginSync(s) \/ ReadFeed(s) \/ FeedFails(s) \/ StageGithubAlerts(s) \/ EndSync(s)

LedgerSpec == LedgerInit /\ [][LedgerNext]_ledgerVars

-----------------------------------------------------------------------------
LedgerTypeOK ==
    /\ \A f \in Feeds, n \in Numbers : ledger[f][n] # NOENTRY =>
         ledger[f][n].number = n /\ ledger[f][n].state \in States
    /\ \A s \in Syncs : syncing[s].pc \in {"idle", "reading", "read", "staged"}

Twins(f, a) == {b \in Raised(f) : b[2] = a[2]} # {a}
Overfull(f) == Cardinality(Raised(f)) > PageSize

(* A sync that succeeds says so of the whole organization: an alert that    *)
(* stood unchanged from its beginning to its end is in the ledger as it     *)
(* stands, unless another sync committed meanwhile, the feed has more       *)
(* alerts than a page, or another repository has one of the same number.    *)
NothingMissed ==
    \A s \in Syncs : syncing[s].pc = "staged" /\ ~committing[s] =>
        \A f \in Feeds, a \in Alerts : <<f, a>> \in steady[s] =>
            \/ Twins(f, a) \/ Overfull(f)
            \/ ledger[f][a[2]] = EntryOf(f, a)

(* The number it answers with is the number of rows it wrote: no more than  *)
(* there are alerts, and all of them when nothing moved or collided.        *)
CountIsHonest ==
    \A s \in Syncs : syncing[s].pc = "staged" =>
        syncing[s].total <= Cardinality(Held(ledger))

(* services/external_alert.py: what the ledger says after a sync             *)
LedgerInv == LedgerTypeOK /\ NothingMissed /\ CountIsHonest
=============================================================================
