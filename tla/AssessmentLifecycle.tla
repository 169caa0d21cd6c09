------------------------ MODULE AssessmentLifecycle -------------------------
(***************************************************************************)
(* The assessment state machine under concurrent writers: AssessmentRow    *)
(* with a history variable that remembers which open transactions decide   *)
(* on a copy that is no longer the row.                                    *)
(***************************************************************************)
EXTENDS AssessmentRow

VARIABLE overtaken      \* writers whose row was changed since they loaded it

vars == <<status, seen, overtaken>>

\* Every value is of the kind its column or session holds, and only an open
\* transaction can be overtaken.
TypeOK ==
    /\ RowTypeOK
    /\ overtaken \subseteq {w \in Writers : seen[w] # NoTxn}

Init == RowInit /\ overtaken = {}

LoadRow(w) == Load(w) /\ UNCHANGED overtaken

\* Mutant of CommitRow: transition() does not consult the table.
CommitUnchecked(w, to) ==
    /\ seen[w] # NoTxn
    /\ to \in Requests(w)
    /\ status' = to
    /\ seen' = [seen EXCEPT ![w] = NoTxn]
    /\ overtaken' = IF to = seen[w]
                    THEN overtaken \ {w}
                    ELSE {v \in Writers : v # w /\ seen[v] # NoTxn}

\* A commit that changes the row overtakes every transaction open beside it.
CommitRow(w, to) ==
    /\ Commit(w, to)
    /\ overtaken' = IF to = seen[w]
                    THEN overtaken \ {w}
                    ELSE {v \in Writers : v # w /\ seen[v] # NoTxn}

RollbackRow(w) == Rollback(w) /\ overtaken' = overtaken \ {w}

Next ==
    \E w \in Writers :
        \/ LoadRow(w)
        \/ \E to \in Statuses : CommitRow(w, to)
        \/ RollbackRow(w)

Spec == Init /\ [][Next]_vars

-----------------------------------------------------------------------------
(* Properties                                                              *)

\* w commits in this step although the row changed after w loaded it.
StaleCommit(w) == w \in overtaken /\ seen[w] # NoTxn /\ seen'[w] = NoTxn

\* The copy a transaction decides on is the committed row unless another
\* transaction committed a change after it was loaded.
FreshUnlessOvertaken ==
    \A w \in Writers : seen[w] # NoTxn /\ w \notin overtaken => seen[w] = status

\* The state machine of enums.py is obeyed by the column itself, not only by
\* the copies, except by a writer that was overtaken: every illegal move of the
\* row is the commit of a transaction that loaded it before somebody's change.
LegalUnlessOvertaken ==
    [][status' # status =>
         \/ status' \in ALLOWED_TRANSITIONS[status]
         \/ \E w \in Writers : StaleCommit(w)]_vars

\* What the comment on ALLOWED_TRANSITIONS promises: whatever the race, a
\* finished assessment is never resurrected.
FinishedStaysFinished ==
    [][(status \in TerminalStatuses) => (status' = status)]_vars
=============================================================================
