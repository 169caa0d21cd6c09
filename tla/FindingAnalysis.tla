--------------------------- MODULE FindingAnalysis --------------------------
(***************************************************************************)
(* What the pipeline adds to the imported findings: the false-positive     *)
(* flags of the attack_path node, the analyze_findings node with one model *)
(* call and one transaction per finding, and the operators who ask for the *)
(* analysis of a finding through the API while the nodes run.  Both go     *)
(* through analyze_finding, which loads the row, calls the model and       *)
(* writes the row; the ORM writes a column only if its new value differs   *)
(* from the one that was loaded.                                           *)
(***************************************************************************)
EXTENDS FindingImport

CONSTANTS Operators,   \* the sessions that call POST /findings/{id}/analyze
          Budget,      \* max_findings_analyzed
          MaxRequests  \* bound on their requests

ASSUME AnalysisConstants ==
    /\ Budget \in Nat
    /\ MaxRequests \in Nat
    /\ "node" \notin Operators

VARIABLES
    ai,          \* the findings table: the columns analysis adds
    cands,       \* the candidates the analysis loop has not finished
    tx,          \* per caller, its analyze_finding transaction
    flagSeen,    \* the reasons the correlation transaction loaded
    degraded,    \* an ai_analysis degradation is on the assessment
    unnoted,     \* history: a best-effort note was not written
    requests     \* history: the number of requests

analysisVars == <<ai, cands, tx, flagSeen, degraded, unnoted, requests>>
vars         == <<importVars, analysisVars>>

Callers == Operators \cup {"node"}
NoTx    == [busy |-> FALSE]
Reasons == {"none", "floor", "budget", "closed", "rejected", "error", "flagged"}

\* ai_analyzed_at (0: null; else how often it was set) and ai_skipped_reason.
\* History: the analyses stored without force, and whether two writers overlapped.
AiRow == [analyses : Nat, reason : Reasons, automatic : Nat, overlapped : BOOLEAN]
Blank == [analyses |-> 0, reason |-> "none", automatic |-> 0, overlapped |-> FALSE]

\* The ai columns of the rows there are.
Ai == [f \in DOMAIN rows |-> IF f \in DOMAIN ai THEN ai[f] ELSE Blank]

InFloor(f)  == f[2] \notin Minor
InFlight(f) == \E c \in Callers : tx[c].busy /\ tx[c].finding = f

\* The value a column has after the flush of an ORM object.
Flushed(loaded, new, stored) == IF new = loaded THEN stored ELSE new

AnalysisPoints == {"correlate", "correlating", "select", "analyze", "calling",
                   "marking", "degrade"}

\* The tables, DefectDojo and the callers hold values of their kinds.
TypeOK ==
    /\ pc \in ImportPoints \cup AnalysisPoints \cup {"analyzed", "failed"}
    /\ todo \in Seq(Jobs)
    /\ job \in Jobs \cup {NoJob}
    /\ reply \in 0 .. Len(tests)
    /\ product \in BOOLEAN
    /\ engagement \in BOOLEAN
    /\ tests \in Seq(Jobs)
    /\ \A f \in DOMAIN dd : f \in Id /\ dd[f] \subseteq Flags
    /\ \A f \in DOMAIN rows : f \in DOMAIN dd /\ rows[f] \in Row
    /\ \A f \in DOMAIN ai : f \in DOMAIN rows /\ ai[f] \in AiRow
    /\ jobTest \in [Jobs -> 0 .. Len(tests)]
    /\ absent \subseteq Jobs
    /\ lost \subseteq Test
    /\ cands \subseteq DOMAIN rows
    /\ \A c \in Callers : tx[c].busy => tx[c].finding \in DOMAIN rows

Init ==
    /\ ImportInit
    /\ ai = << >>
    /\ cands = {}
    /\ tx = [c \in Callers |-> NoTx]
    /\ flagSeen = << >>
    /\ degraded = FALSE
    /\ unnoted = FALSE
    /\ requests = 0

\* A step of the nodes behind the import: nothing of the import changes.
StepTo(p) == Goto(p) /\ UNCHANGED <<ddVars, storeVars, absent, lost>>

-----------------------------------------------------------------------------
(* attack_path.                                                            *)

\* correlate_findings loads the rows and asks the model.
CorrelateBegin ==
    /\ pc = "correlate"
    /\ StepTo("correlating")
    /\ flagSeen' = [f \in DOMAIN rows |-> Ai[f].reason]
    /\ UNCHANGED <<faults, ai, cands, tx, degraded, unnoted, requests>>

\* _merge: any of the loaded findings may be called false positives with high
\* confidence; the ids of others are dropped.
FalsePositives == SUBSET {f \in DOMAIN rows : Open(f)}

\* It flags those without a reason (none if it failed).  The second query gives the
\* rows as they were loaded first, or anew if the session let go of them.
CorrelateEnd ==
    /\ pc = "correlating"
    /\ StepTo("select")
    /\ \E S \in FalsePositives :
          /\ \A f \in S : "none" \in {flagSeen[f], Ai[f].reason}
          /\ ai' = [f \in DOMAIN rows |->
                       IF f \in S THEN [Ai[f] EXCEPT !.reason = "flagged"] ELSE Ai[f]]
    /\ flagSeen' = << >>
    /\ UNCHANGED <<faults, cands, tx, degraded, unnoted, requests>>

-----------------------------------------------------------------------------
(* analyze_finding, for the node and for the operators.                    *)

\* Idempotent unless forced.
Wanted(f, force) == force \/ Ai[f].analyses = 0

\* _analysis_skip_reason: judged noise, closed, or (without force) below the floor.
SkipReason(f, force) ==
    IF ~Open(f) THEN "closed"
    ELSE IF ~force /\ ~InFloor(f) THEN "floor"
    ELSE "none"

\* The row is loaded and the model asked.
CallModel(c, f, force) ==
    /\ tx' = [tx EXCEPT ![c] = [busy |-> TRUE, finding |-> f, force |-> force,
                                reason |-> Ai[f].reason]]
    /\ ai' = [Ai EXCEPT ![f].overlapped = @ \/ InFlight(f)]

\* The answer passed the guard: it is stored and the reason cleared.
Stored(c) ==
    [Ai EXCEPT ![tx[c].finding].analyses  = @ + 1,
               ![tx[c].finding].automatic = IF tx[c].force THEN @ ELSE @ + 1,
               ![tx[c].finding].reason    = Flushed(tx[c].reason, "none", @)]

\* The answer claims what the evidence does not hold.
Rejected(c) ==
    [Ai EXCEPT ![tx[c].finding].reason = Flushed(tx[c].reason, "rejected", @)]

\* The guard's verdict on the answer: a choice.
Judged(c) == {Stored(c), Rejected(c)}

-----------------------------------------------------------------------------
(* analyze_findings.                                                       *)

\* _mark_skipped: a bulk UPDATE of the rows without an analysis.
MarkSkipped(table, S, why) ==
    [f \in DOMAIN table |->
        IF f \in S /\ table[f].analyses = 0
          THEN [table[f] EXCEPT !.reason = why, !.overlapped = @ \/ InFlight(f)]
          ELSE table[f]]

\* analysis_candidates: the open rows at or above the floor, up to the budget, and a
\* reason for the others (the one for the budget only if anything was selected).
SelectCandidates ==
    /\ pc = "select"
    /\ StepTo("analyze")
    /\ \E S \in SUBSET {f \in DOMAIN rows : Open(f) /\ InFloor(f)} :
          /\ LET eligible == Cardinality({f \in DOMAIN rows : Open(f) /\ InFloor(f)})
             IN  Cardinality(S) = IF eligible < Budget THEN eligible ELSE Budget
          /\ cands' = S
          /\ LET floored == MarkSkipped(Ai, {f \in DOMAIN rows : ~InFloor(f)}, "floor")
                 over    == {f \in DOMAIN rows : InFloor(f)} \ S
             IN  ai' = IF S = {} THEN floored ELSE MarkSkipped(floored, over, "budget")
    /\ UNCHANGED <<faults, tx, flagSeen, degraded, unnoted, requests>>

\* The loop takes its next candidate.  It was open and in the floor when it was
\* selected, and only an import changes that: no skip reason applies here.
NodeCall(f) ==
    /\ pc = "analyze"
    /\ f \in cands
    /\ cands' = cands \ {f}
    /\ \/ /\ ~Wanted(f, FALSE)
          /\ StepTo("analyze")
          /\ UNCHANGED <<ai, tx>>
       \/ /\ Wanted(f, FALSE)
          /\ SkipReason(f, FALSE) = "none"
          /\ CallModel("node", f, FALSE)
          /\ StepTo("calling")
    /\ UNCHANGED <<faults, flagSeen, degraded, unnoted, requests>>

\* The model answered and the transaction of the finding commits.
NodeAnswer ==
    /\ pc = "calling"
    /\ ai' \in Judged("node")
    /\ tx' = [tx EXCEPT !["node"] = NoTx]
    /\ StepTo("analyze")
    /\ UNCHANGED <<faults, cands, flagSeen, degraded, unnoted, requests>>

\* An AIError: the transaction rolls back, the finding will be marked.
NodeAiError ==
    /\ pc = "calling"
    /\ tx' = [tx EXCEPT !["node"] = [busy |-> FALSE, finding |-> @.finding]]
    /\ StepTo("marking")
    /\ UNCHANGED <<faults, ai, cands, flagSeen, degraded, unnoted, requests>>

\* ModelUnavailableError: the loop stops; this candidate and the rest are not reached.
NodeModelDown ==
    /\ pc = "calling"
    /\ cands' = cands \cup {tx["node"].finding}
    /\ tx' = [tx EXCEPT !["node"] = NoTx]
    /\ StepTo("degrade")
    /\ UNCHANGED <<faults, ai, flagSeen, degraded, unnoted, requests>>

\* Mutant: the compensating write is missing.
MarkFindingSilently ==
    /\ pc = "marking"
    /\ ai' = Ai
    /\ tx' = [tx EXCEPT !["node"] = NoTx]
    /\ StepTo("analyze")
    /\ UNCHANGED <<faults, cands, flagSeen, degraded, unnoted, requests>>

\* _mark_finding_skipped, best effort.
MarkFinding ==
    /\ pc = "marking"
    /\ \/ /\ ai' = MarkSkipped(Ai, {tx["node"].finding}, "error")
          /\ UNCHANGED <<faults, unnoted>>
       \/ /\ Fault("note")
          /\ unnoted' = TRUE
          /\ UNCHANGED ai
    /\ tx' = [tx EXCEPT !["node"] = NoTx]
    /\ StepTo("analyze")
    /\ UNCHANGED <<cands, flagSeen, degraded, requests>>

\* record_degradation appends an entry to the assessment.
RecordDegradation == degraded' = TRUE

\* _degrade, best effort; then the node returns.
Degrade ==
    /\ pc = "degrade"
    /\ \/ RecordDegradation /\ UNCHANGED <<faults, unnoted>>
       \/ Fault("note") /\ unnoted' = TRUE /\ UNCHANGED degraded
    /\ StepTo("analyzed")
    /\ UNCHANGED <<ai, cands, tx, flagSeen, requests>>

AnalyzeDone ==
    /\ pc = "analyze"
    /\ cands = {}
    /\ StepTo("analyzed")
    /\ UNCHANGED <<faults, ai, cands, tx, flagSeen, degraded, unnoted, requests>>

\* A database error is not caught: the run fails.
AnalysisFails ==
    /\ pc \in {"select", "analyze", "calling"}
    /\ Fault("database")
    /\ tx' = [tx EXCEPT !["node"] = NoTx]
    /\ StepTo("failed")
    /\ UNCHANGED <<ai, cands, flagSeen, degraded, unnoted, requests>>

\* The worker dies; the node it was in starts again.
AnalysisCrash ==
    /\ pc \in AnalysisPoints
    /\ Fault("crash")
    /\ tx' = [tx EXCEPT !["node"] = NoTx]
    /\ cands' = {}
    /\ flagSeen' = << >>
    /\ StepTo(IF pc \in {"correlate", "correlating"} THEN "correlate" ELSE "select")
    /\ UNCHANGED <<ai, degraded, unnoted, requests>>

-----------------------------------------------------------------------------
(* POST /findings/{id}/analyze.                                            *)

\* A request that finds an analysis and does not force one changes nothing.
Request(o, f, force) ==
    /\ ~tx[o].busy
    /\ requests < MaxRequests
    /\ requests' = requests + 1
    /\ Wanted(f, force)
    /\ \/ /\ SkipReason(f, force) # "none"
          /\ ai' = [Ai EXCEPT ![f].reason = SkipReason(f, force),
                              ![f].overlapped = @ \/ InFlight(f)]
          /\ UNCHANGED tx
       \/ /\ SkipReason(f, force) = "none"
          /\ CallModel(o, f, force)
    /\ UNCHANGED <<importVars, cands, flagSeen, degraded, unnoted>>

\* The model answered and the route commits, or anything failed and it rolls back.
Answer(o) ==
    /\ tx[o].busy
    /\ ai' \in Judged(o) \cup {Ai}
    /\ tx' = [tx EXCEPT ![o] = NoTx]
    /\ UNCHANGED <<importVars, cands, flagSeen, degraded, unnoted, requests>>

Next ==
    \/ ImportNext /\ UNCHANGED analysisVars
    \/ CorrelateBegin \/ CorrelateEnd \/ SelectCandidates
    \/ \E f \in DOMAIN rows : NodeCall(f)
    \/ NodeAnswer \/ NodeAiError \/ NodeModelDown \/ MarkFinding \/ Degrade
    \/ AnalyzeDone \/ AnalysisFails \/ AnalysisCrash
    \/ \E o \in Operators : Answer(o)
    \/ \E o \in Operators, f \in DOMAIN rows, force \in BOOLEAN : Request(o, f, force)

Spec == Init /\ [][Next]_vars

-----------------------------------------------------------------------------
(* Properties of the analysis.                                             *)

Explained(f) == Ai[f].analyses > 0 \/ Ai[f].reason # "none"

\* After the node no open finding is blank: it has an analysis or a reason, unless
\* the model went down before its turn and the assessment says so, or a best-effort
\* note was lost (analysis_candidates, _mark_finding_skipped, _degrade).  A budget of
\* nothing selects nothing, and then the budget is nobody's reason.
BlankIsExplained ==
    pc = "analyzed" /\ ~unnoted /\ Budget > 0 =>
        \A f \in DOMAIN rows : Open(f) => Explained(f) \/ (degraded /\ f \in cands)

\* What the docstring of analysis_candidates promises: "Everything excluded by either
\* one [the floor or max_findings_analyzed] gets an ai_skipped_reason".
ExcludedIsExplained ==
    pc = "analyzed" /\ ~unnoted /\ ~degraded =>
        \A f \in DOMAIN rows : Open(f) => Explained(f)

\* Without force a finding is analyzed once, over replays of the node and requests,
\* unless two calls for it were in flight at once (analyze_finding looks at
\* ai_analyzed_at before the call only).
AnalyzedOnceUnlessOverlapped ==
    \A f \in DOMAIN ai : ai[f].automatic <= 1 \/ ai[f].overlapped

\* An analyzed finding does not claim that it was left out, unless the mark was
\* written while its call was in flight: the analysis then clears a reason it
\* loaded as null, which writes nothing.
ReasonHonestUnlessOverlapped ==
    \A f \in DOMAIN ai :
        ai[f].analyses > 0 /\ ai[f].reason \in {"floor", "budget", "error"}
            => ai[f].overlapped

\* What a row says of its analysis is true and explains what is missing.
AnalysisInv ==
    TypeOK /\ BlankIsExplained /\ AnalyzedOnceUnlessOverlapped /\ ReasonHonestUnlessOverlapped
=============================================================================
