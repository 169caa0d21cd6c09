------------------------------ MODULE Reports ------------------------------
(***************************************************************************)
(* Reports of one assessment: services/report.py, reporting/generate.py,   *)
(* the report node and the report routes.  generate commits at every       *)
(* boundary (pending, generating, ready), so its row outlives whatever     *)
(* stops the process in between.  A report's contents are one number: how  *)
(* far the assessment's work had got when its context was built.           *)
(***************************************************************************)
EXTENDS Naturals, Sequences, FiniteSets

CONSTANTS
    Attempts,       \* executions of generate_report, the node; a later one resumes
    Requests,       \* POST /assessments/{id}/reports
    MaxWork,        \* bound: the work an assessment does before its report
    MaxReports      \* bound: rows created

\* A producer is one execution: of the node, or of a request.
ASSUME ReportsAssumption ==
    /\ Attempts \cap Requests = {}
    /\ MaxWork \in Nat
    /\ MaxReports \in Nat

Producers == Attempts \cup Requests

VARIABLES
    progress,   \* work done: findings imported, analyzed, ranked
    completed,  \* the assessment is completed, with this report; 0 while it runs
    configured, \* object storage has credentials
    reports,    \* the rows: status, format, contents, who made them
    objects,    \* external: keys in the bucket, <<row, format>>
    making      \* the producers

reportVars == <<progress, completed, configured, reports, objects, making>>

AtRest == [pc |-> "idle", row |-> 0, seen |-> 0, ext |-> "pdf", ai |-> FALSE,
           force |-> FALSE]

ReportsInit ==
    /\ progress = 0
    /\ completed = 0
    /\ configured \in BOOLEAN
    /\ reports = <<>>
    /\ objects = {}
    /\ making = [p \in Producers |-> AtRest]

Goes(p, r) == making' = [making EXCEPT ![p] = r]
Step(p, pc) == Goes(p, [making[p] EXCEPT !.pc = pc])
RowIs(i, r) == reports' = [reports EXCEPT ![i] = r]
Stopped(p) == making[p].pc \in {"idle", "done", "raised", "escaped", "killed"}

(* The nodes before the report move the assessment on *)
RunWorks ==
    /\ progress < MaxWork
    /\ progress' = progress + 1
    /\ UNCHANGED <<completed, configured, reports, objects, making>>

(* The run's driver reaches the node after the work; one that died is resumed, *)
(* one that raised has failed the run                                          *)
StartNode(p) ==
    /\ p \in Attempts
    /\ making[p].pc = "idle"
    /\ progress = MaxWork
    /\ completed = 0
    /\ \A q \in Attempts : making[q].pc \in {"idle", "killed"}
    /\ Step(p, "ask")
    /\ UNCHANGED <<progress, completed, configured, reports, objects>>

(* A request asks for a render of its own with force, which no status refuses *)
StartRequest(p) ==
    /\ p \in Requests
    /\ making[p].pc = "idle"
    /\ \E f \in BOOLEAN : Goes(p, [AtRest EXCEPT !.pc = "ask", !.force = f])
    /\ UNCHANGED <<progress, completed, configured, reports, objects>>

(* latest_report(ready_only): created_at descending *)
ReadyRows == {i \in DOMAIN reports : reports[i].status = "ready"}
LatestReady == CHOOSE i \in ReadyRows : \A j \in ReadyRows : j <= i

(* The reuse check: the node and a request without force take what is ready *)
Reuse(p) ==
    /\ making[p].pc = "ask"
    /\ ~making[p].force
    /\ ReadyRows # {}
    /\ Goes(p, [making[p] EXCEPT !.row = LatestReady,
                    !.pc = IF p \in Attempts THEN "finish" ELSE "done"])
    /\ UNCHANGED <<progress, completed, configured, reports, objects>>

(* Mutant: whoever asks gets a render of its own *)
CreateReportAlways(p) ==
    /\ making[p].pc = "ask"
    /\ Len(reports) < MaxReports
    /\ reports' = Append(reports, [status |-> "pending", format |-> "pdf", seen |-> 0,
                                   ai |-> FALSE, by |-> p])
    /\ Goes(p, [making[p] EXCEPT !.pc = "begin", !.row = Len(reports) + 1])
    /\ UNCHANGED <<progress, completed, configured, objects>>

(* create_report, committed: the row the page polls *)
CreateReport(p) ==
    /\ making[p].pc = "ask"
    /\ making[p].force \/ ReadyRows = {}
    /\ Len(reports) < MaxReports
    /\ reports' = Append(reports, [status |-> "pending", format |-> "pdf", seen |-> 0,
                                   ai |-> FALSE, by |-> p])
    /\ Goes(p, [making[p] EXCEPT !.pc = "begin", !.row = Len(reports) + 1])
    /\ UNCHANGED <<progress, completed, configured, objects>>

(* begin_generation, committed *)
BeginGeneration(p) ==
    /\ making[p].pc = "begin"
    /\ RowIs(making[p].row, [reports[making[p].row] EXCEPT !.status = "generating"])
    /\ Step(p, "context")
    /\ UNCHANGED <<progress, completed, configured, objects>>

(* build_report_context: what the tables hold now *)
BuildContext(p) ==
    /\ making[p].pc = "context"
    /\ Goes(p, [making[p] EXCEPT !.pc = "summary", !.seen = progress])
    /\ UNCHANGED <<progress, completed, configured, reports, objects>>

\* What the model answers, and what the guards find in it.
Summaries == {"sound", "invented", "none"}

(* _executive_summary: prose without an invented CVE or score is kept; no    *)
(* model, an error, no text, or an invention fall back to computed figures   *)
ExecutiveSummary(p) ==
    /\ making[p].pc = "summary"
    /\ \E answer \in Summaries :
            Goes(p, [making[p] EXCEPT !.pc = "render", !.ai = answer = "sound"])
    /\ UNCHANGED <<progress, completed, configured, reports, objects>>

(* render_html, then _materialize: a PDF renderer that fails leaves the HTML *)
(* already rendered, and report.format and a degradation say so              *)
Render(p) ==
    /\ making[p].pc = "render"
    /\ \E ext \in {"pdf", "html"} : Goes(p, [making[p] EXCEPT !.pc = "store", !.ext = ext])
    /\ UNCHANGED <<progress, completed, configured, reports, objects>>

(* _store: the object is in the bucket before the row says it is *)
Store(p) ==
    /\ making[p].pc = "store"
    /\ configured
    /\ objects' = objects \cup {<<making[p].row, making[p].ext>>}
    /\ Step(p, "complete")
    /\ UNCHANGED <<progress, completed, configured, reports>>

(* complete_generation with its audit row, committed *)
CompleteGeneration(p) ==
    /\ making[p].pc = "complete"
    /\ RowIs(making[p].row,
             [reports[making[p].row] EXCEPT !.status = "ready", !.format = making[p].ext,
                  !.seen = making[p].seen, !.ai = making[p].ai])
    /\ Step(p, IF p \in Attempts THEN "finish" ELSE "done")
    /\ UNCHANGED <<progress, completed, configured, objects>>

(* A StorageError or ReportRenderError is recorded, and re-raised *)
FailGeneration(p) ==
    /\ making[p].pc \in {"render", "store"}
    /\ making[p].pc = "store" => configured
    /\ RowIs(making[p].row, [reports[making[p].row] EXCEPT !.status = "failed",
                                 !.format = making[p].ext])
    /\ Step(p, "raised")
    /\ UNCHANGED <<progress, completed, configured, objects>>

(* Any other exception escapes generate: the storage client's "not configured" *)
(* is not a StorageError, and the database may fail at any statement           *)
Escape(p) ==
    /\ making[p].pc \in {"begin", "context", "summary", "complete", "finish", "store"}
    /\ making[p].pc = "store" => ~configured
    /\ Step(p, "escaped")
    /\ UNCHANGED <<progress, completed, configured, reports, objects>>

(* The process dies, or the client of the request disconnects *)
Kill(p) ==
    /\ ~Stopped(p)
    /\ Step(p, "killed")
    /\ UNCHANGED <<progress, completed, configured, reports, objects>>

(* _complete: the transition, the counters and the alert commit together *)
CompleteAssessment(p) ==
    /\ making[p].pc = "finish"
    /\ completed' = making[p].row
    /\ Step(p, "done")
    /\ UNCHANGED <<progress, configured, reports, objects>>

ReportsNext ==
    \/ RunWorks
    \/ \E p \in Producers :
        \/ StartNode(p) \/ StartRequest(p) \/ Reuse(p) \/ CreateReport(p)
        \/ BeginGeneration(p) \/ BuildContext(p) \/ ExecutiveSummary(p) \/ Render(p)
        \/ Store(p) \/ CompleteGeneration(p) \/ FailGeneration(p) \/ Escape(p)
        \/ Kill(p) \/ CompleteAssessment(p)

ReportsSpec == ReportsInit /\ [][ReportsNext]_reportVars

----------------------------------------------------------------------------
ReportsTypeOK ==
    /\ progress \in 0..MaxWork
    /\ completed \in 0..Len(reports)
    /\ configured \in BOOLEAN
    /\ reports \in Seq([status : {"pending", "generating", "ready", "failed"},
                        format : {"pdf", "html"}, seen : 0..MaxWork,
                        ai : BOOLEAN, by : Producers])
    /\ objects \subseteq (DOMAIN reports) \X {"pdf", "html"}
    /\ \A p \in Producers : making[p].row \in 0..Len(reports)

(* A report that can be downloaded has its bytes in the bucket, in the format *)
(* the download route will announce                                           *)
ReadyIsStored == \A i \in ReadyRows : <<i, reports[i].format>> \in objects

(* A completed assessment names a ready report, and one the node rendered is  *)
(* of all the work: only a request's render can be of less                    *)
FinalReportUnlessRequested ==
    completed # 0 =>
        /\ reports[completed].status = "ready"
        /\ reports[completed].by \in Attempts => reports[completed].seen = MaxWork

(* A resumed run pays for a second render only when no earlier attempt got a  *)
(* report ready: the reuse check keeps at most one ready row per run, besides *)
(* those that requests made                                                   *)
OneRenderPerRun == Cardinality({i \in ReadyRows : reports[i].by \in Attempts}) <= 1

(* A row that stays unfinished was left by a producer that was killed or met   *)
(* an exception generate does not handle; the two it handles settle the row   *)
UnfinishedIsExplained ==
    \A i \in DOMAIN reports : reports[i].status \in {"pending", "generating"} =>
        LET p == reports[i].by IN making[p].row = i /\ making[p].pc \notin {"done", "raised"}

(* services/report.py, reporting/generate.py: what the rows, the bucket and   *)
(* the assessment say of each other, whatever stops a producer in between.   *)
ReportsInv ==
    /\ ReportsTypeOK
    /\ ReadyIsStored
    /\ FinalReportUnlessRequested
    /\ OneRenderPerRun
    /\ UnfinishedIsExplained
=============================================================================
