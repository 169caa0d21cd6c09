---------------------------- MODULE FindingImport ---------------------------
(***************************************************************************)
(* The import_findings node: it makes sure that DefectDojo has a product   *)
(* and an engagement, uploads the output of every completed scanner, and   *)
(* mirrors the findings of the resulting tests into the findings table.    *)
(*                                                                         *)
(* A node that crashes is replayed from its start.  Each upload takes two  *)
(* transactions: the first commits the id of the test onto the job, the    *)
(* second lists the findings of that test and writes the rows.  DefectDojo *)
(* is external: it deduplicates within the engagement on import, reopens   *)
(* what comes back on re-import, and its analysts judge findings there.    *)
(***************************************************************************)
EXTENDS Naturals, Sequences, FiniteSets

CONSTANTS Plans,       \* the completed nmap, nuclei and zap jobs, oldest first
          Vulns,       \* the weaknesses their outputs mention
          Reports,     \* per job, what its output mentions
          HasOutput,   \* the jobs with a non-empty RAW_OUTPUT artifact
          Minor,       \* the weaknesses below analysis_severity_floor
          Judgements,  \* what an analyst may decide in DefectDojo
          MaxJudged,   \* bound on the number of judgements
          Faults,      \* kinds of fault that may happen
          MaxFaults    \* bound on their number

Jobs == {Plans[i] : i \in 1 .. Len(Plans)}
FaultKinds == {"crash", "defectdojo", "database", "storage", "note"}
Flags == {"active", "verified", "false_p", "duplicate", "risk_accepted",
          "out_of_scope", "is_mitigated"}

ASSUME ImportConstants ==
    /\ Plans \in Seq(Jobs)
    /\ Reports \in [Jobs -> SUBSET Vulns]
    /\ HasOutput \subseteq Jobs
    /\ Minor \subseteq Vulns
    /\ IsFiniteSet(Vulns)
    /\ Judgements \subseteq Flags \ {"active", "duplicate"}
    /\ Faults \subseteq FaultKinds
    /\ MaxFaults \in Nat
    /\ MaxJudged \in Nat

VARIABLES
    pc,          \* where the pipeline is
    todo,        \* the plans of the import loop still ahead
    job,         \* the job being imported
    reply,       \* the test id DefectDojo answered; 0 for none
    product,     \* the product of the organization exists in DefectDojo
    engagement,  \* the engagement of this assessment exists there
    tests,       \* DefectDojo's tests, each the job whose output it holds
    dd,          \* DefectDojo's findings <<test, weakness>>, each its set flags
    jobTest,     \* scanner_jobs.defectdojo_test_id; 0 for null
    rows,        \* the findings table: the columns copied from DefectDojo
    total,       \* the counters of the assessment, per side of the floor
    absent,      \* the jobs whose output was not imported, with a degradation or not
    lost,        \* history: the tests whose id no transaction committed
    judged,      \* history: the number of judgements
    faults       \* history: the number of faults

ddVars     == <<product, engagement, tests, dd, judged>>
nodeVars   == <<pc, todo, job, reply>>
storeVars  == <<jobTest, rows, total>>
importVars == <<pc, todo, job, reply, product, engagement, tests, dd, jobTest,
                rows, total, absent, lost, judged, faults>>

NoJob == "none"
Test  == 1 .. Len(tests)
Id    == Nat \X Vulns

Statuses == {"ACTIVE", "VERIFIED", "FALSE_POSITIVE", "RISK_ACCEPTED",
             "OUT_OF_SCOPE", "MITIGATED", "DUPLICATE"}
OpenStatuses == {"ACTIVE", "VERIFIED"}
Row == [status : Statuses, is_duplicate : BOOLEAN, is_false_positive : BOOLEAN]

ImportPoints == {"ensure", "create", "engage", "context", "import", "upload",
                 "uploaded", "project"}

-----------------------------------------------------------------------------
(* Operators of the projection.                                            *)

\* _status_for: DefectDojo's independent flags, the most consequential one decides;
\* a record with none of them was closed there.
Precedence == <<"false_p", "out_of_scope", "risk_accepted", "duplicate",
                "is_mitigated", "verified", "active">>
StatusOf == [false_p |-> "FALSE_POSITIVE", out_of_scope |-> "OUT_OF_SCOPE",
             risk_accepted |-> "RISK_ACCEPTED", duplicate |-> "DUPLICATE",
             is_mitigated |-> "MITIGATED", verified |-> "VERIFIED", active |-> "ACTIVE"]

FirstOf(order, r) ==
    LET set == {i \in 1 .. Len(order) : order[i] \in r}
    IN  IF set = {} THEN "MITIGATED"
        ELSE StatusOf[order[CHOOSE i \in set : \A k \in set : i <= k]]

\* Mutant: a confirmed finding outranks what was decided about it.
StatusForVerifiedFirst(r) == FirstOf(<<"verified">> \o Precedence, r)

StatusFor(r) == FirstOf(Precedence, r)

\* _apply_dd: what a record makes of a row.
Projected(r) == [status            |-> StatusFor(r),
                 is_duplicate      |-> "duplicate" \in r,
                 is_false_positive |-> "false_p" \in r]

\* refresh_counters: the rows DefectDojo has not judged noise, per severity class.
Counters(table) ==
    LET real == {f \in DOMAIN table : ~table[f].is_duplicate /\ ~table[f].is_false_positive}
    IN  [minor |-> Cardinality({f \in real : f[2] \in Minor}),
         major |-> Cardinality({f \in real : f[2] \notin Minor})]

\* The rows the analysis and enrichment nodes look at.
Open(f) == /\ rows[f].status \in OpenStatuses
           /\ ~rows[f].is_duplicate
           /\ ~rows[f].is_false_positive

-----------------------------------------------------------------------------
(* DefectDojo (external).                                                  *)

Decided == {"false_p", "out_of_scope", "risk_accepted"}

\* import-scan: a new test; a weakness the engagement has already is a duplicate.
Imported(j, t) ==
    [f \in {t} \X Reports[j] |->
        IF \E g \in DOMAIN dd : g[2] = f[2] THEN {"duplicate"} ELSE {"active"}]

\* reimport-scan: what is reported again is reopened unless it was decided on.
Reimported(j, t) ==
    [f \in DOMAIN dd |->
        IF f[1] = t /\ f[2] \in Reports[j] /\ "is_mitigated" \in dd[f] /\ dd[f] \cap Decided = {}
          THEN (dd[f] \ {"is_mitigated"}) \cup {"active"}
          ELSE dd[f]]

\* An analyst sets a flag; everything but a confirmation makes the finding inactive.
\* Nothing reads DefectDojo after the import, so later judgements are left out.
Judge(f, k) ==
    /\ pc \in ImportPoints
    /\ judged < MaxJudged
    /\ k \notin dd[f]
    /\ dd' = [dd EXCEPT ![f] = IF k = "verified" THEN @ \cup {k}
                               ELSE (@ \cup {k}) \ {"active"}]
    /\ judged' = judged + 1
    /\ UNCHANGED <<nodeVars, storeVars, product, engagement, tests, absent, lost, faults>>

\* The first import of another assessment of the organization creates the product.
OtherCreatesProduct ==
    /\ ~product
    /\ product' = TRUE
    /\ UNCHANGED <<nodeVars, storeVars, engagement, tests, dd, judged, absent, lost, faults>>

-----------------------------------------------------------------------------
(* The node.                                                               *)

Fault(k) == /\ k \in Faults
            /\ faults < MaxFaults
            /\ faults' = faults + 1

Goto(p) == pc' = p /\ UNCHANGED <<todo, job, reply>>

\* ensure_product looks the product up by its name.
FindProduct ==
    /\ pc = "ensure"
    /\ Goto(IF product THEN "engage" ELSE "create")
    /\ UNCHANGED <<ddVars, storeVars, absent, lost, faults>>

\* ... and creates it; the name is unique, so losing the race is an error.
CreateProduct ==
    /\ pc = "create"
    /\ Goto(IF product THEN "failed" ELSE "engage")
    /\ product' = TRUE
    /\ UNCHANGED <<engagement, tests, dd, judged, storeVars, absent, lost, faults>>

\* ensure_engagement: found by the assessment's id, or created.
EnsureEngagement ==
    /\ pc = "engage"
    /\ engagement' = TRUE
    /\ Goto("context")
    /\ UNCHANGED <<product, tests, dd, judged, storeVars, absent, lost, faults>>

\* _persist_context and _plan_imports: the linkage is stored, the jobs are read.
PlanImports ==
    /\ pc = "context"
    /\ pc' = "import"
    /\ todo' = Plans
    /\ absent' = {}
    /\ UNCHANGED <<job, reply, ddVars, storeVars, lost, faults>>

\* _import_job without a usable artifact: that scanner is left out, the loop goes on.
SkipJob ==
    /\ pc = "import"
    /\ todo # << >>
    /\ \/ Head(todo) \notin HasOutput /\ UNCHANGED faults
       \/ Head(todo) \in HasOutput /\ Fault("storage")
    /\ todo' = Tail(todo)
    /\ absent' = absent \cup {Head(todo)}
    /\ UNCHANGED <<pc, job, reply, ddVars, storeVars, lost>>

\* _import_job with its bytes in hand.
BeginJob ==
    /\ pc = "import"
    /\ todo # << >>
    /\ Head(todo) \in HasOutput
    /\ todo' = Tail(todo)
    /\ job' = Head(todo)
    /\ pc' = "upload"
    /\ UNCHANGED <<reply, ddVars, storeVars, absent, lost, faults>>

\* import_scan: active, unverified, deduplicated on the engagement.
ImportScan(t) ==
    /\ t = Len(tests) + 1
    /\ tests' = Append(tests, job)
    /\ dd' = [f \in DOMAIN dd \cup DOMAIN Imported(job, t) |->
                 IF f \in DOMAIN dd THEN dd[f] ELSE Imported(job, t)[f]]

\* reimport_scan: against the test the job has.
ReimportScan(t) ==
    /\ t = jobTest[job]
    /\ dd' = Reimported(job, t)
    /\ UNCHANGED tests

\* The effect of the upload on DefectDojo, and the test it answers with.
Send(t) == IF jobTest[job] = 0 THEN ImportScan(t) ELSE ReimportScan(t)

\* list_findings: every page of the findings of a test.
Listed(t) == {f \in DOMAIN dd : f[1] = t}

\* import_scan or reimport_scan, answered.
Upload ==
    /\ pc = "upload"
    /\ \E t \in 1 .. Len(tests) + 1 : Send(t) /\ reply' = t
    /\ pc' = "uploaded"
    /\ UNCHANGED <<todo, job, product, engagement, judged, storeVars, absent, lost, faults>>

\* DefectDojo did the work and the answer was lost; a POST is not retried.
UploadUnanswered ==
    /\ pc = "upload"
    /\ Fault("defectdojo")
    /\ \E t \in 1 .. Len(tests) + 1 :
          Send(t) /\ lost' = IF t > Len(tests) THEN lost \cup {t} ELSE lost
    /\ Goto("failed")
    /\ UNCHANGED <<product, engagement, judged, storeVars, absent>>

\* Mutant: the id is left for the projection to write.
CommitTestLater ==
    /\ pc = "uploaded"
    /\ pc' = "project"
    /\ UNCHANGED <<todo, job, reply, jobTest, ddVars, rows, total, absent, lost, faults>>

\* The first transaction commits the test id onto the job.
CommitTest ==
    /\ pc = "uploaded"
    /\ jobTest' = [jobTest EXCEPT ![job] = reply]
    /\ pc' = "project"
    /\ UNCHANGED <<todo, job, reply, ddVars, rows, total, absent, lost, faults>>

\* import_from_defectdojo: list the test, upsert its rows, refresh the counters and
\* stamp the job, in the second transaction.  An empty test changes nothing.
Project ==
    /\ pc = "project"
    /\ LET listed == Listed(reply)
           table  == [f \in DOMAIN rows \cup listed |->
                         IF f \in listed THEN Projected(dd[f]) ELSE rows[f]]
       IN  /\ rows' = table
           /\ total' = IF listed = {} THEN total ELSE Counters(table)
           /\ jobTest' = IF listed = {} THEN jobTest ELSE [jobTest EXCEPT ![job] = reply]
    /\ pc' = "import"
    /\ job' = NoJob
    /\ reply' = 0
    /\ UNCHANGED <<todo, ddVars, absent, lost, faults>>

\* The node returns and is checkpointed; enrichment and attack_path follow.
ImportDone ==
    /\ pc = "import"
    /\ todo = << >>
    /\ Goto("correlate")
    /\ UNCHANGED <<ddVars, storeVars, absent, lost, faults>>

\* An upload whose id is in nobody's row when the process forgets it.
Forgotten == IF pc = "uploaded" /\ jobTest[job] # reply THEN {reply} ELSE {}

\* DefectDojo or the database refuses: the exception fails the run.
ImportFails ==
    /\ pc \in ImportPoints
    /\ \/ pc \notin {"context", "import", "uploaded"} /\ Fault("defectdojo")
       \/ pc \in {"context", "import", "uploaded", "project"} /\ Fault("database")
    /\ lost' = lost \cup Forgotten
    /\ Goto("failed")
    /\ UNCHANGED <<ddVars, storeVars, absent>>

\* The worker dies; the message is reclaimed and the node starts again.
ImportCrash ==
    /\ pc \in ImportPoints
    /\ Fault("crash")
    /\ lost' = lost \cup Forgotten
    /\ pc' = "ensure"
    /\ todo' = << >>
    /\ job' = NoJob
    /\ reply' = 0
    /\ UNCHANGED <<ddVars, storeVars, absent>>

ImportInit ==
    /\ pc = "ensure"
    /\ todo = << >>
    /\ job = NoJob
    /\ reply = 0
    /\ product \in BOOLEAN
    /\ engagement = FALSE
    /\ tests = << >>
    /\ dd = << >>
    /\ jobTest = [j \in Jobs |-> 0]
    /\ rows = << >>
    /\ total = [minor |-> 0, major |-> 0]
    /\ absent = {}
    /\ lost = {}
    /\ judged = 0
    /\ faults = 0

ImportNext ==
    \/ FindProduct \/ CreateProduct \/ EnsureEngagement \/ PlanImports
    \/ SkipJob \/ BeginJob
    \/ Upload \/ UploadUnanswered \/ CommitTest \/ Project \/ ImportDone
    \/ ImportFails \/ ImportCrash \/ OtherCreatesProduct
    \/ \E f \in DOMAIN dd, k \in Judgements : Judge(f, k)

-----------------------------------------------------------------------------
(* Properties of the import.                                               *)

\* A job has a second test in DefectDojo only if the transaction that would have
\* committed the id of the first one never did: a failed or crashed projection is
\* resumed as a re-import of the same test (_upload_and_project).
SecondTestIsLost ==
    \A t \in Test : \/ jobTest[tests[t]] = t
                    \/ t \in lost
                    \/ pc = "uploaded" /\ reply = t

\* Once the node has returned, every weakness in an imported output is counted: it
\* has a row that is not a duplicate, unless an upload was lost or its job was left
\* out this time although it was uploaded before (the originals are in that test then,
\* and the replay mirrors only their duplicates).
CountedUnlessLost ==
    pc \notin ImportPoints \cup {"failed"} /\ lost = {} =>
        \A j \in Jobs \ absent : \A v \in Reports[j] :
            \/ \E f \in DOMAIN rows : f[2] = v /\ ~rows[f].is_duplicate
            \/ \E i \in absent : jobTest[i] # 0 /\ v \in Reports[i]

\* The counters of the assessment are those of its rows after every transaction
\* (refresh_counters runs after the flush of every import that writes rows).
CountersAgree == total = Counters(rows)

\* What the tables say of the uploads, whatever was lost or replayed.
ImportInv == SecondTestIsLost /\ CountedUnlessLost /\ CountersAgree

\* A replayed import returns a finding to the open queue only if it was mitigated:
\* what an analyst decided, or DefectDojo called a duplicate, stays closed.
DecisionStands ==
    [][\A f \in DOMAIN rows :
          rows[f].status \notin OpenStatuses /\ rows'[f].status \in OpenStatuses
              => rows[f].status = "MITIGATED"]_importVars
=============================================================================
