---------------------------- MODULE Remediation ----------------------------
(***************************************************************************)
(* The fixes suggested for one finding: services/remediation.py, called by *)
(* the remediate_findings node (agent/nodes/remediate.py) and by people    *)
(* through api/v1/findings.py.  The model is asked while the request's     *)
(* transaction is open; the row is there when the caller has committed.    *)
(***************************************************************************)
EXTENDS Naturals, Sequences

CONSTANTS
    Runs,           \* runs of the node
    Posts,          \* POST requests of people
    Reviewers,      \* requests that vouch for a fix
    Approaches,     \* Remediation.approach
    ANY,            \* no approach asked for
    NOBODY,         \* not reviewed
    MaxFixes,       \* bound: rows
    Knowledge       \* what the Dify integration may be: "ready", "unset", "disabled"

VARIABLES
    dify,           \* the knowledge-base integration
    dismissed,      \* the finding is a false positive or a duplicate
    fixes,          \* remediations, oldest first
    ask,            \* the generations in flight
    review          \* the reviews in flight: the row and whether it was unreviewed

remediationVars == <<dify, dismissed, fixes, ask, review>>

Askers == Runs \cup Posts
NoAsk == [pc |-> "idle", approach |-> ANY, force |-> FALSE, alone |-> TRUE]
NoReview == [fix |-> 0, fresh |-> FALSE]

RemediationInit ==
    /\ dify \in Knowledge
    /\ dismissed = FALSE
    /\ fixes = <<>>
    /\ ask = [a \in Askers |-> NoAsk]
    /\ review = [r \in Reviewers |-> NoReview]

(* An import of the scanner's verdict, either way *)
Dismiss ==
    /\ dismissed' = ~dismissed
    /\ UNCHANGED <<dify, fixes, ask, review>>

InFlight(a) == ask[a].pc = "model"
Starts(a, approach, force) ==
    ask' = [b \in Askers |->
              IF b = a
              THEN [pc |-> "model", approach |-> approach, force |-> force,
                    alone |-> \A c \in Askers \ {a} : ~InFlight(c)]
              ELSE IF InFlight(b) THEN [ask[b] EXCEPT !.alone = FALSE] ELSE ask[b]]
Ends(a, pc) == ask' = [ask EXCEPT ![a] = [NoAsk EXCEPT !.pc = pc]]

-----------------------------------------------------------------------------
(* Mutant: a fix that was asked for without an approach is not found again *)
ExistsExactly(approach) == \E i \in DOMAIN fixes : approach = fixes[i].approach

(* _existing_for_approach: without an approach any fix will do *)
Exists(approach) == \E i \in DOMAIN fixes : approach \in {ANY, fixes[i].approach}

\* _skip_reason: a false positive or a duplicate needs no fix.
Skipped == dismissed

(* generate_remediation up to the call of the model *)
Generate(a, approach, force) ==
    IF Skipped \/ (~force /\ Exists(approach))
    THEN Ends(a, "idle")
    ELSE Starts(a, approach, force)

\* remediation_candidates leaves out what has a fix.
Candidate == fixes = <<>> /\ ~dismissed

(* _dify_client asks for the settings of the integration, and a disabled    *)
(* one raises                                                               *)
RunNode(a) ==
    /\ ask[a].pc = "idle"
    /\ Candidate
    /\ IF dify = "disabled" THEN Ends(a, "raised") ELSE Generate(a, ANY, FALSE)
    /\ UNCHANGED <<dify, dismissed, fixes, review>>

Ask(a, approach, force) ==
    /\ ask[a].pc = "idle"
    /\ Generate(a, approach, force)
    /\ UNCHANGED <<dify, dismissed, fixes, review>>

\* Asked for no approach, the row is labelled by what came back.
InferredApproaches(a) == IF ask[a].approach = ANY THEN Approaches ELSE {ask[a].approach}

(* The model's answer passed the guards: the row and its commit *)
StoreFix(a, approach) ==
    /\ ask[a].pc = "model"
    /\ approach \in InferredApproaches(a)
    /\ fixes' = Append(fixes, [approach |-> approach, reviewer |-> NOBODY,
                               excused |-> ask[a].force \/ ~ask[a].alone])
    /\ Ends(a, "idle")
    /\ UNCHANGED <<dify, dismissed, review>>

(* An invented CVE or score (audited, committed without a row), an error of *)
(* the model, a crash: nothing is stored.  Only a run that finds the model  *)
(* unavailable is degraded; it goes on to the next node.                    *)
NothingStored(a) ==
    /\ ask[a].pc = "model"
    /\ Ends(a, "idle")
    /\ UNCHANGED <<dify, dismissed, fixes, review>>

(* The failed run is started over *)
StartOver(a) ==
    /\ ask[a].pc = "raised"
    /\ Ends(a, "idle")
    /\ UNCHANGED <<dify, dismissed, fixes, review>>

-----------------------------------------------------------------------------
(* review_remediation *)
ReviewLoad(r, i) ==
    /\ review[r] = NoReview
    /\ review' = [review EXCEPT ![r] = [fix |-> i, fresh |-> fixes[i].reviewer = NOBODY]]
    /\ UNCHANGED <<dify, dismissed, fixes, ask>>

(* Mutant: the review is written whether or not the fix has one *)
ReviewCommitAlways(r) ==
    /\ review[r] # NoReview
    /\ fixes' = [fixes EXCEPT ![review[r].fix].reviewer = r]
    /\ review' = [review EXCEPT ![r] = NoReview]
    /\ UNCHANGED <<dify, dismissed, ask>>

ReviewCommit(r) ==
    /\ review[r] # NoReview
    /\ fixes' = IF review[r].fresh THEN [fixes EXCEPT ![review[r].fix].reviewer = r] ELSE fixes
    /\ review' = [review EXCEPT ![r] = NoReview]
    /\ UNCHANGED <<dify, dismissed, ask>>

RemediationNext ==
    \/ Dismiss
    \/ \E a \in Runs : RunNode(a) \/ StartOver(a)
    \/ \E a \in Askers :
        \/ NothingStored(a)
        \/ \E approach \in Approaches : Len(fixes) < MaxFixes /\ StoreFix(a, approach)
    \/ \E a \in Posts, approach \in Approaches \cup {ANY}, force \in BOOLEAN :
          Ask(a, approach, force)
    \/ \E r \in Reviewers :
        \/ ReviewCommit(r)
        \/ \E i \in DOMAIN fixes : ReviewLoad(r, i)

RemediationSpec == RemediationInit /\ [][RemediationNext]_remediationVars

-----------------------------------------------------------------------------
RemediationTypeOK ==
    /\ \A i \in DOMAIN fixes :
         fixes[i] \in [approach : Approaches, reviewer : Reviewers \cup {NOBODY}, excused : BOOLEAN]
    /\ \A a \in Askers : ask[a].pc \in {"idle", "model", "raised"}
    /\ \A r \in Reviewers : review[r].fix \in 0..Len(fixes)

(* "Idempotent per approach": a finding has two fixes of one approach only  *)
(* if one of them was forced or was generated beside another.               *)
OneFixPerApproachUnlessExcused ==
    \A i, j \in DOMAIN fixes :
        i # j /\ fixes[i].approach = fixes[j].approach => fixes[i].excused \/ fixes[j].excused

(* The sign-off is a one-way flag: no review is taken back, and a reviewer  *)
(* is replaced only by one who had loaded the fix unreviewed.               *)
SignOffStands ==
    [][\A i \in DOMAIN fixes :
         fixes[i].reviewer # NOBODY =>
            \/ fixes'[i].reviewer = fixes[i].reviewer
            \/ \E r \in Reviewers :
                  review[r] = [fix |-> i, fresh |-> TRUE] /\ fixes'[i].reviewer = r]_remediationVars

(* services/remediation.py: what the table of fixes may hold, over every     *)
(* order of runs, requests and crashes.                                     *)
RemediationInv == RemediationTypeOK /\ OneFixPerApproachUnlessExcused
=============================================================================
