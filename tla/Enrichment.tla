----------------------------- MODULE Enrichment -----------------------------
(***************************************************************************)
(* Threat intelligence on findings: services/enrichment.py and the node    *)
(* agent/nodes/enrich.py, with what the NVD, KEV, EPSS and MISP clients of *)
(* app/integrations answer.                                                *)
(*                                                                         *)
(* A pass enriches a batch of findings concurrently in one database        *)
(* session.  A session flushes once at a time and refuses a second flush   *)
(* while one is under way; what was added to it is written at the latest   *)
(* by the commit.  Providers answer or fail for every finding anew.        *)
(***************************************************************************)
EXTENDS Integers, Sequences, FiniteSets

CONSTANTS
    Findings,
    CVEs,
    CveLists,       \* bound: what scanners report, sequences over CVEs
    NOROW, UNKNOWN, \* no row yet, and the NULL of in_kev
    Providers,      \* the sources, of the four
    Configured,     \* those that are asked at all
    MaxPasses       \* bound: enrichment passes

(* Rows of finding_enrichments.  heard is a history: what CISA listed when   *)
(* it was asked last, UNKNOWN if it did not answer or was not asked, NOROW   *)
(* if nothing was done at all.                                               *)
ColumnStatuses == {"pending", "complete", "unavailable", "not_applicable"}
EnrichmentRows ==
    [status : [Providers -> ColumnStatuses], in_kev : BOOLEAN \cup {UNKNOWN}, ransomware : BOOLEAN,
     heard : (SUBSET CVEs) \cup {UNKNOWN, NOROW}]

ASSUME EnrichmentAssumption ==
    /\ Providers \subseteq {"nvd", "cisa_kev", "epss", "misp"}
    /\ Configured \subseteq Providers
    /\ "cisa_kev" \in Configured
    /\ NOROW \notin EnrichmentRows
    /\ MaxPasses \in Nat

VARIABLES
    cves,           \* findings.cve_ids
    catalogue,      \* external: the CVEs of the KEV feed
    enrichments,    \* rows of finding_enrichments
    session,        \* the rows as the session of the pass has them
    item,           \* the coroutines of the batch
    pass,           \* passes begun
    noted           \* assessments.degradations: providers named there

enrichmentVars == <<cves, catalogue, enrichments, session, item, pass, noted>>

Resting == [f \in Findings |-> "idle"]
Running == item # Resting
Flushing == \E f \in Findings : item[f] = "flushing"
Elements(list) == {list[i] : i \in DOMAIN list}

EnrichmentInit ==
    /\ cves \in [Findings -> CveLists]
    /\ catalogue \in SUBSET CVEs
    /\ enrichments = [f \in Findings |-> NOROW]
    /\ session = enrichments
    /\ item = Resting
    /\ pass = 0
    /\ noted = {}

-----------------------------------------------------------------------------
(* enrich_findings: one round of _BATCH_SIZE *)

BeginPass ==
    /\ ~Running /\ pass < MaxPasses
    /\ pass' = pass + 1
    /\ session' = enrichments
    /\ item' = [f \in Findings |-> "waiting"]
    /\ UNCHANGED <<cves, catalogue, enrichments, noted>>

Pending == [status |-> [p \in Providers |-> "pending"], in_kev |-> UNKNOWN, ransomware |-> FALSE,
            heard |-> NOROW]

(* _row_for.  A new row is in the session before its flush is refused, and  *)
(* there the coroutine ends (enrichment.batch_item_failed).                 *)
RowFor(f) ==
    /\ item[f] = "waiting"
    /\ session' = IF session[f] = NOROW THEN [session EXCEPT ![f] = Pending] ELSE session
    /\ item' = [item EXCEPT ![f] = IF session[f] # NOROW THEN "fetching"
                                   ELSE IF Flushing THEN "failed" ELSE "flushing"]
    /\ UNCHANGED <<cves, catalogue, enrichments, pass, noted>>

RowFlushed(f) ==
    /\ item[f] = "flushing"
    /\ item' = [item EXCEPT ![f] = "fetching"]
    /\ UNCHANGED <<cves, catalogue, enrichments, session, pass, noted>>

(* _mark_not_applicable: the statuses and in_kev, no other column *)
MarkNotApplicable(row) ==
    [row EXCEPT !.status = [p \in Providers |-> "not_applicable"], !.in_kev = UNKNOWN,
                !.heard = UNKNOWN]

(* _apply_nvd, _apply_kev, _apply_epss, _apply_misp: the statuses *)
ColumnAfter(p, answers) ==
    IF p \notin Configured THEN "not_applicable"
    ELSE IF p \in answers THEN "complete" ELSE "unavailable"

(* Mutant of ApplyKev: an outage leaves the verdict as well *)
ApplyKevKeepingVerdict(row, answers, listed, ransomware) ==
    IF "cisa_kev" \in answers
    THEN [row EXCEPT !.in_kev = listed # {}, !.ransomware = listed # {} /\ ransomware]
    ELSE row

(* _apply_kev: an outage leaves the ransomware column as it was *)
ApplyKev(row, answers, listed, ransomware) ==
    IF "cisa_kev" \in answers
    THEN [row EXCEPT !.in_kev = listed # {}, !.ransomware = listed # {} /\ ransomware]
    ELSE [row EXCEPT !.in_kev = UNKNOWN]

(* _fetch_kev: the CVEs of a finding that CISA lists *)
InCatalogue(f) == Elements(cves[f]) \cap catalogue

(* enrich_finding: _fetch_kev asks for all CVEs of the finding and takes    *)
(* the first entry there is, which may say "ransomware".                    *)
Enrich(f, answers, ransomware) ==
    /\ item[f] = "fetching"
    /\ LET listed == InCatalogue(f)
           applied == [ApplyKev(session[f], answers, listed, ransomware) EXCEPT
                          !.status = [p \in Providers |-> ColumnAfter(p, answers)],
                          !.heard = IF "cisa_kev" \in answers THEN listed ELSE UNKNOWN]
       IN  /\ session' = [session EXCEPT ![f] = IF cves[f] = <<>> THEN MarkNotApplicable(@)
                                                ELSE applied]
    /\ item' = [item EXCEPT ![f] = "enriched"]
    /\ UNCHANGED <<cves, catalogue, enrichments, pass, noted>>

(* unavailable_providers, _unavailable_across: of the rows a pass returned *)
UnavailableProviders(row) == {p \in Providers : row.status[p] = "unavailable"}
UnavailableAcross ==
    UNION {UnavailableProviders(session[f]) : f \in {g \in Findings : item[g] = "enriched"}}

(* The end of a pass: the commit writes what was added and never flushed,   *)
(* too.  _degrade has a transaction per provider, and any may fail.         *)
CommitPass(recorded) ==
    /\ Running
    /\ \A f \in Findings : item[f] \in {"enriched", "failed"}
    /\ recorded \subseteq UnavailableAcross
    /\ enrichments' = session
    /\ noted' = noted \cup recorded
    /\ item' = Resting
    /\ UNCHANGED <<cves, catalogue, session, pass>>

(* The worker dies, or the commit fails: the graph runs the node again. *)
LosePass ==
    /\ Running
    /\ item' = Resting
    /\ session' = enrichments
    /\ UNCHANGED <<cves, catalogue, enrichments, pass, noted>>

(* Between passes an import may report other CVEs, and CISA publishes. *)
Reimport(f, list) ==
    /\ ~Running
    /\ cves' = [cves EXCEPT ![f] = list]
    /\ UNCHANGED <<catalogue, enrichments, session, item, pass, noted>>

Publish(cve) ==
    /\ catalogue' = catalogue \cup {cve}
    /\ UNCHANGED <<cves, enrichments, session, item, pass, noted>>

EnrichmentNext ==
    \/ BeginPass
    \/ LosePass
    \/ \E recorded \in SUBSET Configured : CommitPass(recorded)
    \/ \E cve \in CVEs : Publish(cve)
    \/ \E f \in Findings :
        \/ RowFor(f)
        \/ RowFlushed(f)
        \/ \E list \in CveLists : Reimport(f, list)
        \/ \E answers \in SUBSET Configured, ransomware \in BOOLEAN :
               Enrich(f, answers, ransomware)

EnrichmentSpec == EnrichmentInit /\ [][EnrichmentNext]_enrichmentVars

-----------------------------------------------------------------------------
(* enrichment_evidence: what the analysis may cite about the primary CVE *)
KevBlock(f) ==
    LET row == enrichments[f] IN
    IF row # NOROW /\ cves[f] # <<>> /\ row.status["cisa_kev"] = "complete"
    THEN row.in_kev ELSE UNKNOWN

EnrichmentTypeOK ==
    /\ cves \in [Findings -> CveLists]
    /\ catalogue \subseteq CVEs
    /\ {enrichments, session} \subseteq [Findings -> EnrichmentRows \cup {NOROW}]
    /\ item \in [Findings -> {"idle", "waiting", "flushing", "fetching", "enriched", "failed"}]
    /\ pass \in 0..MaxPasses
    /\ noted \subseteq Configured

Unasked(f, p) == enrichments[f] # NOROW /\ enrichments[f].status[p] = "pending"

(* What a row says of the catalogue is CISA's last answer: an outage since, *)
(* or a finding that lost its CVEs, takes back the yes and the no           *)
(* (_apply_kev: "unreachable stays None, never False"), and so the analysis *)
(* can only cite an answer.  And only a row whose flush was refused next to *)
(* another's is left without any, until the next pass (_row_for).           *)
SilenceIsNoAnswer ==
    \A f \in Findings : enrichments[f] # NOROW =>
        /\ \A said \in {enrichments[f].in_kev, KevBlock(f)} :
               said # UNKNOWN => said = (enrichments[f].heard # {})
        /\ \A p \in Providers : Unasked(f, p) => enrichments[f].heard = NOROW

(* services/enrichment.py: what the rows of a finding say of the sources;   *)
(* and no source that is not asked is ever named as one that was down.      *)
EnrichmentInv == EnrichmentTypeOK /\ SilenceIsNoAnswer
=============================================================================
