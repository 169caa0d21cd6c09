------------------------- MODULE IntegrationConfig -------------------------
(***************************************************************************)
(* One integration of an organization: services/integration.py with the    *)
(* row and the credential of db/models/integration.py, the keys of         *)
(* core/crypto.py and the routes of api/v1/integrations.py.                *)
(*                                                                         *)
(* Editors change the row, a test sends what it read to the provider and   *)
(* writes the verdict when the answer is in.  The ORM writes the columns   *)
(* in which a request differs from the copy it loaded, and no others, so a *)
(* request on an old copy may leave half of another's work standing.       *)
(***************************************************************************)
EXTENDS Integers

CONSTANTS
    Editors,        \* requests in flight at a time
    Urls,           \* values of base_url and config
    Secrets,        \* plaintexts of the credential
    ABSENT,         \* no row, no credential, or a credential left out
    CLEAR           \* an explicit empty credential

VARIABLES
    row,            \* integrations, or ABSENT
    secret,         \* integration_credentials: [plain, key], or ABSENT
    keys,           \* the encryption keys a process has: the active one is 2
    edit,           \* the requests
    probed,         \* history: what the last healthy probe had sent
    crossed         \* history: requests crossed since the row was last changed alone

IntegrationRows ==
    [url : Urls, enabled : BOOLEAN,
     status : {"configured", "unverified", "error", "disabled"}]
Credentials == [plain : Secrets, key : {1, 2}]

ASSUME ConfigAssumption ==
    /\ ABSENT \notin IntegrationRows \cup Credentials \cup Secrets \cup (Urls \X Secrets)
    /\ CLEAR \notin Secrets \cup {ABSENT}

configVars == <<row, secret, keys, edit, probed, crossed>>

NoEdit == [pc |-> "idle"]
ActiveKey == IF 2 \in keys THEN 2 ELSE 1
Readable(s) == s # ABSENT /\ s.key \in keys              \* _decrypt
CredentialsFor(s) == IF Readable(s) THEN s.plain ELSE ABSENT
Sent(r, s) == <<r.url, CredentialsFor(s)>>              \* _overlay

ConfigInit ==
    /\ row = ABSENT
    /\ secret = ABSENT
    /\ keys = {1}
    /\ edit = [e \in Editors |-> NoEdit]
    /\ probed = ABSENT
    /\ crossed = FALSE

(* A deployment adds a new key in front of the old one, and later drops the *)
(* old one.  Nothing encrypts the stored credentials again.                 *)
RotateKeys ==
    /\ keys' = IF keys = {1} THEN {1, 2} ELSE {2}
    /\ keys' # keys
    /\ UNCHANGED <<row, secret, edit, probed, crossed>>

(* One request starts, and is alone as long as no other is in flight *)
Opens(e, request) ==
    LET others == {d \in Editors \ {e} : edit[d] # NoEdit} IN
    /\ edit[e] = NoEdit
    /\ edit' = [d \in Editors |->
                   IF d = e THEN [request EXCEPT !.alone = others = {}]
                   ELSE IF d \in others THEN [edit[d] EXCEPT !.alone = FALSE] ELSE NoEdit]
    /\ crossed' = (crossed \/ others # {})

Closes(e) == edit' = [edit EXCEPT ![e] = NoEdit]

-----------------------------------------------------------------------------
(* POST /integrations (upsert_integration): a credential that is left out   *)
(* keeps its value, an empty one clears it; settings left out are those of  *)
(* the copy                                                                 *)

UpsertLoad(e, enabled, url, plain) ==
    /\ Opens(e, [pc |-> "upsert", row |-> row, secret |-> secret,
                  enabled |-> enabled, url |-> url, plain |-> plain, alone |-> TRUE])
    /\ UNCHANGED <<row, secret, keys, probed>>

(* DELETE /integrations/{kind} (disable_integration) *)
DisableLoad(e) ==
    /\ row # ABSENT
    /\ Opens(e, [pc |-> "disable", row |-> row, alone |-> TRUE])
    /\ UNCHANGED <<row, secret, keys, probed>>

(* _apply_credentials: what the request changes (the fingerprint stands for *)
(* the plaintext), and what its flush leaves                                *)
Changes(copy, plain) ==
    plain # ABSENT /\ IF copy = ABSENT THEN plain # CLEAR ELSE copy.plain # plain
Stored(copy, plain) ==
    IF ~Changes(copy, plain) THEN secret
    ELSE IF plain = CLEAR THEN ABSENT
    ELSE [plain |-> plain, key |-> ActiveKey]

(* unique_integration and unique_credential_name, and the UPDATE of a       *)
(* credential that is gone: the request fails and changes nothing           *)
FlushFails(q) ==
    \/ q.row = ABSENT /\ row # ABSENT
    \/ /\ Changes(q.secret, q.plain)
       /\ q.plain # CLEAR
       /\ (q.secret = ABSENT) # (secret = ABSENT)

(* what the flush writes: value, where the copy has another *)
Written(column, copy, value) == IF copy = value THEN column ELSE value

Status(enabled) == IF enabled THEN "unverified" ELSE "disabled"

(* Mutant of UpsertCommit: a change keeps the verdict unless it switches the row *)
UpsertKeepingVerdict(e) ==
    LET q == edit[e] IN
    /\ q.pc = "upsert"
    /\ IF FlushFails(q) THEN UNCHANGED <<row, secret>>
       ELSE /\ row' = IF q.row = ABSENT
                      THEN [url |-> q.url, enabled |-> q.enabled, status |-> Status(q.enabled)]
                      ELSE [row EXCEPT !.url = Written(@, q.row.url, q.url),
                                       !.enabled = Written(@, q.row.enabled, q.enabled)]
            /\ secret' = Stored(q.secret, q.plain)
    /\ Closes(e)
    /\ crossed' = (crossed /\ ~q.alone)
    /\ UNCHANGED <<keys, probed>>

UpsertCommit(e) ==
    LET q == edit[e] IN
    /\ q.pc = "upsert"
    /\ IF FlushFails(q) THEN UNCHANGED <<row, secret>>
       ELSE /\ row' = IF q.row = ABSENT
                      THEN [url |-> q.url, enabled |-> q.enabled, status |-> Status(q.enabled)]
                      ELSE [url |-> Written(row.url, q.row.url, q.url),
                            enabled |-> Written(row.enabled, q.row.enabled, q.enabled),
                            status |-> Written(row.status, q.row.status, Status(q.enabled))]
            /\ secret' = Stored(q.secret, q.plain)
    /\ Closes(e)
    /\ crossed' = (crossed /\ ~q.alone)
    /\ UNCHANGED <<keys, probed>>

DisableCommit(e) ==
    LET q == edit[e] IN
    /\ q.pc = "disable"
    /\ row' = [row EXCEPT !.enabled = Written(@, q.row.enabled, FALSE),
                          !.status = Written(@, q.row.status, "disabled")]
    /\ Closes(e)
    /\ UNCHANGED <<secret, keys, probed, crossed>>

-----------------------------------------------------------------------------
(* POST /integrations/{kind}/test: resolve_settings with require=TRUE, the  *)
(* provider's answer, the verdict                                           *)

(* is_usable, the required credential, and _overlay *)
Resolves == row # ABSENT /\ row.enabled /\ row.status # "disabled" /\ Readable(secret)

TestLoad(e) ==
    /\ row # ABSENT
    /\ Opens(e, [pc |-> "test", row |-> row,
                  sent |-> IF Resolves THEN Sent(row, secret) ELSE ABSENT, alone |-> TRUE])
    /\ UNCHANGED <<row, secret, keys, probed>>

(* _ping: the provider is asked only with settings that resolved *)
Answers(q) == IF q.sent = ABSENT THEN {FALSE} ELSE BOOLEAN

TestCommit(e, healthy) ==
    LET q == edit[e] IN
    /\ q.pc = "test"
    /\ healthy \in Answers(q)
    /\ row' = [row EXCEPT !.status =
                  Written(@, q.row.status, IF healthy THEN "configured" ELSE "error")]
    /\ probed' = IF healthy THEN q.sent ELSE probed
    /\ Closes(e)
    /\ UNCHANGED <<secret, keys, crossed>>

ConfigNext ==
    \/ RotateKeys
    \/ \E e \in Editors :
        \/ DisableLoad(e)
        \/ TestLoad(e)
        \/ UpsertCommit(e)
        \/ DisableCommit(e)
        \/ \E healthy \in BOOLEAN : TestCommit(e, healthy)
        \/ \E enabled \in BOOLEAN, url \in Urls, plain \in Secrets \cup {ABSENT, CLEAR} :
              UpsertLoad(e, enabled, url, plain)

ConfigSpec == ConfigInit /\ [][ConfigNext]_configVars

-----------------------------------------------------------------------------
ConfigTypeOK ==
    /\ row = ABSENT \/ row \in IntegrationRows
    /\ secret = ABSENT \/ secret \in Credentials
    /\ keys \in (SUBSET {1, 2}) \ {{}}
    /\ \A e \in Editors : edit[e].pc \in {"idle", "upsert", "disable", "test"}

(* A verdict describes the configuration that exists (upsert_integration:   *)
(* "Any change invalidates the previous verdict"): what is called           *)
(* configured was probed with the present settings and credential, unless a *)
(* test and a change crossed.                                               *)
VerdictIsCurrent ==
    row # ABSENT /\ row.status = "configured" /\ ~crossed /\ Readable(secret)
    => probed = Sent(row, secret)

ConfigInv == ConfigTypeOK /\ VerdictIsCurrent
=============================================================================
