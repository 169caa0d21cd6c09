--------------------------- MODULE PlatformProofs ---------------------------
(***************************************************************************)
(* What concurrent requests do to the rows and keys of the platform, for   *)
(* any number of requests.                                                 *)
(***************************************************************************)
EXTENDS AssessmentLifecycle, Sessions, Passwords, Membership, IntegrationConfig,
        FiniteSetTheorems, WellFoundedInduction, TLAPS

-----------------------------------------------------------------------------
(* Integrations.  A request that was alone all the time works on copies    *)
(* that are still current, and so writes everything it means to.           *)

EditStates ==
    [pc : {"idle"}]
    \cup [pc : {"upsert"}, row : IntegrationRows \cup {ABSENT}, enabled : BOOLEAN,
          secret : Credentials \cup {ABSENT}, url : Urls,
          plain : Secrets \cup {ABSENT, CLEAR}, alone : BOOLEAN]
    \cup [pc : {"disable"}, row : IntegrationRows, alone : BOOLEAN]
    \cup [pc : {"test"}, row : IntegrationRows, alone : BOOLEAN,
          sent : (Urls \X (Secrets \cup {ABSENT})) \cup {ABSENT}]

ConfigTypes ==
    /\ row \in IntegrationRows \cup {ABSENT}
    /\ secret \in Credentials \cup {ABSENT}
    /\ keys \in {{1}, {1, 2}, {2}}
    /\ edit \in [Editors -> EditStates]
    /\ crossed \in BOOLEAN

\* What a request that is alone has in its hands.
CopiesCurrent(q) ==
    /\ q.row = row
    /\ q.pc = "upsert" => q.secret = secret
    /\ q.pc = "test" /\ q.sent # ABSENT =>
         secret # ABSENT /\ q.sent = <<row.url, secret.plain>>

AloneIsCurrent ==
    \A e \in Editors : edit[e] # NoEdit /\ edit[e].alone =>
        /\ CopiesCurrent(edit[e])
        /\ \A d \in Editors \ {e} : edit[d] = NoEdit

\* As long as nothing crossed, who is in flight is alone.
UncrossedIsAlone ==
    ~crossed => \A e \in Editors : edit[e] # NoEdit => edit[e].alone

\* A row that a request loaded is still there.
RowStays ==
    \A e \in Editors : edit[e] # NoEdit /\ edit[e].row # ABSENT => row # ABSENT

\* The verdict is of the stored configuration, whether or not it can be decrypted.
VerdictIsOfStored ==
    row # ABSENT /\ row.status = "configured" /\ ~crossed /\ secret # ABSENT
    => probed = <<row.url, secret.plain>>

ConfigIInv ==
    ConfigTypes /\ AloneIsCurrent /\ UncrossedIsAlone /\ RowStays /\ VerdictIsOfStored

LEMMA ConfigStarts == ConfigInit => ConfigIInv
<1> SUFFICES ASSUME ConfigInit PROVE ConfigIInv
  OBVIOUS
<1>1. NoEdit \in EditStates
  BY DEF NoEdit, EditStates
<1>2. ConfigTypes
  BY <1>1 DEF ConfigInit, ConfigTypes
<1>3. AloneIsCurrent /\ UncrossedIsAlone /\ RowStays /\ VerdictIsOfStored
  BY DEF ConfigInit, AloneIsCurrent, UncrossedIsAlone, RowStays, VerdictIsOfStored
<1> QED
  BY <1>2, <1>3 DEF ConfigIInv

LEMMA ConfigShows == ConfigIInv => ConfigInv
<1> SUFFICES ASSUME ConfigIInv PROVE ConfigInv
  OBVIOUS
<1>1. ConfigTypeOK
  <2>1. \A e \in Editors : edit[e].pc \in {"idle", "upsert", "disable", "test"}
    <3> TAKE e \in Editors
    <3>1. edit[e] \in EditStates
      BY DEF ConfigIInv, ConfigTypes
    <3> QED
      BY <3>1 DEF EditStates
  <2>2. keys \subseteq {1, 2} /\ keys # {}
    BY DEF ConfigIInv, ConfigTypes
  <2> QED
    BY <2>1, <2>2 DEF ConfigIInv, ConfigTypes, ConfigTypeOK
<1>2. VerdictIsCurrent
  BY DEF ConfigIInv, VerdictIsOfStored, VerdictIsCurrent, Sent, CredentialsFor, Readable
<1> QED
  BY <1>1, <1>2 DEF ConfigInv

\* A request that another one meets.
LEMMA EditMet ==
  ASSUME NEW q \in EditStates, q # NoEdit
  PROVE  LET met == [q EXCEPT !.alone = FALSE]
         IN  met \in EditStates /\ met # NoEdit /\ ~met.alone /\ met.row = q.row
<1> DEFINE met == [q EXCEPT !.alone = FALSE]
<1>1. CASE q.pc = "idle"
  BY <1>1 DEF EditStates, NoEdit
<1>2. CASE q.pc = "upsert"
  BY <1>2 DEF EditStates, NoEdit
<1>3. CASE q.pc = "disable"
  BY <1>3 DEF EditStates, NoEdit
<1>4. CASE q.pc = "test"
  BY <1>4 DEF EditStates, NoEdit
<1> QED
  BY <1>1, <1>2, <1>3, <1>4 DEF EditStates

\* A request that opens with current copies.
LEMMA EditOpens ==
  ASSUME NEW e \in Editors, NEW q \in EditStates \ {NoEdit}, ConfigIInv,
         Opens(e, q), UNCHANGED <<row, secret, keys, probed>>,
         q.alone, CopiesCurrent(q)
  PROVE  ConfigIInv'
<1> DEFINE others == {d \in Editors \ {e} : edit[d] # NoEdit}
<1> DEFINE opened == [q EXCEPT !.alone = others = {}]
<1>1. /\ opened \in EditStates /\ opened # NoEdit /\ opened.alone = (others = {})
      /\ opened.pc = q.pc /\ opened.row = q.row
      /\ opened.pc = "upsert" => opened.secret = q.secret
      /\ opened.pc = "test" => opened.sent = q.sent
  BY DEF EditStates, NoEdit
<1>2. \A d \in others : LET met == [edit[d] EXCEPT !.alone = FALSE]
                        IN  met \in EditStates /\ met # NoEdit /\ ~met.alone
                            /\ met.row = edit[d].row
  <2> TAKE d \in others
  <2>1. edit[d] \in EditStates /\ edit[d] # NoEdit
    BY DEF ConfigIInv, ConfigTypes
  <2> QED
    BY <2>1, EditMet
<1>3. /\ edit[e] = NoEdit
      /\ edit' = [d \in Editors |-> IF d = e THEN opened
                     ELSE IF d \in others THEN [edit[d] EXCEPT !.alone = FALSE] ELSE NoEdit]
      /\ crossed' = (crossed \/ others # {})
  BY DEF Opens
<1>4. /\ edit'[e] = opened
      /\ \A d \in others : /\ edit'[d] \in EditStates /\ edit'[d] # NoEdit
                           /\ ~edit'[d].alone /\ edit'[d].row = edit[d].row
      /\ \A d \in Editors \ {e} : d \notin others => edit'[d] = NoEdit
  BY <1>2, <1>3
<1> HIDE DEF opened
<1>5. ConfigTypes'
  <2>1. NoEdit \in EditStates
    BY DEF NoEdit, EditStates
  <2>2. edit' \in [Editors -> EditStates]
    BY <1>1, <1>2, <1>3, <2>1
  <2> QED
    BY <1>3, <2>2 DEF ConfigIInv, ConfigTypes
<1>6. AloneIsCurrent'
  BY <1>1, <1>4, ZenonT(60) DEF AloneIsCurrent, CopiesCurrent
<1>7. UncrossedIsAlone'
  BY <1>1, <1>3, <1>4 DEF UncrossedIsAlone
<1>8. RowStays'
  BY <1>1, <1>4 DEF RowStays, ConfigIInv, CopiesCurrent
<1>9. VerdictIsOfStored'
  BY <1>3 DEF VerdictIsOfStored, ConfigIInv
<1> QED
  BY <1>5, <1>6, <1>7, <1>8, <1>9 DEF ConfigIInv

\* Everything a request decides from is current if it is alone; if it is not, the
\* requests crossed, and no verdict is taken to be current.
LEMMA EditLeaves ==
  ASSUME NEW e \in Editors, ConfigIInv, edit[e] # NoEdit, Closes(e), UNCHANGED keys,
         row' \in IntegrationRows \cup {ABSENT}, row # ABSENT => row' # ABSENT,
         secret' \in Credentials \cup {ABSENT},
         crossed' \in {crossed, crossed /\ ~edit[e].alone},
         edit[e].alone => VerdictIsOfStored'
  PROVE  ConfigIInv'
<1>1. edit' = [d \in Editors |-> IF d = e THEN NoEdit ELSE edit[d]]
  BY DEF Closes, ConfigIInv, ConfigTypes
<1>2. ConfigTypes'
  <2>1. NoEdit \in EditStates
    BY DEF NoEdit, EditStates
  <2>2. edit' \in [Editors -> EditStates]
    BY <1>1, <2>1 DEF ConfigIInv, ConfigTypes
  <2>3. crossed' \in BOOLEAN
    BY DEF ConfigIInv, ConfigTypes
  <2> QED
    BY <2>2, <2>3 DEF ConfigIInv, ConfigTypes
<1>3. CASE edit[e].alone
  <2>1. \A d \in Editors : edit'[d] = NoEdit
    BY <1>1, <1>3 DEF ConfigIInv, AloneIsCurrent
  <2> QED
    BY <1>2, <1>3, <2>1
       DEF ConfigIInv, AloneIsCurrent, UncrossedIsAlone, RowStays
<1>4. CASE ~edit[e].alone
  <2>1. crossed /\ crossed'
    BY <1>4 DEF ConfigIInv, ConfigTypes, UncrossedIsAlone
  <2>2. AloneIsCurrent'
    BY <1>1 DEF ConfigIInv, AloneIsCurrent
  <2>3. RowStays'
    BY <1>1 DEF ConfigIInv, RowStays
  <2> QED
    BY <1>2, <2>1, <2>2, <2>3 DEF ConfigIInv, UncrossedIsAlone, VerdictIsOfStored
<1> QED
  BY <1>3, <1>4

LEMMA UpsertKeeps ==
  ASSUME NEW e \in Editors, ConfigIInv, UpsertCommit(e)
  PROVE  ConfigIInv'
<1> DEFINE q == edit[e]
<1>1. /\ q \in EditStates /\ q.pc = "upsert" /\ q # NoEdit
      /\ row \in IntegrationRows \cup {ABSENT} /\ secret \in Credentials \cup {ABSENT}
      /\ keys \in {{1}, {1, 2}, {2}}
  BY DEF UpsertCommit, ConfigIInv, ConfigTypes, NoEdit
<1>2. /\ q.row \in IntegrationRows \cup {ABSENT} /\ q.enabled \in BOOLEAN
      /\ q.secret \in Credentials \cup {ABSENT} /\ q.url \in Urls
      /\ q.plain \in Secrets \cup {ABSENT, CLEAR} /\ q.alone \in BOOLEAN
  BY <1>1 DEF EditStates
<1>3. q.row # ABSENT => row # ABSENT
  BY <1>1 DEF ConfigIInv, RowStays
<1>4. /\ Closes(e) /\ crossed' = (crossed /\ ~q.alone) /\ UNCHANGED <<keys, probed>>
      /\ \/ FlushFails(q) /\ UNCHANGED <<row, secret>>
         \/ /\ ~FlushFails(q)
            /\ row' = IF q.row = ABSENT
                      THEN [url |-> q.url, enabled |-> q.enabled, status |-> Status(q.enabled)]
                      ELSE [url |-> Written(row.url, q.row.url, q.url),
                            enabled |-> Written(row.enabled, q.row.enabled, q.enabled),
                            status |-> Written(row.status, q.row.status, Status(q.enabled))]
            /\ secret' = Stored(q.secret, q.plain)
  BY DEF UpsertCommit
<1>5. Status(q.enabled) \in {"unverified", "disabled"}
  BY DEF Status
<1>6. row' \in IntegrationRows \cup {ABSENT} /\ (row # ABSENT => row' # ABSENT)
  <2>1. CASE q.row = ABSENT
    BY <1>1, <1>2, <1>4, <1>5, <2>1, ConfigAssumption DEF IntegrationRows
  <2>2. CASE q.row # ABSENT
    BY <1>1, <1>2, <1>3, <1>4, <1>5, <2>2, ConfigAssumption DEF IntegrationRows, Written
  <2> QED
    BY <2>1, <2>2
<1>7. secret' \in Credentials \cup {ABSENT}
  <2>1. ActiveKey \in {1, 2}
    BY DEF ActiveKey
  <2>2. Stored(q.secret, q.plain) \in Credentials \cup {ABSENT}
    BY <1>1, <1>2, <2>1 DEF Stored, Changes, Credentials
  <2> QED
    BY <1>1, <1>4, <2>2
<1>8. q.alone => VerdictIsOfStored'
  <2> SUFFICES ASSUME q.alone PROVE row'.status # "configured"
    BY DEF VerdictIsOfStored
  <2>1. q.row = row /\ q.secret = secret
    BY <1>1 DEF ConfigIInv, AloneIsCurrent, CopiesCurrent
  <2>2. ~FlushFails(q)
    BY <2>1 DEF FlushFails
  <2>3. row'.status = Status(q.enabled)
    BY <1>4, <2>1, <2>2 DEF Written
  <2> QED
    BY <1>5, <2>3
<1> QED
  BY <1>1, <1>2, <1>4, <1>6, <1>7, <1>8, EditLeaves

LEMMA DisableKeeps ==
  ASSUME NEW e \in Editors, ConfigIInv, DisableCommit(e)
  PROVE  ConfigIInv'
<1> DEFINE q == edit[e]
<1>1. /\ q \in EditStates /\ q.pc = "disable" /\ q # NoEdit
      /\ row \in IntegrationRows \cup {ABSENT} /\ secret \in Credentials \cup {ABSENT}
  BY DEF DisableCommit, ConfigIInv, ConfigTypes, NoEdit
<1>2. q.row \in IntegrationRows /\ q.alone \in BOOLEAN
  BY <1>1 DEF EditStates
<1>3. row \in IntegrationRows
  BY <1>1, <1>2, ConfigAssumption DEF ConfigIInv, RowStays
<1>4. /\ Closes(e) /\ UNCHANGED <<secret, keys, probed, crossed>>
      /\ row' = [row EXCEPT !.enabled = Written(@, q.row.enabled, FALSE),
                            !.status = Written(@, q.row.status, "disabled")]
  BY DEF DisableCommit
<1>5. /\ row' \in IntegrationRows
      /\ row'.status = Written(row.status, q.row.status, "disabled")
  BY <1>3, <1>4 DEF IntegrationRows, Written
<1>6. q.alone => VerdictIsOfStored'
  <2> SUFFICES ASSUME q.alone PROVE row'.status # "configured"
    BY DEF VerdictIsOfStored
  <2>1. q.row = row
    BY <1>1 DEF ConfigIInv, AloneIsCurrent, CopiesCurrent
  <2> QED
    BY <1>5, <2>1 DEF Written
<1> QED
  BY <1>1, <1>4, <1>5, <1>6, EditLeaves, ConfigAssumption

LEMMA TestKeeps ==
  ASSUME NEW e \in Editors, NEW healthy \in BOOLEAN, ConfigIInv, TestCommit(e, healthy)
  PROVE  ConfigIInv'
<1> DEFINE q == edit[e]
<1> DEFINE verdict == IF healthy THEN "configured" ELSE "error"
<1>1. /\ q \in EditStates /\ q.pc = "test" /\ q # NoEdit
      /\ row \in IntegrationRows \cup {ABSENT} /\ secret \in Credentials \cup {ABSENT}
  BY DEF TestCommit, ConfigIInv, ConfigTypes, NoEdit
<1>2. q.row \in IntegrationRows /\ q.alone \in BOOLEAN
  BY <1>1 DEF EditStates
<1>3. row \in IntegrationRows
  BY <1>1, <1>2, ConfigAssumption DEF ConfigIInv, RowStays
<1>4. /\ Closes(e) /\ UNCHANGED <<secret, keys, crossed>> /\ healthy \in Answers(q)
      /\ row' = [row EXCEPT !.status = Written(@, q.row.status, verdict)]
      /\ probed' = IF healthy THEN q.sent ELSE probed
  BY DEF TestCommit
<1>5. /\ row' \in IntegrationRows /\ row'.url = row.url
      /\ row'.status = Written(row.status, q.row.status, verdict)
  BY <1>3, <1>4 DEF IntegrationRows, Written
<1>6. q.alone => VerdictIsOfStored'
  <2> SUFFICES ASSUME q.alone, row'.status = "configured"
               PROVE  secret # ABSENT => probed' = <<row.url, secret.plain>>
    BY <1>4, <1>5 DEF VerdictIsOfStored
  <2>1. CopiesCurrent(q)
    BY <1>1 DEF ConfigIInv, AloneIsCurrent
  <2>2. healthy
    BY <1>5, <2>1 DEF Written, CopiesCurrent
  <2>3. q.sent # ABSENT
    BY <1>4, <2>2 DEF Answers
  <2> QED
    BY <1>1, <1>4, <2>1, <2>2, <2>3 DEF CopiesCurrent
<1> QED
  BY <1>1, <1>4, <1>5, <1>6, EditLeaves, ConfigAssumption

LEMMA LoadsKeep ==
  ASSUME NEW e \in Editors, ConfigIInv,
         \/ DisableLoad(e) \/ TestLoad(e)
         \/ \E enabled \in BOOLEAN, url \in Urls, plain \in Secrets \cup {ABSENT, CLEAR} :
               UpsertLoad(e, enabled, url, plain)
  PROVE  ConfigIInv'
<1>1. row \in IntegrationRows \cup {ABSENT} /\ secret \in Credentials \cup {ABSENT}
  BY DEF ConfigIInv, ConfigTypes
<1>2. CASE DisableLoad(e)
  <2> DEFINE q == [pc |-> "disable", row |-> row, alone |-> TRUE]
  <2>1. q \in EditStates \ {NoEdit} /\ q.alone /\ CopiesCurrent(q)
    BY <1>1, <1>2 DEF DisableLoad, EditStates, NoEdit, CopiesCurrent
  <2> QED
    BY <1>2, <2>1, EditOpens DEF DisableLoad
<1>3. CASE TestLoad(e)
  <2> DEFINE sent == IF Resolves THEN Sent(row, secret) ELSE ABSENT
  <2> DEFINE q == [pc |-> "test", row |-> row, sent |-> sent, alone |-> TRUE]
  <2>1. row \in IntegrationRows
    BY <1>1, <1>3 DEF TestLoad
  <2>3. /\ sent \in (Urls \X (Secrets \cup {ABSENT})) \cup {ABSENT}
        /\ sent # ABSENT => secret # ABSENT /\ sent = <<row.url, secret.plain>>
    <3>1. CASE Resolves
      <4>1. secret \in Credentials /\ secret # ABSENT /\ sent = <<row.url, secret.plain>>
        BY <1>1, <3>1 DEF Resolves, Readable, Sent, CredentialsFor
      <4>2. row.url \in Urls /\ secret.plain \in Secrets
        BY <2>1, <4>1 DEF IntegrationRows, Credentials
      <4> QED
        BY <4>1, <4>2
    <3>2. CASE ~Resolves
      BY <3>2
    <3> QED
      BY <3>1, <3>2
  <2> HIDE DEF sent
  <2>4. q \in EditStates \ {NoEdit} /\ q.alone /\ CopiesCurrent(q)
    BY <2>1, <2>3 DEF EditStates, NoEdit, CopiesCurrent
  <2>5. Opens(e, q) /\ UNCHANGED <<row, secret, keys, probed>>
    BY <1>3 DEF TestLoad, sent
  <2> QED
    BY <2>4, <2>5, EditOpens
<1>4. ASSUME NEW enabled \in BOOLEAN, NEW url \in Urls,
             NEW plain \in Secrets \cup {ABSENT, CLEAR}, UpsertLoad(e, enabled, url, plain)
      PROVE  ConfigIInv'
  <2> DEFINE q == [pc |-> "upsert", row |-> row, secret |-> secret, enabled |-> enabled,
                   url |-> url, plain |-> plain, alone |-> TRUE]
  <2>1. q \in EditStates \ {NoEdit} /\ q.alone /\ CopiesCurrent(q)
    BY <1>1 DEF EditStates, NoEdit, CopiesCurrent
  <2>2. Opens(e, q) /\ UNCHANGED <<row, secret, keys, probed>>
    BY <1>4 DEF UpsertLoad
  <2> QED
    BY <2>1, <2>2, EditOpens
<1> QED
  BY <1>2, <1>3, <1>4

LEMMA ConfigKept == ConfigIInv /\ [ConfigNext]_configVars => ConfigIInv'
<1> SUFFICES ASSUME ConfigIInv, [ConfigNext]_configVars PROVE ConfigIInv'
  OBVIOUS
<1>1. CASE RotateKeys
  <2>1. /\ keys' \in {{1}, {1, 2}, {2}}
        /\ UNCHANGED <<row, secret, edit, probed, crossed>>
    BY <1>1 DEF RotateKeys
  <2> QED
    BY <2>1 DEF ConfigIInv, ConfigTypes, AloneIsCurrent, CopiesCurrent, UncrossedIsAlone,
                RowStays, VerdictIsOfStored
<1>2. CASE UNCHANGED configVars
  BY <1>2 DEF configVars, ConfigIInv, ConfigTypes, AloneIsCurrent, CopiesCurrent,
              UncrossedIsAlone, RowStays, VerdictIsOfStored
<1> QED
  BY <1>1, <1>2, LoadsKeep, UpsertKeeps, DisableKeeps, TestKeeps DEF ConfigNext

(* A verdict describes the configuration that exists, for any number of     *)
(* editors, settings and credentials, unless requests crossed.              *)
THEOREM ConfigInvHolds == ConfigSpec => []ConfigInv
<1>1. ConfigSpec => []ConfigIInv
  BY ConfigStarts, ConfigKept, PTL DEF ConfigSpec
<1> QED
  BY <1>1, ConfigShows, PTL

-----------------------------------------------------------------------------
(* Sessions.  An entry of the deny list outlives its token but for the     *)
(* half second a whole number of seconds may lack; a refresh token is on   *)
(* the list before it is exchanged; a cutoff outlives what it cuts off.    *)

SessionsTypes ==
    /\ now \in 0..MaxTime
    /\ pairs \in Seq(0..MaxTime) /\ Len(pairs) <= MaxPairs
    /\ DOMAIN denied \subseteq Tokens /\ \A t \in DOMAIN denied : denied[t] \in Nat
    /\ cutoff \in [at : Nat, expires : Nat]
    /\ call \in [Clients -> Calls]
    /\ \A c \in Clients : call[c].pc # "idle" => call[c].pair \in DOMAIN pairs
    /\ exchanged \in [1..MaxPairs -> Nat]
    /\ retired \subseteq Tokens /\ raced \subseteq DOMAIN pairs

\* An entry of the deny list lacks at most half a second of its token's life.
EntriesLast == \A t \in DOMAIN denied : denied[t] >= 2 * Exp(t) - 1

\* What was retired is on the list or about to expire.
RetiredIsDenied == \A t \in retired : t \in DOMAIN denied \/ 2 * Exp(t) - now <= 1

\* A cutoff lasts as long as a refresh token issued just before it.
CutoffLasts == cutoff.at > 0 => 2 * (cutoff.at + RefreshTTL) <= cutoff.expires

Refreshes(c, p) == call[c].pc # "idle" /\ call[c].pair = p

\* Before it is exchanged, a refresh token is retired.
RetiredFirst ==
    /\ \A c \in Clients : call[c].pc = "rotating" => <<call[c].pair, "refresh">> \in retired
    /\ \A p \in 1..MaxPairs : exchanged[p] > 0 => <<p, "refresh">> \in retired

\* Two exchanges of a token overlap, or the second came late, only if that is known.
SecondIsRaced ==
    \A p \in DOMAIN pairs \ raced : \A c \in Clients : Refreshes(c, p) =>
        /\ exchanged[p] = 0
        /\ \A d \in Clients \ {c} : ~Refreshes(d, p)

SessionsIInv ==
    /\ SessionsTypes /\ EntriesLast /\ RetiredIsDenied /\ CutoffLasts /\ RetiredFirst
    /\ SecondIsRaced /\ ExchangedOnceUnlessRaced

\* Whole seconds lose less than a second.
LEMMA WholeSeconds ==
  \A n \in Int : n \div 2 \in Int /\ 2 * (n \div 2) \in {n, n - 1}
  OBVIOUS

LEMMA SeqElement ==
  ASSUME NEW S, NEW s \in Seq(S), NEW i \in DOMAIN s
  PROVE  s[i] \in S
  OBVIOUS

LEMMA PairsBound ==
  ASSUME SessionsTypes
  PROVE  DOMAIN pairs \subseteq 1..MaxPairs
<1>1. /\ pairs \in Seq(0..MaxTime) /\ Len(pairs) <= MaxPairs /\ MaxPairs \in Nat
  BY TTLAssumption DEF SessionsTypes
<1>2. DOMAIN pairs = 1..Len(pairs) /\ Len(pairs) \in Nat
  BY <1>1
<1> QED
  BY <1>1, <1>2

LEMMA TokenTimes ==
  ASSUME SessionsTypes, NEW t \in Tokens
  PROVE  /\ t[1] \in DOMAIN pairs /\ t[2] \in Types
         /\ Iat(t) \in Nat /\ Exp(t) \in Nat /\ TTL(t[2]) \in Nat
         /\ Exp(t) = Iat(t) + TTL(t[2]) /\ TTL(t[2]) <= RefreshTTL
<1>1. t[1] \in DOMAIN pairs /\ t[2] \in Types
  BY DEF Tokens
<1>2. pairs[t[1]] \in Nat
  <2>1. pairs \in Seq(0..MaxTime)
    BY DEF SessionsTypes
  <2>2. pairs[t[1]] \in 0..MaxTime
    BY <1>1, <2>1, SeqElement
  <2> QED
    BY <2>2
<1>3. Iat(t) \in Nat
  BY <1>2 DEF Iat
<1>4. TTL(t[2]) \in Nat /\ TTL(t[2]) <= RefreshTTL
  BY TTLAssumption DEF TTL
<1> QED
  BY <1>1, <1>3, <1>4 DEF Exp

LEMMA SessionsStart == SessionsInit => SessionsIInv
<1> SUFFICES ASSUME SessionsInit PROVE SessionsIInv
  OBVIOUS
<1>1. /\ DOMAIN pairs = {1} /\ pairs \in Seq(0..MaxTime) /\ Len(pairs) = 1
  BY TTLAssumption DEF SessionsInit
<1>2. DOMAIN denied = {}
  BY DEF SessionsInit
<1>3. SessionsTypes
  <2>1. Idle \in Calls /\ Idle.pc = "idle"
    BY DEF Idle, Calls
  <2>2. call \in [Clients -> Calls] /\ \A c \in Clients : call[c].pc = "idle"
    BY <2>1 DEF SessionsInit
  <2>3. cutoff \in [at : Nat, expires : Nat]
    BY DEF SessionsInit
  <2>4. exchanged \in [1..MaxPairs -> Nat] /\ now \in 0..MaxTime /\ Len(pairs) <= MaxPairs
    BY <1>1, TTLAssumption DEF SessionsInit
  <2>5. retired = {} /\ raced = {}
    BY DEF SessionsInit
  <2> QED
    BY <1>1, <1>2, <2>2, <2>3, <2>4, <2>5 DEF SessionsTypes
<1>4. SecondIsRaced /\ RetiredFirst /\ ExchangedOnceUnlessRaced
  BY <1>1, TTLAssumption
     DEF SessionsInit, SecondIsRaced, RetiredFirst, ExchangedOnceUnlessRaced, Refreshes, Idle
<1> QED
  BY <1>2, <1>3, <1>4 DEF SessionsInit, SessionsIInv, EntriesLast, RetiredIsDenied, CutoffLasts

LEMMA SessionsShow == SessionsIInv => SessionsInv
<1> SUFFICES ASSUME SessionsIInv PROVE SessionsInv
  OBVIOUS
<1>1. SessionsTypeOK
  BY DEF SessionsIInv, SessionsTypes, SessionsTypeOK
<1>2. RevokedIsDead
  BY DEF SessionsIInv, RetiredIsDenied, RevokedIsDead, Authenticates, IsRevoked
<1>3. CutoffHolds
  <2> SUFFICES ASSUME NEW t \in Tokens, Iat(t) < cutoff.at, Authenticates(t, t[2])
               PROVE  FALSE
    BY DEF CutoffHolds
  <2>1. /\ Iat(t) \in Nat /\ TTL(t[2]) \in Nat
        /\ Exp(t) = Iat(t) + TTL(t[2]) /\ TTL(t[2]) <= RefreshTTL
    BY TokenTimes DEF SessionsIInv
  <2>2. cutoff.at \in Nat /\ cutoff.expires \in Nat /\ now \in Nat /\ RefreshTTL \in Nat
    BY TTLAssumption DEF SessionsIInv, SessionsTypes
  <2>3. now < 2 * Exp(t) /\ cutoff.expires <= now
    BY <2>1, <2>2 DEF Authenticates, Decodes, IsRevoked
  <2>4. 2 * (cutoff.at + RefreshTTL) <= cutoff.expires
    BY <2>1, <2>2 DEF SessionsIInv, CutoffLasts
  <2> QED
    BY <2>1, <2>2, <2>3, <2>4
<1> QED
  BY <1>1, <1>2, <1>3 DEF SessionsIInv, SessionsInv


\* A pair more, and every token as it was.
LEMMA PairsGrow ==
  ASSUME SessionsIInv, IssuePair, UNCHANGED <<now, denied, cutoff, retired, raced>>
  PROVE  /\ pairs' \in Seq(0..MaxTime) /\ Len(pairs') <= MaxPairs
         /\ DOMAIN pairs \subseteq DOMAIN pairs' /\ DOMAIN pairs' \subseteq 1..MaxPairs
         /\ DOMAIN denied' \subseteq Tokens' /\ retired' \subseteq Tokens'
         /\ EntriesLast' /\ RetiredIsDenied'
<1>1. /\ now \in 0..MaxTime /\ pairs \in Seq(0..MaxTime) /\ Len(pairs) < MaxPairs
      /\ pairs' = Append(pairs, Second(now)) /\ MaxPairs \in Nat
      /\ Second(now) \in 0..MaxTime
  <2>1. /\ now \in 0..MaxTime /\ pairs \in Seq(0..MaxTime) /\ Len(pairs) < MaxPairs
        /\ pairs' = Append(pairs, Second(now)) /\ MaxPairs \in Nat
    BY TTLAssumption DEF IssuePair, SessionsIInv, SessionsTypes
  <2>2. now \div 2 \in 0..MaxTime
    BY <2>1, TTLAssumption
  <2> QED
    BY <2>1, <2>2 DEF Second
<1>2. /\ pairs' \in Seq(0..MaxTime) /\ Len(pairs') = Len(pairs) + 1
      /\ DOMAIN pairs = 1..Len(pairs) /\ DOMAIN pairs' = 1..Len(pairs) + 1
      /\ \A p \in DOMAIN pairs : pairs'[p] = pairs[p]
  BY <1>1
<1>3. Len(pairs) \in Nat
  BY <1>1
<1>4. /\ Len(pairs') <= MaxPairs /\ DOMAIN pairs \subseteq DOMAIN pairs'
      /\ DOMAIN pairs' \subseteq 1..MaxPairs
  BY <1>1, <1>2, <1>3
<1>5. \A t \in Tokens : t \in Tokens' /\ Exp(t)' = Exp(t)
  BY <1>2, <1>4 DEF Tokens, Exp, Iat
<1>6. DOMAIN denied \subseteq Tokens /\ retired \subseteq Tokens
  BY DEF SessionsIInv, SessionsTypes
<1>7. EntriesLast'
  <2> SUFFICES ASSUME NEW t \in DOMAIN denied PROVE denied[t] >= 2 * Exp(t)' - 1
    BY DEF EntriesLast
  <2>1. Exp(t)' = Exp(t) /\ denied[t] >= 2 * Exp(t) - 1
    BY <1>5, <1>6 DEF SessionsIInv, EntriesLast
  <2> QED
    BY <2>1
<1>8. RetiredIsDenied'
  <2> SUFFICES ASSUME NEW t \in retired
               PROVE  t \in DOMAIN denied \/ 2 * Exp(t)' - now <= 1
    BY DEF RetiredIsDenied
  <2>1. Exp(t)' = Exp(t) /\ (t \in DOMAIN denied \/ 2 * Exp(t) - now <= 1)
    BY <1>5, <1>6 DEF SessionsIInv, RetiredIsDenied
  <2> QED
    BY <2>1
<1> QED
  BY <1>2, <1>4, <1>5, <1>6, <1>7, <1>8

\* Entries of whole seconds.
LEMMA TokensRevoked ==
  ASSUME SessionsIInv, NEW ts \in SUBSET Tokens, Revoke(ts), UNCHANGED <<now, pairs>>
  PROVE  /\ DOMAIN denied' \subseteq Tokens /\ \A t \in DOMAIN denied' : denied'[t] \in Nat
         /\ retired' = retired \cup ts /\ retired' \subseteq Tokens
         /\ EntriesLast' /\ RetiredIsDenied'
<1> DEFINE Left(t) == (2 * Exp(t) - now) \div 2
<1> DEFINE denies == {t \in ts : Left(t) > 0}
<1>1. /\ denied' = [t \in DOMAIN denied \cup denies |->
                       IF t \in denies THEN now + 2 * Left(t) ELSE denied[t]]
      /\ retired' = retired \cup ts
  BY Zenon DEF Revoke
<1>2. /\ DOMAIN denied \subseteq Tokens /\ \A t \in DOMAIN denied : denied[t] \in Nat
      /\ retired \subseteq Tokens /\ now \in Nat
  BY DEF SessionsIInv, SessionsTypes
<1>3. \A t \in Tokens : /\ Exp(t) \in Nat /\ Left(t) \in Int
                        /\ 2 * Left(t) \in {2 * Exp(t) - now, 2 * Exp(t) - now - 1}
  <2> TAKE t \in Tokens
  <2>1. Exp(t) \in Nat
    BY TokenTimes DEF SessionsIInv
  <2>2. 2 * Exp(t) - now \in Int
    BY <1>2, <2>1
  <2> QED
    BY <2>1, <2>2, WholeSeconds
<1> HIDE DEF Left
<1>4. /\ DOMAIN denied' = DOMAIN denied \cup denies
      /\ \A t \in DOMAIN denied' :
            denied'[t] = IF t \in denies THEN now + 2 * Left(t) ELSE denied[t]
  BY <1>1
<1>5. \A t \in DOMAIN denied' : denied'[t] \in Nat
  <2> TAKE t \in DOMAIN denied'
  <2>1. CASE t \in denies
    <3>1. Left(t) \in Int /\ Left(t) > 0
      BY <1>3, <2>1
    <3> QED
      BY <1>2, <1>4, <2>1, <3>1
  <2>2. CASE t \notin denies
    BY <1>2, <1>4, <2>2
  <2> QED
    BY <2>1, <2>2
<1>6. EntriesLast'
  <2> SUFFICES ASSUME NEW t \in DOMAIN denied' PROVE denied'[t] >= 2 * Exp(t) - 1
    BY DEF EntriesLast, Exp, Iat
  <2>1. CASE t \in denies
    <3>1. /\ Exp(t) \in Nat /\ Left(t) \in Int
          /\ 2 * Left(t) \in {2 * Exp(t) - now, 2 * Exp(t) - now - 1}
      BY <1>3, <2>1
    <3> QED
      BY <1>2, <1>4, <2>1, <3>1
  <2>2. CASE t \notin denies
    BY <1>4, <2>2 DEF SessionsIInv, EntriesLast
  <2> QED
    BY <2>1, <2>2
<1>7. RetiredIsDenied'
  <2> SUFFICES ASSUME NEW t \in retired' PROVE t \in DOMAIN denied' \/ 2 * Exp(t) - now <= 1
    BY DEF RetiredIsDenied, Exp, Iat
  <2>1. CASE t \in ts
    <3>1. /\ Exp(t) \in Nat /\ Left(t) \in Int
          /\ 2 * Left(t) \in {2 * Exp(t) - now, 2 * Exp(t) - now - 1}
      BY <1>3, <2>1
    <3>2. CASE Left(t) > 0
      BY <1>4, <2>1, <3>2
    <3>3. CASE ~(Left(t) > 0)
      BY <1>2, <3>1, <3>3
    <3> QED
      BY <3>2, <3>3
  <2>2. CASE t \notin ts
    BY <1>1, <1>4, <2>2 DEF SessionsIInv, RetiredIsDenied
  <2> QED
    BY <2>1, <2>2
<1> QED
  BY <1>1, <1>2, <1>4, <1>5, <1>6, <1>7

\* Redis drops an entry when it expires.
LEMMA TickKeeps ==
  ASSUME SessionsIInv, Tick
  PROVE  SessionsIInv'
<1>1. /\ now \in Nat /\ now < MaxTime /\ now' = now + 1
      /\ UNCHANGED <<pairs, cutoff, call, exchanged, retired, raced>>
  BY DEF Tick, history, SessionsIInv, SessionsTypes
<1>2. denied' = [t \in {u \in DOMAIN denied : denied[u] > now'} |-> denied[t]]
  BY DEF Tick
<1>3. /\ DOMAIN denied' = {u \in DOMAIN denied : denied[u] > now'}
      /\ \A t \in DOMAIN denied' : denied'[t] = denied[t]
  BY <1>2
<1>4. Tokens' = Tokens /\ \A t : Exp(t)' = Exp(t)
  BY <1>1 DEF Tokens, Exp, Iat
<1>5. SessionsTypes'
  <2>1. now' \in 0..MaxTime
    BY <1>1, TTLAssumption
  <2> QED
    BY <1>1, <1>3, <1>4, <2>1 DEF SessionsIInv, SessionsTypes
<1>6. EntriesLast'
  BY <1>3, <1>4 DEF SessionsIInv, EntriesLast
<1>7. RetiredIsDenied'
  <2> SUFFICES ASSUME NEW t \in retired
               PROVE  t \in DOMAIN denied' \/ 2 * Exp(t) - now' <= 1
    BY <1>1, <1>4 DEF RetiredIsDenied
  <2>1. t \in Tokens /\ Exp(t) \in Nat
    <3>1. t \in Tokens
      BY DEF SessionsIInv, SessionsTypes
    <3> QED
      BY <3>1, TokenTimes DEF SessionsIInv
  <2>2. CASE t \in DOMAIN denied
    <3>1. denied[t] \in Nat /\ denied[t] >= 2 * Exp(t) - 1
      BY <2>2 DEF SessionsIInv, SessionsTypes, EntriesLast
    <3>2. CASE denied[t] > now'
      BY <1>3, <2>2, <3>2
    <3>3. CASE ~(denied[t] > now')
      BY <1>1, <2>1, <3>1, <3>3
    <3> QED
      BY <3>2, <3>3
  <2>3. CASE t \notin DOMAIN denied
    <3>1. 2 * Exp(t) - now <= 1
      BY <2>3 DEF SessionsIInv, RetiredIsDenied
    <3> QED
      BY <1>1, <2>1, <3>1
  <2> QED
    BY <2>2, <2>3
<1> QED
  BY <1>1, <1>5, <1>6, <1>7
     DEF SessionsIInv, CutoffLasts, RetiredFirst, SecondIsRaced, Refreshes,
         ExchangedOnceUnlessRaced


\* The exchanges in flight are what RetiredFirst and SecondIsRaced are about: they
\* survive a step in which nobody begins one and nothing retired is forgotten.
LEMMA CallsRest ==
  ASSUME SessionsIInv, UNCHANGED <<call, exchanged, raced>>, retired \subseteq retired',
         DOMAIN pairs \subseteq DOMAIN pairs',
         DOMAIN pairs' \subseteq 1..MaxPairs
  PROVE  RetiredFirst' /\ SecondIsRaced' /\ ExchangedOnceUnlessRaced'
<1>1. \A c \in Clients : call[c].pc # "idle" => call[c].pair \in DOMAIN pairs
  BY DEF SessionsIInv, SessionsTypes
<1>2. RetiredFirst'
  BY <1>1 DEF SessionsIInv, RetiredFirst
<1>3. SecondIsRaced'
  BY <1>1 DEF SessionsIInv, SecondIsRaced, Refreshes
<1>4. ExchangedOnceUnlessRaced'
  <2>1. \A p \in DOMAIN pairs' \ DOMAIN pairs : ~(exchanged[p] > 0)
    <3> SUFFICES ASSUME NEW p \in DOMAIN pairs' \ DOMAIN pairs, exchanged[p] > 0
                 PROVE  FALSE
      OBVIOUS
    <3>1. <<p, "refresh">> \in retired /\ retired \subseteq (DOMAIN pairs) \X Types
      BY DEF SessionsIInv, SessionsTypes, RetiredFirst, Tokens
    <3> QED
      BY <3>1
  <2>2. \A p \in DOMAIN pairs' \ DOMAIN pairs : exchanged[p] \in Nat
    BY DEF SessionsIInv, SessionsTypes
  <2>3. \A p \in DOMAIN pairs' \ DOMAIN pairs : ~(exchanged[p] > 1)
    BY <2>1, <2>2
  <2> QED
    BY <2>3 DEF SessionsIInv, ExchangedOnceUnlessRaced
<1> QED
  BY <1>2, <1>3, <1>4

\* A client goes on with an exchange, or leaves it.
LEMMA CallMoves ==
  ASSUME SessionsTypes, NEW c \in Clients, NEW to \in Calls, call' = [call EXCEPT ![c] = to],
         DOMAIN pairs \subseteq DOMAIN pairs',
         to.pc # "idle" => to.pair \in DOMAIN pairs'
  PROVE  /\ call' \in [Clients -> Calls]
         /\ \A d \in Clients : call'[d].pc # "idle" => call'[d].pair \in DOMAIN pairs'
         /\ call'[c] = to /\ \A d \in Clients \ {c} : call'[d] = call[d]
  BY DEF SessionsTypes


LEMMA AbortKeeps ==
  ASSUME SessionsIInv, NEW c \in Clients, Abort(c)
  PROVE  SessionsIInv'
<1>1. /\ call' = [call EXCEPT ![c] = Idle]
      /\ UNCHANGED <<now, pairs, denied, cutoff, exchanged, retired, raced>>
  BY DEF Abort, Ends, redis, history
<1>2. Idle \in Calls /\ Idle.pc = "idle"
  BY DEF Idle, Calls
<1>3. /\ call' \in [Clients -> Calls]
      /\ \A d \in Clients : call'[d].pc # "idle" => call'[d].pair \in DOMAIN pairs'
      /\ call'[c] = Idle /\ \A d \in Clients \ {c} : call'[d] = call[d]
  BY <1>1, <1>2, CallMoves DEF SessionsIInv
<1>4. SessionsTypes'
  BY <1>1, <1>3 DEF SessionsIInv, SessionsTypes, Tokens
<1>5. RetiredFirst' /\ SecondIsRaced'
  BY <1>1, <1>2, <1>3 DEF SessionsIInv, RetiredFirst, SecondIsRaced, Refreshes
<1> QED
  BY <1>1, <1>4, <1>5
     DEF SessionsIInv, EntriesLast, RetiredIsDenied, CutoffLasts, ExchangedOnceUnlessRaced,
         Exp, Iat

LEMMA RefreshCheckKeeps ==
  ASSUME SessionsIInv, NEW c \in Clients, NEW p \in DOMAIN pairs, RefreshCheck(c, p)
  PROVE  SessionsIInv'
<1> DEFINE to == [pc |-> "authenticated", pair |-> p]
<1>1. /\ call' = [call EXCEPT ![c] = to] /\ call[c] = Idle
      /\ raced' = IF \/ <<p, "refresh">> \in retired
                     \/ \E d \in Clients : call[d] = to
                  THEN raced \cup {p} ELSE raced
      /\ UNCHANGED <<now, pairs, denied, cutoff, exchanged, retired>>
  BY DEF RefreshCheck, Begins, redis
<1>2. DOMAIN pairs \subseteq 1..MaxPairs
  BY PairsBound DEF SessionsIInv
<1>3. to \in Calls /\ to.pc = "authenticated" /\ to.pair = p
  BY <1>2 DEF Calls
<1>4. /\ call' \in [Clients -> Calls]
      /\ \A d \in Clients : call'[d].pc # "idle" => call'[d].pair \in DOMAIN pairs'
      /\ call'[c] = to /\ \A d \in Clients \ {c} : call'[d] = call[d]
  BY <1>1, <1>3, CallMoves DEF SessionsIInv
<1>5. SessionsTypes'
  BY <1>1, <1>4 DEF SessionsIInv, SessionsTypes, Tokens
<1>6. RetiredFirst'
  BY <1>1, <1>3, <1>4 DEF SessionsIInv, RetiredFirst
<1>7. p \notin raced' => /\ exchanged[p] = 0
                        /\ \A d \in Clients : ~Refreshes(d, p)
  <2> SUFFICES ASSUME p \notin raced'
               PROVE  exchanged[p] = 0 /\ \A d \in Clients : ~Refreshes(d, p)
    OBVIOUS
  <2>1. <<p, "refresh">> \notin retired /\ \A d \in Clients : call[d] # to
    BY <1>1
  <2>2. exchanged[p] = 0
    BY <1>2, <2>1 DEF SessionsIInv, SessionsTypes, RetiredFirst
  <2>3. ASSUME NEW d \in Clients, Refreshes(d, p) PROVE FALSE
    <3>1. call[d] \in Calls /\ call[d].pc # "idle" /\ call[d].pair = p
      BY <2>3 DEF SessionsIInv, SessionsTypes, Refreshes
    <3>2. call[d].pc # "rotating"
      BY <2>1, <3>1 DEF SessionsIInv, RetiredFirst
    <3>3. call[d] = to
      BY <3>1, <3>2 DEF Calls
    <3> QED
      BY <2>1, <3>3
  <2> QED
    BY <2>2, <2>3
<1>8. SecondIsRaced'
  <2> SUFFICES ASSUME NEW o \in DOMAIN pairs \ raced', NEW d \in Clients, Refreshes(d, o)'
               PROVE  exchanged[o] = 0 /\ \A b \in Clients \ {d} : ~Refreshes(b, o)'
    BY <1>1 DEF SecondIsRaced
  <2>1. CASE o = p
    BY <1>1, <1>4, <1>7, <2>1 DEF Refreshes
  <2>2. CASE o # p
    <3>1. o \notin raced
      BY <1>1
    <3>2. \A b \in Clients : Refreshes(b, o)' => Refreshes(b, o)
      BY <1>3, <1>4, <2>2 DEF Refreshes
    <3> QED
      BY <3>1, <3>2 DEF SessionsIInv, SecondIsRaced
  <2> QED
    BY <2>1, <2>2
<1>9. ExchangedOnceUnlessRaced'
  BY <1>1 DEF SessionsIInv, ExchangedOnceUnlessRaced
<1> QED
  BY <1>1, <1>5, <1>6, <1>8, <1>9
     DEF SessionsIInv, EntriesLast, RetiredIsDenied, CutoffLasts, Exp, Iat

LEMMA RefreshRevokeKeeps ==
  ASSUME SessionsIInv, NEW c \in Clients, RefreshRevoke(c)
  PROVE  SessionsIInv'
<1> DEFINE p == call[c].pair
<1> DEFINE to == [call[c] EXCEPT !.pc = "rotating"]
<1>1. /\ call[c].pc = "authenticated" /\ Revoke({<<p, "refresh">>})
      /\ call' = [call EXCEPT ![c] = to]
      /\ UNCHANGED <<now, pairs, cutoff, exchanged, raced>>
  BY DEF RefreshRevoke
<1>2. call[c] \in Calls /\ p \in DOMAIN pairs
  BY <1>1 DEF SessionsIInv, SessionsTypes
<1>3. to \in Calls /\ to.pc = "rotating" /\ to.pair = p
  BY <1>1, <1>2 DEF Calls
<1>4. {<<p, "refresh">>} \in SUBSET Tokens
  BY <1>2 DEF Tokens, Types
<1>5. /\ DOMAIN denied' \subseteq Tokens /\ \A t \in DOMAIN denied' : denied'[t] \in Nat
      /\ retired' = retired \cup {<<p, "refresh">>} /\ retired' \subseteq Tokens
      /\ EntriesLast' /\ RetiredIsDenied'
  BY <1>1, <1>4, TokensRevoked
<1> HIDE DEF to
<1>6. /\ call' \in [Clients -> Calls]
      /\ \A d \in Clients : call'[d].pc # "idle" => call'[d].pair \in DOMAIN pairs'
      /\ call'[c] = to /\ \A d \in Clients \ {c} : call'[d] = call[d]
  BY <1>1, <1>2, <1>3, CallMoves DEF SessionsIInv
<1>7. SessionsTypes'
  BY <1>1, <1>5, <1>6 DEF SessionsIInv, SessionsTypes, Tokens
<1>8. RetiredFirst'
  BY <1>1, <1>3, <1>5, <1>6 DEF SessionsIInv, RetiredFirst
<1>9. SecondIsRaced'
  <2>1. \A d \in Clients : \A o : Refreshes(d, o)' <=> Refreshes(d, o)
    BY <1>1, <1>3, <1>6 DEF Refreshes
  <2> QED
    BY <1>1, <2>1 DEF SessionsIInv, SecondIsRaced
<1> QED
  BY <1>1, <1>5, <1>7, <1>8, <1>9 DEF SessionsIInv, CutoffLasts, ExchangedOnceUnlessRaced

LEMMA RefreshCommitKeeps ==
  ASSUME SessionsIInv, NEW c \in Clients, RefreshCommit(c)
  PROVE  SessionsIInv'
<1> DEFINE p == call[c].pair
<1>1. /\ call[c].pc = "rotating" /\ IssuePair
      /\ exchanged' = [exchanged EXCEPT ![p] = @ + 1]
      /\ call' = [call EXCEPT ![c] = Idle]
      /\ UNCHANGED <<now, denied, cutoff, retired, raced>>
  BY DEF RefreshCommit, Ends, redis
<1>2. Idle \in Calls /\ Idle.pc = "idle"
  BY DEF Idle, Calls
<1>3. /\ p \in DOMAIN pairs /\ <<p, "refresh">> \in retired /\ Refreshes(c, p)
  BY <1>1 DEF SessionsIInv, SessionsTypes, RetiredFirst, Refreshes
<1>4. /\ pairs' \in Seq(0..MaxTime) /\ Len(pairs') <= MaxPairs
      /\ DOMAIN pairs \subseteq DOMAIN pairs' /\ DOMAIN pairs' \subseteq 1..MaxPairs
      /\ DOMAIN denied' \subseteq Tokens' /\ retired' \subseteq Tokens'
      /\ EntriesLast' /\ RetiredIsDenied'
  BY <1>1, PairsGrow
<1>5. /\ call' \in [Clients -> Calls]
      /\ \A d \in Clients : call'[d].pc # "idle" => call'[d].pair \in DOMAIN pairs'
      /\ call'[c] = Idle /\ \A d \in Clients \ {c} : call'[d] = call[d]
  BY <1>1, <1>2, <1>4, CallMoves DEF SessionsIInv
<1>6. /\ exchanged \in [1..MaxPairs -> Nat] /\ p \in 1..MaxPairs
      /\ exchanged' \in [1..MaxPairs -> Nat] /\ exchanged'[p] = exchanged[p] + 1
      /\ \A o \in (1..MaxPairs) \ {p} : exchanged'[o] = exchanged[o]
  <2>1. exchanged \in [1..MaxPairs -> Nat] /\ p \in 1..MaxPairs
    BY <1>3, <1>4 DEF SessionsIInv, SessionsTypes
  <2> QED
    BY <1>1, <2>1
<1>7. SessionsTypes'
  <2>1. raced \subseteq DOMAIN pairs'
    BY <1>4 DEF SessionsIInv, SessionsTypes
  <2> QED
    BY <1>1, <1>4, <1>5, <1>6, <2>1 DEF SessionsIInv, SessionsTypes
<1>8. RetiredFirst'
  BY <1>1, <1>2, <1>3, <1>5, <1>6 DEF SessionsIInv, RetiredFirst
<1>9. \A d \in Clients, o \in DOMAIN pairs' : Refreshes(d, o)' =>
          d # c /\ Refreshes(d, o) /\ o \in DOMAIN pairs
  BY <1>2, <1>5 DEF SessionsIInv, SessionsTypes, Refreshes
<1>10. SecondIsRaced'
  <2> SUFFICES ASSUME NEW o \in DOMAIN pairs' \ raced, NEW d \in Clients, Refreshes(d, o)'
               PROVE  exchanged'[o] = 0 /\ \A b \in Clients \ {d} : ~Refreshes(b, o)'
    BY <1>1 DEF SecondIsRaced
  <2>1. d # c /\ Refreshes(d, o) /\ o \in DOMAIN pairs
    BY <1>9
  <2>2. exchanged[o] = 0 /\ \A b \in Clients \ {d} : ~Refreshes(b, o)
    BY <2>1 DEF SessionsIInv, SecondIsRaced
  <2>3. o # p
    BY <1>3, <2>1, <2>2
  <2> QED
    BY <1>4, <1>6, <1>9, <2>2, <2>3
<1>11. ExchangedOnceUnlessRaced'
  <2> SUFFICES ASSUME NEW o \in DOMAIN pairs', exchanged'[o] > 1, o \notin raced
               PROVE  FALSE
    BY <1>1 DEF ExchangedOnceUnlessRaced
  <2>1. CASE o = p
    <3>1. exchanged[p] = 0
      BY <1>3, <2>1 DEF SessionsIInv, SecondIsRaced
    <3> QED
      BY <1>6, <2>1, <3>1
  <2>2. CASE o # p
    <3>1. exchanged[o] \in Nat /\ exchanged[o] > 1
      BY <1>4, <1>6, <2>2
    <3>2. <<o, "refresh">> \in retired /\ retired \subseteq (DOMAIN pairs) \X Types
      BY <1>4, <3>1 DEF SessionsIInv, SessionsTypes, RetiredFirst, Tokens
    <3>3. o \in DOMAIN pairs
      BY <3>2
    <3> QED
      BY <3>1, <3>3 DEF SessionsIInv, ExchangedOnceUnlessRaced
  <2> QED
    BY <2>1, <2>2
<1> QED
  BY <1>1, <1>4, <1>7, <1>8, <1>10, <1>11 DEF SessionsIInv, CutoffLasts

LEMMA SwitchKeeps ==
  ASSUME SessionsIInv, NEW p \in DOMAIN pairs, SwitchOrganization(p)
  PROVE  SessionsIInv'
<1>1. IssuePair /\ UNCHANGED <<now, denied, cutoff, call, exchanged, retired, raced>>
  BY DEF SwitchOrganization, redis, history
<1>2. /\ pairs' \in Seq(0..MaxTime) /\ Len(pairs') <= MaxPairs
      /\ DOMAIN pairs \subseteq DOMAIN pairs' /\ DOMAIN pairs' \subseteq 1..MaxPairs
      /\ DOMAIN denied' \subseteq Tokens' /\ retired' \subseteq Tokens'
      /\ EntriesLast' /\ RetiredIsDenied'
  BY <1>1, PairsGrow
<1>3. RetiredFirst' /\ SecondIsRaced' /\ ExchangedOnceUnlessRaced'
  BY <1>1, <1>2, CallsRest
<1>4. SessionsTypes'
  <2>1. raced \subseteq DOMAIN pairs'
    BY <1>2 DEF SessionsIInv, SessionsTypes
  <2>2. \A c \in Clients : call[c].pc # "idle" => call[c].pair \in DOMAIN pairs'
    BY <1>2 DEF SessionsIInv, SessionsTypes
  <2> QED
    BY <1>1, <1>2, <2>1, <2>2 DEF SessionsIInv, SessionsTypes
<1> QED
  BY <1>1, <1>2, <1>3, <1>4 DEF SessionsIInv, CutoffLasts

LEMMA LogoutKeeps ==
  ASSUME SessionsIInv, NEW p \in DOMAIN pairs, NEW ts \in {{}, {<<p, "refresh">>}},
         Logout(p, ts)
  PROVE  SessionsIInv'
<1> DEFINE ended == {<<p, "access">>} \cup {t \in ts : Decodes(t, "refresh")}
<1>1. Revoke(ended) /\ UNCHANGED <<now, pairs, cutoff, call, exchanged, raced>>
  BY DEF Logout
<1>2. ended \in SUBSET Tokens
  BY DEF Tokens, Types
<1> HIDE DEF ended
<1>3. /\ DOMAIN denied' \subseteq Tokens /\ \A t \in DOMAIN denied' : denied'[t] \in Nat
      /\ retired' = retired \cup ended /\ retired' \subseteq Tokens
      /\ EntriesLast' /\ RetiredIsDenied'
  BY <1>1, <1>2, TokensRevoked
<1>4. DOMAIN pairs' \subseteq 1..MaxPairs
  BY <1>1, PairsBound DEF SessionsIInv
<1>5. RetiredFirst' /\ SecondIsRaced' /\ ExchangedOnceUnlessRaced'
  BY <1>1, <1>3, <1>4, CallsRest
<1>6. SessionsTypes'
  BY <1>1, <1>3 DEF SessionsIInv, SessionsTypes, Tokens
<1> QED
  BY <1>1, <1>3, <1>5, <1>6 DEF SessionsIInv, CutoffLasts

LEMMA RevokeAllKeeps ==
  ASSUME SessionsIInv, RevokeAllSessions
  PROVE  SessionsIInv'
<1>1. /\ cutoff' = [at |-> Second(now), expires |-> now + 2 * RefreshTTL]
      /\ UNCHANGED <<now, pairs, denied, call, exchanged, retired, raced>>
  BY DEF RevokeAllSessions, history
<1>2. now \in Nat /\ RefreshTTL \in Nat
  BY TTLAssumption DEF SessionsIInv, SessionsTypes
<1>3. Second(now) \in Nat /\ 2 * Second(now) <= now
  <2>1. now \div 2 \in Nat /\ 2 * (now \div 2) <= now
    BY <1>2
  <2> QED
    BY <2>1 DEF Second
<1> DEFINE at == Second(now)
<1> HIDE DEF at
<1>4. /\ at \in Nat /\ 2 * at <= now
      /\ cutoff' = [at |-> at, expires |-> now + 2 * RefreshTTL]
  BY <1>1, <1>3 DEF at
<1>5. cutoff' \in [at : Nat, expires : Nat] /\ CutoffLasts'
  BY <1>2, <1>4 DEF CutoffLasts
<1>6. SessionsTypes'
  BY <1>1, <1>5 DEF SessionsIInv, SessionsTypes, Tokens
<1> QED
  BY <1>1, <1>5, <1>6
     DEF SessionsIInv, EntriesLast, RetiredIsDenied, RetiredFirst, SecondIsRaced, Refreshes,
         ExchangedOnceUnlessRaced, Exp, Iat

LEMMA SessionsKept == SessionsIInv /\ [SessionsNext]_sessionVars => SessionsIInv'
<1> SUFFICES ASSUME SessionsIInv, [SessionsNext]_sessionVars PROVE SessionsIInv'
  OBVIOUS
<1>1. CASE UNCHANGED sessionVars
  BY <1>1 DEF sessionVars, redis, history, SessionsIInv, SessionsTypes, Tokens, EntriesLast,
              RetiredIsDenied, CutoffLasts, RetiredFirst, SecondIsRaced, Refreshes,
              ExchangedOnceUnlessRaced, Exp, Iat
<1> QED
  BY <1>1, TickKeeps, AbortKeeps, RefreshCheckKeeps, RefreshRevokeKeeps, RefreshCommitKeeps,
     SwitchKeeps, LogoutKeeps, RevokeAllKeeps DEF SessionsNext

(* What was ended early stays ended, for any number of clients, any         *)
(* lifetimes of the tokens and any moments of a password change.            *)
THEOREM SessionsInvHolds == SessionsSpec => []SessionsInv
<1>1. SessionsSpec => []SessionsIInv
  BY SessionsStart, SessionsKept, PTL DEF SessionsSpec
<1> QED
  BY <1>1, SessionsShow, PTL

-----------------------------------------------------------------------------
(* Passwords.  Whoever verifies a word while the lock is on was in flight  *)
(* when it was set: the failures counted and those still in flight         *)
(* together stay within what the lock periods so far admit.  A link that   *)
(* nobody overlapped on is unused as long as somebody holds it.            *)

\* Half seconds from a lock to the next guess.
Period == 2 * LockSeconds - 1
Verifying == {a \in Attempts : try[a].pc = "verifying"}
InFlightNow == Cardinality(Verifying)

\* What the attempts in flight may fail until t, after the first lock.
Admitted(t) == Cardinality(Attempts) * (1 + t \div Period)

OnLink(a, l) == try[a].pc \in {"spending", "spent", "revoked"} /\ try[a].link = l

PasswordsTypes ==
    /\ clock \in 0..MaxClock
    /\ account \in Rows
    /\ links \in Seq([issued : 0..MaxClock, used : Nat]) /\ Len(links) <= MaxLinks
    /\ try \in [Attempts -> Tries]
    /\ \A a \in Attempts : try[a].pc \in {"spending", "spent", "revoked"} =>
                           try[a].link \in DOMAIN links
    /\ overlapped \subseteq DOMAIN links
    /\ lifted \in BOOLEAN

\* The lock that the last counted failure set, and what it admits.
GuessesCounted ==
    ~lifted /\ account.failed >= Threshold =>
        \E set \in 0..clock :
            /\ account.locked = set + 2 * LockSeconds
            /\ account.failed <= Threshold - 1 + Admitted(set)
            /\ clock < set + Period =>
                 account.failed + InFlightNow <= Threshold - 1 + Admitted(set)

UnusedUnlessOverlapped ==
    \A l \in DOMAIN links \ overlapped : \A a \in Attempts : OnLink(a, l) =>
        /\ links[l].used = 0
        /\ \A b \in Attempts \ {a} : ~OnLink(b, l)

PasswordsIInv ==
    PasswordsTypes /\ GuessesCounted /\ UnusedUnlessOverlapped /\ SpentOnceUnlessOverlapped

LEMMA Remainders ==
  ASSUME NEW n \in Nat \ {0}, NEW t \in Nat
  PROVE  t \div n \in Nat /\ n * (t \div n) <= t /\ t < n * (t \div n) + n
<1> DEFINE q == t \div n
<1> DEFINE r == t % n
<1>1. q \in Nat /\ t = n * q + r /\ r \in 0..(n - 1)
  OBVIOUS
<1> HIDE DEF q, r
<1>2. n * q \in Int
  BY <1>1
<1>3. n * q <= t /\ t < n * q + n
  BY <1>1, <1>2
<1> QED
  BY <1>1, <1>3 DEF q

LEMMA Multiples ==
  ASSUME NEW n \in Nat, NEW x \in Nat, NEW y \in Nat, x < y
  PROVE  n * x \in Nat /\ n * y \in Nat /\ n * x + n <= n * y
<1>1. n * (x + 1) = n * x + n
  OBVIOUS
<1>2. y - (x + 1) \in Nat /\ n * (y - (x + 1)) \in Nat
  OBVIOUS
<1>3. n * y = n * (x + 1) + n * (y - (x + 1))
  OBVIOUS
<1> QED
  BY <1>1, <1>2, <1>3

LEMMA PasswordNumbers ==
  /\ Period \in Nat \ {0} /\ Period = 2 * LockSeconds - 1 /\ LockSeconds \in Nat \ {0}
  /\ Threshold \in Nat \ {0} /\ Cardinality(Attempts) \in Nat
<1>1. LockSeconds \in Nat \ {0} /\ MaxAttempts \in Nat
  BY LockAssumption
<1>2. Cardinality(Attempts) \in Nat
  BY LockAssumption, FS_CardinalityType
<1>3. 2 * LockSeconds - 1 \in Nat \ {0}
  BY <1>1
<1> QED
  BY <1>1, <1>2, <1>3 DEF Period, Threshold

\* A later lock admits no less, and one after a whole period a round more.
LEMMA AdmittedGrows ==
  ASSUME NEW s \in Nat, NEW t \in Nat, s <= t
  PROVE  /\ Admitted(s) \in Nat /\ Admitted(t) \in Nat /\ Admitted(s) <= Admitted(t)
         /\ Cardinality(Attempts) <= Admitted(s)
         /\ s + Period <= t => Admitted(s) + Cardinality(Attempts) <= Admitted(t)
<1> DEFINE n == Cardinality(Attempts)
<1> DEFINE x == s \div Period
<1> DEFINE y == t \div Period
<1>1. n \in Nat /\ Period \in Nat \ {0}
  BY PasswordNumbers
<1>2. /\ x \in Nat /\ Period * x <= s /\ s < Period * x + Period
      /\ y \in Nat /\ Period * y <= t /\ t < Period * y + Period
  BY <1>1, Remainders
<1>3. Admitted(s) = n * (1 + x) /\ Admitted(t) = n * (1 + y)
  BY DEF Admitted
<1> HIDE DEF n, x, y
<1>4. x <= y
  <2> SUFFICES ASSUME y < x PROVE FALSE
    BY <1>2
  <2>1. Period * y \in Nat /\ Period * x \in Nat /\ Period * y + Period <= Period * x
    BY <1>1, <1>2, Multiples
  <2> QED
    BY <1>1, <1>2, <2>1
<1>5. s + Period <= t => x < y
  <2> SUFFICES ASSUME s + Period <= t, x = y PROVE FALSE
    BY <1>2, <1>4
  <2>1. Period * x \in Int
    BY <1>1, <1>2
  <2> QED
    BY <1>1, <1>2, <2>1
<1>6. n * 0 = 0 /\ n * (1 + x) \in Nat /\ n * 0 + n <= n * (1 + x)
  BY <1>1, <1>2, Multiples
<1>7. x < y => n * (1 + y) \in Nat /\ n * (1 + x) + n <= n * (1 + y)
  BY <1>1, <1>2, Multiples
<1> QED
  BY <1>1, <1>2, <1>3, <1>4, <1>5, <1>6, <1>7 DEF n

\* The attempts that verify are finitely many, and no more than all.
LEMMA VerifyingCounts ==
  /\ IsFiniteSet(Verifying) /\ InFlightNow \in Nat /\ InFlightNow <= Cardinality(Attempts)
  /\ \A a \in Verifying : /\ Cardinality(Verifying \ {a}) = InFlightNow - 1
                          /\ Cardinality(Verifying \ {a}) \in Nat
  /\ \A S \in SUBSET Verifying : Cardinality(S) \in Nat /\ Cardinality(S) <= InFlightNow
<1>1. Verifying \subseteq Attempts
  BY DEF Verifying
<1>2. IsFiniteSet(Verifying) /\ Cardinality(Verifying) <= Cardinality(Attempts)
  BY <1>1, LockAssumption, FS_Subset
<1>3. InFlightNow \in Nat
  BY <1>2, FS_CardinalityType DEF InFlightNow
<1>4. \A a \in Verifying : Cardinality(Verifying \ {a}) = InFlightNow - 1
  BY <1>2, FS_RemoveElement DEF InFlightNow
<1>5. \A S \in SUBSET Verifying : Cardinality(S) \in Nat /\ Cardinality(S) <= InFlightNow
  BY <1>2, FS_Subset, FS_CardinalityType DEF InFlightNow
<1> QED
  BY <1>2, <1>3, <1>4, <1>5 DEF InFlightNow

LEMMA PasswordsStart == PasswordsInit => PasswordsIInv
<1> SUFFICES ASSUME PasswordsInit PROVE PasswordsIInv
  OBVIOUS
<1>1. account \in Rows /\ account.failed = 0
  BY DEF PasswordsInit, Rows
<1>2. NoTry \in Tries /\ NoTry.pc = "idle"
  BY DEF NoTry, Tries
<1>3. links = <<>> /\ DOMAIN links = {} /\ Len(links) = 0
  BY DEF PasswordsInit
<1>4. PasswordsTypes
  <2>1. try \in [Attempts -> Tries] /\ \A a \in Attempts : try[a].pc = "idle"
    BY <1>2 DEF PasswordsInit
  <2>2. links \in Seq([issued : 0..MaxClock, used : Nat]) /\ Len(links) <= MaxLinks
    BY <1>3, LockAssumption
  <2>3. clock \in 0..MaxClock /\ overlapped = {} /\ lifted = FALSE
    BY LockAssumption DEF PasswordsInit
  <2> QED
    BY <1>1, <1>3, <2>1, <2>2, <2>3 DEF PasswordsTypes
<1>5. GuessesCounted
  BY <1>1, PasswordNumbers DEF GuessesCounted
<1> QED
  BY <1>3, <1>4, <1>5
     DEF PasswordsIInv, UnusedUnlessOverlapped, SpentOnceUnlessOverlapped

LEMMA PasswordsShow == PasswordsIInv => PasswordsInv
<1> SUFFICES ASSUME PasswordsIInv PROVE PasswordsInv
  OBVIOUS
<1>1. PasswordsTypeOK
  BY DEF PasswordsIInv, PasswordsTypes, PasswordsTypeOK
<1>2. /\ clock \in Nat /\ account.failed \in Nat /\ Threshold \in Nat \ {0}
      /\ lifted \in BOOLEAN
  BY PasswordNumbers DEF PasswordsIInv, PasswordsTypes, Rows
<1>3. lifted \/ account.failed <= Threshold - 1 + Admitted(clock)
  <2>1. CASE account.failed < Threshold
    <3>1. Admitted(clock) \in Nat
      BY <1>2, AdmittedGrows
    <3> QED
      BY <1>2, <2>1, <3>1
  <2>2. CASE account.failed >= Threshold /\ ~lifted
    <3>1. PICK set \in 0..clock : account.failed <= Threshold - 1 + Admitted(set)
      BY <2>2 DEF PasswordsIInv, GuessesCounted
    <3>2. Admitted(set) \in Nat /\ Admitted(clock) \in Nat /\ Admitted(set) <= Admitted(clock)
      BY <1>2, AdmittedGrows
    <3> QED
      BY <1>2, <3>1, <3>2
  <2> QED
    BY <1>2, <2>1, <2>2
<1>4. GuessesBoundedUnlessLifted
  BY <1>3 DEF GuessesBoundedUnlessLifted, Admitted, Period
<1> QED
  BY <1>1, <1>4 DEF PasswordsIInv, PasswordsInv


\* A step that sets no lock and lets nobody in.
LEMMA GuessesRest ==
  ASSUME PasswordsIInv, UNCHANGED clock, Verifying' \subseteq Verifying,
         \/ account'.failed = account.failed /\ account'.locked = account.locked
         \/ lifted' \/ account'.failed < Threshold,
         account' \in Rows, lifted => lifted' \/ account'.failed < Threshold
  PROVE  GuessesCounted'
<1> SUFFICES ASSUME ~lifted', account'.failed >= Threshold
             PROVE  \E set \in 0..clock :
                      /\ account'.locked = set + 2 * LockSeconds
                      /\ account'.failed <= Threshold - 1 + Admitted(set)
                      /\ clock < set + Period =>
                           account'.failed + InFlightNow' <= Threshold - 1 + Admitted(set)
  BY DEF GuessesCounted, Admitted
<1>1. account'.failed \in Nat /\ Threshold \in Nat /\ clock \in Nat
  BY PasswordNumbers DEF Rows, PasswordsIInv, PasswordsTypes
<1>2. /\ account'.failed = account.failed /\ account'.locked = account.locked
      /\ ~lifted
  <2>1. ~(account'.failed < Threshold)
    BY <1>1
  <2> QED
    BY <2>1, Zenon
<1>3. PICK set \in 0..clock :
         /\ account.locked = set + 2 * LockSeconds
         /\ account.failed <= Threshold - 1 + Admitted(set)
         /\ clock < set + Period =>
              account.failed + InFlightNow <= Threshold - 1 + Admitted(set)
  BY <1>2 DEF PasswordsIInv, GuessesCounted
<1>4. InFlightNow' \in Nat /\ InFlightNow' <= InFlightNow /\ InFlightNow \in Nat
  BY VerifyingCounts DEF InFlightNow
<1>5. Admitted(set) \in Nat
  BY <1>1, AdmittedGrows
<1>6. clock < set + Period => account'.failed + InFlightNow' <= Threshold - 1 + Admitted(set)
  BY <1>1, <1>2, <1>3, <1>4, <1>5
<1> QED
  BY <1>2, <1>3, <1>6

\* A step of one attempt that stays in its place or leaves.
LEMMA TryMoves ==
  ASSUME PasswordsTypes, NEW a \in Attempts, NEW to \in Tries,
         try' = [try EXCEPT ![a] = to], links' = links,
         to.pc \in {"spending", "spent", "revoked"} => to.link \in DOMAIN links
  PROVE  /\ try' \in [Attempts -> Tries]
         /\ \A b \in Attempts : try'[b].pc \in {"spending", "spent", "revoked"} =>
                                try'[b].link \in DOMAIN links
         /\ try'[a] = to /\ \A b \in Attempts \ {a} : try'[b] = try[b]
         /\ to.pc # "verifying" => Verifying' = Verifying \ {a}
         /\ to.pc = "verifying" => Verifying' = Verifying \cup {a}
<1>1. try'[a] = to /\ \A b \in Attempts \ {a} : try'[b] = try[b]
  BY DEF PasswordsTypes
<1> QED
  BY <1>1 DEF PasswordsTypes, Verifying

LEMMA LinksRest ==
  ASSUME PasswordsIInv, UNCHANGED <<links, overlapped>>,
         \A b \in Attempts, l \in DOMAIN links : OnLink(b, l)' => OnLink(b, l)
  PROVE  UnusedUnlessOverlapped' /\ SpentOnceUnlessOverlapped'
  BY DEF PasswordsIInv, UnusedUnlessOverlapped, SpentOnceUnlessOverlapped

LEMMA TimePassesKeeps ==
  ASSUME PasswordsIInv, TimePasses
  PROVE  PasswordsIInv'
<1>1. /\ clock \in Nat /\ clock' = clock + 1 /\ clock' \in 0..MaxClock
      /\ UNCHANGED <<account, links, try, overlapped, lifted>>
  BY LockAssumption DEF TimePasses, PasswordsIInv, PasswordsTypes
<1>2. PasswordsTypes'
  BY <1>1 DEF PasswordsIInv, PasswordsTypes
<1>3. GuessesCounted'
  <2> SUFFICES ASSUME ~lifted, account.failed >= Threshold
               PROVE  \E set \in 0..clock' :
                        /\ account.locked = set + 2 * LockSeconds
                        /\ account.failed <= Threshold - 1 + Admitted(set)
                        /\ clock' < set + Period =>
                             account.failed + InFlightNow <= Threshold - 1 + Admitted(set)
    BY <1>1 DEF GuessesCounted, Admitted, InFlightNow, Verifying
  <2>1. PICK set \in 0..clock :
           /\ account.locked = set + 2 * LockSeconds
           /\ account.failed <= Threshold - 1 + Admitted(set)
           /\ clock < set + Period =>
                account.failed + InFlightNow <= Threshold - 1 + Admitted(set)
    BY DEF PasswordsIInv, GuessesCounted
  <2>2. set \in 0..clock' /\ (clock' < set + Period => clock < set + Period)
    BY <1>1, PasswordNumbers
  <2> QED
    BY <2>1, <2>2
<1>4. UnusedUnlessOverlapped' /\ SpentOnceUnlessOverlapped'
  BY <1>1, LinksRest DEF OnLink
<1> QED
  BY <1>2, <1>3, <1>4 DEF PasswordsIInv

LEMMA RollBackKeeps ==
  ASSUME PasswordsIInv, NEW a \in Attempts, RollBack(a)
  PROVE  PasswordsIInv'
<1>1. /\ try' = [try EXCEPT ![a] = NoTry]
      /\ UNCHANGED <<clock, account, links, overlapped, lifted>>
  BY DEF RollBack, Leaves
<1>2. NoTry \in Tries /\ NoTry.pc = "idle"
  BY DEF NoTry, Tries
<1>3. /\ try' \in [Attempts -> Tries]
      /\ \A b \in Attempts : try'[b].pc \in {"spending", "spent", "revoked"} =>
                             try'[b].link \in DOMAIN links
      /\ try'[a] = NoTry /\ \A b \in Attempts \ {a} : try'[b] = try[b]
      /\ Verifying' = Verifying \ {a}
  BY <1>1, <1>2, TryMoves DEF PasswordsIInv
<1>4. PasswordsTypes'
  BY <1>1, <1>3 DEF PasswordsIInv, PasswordsTypes
<1>5. GuessesCounted'
  <2>1. account' \in Rows /\ Verifying' \subseteq Verifying
    BY <1>1, <1>3 DEF PasswordsIInv, PasswordsTypes
  <2> QED
    BY <1>1, <2>1, GuessesRest
<1>6. UnusedUnlessOverlapped' /\ SpentOnceUnlessOverlapped'
  BY <1>1, <1>2, <1>3, LinksRest DEF OnLink
<1> QED
  BY <1>4, <1>5, <1>6 DEF PasswordsIInv


LEMMA ChangeKeeps ==
  ASSUME PasswordsIInv, NEW current \in Words, NEW new \in Words, ChangePassword(current, new)
  PROVE  PasswordsIInv'
<1>1. account \in Rows /\ HashPassword(new) \in {HashPassword(w) : w \in Words}
  BY DEF PasswordsIInv, PasswordsTypes
<1>2. /\ account' \in Rows
      /\ account'.failed = account.failed /\ account'.locked = account.locked
      /\ UNCHANGED <<clock, links, try, overlapped, lifted>>
  BY <1>1 DEF ChangePassword, Rows
<1>3. PasswordsTypes'
  BY <1>2 DEF PasswordsIInv, PasswordsTypes
<1>4. GuessesCounted'
  <2>1. Verifying' \subseteq Verifying
    BY <1>2 DEF Verifying
  <2> QED
    BY <1>2, <2>1, GuessesRest
<1>5. UnusedUnlessOverlapped' /\ SpentOnceUnlessOverlapped'
  BY <1>2, LinksRest DEF OnLink
<1> QED
  BY <1>3, <1>4, <1>5 DEF PasswordsIInv

LEMMA RequestLinkKeeps ==
  ASSUME PasswordsIInv, RequestLink
  PROVE  PasswordsIInv'
<1> DEFINE link == [issued |-> clock, used |-> 0]
<1> DEFINE LinkRows == [issued : 0..MaxClock, used : Nat]
<1>1. /\ links \in Seq(LinkRows) /\ Len(links) < MaxLinks /\ MaxLinks \in Nat
      /\ links' = Append(links, link) /\ link \in LinkRows /\ link.used = 0
      /\ UNCHANGED <<clock, account, try, overlapped, lifted>>
  BY LockAssumption DEF RequestLink, PasswordsIInv, PasswordsTypes
<1> HIDE DEF LinkRows, link
<1>2. /\ links' \in Seq(LinkRows) /\ Len(links') = Len(links) + 1 /\ Len(links) \in Nat
      /\ DOMAIN links = 1..Len(links) /\ DOMAIN links' = 1..Len(links) + 1
      /\ \A l \in DOMAIN links : links'[l] = links[l]
      /\ links'[Len(links) + 1] = link
  BY <1>1
<1>3. /\ Len(links') <= MaxLinks /\ DOMAIN links \subseteq DOMAIN links'
      /\ \A l \in DOMAIN links' \ DOMAIN links : links'[l].used = 0
  BY <1>1, <1>2
<1>4. PasswordsTypes'
  <2>1. overlapped \subseteq DOMAIN links'
    BY <1>3 DEF PasswordsIInv, PasswordsTypes
  <2>2. \A a \in Attempts : try[a].pc \in {"spending", "spent", "revoked"} =>
                           try[a].link \in DOMAIN links'
    BY <1>3 DEF PasswordsIInv, PasswordsTypes
  <2> QED
    BY <1>1, <1>2, <1>3, <2>1, <2>2 DEF PasswordsIInv, PasswordsTypes, LinkRows
<1>5. GuessesCounted'
  <2>1. Verifying' \subseteq Verifying /\ account' \in Rows
    BY <1>1 DEF Verifying, PasswordsIInv, PasswordsTypes
  <2> QED
    BY <1>1, <2>1, GuessesRest
<1>6. \A l \in DOMAIN links' \ DOMAIN links : \A a \in Attempts : ~OnLink(a, l)
  BY DEF OnLink, PasswordsIInv, PasswordsTypes
<1>7. UnusedUnlessOverlapped'
  BY <1>1, <1>2, <1>6 DEF PasswordsIInv, UnusedUnlessOverlapped, OnLink
<1>8. SpentOnceUnlessOverlapped'
  <2> SUFFICES ASSUME NEW l \in DOMAIN links', links'[l].used > 1
               PROVE  l \in overlapped
    BY <1>1 DEF SpentOnceUnlessOverlapped
  <2>1. l \in DOMAIN links
    BY <1>3
  <2> QED
    BY <1>2, <2>1 DEF PasswordsIInv, SpentOnceUnlessOverlapped
<1> QED
  BY <1>4, <1>5, <1>7, <1>8 DEF PasswordsIInv

LEMMA LoginLoadKeeps ==
  ASSUME PasswordsIInv, NEW a \in Attempts, NEW word \in Words, LoginLoad(a, word)
  PROVE  PasswordsIInv'
<1> DEFINE to == [pc |-> "verifying", row |-> account, word |-> word]
<1>1. /\ LockoutRemaining = 0 /\ try' = [try EXCEPT ![a] = to]
      /\ UNCHANGED <<clock, account, links, overlapped, lifted>>
  BY DEF LoginLoad, Starts
<1>2. account \in Rows /\ clock \in Nat
  BY DEF PasswordsIInv, PasswordsTypes
<1>3. to \in Tries /\ to.pc = "verifying"
  BY <1>2 DEF Tries
<1> HIDE DEF to
<1>4. /\ try' \in [Attempts -> Tries]
      /\ \A b \in Attempts : try'[b].pc \in {"spending", "spent", "revoked"} =>
                             try'[b].link \in DOMAIN links'
      /\ try'[a] = to /\ \A b \in Attempts \ {a} : try'[b] = try[b]
      /\ Verifying' = Verifying \cup {a}
  BY <1>1, <1>3, TryMoves DEF PasswordsIInv
<1>5. PasswordsTypes'
  BY <1>1, <1>4 DEF PasswordsIInv, PasswordsTypes
<1>6. account.locked \in Nat /\ account.locked <= clock + 1
  <2>1. account.locked \in Nat
    BY <1>2 DEF Rows
  <2>2. CASE account.locked > clock
    <3>1. (account.locked - clock) \div 2 = 0
      BY <1>1, <2>2 DEF LockoutRemaining
    <3>2. account.locked - clock <= 1
      BY <1>2, <2>1, <3>1
    <3> QED
      BY <1>2, <2>1, <3>2
  <2>3. CASE ~(account.locked > clock)
    BY <1>2, <2>1, <2>3
  <2> QED
    BY <2>1, <2>2, <2>3
<1>7. GuessesCounted'
  <2> SUFFICES ASSUME ~lifted, account.failed >= Threshold
               PROVE  \E set \in 0..clock :
                        /\ account.locked = set + 2 * LockSeconds
                        /\ account.failed <= Threshold - 1 + Admitted(set)
                        /\ ~(clock < set + Period)
    BY <1>1 DEF GuessesCounted, Admitted
  <2>1. PICK set \in 0..clock :
           /\ account.locked = set + 2 * LockSeconds
           /\ account.failed <= Threshold - 1 + Admitted(set)
    BY DEF PasswordsIInv, GuessesCounted
  <2>2. ~(clock < set + Period)
    BY <1>2, <1>6, <2>1, PasswordNumbers
  <2> QED
    BY <2>1, <2>2
<1>8. UnusedUnlessOverlapped' /\ SpentOnceUnlessOverlapped'
  BY <1>1, <1>3, <1>4, LinksRest DEF OnLink
<1> QED
  BY <1>5, <1>7, <1>8 DEF PasswordsIInv

\* What clearing on a copy does to the count and the lock.
LEMMA Clears ==
  ASSUME PasswordsTypes, NEW copy \in Rows, NEW hash \in {HashPassword(w) : w \in Words},
         account' \in {Cleared(copy), [Cleared(copy) EXCEPT !.hash = hash]},
         lifted' = Lifts(copy)
  PROVE  /\ account' \in Rows /\ lifted' \in BOOLEAN
         /\ \/ account'.failed = account.failed /\ account'.locked = account.locked
            \/ lifted' \/ account'.failed < Threshold
         /\ lifted => lifted' \/ account'.failed < Threshold
<1> DEFINE row0 == Cleared(copy)
<1>1. account \in Rows
  BY DEF PasswordsTypes
<1>2. /\ row0 \in Rows /\ row0.failed \in {0, account.failed}
      /\ account.failed \in Nat /\ account.locked \in Nat
  BY <1>1 DEF Cleared, Rows
<1>3. lifted' = (row0.failed >= Threshold /\ (lifted \/ row0.locked # account.locked))
  BY DEF Lifts
<1> HIDE DEF row0
<1>4. account' \in Rows /\ account'.failed = row0.failed /\ account'.locked = row0.locked
  <2>1. CASE account' = row0
    BY <1>2, <2>1
  <2>2. CASE account' = [row0 EXCEPT !.hash = hash]
    BY <1>2, <2>2 DEF Rows
  <2> QED
    BY <2>1, <2>2 DEF row0
<1>5. row0.failed \in Nat /\ Threshold \in Nat \ {0}
  BY <1>2, PasswordNumbers
<1>6. CASE row0.failed < Threshold
  BY <1>3, <1>4, <1>6
<1>7. CASE row0.failed >= Threshold
  <2>1. row0.failed = account.failed
    BY <1>2, <1>5, <1>7
  <2> QED
    BY <1>3, <1>4, <1>7, <2>1
<1> QED
  BY <1>5, <1>6, <1>7


\* A failure sets the lock anew, and its attempt is no longer in flight.
LEMMA FailureCounts ==
  ASSUME PasswordsIInv, NEW a \in Verifying, RegisterFailedLogin,
         UNCHANGED <<clock, lifted>>, Verifying' = Verifying \ {a}
  PROVE  account' \in Rows /\ GuessesCounted'
<1> DEFINE count == account.failed + 1
<1> DEFINE until == clock + 2 * LockSeconds
<1>1. /\ account \in Rows /\ account.failed \in Nat /\ clock \in Nat
      /\ Threshold \in Nat \ {0} /\ LockSeconds \in Nat /\ Period \in Nat \ {0}
      /\ Cardinality(Attempts) \in Nat
  BY PasswordNumbers DEF PasswordsIInv, PasswordsTypes, Rows
<1>2. count \in Nat /\ until \in Nat
  BY <1>1
<1>3. account' = [account EXCEPT !.failed = count,
                                !.locked = IF count >= Threshold THEN until ELSE @]
  BY DEF RegisterFailedLogin
<1>4. /\ account' \in Rows /\ account'.failed = count
      /\ account'.locked = IF count >= Threshold THEN until ELSE account.locked
  <2> HIDE DEF count, until
  <2> QED
    BY <1>1, <1>2, <1>3 DEF Rows
<1>5. InFlightNow \in Nat /\ InFlightNow <= Cardinality(Attempts)
      /\ InFlightNow' = InFlightNow - 1
  BY VerifyingCounts DEF InFlightNow
<1>6. Admitted(clock) \in Nat /\ Cardinality(Attempts) <= Admitted(clock)
  BY <1>1, AdmittedGrows
<1>7. ASSUME ~lifted, count >= Threshold
      PROVE  count + InFlightNow' <= Threshold - 1 + Admitted(clock)
  <2>1. CASE account.failed < Threshold
    BY <1>1, <1>5, <1>6, <2>1
  <2>2. CASE account.failed >= Threshold
    <3>1. PICK set \in 0..clock :
             /\ account.failed <= Threshold - 1 + Admitted(set)
             /\ clock < set + Period =>
                  account.failed + InFlightNow <= Threshold - 1 + Admitted(set)
      BY <1>7, <2>2 DEF PasswordsIInv, GuessesCounted
    <3>2. set \in Nat /\ set <= clock
      BY <1>1
    <3>3. /\ Admitted(set) \in Nat /\ Admitted(set) <= Admitted(clock)
          /\ set + Period <= clock =>
               Admitted(set) + Cardinality(Attempts) <= Admitted(clock)
      BY <1>1, <3>2, AdmittedGrows
    <3>4. CASE clock < set + Period
      BY <1>1, <1>5, <1>6, <3>1, <3>3, <3>4
    <3>5. CASE ~(clock < set + Period)
      BY <1>1, <1>5, <1>6, <3>1, <3>2, <3>3, <3>5
    <3> QED
      BY <3>4, <3>5
  <2> QED
    BY <1>1, <2>1, <2>2
<1>8. GuessesCounted'
  <2> SUFFICES ASSUME ~lifted, count >= Threshold
               PROVE  \E set \in 0..clock :
                        /\ account'.locked = set + 2 * LockSeconds
                        /\ count <= Threshold - 1 + Admitted(set)
                        /\ clock < set + Period =>
                             count + InFlightNow' <= Threshold - 1 + Admitted(set)
    BY <1>4 DEF GuessesCounted, Admitted
  <2>1. /\ clock \in 0..clock /\ account'.locked = clock + 2 * LockSeconds
        /\ count + InFlightNow' <= Threshold - 1 + Admitted(clock)
    BY <1>1, <1>4, <1>7
  <2>2. InFlightNow' \in Nat
    BY VerifyingCounts DEF InFlightNow
  <2>3. count <= Threshold - 1 + Admitted(clock)
    BY <1>1, <1>2, <1>6, <2>1, <2>2
  <2> QED
    BY <2>1, <2>3
<1> QED
  BY <1>4, <1>8

LEMMA LoginAnswerKeeps ==
  ASSUME PasswordsIInv, NEW a \in Attempts, LoginAnswer(a)
  PROVE  PasswordsIInv'
<1>1. /\ try[a].pc = "verifying" /\ try' = [try EXCEPT ![a] = NoTry]
      /\ UNCHANGED <<clock, links, overlapped>>
      /\ \/ account' = Cleared(try[a].row) /\ lifted' = Lifts(try[a].row)
         \/ RegisterFailedLogin /\ UNCHANGED lifted
  BY DEF LoginAnswer, Leaves
<1>2. NoTry \in Tries /\ NoTry.pc = "idle"
  BY DEF NoTry, Tries
<1>3. /\ try' \in [Attempts -> Tries]
      /\ \A b \in Attempts : try'[b].pc \in {"spending", "spent", "revoked"} =>
                             try'[b].link \in DOMAIN links
      /\ try'[a] = NoTry /\ \A b \in Attempts \ {a} : try'[b] = try[b]
      /\ Verifying' = Verifying \ {a}
  BY <1>1, <1>2, TryMoves DEF PasswordsIInv
<1>4. try[a].row \in Rows /\ a \in Verifying
  <2>1. try[a] \in Tries
    BY DEF PasswordsIInv, PasswordsTypes
  <2> QED
    BY <1>1, <2>1 DEF Tries, Verifying
<1>5. account' \in Rows /\ lifted' \in BOOLEAN /\ GuessesCounted'
  <2>1. CASE account' = Cleared(try[a].row) /\ lifted' = Lifts(try[a].row)
    <3>1. account.hash \in {HashPassword(w) : w \in Words}
      BY DEF PasswordsIInv, PasswordsTypes, Rows
    <3>2. /\ account' \in Rows /\ lifted' \in BOOLEAN
          /\ \/ account'.failed = account.failed /\ account'.locked = account.locked
             \/ lifted' \/ account'.failed < Threshold
          /\ lifted => lifted' \/ account'.failed < Threshold
      BY <1>4, <2>1, <3>1, Clears DEF PasswordsIInv
    <3> QED
      BY <1>1, <1>3, <3>2, GuessesRest
  <2>2. CASE RegisterFailedLogin /\ UNCHANGED lifted
    <3>1. account' \in Rows /\ GuessesCounted'
      BY <1>1, <1>3, <1>4, <2>2, FailureCounts
    <3>2. lifted' \in BOOLEAN
      BY <2>2 DEF PasswordsIInv, PasswordsTypes
    <3> QED
      BY <3>1, <3>2
  <2> QED
    BY <1>1, <2>1, <2>2
<1>6. PasswordsTypes'
  BY <1>1, <1>3, <1>5 DEF PasswordsIInv, PasswordsTypes
<1>7. UnusedUnlessOverlapped' /\ SpentOnceUnlessOverlapped'
  BY <1>1, <1>2, <1>3, LinksRest DEF OnLink
<1> QED
  BY <1>5, <1>6, <1>7 DEF PasswordsIInv

LEMMA LinkLoadKeeps ==
  ASSUME PasswordsIInv, NEW a \in Attempts, NEW l \in DOMAIN links, NEW word \in Words,
         LinkLoad(a, l, word)
  PROVE  PasswordsIInv'
<1> DEFINE to == [pc |-> "spending", link |-> l, word |-> word]
<1>1. /\ links[l].used = 0 /\ try[a] = NoTry /\ try' = [try EXCEPT ![a] = to]
      /\ overlapped' = IF \E b \in Attempts : OnLink(b, l)
                       THEN overlapped \cup {l} ELSE overlapped
      /\ UNCHANGED <<clock, account, links, lifted>>
  BY DEF LinkLoad, Starts, OnLink
<1>2. l \in 1..MaxLinks
  <2>1. /\ links \in Seq([issued : 0..MaxClock, used : Nat]) /\ Len(links) <= MaxLinks
        /\ MaxLinks \in Nat
    BY LockAssumption DEF PasswordsIInv, PasswordsTypes
  <2>2. DOMAIN links = 1..Len(links) /\ Len(links) \in Nat
    BY <2>1
  <2> QED
    BY <2>1, <2>2
<1>3. to \in Tries /\ to.pc = "spending" /\ to.link = l
  BY <1>2 DEF Tries
<1> HIDE DEF to
<1>4. /\ try' \in [Attempts -> Tries]
      /\ \A b \in Attempts : try'[b].pc \in {"spending", "spent", "revoked"} =>
                             try'[b].link \in DOMAIN links
      /\ try'[a] = to /\ \A b \in Attempts \ {a} : try'[b] = try[b]
      /\ Verifying' = Verifying \ {a}
  BY <1>1, <1>3, TryMoves DEF PasswordsIInv
<1>5. PasswordsTypes'
  BY <1>1, <1>4 DEF PasswordsIInv, PasswordsTypes
<1>6. GuessesCounted'
  <2>1. account' \in Rows /\ Verifying' \subseteq Verifying
    BY <1>1, <1>4 DEF PasswordsIInv, PasswordsTypes
  <2> QED
    BY <1>1, <2>1, GuessesRest
<1>7. UnusedUnlessOverlapped'
  <2> SUFFICES ASSUME NEW o \in DOMAIN links \ overlapped', NEW b \in Attempts, OnLink(b, o)'
               PROVE  links[o].used = 0 /\ \A d \in Attempts \ {b} : ~OnLink(d, o)'
    BY <1>1 DEF UnusedUnlessOverlapped
  <2>1. CASE o = l
    <3>1. \A d \in Attempts : ~OnLink(d, l)
      BY <1>1, <2>1
    <3> QED
      BY <1>1, <1>4, <2>1, <3>1 DEF OnLink
  <2>2. CASE o # l
    <3>1. \A d \in Attempts : OnLink(d, o)' => OnLink(d, o)
      BY <1>3, <1>4, <2>2 DEF OnLink
    <3>2. o \notin overlapped
      BY <1>1
    <3> QED
      BY <3>1, <3>2 DEF PasswordsIInv, UnusedUnlessOverlapped
  <2> QED
    BY <2>1, <2>2
<1>8. SpentOnceUnlessOverlapped'
  BY <1>1 DEF PasswordsIInv, SpentOnceUnlessOverlapped
<1> QED
  BY <1>5, <1>6, <1>7, <1>8 DEF PasswordsIInv

\* The holder of a link goes on with it.
LEMMA LinkStepKeeps ==
  ASSUME PasswordsIInv, NEW a \in Attempts, NEW to \in Tries,
         try' = [try EXCEPT ![a] = to],
         to.pc \in {"spent", "revoked"}, OnLink(a, to.link),
         UNCHANGED <<clock, account, links, overlapped, lifted>>
  PROVE  PasswordsIInv'
<1>1. to.pc # "verifying"
  OBVIOUS
<1>2. to.link \in DOMAIN links
  BY DEF OnLink, PasswordsIInv, PasswordsTypes
<1>3. /\ try' \in [Attempts -> Tries]
      /\ \A b \in Attempts : try'[b].pc \in {"spending", "spent", "revoked"} =>
                             try'[b].link \in DOMAIN links
      /\ try'[a] = to /\ \A b \in Attempts \ {a} : try'[b] = try[b]
      /\ Verifying' = Verifying \ {a}
  BY <1>1, <1>2, TryMoves DEF PasswordsIInv
<1>4. PasswordsTypes'
  BY <1>3 DEF PasswordsIInv, PasswordsTypes
<1>5. GuessesCounted'
  <2>1. account' \in Rows /\ Verifying' \subseteq Verifying
    BY <1>3 DEF PasswordsIInv, PasswordsTypes
  <2> QED
    BY <2>1, GuessesRest
<1>6. \A b \in Attempts, l \in DOMAIN links : OnLink(b, l)' => OnLink(b, l)
  BY <1>1, <1>3 DEF OnLink
<1> QED
  BY <1>4, <1>5, <1>6, LinksRest DEF PasswordsIInv

LEMMA LinkFlushKeeps ==
  ASSUME PasswordsIInv, NEW a \in Attempts, LinkFlush(a) \/ LinkRevoke(a)
  PROVE  PasswordsIInv'
<1>1. try[a] \in Tries /\ account \in Rows
  BY DEF PasswordsIInv, PasswordsTypes
<1>3. CASE LinkFlush(a)
  <2> DEFINE to == [pc |-> "spent", link |-> try[a].link, word |-> try[a].word, row |-> account]
  <2>1. /\ try[a].pc = "spending"
        /\ try' \in {[try EXCEPT ![a] = NoTry], [try EXCEPT ![a] = to]}
        /\ UNCHANGED <<clock, account, links, overlapped, lifted>>
    BY <1>3 DEF LinkFlush, Leaves
  <2>2. to \in Tries /\ to.pc = "spent" /\ to.link = try[a].link
    BY <1>1, <2>1 DEF Tries
  <2> HIDE DEF to
  <2>3. OnLink(a, to.link)
    BY <2>1, <2>2 DEF OnLink
  <2>4. CASE try' = [try EXCEPT ![a] = NoTry]
    <3>1. RollBack(a)
      BY <2>1, <2>4 DEF RollBack, Leaves, NoTry
    <3> QED
      BY <3>1, RollBackKeeps
  <2>5. CASE try' = [try EXCEPT ![a] = to]
    BY <2>1, <2>2, <2>3, <2>5, LinkStepKeeps
  <2> QED
    BY <2>1, <2>4, <2>5
<1>4. CASE LinkRevoke(a)
  <2> DEFINE to == [try[a] EXCEPT !.pc = "revoked"]
  <2>1. /\ try[a].pc = "spent" /\ try' = [try EXCEPT ![a] = to]
        /\ UNCHANGED <<clock, account, links, overlapped, lifted>>
    BY <1>4 DEF LinkRevoke
  <2>2. to \in Tries /\ to.pc = "revoked" /\ to.link = try[a].link
    BY <1>1, <2>1 DEF Tries
  <2> HIDE DEF to
  <2>3. OnLink(a, to.link)
    BY <2>1, <2>2 DEF OnLink
  <2> QED
    BY <2>1, <2>2, <2>3, LinkStepKeeps
<1> QED
  BY <1>3, <1>4

LEMMA LinkCommitKeeps ==
  ASSUME PasswordsIInv, NEW a \in Attempts, LinkCommit(a)
  PROVE  PasswordsIInv'
<1> DEFINE k == try[a].link
<1>1. /\ try[a].pc = "revoked" /\ links' = [links EXCEPT ![k].used = @ + 1]
      /\ account' = [Cleared(try[a].row) EXCEPT !.hash = HashPassword(try[a].word)]
      /\ lifted' = Lifts(try[a].row) /\ try' = [try EXCEPT ![a] = NoTry]
      /\ UNCHANGED <<clock, overlapped>>
  BY DEF LinkCommit, Leaves
<1>2. /\ try[a] \in Tries /\ k \in DOMAIN links
      /\ links \in Seq([issued : 0..MaxClock, used : Nat])
  BY <1>1 DEF PasswordsIInv, PasswordsTypes
<1>3. try[a].row \in Rows /\ HashPassword(try[a].word) \in {HashPassword(w) : w \in Words}
  BY <1>1, <1>2 DEF Tries
<1>4. /\ account' \in Rows /\ lifted' \in BOOLEAN
      /\ \/ account'.failed = account.failed /\ account'.locked = account.locked
         \/ lifted' \/ account'.failed < Threshold
      /\ lifted => lifted' \/ account'.failed < Threshold
  BY <1>1, <1>3, Clears DEF PasswordsIInv
<1>5. NoTry \in Tries /\ NoTry.pc = "idle"
  BY DEF NoTry, Tries
<1>6. /\ try'[a] = NoTry /\ \A b \in Attempts \ {a} : try'[b] = try[b]
      /\ try' \in [Attempts -> Tries] /\ Verifying' \subseteq Verifying
  BY <1>1, <1>5 DEF PasswordsIInv, PasswordsTypes, Verifying
<1>7. links[k] \in [issued : 0..MaxClock, used : Nat]
  BY <1>2, SeqElement
<1>8. /\ links' \in Seq([issued : 0..MaxClock, used : Nat]) /\ Len(links') = Len(links)
      /\ DOMAIN links' = DOMAIN links /\ links'[k].used = links[k].used + 1
      /\ \A l \in DOMAIN links \ {k} : links'[l] = links[l]
  <2> DEFINE spent == [links[k] EXCEPT !.used = links[k].used + 1]
  <2> DEFINE LinkRows == [issued : 0..MaxClock, used : Nat]
  <2>1. spent \in LinkRows /\ spent.used = links[k].used + 1
    BY <1>7
  <2>2. links' = [links EXCEPT ![k] = spent]
    BY <1>1
  <2>3. links \in Seq(LinkRows)
    BY <1>2
  <2> HIDE DEF spent, LinkRows
  <2>4. /\ links' \in Seq(LinkRows) /\ Len(links') = Len(links)
        /\ DOMAIN links' = DOMAIN links /\ links'[k] = spent
        /\ \A l \in DOMAIN links \ {k} : links'[l] = links[l]
    BY <1>2, <2>1, <2>2, <2>3
  <2> QED
    BY <2>1, <2>4 DEF LinkRows
<1>9. \A b \in Attempts : \A l : OnLink(b, l)' => b # a /\ OnLink(b, l)
  BY <1>5, <1>6 DEF OnLink
<1>10. PasswordsTypes'
  <2>1. \A b \in Attempts : try'[b].pc \in {"spending", "spent", "revoked"} =>
                           try'[b].link \in DOMAIN links'
    BY <1>5, <1>6, <1>8 DEF PasswordsIInv, PasswordsTypes
  <2> QED
    BY <1>1, <1>4, <1>6, <1>8, <2>1 DEF PasswordsIInv, PasswordsTypes
<1>11. GuessesCounted'
  BY <1>1, <1>4, <1>6, GuessesRest
<1>12. OnLink(a, k)
  BY <1>1 DEF OnLink
<1>13. UnusedUnlessOverlapped'
  <2> SUFFICES ASSUME NEW o \in DOMAIN links \ overlapped, NEW b \in Attempts, OnLink(b, o)'
               PROVE  links'[o].used = 0 /\ \A d \in Attempts \ {b} : ~OnLink(d, o)'
    BY <1>1, <1>8 DEF UnusedUnlessOverlapped
  <2>1. /\ b # a /\ OnLink(b, o) /\ links[o].used = 0
        /\ \A d \in Attempts \ {b} : ~OnLink(d, o)
    BY <1>9, SMTT(40) DEF PasswordsIInv, UnusedUnlessOverlapped
  <2>2. o # k
    BY <1>12, <2>1
  <2> QED
    BY <1>8, <1>9, <2>1, <2>2
<1>14. SpentOnceUnlessOverlapped'
  <2> SUFFICES ASSUME NEW l \in DOMAIN links, links'[l].used > 1, l \notin overlapped
               PROVE  FALSE
    BY <1>1, <1>8 DEF SpentOnceUnlessOverlapped
  <2>1. CASE l = k
    <3>1. links[k].used = 0
      BY <1>12, <2>1 DEF PasswordsIInv, UnusedUnlessOverlapped
    <3> QED
      BY <1>8, <2>1, <3>1
  <2>2. CASE l # k
    BY <1>8, <2>2 DEF PasswordsIInv, SpentOnceUnlessOverlapped
  <2> QED
    BY <2>1, <2>2
<1> QED
  BY <1>10, <1>11, <1>13, <1>14 DEF PasswordsIInv

LEMMA PasswordsKept == PasswordsIInv /\ [PasswordsNext]_passwordVars => PasswordsIInv'
<1> SUFFICES ASSUME PasswordsIInv, [PasswordsNext]_passwordVars PROVE PasswordsIInv'
  OBVIOUS
<1>1. CASE UNCHANGED passwordVars
  BY <1>1, ZenonT(60) DEF passwordVars, PasswordsIInv, PasswordsTypes, GuessesCounted, InFlightNow,
              Verifying, Admitted, UnusedUnlessOverlapped, SpentOnceUnlessOverlapped, OnLink
<1> QED
  BY <1>1, TimePassesKeeps, RequestLinkKeeps, ChangeKeeps, RollBackKeeps, LoginAnswerKeeps,
     LinkFlushKeeps, LinkCommitKeeps, LoginLoadKeeps, LinkLoadKeeps DEF PasswordsNext

(* Guesses and used links, for any number of attempts, any threshold and    *)
(* any lock: every lock period admits the attempts in flight at a time,     *)
(* unless a lock was lifted, and a link is spent once unless two overlapped *)
(* on it.                                                                   *)
THEOREM PasswordsInvHolds == PasswordsSpec => []PasswordsInv
<1>1. PasswordsSpec => []PasswordsIInv
  BY PasswordsStart, PasswordsKept, PTL DEF PasswordsSpec
<1> QED
  BY <1>1, PasswordsShow, PTL

-----------------------------------------------------------------------------
(* Membership.  Who changes an organization alone finds at the commit the   *)
(* owners of the check, or more.                                            *)

RequestRows ==
    [pc : {"idle"}]
    \cup [pc : {"registering"}, caller : Users, slug : Slugs]
    \cup [pc : {"resolved"}, caller : Users, org : Slugs, role : MemberManagers]
    \cup [pc : {"checked"}, op : {"invite", "role", "remove"}, caller : Users, org : Slugs,
          user : Users, role : Roles, by : MemberManagers, known : BOOLEAN,
          is_default : BOOLEAN]

MembershipTypes ==
    /\ users \subseteq Users
    /\ slugs \subseteq Slugs
    /\ IsFiniteSet(slugs)
    /\ DOMAIN members \subseteq slugs \X users
    /\ members \in [DOMAIN members -> [role : Roles, is_default : BOOLEAN]]
    /\ request \in [Callers -> RequestRows]
    /\ \A r \in Callers : request[r].pc \in {"resolved", "checked"} => request[r].org \in slugs
    /\ ownersMade \subseteq slugs
    /\ racedOrgs \subseteq slugs

\* Only an owner is about to make an owner.
GrantsOwn ==
    \A r \in Callers :
        request[r].pc = "checked" /\ request[r].op # "remove" /\ request[r].role = "owner"
        => request[r].by = "owner"

\* OwnersComeFromOwners, without counting.
AtMostOneOwner ==
    \A o \in slugs \ ownersMade : \A u, v \in Owners(o) : u = v

\* Of an organization whose changes did not overlap, at most one is in flight,
\* and it leaves an owner.
KeepsOwner ==
    \A o \in slugs \ racedOrgs :
        /\ Owners(o) # {}
        /\ \A r \in Changing(o) : /\ Changing(o) = {r}
                                  /\ Owners(o) \ {request[r].user} # {}

MembershipIInv == MembershipTypes /\ GrantsOwn /\ AtMostOneOwner /\ KeepsOwner

\* A set of numbers that is not empty has a least element.
LEMMA LeastNumber ==
    ASSUME NEW S, S \subseteq Nat, S # {}
    PROVE  \E n \in S : \A m \in S : n <= m
<1> DEFINE R == {ss \in Nat \X Nat : ss[1] < ss[2]}
<1>1. IsWellFoundedOn(R, Nat)
  BY NatLessThanWellFounded DEF OpToRel
<1>2. \A m, n \in S : <<m, n>> \in R <=> m < n
  OBVIOUS
<1> HIDE DEF R
<1>3. PICK n \in S : \A m \in S : ~ (<<m, n>> \in R)
  BY <1>1, WFMin
<1>4. \A m \in S : n \in Nat /\ m \in Nat /\ ~ (m < n)
  BY <1>2, <1>3
<1> QED
  BY <1>4

\* allocate_slug finds a free number within MaxOrgs + 1.
LEMMA SlugAllocated ==
    ASSUME IsFiniteSet(slugs), Cardinality(slugs) < MaxOrgs, NEW name \in Names
    PROVE  AllocateSlug(name) \in Slugs
<1> DEFINE numbers == 1..MaxOrgs + 1
           free == {n \in numbers : <<name, n>> \notin slugs}
<1>1. MaxOrgs \in Nat /\ Cardinality(slugs) \in Nat
  BY RolesAssumption, FS_CardinalityType
<1>2. free # {}
  <2> SUFFICES ASSUME free = {} PROVE FALSE
    OBVIOUS
  <2> DEFINE f == [n \in numbers |-> <<name, n>>]
  <2>1. f \in [numbers -> slugs]
    OBVIOUS
  <2>2. \A m, n \in numbers : f[m] = f[n] => m = n
    OBVIOUS
  <2> HIDE DEF f
  <2>3. f \in Injection(numbers, slugs)
    BY <2>1, <2>2 DEF Injection, IsInjective
  <2>4. Cardinality(numbers) <= Cardinality(slugs)
    BY <2>3, FS_Injection
  <2>5. Cardinality(numbers) = MaxOrgs + 1
    BY <1>1, FS_Interval
  <2> QED
    BY <1>1, <2>4, <2>5
<1>3. free \subseteq Nat
  BY <1>1
<1>4. \E n \in free : \A m \in free : n <= m
  <2> HIDE DEF free
  <2> QED
    BY <1>2, <1>3, LeastNumber
<1> DEFINE first == CHOOSE n \in free : \A m \in free : n <= m
<1>5. first \in numbers
  BY <1>4
<1>6. AllocateSlug(name) = <<name, first>>
  BY DEF AllocateSlug
<1> HIDE DEF first
<1> QED
  BY <1>5, <1>6 DEF Slugs

LEMMA RequestMoves ==
    ASSUME MembershipTypes, NEW r \in Callers, NEW to \in RequestRows,
           request' = [request EXCEPT ![r] = to]
    PROVE  /\ request' \in [Callers -> RequestRows]
           /\ request'[r] = to
           /\ \A d \in Callers : d # r => request'[d] = request[d]
           /\ \A o : Changing(o)' \ {r} = Changing(o) \ {r}
           /\ \A o : r \in Changing(o)' <=> to.pc = "checked" /\ to.op # "invite" /\ to.org = o
<1>1. /\ request' \in [Callers -> RequestRows]
      /\ request'[r] = to
      /\ \A d \in Callers : d # r => request'[d] = request[d]
  BY DEF MembershipTypes
<1> QED
  BY <1>1 DEF Changing

LEMMA Owned ==
    ASSUME MembershipTypes, NEW o, NEW u
    PROVE  u \in Owners(o) <=> u \in Users /\ <<o, u>> \in DOMAIN members
                               /\ members[<<o, u>>].role = "owner"
BY DEF Owners

LEMMA OwnersWith ==
    ASSUME NEW o, NEW u \in Users, NEW new, members' = With(<<o, u>>, new)
    PROVE  /\ \A p : p # o => Owners(p)' = Owners(p)
           /\ new.role = "owner" => Owners(o)' = Owners(o) \cup {u}
           /\ new.role # "owner" => Owners(o)' = Owners(o) \ {u}
<1>1. DOMAIN members' = DOMAIN members \cup {<<o, u>>}
  BY DEF With
<1>2. members'[<<o, u>>] = new
  BY DEF With
<1>3. \A k \in DOMAIN members : k # <<o, u>> => members'[k] = members[k]
  BY DEF With
<1> QED
  BY <1>1, <1>2, <1>3 DEF Owners

LEMMA OwnersWithout ==
    ASSUME NEW o, NEW u \in Users, members' = Without(<<o, u>>)
    PROVE  /\ \A p : p # o => Owners(p)' = Owners(p)
           /\ Owners(o)' = Owners(o) \ {u}
<1>1. DOMAIN members' = DOMAIN members \ {<<o, u>>}
  BY DEF Without
<1>2. \A k \in DOMAIN members : k # <<o, u>> => members'[k] = members[k]
  BY DEF Without
<1> QED
  BY <1>1, <1>2 DEF Owners

LEMMA MembershipStarts == MembershipInit => MembershipIInv
<1> SUFFICES ASSUME MembershipInit PROVE MembershipIInv
  OBVIOUS
<1>1. NoRequest \in RequestRows /\ NoRequest.pc = "idle"
  BY DEF NoRequest, RequestRows
<1>2. DOMAIN members = {}
  BY DEF MembershipInit
<1>3. MembershipTypes
  BY <1>1, <1>2, FS_EmptySet DEF MembershipInit, MembershipTypes
<1>4. GrantsOwn
  BY <1>1 DEF MembershipInit, GrantsOwn
<1>5. AtMostOneOwner /\ KeepsOwner
  BY DEF MembershipInit, AtMostOneOwner, KeepsOwner
<1> QED
  BY <1>3, <1>4, <1>5 DEF MembershipIInv

\* Two owners count more than one, and more than one are two.
LEMMA CountedOnce ==
    ASSUME NEW S, \A u, v \in S : u = v
    PROVE  Cardinality(S) <= 1
<1>1. CASE S = {}
  BY <1>1, FS_EmptySet
<1>2. CASE S # {}
  <2>1. PICK u \in S : S = {u}
    BY <1>2
  <2>2. Cardinality({u}) = 1
    BY FS_Singleton
  <2> QED
    BY <2>1, <2>2
<1> QED
  BY <1>1, <1>2

LEMMA MembershipShows == MembershipIInv => MembershipInv
<1> SUFFICES ASSUME MembershipIInv PROVE MembershipInv
  OBVIOUS
<1>1. MembershipTypeOK
  <2>1. \A r \in Callers : request[r].pc \in {"idle", "registering", "resolved", "checked"}
    BY DEF MembershipIInv, MembershipTypes, RequestRows
  <2> QED
    BY <2>1 DEF MembershipIInv, MembershipTypes, MembershipTypeOK
<1>2. OwnerRemainsUnlessRaced
  BY DEF MembershipIInv, KeepsOwner, OwnerRemainsUnlessRaced
<1>3. OwnersComeFromOwners
  BY CountedOnce DEF MembershipIInv, AtMostOneOwner, OwnersComeFromOwners
<1> QED
  BY <1>1, <1>2, <1>3 DEF MembershipInv

\* A step that changes no row: what the request does next is all that matters.
LEMMA RequestOnly ==
    ASSUME MembershipIInv, NEW r \in Callers, NEW to \in RequestRows,
           request' = [request EXCEPT ![r] = to],
           to.pc \in {"resolved", "checked"} => to.org \in slugs,
           to.pc = "checked" /\ to.op # "remove" /\ to.role = "owner" => to.by = "owner",
           \A o \in slugs \ racedOrgs' : to.pc = "checked" /\ to.op # "invite" /\ to.org = o =>
               Changing(o) \ {r} = {} /\ Owners(o) \ {to.user} # {},
           racedOrgs \subseteq racedOrgs', racedOrgs' \subseteq slugs,
           UNCHANGED <<tables, ownersMade>>
    PROVE  MembershipIInv'
<1>1. /\ request' \in [Callers -> RequestRows]
      /\ request'[r] = to
      /\ \A d \in Callers : d # r => request'[d] = request[d]
      /\ \A o : Changing(o)' \ {r} = Changing(o) \ {r}
      /\ \A o : r \in Changing(o)' <=> to.pc = "checked" /\ to.op # "invite" /\ to.org = o
  <2>1. MembershipTypes
    BY DEF MembershipIInv
  <2>2. /\ request' \in [Callers -> RequestRows]
        /\ request'[r] = to
        /\ \A d \in Callers : d # r => request'[d] = request[d]
    BY <2>1, RequestMoves
  <2>3. \A o : Changing(o)' \ {r} = Changing(o) \ {r}
    BY <2>1, RequestMoves
  <2>4. \A o : r \in Changing(o)' <=> to.pc = "checked" /\ to.op # "invite" /\ to.org = o
    BY <2>2 DEF Changing
  <2> QED
    BY <2>2, <2>3, <2>4
<1>2. UNCHANGED <<users, slugs, members, ownersMade>>
  BY DEF tables
<1>3. \A o : Owners(o)' = Owners(o)
  BY <1>2 DEF Owners
<1>4. MembershipTypes'
  <2>1. \A d \in Callers : request'[d].pc \in {"resolved", "checked"} => request'[d].org \in slugs
    BY <1>1 DEF MembershipIInv, MembershipTypes
  <2> QED
    BY <1>1, <1>2, <2>1 DEF MembershipIInv, MembershipTypes
<1>5. GrantsOwn'
  BY <1>1 DEF MembershipIInv, GrantsOwn
<1>6. AtMostOneOwner'
  BY <1>2, <1>3 DEF MembershipIInv, AtMostOneOwner
<1>7. KeepsOwner'
  <2> SUFFICES ASSUME NEW o \in slugs \ racedOrgs'
               PROVE  /\ Owners(o) # {}
                      /\ \A d \in Changing(o)' : /\ Changing(o)' = {d}
                                                 /\ Owners(o) \ {request'[d].user} # {}
    BY <1>2, <1>3 DEF KeepsOwner
  <2>1. /\ Owners(o) # {}
        /\ \A d \in Changing(o) : /\ Changing(o) = {d}
                                  /\ Owners(o) \ {request[d].user} # {}
    BY DEF MembershipIInv, KeepsOwner
  <2>2. \A d \in Changing(o)' : d \in Callers
    BY DEF Changing
  <2>3. CASE r \in Changing(o)'
    <3>1. Changing(o)' = {r} /\ Owners(o) \ {to.user} # {}
      BY <1>1, <2>3
    <3> QED
      BY <1>1, <2>1, <3>1
  <2>4. CASE r \notin Changing(o)'
    <3>1. Changing(o)' \subseteq Changing(o)
      BY <1>1, <2>4
    <3> QED
      BY <1>1, <2>1, <2>2, <2>4, <3>1
  <2> QED
    BY <2>3, <2>4
<1> QED
  BY <1>4, <1>5, <1>6, <1>7 DEF MembershipIInv

LEMMA FailsKeeps ==
    ASSUME MembershipIInv, NEW r \in Callers, Fails(r)
    PROVE  MembershipIInv'
<1>1. NoRequest \in RequestRows /\ NoRequest.pc = "idle"
  BY DEF NoRequest, RequestRows
<1>2. racedOrgs \subseteq slugs
  BY DEF MembershipIInv, MembershipTypes
<1> DEFINE to == NoRequest
<1> HIDE DEF to
<1>3. to \in RequestRows /\ to.pc = "idle" /\ request' = [request EXCEPT ![r] = to]
  BY <1>1 DEF to, Fails
<1> QED
  BY <1>2, <1>3, RequestOnly DEF Fails

LEMMA RegisterLoadKeeps ==
    ASSUME MembershipIInv, NEW r \in Callers, NEW u \in Founders, NEW name \in Names,
           RegisterLoad(r, u, name)
    PROVE  MembershipIInv'
<1> DEFINE to == [pc |-> "registering", caller |-> u, slug |-> AllocateSlug(name)]
<1>1. AllocateSlug(name) \in Slugs
  BY SlugAllocated DEF MembershipIInv, MembershipTypes, RegisterLoad
<1>2. to \in RequestRows /\ to.pc = "registering"
  BY <1>1, RolesAssumption DEF RequestRows
<1>3. request' = [request EXCEPT ![r] = to] /\ UNCHANGED <<tables, ownersMade, racedOrgs>>
  BY DEF RegisterLoad
<1>4. racedOrgs \subseteq slugs
  BY DEF MembershipIInv, MembershipTypes
<1> HIDE DEF to
<1> QED
  BY <1>2, <1>3, <1>4, RequestOnly

LEMMA ResolveKeeps ==
    ASSUME MembershipIInv, NEW r \in Callers, NEW u \in Users, NEW claim \in slugs,
           ResolvePrincipal(r, u, claim)
    PROVE  MembershipIInv'
<1>1. PICK o \in ActiveMemberships(u, claim) :
         /\ members[<<o, u>>].role \in MemberManagers
         /\ request' = [request EXCEPT ![r] =
              [pc |-> "resolved", caller |-> u, org |-> o, role |-> members[<<o, u>>].role]]
  BY DEF ResolvePrincipal
<1> DEFINE to == [pc |-> "resolved", caller |-> u, org |-> o, role |-> members[<<o, u>>].role]
<1>2. o \in slugs
  BY DEF ActiveMemberships, Memberships
<1>3. slugs \subseteq Slugs /\ racedOrgs \subseteq slugs
  BY DEF MembershipIInv, MembershipTypes
<1>4. to \in RequestRows /\ to.pc = "resolved" /\ to.org = o
  BY <1>1, <1>2, <1>3 DEF RequestRows
<1>5. request' = [request EXCEPT ![r] = to] /\ UNCHANGED <<tables, ownersMade, racedOrgs>>
  BY <1>1 DEF ResolvePrincipal
<1> HIDE DEF to
<1> QED
  BY <1>2, <1>3, <1>4, <1>5, RequestOnly

LEMMA PassesKeeps ==
    ASSUME MembershipIInv, NEW r \in Callers, request[r].pc = "resolved",
           NEW op \in {"invite", "role", "remove"}, NEW u \in Users, NEW as \in Roles,
           Passes(r, op, u, as),
           op # "remove" /\ as = "owner" => request[r].role = "owner",
           op # "invite" /\ request[r].org \notin racedOrgs => Owners(request[r].org) \ {u} # {}
    PROVE  MembershipIInv'
<1> DEFINE to == Checked(r, op, u, as)
<1>1. /\ request[r].org \in slugs
      /\ request[r].caller \in Users /\ request[r].role \in MemberManagers
      /\ slugs \subseteq Slugs /\ racedOrgs \subseteq slugs
  BY DEF MembershipIInv, MembershipTypes, RequestRows
<1>2. /\ to \in RequestRows
      /\ to.pc = "checked" /\ to.op = op /\ to.org = request[r].org
      /\ to.user = u /\ to.role = as /\ to.by = request[r].role
  <2> DEFINE known == u \in users
             default == Memberships(u) = {}
  <2>1. known \in BOOLEAN /\ default \in BOOLEAN
    OBVIOUS
  <2>2. to = [pc |-> "checked", op |-> op, caller |-> request[r].caller, org |-> request[r].org,
              user |-> u, role |-> as, by |-> request[r].role, known |-> known,
              is_default |-> default]
    BY DEF Checked
  <2> HIDE DEF known, default, to
  <2> QED
    BY <1>1, <2>1, <2>2 DEF RequestRows
<1>3. request' = [request EXCEPT ![r] = to] /\ UNCHANGED <<tables, ownersMade>>
  BY DEF Passes
<1>4. /\ racedOrgs \subseteq racedOrgs' /\ racedOrgs' \subseteq slugs
      /\ op # "invite" /\ request[r].org \notin racedOrgs' => Changing(request[r].org) = {}
  <2>1. CASE op # "invite" /\ Changing(request[r].org) # {}
    <3>1. racedOrgs' = racedOrgs \cup {request[r].org}
      BY <2>1 DEF Passes
    <3> QED
      BY <1>1, <3>1
  <2>2. CASE ~(op # "invite" /\ Changing(request[r].org) # {})
    <3>1. racedOrgs' = racedOrgs
      BY <2>2 DEF Passes
    <3> QED
      BY <1>1, <2>2, <3>1
  <2> QED
    BY <2>1, <2>2
<1> HIDE DEF to
<1>5. to.pc = "checked" /\ to.op # "remove" /\ to.role = "owner" => to.by = "owner"
  BY <1>2
<1>6. \A o \in slugs \ racedOrgs' : to.pc = "checked" /\ to.op # "invite" /\ to.org = o =>
         Changing(o) \ {r} = {} /\ Owners(o) \ {to.user} # {}
  BY <1>2, <1>4
<1>7. to.pc \in {"resolved", "checked"} => to.org \in slugs
  BY <1>1, <1>2
<1> QED
  BY <1>2, <1>3, <1>4, <1>5, <1>6, <1>7, RequestOnly

LEMMA OnlyOwnersGrantOwner ==
    ASSUME MembershipIInv, NEW r \in Callers, request[r].pc = "resolved",
           CanGrant(r, "owner")
    PROVE  request[r].role = "owner"
<1>1. request[r].role \in {"admin", "owner"}
  BY DEF MembershipIInv, MembershipTypes, RequestRows, MemberManagers
<1>2. Rank("owner") = 4 /\ Rank("admin") = 3
  BY DEF Rank
<1> QED
  BY <1>1, <1>2 DEF CanGrant

\* Whoever the check of the last owner lets go leaves an owner behind.
LEMMA NotTheLastOwner ==
    ASSUME MembershipIInv, NEW o \in slugs \ racedOrgs, NEW u \in Users,
           <<o, u>> \in DOMAIN members, ~LastOwner(<<o, u>>)
    PROVE  Owners(o) \ {u} # {}
<1>1. Owners(o) # {}
  BY DEF MembershipIInv, KeepsOwner
<1>2. CASE members[<<o, u>>].role # "owner"
  <2>1. u \notin Owners(o)
    BY <1>2 DEF Owners
  <2> QED
    BY <1>1, <2>1
<1>3. CASE ~ (Cardinality(Owners(o)) <= 1)
  <2> SUFFICES ASSUME Owners(o) \ {u} = {} PROVE FALSE
    OBVIOUS
  <2>1. \A v, w \in Owners(o) : v = w
    OBVIOUS
  <2> QED
    BY <1>3, <2>1, CountedOnce
<1> QED
  BY <1>2, <1>3 DEF LastOwner

LEMMA InviteCheckKeeps ==
    ASSUME MembershipIInv, NEW r \in Callers, NEW u \in Users, NEW as \in Roles,
           InviteCheck(r, u, as)
    PROVE  MembershipIInv'
<1>1. CASE Fails(r)
  BY <1>1, FailsKeeps
<1>2. CASE CanGrant(r, as) /\ Passes(r, "invite", u, as)
  <2>1. request[r].pc = "resolved"
    BY DEF InviteCheck
  <2>2. as = "owner" => request[r].role = "owner"
    BY <1>2, <2>1, OnlyOwnersGrantOwner
  <2> QED
    BY <1>2, <2>1, <2>2, PassesKeeps
<1> QED
  BY <1>1, <1>2 DEF InviteCheck

LEMMA RoleCheckKeeps ==
    ASSUME MembershipIInv, NEW r \in Callers, NEW u \in Users, NEW as \in Roles,
           RoleCheck(r, u, as)
    PROVE  MembershipIInv'
<1> DEFINE o == request[r].org
<1>1. CASE Fails(r)
  BY <1>1, FailsKeeps
<1>2. CASE /\ CanGrant(r, as) /\ Passes(r, "role", u, as)
           /\ <<o, u>> \in DOMAIN members /\ ~LastOwner(<<o, u>>)
  <2>1. request[r].pc = "resolved"
    BY DEF RoleCheck
  <2>2. as = "owner" => request[r].role = "owner"
    BY <1>2, <2>1, OnlyOwnersGrantOwner
  <2>3. o \in slugs
    BY <2>1 DEF MembershipIInv, MembershipTypes
  <2>4. o \notin racedOrgs => Owners(o) \ {u} # {}
    BY <1>2, <2>3, NotTheLastOwner
  <2> QED
    BY <1>2, <2>1, <2>2, <2>4, PassesKeeps
<1> QED
  BY <1>1, <1>2 DEF RoleCheck, Target

LEMMA RemoveCheckKeeps ==
    ASSUME MembershipIInv, NEW r \in Callers, NEW u \in Users, RemoveCheck(r, u)
    PROVE  MembershipIInv'
<1> DEFINE o == request[r].org
<1>1. CASE Fails(r)
  BY <1>1, FailsKeeps
<1>2. CASE /\ Passes(r, "remove", u, "owner")
           /\ <<o, u>> \in DOMAIN members /\ ~LastOwner(<<o, u>>)
  <2>1. request[r].pc = "resolved" /\ "owner" \in Roles
    BY RolesAssumption DEF RemoveCheck
  <2>2. o \in slugs
    BY <2>1 DEF MembershipIInv, MembershipTypes
  <2>3. o \notin racedOrgs => Owners(o) \ {u} # {}
    BY <1>2, <2>2, NotTheLastOwner
  <2> QED
    BY <1>2, <2>1, <2>3, PassesKeeps
<1> QED
  BY <1>1, <1>2 DEF RemoveCheck, Target

LEMMA RequestEnds ==
    ASSUME MembershipTypes, NEW r \in Callers, request' = [request EXCEPT ![r] = NoRequest]
    PROVE  /\ request' \in [Callers -> RequestRows]
           /\ request'[r].pc = "idle"
           /\ \A d \in Callers : d # r => request'[d] = request[d]
           /\ \A o : Changing(o)' = Changing(o) \ {r}
<1>1. NoRequest \in RequestRows /\ NoRequest.pc = "idle"
  BY DEF NoRequest, RequestRows
<1>2. /\ request' \in [Callers -> RequestRows]
      /\ request'[r] = NoRequest
      /\ \A d \in Callers : d # r => request'[d] = request[d]
  BY <1>1 DEF MembershipTypes
<1>3. request'[r].pc = "idle"
  BY <1>1, <1>2
<1>4. \A o : Changing(o)' = Changing(o) \ {r}
  BY <1>2, <1>3 DEF Changing
<1> QED
  BY <1>2, <1>3, <1>4

\* A commit to the memberships of one organization.
LEMMA CommitKeeps ==
    ASSUME MembershipIInv, NEW r \in Callers, request' = [request EXCEPT ![r] = NoRequest],
           UNCHANGED <<slugs, racedOrgs>>,
           ownersMade \subseteq ownersMade', ownersMade' \subseteq slugs,
           users' \subseteq Users, DOMAIN members' \subseteq slugs \X users',
           members' \in [DOMAIN members' -> [role : Roles, is_default : BOOLEAN]],
           NEW o \in slugs, \A p : p # o => Owners(p)' = Owners(p),
           o \notin ownersMade' => Owners(o)' \subseteq Owners(o),
           o \notin racedOrgs => Owners(o)' # {},
           \A d \in Changing(o) \ {r} : o \notin racedOrgs =>
               Owners(o)' \ {request[d].user} # {}
    PROVE  MembershipIInv'
<1>1. MembershipTypes
  BY DEF MembershipIInv
<1>2. /\ request' \in [Callers -> RequestRows]
      /\ request'[r].pc = "idle"
      /\ \A d \in Callers : d # r => request'[d] = request[d]
      /\ \A p : Changing(p)' = Changing(p) \ {r}
  BY <1>1, RequestEnds, Zenon
<1>3. MembershipTypes'
  <2>1. \A d \in Callers : request'[d].pc \in {"resolved", "checked"} => request'[d].org \in slugs
    BY <1>1, <1>2 DEF MembershipTypes
  <2>2. IsFiniteSet(slugs') /\ slugs' \subseteq Slugs /\ racedOrgs' \subseteq slugs'
    BY <1>1 DEF MembershipTypes
  <2> QED
    BY <1>2, <2>1, <2>2 DEF MembershipTypes
<1>4. GrantsOwn'
  BY <1>2 DEF MembershipIInv, GrantsOwn
<1>5. AtMostOneOwner'
  <2> SUFFICES ASSUME NEW p \in slugs \ ownersMade', NEW v \in Owners(p)', NEW w \in Owners(p)'
               PROVE  v = w
    BY DEF AtMostOneOwner
  <2>1. v \in Owners(p) /\ w \in Owners(p)
    OBVIOUS
  <2> QED
    BY <2>1 DEF MembershipIInv, AtMostOneOwner
<1>6. KeepsOwner'
  <2> SUFFICES ASSUME NEW p \in slugs \ racedOrgs
               PROVE  /\ Owners(p)' # {}
                      /\ \A d \in Changing(p) \ {r} :
                            /\ Changing(p) \ {r} = {d}
                            /\ Owners(p)' \ {request[d].user} # {}
    <3>1. \A p, d : d \in Changing(p) \ {r} => request'[d] = request[d]
      BY <1>2 DEF Changing
    <3> QED
      BY <1>2, <3>1 DEF KeepsOwner
  <2>1. /\ Owners(p) # {}
        /\ \A d \in Changing(p) : /\ Changing(p) = {d}
                                  /\ Owners(p) \ {request[d].user} # {}
    BY DEF MembershipIInv, KeepsOwner
  <2>2. \A d \in Changing(p) \ {r} : Changing(p) \ {r} = {d}
    BY <2>1
  <2>3. CASE p = o
    BY <2>2, <2>3
  <2>4. CASE p # o
    BY <2>1, <2>2, <2>4
  <2> QED
    BY <2>3, <2>4
<1> QED
  BY <1>3, <1>4, <1>5, <1>6 DEF MembershipIInv

\* What a request that passed its checks carries.
LEMMA CheckedRequest ==
    ASSUME MembershipIInv, NEW r \in Callers, request[r].pc = "checked"
    PROVE  /\ request[r].org \in slugs /\ request[r].user \in Users
           /\ request[r].role \in Roles /\ request[r].is_default \in BOOLEAN
           /\ request[r].op \in {"invite", "role", "remove"}
           /\ request[r].op # "remove" /\ request[r].role = "owner" => request[r].by = "owner"
BY DEF MembershipIInv, MembershipTypes, GrantsOwn, RequestRows

\* An owner made by an owner is on record.
LEMMA OwnerOnRecord ==
    ASSUME MembershipIInv, NEW r \in Callers, request[r].pc = "checked",
           request[r].op # "remove", OwnerMade(request[r])
    PROVE  /\ ownersMade \subseteq ownersMade' /\ ownersMade' \subseteq slugs
           /\ request[r].role = "owner" => request[r].org \in ownersMade'
<1>1. ownersMade \subseteq slugs
  BY DEF MembershipIInv, MembershipTypes
<1>2. /\ request[r].org \in slugs
      /\ request[r].role = "owner" => request[r].by = "owner"
  BY CheckedRequest
<1>3. CASE request[r].role = "owner"
  BY <1>1, <1>2, <1>3 DEF OwnerMade
<1>4. CASE request[r].role # "owner"
  BY <1>1, <1>4 DEF OwnerMade
<1> QED
  BY <1>3, <1>4

LEMMA InviteCommitKeeps ==
    ASSUME MembershipIInv, NEW r \in Callers, InviteCommit(r)
    PROVE  MembershipIInv'
<1> DEFINE q == request[r]
           new == [role |-> q.role, is_default |-> q.is_default]
<1>0. PICK o, u : o = q.org /\ u = q.user
  OBVIOUS
<1>1. CASE Fails(r)
  BY <1>1, FailsKeeps
<1>2. CASE ~Fails(r)
  <2>1. /\ q.pc = "checked" /\ q.op = "invite"
        /\ <<o, u>> \notin DOMAIN members
        /\ users' = users \cup {u}
        /\ members' = With(<<o, u>>, new)
        /\ request' = [request EXCEPT ![r] = NoRequest]
        /\ OwnerMade(q)
        /\ UNCHANGED <<slugs, racedOrgs>>
    BY <1>0, <1>2 DEF InviteCommit
  <2>2. /\ o \in slugs /\ u \in Users /\ q.role \in Roles /\ q.is_default \in BOOLEAN
        /\ q.role = "owner" => q.by = "owner"
    BY <1>0, <2>1, CheckedRequest
  <2>3. /\ ownersMade \subseteq ownersMade' /\ ownersMade' \subseteq slugs
        /\ q.role = "owner" => o \in ownersMade'
    BY <1>0, <2>1, OwnerOnRecord
  <2>4. /\ \A p : p # o => Owners(p)' = Owners(p)
        /\ new.role = "owner" => Owners(o)' = Owners(o) \cup {u}
        /\ new.role # "owner" => Owners(o)' = Owners(o) \ {u}
    BY <2>1, <2>2, OwnersWith
  <2>5. u \notin Owners(o) /\ new.role = q.role
    BY <2>1 DEF Owners
  <2>6. Owners(o) \subseteq Owners(o)' /\ (o \notin ownersMade' => Owners(o)' \subseteq Owners(o))
    BY <2>3, <2>4, <2>5
  <2>7. users \subseteq Users /\ DOMAIN members \subseteq slugs \X users
        /\ members \in [DOMAIN members -> [role : Roles, is_default : BOOLEAN]]
    BY DEF MembershipIInv, MembershipTypes
  <2>8. /\ users' \subseteq Users /\ DOMAIN members' \subseteq slugs \X users'
        /\ members' \in [DOMAIN members' -> [role : Roles, is_default : BOOLEAN]]
    BY <2>1, <2>2, <2>7 DEF With
  <2>9. o \notin racedOrgs => /\ Owners(o) # {}
                              /\ \A d \in Changing(o) : Owners(o) \ {request[d].user} # {}
    BY <2>2 DEF MembershipIInv, KeepsOwner
  <2>10. o \notin racedOrgs => Owners(o)' # {}
    BY <2>6, <2>9
  <2>11. \A d \in Changing(o) \ {r} : o \notin racedOrgs => Owners(o)' \ {request[d].user} # {}
    BY <2>6, <2>9
  <2>12. o \in slugs /\ request' = [request EXCEPT ![r] = NoRequest] /\ UNCHANGED <<slugs, racedOrgs>>
    BY <2>1, <2>2
  <2>13. ownersMade \subseteq ownersMade' /\ ownersMade' \subseteq slugs
    BY <2>3
  <2>14. \A p : p # o => Owners(p)' = Owners(p)
    BY <2>4
  <2> HIDE DEF q, new
  <2> QED
    BY <2>6, <2>8, <2>10, <2>11, <2>12, <2>13, <2>14, CommitKeeps
<1> QED
  BY <1>1, <1>2

\* A change of a role or a removal that did not overlap with another.
LEMMA LeavesOwner ==
    ASSUME MembershipIInv, NEW r \in Callers, request[r].pc = "checked",
           request[r].op # "invite", request[r].org \notin racedOrgs
    PROVE  /\ Changing(request[r].org) = {r}
           /\ Owners(request[r].org) \ {request[r].user} # {}
<1>1. r \in Changing(request[r].org) /\ request[r].org \in slugs
  BY CheckedRequest DEF Changing
<1> QED
  BY <1>1 DEF MembershipIInv, KeepsOwner

LEMMA RoleCommitKeeps ==
    ASSUME MembershipIInv, NEW r \in Callers, RoleCommit(r)
    PROVE  MembershipIInv'
<1> DEFINE q == request[r]
<1>0. PICK o, u : o = q.org /\ u = q.user
  OBVIOUS
<1> DEFINE new == [members[<<o, u>>] EXCEPT !.role = q.role]
<1>1. CASE Fails(r)
  BY <1>1, FailsKeeps
<1>2. CASE ~Fails(r)
  <2>1. /\ q.pc = "checked" /\ q.op = "role"
        /\ <<o, u>> \in DOMAIN members
        /\ members' = [members EXCEPT ![<<o, u>>].role = q.role]
        /\ request' = [request EXCEPT ![r] = NoRequest]
        /\ OwnerMade(q)
        /\ UNCHANGED <<users, slugs, racedOrgs>>
    BY <1>0, <1>2 DEF RoleCommit
  <2>2. /\ o \in slugs /\ u \in Users /\ q.role \in Roles
        /\ q.role = "owner" => q.by = "owner"
    BY <1>0, <2>1, CheckedRequest
  <2>3. /\ ownersMade \subseteq ownersMade' /\ ownersMade' \subseteq slugs
        /\ q.role = "owner" => o \in ownersMade'
    BY <1>0, <2>1, OwnerOnRecord
  <2>4. users \subseteq Users /\ DOMAIN members \subseteq slugs \X users
        /\ members \in [DOMAIN members -> [role : Roles, is_default : BOOLEAN]]
    BY DEF MembershipIInv, MembershipTypes
  <2>5. new \in [role : Roles, is_default : BOOLEAN] /\ new.role = q.role
    BY <2>1, <2>2, <2>4, SMTT(40)
  <2>6. members' = With(<<o, u>>, new)
    BY <2>1, <2>4 DEF With
  <2> HIDE DEF new
  <2>7. /\ \A p : p # o => Owners(p)' = Owners(p)
        /\ new.role = "owner" => Owners(o)' = Owners(o) \cup {u}
        /\ new.role # "owner" => Owners(o)' = Owners(o) \ {u}
    BY <2>2, <2>6, OwnersWith
  <2>8. /\ Owners(o) \ {u} \subseteq Owners(o)'
        /\ o \notin ownersMade' => Owners(o)' \subseteq Owners(o)
    BY <2>3, <2>5, <2>7
  <2>9. /\ users' \subseteq Users /\ DOMAIN members' \subseteq slugs \X users'
        /\ members' \in [DOMAIN members' -> [role : Roles, is_default : BOOLEAN]]
    BY <2>1, <2>4, <2>5, <2>6 DEF With
  <2>10. o \notin racedOrgs => Changing(o) = {r} /\ Owners(o) \ {u} # {}
    BY <1>0, <2>1, LeavesOwner
  <2>11. o \notin racedOrgs => Owners(o)' # {}
    BY <2>8, <2>10
  <2>12. \A d \in Changing(o) \ {r} : o \notin racedOrgs => Owners(o)' \ {request[d].user} # {}
    BY <2>10
  <2>13. o \in slugs /\ request' = [request EXCEPT ![r] = NoRequest] /\ UNCHANGED <<slugs, racedOrgs>>
    BY <2>1, <2>2
  <2>14. ownersMade \subseteq ownersMade' /\ ownersMade' \subseteq slugs
    BY <2>3
  <2>15. \A p : p # o => Owners(p)' = Owners(p)
    BY <2>7
  <2> HIDE DEF q
  <2> QED
    BY <2>8, <2>9, <2>11, <2>12, <2>13, <2>14, <2>15, CommitKeeps
<1> QED
  BY <1>1, <1>2

LEMMA RemoveCommitKeeps ==
    ASSUME MembershipIInv, NEW r \in Callers, RemoveCommit(r)
    PROVE  MembershipIInv'
<1> DEFINE q == request[r]
<1>0. PICK o, u : o = q.org /\ u = q.user
  OBVIOUS
<1>1. /\ q.pc = "checked" /\ q.op = "remove"
      /\ members' = Without(<<o, u>>)
      /\ request' = [request EXCEPT ![r] = NoRequest]
      /\ UNCHANGED <<users, slugs, ownersMade, racedOrgs>>
  BY <1>0 DEF RemoveCommit
<1>2. o \in slugs /\ u \in Users
  BY <1>0, <1>1, CheckedRequest
<1>3. /\ users \subseteq Users /\ DOMAIN members \subseteq slugs \X users
      /\ members \in [DOMAIN members -> [role : Roles, is_default : BOOLEAN]]
      /\ ownersMade \subseteq slugs
  BY DEF MembershipIInv, MembershipTypes
<1>4. /\ \A p : p # o => Owners(p)' = Owners(p)
      /\ Owners(o)' = Owners(o) \ {u}
  BY <1>1, <1>2, OwnersWithout
<1>5. /\ users' \subseteq Users /\ DOMAIN members' \subseteq slugs \X users'
      /\ members' \in [DOMAIN members' -> [role : Roles, is_default : BOOLEAN]]
  BY <1>1, <1>3 DEF Without
<1>6. o \notin racedOrgs => Changing(o) = {r} /\ Owners(o) \ {u} # {}
  BY <1>0, <1>1, LeavesOwner
<1>7. \A d \in Changing(o) \ {r} : o \notin racedOrgs => Owners(o)' \ {request[d].user} # {}
  BY <1>6
<1>8. Owners(o)' \subseteq Owners(o) /\ (o \notin racedOrgs => Owners(o)' # {})
  BY <1>4, <1>6
<1>9. ownersMade \subseteq ownersMade' /\ ownersMade' \subseteq slugs
  BY <1>1, <1>3
<1> HIDE DEF q
<1> QED
  BY <1>1, <1>2, <1>4, <1>5, <1>7, <1>8, <1>9, CommitKeeps, ZenonT(60)

\* A new organization starts with its founder, and nobody is changing it.
LEMMA RegisterCommitKeeps ==
    ASSUME MembershipIInv, NEW r \in Callers, RegisterCommit(r)
    PROVE  MembershipIInv'
<1>0. PICK o, u : o = request[r].slug /\ u = request[r].caller
  OBVIOUS
<1> DEFINE new == [role |-> "owner", is_default |-> Memberships(u) = {}]
<1>1. CASE Fails(r)
  BY <1>1, FailsKeeps
<1>2. CASE ~Fails(r)
  <2>1. /\ request[r].pc = "registering"
        /\ u \notin users /\ o \notin slugs
        /\ users' = users \cup {u}
        /\ slugs' = slugs \cup {o}
        /\ members' = With(<<o, u>>, new)
        /\ request' = [request EXCEPT ![r] = NoRequest]
        /\ UNCHANGED <<ownersMade, racedOrgs>>
    BY <1>0, <1>2 DEF RegisterCommit
  <2>2. MembershipTypes
    BY DEF MembershipIInv
  <2>3. u \in Users /\ o \in Slugs
    BY <1>0, <2>1, <2>2 DEF MembershipTypes, RequestRows
  <2>4. new \in [role : Roles, is_default : BOOLEAN] /\ new.role = "owner"
    BY RolesAssumption
  <2> HIDE DEF new
  <2>5. /\ request' \in [Callers -> RequestRows]
        /\ request'[r].pc = "idle"
        /\ \A d \in Callers : d # r => request'[d] = request[d]
        /\ \A p : Changing(p)' = Changing(p) \ {r}
    BY <2>1, <2>2, RequestEnds, Zenon
  <2>6. /\ \A p : p # o => Owners(p)' = Owners(p)
        /\ Owners(o)' = Owners(o) \cup {u}
    BY <2>1, <2>3, <2>4, OwnersWith
  <2>7. Owners(o) = {} /\ Changing(o) = {}
    BY <2>1, <2>2 DEF MembershipTypes, Owners, Changing
  <2>8. MembershipTypes'
    <3>1. \A d \in Callers : request'[d].pc \in {"resolved", "checked"} => request'[d].org \in slugs'
      BY <2>1, <2>2, <2>5 DEF MembershipTypes
    <3>2. IsFiniteSet(slugs')
      BY <2>1, <2>2, FS_AddElement DEF MembershipTypes
    <3>3. users' \subseteq Users /\ slugs' \subseteq Slugs
      BY <2>1, <2>2, <2>3 DEF MembershipTypes
    <3>4. ownersMade' \subseteq slugs' /\ racedOrgs' \subseteq slugs'
      BY <2>1, <2>2 DEF MembershipTypes
    <3>5. /\ DOMAIN members' \subseteq slugs' \X users'
          /\ members' \in [DOMAIN members' -> [role : Roles, is_default : BOOLEAN]]
      BY <2>1, <2>2, <2>4 DEF MembershipTypes, With
    <3> QED
      BY <2>5, <3>1, <3>2, <3>3, <3>4, <3>5 DEF MembershipTypes
  <2>9. GrantsOwn'
    BY <2>5 DEF MembershipIInv, GrantsOwn
  <2>10. AtMostOneOwner'
    BY <2>1, <2>6, <2>7 DEF MembershipIInv, AtMostOneOwner
  <2>11. KeepsOwner'
    <3> SUFFICES ASSUME NEW p \in slugs', p \notin racedOrgs
                 PROVE  /\ Owners(p)' # {}
                        /\ \A d \in Changing(p) \ {r} :
                              /\ Changing(p) \ {r} = {d}
                              /\ Owners(p)' \ {request[d].user} # {}
      <4>1. \A p, d : d \in Changing(p) \ {r} => request'[d] = request[d]
        BY <2>5 DEF Changing
      <4> QED
        BY <2>1, <2>5, <4>1 DEF KeepsOwner
    <3>1. CASE p = o
      BY <2>6, <2>7, <3>1
    <3>2. CASE p # o
      <4>1. p \in slugs \ racedOrgs /\ Owners(p)' = Owners(p)
        BY <2>1, <2>6, <3>2
      <4> QED
        BY <4>1 DEF MembershipIInv, KeepsOwner
    <3> QED
      BY <3>1, <3>2
  <2> QED
    BY <2>8, <2>9, <2>10, <2>11 DEF MembershipIInv
<1> QED
  BY <1>1, <1>2

LEMMA MembershipKept == MembershipIInv /\ [MembershipNext]_memberVars => MembershipIInv'
<1> SUFFICES ASSUME MembershipIInv, [MembershipNext]_memberVars PROVE MembershipIInv'
  OBVIOUS
<1>1. CASE UNCHANGED memberVars
  <2>1. UNCHANGED <<users, slugs, members, request, ownersMade, racedOrgs>>
    BY <1>1 DEF memberVars, tables
  <2>2. \A o : Owners(o)' = Owners(o) /\ Changing(o)' = Changing(o)
    BY <2>1 DEF Owners, Changing
  <2>3. MembershipTypes'
    BY <2>1 DEF MembershipIInv, MembershipTypes
  <2>4. GrantsOwn' /\ AtMostOneOwner' /\ KeepsOwner'
    BY <2>1, <2>2 DEF MembershipIInv, GrantsOwn, AtMostOneOwner, KeepsOwner
  <2> QED
    BY <2>3, <2>4 DEF MembershipIInv
<1> QED
  BY <1>1, RegisterCommitKeeps, InviteCommitKeeps, RoleCommitKeeps, RemoveCommitKeeps,
     RegisterLoadKeeps, ResolveKeeps, InviteCheckKeeps, RoleCheckKeeps, RemoveCheckKeeps
     DEF MembershipNext

(* Owners, for any number of requests, people and organizations: an         *)
(* organization keeps an owner unless two changes of its members            *)
(* overlapped, and a second owner is made by an owner.                      *)
THEOREM MembershipInvHolds == MembershipSpec => []MembershipInv
<1>1. MembershipSpec => []MembershipIInv
  BY MembershipStarts, MembershipKept, PTL DEF MembershipSpec
<1> QED
  BY <1>1, MembershipShows, PTL

-----------------------------------------------------------------------------
(* The state machine is obeyed by every writer that was not overtaken, for *)
(* any number of cancel requests and driving sessions.                     *)

\* The values of the column, the copies and the history variable.
LEMMA TypeCorrect == Spec => []TypeOK
<1>1. Init => TypeOK
  BY DEF Init, RowInit, TypeOK, RowTypeOK, Statuses
<1>2. TypeOK /\ [Next]_vars => TypeOK'
  <2> SUFFICES ASSUME TypeOK, [Next]_vars PROVE TypeOK'
    OBVIOUS
  <2> USE DEF TypeOK, RowTypeOK
  <2>1. ASSUME NEW w \in Writers, LoadRow(w) PROVE TypeOK'
    BY <2>1, RowConstants DEF LoadRow, Load
  <2>2. ASSUME NEW w \in Writers, NEW to \in Statuses, CommitRow(w, to) PROVE TypeOK'
    BY <2>2 DEF CommitRow, Commit
  <2>3. ASSUME NEW w \in Writers, RollbackRow(w) PROVE TypeOK'
    BY <2>3 DEF RollbackRow, Rollback
  <2>4. CASE UNCHANGED vars
    BY <2>4 DEF vars
  <2> QED
    BY <2>1, <2>2, <2>3, <2>4 DEF Next
<1> QED
  BY <1>1, <1>2, PTL DEF Spec

\* A copy that was not overtaken is the committed row (FreshUnlessOvertaken): a
\* commit that changes the row puts every other open transaction into
\* `overtaken', and one that does not leaves the row as the copies have it.
THEOREM FreshUnlessOvertakenHolds == Spec => []FreshUnlessOvertaken
<1>1. Init => FreshUnlessOvertaken
  BY DEF Init, RowInit, FreshUnlessOvertaken
<1>2. TypeOK /\ FreshUnlessOvertaken /\ [Next]_vars => FreshUnlessOvertaken'
  <2> SUFFICES ASSUME TypeOK, FreshUnlessOvertaken, [Next]_vars
               PROVE  FreshUnlessOvertaken'
    OBVIOUS
  <2> USE DEF TypeOK, RowTypeOK, FreshUnlessOvertaken
  <2>1. ASSUME NEW w \in Writers, LoadRow(w) PROVE FreshUnlessOvertaken'
    BY <2>1 DEF LoadRow, Load
  <2>2. ASSUME NEW w \in Writers, NEW to \in Statuses, CommitRow(w, to)
        PROVE  FreshUnlessOvertaken'
    BY <2>2 DEF CommitRow, Commit
  <2>3. ASSUME NEW w \in Writers, RollbackRow(w) PROVE FreshUnlessOvertaken'
    BY <2>3 DEF RollbackRow, Rollback
  <2>4. CASE UNCHANGED vars
    BY <2>4 DEF vars
  <2> QED
    BY <2>1, <2>2, <2>3, <2>4 DEF Next
<1> QED
  BY <1>1, <1>2, TypeCorrect, PTL DEF Spec

\* Every illegal move of the column is the commit of an overtaken transaction
\* (LegalUnlessOvertaken).
THEOREM LegalUnlessOvertakenHolds == Spec => LegalUnlessOvertaken
<1> DEFINE Legal ==
      status' # status =>
         \/ status' \in ALLOWED_TRANSITIONS[status]
         \/ \E w \in Writers : StaleCommit(w)
<1>1. TypeOK /\ FreshUnlessOvertaken /\ [Next]_vars => [Legal]_vars
  <2> SUFFICES ASSUME TypeOK, FreshUnlessOvertaken, Next, status' # status
               PROVE  \/ status' \in ALLOWED_TRANSITIONS[status]
                      \/ \E w \in Writers : StaleCommit(w)
    BY DEF vars
  <2>1. PICK w \in Writers, to \in Statuses : CommitRow(w, to)
    BY DEF Next, LoadRow, Load, RollbackRow, Rollback
  <2>2. to \in ALLOWED_TRANSITIONS[seen[w]] /\ status' = to
    BY <2>1 DEF CommitRow, Commit, TransitionAllowed
  <2>3. CASE w \in overtaken
    BY <2>1, <2>3 DEF CommitRow, Commit, StaleCommit, TypeOK, RowTypeOK
  <2>4. CASE w \notin overtaken
    BY <2>1, <2>2, <2>4 DEF CommitRow, Commit, FreshUnlessOvertaken
  <2> QED
    BY <2>3, <2>4
<1> QED
  BY <1>1, TypeCorrect, FreshUnlessOvertakenHolds, PTL DEF Spec, LegalUnlessOvertaken
=============================================================================
