--------------------------- MODULE DeliveryProofs ---------------------------
(***************************************************************************)
(* What a run leaves behind and what is seen of it, for any number of runs, *)
(* people, findings, requests and crashes.                                 *)
(***************************************************************************)
EXTENDS Tickets, Notifications, Remediation, Records, Integers, FiniteSetTheorems,
        WellFoundedInduction, SequenceTheorems, TLAPS

-----------------------------------------------------------------------------
(* Tickets                                                                 *)

FilerPoints == {"idle", "next", "search", "post", "repost", "link", "failed",
                "done", "degraded", "raised", "refused"}
FilerStates == [pc : FilerPoints, todo : SUBSET Findings, finding : SUBSET Findings,
                attempts : 0..MaxPosts]

\* The types in full.
TicketsTypes ==
    /\ jira \in Integrations
    /\ issues \in [Findings -> 0..MaxIssues]
    /\ links \subseteq Findings
    /\ filer \in [Filers -> FilerStates]
    /\ causes \in [Findings -> SUBSET {"overlap", "no answer", "search failed"}]

Files(p, f) == Filing(p) /\ filer[p].finding = {f}

\* A filer files one finding at a time.
FilesOne == \A p \in Filers : Filing(p) => \E f \in Findings : filer[p].finding = {f}

\* Two filings of one finding at a time are an overlap, and so is the filing of a
\* finding that was linked meanwhile.
OverlapsNoted ==
    \A p \in Filers, f \in Findings : Files(p, f) =>
        /\ \A q \in Filers \ {p} : Files(q, f) => "overlap" \in causes[f]
        /\ f \in links => "overlap" \in causes[f]

\* Who is about to post has seen that there is no issue.
PostsTheFirst ==
    \A p \in Filers, f \in Findings :
        Files(p, f) /\ filer[p].pc \in {"post", "repost"} /\ causes[f] = {} => issues[f] = 0

TicketsIInv ==
    /\ TicketsTypes /\ FilesOne /\ OverlapsNoted /\ PostsTheFirst
    /\ OneIssueUnlessDisturbed /\ RaisesOnlyOnOverlap

\* A filer at rest.
LEMMA RestIsFiler == Rest \in FilerStates
  BY TicketsAssumption DEF Rest, FilerStates, FilerPoints

LEMMA TicketsInitially == TicketsInit => TicketsIInv
  BY TicketsAssumption DEF TicketsInit, Rest, TicketsIInv, TicketsTypes, FilerStates, FilerPoints,
     FilesOne, OverlapsNoted, PostsTheFirst, OneIssueUnlessDisturbed, RaisesOnlyOnOverlap,
     Files, Filing, Filers

\* The causes of a finding are only added to.
CausesGrow ==
    /\ causes' \in [Findings -> SUBSET {"overlap", "no answer", "search failed"}]
    /\ \A f \in Findings : causes[f] \subseteq causes'[f]

\* A step of filer p that files nothing afterwards, and does not raise, keeps the
\* invariant.
LEMMA FilerRests ==
    ASSUME TicketsIInv, NEW p \in Filers, NEW r \in FilerStates,
           filer' = [filer EXCEPT ![p] = r],
           r.pc \notin {"search", "post", "repost", "link"},
           r.pc = "raised" => jira = "disabled" \/ \E f \in Findings : "overlap" \in causes[f],
           UNCHANGED jira, CausesGrow,
           issues' \in [Findings -> 0..MaxIssues],
           \A f \in Findings : issues'[f] = issues[f] \/ causes'[f] # {},
           links' \subseteq Findings,
           \A f \in links' \ links : Files(p, f)
    PROVE  TicketsIInv'
<1> USE TicketsAssumption DEF TicketsIInv
<1>1. TicketsTypes'
  BY DEF TicketsTypes, CausesGrow
<1>2. ~Filing(p)'
  BY DEF Filing, TicketsTypes
<1>3. \A q \in Filers \ {p} : filer'[q] = filer[q]
  BY DEF TicketsTypes
<1>4. FilesOne'
  BY <1>2, <1>3 DEF FilesOne, Filing
<1>9. \A q \in Filers, g \in Findings : Files(q, g)' => q # p /\ Files(q, g)
  BY <1>2, <1>3 DEF Files, Filing
<1>5. OverlapsNoted'
  <2> SUFFICES ASSUME NEW q \in Filers, NEW g \in Findings, Files(q, g)'
               PROVE  /\ \A o \in Filers \ {q} : Files(o, g)' => "overlap" \in causes'[g]
                      /\ g \in links' => "overlap" \in causes'[g]
    BY DEF OverlapsNoted
  <2>1. Files(q, g) /\ q # p
    BY <1>9
  <2>2. g \in links' => g \in links \/ Files(p, g)
    OBVIOUS
  <2> QED
    BY <1>9, <2>1, <2>2 DEF OverlapsNoted, CausesGrow
<1>6. PostsTheFirst'
  <2> SUFFICES ASSUME NEW q \in Filers, NEW g \in Findings, Files(q, g)',
                      filer'[q].pc \in {"post", "repost"}, causes'[g] = {}
               PROVE  issues'[g] = 0
    BY DEF PostsTheFirst
  <2>1. Files(q, g) /\ filer'[q] = filer[q]
    BY <1>3, <1>9
  <2> QED
    BY <2>1 DEF PostsTheFirst, CausesGrow
<1>7. RaisesOnlyOnOverlap'
  BY <1>3 DEF RaisesOnlyOnOverlap, Filers, TicketsTypes, CausesGrow
<1>8. OneIssueUnlessDisturbed'
  BY DEF OneIssueUnlessDisturbed, CausesGrow
<1> QED
  BY <1>1, <1>4, <1>5, <1>6, <1>7, <1>8

\* A step of filer p that takes up a finding keeps it, when those who file it too are
\* noted.
LEMMA FilerStarts ==
    ASSUME TicketsIInv, NEW p \in Filers, NEW f \in Findings, NEW r \in FilerStates,
           filer' = [filer EXCEPT ![p] = r], r.pc = "search", r.finding = {f},
           UNCHANGED <<jira, issues, links>>, CausesGrow, f \notin links,
           \A q \in Filers \ {p} : Files(q, f) => "overlap" \in causes'[f]
    PROVE  TicketsIInv'
<1> USE TicketsAssumption DEF TicketsIInv
<1>1. TicketsTypes'
  BY DEF TicketsTypes, CausesGrow
<1>2. /\ filer'[p] = r
      /\ \A q \in Filers \ {p} : filer'[q] = filer[q]
  BY DEF TicketsTypes
<1>3. FilesOne'
  BY <1>2 DEF FilesOne, Filing
<1>4. /\ \A g \in Findings : Files(p, g)' => g = f
      /\ \A q \in Filers \ {p}, g \in Findings : Files(q, g)' <=> Files(q, g)
  BY <1>2 DEF Files, Filing
<1>5. OverlapsNoted'
  <2> SUFFICES ASSUME NEW q \in Filers, NEW g \in Findings, Files(q, g)'
               PROVE  /\ \A o \in Filers \ {q} : Files(o, g)' => "overlap" \in causes'[g]
                      /\ g \in links => "overlap" \in causes'[g]
    BY DEF OverlapsNoted
  <2>1. CASE q = p
    BY <1>4, <2>1
  <2>2. CASE q # p
    <3>1. Files(q, g)
      BY <1>4, <2>2
    <3>2. ASSUME NEW o \in Filers \ {q}, Files(o, g)' PROVE "overlap" \in causes'[g]
      <4>1. CASE o = p
        BY <1>4, <2>2, <3>1, <3>2, <4>1
      <4>2. CASE o # p
        BY <1>4, <3>1, <3>2, <4>2 DEF OverlapsNoted, CausesGrow
      <4> QED
        BY <4>1, <4>2
    <3> QED
      BY <3>1, <3>2 DEF OverlapsNoted, CausesGrow
  <2> QED
    BY <2>1, <2>2
<1>6. PostsTheFirst'
  <2> SUFFICES ASSUME NEW q \in Filers, NEW g \in Findings, Files(q, g)',
                      filer'[q].pc \in {"post", "repost"}, causes'[g] = {}
               PROVE  issues[g] = 0
    BY DEF PostsTheFirst
  <2>1. q # p
    BY <1>2
  <2>2. Files(q, g) /\ filer[q].pc \in {"post", "repost"}
    BY <1>2, <1>4, <2>1
  <2>3. causes[g] = {}
    BY DEF CausesGrow
  <2> QED
    BY <2>2, <2>3 DEF PostsTheFirst
<1>7. RaisesOnlyOnOverlap'
  BY <1>2 DEF RaisesOnlyOnOverlap, Filers, TicketsTypes, CausesGrow
<1>8. OneIssueUnlessDisturbed'
  BY DEF OneIssueUnlessDisturbed, CausesGrow
<1> QED
  BY <1>1, <1>3, <1>5, <1>6, <1>7, <1>8

\* A step of filer p that goes on with the finding it files: it posts only what has
\* no issue, and an issue that is not the first is noted.
GoesOn(p, f, r) ==
    /\ Files(p, f)
    /\ r.finding = {f} /\ r.pc \in {"search", "post", "repost", "link"}
    /\ filer' = [filer EXCEPT ![p] = r]
    /\ UNCHANGED <<jira, links>>
    /\ \A g \in Findings : causes[g] \subseteq causes'[g]
    /\ \A g \in Findings \ {f} : issues'[g] = issues[g]
    /\ \/ issues'[f] = issues[f]
       \/ r.pc = "link" /\ issues'[f] = issues[f] + 1 /\ filer[p].pc \in {"post", "repost"}
       \/ causes'[f] # {}
    /\ r.pc \in {"post", "repost"} /\ causes'[f] = {} => issues'[f] = 0

\* Zero and one is not above one.
LEMMA TheFirstIsOne == \A n : n = 0 => ~(n + 1 > 1)
  BY SMTT(40)

LEMMA FilerGoesOn ==
    ASSUME TicketsIInv, NEW p \in Filers, NEW f \in Findings, NEW r \in FilerStates,
           GoesOn(p, f, r),
           issues' \in [Findings -> 0..MaxIssues],
           causes' \in [Findings -> SUBSET {"overlap", "no answer", "search failed"}]
    PROVE  TicketsIInv'
<1> USE TicketsAssumption DEF TicketsIInv
<1>1. TicketsTypes'
  BY DEF TicketsTypes, GoesOn
<1>2. /\ filer'[p] = r
      /\ \A q \in Filers \ {p} : filer'[q] = filer[q]
  BY DEF TicketsTypes, GoesOn
<1>3. \A q \in Filers, g \in Findings : Files(q, g)' <=> Files(q, g)
  BY <1>2 DEF Files, Filing, GoesOn
<1>4. FilesOne'
  <2> SUFFICES ASSUME NEW q \in Filers, Filing(q)'
               PROVE  \E g \in Findings : filer'[q].finding = {g}
    BY DEF FilesOne
  <2>1. CASE q = p
    BY <1>2, <2>1 DEF GoesOn
  <2>2. CASE q # p
    <3>1. filer'[q] = filer[q]
      BY <1>2, <2>2
    <3>2. Filing(q)
      BY <3>1 DEF Filing
    <3> QED
      BY <3>1, <3>2 DEF FilesOne
  <2> QED
    BY <2>1, <2>2
<1>5. OverlapsNoted'
  <2> SUFFICES ASSUME NEW q \in Filers, NEW g \in Findings, Files(q, g)
               PROVE  /\ \A o \in Filers \ {q} : Files(o, g) => "overlap" \in causes'[g]
                      /\ g \in links => "overlap" \in causes'[g]
    BY <1>3 DEF OverlapsNoted, GoesOn
  <2> QED
    BY DEF OverlapsNoted, GoesOn
<1>6. \A q \in Filers \ {p} : Files(q, f) => causes'[f] # {}
  BY DEF OverlapsNoted, GoesOn
<1>7. PostsTheFirst'
  <2> SUFFICES ASSUME NEW q \in Filers, NEW g \in Findings, Files(q, g),
                      filer'[q].pc \in {"post", "repost"}, causes'[g] = {}
               PROVE  issues'[g] = 0
    BY <1>3 DEF PostsTheFirst
  <2>1. CASE q = p
    <3>1. g = f
      BY <2>1 DEF Files, GoesOn
    <3> QED
      BY <1>2, <2>1, <3>1 DEF GoesOn
  <2>2. CASE q # p
    <3>1. g # f
      BY <1>6, <2>2
    <3>2. causes[g] = {} /\ filer[q].pc \in {"post", "repost"}
      BY <1>2, <2>2 DEF GoesOn
    <3> QED
      BY <3>1, <3>2 DEF PostsTheFirst, GoesOn
  <2> QED
    BY <2>1, <2>2
<1>8. OneIssueUnlessDisturbed'
  <2> SUFFICES ASSUME NEW g \in Findings, causes'[g] = {}, issues'[g] > 1
               PROVE  FALSE
    BY DEF OneIssueUnlessDisturbed
  <2>1. issues[g] \in 0..MaxIssues /\ issues'[g] \in 0..MaxIssues
    BY DEF TicketsTypes
  <2>2. causes[g] = {} /\ ~(issues[g] > 1)
    BY DEF OneIssueUnlessDisturbed, GoesOn
  <2>3. issues'[g] # issues[g]
    BY <2>2
  <2>4. g = f /\ issues'[f] = issues[f] + 1 /\ filer[p].pc \in {"post", "repost"}
    <3>1. g = f
      BY <2>3 DEF GoesOn
    <3> QED
      BY <2>3, <3>1 DEF GoesOn
  <2>5. issues[g] = 0
    BY <2>2, <2>4 DEF PostsTheFirst, GoesOn
  <2>7. ~(issues[g] + 1 > 1)
    BY <2>5, TheFirstIsOne, Zenon
  <2>8. issues'[g] = issues[g] + 1
    BY <2>4
  <2> QED
    BY <2>7, <2>8, Zenon
<1>9. RaisesOnlyOnOverlap'
  <2> SUFFICES ASSUME NEW a \in Agents, filer'[a].pc = "raised", jira # "disabled"
               PROVE  \E g \in Findings : "overlap" \in causes'[g]
    BY DEF RaisesOnlyOnOverlap, GoesOn
  <2>1. a # p /\ a \in Filers
    BY <1>2 DEF GoesOn, Filers
  <2>2. filer[a].pc = "raised"
    BY <1>2, <2>1
  <2> QED
    BY <2>2 DEF RaisesOnlyOnOverlap, GoesOn
<1> QED
  BY <1>1, <1>4, <1>5, <1>7, <1>8, <1>9

\* The step of a filer with the finding it files.
SearchOf(p, f, answered) ==
    /\ filer[p].pc = "search"
    /\ FilerGoes(p, IF answered /\ issues[f] > 0 THEN "link" ELSE "post")
    /\ IF answered THEN UNCHANGED causes ELSE Causes(f, "search failed")
    /\ UNCHANGED <<jira, issues, links>>
LinkOf(p, f) ==
    /\ filer[p].pc = "link"
    /\ links' = links \cup {f}
    /\ FilerGoes(p, IF f \in links THEN "raised" ELSE "next")
    /\ UNCHANGED <<jira, issues, causes>>
PostAgain(p, answer) ==
    answer \in {"created, no answer", "no answer"} /\ filer[p].attempts + 1 < MaxPosts
PostOf(p, f, answer) ==
    /\ filer[p].pc \in {"post", "repost"}
    /\ issues' = [issues EXCEPT ![f] =
                    IF answer \in {"created", "created, no answer"} THEN @ + 1 ELSE @]
    /\ issues'[f] <= MaxIssues
    /\ IF PostAgain(p, answer)
       THEN filer' = [filer EXCEPT ![p].attempts = @ + 1]
       ELSE FilerGoes(p, IF answer = "created" THEN "link"
                         ELSE IF filer[p].pc = "post" THEN "repost" ELSE "failed")
    /\ IF answer = "created, no answer" THEN Causes(f, "no answer") ELSE UNCHANGED causes
    /\ UNCHANGED <<jira, links>>

LEMMA CountsUp ==
    ASSUME NEW m \in Nat, NEW x \in 0..m
    PROVE  /\ x \in Nat /\ x + 1 \in Nat
           /\ x + 1 <= m => x + 1 \in 0..m
  BY SMT

LEMMA FilerMoves ==
    ASSUME NEW r \in FilerStates, NEW pc \in FilerPoints
    PROVE  /\ [r EXCEPT !.pc = pc, !.attempts = 0] \in FilerStates
           /\ [r EXCEPT !.pc = pc, !.attempts = 0].pc = pc
           /\ [r EXCEPT !.pc = pc, !.attempts = 0].finding = r.finding
<1>1. 0 \in 0..MaxPosts
  BY TicketsAssumption
<1> QED
  BY <1>1 DEF FilerStates

LEMMA NothingToNote == TicketsTypes /\ UNCHANGED causes => CausesGrow
  BY DEF TicketsTypes, CausesGrow

LEMMA TicketsInductive == TicketsIInv /\ [TicketsNext]_ticketVars => TicketsIInv'
<1> SUFFICES ASSUME TicketsIInv, [TicketsNext]_ticketVars PROVE TicketsIInv'
  OBVIOUS
<1> USE TicketsAssumption
<1>0. TicketsTypes
  BY DEF TicketsIInv
<1>1. ASSUME NEW a \in Agents, NodeStart(a) PROVE TicketsIInv'
  <2> DEFINE r == CASE jira = "disabled" -> [Rest EXCEPT !.pc = "raised"]
                    [] jira = "unset" -> [Rest EXCEPT !.pc = "degraded"]
                    [] OTHER -> [Rest EXCEPT !.pc = "next", !.todo = Candidates]
  <2>1. /\ r \in FilerStates
        /\ r.pc \in {"raised", "degraded", "next"}
        /\ r.pc = "raised" => jira = "disabled"
    <3>1. CASE jira = "disabled"
      BY <3>1, RestIsFiler DEF Rest, FilerStates, FilerPoints
    <3>2. CASE jira = "unset"
      BY <3>2, RestIsFiler DEF Rest, FilerStates, FilerPoints
    <3>3. CASE jira \notin {"disabled", "unset"}
      <4>1. r = [Rest EXCEPT !.pc = "next", !.todo = Candidates]
        BY <3>3
      <4>2. Candidates \in SUBSET Findings
        BY DEF Candidates
      <4>3. r \in FilerStates
        BY <4>1, <4>2, RestIsFiler DEF FilerStates, FilerPoints
      <4> QED
        BY <4>1, <4>3 DEF Rest
    <3> QED
      BY <3>1, <3>2, <3>3
  <2>2. filer' = [filer EXCEPT ![a] = r] /\ UNCHANGED <<jira, issues, links, causes>>
    BY <1>1 DEF NodeStart
  <2> HIDE DEF r
  <2> QED
    BY <1>0, <2>1, <2>2, NothingToNote, FilerRests DEF Filers, TicketsTypes
<1>2. ASSUME NEW p \in People, NEW f \in Findings, PersonAsks(p, f) PROVE TicketsIInv'
  <2> DEFINE r == [Rest EXCEPT !.pc = "next", !.todo = {f}]
  <2>1. r \in FilerStates /\ r.pc = "next"
    <3>1. r \in FilerStates
      BY RestIsFiler DEF FilerStates, FilerPoints
    <3> QED
      BY <3>1 DEF Rest
  <2>2. filer' = [filer EXCEPT ![p] = r] /\ UNCHANGED <<jira, issues, links, causes>>
    BY <1>2 DEF PersonAsks
  <2> HIDE DEF r
  <2> QED
    BY <1>0, <2>1, <2>2, NothingToNote, FilerRests DEF Filers, TicketsTypes
<1>3. ASSUME NEW p \in Filers, NodeDone(p) PROVE TicketsIInv'
  <2> DEFINE r == [Rest EXCEPT !.pc = "done"]
  <2>1. r \in FilerStates /\ r.pc = "done"
    <3>1. r \in FilerStates
      BY RestIsFiler DEF FilerStates, FilerPoints
    <3> QED
      BY <3>1 DEF Rest
  <2>2. filer' = [filer EXCEPT ![p] = r] /\ UNCHANGED <<jira, issues, links, causes>>
    BY <1>3 DEF NodeDone
  <2> HIDE DEF r
  <2> QED
    BY <1>0, <2>1, <2>2, NothingToNote, FilerRests DEF TicketsTypes
<1>4. ASSUME NEW p \in Filers, NEW f \in Findings, CreateTicket(p, f) PROVE TicketsIInv'
  <2> DEFINE pc == IF f \in links THEN "next"
                   ELSE IF jira = "ready" THEN "search" ELSE "failed"
             r == [Rest EXCEPT !.todo = filer[p].todo \ {f}, !.finding = {f}, !.pc = pc]
  <2>1. pc \in {"next", "search", "failed"} /\ (pc = "search" => f \notin links)
    OBVIOUS
  <2>2. filer' = [filer EXCEPT ![p] = r] /\ UNCHANGED <<jira, issues, links>>
    BY <1>4 DEF CreateTicket
  <2>3. /\ CausesGrow
        /\ \A q \in Filers \ {p} : Files(q, f) => "overlap" \in causes'[f]
    <3>1. CASE \E q \in Filers \ {p} : Filing(q) /\ filer[q].finding = {f}
      <4>1. causes' = [causes EXCEPT ![f] = @ \cup {"overlap"}]
        BY <1>4, <3>1 DEF CreateTicket, Causes
      <4> QED
        BY <1>0, <4>1 DEF CausesGrow, TicketsTypes
    <3>2. CASE ~\E q \in Filers \ {p} : Filing(q) /\ filer[q].finding = {f}
      BY <1>0, <1>4, <3>2, NothingToNote DEF CreateTicket, Files
    <3> QED
      BY <3>1, <3>2
  <2>4. filer[p].pc = "next"
    BY <1>4 DEF CreateTicket
  <2> HIDE DEF pc
  <2>5. r \in FilerStates /\ r.pc = pc /\ r.finding = {f}
    <3>1. filer[p].todo \in SUBSET Findings
      BY <1>0 DEF TicketsTypes, FilerStates
    <3>2. r \in FilerStates
      BY <2>1, <3>1, RestIsFiler DEF FilerStates, FilerPoints
    <3> QED
      BY <3>2 DEF Rest
  <2> HIDE DEF r
  <2>6. CASE pc # "search"
    BY <1>0, <2>1, <2>2, <2>3, <2>5, <2>6, FilerRests DEF TicketsTypes
  <2>7. CASE pc = "search"
    BY <1>0, <2>1, <2>2, <2>3, <2>4, <2>5, <2>7, FilerStarts
  <2> QED
    BY <2>6, <2>7
<1>5. ASSUME NEW p \in Filers, NEW answered \in BOOLEAN, Search(p, answered)
      PROVE  TicketsIInv'
  <2>1. PICK f \in filer[p].finding : SearchOf(p, f, answered)
    BY <1>5 DEF Search, SearchOf
  <2> DEFINE pc == IF answered /\ issues[f] > 0 THEN "link" ELSE "post"
             r == [filer[p] EXCEPT !.pc = pc, !.attempts = 0]
  <2>2. f \in Findings /\ Files(p, f)
    BY <1>0, <2>1 DEF SearchOf, TicketsIInv, FilesOne, Files, Filing
  <2>3. filer' = [filer EXCEPT ![p] = r] /\ UNCHANGED <<jira, issues, links>>
    BY <1>0, <2>1 DEF SearchOf, FilerGoes, TicketsTypes
  <2>4. CausesGrow /\ (pc = "post" => causes'[f] # {} \/ issues[f] = 0)
    <3>1. CASE answered
      <4>1. CausesGrow
        BY <1>0, <2>1, <3>1, NothingToNote DEF SearchOf
      <4>2. issues[f] \in 0..MaxIssues
        BY <1>0, <2>2 DEF TicketsTypes
      <4>3. ~(issues[f] > 0) => issues[f] = 0
        BY <4>2
      <4> QED
        BY <3>1, <4>1, <4>3
    <3>2. CASE ~answered
      <4>1. causes' = [causes EXCEPT ![f] = @ \cup {"search failed"}]
        BY <2>1, <3>2 DEF SearchOf, Causes
      <4> QED
        BY <1>0, <2>2, <4>1 DEF CausesGrow, TicketsTypes
    <3> QED
      BY <3>1, <3>2
  <2>5. pc \in {"link", "post"}
    OBVIOUS
  <2> HIDE DEF pc
  <2>6. r \in FilerStates /\ r.pc = pc /\ r.finding = {f}
    <3>1. filer[p] \in FilerStates /\ pc \in FilerPoints
      BY <1>0, <2>5 DEF TicketsTypes, FilerPoints
    <3> QED
      BY <2>2, <3>1, FilerMoves DEF Files
  <2> HIDE DEF r
  <2>7. GoesOn(p, f, r)
    BY <1>0, <2>2, <2>3, <2>4, <2>5, <2>6 DEF GoesOn, CausesGrow
  <2> QED
    BY <1>0, <2>2, <2>3, <2>4, <2>6, <2>7, FilerGoesOn DEF TicketsTypes, CausesGrow
<1>6. ASSUME NEW p \in Filers, NEW answer \in Answers, Post(p, answer) PROVE TicketsIInv'
  <2>1. PICK f \in filer[p].finding : PostOf(p, f, answer)
    BY <1>6 DEF Post, PostOf, PostAgain
  <2>2. f \in Findings /\ Files(p, f) /\ filer[p] \in FilerStates
    BY <1>0, <2>1 DEF PostOf, TicketsIInv, FilesOne, Files, Filing, TicketsTypes
  <2>3. CausesGrow /\ (answer = "created, no answer" => causes'[f] # {})
    <3>1. CASE answer = "created, no answer"
      <4>1. causes' = [causes EXCEPT ![f] = @ \cup {"no answer"}]
        BY <2>1, <3>1 DEF PostOf, Causes
      <4> QED
        BY <1>0, <2>2, <4>1 DEF CausesGrow, TicketsTypes
    <3>2. CASE answer # "created, no answer"
      BY <1>0, <2>1, <3>2, NothingToNote DEF PostOf
    <3> QED
      BY <3>1, <3>2
  <2>4. /\ issues' \in [Findings -> 0..MaxIssues]
        /\ \A g \in Findings \ {f} : issues'[g] = issues[g]
        /\ answer \in {"created", "created, no answer"} => issues'[f] = issues[f] + 1
        /\ answer \notin {"created", "created, no answer"} => issues'[f] = issues[f]
    <3> DEFINE n == IF answer \in {"created", "created, no answer"}
                    THEN issues[f] + 1 ELSE issues[f]
    <3>1. issues' = [issues EXCEPT ![f] = n] /\ issues'[f] <= MaxIssues
      BY <2>1 DEF PostOf
    <3>2. issues[f] \in 0..MaxIssues
      BY <1>0, <2>2 DEF TicketsTypes
    <3>3. issues'[f] = n
      BY <1>0, <2>2, <3>1, <3>2 DEF TicketsTypes
    <3>4. n \in 0..MaxIssues
      <4>1. MaxIssues \in Nat
        BY TicketsAssumption
      <4>2. CASE answer \in {"created", "created, no answer"}
        <5>1. n = issues[f] + 1
          BY <4>2
        <5> HIDE DEF n
        <5>2. issues[f] + 1 <= MaxIssues
          BY <3>1, <3>3, <5>1, Zenon
        <5>3. issues[f] + 1 \in 0..MaxIssues
          BY <3>2, <4>1, <5>2, CountsUp, Zenon
        <5> QED
          BY <5>1, <5>3, Zenon
      <4>3. CASE answer \notin {"created", "created, no answer"}
        BY <3>2, <4>3
      <4> QED
        BY <4>2, <4>3
    <3>5. /\ answer \in {"created", "created, no answer"} => n = issues[f] + 1
          /\ answer \notin {"created", "created, no answer"} => n = issues[f]
      OBVIOUS
    <3> HIDE DEF n
    <3> QED
      BY <1>0, <2>2, <3>1, <3>3, <3>4, <3>5 DEF TicketsTypes
  <2>5. filer[p].pc \in {"post", "repost"} /\ UNCHANGED <<jira, links>>
    BY <2>1 DEF PostOf
  <2>6. CASE PostAgain(p, answer)
    <3> DEFINE n == filer[p].attempts + 1
               r == [filer[p] EXCEPT !.attempts = n]
    <3>1. filer' = [filer EXCEPT ![p] = r]
      BY <1>0, <2>1, <2>6 DEF PostOf, TicketsTypes
    <3>2. n \in 0..MaxPosts /\ answer \in {"created, no answer", "no answer"}
      <4>1. MaxPosts \in Nat /\ filer[p].attempts \in 0..MaxPosts
        BY <2>2, TicketsAssumption DEF FilerStates
      <4>2. filer[p].attempts + 1 < MaxPosts
        BY <2>6 DEF PostAgain
      <4>3. filer[p].attempts + 1 <= MaxPosts
        BY <4>1, <4>2
      <4>4. n \in 0..MaxPosts
        BY <4>1, <4>3, CountsUp, Zenon
      <4> QED
        BY <2>6, <4>4 DEF PostAgain
    <3> HIDE DEF n
    <3>3. r \in FilerStates /\ r.pc = filer[p].pc /\ r.finding = {f}
      BY <2>2, <3>2 DEF FilerStates, Files
    <3> HIDE DEF r
    <3>4. causes'[f] = {} => answer = "no answer" /\ issues'[f] = issues[f] /\ issues[f] = 0
      <4>1. causes'[f] = {} => causes[f] = {}
        BY <2>2, <2>3 DEF CausesGrow
      <4> QED
        BY <2>2, <2>3, <2>4, <2>5, <3>2, <4>1 DEF TicketsIInv, PostsTheFirst
    <3>5. GoesOn(p, f, r)
      BY <2>2, <2>3, <2>4, <2>5, <3>1, <3>3, <3>4 DEF GoesOn, CausesGrow
    <3> QED
      BY <2>2, <2>3, <2>4, <3>3, <3>5, FilerGoesOn DEF CausesGrow
  <2>7. CASE ~PostAgain(p, answer)
    <3> DEFINE pc == IF answer = "created" THEN "link"
                     ELSE IF filer[p].pc = "post" THEN "repost" ELSE "failed"
               r == [filer[p] EXCEPT !.pc = pc, !.attempts = 0]
    <3>1. filer' = [filer EXCEPT ![p] = r]
      BY <1>0, <2>1, <2>7 DEF PostOf, FilerGoes, TicketsTypes
    <3>2. /\ pc \in {"link", "repost", "failed"}
          /\ pc = "link" <=> answer = "created"
      OBVIOUS
    <3> HIDE DEF pc
    <3>3. r \in FilerStates /\ r.pc = pc /\ r.finding = {f}
      <4>1. pc \in FilerPoints
        BY <3>2 DEF FilerPoints
      <4> QED
        BY <2>2, <4>1, FilerMoves DEF Files
    <3> HIDE DEF r
    <3>4. CASE pc = "link"
      <4>1. GoesOn(p, f, r)
        BY <2>2, <2>3, <2>4, <2>5, <3>1, <3>2, <3>3, <3>4 DEF GoesOn, CausesGrow
      <4> QED
        BY <2>2, <2>3, <2>4, <3>3, <4>1, FilerGoesOn DEF CausesGrow
    <3>5. CASE pc = "repost"
      <4>1. causes'[f] = {} => issues'[f] = issues[f] /\ issues[f] = 0
        <5>1. causes'[f] = {} => causes[f] = {}
          BY <2>2, <2>3 DEF CausesGrow
        <5> QED
          BY <2>2, <2>3, <2>4, <2>5, <3>2, <3>5, <5>1 DEF TicketsIInv, PostsTheFirst
      <4>2. GoesOn(p, f, r)
        BY <2>2, <2>3, <2>4, <2>5, <3>1, <3>3, <3>5, <4>1 DEF GoesOn, CausesGrow
      <4> QED
        BY <2>2, <2>3, <2>4, <3>3, <4>2, FilerGoesOn DEF CausesGrow
    <3>6. CASE pc = "failed"
      <4>1. \A g \in Findings : issues'[g] = issues[g] \/ causes'[g] # {}
        BY <2>3, <2>4, <3>2, <3>6
      <4>2. links' \subseteq Findings /\ (\A g \in links' \ links : Files(p, g))
        BY <1>0, <2>5 DEF TicketsTypes
      <4> QED
        BY <2>3, <2>4, <2>5, <3>1, <3>3, <3>6, <4>1, <4>2, FilerRests
    <3> QED
      BY <3>2, <3>4, <3>5, <3>6
  <2> QED
    BY <2>6, <2>7
<1>7. ASSUME NEW p \in Filers, Link(p) PROVE TicketsIInv'
  <2>1. PICK f \in filer[p].finding : LinkOf(p, f)
    BY <1>7 DEF Link, LinkOf
  <2> DEFINE pc == IF f \in links THEN "raised" ELSE "next"
             r == [filer[p] EXCEPT !.pc = pc, !.attempts = 0]
  <2>2. f \in Findings /\ Files(p, f)
    BY <1>0, <2>1 DEF LinkOf, TicketsIInv, FilesOne, Files, Filing
  <2>3. filer' = [filer EXCEPT ![p] = r] /\ UNCHANGED <<jira, issues, causes>>
    BY <1>0, <2>1 DEF LinkOf, FilerGoes, TicketsTypes
  <2>4. pc \in {"raised", "next"} /\ (pc = "raised" => f \in links)
    OBVIOUS
  <2> HIDE DEF pc
  <2>5. r \in FilerStates /\ r.pc = pc
    <3>1. filer[p] \in FilerStates /\ pc \in FilerPoints
      BY <1>0, <2>4 DEF TicketsTypes, FilerPoints
    <3> QED
      BY <3>1, FilerMoves
  <2> HIDE DEF r
  <2>6. pc = "raised" => "overlap" \in causes[f]
    BY <2>2, <2>4 DEF TicketsIInv, OverlapsNoted
  <2>7. links' \subseteq Findings /\ \A g \in links' \ links : Files(p, g)
    BY <1>0, <2>1, <2>2 DEF LinkOf, TicketsTypes
  <2> QED
    BY <1>0, <2>2, <2>3, <2>4, <2>5, <2>6, <2>7, NothingToNote, FilerRests DEF TicketsTypes
<1>8. ASSUME NEW p \in Filers, JiraFailed(p) PROVE TicketsIInv'
  <2> DEFINE r == [Rest EXCEPT !.pc = IF p \in Agents THEN "degraded" ELSE "refused"]
  <2>1. r \in FilerStates /\ r.pc \in {"degraded", "refused"}
    <3>1. r \in FilerStates
      BY RestIsFiler DEF FilerStates, FilerPoints
    <3> QED
      BY <3>1 DEF Rest
  <2>2. filer' = [filer EXCEPT ![p] = r] /\ UNCHANGED <<jira, issues, links, causes>>
    BY <1>8 DEF JiraFailed
  <2> HIDE DEF r
  <2> QED
    BY <1>0, <2>1, <2>2, NothingToNote, FilerRests DEF TicketsTypes
<1>9. ASSUME NEW p \in Filers, FilerDies(p) \/ Again(p) PROVE TicketsIInv'
  <2>1. filer' = [filer EXCEPT ![p] = Rest] /\ UNCHANGED <<jira, issues, links, causes>>
    BY <1>9 DEF FilerDies, Again
  <2>2. Rest.pc = "idle"
    BY DEF Rest
  <2> HIDE DEF Rest
  <2> QED
    BY <1>0, <2>1, <2>2, RestIsFiler, NothingToNote, FilerRests DEF TicketsTypes
<1>10. ASSUME UNCHANGED ticketVars PROVE TicketsIInv'
  BY <1>10 DEF ticketVars, TicketsIInv, TicketsTypes, FilesOne, OverlapsNoted, PostsTheFirst,
     OneIssueUnlessDisturbed, RaisesOnlyOnOverlap, Files, Filing
<1> QED
  BY <1>1, <1>2, <1>3, <1>4, <1>5, <1>6, <1>7, <1>8, <1>9, <1>10 DEF TicketsNext

(* services/ticket.py: a crash between the POST and the commit files no     *)
(* second issue, and the run of the node raises only when filings           *)
(* overlapped, for any number of runs, people, findings, retries and issues.*)
THEOREM TicketsInvHolds == TicketsSpec => []TicketsInv
<1>1. TicketsIInv => TicketsInv
  BY DEF TicketsIInv, TicketsTypes, TicketsInv, TicketsTypeOK, FilerStates, FilerPoints
<1> QED
  BY <1>1, TicketsInitially, TicketsInductive, PTL DEF TicketsSpec

-----------------------------------------------------------------------------
(* Notifications                                                           *)

AtChannel == DOMAIN Channels
SenderStates == [pc : {"idle", "read", "insert", "deliver", "done", "raised"},
                 at : 1..(Len(Channels) + 1), below : BOOLEAN,
                 staged : [AtChannel -> Statuses]]

NotificationsTypes ==
    /\ below \in BOOLEAN /\ undone \in BOOLEAN
    /\ rows \in [AtChannel -> Statuses \ {"pending"}]
    /\ delivered \in [AtChannel -> 0..MaxDeliveries]
    /\ sender \in [Senders -> SenderStates]

\* What a transaction has staged lies behind it, but for the row it delivers.
StagedBehind(r) ==
    /\ r.pc \in {"insert", "deliver"} => r.at \in AtChannel
    /\ r.pc = "deliver" => r.staged[r.at] = "pending"
    /\ \A c \in AtChannel :
         /\ r.staged[c] = "pending" => r.pc = "deliver" /\ c = r.at
         /\ r.staged[c] # NONE => c < r.at \/ (r.pc = "deliver" /\ c = r.at)
         /\ r.pc \in {"idle", "done", "raised"} => r.staged[c] = NONE

AllBehind == \A s \in Senders : StagedBehind(sender[s])

\* unique_notification: a channel has one row, staged or committed.
OneRow ==
    \A c \in AtChannel, s \in Senders : sender[s].staged[c] # NONE =>
        /\ rows[c] = NONE
        /\ \A t \in Senders \ {s} : sender[t].staged[c] = NONE

Told(c) ==
    \/ rows[c] \in {"sent", "failed"}
    \/ \E s \in Senders : sender[s].staged[c] \in {"sent", "failed"}

\* A message that was accepted has its row, until a transaction is rolled back.
Counted ==
    undone \/ \A c \in AtChannel : delivered[c] <= 1 /\ (delivered[c] > 0 => Told(c))

\* A row called sent was accepted.
SentIsDelivered ==
    \A c \in AtChannel : Channels[c] # "websocket" =>
        /\ rows[c] = "sent" => delivered[c] > 0
        /\ \A s \in Senders : sender[s].staged[c] = "sent" => delivered[c] > 0

NotificationsIInv ==
    NotificationsTypes /\ AllBehind /\ OneRow /\ Counted /\ SentIsDelivered

LEMMA ChannelsCount ==
    /\ AtChannel = 1..Len(Channels) /\ Len(Channels) \in Nat
    /\ 1 \in 1..(Len(Channels) + 1)
  BY NotificationsAssumption DEF AtChannel

LEMMA AsleepIsSender ==
    /\ \A pc \in {"idle", "done", "raised"} :
         LET r == [Asleep EXCEPT !.pc = pc]
         IN  r \in SenderStates /\ r.pc = pc /\ r.staged = NoRows
    /\ Asleep = [Asleep EXCEPT !.pc = "idle"]
    /\ \A c \in AtChannel : NoRows[c] = NONE
<1>1. NoRows \in [AtChannel -> Statuses] /\ \A c \in AtChannel : NoRows[c] = NONE
  BY DEF NoRows, AtChannel, Statuses
<1>2. Asleep \in SenderStates /\ Asleep.staged = NoRows
  BY <1>1, ChannelsCount DEF Asleep, SenderStates
<1> HIDE DEF NoRows
<1> QED
  BY <1>1, <1>2 DEF SenderStates, Asleep

LEMMA NotificationsInitially == NotificationsInit => NotificationsIInv
<1> SUFFICES ASSUME NotificationsInit PROVE NotificationsIInv
  OBVIOUS
<1>1. NoRows \in [AtChannel -> {NONE}]
  BY DEF NoRows, AtChannel
<1>2. NONE \in Statuses /\ NONE # "pending" /\ 0 \in 0..MaxDeliveries
  BY NotificationsAssumption DEF Statuses
<1>3. Asleep \in SenderStates /\ Asleep.staged = NoRows /\ Asleep.pc = "idle"
  BY AsleepIsSender DEF Asleep
<1>4. NotificationsTypes
  BY <1>1, <1>2, <1>3 DEF NotificationsInit, NotificationsTypes, AtChannel
<1>5. StagedBehind(Asleep)
  BY <1>1, <1>3, NotificationsAssumption DEF StagedBehind
<1>6. \A s \in Senders : sender[s] = Asleep
  BY DEF NotificationsInit
<1> QED
  BY <1>1, <1>3, <1>4, <1>5, <1>6, NotificationsAssumption
     DEF NotificationsInit, NotificationsIInv, AllBehind, OneRow, Counted, SentIsDelivered, AtChannel

\* A step of sender s that stages nothing and settles nothing.
LEMMA SenderReads ==
    ASSUME NotificationsIInv, NEW s \in Senders, NEW r \in SenderStates,
           sender' = [sender EXCEPT ![s] = r], r.staged = sender[s].staged, StagedBehind(r),
           UNCHANGED <<below, rows, delivered, undone>>
    PROVE  NotificationsIInv'
<1> USE DEF NotificationsIInv
<1>1. NotificationsTypes'
  BY DEF NotificationsTypes
<1>2. \A t \in Senders : sender'[t].staged = sender[t].staged
  BY DEF NotificationsTypes
<1>3. AllBehind'
  BY DEF AllBehind, NotificationsTypes
<1>4. OneRow' /\ SentIsDelivered'
  BY <1>2 DEF OneRow, SentIsDelivered
<1>5. \A c : Told(c)' <=> Told(c)
  BY <1>2 DEF Told
<1> QED
  BY <1>1, <1>3, <1>4, <1>5 DEF Counted

\* A transaction that is rolled back leaves no row; if it had sent, that is noted.
LEMMA SenderRollsBack ==
    ASSUME NotificationsIInv, NEW s \in Senders, NEW pc \in {"idle", "raised"},
           RollsBack(s, pc), UNCHANGED <<below, rows, delivered>>
    PROVE  NotificationsIInv'
<1> USE DEF NotificationsIInv
<1> DEFINE r == [Asleep EXCEPT !.pc = pc]
<1>1. r \in SenderStates /\ r.pc = pc /\ r.staged = NoRows
  BY AsleepIsSender
<1>2. sender' = [sender EXCEPT ![s] = r]
  BY DEF RollsBack, Sets
<1> HIDE DEF r
<1>3. /\ sender'[s].staged = NoRows
      /\ \A t \in Senders \ {s} : sender'[t] = sender[t]
      /\ \A c \in AtChannel : NoRows[c] = NONE
  BY <1>1, <1>2, AsleepIsSender DEF NotificationsTypes
<1>4. \/ undone'
      \/ ~undone' /\ ~undone /\ \A c \in AtChannel : sender[s].staged[c] \in {NONE, "suppressed"}
  BY DEF RollsBack, AtChannel
<1>5. undone' \in BOOLEAN
  BY Zenon DEF RollsBack, NotificationsTypes
<1>6. NotificationsTypes'
  BY <1>1, <1>2, <1>5 DEF NotificationsTypes
<1>7. AllBehind'
  <2>1. StagedBehind(r)
    BY <1>1, <1>3, NotificationsAssumption DEF StagedBehind
  <2> QED
    BY <1>2, <2>1 DEF AllBehind, NotificationsTypes
<1>8. OneRow' /\ SentIsDelivered'
  BY <1>3, NotificationsAssumption DEF OneRow, SentIsDelivered
<1>9. Counted'
  BY <1>3, <1>4, NotificationsAssumption DEF Counted, Told
<1> QED
  BY <1>6, <1>7, <1>8, <1>9

\* The state of a transaction that goes on, staging v for its channel.
Staging(r, c, v, pc, n) ==
    [r EXCEPT !.pc = pc, !.at = n, !.staged = [r.staged EXCEPT ![c] = v]]

LEMMA SenderStages ==
    ASSUME NEW r \in SenderStates, NEW c \in AtChannel, NEW v \in Statuses,
           NEW pc \in {"read", "deliver"}, NEW n \in 1..(Len(Channels) + 1)
    PROVE  /\ Staging(r, c, v, pc, n) \in SenderStates
           /\ Staging(r, c, v, pc, n).pc = pc /\ Staging(r, c, v, pc, n).at = n
           /\ Staging(r, c, v, pc, n).staged[c] = v
           /\ \A d \in AtChannel \ {c} : Staging(r, c, v, pc, n).staged[d] = r.staged[d]
<1> DEFINE g == [r.staged EXCEPT ![c] = v]
           m == [r EXCEPT !.pc = pc, !.at = n, !.staged = g]
<1>1. r.staged \in [AtChannel -> Statuses]
  BY DEF SenderStates
<1>2. /\ g \in [AtChannel -> Statuses] /\ g[c] = v
      /\ \A d \in AtChannel \ {c} : g[d] = r.staged[d]
  BY <1>1
<1> HIDE DEF g
<1>3. m \in SenderStates /\ m.pc = pc /\ m.at = n /\ m.staged = g
  BY <1>2 DEF SenderStates
<1>4. m = Staging(r, c, v, pc, n)
  BY DEF g, Staging
<1> HIDE DEF m
<1> QED
  BY <1>2, <1>3, <1>4

\* A step of sender s that stages v for channel c, which had nothing staged.
LEMMA SenderTurns ==
    ASSUME NotificationsIInv, NEW s \in Senders, NEW c \in AtChannel, NEW r \in SenderStates,
           sender' = [sender EXCEPT ![s] = r],
           \A d \in AtChannel \ {c} : r.staged[d] = sender[s].staged[d],
           StagedBehind(r), rows[c] = NONE,
           \A t \in Senders \ {s} : sender[t].staged[c] = NONE,
           sender[s].staged[c] \in {NONE, "pending"},
           UNCHANGED <<below, rows, undone>>,
           delivered' \in [AtChannel -> 0..MaxDeliveries],
           \A d \in AtChannel \ {c} : delivered'[d] = delivered[d],
           \/ delivered'[c] = delivered[c]
           \/ delivered'[c] = delivered[c] + 1 /\ r.staged[c] \in {"sent", "failed"},
           r.staged[c] = "sent" /\ Channels[c] # "websocket" => delivered'[c] = delivered[c] + 1
    PROVE  NotificationsIInv'
<1> USE DEF NotificationsIInv
<1>1. NotificationsTypes'
  BY DEF NotificationsTypes
<1>2. /\ sender'[s] = r
      /\ \A t \in Senders \ {s} : sender'[t] = sender[t]
  BY DEF NotificationsTypes
<1>3. AllBehind'
  BY <1>2 DEF AllBehind
<1>4. OneRow'
  BY <1>2 DEF OneRow
<1>5. delivered[c] \in 0..MaxDeliveries /\ (undone \/ delivered[c] = 0)
  <2>1. delivered[c] \in 0..MaxDeliveries
    BY DEF NotificationsTypes
  <2>2. ~Told(c)
    BY NotificationsAssumption DEF Told
  <2> QED
    BY <2>1, <2>2 DEF Counted
<1>6. Counted'
  <2> SUFFICES ASSUME ~undone, NEW d \in AtChannel
               PROVE  delivered'[d] <= 1 /\ (delivered'[d] > 0 => Told(d)')
    BY DEF Counted
  <2>1. CASE d # c
    <3>1. Told(d) => Told(d)'
      BY <1>2, <2>1 DEF Told
    <3> QED
      BY <2>1, <3>1 DEF Counted
  <2>2. CASE d = c
    <3>1. r.staged[c] \in {"sent", "failed"} => Told(c)'
      BY <1>2 DEF Told
    <3>2. \/ delivered'[c] = 0
          \/ delivered'[c] = 1 /\ Told(c)'
      BY <1>5, <3>1
    <3> QED
      BY <2>2, <3>2
  <2> QED
    BY <2>1, <2>2
<1>7. SentIsDelivered'
  <2> SUFFICES ASSUME NEW d \in AtChannel, Channels[d] # "websocket"
               PROVE  /\ rows[d] = "sent" => delivered'[d] > 0
                      /\ \A t \in Senders : sender'[t].staged[d] = "sent" => delivered'[d] > 0
    BY DEF SentIsDelivered
  <2>1. CASE d # c
    BY <1>2, <2>1 DEF SentIsDelivered
  <2>2. CASE d = c
    <3>1. rows[d] # "sent" /\ \A t \in Senders \ {s} : sender'[t].staged[d] # "sent"
      BY <1>2, <2>2, NotificationsAssumption
    <3>2. r.staged[d] = "sent" => delivered'[d] > 0
      BY <1>5, <2>2
    <3> QED
      BY <1>2, <3>1, <3>2
  <2> QED
    BY <2>1, <2>2
<1> QED
  BY <1>1, <1>3, <1>4, <1>6, <1>7

LEMMA InsertKeeps ==
    ASSUME NotificationsIInv, NEW s \in Senders, Insert(s)
    PROVE  NotificationsIInv'
<1> USE DEF NotificationsIInv
<1> DEFINE c == sender[s].at
<1>1. CASE rows[c] # NONE
  BY <1>1, SenderRollsBack DEF Insert
<1>2. CASE rows[c] = NONE
  <2> DEFINE r == Staging(sender[s], c, "pending", "deliver", c)
  <2>1. c \in AtChannel /\ sender[s] \in SenderStates /\ sender[s].pc = "insert"
    BY DEF Insert, AllBehind, StagedBehind, NotificationsTypes
  <2>2. /\ sender' = [sender EXCEPT ![s] = r]
        /\ UNCHANGED <<below, rows, delivered, undone>>
        /\ \A t \in Senders \ {s} : sender[t].staged[c] = NONE
    <3>1. r = [sender[s] EXCEPT !.staged[c] = "pending", !.pc = "deliver"]
      BY <2>1 DEF SenderStates, Staging
    <3> HIDE DEF r
    <3> QED
      BY <1>2, <3>1 DEF Insert, Sets
  <2>3. StagedBehind(sender[s]) /\ sender[s].staged[c] = NONE
    BY <2>1 DEF AllBehind, StagedBehind, NotificationsTypes, SenderStates
  <2> HIDE DEF c
  <2>4. /\ r \in SenderStates /\ r.pc = "deliver" /\ r.at = c
        /\ r.staged[c] = "pending"
        /\ \A d \in AtChannel \ {c} : r.staged[d] = sender[s].staged[d]
    <3>1. c \in 1..(Len(Channels) + 1) /\ "pending" \in Statuses
      BY <2>1 DEF c, SenderStates, Statuses
    <3> QED
      BY <2>1, <3>1, SenderStages
  <2> HIDE DEF r
  <2>5. StagedBehind(r)
    BY <2>1, <2>3, <2>4 DEF c, StagedBehind
  <2>6. delivered \in [AtChannel -> 0..MaxDeliveries]
    BY DEF NotificationsTypes
  <2> QED
    BY <1>2, <2>1, <2>2, <2>3, <2>4, <2>5, <2>6, SenderTurns
<1> QED
  BY <1>1, <1>2

LEMMA DeliverKeeps ==
    ASSUME NotificationsIInv, NEW s \in Senders, NEW accepted \in BOOLEAN,
           NEW answered \in BOOLEAN, Deliver(s, accepted, answered)
    PROVE  NotificationsIInv'
<1> USE DEF NotificationsIInv
<1> DEFINE c == sender[s].at
           v == IF sender[s].below THEN "suppressed"
                ELSE IF accepted /\ answered THEN "sent" ELSE "failed"
           remote == ~sender[s].below /\ Channels[c] # "websocket"
           n == c + 1
           r == Staging(sender[s], c, v, "read", n)
           m == IF remote /\ accepted THEN delivered[c] + 1 ELSE delivered[c]
<1>1. /\ c \in AtChannel /\ sender[s] \in SenderStates /\ sender[s].pc = "deliver"
      /\ StagedBehind(sender[s]) /\ sender[s].staged[c] = "pending"
  BY DEF Deliver, AllBehind, StagedBehind, NotificationsTypes
<1>2. rows[c] = NONE /\ \A t \in Senders \ {s} : sender[t].staged[c] = NONE
  BY <1>1, NotificationsAssumption DEF OneRow
<1>3. n \in 1..(Len(Channels) + 1) /\ \A d \in AtChannel : d < c => d < n
  BY <1>1, ChannelsCount
<1>4. /\ sender' = [sender EXCEPT ![s] = r]
      /\ UNCHANGED <<below, rows, undone>>
      /\ delivered' = [delivered EXCEPT ![c] = m]
      /\ delivered'[c] <= MaxDeliveries
  <2>1. r = [sender[s] EXCEPT !.pc = "read", !.at = @ + 1, !.staged[c] = v]
    BY <1>1 DEF SenderStates, Staging
  <2> QED
    BY <2>1 DEF Deliver, Sets
<1>5. v \in {"suppressed", "sent", "failed"} /\ v \in Statuses
  BY DEF Statuses
<1>6. /\ m = delivered[c] \/ (m = delivered[c] + 1 /\ v \in {"sent", "failed"})
      /\ v = "sent" /\ Channels[c] # "websocket" => m = delivered[c] + 1
  OBVIOUS
<1>7. /\ r \in SenderStates /\ r.pc = "read" /\ r.at = n /\ r.staged[c] = v
      /\ \A d \in AtChannel \ {c} : r.staged[d] = sender[s].staged[d]
  <2> HIDE DEF c, n, v
  <2> QED
    BY <1>1, <1>3, <1>5, SenderStages
<1> HIDE DEF r, v, m
<1>8. StagedBehind(r)
  <2>1. r.pc = "read" /\ r.staged[c] # "pending"
    BY <1>5, <1>7
  <2>2. c < n
    BY <1>1, ChannelsCount
  <2> QED
    BY <1>1, <1>3, <1>7, <2>1, <2>2 DEF StagedBehind
<1>9. /\ delivered' \in [AtChannel -> 0..MaxDeliveries]
      /\ delivered'[c] = m
      /\ \A d \in AtChannel \ {c} : delivered'[d] = delivered[d]
  <2>1. delivered[c] \in 0..MaxDeliveries /\ delivered'[c] = m
    BY <1>1, <1>4 DEF NotificationsTypes
  <2>2. m \in 0..MaxDeliveries
    <3>1. MaxDeliveries \in Nat /\ m <= MaxDeliveries
      BY <1>4, <2>1, NotificationsAssumption
    <3>2. CASE m = delivered[c]
      BY <2>1, <3>2
    <3>3. CASE m = delivered[c] + 1
      BY <2>1, <3>1, <3>3, CountsUp, Zenon
    <3> QED
      BY <1>6, <3>2, <3>3
  <2> QED
    BY <1>1, <1>4, <2>1, <2>2 DEF NotificationsTypes
<1> HIDE DEF c, n
<1> QED
  BY <1>1, <1>2, <1>4, <1>6, <1>7, <1>8, <1>9, SenderTurns

LEMMA CommitKeeps ==
    ASSUME NotificationsIInv, NEW s \in Senders, Commit(s)
    PROVE  NotificationsIInv'
<1> USE DEF NotificationsIInv
<1> DEFINE r == [Asleep EXCEPT !.pc = "done"]
<1>1. r \in SenderStates /\ r.pc = "done" /\ r.staged = NoRows
  BY AsleepIsSender
<1>2. /\ sender' = [sender EXCEPT ![s] = r]
      /\ UNCHANGED <<below, delivered, undone>>
      /\ rows' = [c \in AtChannel |->
                    IF sender[s].staged[c] = NONE THEN rows[c] ELSE sender[s].staged[c]]
  BY DEF Commit, Sets, AtChannel
<1> HIDE DEF r
<1>3. /\ sender'[s].staged = NoRows
      /\ \A t \in Senders \ {s} : sender'[t] = sender[t]
      /\ \A c \in AtChannel : NoRows[c] = NONE
  BY <1>1, <1>2, AsleepIsSender DEF NotificationsTypes
<1>4. \A c \in AtChannel :
         /\ sender[s].staged[c] \in Statuses \ {"pending"}
         /\ sender[s].staged[c] = NONE => rows'[c] = rows[c]
         /\ sender[s].staged[c] # NONE => rows'[c] = sender[s].staged[c] /\ rows[c] = NONE
  BY <1>2 DEF Commit, AllBehind, StagedBehind, OneRow, NotificationsTypes, SenderStates
<1>5. NotificationsTypes'
  <2>1. rows' \in [AtChannel -> Statuses \ {"pending"}]
    BY <1>2, <1>4 DEF NotificationsTypes
  <2> QED
    BY <1>1, <1>2, <2>1 DEF NotificationsTypes
<1>6. AllBehind'
  <2>1. StagedBehind(r)
    BY <1>1, <1>3, NotificationsAssumption DEF StagedBehind
  <2> QED
    BY <1>2, <2>1 DEF AllBehind, NotificationsTypes
<1>7. OneRow'
  <2> SUFFICES ASSUME NEW c \in AtChannel, NEW t \in Senders, sender'[t].staged[c] # NONE
               PROVE  /\ rows'[c] = NONE
                      /\ \A u \in Senders \ {t} : sender'[u].staged[c] = NONE
    BY DEF OneRow
  <2>1. t # s /\ sender[t].staged[c] # NONE
    BY <1>3
  <2> QED
    BY <1>3, <1>4, <2>1 DEF OneRow
<1>8. \A c \in AtChannel : Told(c) => Told(c)'
  <2> SUFFICES ASSUME NEW c \in AtChannel, Told(c) PROVE Told(c)'
    OBVIOUS
  <2>1. CASE rows[c] \in {"sent", "failed"}
    BY <1>4, <2>1, NotificationsAssumption DEF Told
  <2>2. ASSUME NEW t \in Senders, sender[t].staged[c] \in {"sent", "failed"} PROVE Told(c)'
    <3>1. CASE t = s
      BY <1>4, <2>2, <3>1, NotificationsAssumption DEF Told
    <3>2. CASE t # s
      BY <1>3, <2>2, <3>2 DEF Told
    <3> QED
      BY <3>1, <3>2
  <2> QED
    BY <2>1, <2>2 DEF Told
<1>9. Counted'
  BY <1>2, <1>8 DEF Counted
<1>10. SentIsDelivered'
  <2> SUFFICES ASSUME NEW c \in AtChannel, Channels[c] # "websocket"
               PROVE  /\ rows'[c] = "sent" => delivered[c] > 0
                      /\ \A t \in Senders : sender'[t].staged[c] = "sent" => delivered[c] > 0
    BY <1>2 DEF SentIsDelivered
  <2>1. rows'[c] = "sent" => delivered[c] > 0
    BY <1>4 DEF SentIsDelivered
  <2> QED
    BY <1>3, <2>1, NotificationsAssumption DEF SentIsDelivered
<1> QED
  BY <1>5, <1>6, <1>7, <1>9, <1>10

LEMMA NotificationsInductive ==
    NotificationsIInv /\ [NotificationsNext]_notificationVars => NotificationsIInv'
<1> SUFFICES ASSUME NotificationsIInv, [NotificationsNext]_notificationVars
             PROVE  NotificationsIInv'
  OBVIOUS
<1> USE DEF NotificationsIInv
<1>0. \A s \in Senders : sender[s] \in SenderStates /\ StagedBehind(sender[s])
  BY DEF NotificationsTypes, AllBehind
<1>1. CASE SetFloor
  <2>1. below' \in BOOLEAN
    BY <1>1, Zenon DEF SetFloor, NotificationsTypes
  <2>2. UNCHANGED <<rows, sender, delivered, undone>>
    BY <1>1 DEF SetFloor
  <2> QED
    BY <2>1, <2>2 DEF NotificationsTypes, AllBehind, OneRow, Counted, Told, SentIsDelivered
<1>2. ASSUME NEW s \in Senders, Begin(s) PROVE NotificationsIInv'
  <2> DEFINE r == [Asleep EXCEPT !.pc = "read", !.below = below]
  <2>1. sender' = [sender EXCEPT ![s] = r] /\ UNCHANGED <<below, rows, delivered, undone>>
    BY <1>2 DEF Begin, Sets
  <2>2. r \in SenderStates /\ r.pc = "read" /\ r.staged = NoRows
    <3>1. Asleep \in SenderStates /\ Asleep.staged = NoRows
      BY AsleepIsSender
    <3>2. below \in BOOLEAN
      BY DEF NotificationsTypes
    <3> HIDE DEF Asleep
    <3> QED
      BY <3>1, <3>2 DEF SenderStates
  <2> HIDE DEF r
  <2>3. NoRows = sender[s].staged
    <3>1. \A c \in AtChannel : sender[s].staged[c] = NONE /\ NoRows[c] = NONE
      BY <1>0, <1>2, AsleepIsSender DEF Begin, StagedBehind
    <3>2. sender[s].staged \in [AtChannel -> Statuses] /\ NoRows \in [AtChannel -> {NONE}]
      BY <1>0 DEF SenderStates, NoRows, AtChannel
    <3> HIDE DEF NoRows
    <3> QED
      BY <3>1, <3>2
  <2>4. StagedBehind(r)
    BY <2>2, AsleepIsSender, NotificationsAssumption DEF StagedBehind
  <2> QED
    BY <2>1, <2>2, <2>3, <2>4, SenderReads
<1>3. ASSUME NEW s \in Senders, AlreadyRecorded(s) PROVE NotificationsIInv'
  <2>1. sender[s].pc = "read" /\ sender[s].at \in AtChannel
    BY <1>0, <1>3, ChannelsCount DEF AlreadyRecorded, SenderStates
  <2>2. CASE rows[sender[s].at] # NONE
    <3> DEFINE n == sender[s].at + 1
               r == [sender[s] EXCEPT !.at = n]
    <3>1. sender' = [sender EXCEPT ![s] = r] /\ UNCHANGED <<below, rows, delivered, undone>>
      BY <1>3, <2>2 DEF AlreadyRecorded, Sets
    <3>2. n \in 1..(Len(Channels) + 1) /\ \A c \in AtChannel : c < sender[s].at => c < n
      BY <2>1, ChannelsCount
    <3> HIDE DEF n
    <3>3. r \in SenderStates /\ r.pc = "read" /\ r.at = n /\ r.staged = sender[s].staged
      BY <1>0, <2>1, <3>2 DEF SenderStates
    <3> HIDE DEF r
    <3>4. StagedBehind(r)
      BY <1>0, <2>1, <3>2, <3>3 DEF StagedBehind
    <3> QED
      BY <3>1, <3>3, <3>4, SenderReads
  <2>3. CASE rows[sender[s].at] = NONE
    <3> DEFINE r == [sender[s] EXCEPT !.pc = "insert"]
    <3>1. sender' = [sender EXCEPT ![s] = r] /\ UNCHANGED <<below, rows, delivered, undone>>
      BY <1>3, <2>3 DEF AlreadyRecorded, Sets
    <3>2. /\ r \in SenderStates /\ r.pc = "insert" /\ r.at = sender[s].at
          /\ r.staged = sender[s].staged
      BY <1>0 DEF SenderStates
    <3> HIDE DEF r
    <3>3. StagedBehind(r)
      BY <1>0, <2>1, <3>2 DEF StagedBehind
    <3> QED
      BY <3>1, <3>2, <3>3, SenderReads
  <2> QED
    BY <2>2, <2>3
<1>4. ASSUME NEW s \in Senders, SenderDies(s) PROVE NotificationsIInv'
  BY <1>4, SenderRollsBack DEF SenderDies
<1>5. ASSUME NEW s \in Senders, Resume(s) PROVE NotificationsIInv'
  <2>1. sender' = [sender EXCEPT ![s] = Asleep] /\ UNCHANGED <<below, rows, delivered, undone>>
    BY <1>5 DEF Resume, Sets
  <2>2. Asleep \in SenderStates /\ Asleep.pc = "idle" /\ Asleep.staged = NoRows
    BY AsleepIsSender DEF Asleep
  <2> HIDE DEF Asleep
  <2>3. NoRows = sender[s].staged
    <3>1. \A c \in AtChannel : sender[s].staged[c] = NONE /\ NoRows[c] = NONE
      BY <1>0, <1>5, AsleepIsSender DEF Resume, StagedBehind
    <3>2. sender[s].staged \in [AtChannel -> Statuses] /\ NoRows \in [AtChannel -> {NONE}]
      BY <1>0 DEF SenderStates, NoRows, AtChannel
    <3> HIDE DEF NoRows
    <3> QED
      BY <3>1, <3>2
  <2>4. StagedBehind(Asleep)
    BY <2>2, AsleepIsSender, NotificationsAssumption DEF StagedBehind
  <2> QED
    BY <2>1, <2>2, <2>3, <2>4, SenderReads
<1>6. CASE UNCHANGED notificationVars
  BY <1>6 DEF notificationVars, NotificationsTypes, AllBehind, OneRow, Counted, Told,
     SentIsDelivered
<1> QED
  BY <1>1, <1>2, <1>3, <1>4, <1>5, <1>6, InsertKeeps, DeliverKeeps, CommitKeeps
     DEF NotificationsNext

(* services/notification.py: a resumed run alerts twice only after a        *)
(* transaction that had sent was rolled back, and the rows an operator      *)
(* reads tell what happened, for any number of runs, channels and messages. *)
THEOREM NotificationsInvHolds == NotificationsSpec => []NotificationsInv
<1>1. NotificationsIInv => NotificationsInv
  <2> SUFFICES ASSUME NotificationsIInv PROVE NotificationsInv
    OBVIOUS
  <2> USE DEF NotificationsIInv
  <2>1. NotificationsTypeOK
    BY DEF NotificationsTypeOK, NotificationsTypes, SenderStates, AtChannel
  <2>2. AlertedOnceUnlessUndone
    BY DEF AlertedOnceUnlessUndone, Counted, NotificationsTypes, AtChannel
  <2>3. ASSUME NEW c \in AtChannel, rows[c] = "suppressed" PROVE delivered[c] = 0 \/ undone
    <3>1. ~Told(c)
      BY <2>3, NotificationsAssumption DEF Told, OneRow
    <3>2. delivered[c] \in 0..MaxDeliveries
      BY DEF NotificationsTypes
    <3> QED
      BY <3>1, <3>2 DEF Counted
  <2>4. RowsTellTheTruth
    BY <2>3 DEF RowsTellTheTruth, SentIsDelivered, AtChannel
  <2> QED
    BY <2>1, <2>2, <2>4 DEF NotificationsInv
<1> QED
  BY <1>1, NotificationsInitially, NotificationsInductive, PTL DEF NotificationsSpec

-----------------------------------------------------------------------------
(* Remediation                                                             *)

FixRows == [approach : Approaches, reviewer : Reviewers \cup {NOBODY}, excused : BOOLEAN]
AskStates == [pc : {"idle", "model", "raised"}, approach : Approaches \cup {ANY},
              force : BOOLEAN, alone : BOOLEAN]

RemediationTypes ==
    /\ fixes \in Seq(FixRows)
    /\ ask \in [Askers -> AskStates]
    /\ review \in [Reviewers -> [fix : 0..Len(fixes), fresh : BOOLEAN]]
    /\ \A r \in Reviewers : review[r].fresh => review[r].fix \in DOMAIN fixes

\* A generation counted alone has no other beside it.
AloneIsAlone ==
    \A a, b \in Askers : a # b /\ InFlight(a) /\ ask[a].alone => ~InFlight(b)

\* A generation that is neither forced nor beside another is of an approach without
\* a fix.
NoneExists ==
    \A a \in Askers : InFlight(a) /\ ask[a].alone /\ ~ask[a].force => ~Exists(ask[a].approach)

RemediationIInv ==
    RemediationTypes /\ AloneIsAlone /\ NoneExists /\ OneFixPerApproachUnlessExcused

LEMMA RemediationInitially == RemediationInit => RemediationIInv
<1> SUFFICES ASSUME RemediationInit PROVE RemediationIInv
  OBVIOUS
<1>1. fixes = <<>> /\ fixes \in Seq(FixRows) /\ Len(fixes) = 0
  BY DEF RemediationInit
<1>2. NoAsk \in AskStates /\ NoAsk.pc = "idle"
  BY DEF NoAsk, AskStates
<1>3. NoReview \in [fix : 0..0, fresh : BOOLEAN] /\ ~NoReview.fresh
  BY DEF NoReview
<1> HIDE DEF NoAsk, NoReview
<1>4. RemediationTypes
  BY <1>1, <1>2, <1>3 DEF RemediationInit, RemediationTypes
<1> QED
  BY <1>1, <1>2, <1>4 DEF RemediationInit, RemediationIInv, AloneIsAlone, NoneExists, InFlight,
     OneFixPerApproachUnlessExcused

\* A generation that ends, with the row it stores or without one.
LEMMA AskEnds ==
    ASSUME RemediationIInv, NEW a \in Askers, NEW pc \in {"idle", "raised"}, Ends(a, pc),
           UNCHANGED <<fixes, review>>
    PROVE  RemediationIInv'
<1> USE DEF RemediationIInv
<1> DEFINE r == [NoAsk EXCEPT !.pc = pc]
<1>1. r \in AskStates /\ r.pc = pc
  BY DEF NoAsk, AskStates
<1>2. ask' = [ask EXCEPT ![a] = r]
  BY DEF Ends
<1> HIDE DEF r
<1>3. RemediationTypes'
  BY <1>1, <1>2 DEF RemediationTypes
<1>4. ~InFlight(a)' /\ \A b \in Askers \ {a} : ask'[b] = ask[b]
  BY <1>1, <1>2 DEF InFlight, RemediationTypes
<1> QED
  BY <1>3, <1>4 DEF AloneIsAlone, NoneExists, InFlight, Exists, OneFixPerApproachUnlessExcused

LEMMA AskStarts ==
    ASSUME RemediationIInv, NEW a \in Askers, NEW approach \in Approaches \cup {ANY},
           NEW force \in BOOLEAN, Starts(a, approach, force), ~InFlight(a),
           force \/ ~Exists(approach),
           UNCHANGED <<fixes, review>>
    PROVE  RemediationIInv'
<1> USE DEF RemediationIInv
<1> DEFINE r == [pc |-> "model", approach |-> approach, force |-> force,
                 alone |-> \A c \in Askers \ {a} : ~InFlight(c)]
           beside(b) == [ask[b] EXCEPT !.alone = FALSE]
<1>1. /\ r \in AskStates /\ r.pc = "model" /\ r.approach = approach /\ r.force = force
      /\ r.alone <=> \A c \in Askers \ {a} : ~InFlight(c)
  <2> DEFINE q == \A c \in Askers \ {a} : ~InFlight(c)
  <2>1. q \in BOOLEAN
    OBVIOUS
  <2> HIDE DEF q
  <2>2. [pc |-> "model", approach |-> approach, force |-> force, alone |-> q] \in AskStates
    BY <2>1 DEF AskStates
  <2> QED
    BY <2>2 DEF q
<1>2. \A b \in Askers : InFlight(b) =>
        /\ beside(b) \in AskStates /\ beside(b).pc = "model" /\ ~beside(b).alone
        /\ beside(b).approach = ask[b].approach /\ beside(b).force = ask[b].force
  BY DEF RemediationTypes, AskStates, InFlight
<1>3. ask' = [b \in Askers |-> IF b = a THEN r
                               ELSE IF InFlight(b) THEN beside(b) ELSE ask[b]]
  BY DEF Starts
<1> HIDE DEF r, beside
<1>4. /\ ask'[a] = r
      /\ \A b \in Askers \ {a} : ask'[b] = IF InFlight(b) THEN beside(b) ELSE ask[b]
  BY <1>3
<1>5. RemediationTypes'
  <2>1. \A b \in Askers : ask'[b] \in AskStates
    BY <1>1, <1>2, <1>4 DEF RemediationTypes
  <2> QED
    BY <1>3, <2>1 DEF RemediationTypes
<1>6. \A b \in Askers \ {a} : InFlight(b)' => InFlight(b) /\ ~ask'[b].alone
  BY <1>2, <1>4 DEF InFlight
<1>7. AloneIsAlone'
  BY <1>1, <1>4, <1>6 DEF AloneIsAlone
<1>8. NoneExists'
  BY <1>1, <1>4, <1>6 DEF NoneExists, Exists
<1> QED
  BY <1>5, <1>7, <1>8 DEF OneFixPerApproachUnlessExcused

\* A row is added to the end.
LEMMA FixIsAppended ==
    ASSUME fixes \in Seq(FixRows), NEW row \in FixRows, fixes' = Append(fixes, row)
    PROVE  /\ fixes' \in Seq(FixRows) /\ Len(fixes') = Len(fixes) + 1
           /\ DOMAIN fixes = 1..Len(fixes) /\ DOMAIN fixes' = 1..(Len(fixes) + 1)
           /\ \A i \in DOMAIN fixes : i \in DOMAIN fixes' /\ fixes'[i] = fixes[i]
           /\ \A i \in DOMAIN fixes' \ DOMAIN fixes : i = Len(fixes) + 1
           /\ fixes'[Len(fixes) + 1] = row
  OBVIOUS

LEMMA StoreFixKeeps ==
    ASSUME RemediationIInv, NEW a \in Askers, NEW approach \in Approaches, StoreFix(a, approach)
    PROVE  RemediationIInv'
<1> USE DEF RemediationIInv
<1> DEFINE row == [approach |-> approach, reviewer |-> NOBODY,
                   excused |-> ask[a].force \/ ~ask[a].alone]
           r == [NoAsk EXCEPT !.pc = "idle"]
<1>1. /\ row \in FixRows /\ row.approach = approach
      /\ row.excused <=> ask[a].force \/ ~ask[a].alone
  BY DEF FixRows
<1>2. r \in AskStates /\ r.pc = "idle"
  BY DEF NoAsk, AskStates
<1>3. /\ fixes' = Append(fixes, row) /\ ask' = [ask EXCEPT ![a] = r]
      /\ UNCHANGED review /\ InFlight(a) /\ approach \in InferredApproaches(a)
  BY DEF StoreFix, Ends, InFlight
<1> HIDE DEF row, r
<1>4. /\ fixes' \in Seq(FixRows) /\ Len(fixes') = Len(fixes) + 1
      /\ DOMAIN fixes = 1..Len(fixes) /\ DOMAIN fixes' = 1..(Len(fixes) + 1)
      /\ \A i \in DOMAIN fixes : i \in DOMAIN fixes' /\ fixes'[i] = fixes[i]
      /\ \A i \in DOMAIN fixes' \ DOMAIN fixes : i = Len(fixes) + 1
      /\ fixes'[Len(fixes) + 1] = row
  <2>1. fixes \in Seq(FixRows)
    BY DEF RemediationTypes
  <2> QED
    BY <1>1, <1>3, <2>1, FixIsAppended
<1>5. RemediationTypes'
  <2>1. Len(fixes) \in Nat
    BY DEF RemediationTypes
  <2>2. \A n \in 0..Len(fixes) : n \in 0..Len(fixes')
    BY <1>4, <2>1
  <2>3. review' \in [Reviewers -> [fix : 0..Len(fixes'), fresh : BOOLEAN]]
    BY <1>3, <2>2 DEF RemediationTypes
  <2>4. ask' \in [Askers -> AskStates]
    BY <1>2, <1>3 DEF RemediationTypes
  <2> QED
    BY <1>3, <1>4, <2>3, <2>4 DEF RemediationTypes
<1>6. ~InFlight(a)' /\ \A b \in Askers \ {a} : ask'[b] = ask[b]
  BY <1>2, <1>3 DEF InFlight, RemediationTypes
<1>7. AloneIsAlone'
  BY <1>6 DEF AloneIsAlone, InFlight
<1>8. NoneExists'
  <2>1. \A b \in Askers : InFlight(b)' => b # a /\ InFlight(b) /\ ~ask[b].alone
    BY <1>3, <1>6 DEF AloneIsAlone, InFlight
  <2> QED
    BY <1>6, <2>1 DEF NoneExists
<1>9. row.excused \/ \A i \in DOMAIN fixes : fixes[i].approach # row.approach
  <2> SUFFICES ASSUME ~row.excused, NEW i \in DOMAIN fixes PROVE fixes[i].approach # row.approach
    OBVIOUS
  <2>1. ~Exists(ask[a].approach)
    BY <1>1, <1>3 DEF NoneExists
  <2> QED
    BY <1>1, <1>3, <2>1 DEF Exists, InferredApproaches
<1>10. OneFixPerApproachUnlessExcused'
  <2> SUFFICES ASSUME NEW i \in DOMAIN fixes', NEW j \in DOMAIN fixes', i # j,
                      fixes'[i].approach = fixes'[j].approach
               PROVE  fixes'[i].excused \/ fixes'[j].excused
    BY DEF OneFixPerApproachUnlessExcused
  <2>1. CASE i \in DOMAIN fixes /\ j \in DOMAIN fixes
    BY <1>4, <2>1 DEF OneFixPerApproachUnlessExcused
  <2>2. CASE i \notin DOMAIN fixes
    BY <1>4, <1>9, <2>2
  <2>3. CASE j \notin DOMAIN fixes
    BY <1>4, <1>9, <2>3
  <2> QED
    BY <2>1, <2>2, <2>3
<1> QED
  BY <1>5, <1>7, <1>8, <1>10

\* What a review leaves of the rows.
Reviewed(r) ==
    /\ fixes' \in Seq(FixRows) /\ Len(fixes') = Len(fixes) /\ DOMAIN fixes' = DOMAIN fixes
    /\ \A i \in DOMAIN fixes :
         /\ fixes'[i].approach = fixes[i].approach /\ fixes'[i].excused = fixes[i].excused
         /\ \/ fixes'[i] = fixes[i]
            \/ review[r].fix = i /\ review[r].fresh /\ fixes'[i].reviewer = r

LEMMA ReviewKeepsTheRows ==
    ASSUME RemediationTypes, NEW r \in Reviewers, ReviewCommit(r)
    PROVE  Reviewed(r)
<1>1. CASE review[r].fresh
  <2> DEFINE i == review[r].fix
             row == [fixes[i] EXCEPT !.reviewer = r]
  <2>1. i \in DOMAIN fixes /\ fixes \in Seq(FixRows) /\ fixes[i] \in FixRows
    BY <1>1 DEF RemediationTypes
  <2>2. /\ row \in FixRows /\ row.reviewer = r
        /\ row.approach = fixes[i].approach /\ row.excused = fixes[i].excused
    BY <2>1 DEF FixRows
  <2>3. fixes' = [fixes EXCEPT ![i] = row]
    BY <1>1 DEF ReviewCommit
  <2> HIDE DEF row
  <2>4. /\ fixes' \in Seq(FixRows) /\ Len(fixes') = Len(fixes) /\ DOMAIN fixes' = DOMAIN fixes
        /\ fixes'[i] = row
        /\ \A j \in DOMAIN fixes \ {i} : fixes'[j] = fixes[j]
    BY <2>1, <2>2, <2>3
  <2> QED
    BY <1>1, <2>2, <2>4 DEF Reviewed
<1>2. CASE ~review[r].fresh
  BY <1>2 DEF ReviewCommit, RemediationTypes, Reviewed
<1> QED
  BY <1>1, <1>2

LEMMA RemediationInductive == RemediationIInv /\ [RemediationNext]_remediationVars => RemediationIInv'
<1> SUFFICES ASSUME RemediationIInv, [RemediationNext]_remediationVars PROVE RemediationIInv'
  OBVIOUS
<1> USE DEF RemediationIInv
<1>1. CASE Dismiss \/ UNCHANGED remediationVars
  BY <1>1 DEF Dismiss, remediationVars, RemediationTypes, AloneIsAlone, NoneExists, InFlight, Exists,
     OneFixPerApproachUnlessExcused
<1>2. ASSUME NEW a \in Askers, NEW approach \in Approaches \cup {ANY}, NEW force \in BOOLEAN,
             ask[a].pc = "idle", Generate(a, approach, force), UNCHANGED <<fixes, review>>
      PROVE  RemediationIInv'
  <2>1. CASE Skipped \/ (~force /\ Exists(approach))
    BY <1>2, <2>1, AskEnds DEF Generate
  <2>2. CASE ~(Skipped \/ (~force /\ Exists(approach)))
    <3>1. Starts(a, approach, force) /\ (force \/ ~Exists(approach)) /\ ~InFlight(a)
      BY <1>2, <2>2 DEF Generate, InFlight
    <3> QED
      BY <1>2, <3>1, AskStarts
  <2> QED
    BY <2>1, <2>2
<1>3. ASSUME NEW a \in Runs, RunNode(a) PROVE RemediationIInv'
  <2>1. a \in Askers /\ ANY \in Approaches \cup {ANY} /\ FALSE \in BOOLEAN
    BY DEF Askers
  <2>2. CASE dify = "disabled"
    BY <1>3, <2>1, <2>2, AskEnds DEF RunNode
  <2>3. CASE dify # "disabled"
    BY <1>2, <1>3, <2>1, <2>3 DEF RunNode
  <2> QED
    BY <2>2, <2>3
<1>4. ASSUME NEW a \in Runs, StartOver(a) PROVE RemediationIInv'
  BY <1>4, AskEnds DEF StartOver, Askers
<1>5. ASSUME NEW a \in Askers, NothingStored(a) PROVE RemediationIInv'
  BY <1>5, AskEnds DEF NothingStored
<1>6. ASSUME NEW a \in Posts, NEW approach \in Approaches \cup {ANY}, NEW force \in BOOLEAN,
             Ask(a, approach, force)
      PROVE  RemediationIInv'
  BY <1>2, <1>6 DEF Ask, Askers
<1>7. ASSUME NEW r \in Reviewers, ReviewCommit(r) PROVE RemediationIInv'
  <2>1. Reviewed(r)
    BY <1>7, ReviewKeepsTheRows
  <2>2. review' = [review EXCEPT ![r] = NoReview] /\ UNCHANGED ask
    BY <1>7 DEF ReviewCommit
  <2>3. NoReview \in [fix : 0..Len(fixes), fresh : BOOLEAN] /\ ~NoReview.fresh
    <3>1. Len(fixes) \in Nat
      BY DEF RemediationTypes
    <3> QED
      BY <3>1 DEF NoReview
  <2> HIDE DEF NoReview
  <2>4. RemediationTypes'
    <3>1. review' \in [Reviewers -> [fix : 0..Len(fixes'), fresh : BOOLEAN]]
      BY <2>1, <2>2, <2>3 DEF RemediationTypes, Reviewed
    <3>2. \A q \in Reviewers : review'[q].fresh => review'[q].fix \in DOMAIN fixes'
      BY <2>1, <2>2, <2>3 DEF RemediationTypes, Reviewed
    <3> QED
      BY <2>1, <2>2, <3>1, <3>2 DEF RemediationTypes, Reviewed
  <2>5. NoneExists' /\ AloneIsAlone'
    BY <2>1, <2>2 DEF NoneExists, AloneIsAlone, InFlight, Exists, Reviewed
  <2> QED
    BY <2>1, <2>4, <2>5 DEF OneFixPerApproachUnlessExcused, Reviewed
<1>8. ASSUME NEW r \in Reviewers, NEW i \in DOMAIN fixes, ReviewLoad(r, i) PROVE RemediationIInv'
  <2> DEFINE q == [fix |-> i, fresh |-> fixes[i].reviewer = NOBODY]
  <2>1. q \in [fix : 0..Len(fixes), fresh : BOOLEAN] /\ q.fix = i
    BY DEF RemediationTypes
  <2>2. review' = [review EXCEPT ![r] = q] /\ UNCHANGED <<fixes, ask>>
    BY <1>8 DEF ReviewLoad
  <2> HIDE DEF q
  <2>3. RemediationTypes'
    BY <2>1, <2>2 DEF RemediationTypes
  <2> QED
    BY <2>2, <2>3 DEF AloneIsAlone, NoneExists, InFlight, Exists, OneFixPerApproachUnlessExcused
<1> QED
  BY <1>1, <1>3, <1>4, <1>5, <1>6, <1>7, <1>8, StoreFixKeeps DEF RemediationNext

(* services/remediation.py: a finding has two fixes of one approach only if *)
(* one of them was forced or generated beside another, for any number of    *)
(* runs, requests, reviews and rows.                                        *)
THEOREM RemediationInvHolds == RemediationSpec => []RemediationInv
<1>1. RemediationIInv => RemediationInv
  <2> SUFFICES ASSUME RemediationTypes PROVE RemediationTypeOK
    BY DEF RemediationIInv, RemediationInv
  <2>1. \A i \in DOMAIN fixes : fixes[i] \in FixRows
    BY DEF RemediationTypes
  <2>2. \A a \in Askers : ask[a].pc \in {"idle", "model", "raised"}
    BY DEF RemediationTypes, AskStates
  <2>3. \A r \in Reviewers : review[r].fix \in 0..Len(fixes)
    BY DEF RemediationTypes
  <2> QED
    BY <2>1, <2>2, <2>3 DEF RemediationTypeOK, FixRows
<1> QED
  BY <1>1, RemediationInitially, RemediationInductive, PTL DEF RemediationSpec

(* review_remediation: no sign-off is taken back, and one is replaced only   *)
(* by a reviewer who had loaded the fix unreviewed.                         *)
THEOREM SignOffStandsHolds == RemediationSpec => SignOffStands
<1> DEFINE Stands ==
      \A i \in DOMAIN fixes :
         fixes[i].reviewer # NOBODY =>
            \/ fixes'[i].reviewer = fixes[i].reviewer
            \/ \E r \in Reviewers :
                  review[r] = [fix |-> i, fresh |-> TRUE] /\ fixes'[i].reviewer = r
<1>1. RemediationIInv /\ [RemediationNext]_remediationVars => [Stands]_remediationVars
  <2> SUFFICES ASSUME RemediationIInv, RemediationNext PROVE Stands
    OBVIOUS
  <2>0. RemediationTypes
    BY DEF RemediationIInv
  <2>1. ASSUME UNCHANGED fixes PROVE Stands
    BY <2>1
  <2>2. ASSUME NEW a \in Askers, NEW approach \in Approaches, StoreFix(a, approach) PROVE Stands
    <3>1. \A i \in DOMAIN fixes : fixes'[i] = fixes[i]
      BY <2>0, <2>2 DEF StoreFix, RemediationTypes
    <3> QED
      BY <3>1
  <2>3. ASSUME NEW r \in Reviewers, ReviewCommit(r) PROVE Stands
    <3>1. Reviewed(r)
      BY <2>0, <2>3, ReviewKeepsTheRows
    <3>2. \A i : review[r].fix = i /\ review[r].fresh => review[r] = [fix |-> i, fresh |-> TRUE]
      BY <2>0 DEF RemediationTypes
    <3> QED
      BY <3>1, <3>2 DEF Reviewed
  <2>4. CASE Dismiss
    BY <2>1, <2>4 DEF Dismiss
  <2>5. CASE \E a \in Runs : RunNode(a) \/ StartOver(a)
    BY <2>1, <2>5 DEF RunNode, StartOver
  <2>6. CASE \E a \in Askers : NothingStored(a)
    BY <2>1, <2>6 DEF NothingStored
  <2>7. CASE \E a \in Posts, approach \in Approaches \cup {ANY}, force \in BOOLEAN :
               Ask(a, approach, force)
    BY <2>1, <2>7, SMTT(40) DEF Ask
  <2>8. CASE \E r \in Reviewers, i \in DOMAIN fixes : ReviewLoad(r, i)
    BY <2>1, <2>8, SMTT(40) DEF ReviewLoad
  <2> QED
    BY <2>2, <2>3, <2>4, <2>5, <2>6, <2>7, <2>8 DEF RemediationNext
<1> QED
  BY <1>1, RemediationInitially, RemediationInductive, PTL DEF RemediationSpec, SignOffStands

-----------------------------------------------------------------------------
(* Conversations                                                           *)

PostPoints == {"idle", "resolved", "numbered", "again", "flushed", "committed", "refused"}
PostStates == [pc : PostPoints, created : BOOLEAN, loaded : 0..MaxMessages, seq : Nat,
               tries : 0..MaxSeqRetries, behind : Nat]

ConversationTypes ==
    /\ opened \in BOOLEAN /\ overlapped \in BOOLEAN
    /\ messageCount \in 0..MaxMessages + 1
    /\ transcript \in Seq(Nat)
    /\ posting \in [Posters -> PostStates]
    /\ overtaken \in [Posters -> Nat]

Underway(p) == posting[p].pc \in {"resolved", "numbered", "flushed"}

\* A number that was read may be taken by now; one that is inserted is the next, and
\* only one transaction holds it.
NumbersHeld ==
    /\ \A p \in Posters : posting[p].pc = "numbered" => posting[p].seq <= Len(transcript)
    /\ \A p \in Posters : posting[p].pc = "flushed" => posting[p].seq = Len(transcript)
    /\ \A p, q \in Posters :
          posting[p].pc = "flushed" /\ posting[q].pc = "flushed" => p = q

\* Every attempt that failed, and every turn since the number was read, is a turn of
\* somebody else.
AttemptsCounted ==
    \A p \in Posters :
       /\ posting[p].tries <= overtaken[p]
       /\ posting[p].pc = "numbered" =>
             posting[p].tries + (Len(transcript) - posting[p].seq) <= overtaken[p]
       /\ posting[p].pc = "refused" => posting[p].tries = MaxSeqRetries
       /\ posting[p].pc # "refused" => posting[p].tries < MaxSeqRetries
       /\ posting[p].pc = "idle" => posting[p].tries = 0

\* What a request loaded is what is there, unless another committed since.
LoadedCounts ==
    /\ messageCount <= Len(transcript)
    /\ ~opened => transcript = << >>
    /\ \A p \in Posters : Underway(p) =>
          /\ posting[p].loaded <= Len(transcript)
          /\ posting[p].behind = 0 =>
                posting[p].loaded = messageCount /\ (posting[p].created => ~opened)

ConversationIInv ==
    /\ ConversationTypes /\ TranscriptDense /\ NumbersHeld /\ AttemptsCounted /\ LoadedCounts
    /\ CountedUnlessOverlapped

LEMMA RetryBounds == 0 \in 0..MaxMessages /\ 0 \in 0..MaxSeqRetries /\ 0 < MaxSeqRetries
  BY ConversationAssumption, SMTT(40)

\* A request at the start of an attempt, or done.
LEMMA PostAtRest ==
    /\ NoPost \in PostStates /\ NoPost.pc = "idle" /\ NoPost.tries = 0
    /\ [NoPost EXCEPT !.pc = "committed"] \in PostStates
    /\ [NoPost EXCEPT !.pc = "committed"].pc = "committed"
    /\ [NoPost EXCEPT !.pc = "committed"].tries = 0
    /\ \A pc \in PostPoints, t \in 0..MaxSeqRetries :
          LET r == [NoPost EXCEPT !.pc = pc, !.tries = t]
          IN r \in PostStates /\ r.pc = pc /\ r.tries = t
  BY RetryBounds DEF NoPost, PostStates, PostPoints

\* Who has not begun meets every condition.
LEMMA RestIsQuiet ==
    /\ NoPost.pc = "idle" /\ NoPost.tries = 0
    /\ NoPost.pc \notin {"resolved", "numbered", "again", "flushed", "committed", "refused"}
  BY DEF NoPost

LEMMA OneMoreBehind ==
    ASSUME NEW t \in Nat, NEW s \in Nat, NEW l \in Nat, NEW o \in Nat, t + (l - s) <= o
    PROVE  t + ((l + 1) - s) <= o + 1
  OBVIOUS

\* Another turn leaves a request behind by one more.
LEMMA LeftBehind ==
    ASSUME NEW r \in PostStates
    PROVE  LET s == [r EXCEPT !.behind = @ + 1]
           IN /\ s \in PostStates /\ s.pc = r.pc /\ s.seq = r.seq /\ s.tries = r.tries
              /\ s.loaded = r.loaded /\ s.behind = r.behind + 1
<1>1. r.behind + 1 \in Nat
  BY DEF PostStates
<1> QED
  BY <1>1 DEF PostStates

LEMMA ConversationInitially == ConversationInit => ConversationIInv
<1> SUFFICES ASSUME ConversationInit PROVE ConversationIInv
  OBVIOUS
<1>1. Len(transcript) = 0 /\ transcript \in Seq(Nat) /\ DOMAIN transcript = {}
  BY DEF ConversationInit
<1>2. \A p \in Posters : posting[p] = NoPost /\ overtaken[p] = 0
  BY DEF ConversationInit
<1>0. NoPost \in PostStates
  BY PostAtRest
<1>3. ConversationTypes
  <2>1. messageCount \in 0..MaxMessages + 1
    BY ConversationAssumption DEF ConversationInit
  <2>2. posting \in [Posters -> PostStates] /\ overtaken \in [Posters -> Nat]
    BY <1>0 DEF ConversationInit
  <2> QED
    BY <1>1, <2>1, <2>2 DEF ConversationInit, ConversationTypes
<1>4. TranscriptDense /\ CountedUnlessOverlapped
  BY <1>1 DEF ConversationInit, TranscriptDense, CountedUnlessOverlapped
<1>5. NumbersHeld /\ AttemptsCounted
  BY <1>2, RestIsQuiet, RetryBounds DEF NumbersHeld, AttemptsCounted
<1>6. LoadedCounts
  BY <1>1, <1>2, RestIsQuiet DEF ConversationInit, LoadedCounts, Underway
<1> QED
  BY <1>3, <1>4, <1>5, <1>6 DEF ConversationIInv

LEMMA MaxOfInterval == ASSUME NEW n \in Nat PROVE Max(0..n) = n
<1>1. n \in 0..n /\ \A y \in 0..n : n >= y
  OBVIOUS
<1>2. \A x \in 0..n : (\A y \in 0..n : x >= y) => x = n
  OBVIOUS
<1> QED
  BY <1>1, <1>2 DEF Max

\* The numbers of a dense transcript are those below its length, and the next is the
\* length.
LEMMA NumbersOfDense ==
    ASSUME ConversationTypes, TranscriptDense
    PROVE  /\ Numbers = {n \in Nat : n < Len(transcript)}
           /\ \A p : NextNumber(p) = Len(transcript)
<1>1. Len(transcript) \in Nat /\ DOMAIN transcript = 1..Len(transcript)
  BY DEF ConversationTypes
<1>2. Numbers = {n \in Nat : n < Len(transcript)}
  <2>1. ASSUME NEW n \in Numbers PROVE n \in Nat /\ n < Len(transcript)
    BY <1>1, <2>1 DEF Numbers, ToSet, TranscriptDense
  <2>2. ASSUME NEW n \in Nat, n < Len(transcript) PROVE n \in Numbers
    <3>1. n + 1 \in DOMAIN transcript /\ transcript[n + 1] = n
      BY <1>1, <2>2 DEF TranscriptDense
    <3> QED
      BY <3>1 DEF Numbers, ToSet
  <2> QED
    BY <2>1, <2>2
<1>3. CASE Len(transcript) = 0
  <2>1. Numbers = {}
    BY <1>2, <1>3
  <2> QED
    BY <1>2, <1>3, <2>1 DEF NextNumber
<1>4. CASE Len(transcript) # 0
  <2> DEFINE n == Len(transcript) - 1
  <2>1. n \in Nat /\ Numbers = 0..n
    BY <1>1, <1>2, <1>4
  <2>2. 0 \in Numbers
    BY <2>1
  <2>3. Max(Numbers) = n
    BY <2>1, MaxOfInterval
  <2>4. \A p : NextNumber(p) = n + 1
    BY <2>2, <2>3 DEF NextNumber
  <2> QED
    BY <1>1, <1>2, <2>4
<1> QED
  BY <1>3, <1>4

\* A step of p that commits nothing.
LEMMA TurnOfOne ==
    ASSUME ConversationIInv, NEW p \in Posters, NEW r \in PostStates, NEW n \in Nat,
           posting' = [posting EXCEPT ![p] = r], overtaken' = [overtaken EXCEPT ![p] = n],
           UNCHANGED <<opened, messageCount, transcript, overlapped>>,
           r.pc = "numbered" => r.seq <= Len(transcript),
           r.pc = "flushed" => /\ r.seq = Len(transcript)
                               /\ \A q \in Posters \ {p} : posting[q].pc # "flushed",
           r.tries <= n,
           r.pc = "numbered" => r.tries + (Len(transcript) - r.seq) <= n,
           r.pc = "refused" => r.tries = MaxSeqRetries,
           r.pc # "refused" => r.tries < MaxSeqRetries,
           r.pc = "idle" => r.tries = 0,
           r.pc \in {"resolved", "numbered", "flushed"} =>
              /\ r.loaded <= Len(transcript)
              /\ r.behind = 0 => r.loaded = messageCount /\ (r.created => ~opened)
    PROVE  ConversationIInv'
<1>1. posting'[p] = r /\ \A q \in Posters \ {p} : posting'[q] = posting[q]
  BY DEF ConversationIInv, ConversationTypes
<1>2. overtaken'[p] = n /\ \A q \in Posters \ {p} : overtaken'[q] = overtaken[q]
  BY DEF ConversationIInv, ConversationTypes
<1>3. ConversationTypes'
  BY DEF ConversationIInv, ConversationTypes
<1>4. TranscriptDense' /\ CountedUnlessOverlapped'
  BY DEF ConversationIInv, TranscriptDense, CountedUnlessOverlapped
<1>5. NumbersHeld'
  BY <1>1 DEF ConversationIInv, NumbersHeld
<1>6. AttemptsCounted'
  BY <1>1, <1>2 DEF ConversationIInv, AttemptsCounted
<1>7. LoadedCounts'
  BY <1>1 DEF ConversationIInv, LoadedCounts, Underway
<1> QED
  BY <1>3, <1>4, <1>5, <1>6, <1>7 DEF ConversationIInv

LEMMA ConversationStep ==
    ASSUME ConversationIInv, [ConversationNext]_conversationVars
    PROVE  ConversationIInv'
<1>0. /\ ConversationTypes /\ TranscriptDense /\ NumbersHeld /\ AttemptsCounted /\ LoadedCounts
      /\ CountedUnlessOverlapped
  BY DEF ConversationIInv
<1>1. CASE UNCHANGED conversationVars
  BY <1>1 DEF conversationVars, ConversationIInv, ConversationTypes, TranscriptDense,
     NumbersHeld, AttemptsCounted, LoadedCounts, Underway, CountedUnlessOverlapped
<1>2. ASSUME NEW p \in Posters, ResolveConversation(p) PROVE ConversationIInv'
  <2> DEFINE r == [posting[p] EXCEPT !.pc = "resolved", !.created = ~opened,
                                     !.loaded = messageCount, !.behind = 0]
             n == IF posting[p].pc = "idle" THEN 0 ELSE overtaken[p]
  <2>1. messageCount \in 0..MaxMessages
    BY <1>0, <1>2, ConversationAssumption
    DEF ConversationTypes, ResolveConversation, LoadedCounts
  <2>2. posting[p] \in PostStates /\ n \in Nat
    BY <1>0 DEF ConversationTypes
  <2>3. /\ r \in PostStates /\ r.pc = "resolved" /\ r.created = ~opened
        /\ r.loaded = messageCount /\ r.tries = posting[p].tries
    BY <1>0, <2>1, <2>2 DEF PostStates, PostPoints, ConversationTypes
  <2>4. posting[p].pc \in {"idle", "again"} /\ r.tries <= n /\ r.tries < MaxSeqRetries
    BY <1>0, <1>2, <2>3 DEF AttemptsCounted, ResolveConversation
  <2>5. posting' = [posting EXCEPT ![p] = r] /\ overtaken' = [overtaken EXCEPT ![p] = n]
    BY <1>0, <1>2 DEF ResolveConversation, ConversationTypes
  <2>6. messageCount <= Len(transcript)
    BY <1>0 DEF LoadedCounts
  <2>7. UNCHANGED <<opened, messageCount, transcript, overlapped>>
    BY <1>2 DEF ResolveConversation
  <2> HIDE DEF r, n
  <2> QED
    BY <2>2, <2>3, <2>4, <2>5, <2>6, <2>7, TurnOfOne
<1>3. ASSUME NEW p \in Posters, NextMessageSeq(p) PROVE ConversationIInv'
  <2> DEFINE r == [posting[p] EXCEPT !.pc = "numbered", !.seq = NextNumber(p)]
             n == overtaken[p]
  <2>1. NextNumber(p) = Len(transcript) /\ Len(transcript) \in Nat
    BY <1>0, NumbersOfDense DEF ConversationTypes
  <2>2. posting[p] \in PostStates /\ n \in Nat
    BY <1>0 DEF ConversationTypes
  <2>3. /\ r \in PostStates /\ r.pc = "numbered" /\ r.seq = Len(transcript)
        /\ r.created = posting[p].created /\ r.loaded = posting[p].loaded
        /\ r.tries = posting[p].tries /\ r.behind = posting[p].behind
    BY <1>0, <2>1, <2>2 DEF PostStates, PostPoints, ConversationTypes
  <2>4. r.tries <= n /\ r.tries < MaxSeqRetries /\ r.tries \in Nat
    BY <1>0, <1>3, <2>2, <2>3, SMTT(40) DEF AttemptsCounted, NextMessageSeq, PostStates
  <2>5. r.tries + (Len(transcript) - r.seq) <= n
    BY <2>1, <2>2, <2>3, <2>4
  <2>6. posting' = [posting EXCEPT ![p] = r] /\ overtaken' = [overtaken EXCEPT ![p] = n]
    BY <1>0, <1>3 DEF NextMessageSeq, ConversationTypes
  <2>7. /\ r.loaded <= Len(transcript)
        /\ r.behind = 0 => r.loaded = messageCount /\ (r.created => ~opened)
    BY <1>0, <1>3, <2>3 DEF LoadedCounts, Underway, NextMessageSeq
  <2>8. UNCHANGED <<opened, messageCount, transcript, overlapped>>
    BY <1>3 DEF NextMessageSeq
  <2>9. r.seq <= Len(transcript)
    BY <2>1, <2>3
  <2> HIDE DEF r, n
  <2> QED
    BY <2>2, <2>3, <2>4, <2>5, <2>6, <2>7, <2>8, <2>9, TurnOfOne
<1>4. ASSUME NEW p \in Posters, Flush(p) PROVE ConversationIInv'
  <2> DEFINE n == overtaken[p]
  <2>1. posting[p] \in PostStates /\ n \in Nat /\ Len(transcript) \in Nat
    BY <1>0 DEF ConversationTypes
  <2>2. /\ posting[p].pc = "numbered" /\ posting[p].seq <= Len(transcript)
        /\ posting[p].tries + (Len(transcript) - posting[p].seq) <= n
        /\ posting[p].tries < MaxSeqRetries /\ posting[p].tries <= n
    BY <1>0, <1>4 DEF Flush, NumbersHeld, AttemptsCounted
  <2>3. posting[p].seq \in Nat /\ posting[p].tries \in Nat
    BY <2>1 DEF PostStates
  <2>4. Numbers = {k \in Nat : k < Len(transcript)}
    BY <1>0, NumbersOfDense
  <2>5. overtaken' = [overtaken EXCEPT ![p] = n]
    BY <1>0, <1>4 DEF Flush, ConversationTypes
  <2>6. UNCHANGED <<opened, messageCount, transcript, overlapped>>
    BY <1>4 DEF Flush
  <2>7. CASE posting[p].seq \in Numbers
    <3> DEFINE r == [NoPost EXCEPT
                       !.pc = IF posting[p].tries + 1 = MaxSeqRetries THEN "refused" ELSE "again",
                       !.tries = posting[p].tries + 1]
    <3>1. posting' = [posting EXCEPT ![p] = r]
      BY <1>4, <2>7 DEF Flush
    <3>2. posting[p].seq < Len(transcript)
      BY <2>4, <2>7
    <3>3. posting[p].tries + 1 <= n
      BY <2>1, <2>2, <2>3, <3>2
    <3>4. posting[p].tries + 1 \in 0..MaxSeqRetries
      BY <2>2, <2>3, ConversationAssumption
    <3>5. /\ r \in PostStates /\ r.tries = posting[p].tries + 1
          /\ r.pc = IF posting[p].tries + 1 = MaxSeqRetries THEN "refused" ELSE "again"
      <4> DEFINE pc == IF posting[p].tries + 1 = MaxSeqRetries THEN "refused" ELSE "again"
                 t == posting[p].tries + 1
      <4>1. pc \in PostPoints /\ t \in 0..MaxSeqRetries
        BY <3>4 DEF PostPoints
      <4>2. \A c \in PostPoints, m \in 0..MaxSeqRetries :
               /\ [NoPost EXCEPT !.pc = c, !.tries = m] \in PostStates
               /\ [NoPost EXCEPT !.pc = c, !.tries = m].pc = c
               /\ [NoPost EXCEPT !.pc = c, !.tries = m].tries = m
        BY PostAtRest
      <4> HIDE DEF pc, t
      <4>3. /\ [NoPost EXCEPT !.pc = pc, !.tries = t] \in PostStates
            /\ [NoPost EXCEPT !.pc = pc, !.tries = t].pc = pc
            /\ [NoPost EXCEPT !.pc = pc, !.tries = t].tries = t
        BY <4>1, <4>2
      <4> USE DEF pc, t
      <4> QED
        BY <4>3
    <3>6. /\ r.pc \in {"refused", "again"} /\ r.tries <= n
          /\ r.pc = "refused" => r.tries = MaxSeqRetries
          /\ r.pc # "refused" => r.tries < MaxSeqRetries
      BY <3>3, <3>4, <3>5, ConversationAssumption
    <3> HIDE DEF r, n
    <3> QED
      BY <2>1, <2>5, <2>6, <3>1, <3>5, <3>6, TurnOfOne
  <2>8. CASE posting[p].seq \notin Numbers
    <3> DEFINE r == [posting[p] EXCEPT !.pc = "flushed"]
    <3>1. posting' = [posting EXCEPT ![p] = r]
      BY <1>0, <1>4, <2>8 DEF Flush, ConversationTypes
    <3>2. posting[p].seq = Len(transcript)
      BY <2>1, <2>2, <2>3, <2>4, <2>8
    <3>3. \A q \in Posters \ {p} : posting[q].pc # "flushed"
      BY <1>0, <1>4, <3>2 DEF NumbersHeld, Flush
    <3>4. /\ r \in PostStates /\ r.pc = "flushed" /\ r.seq = posting[p].seq
          /\ r.created = posting[p].created /\ r.loaded = posting[p].loaded
          /\ r.tries = posting[p].tries /\ r.behind = posting[p].behind
      BY <2>1 DEF PostStates, PostPoints
    <3>5. /\ r.loaded <= Len(transcript)
          /\ r.behind = 0 => r.loaded = messageCount /\ (r.created => ~opened)
      BY <1>0, <2>2, <3>4 DEF LoadedCounts, Underway
    <3> HIDE DEF r, n
    <3> QED
      BY <2>1, <2>2, <2>5, <2>6, <3>1, <3>2, <3>3, <3>4, <3>5, TurnOfOne
  <2> QED
    BY <2>7, <2>8
<1>5. ASSUME NEW p \in Posters, CommitTurn(p) PROVE ConversationIInv'
  <2> DEFINE k == Len(transcript)
  <2>1. posting[p] \in PostStates /\ k \in Nat /\ transcript \in Seq(Nat)
    BY <1>0 DEF ConversationTypes
  <2>2. posting[p].pc = "flushed" /\ posting[p].seq = k
    BY <1>0, <1>5 DEF CommitTurn, NumbersHeld
  <2>3. /\ transcript' = Append(transcript, k) /\ Len(transcript') = k + 1
        /\ transcript' \in Seq(Nat) /\ opened' = TRUE
        /\ \A i \in 1..k : transcript'[i] = transcript[i]
        /\ transcript'[k + 1] = k /\ DOMAIN transcript' = 1..(k + 1)
    BY <1>5, <2>1, <2>2 DEF CommitTurn
  <2>4. posting'[p] = [NoPost EXCEPT !.pc = "committed"] /\ overtaken'[p] = overtaken[p]
    BY <1>5 DEF CommitTurn
  <2>5. \A q \in Posters \ {p} :
           /\ posting'[q] = [posting[q] EXCEPT !.behind = @ + 1]
           /\ overtaken'[q] = overtaken[q] + 1
    BY <1>5 DEF CommitTurn
  <2>6. /\ posting'[p] \in PostStates /\ posting'[p].pc = "committed" /\ posting'[p].tries = 0
        /\ \A q \in Posters \ {p} :
              /\ posting'[q] \in PostStates
              /\ posting'[q].pc = posting[q].pc /\ posting'[q].seq = posting[q].seq
              /\ posting'[q].tries = posting[q].tries /\ posting'[q].loaded = posting[q].loaded
              /\ posting'[q].behind = posting[q].behind + 1
    <3>1. posting'[p] \in PostStates /\ posting'[p].pc = "committed" /\ posting'[p].tries = 0
      BY <2>4, PostAtRest
    <3>2. ASSUME NEW q \in Posters \ {p}
          PROVE  /\ posting'[q] \in PostStates
                 /\ posting'[q].pc = posting[q].pc /\ posting'[q].seq = posting[q].seq
                 /\ posting'[q].tries = posting[q].tries /\ posting'[q].loaded = posting[q].loaded
                 /\ posting'[q].behind = posting[q].behind + 1
      <4>1. posting[q] \in PostStates
        BY <1>0 DEF ConversationTypes
      <4> QED
        BY <2>5, <4>1, LeftBehind
    <3> QED
      BY <3>1, <3>2
  <2>7. /\ posting[p].loaded <= k
        /\ posting[p].behind = 0 =>
              posting[p].loaded = messageCount /\ (posting[p].created => ~opened)
    BY <1>0, <2>2 DEF LoadedCounts, Underway
  <2>8. messageCount' \in 0..MaxMessages + 1 /\ messageCount' <= k + 1
    BY <1>5, <2>1, <2>7, ConversationAssumption, SMTT(40) DEF CommitTurn, PostStates
  <2>9. ConversationTypes'
    <3>1. posting' \in [Posters -> PostStates]
      <4>1. posting' = [q \in Posters |-> posting'[q]]
        BY <1>5 DEF CommitTurn
      <4> QED
        BY <2>6, <4>1
    <3>2. overtaken' \in [Posters -> Nat]
      BY <1>0, <1>5 DEF CommitTurn, ConversationTypes
    <3>3. overlapped' \in BOOLEAN
      BY <1>0, <1>5 DEF CommitTurn, ConversationTypes
    <3> QED
      BY <2>3, <2>8, <3>1, <3>2, <3>3 DEF ConversationTypes
  <2>10. TranscriptDense'
    <3>1. \A i \in 1..k : transcript[i] = i - 1
      BY <1>0, <2>1 DEF TranscriptDense
    <3>2. \A i \in 1..(k + 1) : transcript'[i] = i - 1
      BY <2>1, <2>3, <3>1
    <3> QED
      BY <2>3, <3>2 DEF TranscriptDense
  <2>11. NumbersHeld'
    <3>1. \A q \in Posters \ {p} : posting[q].pc # "flushed"
      BY <1>0, <2>2 DEF NumbersHeld
    <3>2. \A q \in Posters \ {p} : posting[q].pc = "numbered" => posting[q].seq <= k + 1
      <4>1. \A q \in Posters : posting[q].seq \in Nat
        BY <1>0 DEF ConversationTypes, PostStates
      <4> QED
        BY <1>0, <2>1, <4>1 DEF NumbersHeld
    <3> QED
      BY <2>3, <2>6, <3>1, <3>2 DEF NumbersHeld
  <2>12. AttemptsCounted'
    <3>1. ASSUME NEW q \in Posters \ {p}
          PROVE  /\ posting'[q].tries <= overtaken'[q]
                 /\ posting'[q].pc = "numbered" =>
                       posting'[q].tries + ((k + 1) - posting'[q].seq) <= overtaken'[q]
      <4>1. posting[q].tries \in Nat /\ posting[q].seq \in Nat /\ overtaken[q] \in Nat
        BY <1>0, SMTT(40) DEF ConversationTypes, PostStates
      <4>2. /\ posting[q].tries <= overtaken[q]
            /\ posting[q].pc = "numbered" =>
                  posting[q].tries + (k - posting[q].seq) <= overtaken[q]
        BY <1>0 DEF AttemptsCounted
      <4>3. posting[q].tries <= overtaken[q] + 1
        BY <4>1, <4>2
      <4>4. posting[q].pc = "numbered" =>
               posting[q].tries + ((k + 1) - posting[q].seq) <= overtaken[q] + 1
        <5> SUFFICES ASSUME posting[q].pc = "numbered"
                     PROVE posting[q].tries + ((k + 1) - posting[q].seq) <= overtaken[q] + 1
          OBVIOUS
        <5>1. posting[q].tries + (k - posting[q].seq) <= overtaken[q]
          BY <4>2
        <5> HIDE DEF k
        <5> QED
          BY <2>1, <4>1, <5>1, OneMoreBehind
      <4> QED
        BY <2>5, <2>6, <4>3, <4>4
    <3>2. /\ 0 <= overtaken'[p]
          /\ posting'[p].pc = "committed" /\ posting'[p].tries = 0
      BY <1>0, <2>4, <2>6 DEF ConversationTypes
    <3>3. \A q \in Posters \ {p} :
             /\ posting'[q].pc = "refused" => posting'[q].tries = MaxSeqRetries
             /\ posting'[q].pc # "refused" => posting'[q].tries < MaxSeqRetries
             /\ posting'[q].pc = "idle" => posting'[q].tries = 0
      BY <1>0, <2>6 DEF AttemptsCounted
    <3>4. \A q \in Posters \ {p} :
             /\ posting'[q].tries <= overtaken'[q]
             /\ posting'[q].pc = "numbered" =>
                   posting'[q].tries + (Len(transcript') - posting'[q].seq) <= overtaken'[q]
      <4> SUFFICES ASSUME NEW q \in Posters \ {p}
                   PROVE  /\ posting'[q].tries <= overtaken'[q]
                          /\ posting'[q].pc = "numbered" =>
                                posting'[q].tries + (Len(transcript') - posting'[q].seq)
                                   <= overtaken'[q]
        OBVIOUS
      <4>1. Len(transcript') = k + 1
        BY <2>3
      <4>2. /\ posting'[q].tries <= overtaken'[q]
            /\ posting'[q].pc = "numbered" =>
                  posting'[q].tries + ((k + 1) - posting'[q].seq) <= overtaken'[q]
        BY <3>1
      <4> HIDE DEF k
      <4> QED
        BY <4>1, <4>2
    <3> HIDE DEF k
    <3> QED
      BY <3>2, <3>3, <3>4, RetryBounds DEF AttemptsCounted
  <2>13. LoadedCounts'
    <3>1. ASSUME NEW q \in Posters \ {p}, Underway(q)'
          PROVE  posting'[q].loaded <= k + 1 /\ posting'[q].behind # 0
      <4>1. posting[q].loaded \in Nat /\ posting[q].behind \in Nat
        BY <1>0, SMTT(40) DEF ConversationTypes, PostStates
      <4>2. posting[q].loaded <= k
        BY <1>0, <2>6, <3>1 DEF LoadedCounts, Underway
      <4> QED
        BY <2>1, <2>6, <4>1, <4>2
    <3>2. ~Underway(p)'
      BY <2>6 DEF Underway
    <3> QED
      BY <2>3, <2>8, <3>1, <3>2 DEF LoadedCounts
  <2>14. CountedUnlessOverlapped'
    <3>1. CASE posting[p].behind > 0
      BY <1>5, <3>1 DEF CommitTurn, CountedUnlessOverlapped
    <3>2. CASE posting[p].behind = 0 /\ posting[p].created
      <4>1. k = 0
        BY <1>0, <2>7, <3>2 DEF LoadedCounts
      <4> QED
        BY <1>5, <2>3, <3>2, <4>1 DEF CommitTurn, CountedUnlessOverlapped
    <3>3. CASE posting[p].behind = 0 /\ ~posting[p].created
      <4>1. overlapped \/ messageCount = k
        BY <1>0 DEF CountedUnlessOverlapped
      <4> QED
        BY <1>5, <2>3, <2>7, <3>3, <4>1 DEF CommitTurn, CountedUnlessOverlapped
    <3>4. posting[p].behind \in Nat
      BY <2>1 DEF PostStates
    <3> QED
      BY <3>1, <3>2, <3>3, <3>4
  <2> QED
    BY <2>9, <2>10, <2>11, <2>12, <2>13, <2>14 DEF ConversationIInv
<1>6. ASSUME NEW p \in Posters, PostEnds(p) PROVE ConversationIInv'
  <2>0. NoPost \in PostStates
    BY PostAtRest
  <2>1. NoPost.tries <= 0 /\ NoPost.tries = 0
    BY RestIsQuiet
  <2>2. /\ posting' = [posting EXCEPT ![p] = NoPost] /\ overtaken' = [overtaken EXCEPT ![p] = 0]
        /\ UNCHANGED <<opened, messageCount, transcript, overlapped>>
    BY <1>6 DEF PostEnds
  <2>3. 0 < MaxSeqRetries /\ 0 \in Nat
    BY RetryBounds
  <2>4. NoPost.tries < MaxSeqRetries
    BY <2>1, <2>3
  <2> QED
    BY <2>0, <2>1, <2>2, <2>3, <2>4, RestIsQuiet, TurnOfOne
<1> QED
  BY <1>1, <1>2, <1>3, <1>4, <1>5, <1>6 DEF ConversationNext

(* api/v1/agent.py: however many requests post into a conversation, its      *)
(* turns are numbered without a gap in the order of their commits, nobody is *)
(* turned away before as many others got in, and the counter is right unless *)
(* a stale one was written back.                                            *)
THEOREM ConversationInvHolds == ConversationSpec => []ConversationInv
<1>1. ConversationIInv => ConversationInv
  <2> SUFFICES ASSUME ConversationIInv PROVE ConversationInv
    OBVIOUS
  <2>1. /\ ConversationTypes /\ TranscriptDense /\ AttemptsCounted /\ CountedUnlessOverlapped
    BY DEF ConversationIInv
  <2>2. \A p \in Posters : posting[p] \in PostStates
    BY <2>1 DEF ConversationTypes
  <2>3. ConversationTypeOK
    BY <2>1, <2>2, ConversationAssumption
    DEF ConversationTypes, ConversationTypeOK, PostStates, PostPoints
  <2>4. RefusedOnlyWhenOvertaken
    BY <2>1, ConversationAssumption DEF AttemptsCounted, RefusedOnlyWhenOvertaken, ConversationTypes
  <2> QED
    BY <2>1, <2>3, <2>4 DEF ConversationInv
<1>2. ConversationIInv /\ [ConversationNext]_conversationVars => ConversationIInv'
  BY ConversationStep
<1> QED
  BY <1>1, <1>2, ConversationInitially, PTL DEF ConversationSpec

-----------------------------------------------------------------------------
(* The event stream                                                        *)

StreamEvents == [id : Nat \ {0}, seq : 0..MaxEvents]

Ids(q) == {q[a].id : a \in DOMAIN q}
Shown == {page.shown[k] : k \in DOMAIN page.shown}

\* Events in publishing order, and every event at most once.
Rising(q) == \A a, b \in DOMAIN q : a < b => q[a].id < q[b].id
Different(q) == \A a, b \in DOMAIN q : q[a].id = q[b].id => a = b

\* What was published before an event of q is accounted for in K or ahead of it in q.
Follows(q, K) ==
    \A a \in DOMAIN q : \A i \in 1..(q[a].id - 1) : i \in K \/ \E b \in 1..(a - 1) : q[b].id = i

\* The events of q were published under the numbers they carry.
Real(q, P) == \A a \in DOMAIN q : q[a].id \in DOMAIN P /\ q[a].seq = P[q[a].id]

LEMMA TailOfEvents ==
  ASSUME NEW q \in Seq(StreamEvents), q # << >>
  PROVE  /\ Head(q) = q[1] /\ Head(q) \in StreamEvents
         /\ Tail(q) \in Seq(StreamEvents)
         /\ Len(q) \in Nat \ {0} /\ DOMAIN q = 1..Len(q)
         /\ Len(Tail(q)) = Len(q) - 1 /\ DOMAIN Tail(q) = 1..(Len(q) - 1)
         /\ \A a \in 1..(Len(q) - 1) : Tail(q)[a] = q[a + 1]
         /\ Ids(q) = Ids(Tail(q)) \cup {Head(q).id}
<1>1. /\ Head(q) \in StreamEvents /\ Tail(q) \in Seq(StreamEvents)
      /\ Len(Tail(q)) = Len(q) - 1
      /\ \A a \in 1..Len(Tail(q)) : Tail(q)[a] = q[a + 1]
  BY HeadTailProperties
<1>2. Head(q) = q[1]
  OBVIOUS
<1>3. Len(q) \in Nat \ {0} /\ DOMAIN q = 1..Len(q)
  BY EmptySeq, LenProperties
<1>4. DOMAIN Tail(q) = 1..(Len(q) - 1)
  BY <1>1, LenProperties
<1>5. \A a \in 1..(Len(q) - 1) : Tail(q)[a] = q[a + 1]
  BY <1>1
<1>6. Ids(q) \subseteq Ids(Tail(q)) \cup {Head(q).id}
  <2> SUFFICES ASSUME NEW a \in 1..Len(q) PROVE q[a].id \in Ids(Tail(q)) \cup {Head(q).id}
    BY <1>3 DEF Ids
  <2>1. CASE a = 1
    BY <2>1, <1>2
  <2>2. CASE a # 1
    <3>1. a - 1 \in 1..(Len(q) - 1) /\ (a - 1) + 1 = a
      BY <2>2, <1>3
    <3>2. Tail(q)[a - 1] = q[(a - 1) + 1]
      BY <3>1, <1>5
    <3> QED
      BY <3>1, <3>2, <1>4 DEF Ids
  <2> QED
    BY <2>1, <2>2
<1>7. Ids(Tail(q)) \cup {Head(q).id} \subseteq Ids(q)
  <2>1. Head(q).id \in Ids(q)
    BY <1>2, <1>3 DEF Ids
  <2>2. ASSUME NEW a \in 1..(Len(q) - 1) PROVE Tail(q)[a].id \in Ids(q)
    <3>1. a + 1 \in 1..Len(q) /\ Tail(q)[a] = q[a + 1]
      BY <1>3, <1>5
    <3> QED
      BY <3>1, <1>3 DEF Ids
  <2> QED
    BY <2>1, <2>2, <1>4 DEF Ids
<1> QED
  BY <1>1, <1>2, <1>3, <1>4, <1>5, <1>6, <1>7

LEMMA AppendOfEvents ==
  ASSUME NEW q \in Seq(StreamEvents), NEW e \in StreamEvents
  PROVE  /\ Append(q, e) \in Seq(StreamEvents)
         /\ Len(q) \in Nat /\ DOMAIN q = 1..Len(q)
         /\ DOMAIN Append(q, e) = 1..(Len(q) + 1)
         /\ Len(Append(q, e)) = Len(q) + 1
         /\ \A a \in 1..Len(q) : Append(q, e)[a] = q[a]
         /\ Append(q, e)[Len(q) + 1] = e
         /\ Ids(Append(q, e)) = Ids(q) \cup {e.id}
<1>1. /\ Append(q, e) \in Seq(StreamEvents)
      /\ Len(Append(q, e)) = Len(q) + 1
      /\ \A a \in 1..Len(q) : Append(q, e)[a] = q[a]
      /\ Append(q, e)[Len(q) + 1] = e
  BY AppendProperties
<1>2. Len(q) \in Nat /\ DOMAIN q = 1..Len(q)
  BY LenProperties
<1>3. DOMAIN Append(q, e) = 1..(Len(q) + 1)
  BY <1>1, LenProperties
<1>4. \A a \in 1..(Len(q) + 1) : a \in 1..Len(q) \/ a = Len(q) + 1
  BY <1>2
<1>5. Len(q) + 1 \in 1..(Len(q) + 1) /\ 1..Len(q) \subseteq 1..(Len(q) + 1)
  BY <1>2
<1>6. Ids(Append(q, e)) = Ids(q) \cup {e.id}
  BY <1>1, <1>2, <1>3, <1>4, <1>5, Zenon DEF Ids
<1> QED
  BY <1>1, <1>2, <1>3, <1>6

LEMMA TailKeeps ==
  ASSUME NEW q \in Seq(StreamEvents), q # << >>, NEW K, NEW P
  PROVE  /\ Rising(q) => Rising(Tail(q)) /\ Head(q).id \notin Ids(Tail(q))
         /\ Different(q) => Different(Tail(q)) /\ Head(q).id \notin Ids(Tail(q))
         /\ Real(q, P) => /\ Real(Tail(q), P)
                          /\ Head(q).id \in DOMAIN P /\ Head(q).seq = P[Head(q).id]
         /\ Follows(q, K) => /\ \A i \in 1..(Head(q).id - 1) : i \in K
                             /\ \A L : K \subseteq L /\ Head(q).id \in L => Follows(Tail(q), L)
<1>1. /\ Head(q) = q[1]
      /\ Len(q) \in Nat \ {0} /\ DOMAIN q = 1..Len(q)
      /\ DOMAIN Tail(q) = 1..(Len(q) - 1)
      /\ \A a \in 1..(Len(q) - 1) : Tail(q)[a] = q[a + 1]
  BY TailOfEvents
<1>2. \A a \in 1..(Len(q) - 1) : a + 1 \in 1..Len(q) /\ 1 < a + 1
  BY <1>1
<1>3. \A a \in 1..Len(q) : q[a].id \in Nat \ {0}
  <2>1. \A a \in 1..Len(q) : q[a] \in StreamEvents
    BY ElementOfSeq
  <2> QED
    BY <2>1 DEF StreamEvents
<1>4. 1 \in 1..Len(q)
  BY <1>1
<1>5. Rising(q) => Rising(Tail(q)) /\ Head(q).id \notin Ids(Tail(q))
  <2> SUFFICES ASSUME Rising(q) PROVE Rising(Tail(q)) /\ Head(q).id \notin Ids(Tail(q))
    OBVIOUS
  <2>1. Rising(Tail(q))
    <3> SUFFICES ASSUME NEW a \in 1..(Len(q) - 1), NEW b \in 1..(Len(q) - 1), a < b
                 PROVE  Tail(q)[a].id < Tail(q)[b].id
      BY <1>1 DEF Rising
    <3>1. a + 1 \in DOMAIN q /\ b + 1 \in DOMAIN q /\ a + 1 < b + 1
      BY <1>1, <1>2
    <3> QED
      BY <3>1, <1>1 DEF Rising
  <2>2. Head(q).id \notin Ids(Tail(q))
    <3> SUFFICES ASSUME NEW a \in 1..(Len(q) - 1), Tail(q)[a].id = q[1].id PROVE FALSE
      BY <1>1 DEF Ids
    <3>1. q[1].id < q[a + 1].id
      BY <1>1, <1>2, <1>4 DEF Rising
    <3> QED
      BY <3>1, <1>1, <1>2, <1>3, <1>4
  <2> QED
    BY <2>1, <2>2
<1>6. Different(q) => Different(Tail(q)) /\ Head(q).id \notin Ids(Tail(q))
  <2> SUFFICES ASSUME Different(q) PROVE Different(Tail(q)) /\ Head(q).id \notin Ids(Tail(q))
    OBVIOUS
  <2>1. Different(Tail(q))
    <3> SUFFICES ASSUME NEW a \in 1..(Len(q) - 1), NEW b \in 1..(Len(q) - 1),
                        Tail(q)[a].id = Tail(q)[b].id
                 PROVE  a = b
      BY <1>1 DEF Different
    <3>1. a + 1 \in DOMAIN q /\ b + 1 \in DOMAIN q /\ q[a + 1].id = q[b + 1].id
      BY <1>1, <1>2
    <3>2. a + 1 = b + 1
      BY <3>1 DEF Different
    <3> QED
      BY <3>2
  <2>2. Head(q).id \notin Ids(Tail(q))
    <3> SUFFICES ASSUME NEW a \in 1..(Len(q) - 1), Tail(q)[a].id = q[1].id PROVE FALSE
      BY <1>1 DEF Ids
    <3>1. q[a + 1].id = q[1].id /\ a + 1 \in DOMAIN q /\ 1 \in DOMAIN q /\ a + 1 # 1
      BY <1>1, <1>2
    <3> QED
      BY <3>1 DEF Different
  <2> QED
    BY <2>1, <2>2
<1>7. Real(q, P) => /\ Real(Tail(q), P)
                    /\ Head(q).id \in DOMAIN P /\ Head(q).seq = P[Head(q).id]
  BY <1>1, <1>2, <1>4 DEF Real
<1>8. Follows(q, K) => \A i \in 1..(Head(q).id - 1) : i \in K
  BY <1>1, <1>4 DEF Follows
<1>9. ASSUME Follows(q, K), NEW L, K \subseteq L, Head(q).id \in L PROVE Follows(Tail(q), L)
  <2> SUFFICES ASSUME NEW a \in 1..(Len(q) - 1), NEW i \in 1..(Tail(q)[a].id - 1), i \notin L
               PROVE  \E b \in 1..(a - 1) : Tail(q)[b].id = i
    BY <1>1 DEF Follows
  <2>1. a + 1 \in DOMAIN q /\ i \in 1..(q[a + 1].id - 1) /\ i \notin K
    BY <1>1, <1>2, <1>9
  <2>2. PICK b \in 1..((a + 1) - 1) : q[b].id = i
    BY <2>1, <1>9, Zenon DEF Follows
  <2>3. b # 1
    BY <2>2, <1>9, <1>1
  <2>4. b - 1 \in 1..(a - 1) /\ b - 1 \in 1..(Len(q) - 1) /\ (b - 1) + 1 = b
    BY <2>3, <1>1
  <2> QED
    BY <2>2, <2>4, <1>1
<1> QED
  BY <1>5, <1>6, <1>7, <1>8, <1>9

LEMMA AppendKeeps ==
  ASSUME NEW q \in Seq(StreamEvents), NEW e \in StreamEvents, NEW K, NEW P
  PROVE  /\ Rising(q) /\ (\A i \in Ids(q) : i < e.id) => Rising(Append(q, e))
         /\ Different(q) /\ e.id \notin Ids(q) => Different(Append(q, e))
         /\ Real(q, P) /\ e.id \in DOMAIN P /\ e.seq = P[e.id] => Real(Append(q, e), P)
         /\ Follows(q, K) /\ (\A i \in 1..(e.id - 1) : i \in K \cup Ids(q))
            => Follows(Append(q, e), K)
<1>1. /\ Len(q) \in Nat /\ DOMAIN q = 1..Len(q)
      /\ DOMAIN Append(q, e) = 1..(Len(q) + 1)
      /\ \A a \in 1..Len(q) : Append(q, e)[a] = q[a]
      /\ Append(q, e)[Len(q) + 1] = e
  BY AppendOfEvents
<1>2. \A a \in 1..(Len(q) + 1) : a \in 1..Len(q) \/ a = Len(q) + 1
  BY <1>1
<1>3. ASSUME Rising(q), \A i \in Ids(q) : i < e.id PROVE Rising(Append(q, e))
  <2> SUFFICES ASSUME NEW a \in 1..(Len(q) + 1), NEW b \in 1..(Len(q) + 1), a < b
               PROVE  Append(q, e)[a].id < Append(q, e)[b].id
    BY <1>1 DEF Rising
  <2>1. a \in 1..Len(q)
    BY <1>1
  <2>2. CASE b \in 1..Len(q)
    BY <2>1, <2>2, <1>1, <1>3 DEF Rising
  <2>3. CASE b = Len(q) + 1
    <3>1. q[a].id \in Ids(q)
      BY <2>1, <1>1 DEF Ids
    <3> QED
      BY <2>1, <2>3, <3>1, <1>1, <1>3
  <2> QED
    BY <2>2, <2>3, <1>2
<1>4. ASSUME Different(q), e.id \notin Ids(q) PROVE Different(Append(q, e))
  <2>1. \A a \in 1..Len(q) : q[a].id # e.id
    BY <1>4, <1>1 DEF Ids
  <2> QED
    BY <1>1, <1>2, <1>4, <2>1 DEF Different
<1>5. ASSUME Real(q, P), e.id \in DOMAIN P, e.seq = P[e.id] PROVE Real(Append(q, e), P)
  BY <1>1, <1>2, <1>5 DEF Real
<1>6. ASSUME Follows(q, K), \A i \in 1..(e.id - 1) : i \in K \cup Ids(q)
      PROVE  Follows(Append(q, e), K)
  <2> SUFFICES ASSUME NEW a \in 1..(Len(q) + 1), NEW i \in 1..(Append(q, e)[a].id - 1), i \notin K
               PROVE  \E b \in 1..(a - 1) : Append(q, e)[b].id = i
    BY <1>1 DEF Follows
  <2>1. CASE a \in 1..Len(q)
    <3>1. PICK b \in 1..(a - 1) : q[b].id = i
      BY <2>1, <1>1, <1>6 DEF Follows
    <3>2. b \in 1..Len(q)
      BY <2>1, <1>1
    <3> QED
      BY <3>1, <3>2, <1>1
  <2>2. CASE a = Len(q) + 1
    <3>1. i \in Ids(q)
      BY <2>2, <1>1, <1>6
    <3>2. PICK b \in 1..Len(q) : q[b].id = i
      BY <3>1, <1>1 DEF Ids
    <3>3. b \in 1..(a - 1)
      BY <2>2, <1>1
    <3> QED
      BY <3>2, <3>3, <1>1
  <2> QED
    BY <2>1, <2>2, <1>2
<1> QED
  BY <1>3, <1>4, <1>5, <1>6

LEMMA NoEvents ==
  ASSUME NEW K, NEW P
  PROVE  /\ << >> \in Seq(StreamEvents) /\ Ids(<< >>) = {}
         /\ Rising(<< >>) /\ Different(<< >>) /\ Real(<< >>, P) /\ Follows(<< >>, K)
<1>1. << >> \in Seq(StreamEvents) /\ DOMAIN << >> = {}
  OBVIOUS
<1> QED
  BY <1>1 DEF Ids, Rising, Different, Real, Follows

LEMMA FollowsMore ==
  ASSUME NEW q, NEW K, NEW L, Follows(q, K), K \subseteq L
  PROVE  Follows(q, L)
BY DEF Follows

SocketPoints == {"closed", "handshake", "admitted", "subscribed", "live", "refused"}

StreamTypes ==
    /\ seqCounter \in 0..MaxEvents
    /\ emitting \in [Emitters -> SUBSET (0..MaxEvents)]
    /\ published \in Seq(0..MaxEvents)
    /\ socket \in [pc : SocketPoints, after : 0..MaxEvents, highest : 0..MaxEvents]
    /\ page \in [last : 0..MaxEvents, shown : Seq(Nat)]
    /\ replayBuffer \in Seq(StreamEvents) /\ Len(replayBuffer) <= ReplayLimit
    /\ channel \in Seq(StreamEvents)
    /\ backlog \in Seq(StreamEvents)
    /\ outbound \in Seq(StreamEvents)

\* What is listed, relayed, queued or shown was published.
EventsReal ==
    /\ Real(replayBuffer, published) /\ Real(channel, published)
    /\ Real(backlog, published) /\ Real(outbound, published)
    /\ Shown \subseteq DOMAIN published

\* Nothing is on its way to a page that is not connected.
QuietUnlessLive ==
    /\ socket.pc # "live" => backlog = << >> /\ outbound = << >>
    /\ ~Listening => channel = << >>

\* The two high-water marks, the page's and the subscription's ...
Measured ==
    /\ socket.after <= page.last /\ page.last <= socket.highest
    /\ socket.pc \in {"handshake", "admitted", "subscribed"}
          => socket.after = page.last /\ socket.highest = page.last
    /\ \A j \in Shown : published[j] <= page.last
    /\ \A a \in DOMAIN outbound : outbound[a].seq <= socket.highest

\* ... were reached by an event that the page was shown or is about to be.
Reached(n, S) == n = 0 \/ \E j \in S : n <= published[j]

Witnessed ==
    /\ Reached(page.last, Shown) /\ Reached(socket.after, Shown)
    /\ socket.pc = "live" => Reached(socket.highest, Shown \cup Ids(outbound))

NothingTwice ==
    /\ IsInjective(page.shown) /\ Different(outbound) /\ Ids(outbound) \cap Shown = {}
    /\ Rising(replayBuffer) /\ Rising(backlog)
    /\ \A a \in DOMAIN backlog :
          backlog[a].seq > socket.after => backlog[a].id \notin Shown \cup Ids(outbound)

\* Events the page need not wait for.
Settled == Shown \cup {i \in DOMAIN published : Overtaken(i)} \cup unreplayed
Queued == Settled \cup Ids(outbound)
AtHand == Queued \cup Ids(backlog)

Accounted ==
    /\ \A j \in Shown : \A i \in 1..(j - 1) : i \in Settled
    /\ Follows(outbound, Settled)
    /\ socket.pc = "live" => /\ Follows(backlog, Queued) /\ Follows(channel, AtHand)
                             /\ DOMAIN published \subseteq AtHand \cup Ids(channel)

EventsIInv == /\ StreamTypes /\ EventsReal /\ QuietUnlessLive /\ Measured
              /\ Witnessed /\ NothingTwice /\ Accounted

LEMMA NotNewer ==
  ASSUME StreamTypes, NEW S, NEW K, Settled \subseteq K, S \subseteq K, S \subseteq DOMAIN published,
         \A j \in S : \A i \in 1..(j - 1) : i \in K,
         NEW n \in 0..MaxEvents, Reached(n, S),
         NEW h \in DOMAIN published, published[h] <= n
  PROVE  h \in K
<1>1. /\ \A i \in DOMAIN published : published[i] \in Nat
      /\ DOMAIN published = 1..Len(published) /\ Len(published) \in Nat
  BY EventsAssumption, SMTT(40) DEF StreamTypes
<1>2. Overtaken(h) => h \in K
  BY DEF Settled
<1>3. CASE n = 0
  BY <1>1, <1>2, <1>3 DEF Overtaken
<1>4. CASE n # 0
  <2>1. PICK j \in S : n <= published[j]
    BY <1>4 DEF Reached
  <2>2. j \in 1..Len(published) /\ h \in 1..Len(published) /\ published[j] >= published[h]
    BY <1>1, <2>1
  <2>3. CASE j < h
    <3>1. j \in 1..(h - 1)
      BY <2>2, <2>3, <1>1
    <3> QED
      BY <3>1, <2>2, <1>2 DEF Overtaken
  <2>4. CASE j = h
    BY <2>4
  <2>5. CASE h < j
    <3>1. h \in 1..(j - 1)
      BY <2>2, <2>5, <1>1
    <3> QED
      BY <3>1
  <2> QED
    BY <2>2, <2>3, <2>4, <2>5, <1>1
<1> QED
  BY <1>3, <1>4

LEMMA EventsInitially == EventsInit => EventsIInv
<1> SUFFICES ASSUME EventsInit PROVE EventsIInv
  OBVIOUS
<1>1. /\ seqCounter = 0 /\ replayBuffer = << >> /\ channel = << >> /\ published = << >>
      /\ backlog = << >> /\ outbound = << >> /\ unreplayed = {}
      /\ emitting = [e \in Emitters |-> {}]
      /\ socket = [pc |-> "closed", after |-> 0, highest |-> 0]
      /\ page = [last |-> 0, shown |-> << >>]
  BY DEF EventsInit
<1>2. 0 \in 0..MaxEvents
  BY EventsAssumption
<1>3. << >> \in Seq(Nat) /\ << >> \in Seq(0..MaxEvents) /\ DOMAIN << >> = {} /\ Len(<< >>) = 0
  OBVIOUS
<1>4. Shown = {}
  BY <1>1, <1>3 DEF Shown
<1>5. StreamTypes
  <2>1. emitting \in [Emitters -> SUBSET (0..MaxEvents)]
    BY <1>1
  <2>2. socket \in [pc : SocketPoints, after : 0..MaxEvents, highest : 0..MaxEvents]
    BY <1>1, <1>2 DEF SocketPoints
  <2>3. page \in [last : 0..MaxEvents, shown : Seq(Nat)]
    BY <1>1, <1>2, <1>3
  <2>4. 0 <= ReplayLimit
    BY EventsAssumption
  <2> QED
    BY <2>1, <2>2, <2>3, <2>4, <1>1, <1>2, <1>3, NoEvents DEF StreamTypes
<1>6. EventsReal
  BY <1>1, <1>4, NoEvents DEF EventsReal
<1>7. QuietUnlessLive
  BY <1>1 DEF QuietUnlessLive
<1>8. Measured
  BY <1>1, <1>3, <1>4 DEF Measured
<1>9. Witnessed
  BY <1>1 DEF Witnessed, Reached
<1>10. NothingTwice
  BY <1>1, <1>3, <1>4, NoEvents DEF NothingTwice, IsInjective
<1>11. Accounted
  BY <1>1, <1>4, NoEvents DEF Accounted
<1> QED
  BY <1>5, <1>6, <1>7, <1>8, <1>9, <1>10, <1>11 DEF EventsIInv

\* Numbering an event, losing it, and the expiry of the keys: nothing that is on its
\* way to the page changes.
LEMMA NumberingStep ==
  ASSUME EventsIInv,
         seqCounter' \in 0..MaxEvents, emitting' \in [Emitters -> SUBSET (0..MaxEvents)],
         replayBuffer' = replayBuffer \/ replayBuffer' = << >>,
         UNCHANGED <<channel, published, socket, backlog, outbound, page, unreplayed>>
  PROVE  EventsIInv'
<1>1. /\ StreamTypes /\ EventsReal /\ QuietUnlessLive /\ Measured
      /\ Witnessed /\ NothingTwice /\ Accounted
  BY DEF EventsIInv
<1>2. /\ channel' = channel /\ published' = published /\ socket' = socket
      /\ backlog' = backlog /\ outbound' = outbound /\ page' = page
      /\ unreplayed' = unreplayed
  OBVIOUS
<1>3. /\ Shown' = Shown /\ Listening' = Listening
      /\ \A i \in DOMAIN published : Overtaken(i)' = Overtaken(i)
  BY <1>2 DEF Shown, Listening, Overtaken
<1>4. Settled' = Settled
  BY <1>2, <1>3 DEF Settled
<1>5. Queued' = Queued /\ AtHand' = AtHand
  BY <1>2, <1>4 DEF Queued, AtHand
<1>6. StreamTypes'
  <2>1. Len(<< >>) = 0 /\ 0 <= ReplayLimit
    BY EventsAssumption
  <2> QED
    BY <1>1, <1>2, <2>1, NoEvents DEF StreamTypes
<1>7. EventsReal'
  BY <1>1, <1>2, <1>3, NoEvents DEF EventsReal
<1>8. QuietUnlessLive'
  BY <1>1, <1>2, <1>3 DEF QuietUnlessLive
<1>9. Measured'
  BY <1>1, <1>2, <1>3 DEF Measured
<1>10. Witnessed'
  BY <1>1, <1>2, <1>3 DEF Witnessed, Reached
<1>11. NothingTwice'
  BY <1>1, <1>2, <1>3, NoEvents DEF NothingTwice
<1>12. Accounted'
  BY <1>1, <1>2, <1>3, <1>4, <1>5 DEF Accounted
<1> QED
  BY <1>6, <1>7, <1>8, <1>9, <1>10, <1>11, <1>12 DEF EventsIInv

\* A page without a live socket connects, is refused, or goes.
LEMMA ConnectingStep ==
  ASSUME EventsIInv,
         socket' \in [pc : SocketPoints, after : 0..MaxEvents, highest : 0..MaxEvents],
         socket'.pc # "live",
         \/ socket'.after = page.last /\ socket'.highest = page.last
         \/ /\ socket'.after = socket.after /\ socket'.highest = socket.highest
            /\ \/ socket'.pc \notin {"handshake", "admitted", "subscribed"}
               \/ socket.pc \in {"handshake", "admitted", "subscribed"},
         channel' = << >>, backlog' = << >>, outbound' = << >>,
         UNCHANGED <<redisVars, page, unreplayed>>
  PROVE  EventsIInv'
<1>1. /\ StreamTypes /\ EventsReal /\ QuietUnlessLive /\ Measured
      /\ Witnessed /\ NothingTwice /\ Accounted
  BY DEF EventsIInv
<1>2. /\ published' = published /\ page' = page /\ unreplayed' = unreplayed
      /\ seqCounter' = seqCounter /\ replayBuffer' = replayBuffer /\ emitting' = emitting
  BY DEF redisVars
<1>3. Shown' = Shown /\ \A i \in DOMAIN published : Overtaken(i)' = Overtaken(i)
  BY <1>2 DEF Shown, Overtaken
<1>4. Settled' = Settled
  BY <1>2, <1>3 DEF Settled
<1>5. DOMAIN << >> = {}
  OBVIOUS
<1>6. StreamTypes'
  BY <1>1, <1>2, NoEvents DEF StreamTypes
<1>7. EventsReal'
  BY <1>1, <1>2, <1>3, NoEvents DEF EventsReal
<1>8. QuietUnlessLive'
  BY DEF QuietUnlessLive
<1>9. Measured'
  <2>1. page.last \in Nat
    BY <1>1, EventsAssumption DEF StreamTypes
  <2>2. socket'.after <= page.last /\ page.last <= socket'.highest
    BY <2>1, <1>1 DEF Measured
  <2>3. socket'.pc \in {"handshake", "admitted", "subscribed"}
          => socket'.after = page.last /\ socket'.highest = page.last
    BY <1>1 DEF Measured
  <2> QED
    BY <2>2, <2>3, <1>1, <1>2, <1>3, <1>5 DEF Measured
<1>10. Witnessed'
  <2>1. Reached(page.last, Shown) /\ Reached(socket.after, Shown)
    BY <1>1 DEF Witnessed
  <2>2. Reached(page.last, Shown)'
    BY <2>1, <1>2, <1>3 DEF Reached
  <2>3. Reached(socket.after, Shown)'
    BY <2>1, <1>2, <1>3 DEF Reached
  <2> QED
    BY <2>2, <2>3 DEF Witnessed
<1>11. NothingTwice'
  BY <1>1, <1>2, <1>3, <1>5, NoEvents DEF NothingTwice
<1>12. Accounted'
  BY <1>1, <1>3, <1>4, NoEvents DEF Accounted
<1> QED
  BY <1>6, <1>7, <1>8, <1>9, <1>10, <1>11, <1>12 DEF EventsIInv

LEMMA PublishStep == ASSUME EventsIInv, NEW e \in Emitters, Publish(e) PROVE EventsIInv'
<1>0. /\ StreamTypes /\ EventsReal /\ QuietUnlessLive /\ Measured
      /\ Witnessed /\ NothingTwice /\ Accounted
  BY DEF EventsIInv
<1> DEFINE n == Len(published)
<1>1. PICK seq \in emitting[e] :
        /\ n < MaxEvents
        /\ published' = Append(published, seq)
        /\ replayBuffer' =
             LET longer == Append(replayBuffer, [id |-> n + 1, seq |-> seq]) IN
             IF Len(longer) > ReplayLimit THEN Tail(longer) ELSE longer
        /\ channel' = IF Listening THEN Append(channel, [id |-> n + 1, seq |-> seq]) ELSE channel
        /\ emitting' = [emitting EXCEPT ![e] = {}]
        /\ UNCHANGED <<seqCounter, socket, backlog, outbound, page, unreplayed>>
  BY DEF Publish
<1> DEFINE event == [id |-> n + 1, seq |-> seq]
           longer == Append(replayBuffer, event)
<1>2. /\ seqCounter' = seqCounter /\ socket' = socket /\ backlog' = backlog
      /\ outbound' = outbound /\ page' = page /\ unreplayed' = unreplayed
  BY <1>1
<1>3. seq \in 0..MaxEvents
  BY <1>0, <1>1 DEF StreamTypes
<1>4. published \in Seq(0..MaxEvents) /\ n \in Nat /\ DOMAIN published = 1..n
  BY <1>0, LenProperties DEF StreamTypes
<1>5. event \in StreamEvents /\ event.id = n + 1 /\ event.seq = seq
  BY <1>3, <1>4 DEF StreamEvents
<1>6. /\ published' \in Seq(0..MaxEvents) /\ DOMAIN published' = 1..(n + 1)
      /\ \A i \in 1..n : published'[i] = published[i]
      /\ published'[n + 1] = seq
  <2>1. /\ published' \in Seq(0..MaxEvents) /\ Len(published') = n + 1
        /\ \A i \in 1..n : published'[i] = published[i]
        /\ published'[n + 1] = seq
    BY <1>1, <1>3, <1>4, AppendProperties
  <2> QED
    BY <2>1, LenProperties
<1>7. /\ DOMAIN published \subseteq DOMAIN published'
      /\ \A i \in DOMAIN published' : i \in DOMAIN published \/ i = n + 1
      /\ n + 1 \in DOMAIN published' /\ n + 1 \notin DOMAIN published
      /\ \A i \in DOMAIN published : i < n + 1 /\ published'[i] = published[i]
  BY <1>4, <1>6
<1>8. \A q : Real(q, published) => Real(q, published') /\ Ids(q) \subseteq DOMAIN published
  BY <1>7 DEF Real, Ids
<1>9. \A i \in DOMAIN published : Overtaken(i) => Overtaken(i)'
  <2> SUFFICES ASSUME NEW i \in DOMAIN published, Overtaken(i) PROVE Overtaken(i)'
    OBVIOUS
  <2>1. published'[i] = published[i] /\ \A j \in 1..(i - 1) : published'[j] = published[j]
    BY <1>4, <1>6
  <2> QED
    BY <2>1 DEF Overtaken
<1>10. Shown' = Shown /\ Listening' = Listening
  BY <1>2 DEF Shown, Listening
<1>11. Settled \subseteq Settled'
  BY <1>2, <1>7, <1>9, <1>10 DEF Settled
<1>12. Queued \subseteq Queued' /\ AtHand \subseteq AtHand'
  BY <1>2, <1>11 DEF Queued, AtHand
<1>13. replayBuffer \in Seq(StreamEvents) /\ channel \in Seq(StreamEvents)
  BY <1>0 DEF StreamTypes
<1>14. Real(replayBuffer, published') /\ Real(channel, published')
  BY <1>0, <1>8 DEF EventsReal
<1>15. event.id \in DOMAIN published' /\ event.seq = published'[event.id]
  BY <1>5, <1>6, <1>7
<1>16. longer \in Seq(StreamEvents) /\ Len(longer) = Len(replayBuffer) + 1 /\ longer # << >>
  BY <1>5, <1>13, AppendProperties
<1>17. Rising(longer) /\ Real(longer, published')
  <2>1. \A i \in Ids(replayBuffer) : i < event.id
    BY <1>0, <1>5, <1>7, <1>8 DEF EventsReal
  <2>2. Rising(replayBuffer)
    BY <1>0 DEF NothingTwice
  <2> QED
    BY <2>1, <2>2, <1>5, <1>13, <1>14, <1>15, AppendKeeps
<1>18. /\ replayBuffer' \in Seq(StreamEvents) /\ Len(replayBuffer') <= ReplayLimit
       /\ Rising(replayBuffer') /\ Real(replayBuffer', published')
  <2>1. CASE Len(longer) > ReplayLimit
    <3>1. replayBuffer' = Tail(longer)
      BY <1>1, <2>1
    <3>2. Len(Tail(longer)) = Len(longer) - 1 /\ Tail(longer) \in Seq(StreamEvents)
      BY <1>16, TailOfEvents
    <3>3. Len(Tail(longer)) <= ReplayLimit
      BY <3>2, <1>0, <1>13, <1>16, LenProperties, SMTT(40) DEF StreamTypes
    <3>4. Rising(Tail(longer)) /\ Real(Tail(longer), published')
      BY <1>16, <1>17, TailKeeps
    <3> QED
      BY <3>1, <3>2, <3>3, <3>4
  <2>2. CASE ~(Len(longer) > ReplayLimit)
    <3>1. replayBuffer' = longer
      BY <1>1, <2>2
    <3>2. Len(longer) <= ReplayLimit
      BY <2>2, <1>13, <1>16, LenProperties, EventsAssumption
    <3> QED
      BY <3>1, <3>2, <1>16, <1>17
  <2> QED
    BY <2>1, <2>2
<1>19. /\ channel' \in Seq(StreamEvents) /\ Real(channel', published')
       /\ ~Listening => channel' = << >>
       /\ Listening => Ids(channel') = Ids(channel) \cup {n + 1}
  <2>1. CASE Listening
    <3>1. channel' = Append(channel, event)
      BY <1>1, <2>1
    <3>2. Append(channel, event) \in Seq(StreamEvents)
          /\ Ids(Append(channel, event)) = Ids(channel) \cup {event.id}
      BY <1>5, <1>13, AppendOfEvents
    <3>3. Real(Append(channel, event), published')
      BY <1>5, <1>13, <1>14, <1>15, AppendKeeps
    <3> QED
      BY <2>1, <3>1, <3>2, <3>3, <1>5
  <2>2. CASE ~Listening
    BY <1>0, <1>1, <1>13, <1>14, <2>2 DEF QuietUnlessLive
  <2> QED
    BY <2>1, <2>2
<1>20. StreamTypes'
  <2>1. emitting' \in [Emitters -> SUBSET (0..MaxEvents)]
    BY <1>0, <1>1 DEF StreamTypes
  <2> QED
    BY <2>1, <1>0, <1>2, <1>6, <1>18, <1>19 DEF StreamTypes
<1>21. EventsReal'
  <2>1. Real(backlog, published') /\ Real(outbound, published') /\ Shown \subseteq DOMAIN published'
    BY <1>0, <1>7, <1>8 DEF EventsReal
  <2> QED
    BY <2>1, <1>2, <1>10, <1>18, <1>19 DEF EventsReal
<1>22. QuietUnlessLive'
  BY <1>0, <1>2, <1>10, <1>19 DEF QuietUnlessLive
<1>23. Shown \subseteq DOMAIN published /\ Ids(outbound) \subseteq DOMAIN published
  BY <1>0, <1>8 DEF EventsReal
<1>24. Measured'
  <2>1. \A j \in Shown : published'[j] <= page.last
    BY <1>0, <1>7, <1>23 DEF Measured
  <2> QED
    BY <2>1, <1>0, <1>2, <1>10 DEF Measured
<1>25. Witnessed'
  <2>1. \A m, S : S \subseteq DOMAIN published /\ Reached(m, S)
                  => m = 0 \/ \E j \in S : m <= published'[j]
    BY <1>7 DEF Reached
  <2>2. Reached(page.last, Shown)'
    BY <2>1, <1>0, <1>2, <1>10, <1>23 DEF Reached, Witnessed
  <2>3. Reached(socket.after, Shown)'
    BY <2>1, <1>0, <1>2, <1>10, <1>23 DEF Reached, Witnessed
  <2>4. socket.pc = "live" => Reached(socket.highest, Shown \cup Ids(outbound))'
    BY <2>1, <1>0, <1>2, <1>10, <1>23 DEF Reached, Witnessed
  <2> QED
    BY <2>2, <2>3, <2>4, <1>2 DEF Witnessed
<1>26. NothingTwice'
  BY <1>0, <1>2, <1>10, <1>18 DEF NothingTwice
<1>27. Accounted'
  <2>1. \A j \in Shown' : \A i \in 1..(j - 1) : i \in Settled'
    BY <1>0, <1>10, <1>11 DEF Accounted
  <2>2. Follows(outbound', Settled')
    BY <1>0, <1>2, <1>11, FollowsMore DEF Accounted
  <2>3. ASSUME socket.pc = "live"
        PROVE  /\ Follows(backlog', Queued') /\ Follows(channel', AtHand')
               /\ DOMAIN published' \subseteq AtHand' \cup Ids(channel')
    <3>1. Listening
      BY <2>3 DEF Listening
    <3>2. /\ Follows(backlog, Queued) /\ Follows(channel, AtHand)
          /\ DOMAIN published \subseteq AtHand \cup Ids(channel)
      BY <1>0, <2>3 DEF Accounted
    <3>3. Follows(backlog', Queued')
      BY <3>2, <1>2, <1>12, FollowsMore
    <3>4. Follows(channel, AtHand')
      BY <3>2, <1>12, FollowsMore
    <3>5. \A i \in 1..(event.id - 1) : i \in AtHand' \cup Ids(channel)
      BY <3>2, <1>4, <1>5, <1>12
    <3>6. channel' = Append(channel, event)
      BY <3>1, <1>1
    <3>7. Follows(channel', AtHand')
      BY <3>4, <3>5, <3>6, <1>5, <1>13, AppendKeeps
    <3>8. DOMAIN published' \subseteq AtHand' \cup Ids(channel')
      BY <3>1, <3>2, <1>7, <1>12, <1>19
    <3> QED
      BY <3>3, <3>7, <3>8
  <2> QED
    BY <2>1, <2>2, <2>3, <1>2 DEF Accounted
<1> QED
  BY <1>20, <1>21, <1>22, <1>24, <1>25, <1>26, <1>27 DEF EventsIInv

LEMMA ReplayStep ==
  ASSUME EventsIInv, NEW answered \in BOOLEAN, Replay(answered) PROVE EventsIInv'
<1>0. /\ StreamTypes /\ EventsReal /\ QuietUnlessLive /\ Measured
      /\ Witnessed /\ NothingTwice /\ Accounted
  BY DEF EventsIInv
<1>1. /\ socket.pc = "subscribed" /\ socket' = [socket EXCEPT !.pc = "live"]
      /\ backlog' = IF answered THEN replayBuffer ELSE << >>
      /\ unreplayed' = unreplayed \cup IF answered THEN DOMAIN published \ Ids(replayBuffer)
                                                  ELSE DOMAIN published
      /\ UNCHANGED <<redisVars, channel, outbound, page>>
  BY DEF Replay, Ids
<1>2. /\ published' = published /\ page' = page /\ channel' = channel /\ outbound' = outbound
      /\ seqCounter' = seqCounter /\ replayBuffer' = replayBuffer /\ emitting' = emitting
  BY <1>1 DEF redisVars
<1>3. /\ socket' \in [pc : SocketPoints, after : 0..MaxEvents, highest : 0..MaxEvents]
      /\ socket'.pc = "live" /\ socket'.after = socket.after /\ socket'.highest = socket.highest
  BY <1>0, <1>1 DEF StreamTypes, SocketPoints
<1>4. socket.after = page.last /\ socket.highest = page.last /\ outbound = << >>
  BY <1>0, <1>1 DEF Measured, QuietUnlessLive
<1>5. Shown' = Shown /\ \A i \in DOMAIN published : Overtaken(i)' = Overtaken(i)
  BY <1>2 DEF Shown, Overtaken
<1>6. Settled \subseteq Settled' /\ unreplayed' \subseteq Settled'
  BY <1>1, <1>2, <1>5 DEF Settled
<1>7. backlog' \in Seq(StreamEvents) /\ Real(backlog', published) /\ Rising(backlog')
  BY <1>0, <1>1, NoEvents DEF StreamTypes, EventsReal, NothingTwice
<1>8. Ids(outbound) = {} /\ DOMAIN published \subseteq unreplayed' \cup Ids(backlog')
  BY <1>1, <1>4, NoEvents
<1>9. StreamTypes'
  BY <1>0, <1>2, <1>3, <1>7 DEF StreamTypes
<1>10. EventsReal'
  BY <1>0, <1>2, <1>5, <1>7 DEF EventsReal
<1>11. QuietUnlessLive'
  BY <1>3 DEF QuietUnlessLive, Listening
<1>12. Measured'
  BY <1>0, <1>2, <1>3, <1>5 DEF Measured
<1>13. Witnessed'
  <2>1. Reached(page.last, Shown)
    BY <1>0 DEF Witnessed
  <2>2. Reached(page.last, Shown)'
    BY <2>1, <1>2, <1>5 DEF Reached
  <2>3. Reached(socket.after, Shown)'
    BY <2>1, <1>2, <1>3, <1>4, <1>5 DEF Reached
  <2>4. Reached(socket.highest, Shown \cup Ids(outbound))'
    BY <2>1, <1>2, <1>3, <1>4, <1>5, <1>8 DEF Reached
  <2> QED
    BY <2>2, <2>3, <2>4 DEF Witnessed
<1>14. NothingTwice'
  <2>1. \A a \in DOMAIN backlog' :
          backlog'[a].seq > socket.after => backlog'[a].id \notin Shown \cup Ids(outbound)
    <3> SUFFICES ASSUME NEW a \in DOMAIN backlog', backlog'[a].seq > socket.after,
                        backlog'[a].id \in Shown
                 PROVE  FALSE
      BY <1>8
    <3>1. backlog'[a].seq = published[backlog'[a].id]
      BY <1>7 DEF Real
    <3>2. published[backlog'[a].id] <= page.last
      BY <1>0 DEF Measured
    <3>3. backlog'[a].seq \in Int /\ page.last \in Int
      <4>1. backlog'[a] \in StreamEvents
        BY <1>7
      <4> QED
        BY <4>1, <1>0, EventsAssumption DEF StreamEvents, StreamTypes
    <3> QED
      BY <3>1, <3>2, <3>3, <1>4
  <2> QED
    BY <2>1, <1>0, <1>2, <1>3, <1>5, <1>7 DEF NothingTwice
<1>15. Accounted'
  <2>1. \A j \in Shown' : \A i \in 1..(j - 1) : i \in Settled'
    BY <1>0, <1>5, <1>6 DEF Accounted
  <2>2. Follows(outbound', Settled')
    BY <1>2, <1>4, NoEvents
  <2>3. published \in Seq(0..MaxEvents) /\ DOMAIN published = 1..Len(published)
        /\ Len(published) \in Nat
    BY <1>0, LenProperties DEF StreamTypes
  <2>4. \A q : Real(q, published) => \A a \in DOMAIN q : \A i \in 1..(q[a].id - 1) :
                                       i \in DOMAIN published
    BY <2>3 DEF Real
  <2>5. Follows(backlog', Queued')
    <3> SUFFICES ASSUME NEW a \in DOMAIN backlog', NEW i \in 1..(backlog'[a].id - 1), i \notin Queued'
                 PROVE  \E b \in 1..(a - 1) : backlog'[b].id = i
      BY DEF Follows
    <3>1. i \in DOMAIN published
      BY <2>4, <1>7
    <3>2. i \in Ids(backlog')
      BY <3>1, <1>6, <1>8 DEF Queued
    <3>3. PICK b \in DOMAIN backlog' : backlog'[b].id = i
      BY <3>2 DEF Ids
    <3>4. DOMAIN backlog' = 1..Len(backlog') /\ Len(backlog') \in Nat
      BY <1>7, LenProperties
    <3>5. backlog'[a].id \in Nat /\ backlog'[b].id \in Nat
      <4>1. backlog'[a] \in StreamEvents /\ backlog'[b] \in StreamEvents
        BY <1>7
      <4> QED
        BY <4>1 DEF StreamEvents
    <3>6. backlog'[b].id < backlog'[a].id
      BY <3>3, <3>5
    <3>7. ~(a < b) /\ a # b
      BY <3>5, <3>6, <1>7 DEF Rising
    <3>8. b \in 1..(a - 1)
      BY <3>4, <3>7
    <3> QED
      BY <3>3, <3>8
  <2>6. DOMAIN published \subseteq AtHand'
    BY <1>6, <1>8 DEF AtHand, Queued
  <2>7. Follows(channel', AtHand')
    BY <2>4, <2>6, <1>0, <1>2 DEF Follows, EventsReal
  <2> QED
    BY <2>1, <2>2, <2>5, <2>6, <2>7, <1>2 DEF Accounted
<1> QED
  BY <1>9, <1>10, <1>11, <1>12, <1>13, <1>14, <1>15 DEF EventsIInv

\* What holds of the queue once the event h was put in it, or dropped.
Forwarded(h) ==
    /\ socket' \in [pc : SocketPoints, after : 0..MaxEvents, highest : 0..MaxEvents]
    /\ socket'.pc = "live" /\ socket'.after = socket.after
    /\ outbound' \in Seq(StreamEvents) /\ Real(outbound', published)
    /\ Different(outbound') /\ Ids(outbound') \cap Shown = {}
    /\ Follows(outbound', Settled)
    /\ Ids(outbound) \subseteq Ids(outbound') /\ Ids(outbound') \subseteq Ids(outbound) \cup {h.id}
    /\ h.id \in Settled \cup Ids(outbound')

LEMMA Forward ==
  ASSUME EventsIInv, socket.pc = "live",
         NEW h \in StreamEvents, h.id \in DOMAIN published, h.seq = published[h.id],
         \A i \in 1..(h.id - 1) : i \in Queued,
         UNCHANGED <<redisVars, page, unreplayed>>,
         \/ /\ h.id \notin Shown \cup Ids(outbound)
            /\ outbound' = Append(outbound, h)
            /\ socket' = [socket EXCEPT !.highest = Higher(socket.highest, h.seq)]
         \/ /\ h.seq <= socket.highest
            /\ UNCHANGED <<outbound, socket>>
  PROVE  Forwarded(h) /\ Measured' /\ Witnessed'
<1>0. /\ StreamTypes /\ EventsReal /\ QuietUnlessLive /\ Measured
      /\ Witnessed /\ NothingTwice /\ Accounted
  BY DEF EventsIInv
<1>1. published' = published /\ page' = page /\ unreplayed' = unreplayed /\ Shown' = Shown
  BY DEF redisVars, Shown
<1>2. /\ outbound \in Seq(StreamEvents) /\ Real(outbound, published) /\ Different(outbound)
      /\ Ids(outbound) \cap Shown = {} /\ Follows(outbound, Settled)
      /\ socket \in [pc : SocketPoints, after : 0..MaxEvents, highest : 0..MaxEvents]
      /\ page.last \in 0..MaxEvents
  BY <1>0 DEF StreamTypes, EventsReal, NothingTwice, Accounted
<1>3. h.seq \in 0..MaxEvents /\ h.id \in Nat \ {0}
  BY DEF StreamEvents
<1>4. Reached(page.last, Shown)' /\ Reached(socket.after, Shown)
  BY <1>0, <1>1 DEF Witnessed, Reached
<1>5. Reached(socket.highest, Shown \cup Ids(outbound))
  BY <1>0 DEF Witnessed
<1>6. CASE /\ h.id \notin Shown \cup Ids(outbound)
           /\ outbound' = Append(outbound, h)
           /\ socket' = [socket EXCEPT !.highest = Higher(socket.highest, h.seq)]
  <2>1. /\ outbound' \in Seq(StreamEvents) /\ Ids(outbound') = Ids(outbound) \cup {h.id}
        /\ Len(outbound) \in Nat /\ DOMAIN outbound = 1..Len(outbound)
        /\ DOMAIN outbound' = 1..(Len(outbound) + 1)
        /\ \A a \in 1..Len(outbound) : outbound'[a] = outbound[a]
        /\ outbound'[Len(outbound) + 1] = h
    BY <1>2, <1>6, AppendOfEvents
  <2>2. Real(outbound', published) /\ Different(outbound')
    BY <1>2, <1>6, AppendKeeps
  <2>3. \A i \in 1..(h.id - 1) : i \in Settled \cup Ids(outbound)
    BY SMTT(40) DEF Queued
  <2>4. Follows(outbound', Settled)
    BY <2>3, <1>2, <1>6, AppendKeeps, SMTT(40)
  <2>5. Higher(socket.highest, h.seq) \in 0..MaxEvents
    BY <1>2, <1>3, SMTT(40) DEF Higher
  <2>6. /\ socket' \in [pc : SocketPoints, after : 0..MaxEvents, highest : 0..MaxEvents]
        /\ socket'.pc = "live" /\ socket'.after = socket.after
        /\ socket'.highest = Higher(socket.highest, h.seq)
    BY <2>5, <1>2, <1>6, SMTT(40)
  <2>7. Forwarded(h)
    BY <2>1, <2>2, <2>4, <2>6, <1>2, <1>6 DEF Forwarded
  <2>8. /\ socket.highest <= socket'.highest /\ h.seq <= socket'.highest
        /\ socket.highest \in Nat /\ socket'.highest \in Nat
        /\ socket'.highest = socket.highest \/ socket'.highest = h.seq
    BY <2>6, <1>2, <1>3 DEF Higher
  <2>9. Measured'
    <3>1. socket.after <= page.last /\ page.last <= socket.highest
      BY <1>0 DEF Measured
    <3>2. page.last <= socket'.highest
      BY <3>1, <2>8, <1>2
    <3>3. \A a \in DOMAIN outbound' : outbound'[a].seq <= socket'.highest
      <4> SUFFICES ASSUME NEW a \in 1..(Len(outbound) + 1) PROVE outbound'[a].seq <= socket'.highest
        BY <2>1
      <4>1. CASE a = Len(outbound) + 1
        BY <4>1, <2>1, <2>8
      <4>2. CASE a \in 1..Len(outbound)
        <5>1. outbound[a].seq <= socket.highest
          BY <4>2, <2>1, <1>0 DEF Measured
        <5>2. outbound[a] \in StreamEvents
          BY <4>2, <1>2
        <5>3. outbound[a].seq \in Nat
          BY <5>2 DEF StreamEvents
        <5> QED
          BY <5>1, <5>3, <4>2, <2>1, <2>8
      <4> QED
        BY <4>1, <4>2, <2>1
    <3> QED
      BY <3>1, <3>2, <3>3, <2>6, <1>0, <1>1 DEF Measured
  <2>10. Witnessed'
    <3>1. Reached(socket.highest, Shown \cup Ids(outbound))'
      <4>1. CASE socket'.highest = socket.highest
        BY <4>1, <2>1, <1>1, <1>5 DEF Reached
      <4>2. CASE socket'.highest = h.seq
        <5>1. h.seq <= published'[h.id]
          BY <1>1, <1>3
        <5> QED
          BY <5>1, <4>2, <2>1 DEF Reached
      <4> QED
        BY <4>1, <4>2, <2>8
    <3>2. Reached(socket.after, Shown)'
      BY <1>1, <1>4, <2>6 DEF Reached
    <3> QED
      BY <3>1, <3>2, <1>4 DEF Witnessed
  <2> QED
    BY <2>7, <2>9, <2>10
<1>7. CASE h.seq <= socket.highest /\ UNCHANGED <<outbound, socket>>
  <2>1. Settled \subseteq Queued /\ Shown \cup Ids(outbound) \subseteq Queued
    BY DEF Queued, Settled
  <2>2. Shown \cup Ids(outbound) \subseteq DOMAIN published
    BY <1>0 DEF EventsReal, Real, Ids
  <2>3. \A j \in Shown \cup Ids(outbound) : \A i \in 1..(j - 1) : i \in Queued
    <3> SUFFICES ASSUME NEW a \in DOMAIN outbound, NEW i \in 1..(outbound[a].id - 1)
                 PROVE  i \in Settled \cup Ids(outbound)
      BY <1>0 DEF Accounted, Queued, Ids
    <3>1. DOMAIN outbound = 1..Len(outbound) /\ Len(outbound) \in Nat
      BY <1>2, LenProperties
    <3>2. i \in Settled \/ \E b \in 1..(a - 1) : outbound[b].id = i
      BY <1>2 DEF Follows
    <3>3. \A b \in 1..(a - 1) : b \in DOMAIN outbound
      BY <3>1
    <3> QED
      BY <3>2, <3>3 DEF Ids
  <2>4. h.id \in Queued
    BY <2>1, <2>2, <2>3, <1>0, <1>2, <1>5, <1>7, NotNewer
  <2>5. Forwarded(h)
    BY <2>4, <1>2, <1>7 DEF Forwarded, Queued
  <2>6. Measured'
    BY <1>0, <1>1, <1>7 DEF Measured
  <2>7. Witnessed'
    BY <1>0, <1>1, <1>7 DEF Witnessed, Reached
  <2> QED
    BY <2>5, <2>6, <2>7
<1> QED
  BY <1>6, <1>7

LEMMA BackfillStep == ASSUME EventsIInv, Backfill PROVE EventsIInv'
<1>0. /\ StreamTypes /\ EventsReal /\ QuietUnlessLive /\ Measured
      /\ Witnessed /\ NothingTwice /\ Accounted
  BY DEF EventsIInv
<1> DEFINE h == Head(backlog)
<1>1. /\ socket.pc = "live" /\ backlog # << >> /\ backlog' = Tail(backlog)
      /\ IF h.seq > socket.after
         THEN /\ outbound' = Append(outbound, h)
              /\ socket' = [socket EXCEPT !.highest = Higher(socket.highest, h.seq)]
         ELSE UNCHANGED <<outbound, socket>>
      /\ UNCHANGED <<redisVars, channel, page, unreplayed>>
  BY DEF Backfill
<1>2. /\ published' = published /\ page' = page /\ channel' = channel
      /\ unreplayed' = unreplayed /\ Shown' = Shown
      /\ seqCounter' = seqCounter /\ replayBuffer' = replayBuffer /\ emitting' = emitting
  BY <1>1 DEF redisVars, Shown
<1>3. Settled' = Settled
  BY <1>2 DEF Settled, Overtaken
<1>4. /\ backlog \in Seq(StreamEvents) /\ Real(backlog, published) /\ Rising(backlog)
      /\ Follows(backlog, Queued) /\ Follows(channel, AtHand)
      /\ DOMAIN published \subseteq AtHand \cup Ids(channel)
  BY <1>0, <1>1 DEF StreamTypes, EventsReal, NothingTwice, Accounted
<1>5. /\ h \in StreamEvents /\ h = backlog[1] /\ backlog' \in Seq(StreamEvents)
      /\ Len(backlog) \in Nat \ {0} /\ DOMAIN backlog = 1..Len(backlog)
      /\ DOMAIN backlog' = 1..(Len(backlog) - 1)
      /\ \A a \in 1..(Len(backlog) - 1) : backlog'[a] = backlog[a + 1]
      /\ Ids(backlog) = Ids(backlog') \cup {h.id}
  BY <1>1, <1>4, TailOfEvents
<1>6. /\ Rising(backlog') /\ h.id \notin Ids(backlog') /\ Real(backlog', published)
      /\ h.id \in DOMAIN published /\ h.seq = published[h.id]
      /\ \A i \in 1..(h.id - 1) : i \in Queued
      /\ \A L : Queued \subseteq L /\ h.id \in L => Follows(backlog', L)
  BY <1>1, <1>4, TailKeeps
<1>7. ASSUME h.seq > socket.after
      PROVE  /\ h.id \notin Shown \cup Ids(outbound)
             /\ outbound' = Append(outbound, h)
             /\ socket' = [socket EXCEPT !.highest = Higher(socket.highest, h.seq)]
  <2>1. h.id \notin Shown \cup Ids(outbound)
    <3>1. 1 \in DOMAIN backlog
      BY <1>5
    <3> QED
      BY <3>1, <1>0, <1>5, <1>7 DEF NothingTwice
  <2> QED
    BY <2>1, <1>1, <1>7
<1>8. ASSUME ~(h.seq > socket.after)
      PROVE  h.seq <= socket.highest /\ UNCHANGED <<outbound, socket>>
  <2>1. h.seq <= socket.highest
    <3>1. h.seq \in Nat /\ socket.after \in Nat /\ page.last \in Nat /\ socket.highest \in Nat
      BY <1>0, <1>5, SMTT(40) DEF StreamTypes, StreamEvents
    <3>2. socket.after <= page.last /\ page.last <= socket.highest
      BY <1>0 DEF Measured
    <3> QED
      BY <3>1, <3>2, <1>8
  <2> QED
    BY <2>1, <1>1, <1>8
<1>9. \/ /\ h.id \notin Shown \cup Ids(outbound)
         /\ outbound' = Append(outbound, h)
         /\ socket' = [socket EXCEPT !.highest = Higher(socket.highest, h.seq)]
      \/ /\ h.seq <= socket.highest
         /\ UNCHANGED <<outbound, socket>>
  BY <1>7, <1>8
<1>10. Forwarded(h) /\ Measured' /\ Witnessed'
  <2>1. UNCHANGED <<redisVars, page, unreplayed>>
    BY <1>1
  <2> HIDE DEF h
  <2> QED
    BY <2>1, <1>1, <1>5, <1>6, <1>9, Forward
<1>11. h.id \in Queued' /\ Queued \subseteq Queued' /\ AtHand \subseteq AtHand'
  BY <1>3, <1>5, <1>10 DEF Forwarded, Queued, AtHand
<1>12. StreamTypes'
  BY <1>0, <1>2, <1>5, <1>10 DEF StreamTypes, Forwarded
<1>13. EventsReal'
  BY <1>0, <1>2, <1>6, <1>10 DEF EventsReal, Forwarded
<1>14. QuietUnlessLive'
  BY <1>10 DEF QuietUnlessLive, Forwarded, Listening
<1>15. NothingTwice'
  <2>1. ASSUME NEW a \in DOMAIN backlog', backlog'[a].seq > socket'.after
        PROVE  backlog'[a].id \notin Shown' \cup Ids(outbound')
    <3>1. a + 1 \in DOMAIN backlog /\ backlog'[a] = backlog[a + 1]
      BY <1>5
    <3>2. backlog[a + 1].id \notin Shown \cup Ids(outbound)
      BY <2>1, <3>1, <1>0, <1>10 DEF NothingTwice, Forwarded
    <3>3. backlog'[a].id # h.id
      BY <1>6 DEF Ids
    <3> QED
      BY <3>1, <3>2, <3>3, <1>2, <1>10 DEF Forwarded
  <2> QED
    BY <2>1, <1>0, <1>2, <1>6, <1>10 DEF NothingTwice, Forwarded
<1>16. Accounted'
  <2>1. Follows(backlog', Queued')
    BY <1>6, <1>11
  <2>2. Follows(channel', AtHand')
    BY <1>2, <1>4, <1>11, FollowsMore
  <2> QED
    BY <2>1, <2>2, <1>0, <1>2, <1>3, <1>4, <1>10, <1>11 DEF Accounted, Forwarded
<1> QED
  BY <1>10, <1>12, <1>13, <1>14, <1>15, <1>16 DEF EventsIInv

LEMMA PumpStep == ASSUME EventsIInv, PumpEvent PROVE EventsIInv'
<1>0. /\ StreamTypes /\ EventsReal /\ QuietUnlessLive /\ Measured
      /\ Witnessed /\ NothingTwice /\ Accounted
  BY DEF EventsIInv
<1> DEFINE h == Head(channel)
<1>1. /\ socket.pc = "live" /\ backlog = << >> /\ channel # << >> /\ channel' = Tail(channel)
      /\ IF h.seq > socket.highest
         THEN /\ outbound' = Append(outbound, h)
              /\ socket' = [socket EXCEPT !.highest = h.seq]
         ELSE UNCHANGED <<outbound, socket>>
      /\ UNCHANGED <<redisVars, backlog, page, unreplayed>>
  BY DEF PumpEvent
<1>2. /\ published' = published /\ page' = page /\ backlog' = backlog
      /\ unreplayed' = unreplayed /\ Shown' = Shown
      /\ seqCounter' = seqCounter /\ replayBuffer' = replayBuffer /\ emitting' = emitting
  BY <1>1 DEF redisVars, Shown
<1>3. Settled' = Settled
  BY <1>2 DEF Settled, Overtaken
<1>4. /\ channel \in Seq(StreamEvents) /\ Real(channel, published)
      /\ Follows(channel, AtHand)
      /\ DOMAIN published \subseteq AtHand \cup Ids(channel)
  BY <1>0, <1>1 DEF StreamTypes, EventsReal, Accounted
<1>5. h \in StreamEvents /\ channel' \in Seq(StreamEvents) /\ Ids(channel) = Ids(channel') \cup {h.id}
  BY <1>1, <1>4, TailOfEvents
<1>6. /\ Real(channel', published)
      /\ h.id \in DOMAIN published /\ h.seq = published[h.id]
      /\ \A i \in 1..(h.id - 1) : i \in AtHand
      /\ \A L : AtHand \subseteq L /\ h.id \in L => Follows(channel', L)
  BY <1>1, <1>4, TailKeeps
<1>7. AtHand = Queued /\ AtHand' = Queued'
  BY <1>1, <1>2, NoEvents DEF AtHand
<1>8. /\ h.seq \in Nat /\ page.last \in Nat /\ socket.highest \in Nat
      /\ page.last <= socket.highest
  BY <1>0, <1>5, SMTT(40) DEF StreamTypes, StreamEvents, Measured
<1>9. ASSUME h.seq > socket.highest
      PROVE  /\ h.id \notin Shown \cup Ids(outbound)
             /\ outbound' = Append(outbound, h)
             /\ socket' = [socket EXCEPT !.highest = Higher(socket.highest, h.seq)]
  <2>1. h.id \notin Shown
    <3> SUFFICES ASSUME h.id \in Shown PROVE FALSE
      OBVIOUS
    <3>1. h.seq <= page.last
      BY <1>0, <1>6 DEF Measured
    <3> QED
      BY <3>1, <1>8, <1>9
  <2>2. h.id \notin Ids(outbound)
    <3> SUFFICES ASSUME NEW a \in DOMAIN outbound, outbound[a].id = h.id PROVE FALSE
      BY DEF Ids
    <3>1. outbound[a].seq = h.seq
      BY <1>0, <1>6 DEF EventsReal, Real
    <3>2. outbound[a].seq <= socket.highest
      BY <1>0 DEF Measured
    <3> QED
      BY <3>1, <3>2, <1>8, <1>9
  <2>3. Higher(socket.highest, h.seq) = h.seq
    BY <1>8, <1>9 DEF Higher
  <2> QED
    BY <2>1, <2>2, <2>3, <1>1, <1>9
<1>10. ASSUME ~(h.seq > socket.highest)
      PROVE  h.seq <= socket.highest /\ UNCHANGED <<outbound, socket>>
  <2>1. h.seq <= socket.highest
    BY <1>8, <1>10
  <2> QED
    BY <2>1, <1>1, <1>10
<1>11. \/ /\ h.id \notin Shown \cup Ids(outbound)
          /\ outbound' = Append(outbound, h)
          /\ socket' = [socket EXCEPT !.highest = Higher(socket.highest, h.seq)]
       \/ /\ h.seq <= socket.highest
          /\ UNCHANGED <<outbound, socket>>
  BY <1>9, <1>10
<1>12. Forwarded(h) /\ Measured' /\ Witnessed'
  <2>1. UNCHANGED <<redisVars, page, unreplayed>>
    BY <1>1
  <2> HIDE DEF h
  <2> QED
    BY <2>1, <1>1, <1>5, <1>6, <1>7, <1>11, Forward
<1>13. h.id \in AtHand' /\ AtHand \subseteq AtHand'
  BY <1>3, <1>7, <1>12 DEF Forwarded, Queued
<1>14. StreamTypes'
  BY <1>0, <1>2, <1>5, <1>12 DEF StreamTypes, Forwarded
<1>15. EventsReal'
  BY <1>0, <1>2, <1>6, <1>12 DEF EventsReal, Forwarded
<1>16. QuietUnlessLive'
  BY <1>12 DEF QuietUnlessLive, Forwarded, Listening
<1>17. NothingTwice'
  <2>1. DOMAIN backlog' = {}
    BY <1>1, <1>2
  <2> QED
    BY <2>1, <1>0, <1>2, <1>12 DEF NothingTwice, Forwarded
<1>18. Accounted'
  <2>1. Follows(backlog', Queued')
    BY <1>1, <1>2, NoEvents, SMTT(40)
  <2>2. Follows(channel', AtHand')
    BY <1>6, <1>13
  <2> QED
    BY <2>1, <2>2, <1>0, <1>2, <1>3, <1>4, <1>5, <1>12, <1>13 DEF Accounted, Forwarded
<1> QED
  BY <1>12, <1>14, <1>15, <1>16, <1>17, <1>18 DEF EventsIInv

LEMMA WriteStep == ASSUME EventsIInv, WriteFrame PROVE EventsIInv'
<1>0. /\ StreamTypes /\ EventsReal /\ QuietUnlessLive /\ Measured
      /\ Witnessed /\ NothingTwice /\ Accounted
  BY DEF EventsIInv
<1> DEFINE h == Head(outbound)
<1>1. /\ socket.pc = "live" /\ outbound # << >> /\ outbound' = Tail(outbound)
      /\ page' = [last |-> Higher(page.last, h.seq), shown |-> Append(page.shown, h.id)]
      /\ UNCHANGED <<redisVars, channel, socket, backlog, unreplayed>>
  BY DEF WriteFrame
<1>2. /\ published' = published /\ channel' = channel /\ socket' = socket /\ backlog' = backlog
      /\ unreplayed' = unreplayed
      /\ seqCounter' = seqCounter /\ replayBuffer' = replayBuffer /\ emitting' = emitting
  BY <1>1 DEF redisVars
<1>3. /\ outbound \in Seq(StreamEvents) /\ Real(outbound, published) /\ Different(outbound)
      /\ Ids(outbound) \cap Shown = {} /\ Follows(outbound, Settled)
      /\ page.last \in 0..MaxEvents /\ page.shown \in Seq(Nat) /\ socket.highest \in 0..MaxEvents
  BY <1>0 DEF StreamTypes, EventsReal, NothingTwice, Accounted
<1>4. /\ h \in StreamEvents /\ h = outbound[1] /\ outbound' \in Seq(StreamEvents)
      /\ Len(outbound) \in Nat \ {0} /\ DOMAIN outbound = 1..Len(outbound)
      /\ DOMAIN outbound' = 1..(Len(outbound) - 1)
      /\ \A a \in 1..(Len(outbound) - 1) : outbound'[a] = outbound[a + 1]
      /\ Ids(outbound) = Ids(outbound') \cup {h.id}
  BY <1>1, <1>3, TailOfEvents
<1>5. /\ Different(outbound') /\ h.id \notin Ids(outbound') /\ Real(outbound', published)
      /\ h.id \in DOMAIN published /\ h.seq = published[h.id]
      /\ \A i \in 1..(h.id - 1) : i \in Settled
      /\ \A L : Settled \subseteq L /\ h.id \in L => Follows(outbound', L)
  BY <1>1, <1>3, TailKeeps
<1>6. h.seq \in 0..MaxEvents /\ h.id \in Nat
  BY <1>4 DEF StreamEvents
<1>7. 1 \in DOMAIN outbound /\ h.seq <= socket.highest /\ h.id \notin Shown
  <2>1. 1 \in DOMAIN outbound
    BY <1>4
  <2>2. h.id \in Ids(outbound)
    BY <1>4
  <2> QED
    BY <2>1, <2>2, <1>0, <1>3, <1>4 DEF Measured
<1>8. /\ page'.last = Higher(page.last, h.seq) /\ page'.shown = Append(page.shown, h.id)
      /\ page'.last \in 0..MaxEvents /\ page.last <= page'.last /\ h.seq <= page'.last
      /\ page'.last = page.last \/ page'.last = h.seq
  BY <1>1, <1>3, <1>6 DEF Higher
<1> DEFINE k == Len(page.shown)
<1>9. /\ page'.shown \in Seq(Nat) /\ k \in Nat /\ DOMAIN page.shown = 1..k
      /\ DOMAIN page'.shown = 1..(k + 1)
      /\ \A a \in 1..k : page'.shown[a] = page.shown[a]
      /\ page'.shown[k + 1] = h.id
  <2>1. /\ page'.shown \in Seq(Nat) /\ Len(page'.shown) = k + 1
        /\ \A a \in 1..k : page'.shown[a] = page.shown[a]
        /\ page'.shown[k + 1] = h.id
    BY <1>3, <1>6, <1>8, AppendProperties
  <2> QED
    BY <2>1, <1>3, LenProperties
<1>10. \A a \in 1..(k + 1) : a \in 1..k \/ a = k + 1
  BY <1>9
<1>11. Shown' = Shown \cup {h.id}
  <2>1. Shown' \subseteq Shown \cup {h.id}
    BY <1>9, <1>10 DEF Shown
  <2>2. \A a \in 1..k : a \in 1..(k + 1)
    BY <1>9
  <2>3. k + 1 \in 1..(k + 1)
    BY <1>9
  <2>4. Shown \cup {h.id} \subseteq Shown'
    BY <1>9, <2>2, <2>3 DEF Shown
  <2> QED
    BY <2>1, <2>4
<1>12. Settled' = Settled \cup {h.id} /\ Queued' = Queued /\ AtHand' = AtHand
  <2>1. Settled' = Settled \cup {h.id}
    BY <1>2, <1>11 DEF Settled, Overtaken
  <2>2. Queued' = Queued
    BY <2>1, <1>4 DEF Queued
  <2> QED
    BY <2>1, <2>2, <1>2 DEF AtHand
<1>13. Shown' \cup Ids(outbound') = Shown \cup Ids(outbound)
  BY <1>4, <1>11
<1>14. StreamTypes'
  <2>1. page' \in [last : 0..MaxEvents, shown : Seq(Nat)]
    BY <1>1, <1>8, <1>9
  <2> QED
    BY <2>1, <1>0, <1>2, <1>4 DEF StreamTypes
<1>15. EventsReal'
  BY <1>0, <1>2, <1>5, <1>11 DEF EventsReal
<1>16. QuietUnlessLive'
  BY <1>0, <1>1, <1>2 DEF QuietUnlessLive, Listening
<1>17. Measured'
  <2>1. socket.after <= page'.last /\ page'.last <= socket.highest
    <3>1. socket.after <= page.last /\ page.last <= socket.highest
      BY <1>0 DEF Measured
    <3>2. socket.after \in Nat /\ page.last \in Nat /\ page'.last \in Nat
      BY <1>0, <1>8 DEF StreamTypes
    <3> QED
      BY <3>1, <3>2, <1>7, <1>8
  <2>2. ASSUME NEW j \in Shown' PROVE published[j] <= page'.last
    <3>1. CASE j = h.id
      BY <3>1, <1>5, <1>8
    <3>2. CASE j \in Shown
      <4>1. published[j] <= page.last
        BY <3>2, <1>0 DEF Measured
      <4>2. j \in DOMAIN published
        BY <3>2, <1>0 DEF EventsReal
      <4>3. published[j] \in Nat
        BY <4>2, <1>0, EventsAssumption, SMTT(40) DEF StreamTypes
      <4>4. page.last \in Nat /\ page'.last \in Nat
        BY <1>3, <1>8, EventsAssumption
      <4> QED
        BY <4>1, <4>3, <4>4, <1>8
    <3> QED
      BY <3>1, <3>2, <1>11
  <2>3. ASSUME NEW a \in DOMAIN outbound' PROVE outbound'[a].seq <= socket.highest
    <3>1. a + 1 \in DOMAIN outbound /\ outbound'[a] = outbound[a + 1]
      BY <1>4
    <3> QED
      BY <3>1, <1>0 DEF Measured
  <2> QED
    BY <2>1, <2>2, <2>3, <1>1, <1>2 DEF Measured
<1>18. Witnessed'
  <2>1. /\ Reached(page.last, Shown) /\ Reached(socket.after, Shown)
        /\ Reached(socket.highest, Shown \cup Ids(outbound))
    BY <1>0, <1>1 DEF Witnessed
  <2>2. Reached(page.last, Shown)'
    <3>1. CASE page'.last = page.last
      BY <3>1, <2>1, <1>2, <1>11 DEF Reached
    <3>2. CASE page'.last = h.seq
      <4>1. h.id \in Shown' /\ h.seq <= published'[h.id]
        BY <1>2, <1>5, <1>6, <1>11
      <4> QED
        BY <4>1, <3>2 DEF Reached
    <3> QED
      BY <3>1, <3>2, <1>8
  <2>3. Reached(socket.after, Shown)'
    BY <2>1, <1>2, <1>11 DEF Reached
  <2>4. Reached(socket.highest, Shown \cup Ids(outbound))'
    BY <2>1, <1>2, <1>13 DEF Reached
  <2> QED
    BY <2>2, <2>3, <2>4 DEF Witnessed
<1>19. NothingTwice'
  <2>1. IsInjective(page'.shown)
    <3>1. IsInjective(page.shown)
      BY <1>0 DEF NothingTwice
    <3>2. \A a \in 1..k : page.shown[a] # h.id
      BY <1>7, <1>9 DEF Shown
    <3> QED
      BY <3>1, <3>2, <1>9, <1>10 DEF IsInjective
  <2>2. Ids(outbound') \cap Shown' = {}
    BY <1>3, <1>4, <1>5, <1>11
  <2> QED
    BY <2>1, <2>2, <1>0, <1>2, <1>5, <1>13 DEF NothingTwice
<1>20. Accounted'
  <2>1. \A j \in Shown' : \A i \in 1..(j - 1) : i \in Settled'
    BY <1>0, <1>5, <1>11, <1>12 DEF Accounted
  <2>2. Follows(outbound', Settled')
    BY <1>5, <1>12
  <2> QED
    BY <2>1, <2>2, <1>0, <1>1, <1>2, <1>12 DEF Accounted
<1> QED
  BY <1>14, <1>15, <1>16, <1>17, <1>18, <1>19, <1>20 DEF EventsIInv

LEMMA EventsStep == EventsIInv /\ [EventsNext]_eventVars => EventsIInv'
<1> SUFFICES ASSUME EventsIInv, [EventsNext]_eventVars PROVE EventsIInv'
  OBVIOUS
<1>1. StreamTypes /\ QuietUnlessLive
  BY DEF EventsIInv
<1>2. ASSUME NEW e \in Emitters, NEW answered \in BOOLEAN, NextSeq(e, answered) PROVE EventsIInv'
  <2>1. seqCounter' \in 0..MaxEvents
    BY <1>1, <1>2, EventsAssumption DEF NextSeq, Emits, StreamTypes
  <2>2. emitting' \in [Emitters -> SUBSET (0..MaxEvents)]
    <3>1. seqCounter + 1 \in 0..MaxEvents /\ 0 \in 0..MaxEvents
      BY <1>1, <1>2, EventsAssumption DEF NextSeq, Emits, StreamTypes
    <3> QED
      BY <3>1, <1>1, <1>2 DEF NextSeq, StreamTypes
  <2> QED
    BY <2>1, <2>2, <1>2, NumberingStep DEF NextSeq
<1>3. ASSUME NEW e \in Emitters, PublishFails(e) PROVE EventsIInv'
  <2>1. emitting' \in [Emitters -> SUBSET (0..MaxEvents)] /\ seqCounter' \in 0..MaxEvents
    BY <1>1, <1>3 DEF PublishFails, StreamTypes
  <2> QED
    BY <2>1, <1>3, NumberingStep DEF PublishFails
<1>4. ASSUME KeysExpire PROVE EventsIInv'
  <2>1. emitting' \in [Emitters -> SUBSET (0..MaxEvents)] /\ seqCounter' \in 0..MaxEvents
    BY <1>1, <1>4, EventsAssumption DEF KeysExpire, StreamTypes
  <2> QED
    BY <2>1, <1>4, NumberingStep DEF KeysExpire
<1>5. socket.pc # "live" => backlog = << >> /\ outbound = << >>
  BY <1>1 DEF QuietUnlessLive
<1>6. socket.pc \notin {"subscribed", "live"} => channel = << >>
  BY <1>1 DEF QuietUnlessLive, Listening
<1>7. CASE Connect
  <2>1. socket' \in [pc : SocketPoints, after : 0..MaxEvents, highest : 0..MaxEvents]
    BY <1>1, <1>7 DEF Connect, StreamTypes, SocketPoints
  <2>2. socket'.pc # "live" /\ socket'.after = page.last /\ socket'.highest = page.last
    BY <1>7 DEF Connect
  <2>3. channel' = << >> /\ backlog' = << >> /\ outbound' = << >>
    BY <1>5, <1>6, <1>7 DEF Connect
  <2> QED
    BY <2>1, <2>2, <2>3, <1>7, ConnectingStep DEF Connect
<1>8. ASSUME NEW outcome \in {"admitted", "unauthenticated", "forbidden"}, Handshake(outcome)
      PROVE  EventsIInv'
  <2>1. PICK pc \in {"admitted", "closed", "refused"} : socket' = [socket EXCEPT !.pc = pc]
    BY <1>8 DEF Handshake
  <2>2. /\ socket' \in [pc : SocketPoints, after : 0..MaxEvents, highest : 0..MaxEvents]
        /\ socket'.pc # "live" /\ socket'.after = socket.after /\ socket'.highest = socket.highest
    BY <2>1, <1>1 DEF StreamTypes, SocketPoints
  <2>3. socket.pc = "handshake" /\ UNCHANGED <<redisVars, page, unreplayed>>
    BY <1>8 DEF Handshake
  <2>4. channel' = << >> /\ backlog' = << >> /\ outbound' = << >>
    BY <2>3, <1>5, <1>6, <1>8 DEF Handshake
  <2> QED
    BY <2>2, <2>3, <2>4, ConnectingStep
<1>9. CASE Subscribe
  <2>1. /\ socket' \in [pc : SocketPoints, after : 0..MaxEvents, highest : 0..MaxEvents]
        /\ socket'.pc # "live" /\ socket'.after = socket.after /\ socket'.highest = socket.highest
    BY <1>1, <1>9 DEF Subscribe, StreamTypes, SocketPoints
  <2>2. socket.pc = "admitted" /\ UNCHANGED <<redisVars, page, unreplayed>>
    BY <1>9 DEF Subscribe
  <2>3. channel' = << >> /\ backlog' = << >> /\ outbound' = << >>
    BY <2>2, <1>5, <1>6, <1>9 DEF Subscribe
  <2> QED
    BY <2>1, <2>2, <2>3, ConnectingStep
<1>10. CASE Disconnect
  <2>1. /\ socket' \in [pc : SocketPoints, after : 0..MaxEvents, highest : 0..MaxEvents]
        /\ socket'.pc = "closed" /\ socket'.after = socket.after /\ socket'.highest = socket.highest
    BY <1>1, <1>10 DEF Disconnect, StreamTypes, SocketPoints
  <2>2. /\ channel' = << >> /\ backlog' = << >> /\ outbound' = << >>
        /\ UNCHANGED <<redisVars, page, unreplayed>>
    BY <1>10 DEF Disconnect
  <2> QED
    BY <2>1, <2>2, ConnectingStep
<1>11. CASE UNCHANGED eventVars
  <2>1. UNCHANGED <<channel, published, socket, backlog, outbound, page, unreplayed>>
    BY <1>11 DEF eventVars
  <2>2. replayBuffer' = replayBuffer /\ seqCounter' = seqCounter /\ emitting' = emitting
    BY <1>11 DEF eventVars
  <2> QED
    BY <2>1, <2>2, <1>1, NumberingStep DEF StreamTypes
<1> QED
  BY <1>2, <1>3, <1>4, <1>7, <1>8, <1>9, <1>10, <1>11,
     PublishStep, ReplayStep, BackfillStep, PumpStep, WriteStep DEF EventsNext

(* services/events.py, api/ws/agent.py and the page: however many emitters   *)
(* publish, and however often the page reconnects, it is shown no event twice, *)
(* and once it is up to date it misses only events that were published after *)
(* one of a higher number, got no number, or were in no backlog.             *)
THEOREM EventsInvHolds == EventsSpec => []EventsInv
<1>1. EventsIInv => EventsInv
  <2> SUFFICES ASSUME EventsIInv PROVE EventsInv
    OBVIOUS
  <2>1. StreamTypes /\ NothingTwice /\ Accounted
    BY DEF EventsIInv
  <2>2. EventsTypeOK
    BY <2>1 DEF EventsTypeOK, StreamTypes, SocketPoints
  <2>3. ShownOnce
    BY <2>1 DEF ShownOnce, NothingTwice
  <2>4. MissedOnlyIfOvertaken
    <3> SUFFICES ASSUME socket.pc = "live", backlog = << >>, channel = << >>, outbound = << >>,
                        NEW i \in DOMAIN published
                 PROVE  i \in ToSet(page.shown) \/ Overtaken(i) \/ i \in unreplayed
      BY DEF MissedOnlyIfOvertaken
    <3>1. i \in AtHand \cup Ids(channel)
      BY <2>1 DEF Accounted
    <3>2. i \in Settled
      BY <3>1, NoEvents DEF AtHand, Queued
    <3> QED
      BY <3>2 DEF Settled, Shown, ToSet
  <2> QED
    BY <2>2, <2>3, <2>4 DEF EventsInv
<1> QED
  BY <1>1, EventsInitially, EventsStep, PTL DEF EventsSpec

-----------------------------------------------------------------------------
(* Rows by number                                                          *)

\* Of some rows one is the last.
LEMMA LastOfRows ==
    ASSUME NEW n \in Nat, NEW S \in SUBSET (1..n), S # {}
    PROVE  \E i \in S : \A j \in S : j <= i
<1> DEFINE Above == {i..n : i \in S}
           R == StrictSubsetOrdering(1..n)
<1>1. Above \subseteq FiniteSubsetsOf(1..n) /\ Above # {}
  <2>1. FiniteSubsetsOf(1..n) = SUBSET (1..n)
    <3>1. IsFiniteSet(1..n)
      BY FS_Interval
    <3> QED
      BY <3>1, FS_FiniteSubsetsOfFinite
  <2>2. \A i \in S : i..n \in SUBSET (1..n)
    OBVIOUS
  <2>3. Above \subseteq SUBSET (1..n)
    BY <2>2
  <2>4. Above # {}
    OBVIOUS
  <2> HIDE DEF Above
  <2> QED
    BY <2>1, <2>3, <2>4
<1>2. PICK X \in Above : \A Y \in Above : ~(<<Y, X>> \in R)
  <2> HIDE DEF Above
  <2> QED
    BY <1>1, FS_StrictSubsetOrderingWellFounded, WFMin
<1>3. PICK i \in S : X = i..n
  OBVIOUS
<1>4. ASSUME NEW j \in S PROVE j <= i
  <2>1. ~(<<j..n, i..n>> \in R)
    BY <1>2, <1>3
  <2>2. j..n \subseteq 1..n /\ i..n \subseteq 1..n
    OBVIOUS
  <2>3. i < j => j..n \subseteq i..n /\ i \in i..n /\ i \notin j..n
    OBVIOUS
  <2> QED
    BY <2>1, <2>2, <2>3 DEF StrictSubsetOrdering
<1> QED
  BY <1>4

\* ... and one is the first.
LEMMA FirstOfRows ==
    ASSUME NEW n \in Nat, NEW S \in SUBSET (1..n), S # {}
    PROVE  \E i \in S : \A j \in S : i <= j
<1> DEFINE T == {k \in 1..n : (n + 1) - k \in S}
<1>1. PICK k \in T : \A j \in T : j <= k
  <2>1. PICK i \in S : TRUE
    OBVIOUS
  <2>2. (n + 1) - i \in 1..n /\ (n + 1) - ((n + 1) - i) = i
    OBVIOUS
  <2>3. T # {} /\ T \in SUBSET (1..n)
    BY <2>1, <2>2
  <2> HIDE DEF T
  <2> QED
    BY <2>3, LastOfRows
<1>2. ASSUME NEW j \in S PROVE (n + 1) - k <= j
  <2>1. (n + 1) - j \in 1..n /\ (n + 1) - ((n + 1) - j) = j
    OBVIOUS
  <2>2. (n + 1) - j <= k
    BY <1>1, <2>1
  <2> QED
    BY <1>1, <2>2
<1> QED
  BY <1>1, <1>2

-----------------------------------------------------------------------------
(* Reports                                                                 *)

MakerPoints == {"idle", "ask", "begin", "context", "summary", "render", "store", "complete",
                "finish", "done", "raised", "escaped", "killed"}
MakerStates == [pc : MakerPoints, row : Nat, seen : 0..MaxWork, ext : {"pdf", "html"},
                ai : BOOLEAN, force : BOOLEAN]
ReportRows == [status : {"pending", "generating", "ready", "failed"}, format : {"pdf", "html"},
               seen : 0..MaxWork, ai : BOOLEAN, by : Producers]

\* A producer with a row of its own that it has not settled, and one that knows
\* how much work its report is about.
AtRow == {"begin", "context", "summary", "render", "store", "complete"}
Informed == {"summary", "render", "store", "complete"}

MakingTypes == making \in [Producers -> MakerStates]

\* What a producer in state r knows of the rows: a producer makes one row, works
\* on it while it is unfinished, and leaves a ready or a failed one; an execution
\* of the node renders what is whole, and only while no other one has.
Fits(p, r) ==
    /\ r.row \in 0..Len(reports)
    /\ r.pc \in AtRow => /\ r.row \in DOMAIN reports
                         /\ reports[r.row].by = p
                         /\ reports[r.row].status \in {"pending", "generating"}
    /\ r.pc \in {"finish", "done"} => r.row \in ReadyRows
    /\ r.pc = "raised" => r.row \in DOMAIN reports /\ reports[r.row].status = "failed"
    /\ \A i \in DOMAIN reports : reports[i].by = p => r.row = i /\ r.pc \notin {"idle", "ask"}
    /\ p \in Attempts =>
        /\ ~r.force
        /\ r.pc # "idle" => progress = MaxWork
        /\ r.pc \in Informed => r.seen = MaxWork
        /\ r.pc \in AtRow => \A i \in ReadyRows : reports[i].by \notin Attempts

AllFit == \A p \in Producers : Fits(p, making[p])
UploadedFirst == \A p \in Producers : making[p].pc = "complete" =>
                    <<making[p].row, making[p].ext>> \in objects
OneAttempt == \A p, q \in Attempts :
    p # q => making[p].pc \in {"idle", "killed"} \/ making[q].pc \in {"idle", "killed"}
ReadyAreWhole == \A i \in ReadyRows : reports[i].by \in Attempts => reports[i].seen = MaxWork
CompletedIsReady == completed # 0 => completed \in ReadyRows
OneReady == \A i, j \in ReadyRows :
    reports[i].by \in Attempts /\ reports[j].by \in Attempts => i = j

ReportsIInv ==
    /\ ReportsTypeOK /\ MakingTypes
    /\ AllFit /\ UploadedFirst /\ OneAttempt
    /\ ReadyIsStored /\ ReadyAreWhole /\ CompletedIsReady /\ OneReady

LEMMA MakerAtRest == AtRest \in MakerStates
  BY ReportsAssumption DEF AtRest, MakerStates, MakerPoints

LEMMA RowsAreReports == ReportsTypeOK => \A i \in DOMAIN reports : reports[i] \in ReportRows
<1> SUFFICES ASSUME ReportsTypeOK, NEW i \in DOMAIN reports PROVE reports[i] \in ReportRows
  OBVIOUS
<1>1. reports \in Seq(ReportRows)
  BY DEF ReportsTypeOK, ReportRows
<1> QED
  BY <1>1, ElementOfSeq

LEMMA ReportsInitially == ReportsInit => ReportsIInv
<1> SUFFICES ASSUME ReportsInit PROVE ReportsIInv
  OBVIOUS
<1>1. /\ Len(reports) = 0 /\ DOMAIN reports = {} /\ reports \in Seq(ReportRows)
  BY DEF ReportsInit
<1>2. ReadyRows = {}
  BY <1>1 DEF ReadyRows
<1>3. \A p \in Producers : making[p] = AtRest
  BY DEF ReportsInit
<1>4. MakingTypes
  BY MakerAtRest DEF ReportsInit, MakingTypes
<1>5. ReportsTypeOK
  BY <1>1, <1>3, ReportsAssumption DEF ReportsInit, ReportsTypeOK, ReportRows, AtRest
<1>6. AllFit
  BY <1>1, <1>3 DEF AllFit, Fits, AtRest, AtRow, Informed
<1>7. UploadedFirst /\ OneAttempt
  BY <1>3 DEF UploadedFirst, OneAttempt, AtRest, Producers
<1>8. ReadyIsStored /\ ReadyAreWhole /\ CompletedIsReady /\ OneReady
  BY <1>2 DEF ReportsInit, ReadyIsStored, ReadyAreWhole, CompletedIsReady, OneReady
<1> QED
  BY <1>4, <1>5, <1>6, <1>7, <1>8 DEF ReportsIInv

\* Producer p moves on while the rows stay as they are.
LEMMA MakerMoves ==
    ASSUME ReportsIInv, NEW p \in Producers, NEW r \in MakerStates, Goes(p, r), Fits(p, r),
           UNCHANGED <<progress, configured, reports>>,
           completed' \in {completed} \cup ReadyRows,
           objects \subseteq objects', objects' \subseteq (DOMAIN reports) \X {"pdf", "html"},
           r.pc = "complete" => <<r.row, r.ext>> \in objects',
           p \in Attempts /\ r.pc \notin {"idle", "killed"} =>
                \A q \in Attempts \ {p} : making[q].pc \in {"idle", "killed"}
    PROVE  ReportsIInv'
<1> USE DEF ReportsIInv
<1>1. /\ making' \in [Producers -> MakerStates]
      /\ making'[p] = r
      /\ \A q \in Producers \ {p} : making'[q] = making[q]
  BY DEF Goes, MakingTypes
<1>2. ReadyRows' = ReadyRows
  BY DEF ReadyRows
<1>3. ReadyRows \subseteq DOMAIN reports /\ DOMAIN reports = 1..Len(reports) /\ Len(reports) \in Nat
  BY DEF ReportsTypeOK, ReadyRows
<1>4. AllFit'
  <2> SUFFICES ASSUME NEW q \in Producers PROVE Fits(q, making[q])'
    BY DEF AllFit
  <2>1. Fits(q, making'[q])
    BY <1>1 DEF AllFit
  <2> QED
    BY <2>1, <1>2 DEF Fits
<1>5. ReportsTypeOK'
  <2>1. completed' \in 0..Len(reports)
    BY <1>3 DEF ReportsTypeOK
  <2>2. \A q \in Producers : making'[q].row \in 0..Len(reports)
    BY <1>4 DEF AllFit, Fits
  <2> QED
    BY <2>1, <2>2 DEF ReportsTypeOK
<1>6. UploadedFirst'
  <2> SUFFICES ASSUME NEW q \in Producers, making'[q].pc = "complete"
               PROVE  <<making'[q].row, making'[q].ext>> \in objects'
    BY DEF UploadedFirst
  <2> QED
    BY <1>1 DEF UploadedFirst
<1>7. OneAttempt'
  BY <1>1 DEF OneAttempt, Producers
<1>8. ReadyIsStored' /\ ReadyAreWhole' /\ OneReady'
  BY <1>2 DEF ReadyIsStored, ReadyAreWhole, OneReady
<1>9. CompletedIsReady'
  BY <1>2 DEF CompletedIsReady
<1>10. MakingTypes'
  BY <1>1 DEF MakingTypes
<1> QED
  BY <1>4, <1>5, <1>6, <1>7, <1>8, <1>9, <1>10

\* Producer p at its row writes it, and goes on.
LEMMA MakerWrites ==
    ASSUME ReportsIInv, NEW p \in Producers, NEW r \in MakerStates, NEW new \in ReportRows,
           making[p].pc \in AtRow, Goes(p, r), RowIs(making[p].row, new),
           UNCHANGED <<progress, completed, configured, objects>>,
           r.row = making[p].row, r.force = making[p].force,
           r.pc \in {"context", "finish", "done", "raised"},
           new.by = p,
           r.pc = "context" => new.status \in {"pending", "generating"},
           r.pc \in {"finish", "done"} => new.status = "ready",
           r.pc = "raised" => new.status = "failed",
           new.status = "ready" => /\ <<r.row, new.format>> \in objects
                                   /\ p \in Attempts => new.seen = MaxWork
    PROVE  ReportsIInv'
<1> USE DEF ReportsIInv
<1> DEFINE i == making[p].row
<1>1. /\ making' \in [Producers -> MakerStates]
      /\ making'[p] = r
      /\ \A q \in Producers \ {p} : making'[q] = making[q]
  BY DEF Goes, MakingTypes
<1>2. reports \in Seq(ReportRows)
  BY DEF ReportsTypeOK, ReportRows
<1>3. /\ i \in DOMAIN reports /\ reports[i].by = p
      /\ reports[i].status \in {"pending", "generating"}
      /\ p \in Attempts => /\ ~making[p].force /\ progress = MaxWork
                           /\ \A j \in ReadyRows : reports[j].by \notin Attempts
  BY DEF AllFit, Fits, AtRow
<1>4. /\ reports' \in Seq(ReportRows) /\ Len(reports') = Len(reports)
      /\ DOMAIN reports' = DOMAIN reports /\ reports'[i] = new
      /\ \A j \in DOMAIN reports \ {i} : reports'[j] = reports[j]
  BY <1>2, <1>3 DEF RowIs
<1>5. /\ \A j \in DOMAIN reports \ {i} : j \in ReadyRows' <=> j \in ReadyRows
      /\ i \notin ReadyRows
      /\ i \in ReadyRows' <=> new.status = "ready"
      /\ ReadyRows' \subseteq DOMAIN reports
      /\ ReadyRows \subseteq ReadyRows'
  BY <1>3, <1>4, SMTT(40) DEF ReadyRows
<1>6. ASSUME p \in Attempts, NEW q \in Attempts, q # p
      PROVE  making[q].pc \in {"idle", "killed"}
  BY <1>6 DEF OneAttempt, AtRow
<1> HIDE DEF i
<1>7. AllFit'
  <2> SUFFICES ASSUME NEW q \in Producers PROVE Fits(q, making[q])'
    BY DEF AllFit
  <2>1. CASE q = p
    <3>1. making'[q] = r /\ r.row = i /\ Fits(p, making[p])
      BY <2>1, <1>1 DEF i, AllFit
    <3>2. \A j \in DOMAIN reports : reports'[j].by = p => j = i
      BY <1>3, <1>4, <3>1 DEF Fits, i
    <3>3. /\ r.row \in 0..Len(reports')
          /\ r.pc \notin {"idle", "ask"}
          /\ r.pc \notin Informed
      BY <3>1, <1>4 DEF Fits, i, Informed
    <3>4. r.pc = "context" => ReadyRows' = ReadyRows
      BY <1>5
    <3>5. ASSUME p \in Attempts, r.pc = "context", NEW j \in ReadyRows'
          PROVE  reports'[j].by \notin Attempts
      BY <3>5, <3>4, <1>3, <1>4, <1>5
    <3> QED
      BY <3>1, <3>2, <3>3, <3>5, <1>3, <1>4, <1>5, <2>1 DEF Fits, AtRow, i
  <2>2. CASE q # p
    <3>1. making'[q] = making[q] /\ Fits(q, making[q])
      BY <2>2, <1>1 DEF AllFit
    <3> DEFINE k == making[q].row
    <3>2. \A j \in DOMAIN reports : reports'[j].by = q => reports[j].by = q /\ j # i
      BY <1>3, <1>4, <2>2
    <3>3. making[q].pc \in AtRow => k \in DOMAIN reports \ {i}
      BY <3>1, <1>3, <2>2 DEF Fits
    <3>4. making[q].pc \in {"finish", "done"} => k \in ReadyRows'
      BY <3>1, <1>5 DEF Fits
    <3>5. making[q].pc = "raised" => k \in DOMAIN reports \ {i}
      BY <3>1, <1>3 DEF Fits
    <3>6. ASSUME q \in Attempts, making[q].pc \in AtRow, NEW j \in ReadyRows'
          PROVE  reports'[j].by \notin Attempts
      <4>1. p \notin Attempts
        BY <3>6, <2>2, <1>6 DEF AtRow
      <4> QED
        BY <3>6, <4>1, <3>1, <1>4, <1>5 DEF Fits
    <3> HIDE DEF k
    <3>7. making[q].row = k
      BY DEF k
    <3> QED
      BY <3>1, <3>2, <3>3, <3>4, <3>5, <3>6, <3>7, <1>4, <1>5 DEF Fits
  <2> QED
    BY <2>1, <2>2
<1>8. ReportsTypeOK'
  <2>1. \A q \in Producers : making'[q].row \in 0..Len(reports')
    BY <1>7 DEF AllFit, Fits
  <2> QED
    BY <2>1, <1>4 DEF ReportsTypeOK, ReportRows
<1>9. UploadedFirst'
  BY <1>1 DEF UploadedFirst
<1>10. OneAttempt'
  BY <1>1, <1>6 DEF OneAttempt, Producers
<1>11. ReadyIsStored'
  <2> SUFFICES ASSUME NEW j \in ReadyRows' PROVE <<j, reports'[j].format>> \in objects'
    BY DEF ReadyIsStored
  <2> QED
    BY <1>4, <1>5 DEF ReadyIsStored, i
<1>12. ReadyAreWhole'
  BY <1>4, <1>5 DEF ReadyAreWhole
<1>13. CompletedIsReady'
  BY <1>5 DEF CompletedIsReady
<1>14. OneReady'
  <2> SUFFICES ASSUME NEW j \in ReadyRows', NEW k \in ReadyRows',
                      reports'[j].by \in Attempts, reports'[k].by \in Attempts
               PROVE  j = k
    BY DEF OneReady
  <2>1. CASE p \in Attempts
    BY <2>1, <1>3, <1>4, <1>5
  <2>2. CASE p \notin Attempts
    BY <2>2, <1>3, <1>4, <1>5 DEF OneReady
  <2> QED
    BY <2>1, <2>2
<1>15. MakingTypes'
  BY <1>1 DEF MakingTypes
<1> QED
  BY <1>7, <1>8, <1>9, <1>10, <1>11, <1>12, <1>13, <1>14, <1>15

\* A producer that may ask for a row makes it.
LEMMA MakerCreates == ASSUME ReportsIInv, NEW p \in Producers, CreateReport(p) PROVE ReportsIInv'
<1> USE DEF ReportsIInv
<1> DEFINE n == Len(reports)
           row == [status |-> "pending", format |-> "pdf", seen |-> 0, ai |-> FALSE, by |-> p]
           r == [making[p] EXCEPT !.pc = "begin", !.row = n + 1]
<1>1. /\ making[p] \in MakerStates /\ making[p].pc = "ask"
      /\ making' = [making EXCEPT ![p] = r]
      /\ reports' = Append(reports, row)
  BY DEF CreateReport, Goes, MakingTypes
<1>2. reports \in Seq(ReportRows) /\ row \in ReportRows /\ n \in Nat
  <2>1. reports \in Seq(ReportRows)
    BY DEF ReportsTypeOK, ReportRows
  <2>2. row \in ReportRows
    <3>1. 0 \in 0..MaxWork
      BY ReportsAssumption
    <3> QED
      BY <3>1 DEF ReportRows
  <2> QED
    BY <2>1, <2>2
<1>3. /\ r \in MakerStates /\ r.pc = "begin" /\ r.row = n + 1
      /\ r.force = making[p].force
  <2>1. n + 1 \in Nat /\ making[p] \in MakerStates
    BY <1>1, <1>2
  <2> HIDE DEF n
  <2> QED
    BY <2>1 DEF MakerStates, MakerPoints
<1>4. row.by = p /\ row.status = "pending"
  OBVIOUS
<1> HIDE DEF row, r
<1>5. /\ making' \in [Producers -> MakerStates]
      /\ making'[p] = r
      /\ \A q \in Producers \ {p} : making'[q] = making[q]
  BY <1>1, <1>3 DEF MakingTypes
<1>6. /\ reports' \in Seq(ReportRows) /\ Len(reports') = n + 1
      /\ DOMAIN reports = 1..n /\ DOMAIN reports' = 1..(n + 1)
      /\ reports'[n + 1] = row
      /\ \A j \in DOMAIN reports : reports'[j] = reports[j]
  BY <1>1, <1>2, AppendProperties
<1> HIDE DEF n
<1>7. ReadyRows' = ReadyRows /\ ReadyRows \subseteq DOMAIN reports /\ n + 1 \notin DOMAIN reports
      /\ n + 1 \in DOMAIN reports' /\ DOMAIN reports \subseteq DOMAIN reports'
  BY <1>2, <1>4, <1>6 DEF ReadyRows
<1>8. Fits(p, making[p]) /\ \A j \in DOMAIN reports : reports[j].by # p
  <2>1. Fits(p, making[p])
    BY DEF AllFit
  <2> QED
    BY <2>1, <1>1 DEF Fits
<1>9. AllFit'
  <2> SUFFICES ASSUME NEW q \in Producers PROVE Fits(q, making[q])'
    BY DEF AllFit
  <2>1. CASE q = p
    <3>1. \A j \in DOMAIN reports' : reports'[j].by = p => j = n + 1
      BY <1>2, <1>6, <1>8
    <3>2. p \in Attempts => ReadyRows = {} /\ progress = MaxWork
      BY <1>1, <1>8 DEF CreateReport, Fits
    <3>3. progress' = progress /\ r.row \in 0..Len(reports')
      BY <1>2, <1>3, <1>6 DEF CreateReport
    <3> QED
      BY <3>1, <3>2, <3>3, <2>1, <1>3, <1>4, <1>5, <1>6, <1>7, <1>8 DEF Fits, AtRow, Informed
  <2>2. CASE q # p
    <3>1. making'[q] = making[q] /\ Fits(q, making[q]) /\ progress' = progress
      BY <2>2, <1>5 DEF AllFit, CreateReport
    <3>2. ASSUME NEW j \in DOMAIN reports', reports'[j].by = q
          PROVE  j \in DOMAIN reports /\ reports[j].by = q
      BY <3>2, <1>2, <1>4, <1>6, <2>2
    <3>3. making[q].row \in 0..Len(reports')
      BY <3>1, <1>2, <1>6 DEF Fits, n
    <3>4. \A j \in ReadyRows : reports'[j] = reports[j]
      BY <1>6, <1>7
    <3> QED
      BY <3>1, <3>2, <3>3, <3>4, <1>6, <1>7 DEF Fits
  <2> QED
    BY <2>1, <2>2
<1>10. ReportsTypeOK'
  <2>1. \A q \in Producers : making'[q].row \in 0..Len(reports')
    BY <1>9 DEF AllFit, Fits
  <2>2. completed' \in 0..Len(reports')
    BY <1>2, <1>6 DEF ReportsTypeOK, CreateReport, n
  <2>3. objects' \subseteq (DOMAIN reports') \X {"pdf", "html"}
    BY <1>7 DEF ReportsTypeOK, CreateReport
  <2> QED
    BY <2>1, <2>2, <2>3, <1>6 DEF ReportsTypeOK, ReportRows, CreateReport
<1>11. UploadedFirst'
  <2> SUFFICES ASSUME NEW q \in Producers, making'[q].pc = "complete"
               PROVE  <<making'[q].row, making'[q].ext>> \in objects'
    BY DEF UploadedFirst
  <2> QED
    BY <1>3, <1>5 DEF UploadedFirst, CreateReport
<1>12. OneAttempt'
  <2> SUFFICES ASSUME NEW q \in Attempts, NEW s \in Attempts, q # s
               PROVE  making'[q].pc \in {"idle", "killed"} \/ making'[s].pc \in {"idle", "killed"}
    BY DEF OneAttempt
  <2> QED
    BY <1>1, <1>5 DEF OneAttempt, Producers
<1>13. ReadyIsStored' /\ ReadyAreWhole' /\ OneReady' /\ CompletedIsReady'
  <2>1. \A j \in ReadyRows : reports'[j] = reports[j]
    BY <1>6, <1>7
  <2> QED
    BY <2>1, <1>7 DEF ReadyIsStored, ReadyAreWhole, OneReady, CompletedIsReady, CreateReport
<1>14. MakingTypes'
  BY <1>5 DEF MakingTypes
<1> QED
  BY <1>9, <1>10, <1>11, <1>12, <1>13, <1>14

\* While the work goes on no execution of the node has begun.
LEMMA WorkGoesOn == ASSUME ReportsIInv, RunWorks PROVE ReportsIInv'
<1> USE DEF ReportsIInv
<1>1. progress' \in 0..MaxWork /\ progress # MaxWork
  BY ReportsAssumption DEF RunWorks, ReportsTypeOK
<1>2. \A p \in Attempts : making[p].pc = "idle"
  BY <1>1 DEF AllFit, Fits, Producers
<1>3. ReadyRows' = ReadyRows
  BY DEF ReadyRows, RunWorks
<1>4. AllFit'
  BY <1>2, <1>3 DEF AllFit, Fits, RunWorks, AtRow, Informed
<1>5. ReportsTypeOK'
  BY <1>1 DEF ReportsTypeOK, RunWorks
<1>6. /\ MakingTypes' /\ UploadedFirst' /\ OneAttempt' /\ ReadyIsStored' /\ ReadyAreWhole'
      /\ CompletedIsReady' /\ OneReady'
  BY <1>3 DEF MakingTypes, UploadedFirst, OneAttempt, ReadyIsStored, ReadyAreWhole,
     CompletedIsReady, OneReady, RunWorks
<1> QED
  BY <1>4, <1>5, <1>6

LEMMA ReportsStep == ReportsIInv /\ [ReportsNext]_reportVars => ReportsIInv'
<1> SUFFICES ASSUME ReportsIInv, [ReportsNext]_reportVars PROVE ReportsIInv'
  OBVIOUS
<1> USE DEF ReportsIInv
<1>1. /\ making \in [Producers -> MakerStates]
      /\ \A p \in Producers : Fits(p, making[p])
      /\ objects \subseteq (DOMAIN reports) \X {"pdf", "html"}
      /\ progress \in 0..MaxWork
  BY DEF MakingTypes, AllFit, ReportsTypeOK
\* What the rows let a producer do that is not at its row, or goes on at it.
<1>2. ASSUME NEW p \in Producers, NEW r \in MakerStates, Goes(p, r), Fits(p, r),
             UNCHANGED <<progress, completed, configured, reports, objects>>,
             r.pc # "complete",
             p \in Attempts /\ r.pc \notin {"idle", "killed"} =>
                \A q \in Attempts \ {p} : making[q].pc \in {"idle", "killed"}
      PROVE  ReportsIInv'
  BY <1>2, <1>1, MakerMoves
<1>3. ASSUME NEW p \in Attempts, making[p].pc \notin {"idle", "killed"}, NEW q \in Attempts \ {p}
      PROVE  making[q].pc \in {"idle", "killed"}
  BY <1>3 DEF OneAttempt
<1>4. ASSUME NEW p \in Producers, StartNode(p) PROVE ReportsIInv'
  <2> DEFINE r == [making[p] EXCEPT !.pc = "ask"]
  <2>1. making[p] \in MakerStates /\ making[p].pc = "idle" /\ Fits(p, making[p])
    BY <1>1, <1>4 DEF StartNode
  <2>2. r \in MakerStates /\ r.pc = "ask" /\ r.row = making[p].row /\ r.force = making[p].force
    BY <2>1 DEF MakerStates, MakerPoints
  <2>3. Goes(p, r) /\ progress = MaxWork
    BY <1>4 DEF StartNode, Step
  <2> HIDE DEF r
  <2>4. Fits(p, r)
    BY <2>1, <2>2, <2>3 DEF Fits, AtRow, Informed
  <2> QED
    BY <1>2, <1>4, <2>2, <2>3, <2>4 DEF StartNode
<1>5. ASSUME NEW p \in Producers, StartRequest(p) PROVE ReportsIInv'
  <2>1. PICK f \in BOOLEAN : Goes(p, [AtRest EXCEPT !.pc = "ask", !.force = f])
    BY <1>5 DEF StartRequest
  <2> DEFINE r == [AtRest EXCEPT !.pc = "ask", !.force = f]
  <2>2. r \in MakerStates /\ r.pc = "ask" /\ r.row = 0
    BY MakerAtRest DEF MakerStates, MakerPoints, AtRest
  <2>3. making[p].pc = "idle" /\ Fits(p, making[p]) /\ p \notin Attempts
    BY <1>1, <1>5, ReportsAssumption DEF StartRequest
  <2> HIDE DEF r
  <2>4. Fits(p, r)
    <3>1. Len(reports) \in Nat
      BY DEF ReportsTypeOK
    <3> QED
      BY <3>1, <2>2, <2>3 DEF Fits, AtRow
  <2>5. Goes(p, r)
    BY <2>1 DEF r
  <2> QED
    BY <1>2, <1>5, <2>2, <2>3, <2>4, <2>5 DEF StartRequest
<1>6. ASSUME NEW p \in Producers, Reuse(p) PROVE ReportsIInv'
  <2> DEFINE r == [making[p] EXCEPT !.row = LatestReady,
                                    !.pc = IF p \in Attempts THEN "finish" ELSE "done"]
  <2>1. making[p] \in MakerStates /\ making[p].pc = "ask" /\ Fits(p, making[p]) /\ Goes(p, r)
    BY <1>1, <1>6 DEF Reuse
  <2>2. LatestReady \in ReadyRows
    <3>1. ReadyRows \subseteq 1..Len(reports) /\ Len(reports) \in Nat /\ ReadyRows # {}
      BY <1>6, SMTT(40) DEF ReadyRows, ReportsTypeOK, Reuse
    <3>2. \E i \in ReadyRows : \A j \in ReadyRows : j <= i
      BY <3>1, LastOfRows
    <3> QED
      BY <3>2 DEF LatestReady
  <2>3. LatestReady \in 1..Len(reports) /\ Len(reports) \in Nat
    BY <2>2, SMTT(40) DEF ReadyRows, ReportsTypeOK
  <2>4. /\ r \in MakerStates /\ r.pc \in {"finish", "done"} /\ r.row = LatestReady
        /\ r.force = making[p].force
    <3> HIDE DEF r
    <3>1. LatestReady \in Nat
      BY <2>3
    <3>2. ASSUME NEW n \in Nat, NEW pc \in {"finish", "done"}
          PROVE  LET q == [making[p] EXCEPT !.row = n, !.pc = pc]
                 IN q \in MakerStates /\ q.pc = pc /\ q.row = n /\ q.force = making[p].force
      BY <2>1 DEF MakerStates, MakerPoints
    <3>3. (IF p \in Attempts THEN "finish" ELSE "done") \in {"finish", "done"}
      OBVIOUS
    <3> QED
      BY <3>1, <3>2, <3>3, ZenonT(60) DEF r
  <2> HIDE DEF r
  <2>5. \A i \in DOMAIN reports : reports[i].by # p
    BY <2>1 DEF Fits
  <2>6. Fits(p, r)
    <3>1. LatestReady \in 0..Len(reports)
      BY <2>3
    <3> QED
      BY <3>1, <2>1, <2>2, <2>4, <2>5 DEF Fits, AtRow, Informed
  <2> QED
    BY <1>2, <1>3, <1>6, <2>1, <2>4, <2>6 DEF Reuse
<1>7. ASSUME NEW p \in Producers, BeginGeneration(p) PROVE ReportsIInv'
  <2> DEFINE r == [making[p] EXCEPT !.pc = "context"]
             row == [reports[making[p].row] EXCEPT !.status = "generating"]
  <2>1. /\ making[p] \in MakerStates /\ making[p].pc = "begin" /\ Fits(p, making[p])
        /\ Goes(p, r) /\ RowIs(making[p].row, row)
    BY <1>1, <1>7 DEF BeginGeneration, Step
  <2>2. reports[making[p].row] \in ReportRows /\ reports[making[p].row].by = p
    BY <2>1, RowsAreReports DEF Fits, AtRow
  <2>3. row \in ReportRows /\ row.by = p /\ row.status = "generating"
    BY <2>2 DEF ReportRows
  <2>4. r \in MakerStates /\ r.pc = "context" /\ r.row = making[p].row /\ r.force = making[p].force
    BY <2>1 DEF MakerStates, MakerPoints
  <2> HIDE DEF r, row
  <2> QED
    BY <1>7, <2>1, <2>3, <2>4, MakerWrites DEF BeginGeneration, AtRow
\* The producers at their rows that go on to the next point.
<1>8. ASSUME NEW p \in Producers, NEW r \in MakerStates, Goes(p, r),
             making[p].pc \in AtRow, r.pc \in AtRow, r.row = making[p].row,
             r.force = making[p].force, p \in Attempts /\ r.pc \in Informed => r.seen = MaxWork,
             UNCHANGED <<progress, completed, configured, reports>>,
             objects \subseteq objects', objects' \subseteq (DOMAIN reports) \X {"pdf", "html"},
             r.pc = "complete" => <<r.row, r.ext>> \in objects'
      PROVE  ReportsIInv'
  <2>1. Fits(p, making[p])
    BY <1>1
  <2>2. Fits(p, r)
    BY <2>1, <1>8 DEF Fits, AtRow
  <2>3. p \in Attempts => \A q \in Attempts \ {p} : making[q].pc \in {"idle", "killed"}
    BY <1>3, <1>8 DEF AtRow
  <2> QED
    BY <1>8, <2>2, <2>3, MakerMoves
<1>9. ASSUME NEW p \in Producers, BuildContext(p) PROVE ReportsIInv'
  <2> DEFINE r == [making[p] EXCEPT !.pc = "summary", !.seen = progress]
  <2>1. making[p] \in MakerStates /\ making[p].pc = "context" /\ Fits(p, making[p]) /\ Goes(p, r)
    BY <1>1, <1>9 DEF BuildContext
  <2>2. /\ r \in MakerStates /\ r.pc = "summary" /\ r.row = making[p].row
        /\ r.force = making[p].force /\ r.seen = progress
    BY <1>1, <2>1 DEF MakerStates, MakerPoints
  <2> HIDE DEF r
  <2>3. p \in Attempts => r.seen = MaxWork
    BY <2>1, <2>2 DEF Fits
  <2> QED
    BY <1>1, <1>8, <1>9, <2>1, <2>2, <2>3 DEF BuildContext, AtRow
<1>10. ASSUME NEW p \in Producers, ExecutiveSummary(p) PROVE ReportsIInv'
  <2>1. PICK answer \in Summaries :
            Goes(p, [making[p] EXCEPT !.pc = "render", !.ai = answer = "sound"])
    BY <1>10 DEF ExecutiveSummary
  <2> DEFINE r == [making[p] EXCEPT !.pc = "render", !.ai = answer = "sound"]
  <2>2. making[p] \in MakerStates /\ making[p].pc = "summary" /\ Fits(p, making[p])
    BY <1>1, <1>10 DEF ExecutiveSummary
  <2>3. /\ r \in MakerStates /\ r.pc = "render" /\ r.row = making[p].row
        /\ r.force = making[p].force /\ r.seen = making[p].seen
    <3>1. (answer = "sound") \in BOOLEAN
      OBVIOUS
    <3> QED
      BY <3>1, <2>2 DEF MakerStates, MakerPoints
  <2>4. Goes(p, r)
    BY <2>1
  <2> HIDE DEF r
  <2> QED
    BY <1>1, <1>8, <1>10, <2>2, <2>3, <2>4 DEF ExecutiveSummary, AtRow, Fits, Informed
<1>11. ASSUME NEW p \in Producers, Render(p) PROVE ReportsIInv'
  <2>1. PICK e \in {"pdf", "html"} : Goes(p, [making[p] EXCEPT !.pc = "store", !.ext = e])
    BY <1>11 DEF Render
  <2> DEFINE r == [making[p] EXCEPT !.pc = "store", !.ext = e]
  <2>2. making[p] \in MakerStates /\ making[p].pc = "render" /\ Fits(p, making[p])
    BY <1>1, <1>11 DEF Render
  <2>3. /\ r \in MakerStates /\ r.pc = "store" /\ r.row = making[p].row
        /\ r.force = making[p].force /\ r.seen = making[p].seen
    BY <2>2 DEF MakerStates, MakerPoints
  <2>4. Goes(p, r)
    BY <2>1
  <2> HIDE DEF r
  <2> QED
    BY <1>1, <1>8, <1>11, <2>2, <2>3, <2>4 DEF Render, AtRow, Fits, Informed
<1>12. ASSUME NEW p \in Producers, Store(p) PROVE ReportsIInv'
  <2> DEFINE r == [making[p] EXCEPT !.pc = "complete"]
  <2>1. making[p] \in MakerStates /\ making[p].pc = "store" /\ Fits(p, making[p]) /\ Goes(p, r)
    BY <1>1, <1>12 DEF Store, Step
  <2>2. /\ r \in MakerStates /\ r.pc = "complete" /\ r.row = making[p].row
        /\ r.force = making[p].force /\ r.seen = making[p].seen /\ r.ext = making[p].ext
        /\ r.ext \in {"pdf", "html"}
    BY <2>1 DEF MakerStates, MakerPoints
  <2>3. /\ objects' = objects \cup {<<r.row, r.ext>>} /\ r.row \in DOMAIN reports
    BY <1>12, <2>1, <2>2 DEF Store, Fits, AtRow
  <2> HIDE DEF r
  <2>4. p \in Attempts => r.seen = MaxWork
    BY <2>1, <2>2 DEF Fits, Informed
  <2>5. objects' \subseteq (DOMAIN reports) \X {"pdf", "html"}
    BY <1>1, <2>2, <2>3
  <2> QED
    BY <1>8, <1>12, <2>1, <2>2, <2>3, <2>4, <2>5 DEF Store, AtRow
<1>13. ASSUME NEW p \in Producers, CompleteGeneration(p) PROVE ReportsIInv'
  <2> DEFINE r == [making[p] EXCEPT !.pc = IF p \in Attempts THEN "finish" ELSE "done"]
             row == [reports[making[p].row] EXCEPT !.status = "ready", !.format = making[p].ext,
                        !.seen = making[p].seen, !.ai = making[p].ai]
  <2>1. /\ making[p] \in MakerStates /\ making[p].pc = "complete" /\ Fits(p, making[p])
        /\ Goes(p, r) /\ RowIs(making[p].row, row)
        /\ <<making[p].row, making[p].ext>> \in objects
    BY <1>1, <1>13 DEF CompleteGeneration, Step, UploadedFirst
  <2>2. reports[making[p].row] \in ReportRows /\ reports[making[p].row].by = p
    BY <2>1, RowsAreReports DEF Fits, AtRow
  <2>3. /\ row \in ReportRows /\ row.by = p /\ row.status = "ready"
        /\ row.format = making[p].ext /\ row.seen = making[p].seen
    BY <2>1, <2>2 DEF ReportRows, MakerStates
  <2>4. /\ r \in MakerStates /\ r.pc \in {"finish", "done"} /\ r.row = making[p].row
        /\ r.force = making[p].force
    BY <2>1 DEF MakerStates, MakerPoints
  <2>5. p \in Attempts => row.seen = MaxWork
    BY <2>1, <2>3 DEF Fits, Informed
  <2> HIDE DEF r, row
  <2> QED
    BY <1>13, <2>1, <2>3, <2>4, <2>5, MakerWrites DEF CompleteGeneration, AtRow
<1>14. ASSUME NEW p \in Producers, FailGeneration(p) PROVE ReportsIInv'
  <2> DEFINE r == [making[p] EXCEPT !.pc = "raised"]
             row == [reports[making[p].row] EXCEPT !.status = "failed", !.format = making[p].ext]
  <2>1. /\ making[p] \in MakerStates /\ making[p].pc \in {"render", "store"}
        /\ Fits(p, making[p]) /\ Goes(p, r) /\ RowIs(making[p].row, row)
    BY <1>1, <1>14 DEF FailGeneration, Step
  <2>2. reports[making[p].row] \in ReportRows /\ reports[making[p].row].by = p
    BY <2>1, RowsAreReports DEF Fits, AtRow
  <2>3. row \in ReportRows /\ row.by = p /\ row.status = "failed"
    BY <2>1, <2>2 DEF ReportRows, MakerStates
  <2>4. r \in MakerStates /\ r.pc = "raised" /\ r.row = making[p].row /\ r.force = making[p].force
    BY <2>1 DEF MakerStates, MakerPoints
  <2> HIDE DEF r, row
  <2> QED
    BY <1>14, <2>1, <2>3, <2>4, MakerWrites DEF FailGeneration, AtRow
\* Whoever leaves on an exception, or dies, leaves its row as it is.
<1>15. ASSUME NEW p \in Producers, NEW pc \in {"escaped", "killed"}, Step(p, pc),
              making[p].pc # "idle",
              p \in Attempts /\ pc # "killed" => making[p].pc \notin {"idle", "killed"},
              UNCHANGED <<progress, completed, configured, reports, objects>>
       PROVE  ReportsIInv'
  <2> DEFINE r == [making[p] EXCEPT !.pc = pc]
  <2>1. making[p] \in MakerStates /\ Fits(p, making[p]) /\ Goes(p, r)
    BY <1>1, <1>15 DEF Step
  <2>2. /\ r \in MakerStates /\ r.pc = pc /\ r.row = making[p].row
        /\ r.force = making[p].force
    BY <2>1, <1>15 DEF MakerStates, MakerPoints
  <2> HIDE DEF r
  <2>3. Fits(p, r)
    BY <1>15, <2>1, <2>2 DEF Fits, AtRow, Informed
  <2> QED
    BY <1>2, <1>3, <1>15, <2>1, <2>2, <2>3
<1>16. ASSUME NEW p \in Producers, Escape(p) PROVE ReportsIInv'
  BY <1>15, <1>16 DEF Escape
<1>17. ASSUME NEW p \in Producers, Kill(p) PROVE ReportsIInv'
  BY <1>15, <1>17 DEF Kill, Stopped
<1>18. ASSUME NEW p \in Producers, CompleteAssessment(p) PROVE ReportsIInv'
  <2> DEFINE r == [making[p] EXCEPT !.pc = "done"]
  <2>1. making[p] \in MakerStates /\ making[p].pc = "finish" /\ Fits(p, making[p]) /\ Goes(p, r)
    BY <1>1, <1>18 DEF CompleteAssessment, Step
  <2>2. r \in MakerStates /\ r.pc = "done" /\ r.row = making[p].row /\ r.force = making[p].force
    BY <2>1 DEF MakerStates, MakerPoints
  <2> HIDE DEF r
  <2>3. Fits(p, r)
    BY <2>1, <2>2 DEF Fits, AtRow, Informed
  <2>4. completed' \in ReadyRows
    BY <1>18, <2>1 DEF CompleteAssessment, Fits
  <2>5. p \in Attempts => \A q \in Attempts \ {p} : making[q].pc \in {"idle", "killed"}
    BY <1>3, <2>1
  <2> QED
    BY <1>1, <1>18, <2>1, <2>2, <2>3, <2>4, <2>5, MakerMoves DEF CompleteAssessment
<1>19. CASE UNCHANGED reportVars
  BY <1>19 DEF reportVars, ReportsTypeOK, MakingTypes, AllFit, Fits, UploadedFirst, OneAttempt,
     ReadyIsStored, ReadyAreWhole, CompletedIsReady, OneReady, ReadyRows
<1> QED
  BY <1>4, <1>5, <1>6, <1>7, <1>9, <1>10, <1>11, <1>12, <1>13, <1>14, <1>16, <1>17, <1>18,
     <1>19, MakerCreates, WorkGoesOn DEF ReportsNext

(* Whatever stops the producers of a report in between - any number of attempts   *)
(* of the run and of requests, each killed, disconnected or failed at any point - *)
(* what can be downloaded is in the bucket, a completed assessment names a ready  *)
(* report of all its work unless a request had rendered it, the run renders one,  *)
(* and a row that stays unfinished was left by a producer that did not end.       *)
THEOREM ReportsInvHolds == ReportsSpec => []ReportsInv
<1>1. ReportsIInv => ReportsInv
  <2> SUFFICES ASSUME ReportsIInv PROVE ReportsInv
    OBVIOUS
  <2> USE DEF ReportsIInv
  <2>1. FinalReportUnlessRequested
    BY DEF FinalReportUnlessRequested, CompletedIsReady, ReadyAreWhole, ReadyRows
  <2>2. OneRenderPerRun
    <3> DEFINE S == {i \in ReadyRows : reports[i].by \in Attempts}
    <3>1. S = {} \/ \E i \in S : S = {i}
      BY DEF OneReady
    <3>2. Cardinality(S) = 0 \/ Cardinality(S) = 1
      BY <3>1, FS_EmptySet, FS_Singleton
    <3> QED
      BY <3>2 DEF OneRenderPerRun
  <2>3. UnfinishedIsExplained
    <3> SUFFICES ASSUME NEW i \in DOMAIN reports,
                        reports[i].status \in {"pending", "generating"}
                 PROVE  /\ making[reports[i].by].row = i
                        /\ making[reports[i].by].pc \notin {"done", "raised"}
      BY DEF UnfinishedIsExplained
    <3>1. reports[i].by \in Producers
      BY RowsAreReports DEF ReportRows
    <3> QED
      BY <3>1 DEF AllFit, Fits, ReadyRows
  <2> QED
    BY <2>1, <2>2, <2>3 DEF ReportsInv
<1> QED
  BY <1>1, ReportsInitially, ReportsStep, PTL DEF ReportsSpec

-----------------------------------------------------------------------------
(* The step log                                                            *)

\* The rows a driver writes: begun, failed or settled.
StepRows == [stage : StageIndex, status : {"running", "failed", "completed", "degraded"}]
DriverStates == [pc : {"off", "node", "begin", "body", "working", "end"}, at : Nat,
                 seq : 0..(MaxSteps + 1)]

StepsTypes ==
    /\ depth \in {"passive", "active"}
    /\ phase \in {"live", "completed", "failed", "cancelled"}
    /\ current \in 0..Len(StageOrder)
    /\ steps \in Seq(StepRows) /\ Len(steps) <= MaxSteps
    /\ driver \in [Drivers -> DriverStates]

\* A driver in state r is at a stage of the run; the number it read may be taken
\* when it inserts, but the row it goes on to work with is of its stage.
AtStage(r) ==
    /\ r.pc # "off" => r.at \in StageIndex /\ Applies(r.at)
    /\ r.pc = "begin" => r.seq \in 1..(Len(steps) + 1)
    /\ r.pc \in {"body", "working"} /\ r.seq # 0 =>
            r.seq \in DOMAIN steps /\ steps[r.seq].stage = r.at

DriversAtStages == \A d \in Drivers : AtStage(driver[d])

Finished(row) == row.status \in {"completed", "degraded"}
RowsApply == \A n \in DOMAIN steps : Applies(steps[n].stage)
RowsWorked == \A n \in DOMAIN steps : Finished(steps[n]) => StageOrder[steps[n].stage] \in worked

StepsIInv == StepsTypes /\ DriversAtStages /\ RowsApply /\ RowsWorked

\* The stages of the run are numbered from 1.
LEMMA StagesAreNumbered ==
    StageIndex = 1..Len(StageOrder) /\ Len(StageOrder) \in Nat \ {0}
  BY StepsAssumption DEF StageIndex

LEMMA RowsAreSteps == StepsTypes => /\ \A n \in DOMAIN steps : steps[n] \in StepRows
                                    /\ DOMAIN steps = 1..Len(steps) /\ Len(steps) \in Nat
<1> SUFFICES ASSUME StepsTypes
             PROVE  /\ \A n \in DOMAIN steps : steps[n] \in StepRows
                    /\ DOMAIN steps = 1..Len(steps) /\ Len(steps) \in Nat
  OBVIOUS
<1>1. steps \in Seq(StepRows)
  BY DEF StepsTypes
<1> QED
  BY <1>1, ElementOfSeq

LEMMA OffIsDriver == Off \in DriverStates /\ Off.pc = "off"
  BY StepsAssumption DEF Off, DriverStates

LEMMA StepsInitially == StepsInit => StepsIInv
<1> SUFFICES ASSUME StepsInit PROVE StepsIInv
  OBVIOUS
<1>1. steps \in Seq(StepRows) /\ DOMAIN steps = {} /\ Len(steps) = 0
  BY DEF StepsInit
<1>2. driver \in [Drivers -> DriverStates] /\ \A d \in Drivers : driver[d].pc = "off"
  BY OffIsDriver DEF StepsInit
<1>3. StepsTypes
  BY <1>1, <1>2, StepsAssumption, StagesAreNumbered DEF StepsInit, StepsTypes
<1>4. DriversAtStages
  BY <1>2 DEF DriversAtStages, AtStage
<1> QED
  BY <1>1, <1>3, <1>4 DEF StepsIInv, RowsApply, RowsWorked

\* A driver moves on while the rows stay as they are.
LEMMA DriverMoves ==
    ASSUME StepsIInv, NEW d \in Drivers, NEW r \in DriverStates,
           driver' = [driver EXCEPT ![d] = r], AtStage(r),
           UNCHANGED <<depth, scoped, steps>>, worked \subseteq worked',
           phase' \in {"live", "completed", "failed", "cancelled"},
           current' \in 0..Len(StageOrder)
    PROVE  StepsIInv'
<1> USE DEF StepsIInv
<1>1. /\ driver' \in [Drivers -> DriverStates] /\ driver'[d] = r
      /\ \A e \in Drivers \ {d} : driver'[e] = driver[e]
  BY DEF StepsTypes
<1>2. StepsTypes'
  BY <1>1 DEF StepsTypes
<1>3. DriversAtStages'
  <2> SUFFICES ASSUME NEW e \in Drivers PROVE AtStage(driver[e])'
    BY DEF DriversAtStages
  <2>1. AtStage(driver'[e])
    BY <1>1 DEF DriversAtStages
  <2> QED
    BY <2>1 DEF AtStage, Applies
<1>4. RowsApply' /\ RowsWorked'
  BY DEF RowsApply, RowsWorked, Applies
<1> QED
  BY <1>2, <1>3, <1>4

\* The row of a driver that works is marked as it ends; a failure to write changes nothing.
LEMMA RowIsMarked ==
    ASSUME StepsIInv, NEW d \in Drivers, NEW stored \in BOOLEAN, driver[d].pc \in {"body", "working"},
           NEW status \in {"failed", "completed", "degraded"}, Marks(d, stored, status)
    PROVE  /\ steps' \in Seq(StepRows) /\ Len(steps') = Len(steps) /\ DOMAIN steps' = DOMAIN steps
           /\ \A n \in DOMAIN steps : steps'[n].stage = steps[n].stage
           /\ \A n \in DOMAIN steps : \/ steps'[n] = steps[n]
                                      \/ /\ steps'[n].status = status
                                         /\ steps[n].stage = driver[d].at
<1> USE DEF StepsIInv
<1>1. /\ \A n \in DOMAIN steps : steps[n] \in StepRows
      /\ DOMAIN steps = 1..Len(steps) /\ Len(steps) \in Nat /\ steps \in Seq(StepRows)
  BY RowsAreSteps DEF StepsTypes
<1>2. CASE stored /\ Records(d)
  <2> DEFINE k == driver[d].seq
             row == [steps[k] EXCEPT !.status = status]
  <2>1. k \in DOMAIN steps /\ steps' = [steps EXCEPT ![k] = row]
    BY <1>1, <1>2 DEF Records, Marks
  <2>2. row \in StepRows /\ row.status = status /\ row.stage = steps[k].stage
    BY <1>1, <2>1 DEF StepRows
  <2>3. steps[k].stage = driver[d].at
    <3>1. AtStage(driver[d]) /\ k # 0
      BY <1>1, <2>1 DEF DriversAtStages
    <3> QED
      BY <3>1 DEF AtStage
  <2> HIDE DEF row, k
  <2>4. /\ steps' \in Seq(StepRows) /\ Len(steps') = Len(steps) /\ DOMAIN steps' = DOMAIN steps
        /\ steps'[k] = row /\ \A n \in DOMAIN steps \ {k} : steps'[n] = steps[n]
    BY <1>1, <2>1, <2>2
  <2> QED
    BY <2>1, <2>2, <2>3, <2>4
<1>3. CASE ~(stored /\ Records(d))
  BY <1>1, <1>3 DEF Marks
<1> QED
  BY <1>2, <1>3

\* A driver that ends its stage marks its row, and what it worked is known.
LEMMA DriverSettles ==
    ASSUME StepsIInv, NEW d \in Drivers, NEW stored \in BOOLEAN, driver[d].pc \in {"body", "working"},
           NEW status \in {"failed", "completed", "degraded"}, Marks(d, stored, status),
           NEW r \in DriverStates, driver' = [driver EXCEPT ![d] = r], r.pc \in {"off", "node", "end"},
           r.pc # "off" => r.at \in StageIndex /\ Applies(r.at),
           UNCHANGED <<depth, scoped, current>>, worked \subseteq worked',
           status # "failed" => StageOrder[driver[d].at] \in worked',
           phase' \in {"live", "completed", "failed", "cancelled"}
    PROVE  StepsIInv'
<1> USE DEF StepsIInv
<1>1. /\ driver' \in [Drivers -> DriverStates] /\ driver'[d] = r
      /\ \A e \in Drivers \ {d} : driver'[e] = driver[e]
  BY DEF StepsTypes
<1>2. /\ steps' \in Seq(StepRows) /\ Len(steps') = Len(steps) /\ DOMAIN steps' = DOMAIN steps
      /\ \A n \in DOMAIN steps : steps'[n].stage = steps[n].stage
      /\ \A n \in DOMAIN steps : steps'[n] = steps[n] \/ (/\ steps'[n].status = status
                                                          /\ steps[n].stage = driver[d].at)
  BY RowIsMarked
<1>3. StepsTypes'
  BY <1>1, <1>2 DEF StepsTypes
<1>4. DriversAtStages'
  <2> SUFFICES ASSUME NEW e \in Drivers PROVE AtStage(driver[e])'
    BY DEF DriversAtStages
  <2>1. CASE e = d
    BY <2>1, <1>1 DEF AtStage, Applies
  <2>2. CASE e # d
    <3>1. AtStage(driver[e]) /\ driver'[e] = driver[e]
      BY <2>2, <1>1 DEF DriversAtStages
    <3> QED
      BY <3>1, <1>2 DEF AtStage, Applies
  <2> QED
    BY <2>1, <2>2
<1>5. RowsApply'
  BY <1>2 DEF RowsApply, Applies
<1>6. RowsWorked'
  <2> SUFFICES ASSUME NEW n \in DOMAIN steps, Finished(steps'[n])
               PROVE  StageOrder[steps'[n].stage] \in worked'
    BY <1>2 DEF RowsWorked, Finished
  <2>1. CASE steps'[n] = steps[n]
    BY <2>1 DEF RowsWorked, Finished
  <2>2. CASE steps'[n].status = status /\ steps[n].stage = driver[d].at
    BY <2>2, <1>2 DEF Finished
  <2> QED
    BY <1>2, <2>1, <2>2
<1> QED
  BY <1>3, <1>4, <1>5, <1>6

\* A driver inserts its row, if the number it read is still free.
LEMMA DriverBegins ==
    ASSUME StepsIInv, NEW d \in Drivers, NEW stored \in BOOLEAN, BeginStep(d, stored)
    PROVE  StepsIInv'
<1> USE DEF StepsIInv
<1>1. /\ \A n \in DOMAIN steps : steps[n] \in StepRows
      /\ DOMAIN steps = 1..Len(steps) /\ Len(steps) \in Nat /\ steps \in Seq(StepRows)
  BY RowsAreSteps DEF StepsTypes
<1>2. driver[d] \in DriverStates /\ driver[d].pc = "begin" /\ AtStage(driver[d])
  BY DEF BeginStep, StepsTypes, DriversAtStages
<1>3. CASE ~(stored /\ ~Records(d))
  <2> DEFINE r == [driver[d] EXCEPT !.pc = "body", !.seq = 0]
  <2>1. driver' = [driver EXCEPT ![d] = r] /\ UNCHANGED <<depth, scoped, phase, current, steps, worked>>
    BY <1>3 DEF BeginStep
  <2>2. r \in DriverStates /\ r.pc = "body" /\ r.seq = 0 /\ r.at = driver[d].at
    <3>1. 0 \in 0..(MaxSteps + 1)
      BY StepsAssumption
    <3> QED
      BY <1>2, <3>1 DEF DriverStates
  <2> HIDE DEF r
  <2>3. AtStage(r)
    BY <1>2, <2>2 DEF AtStage
  <2> QED
    BY <2>1, <2>2, <2>3, DriverMoves DEF StepsTypes
<1>4. CASE stored /\ ~Records(d)
  <2> DEFINE r == [driver[d] EXCEPT !.pc = "body"]
             row == [stage |-> driver[d].at, status |-> "running"]
             l == Len(steps)
  <2>1. /\ driver' = [driver EXCEPT ![d] = r] /\ steps' = Append(steps, row)
        /\ l < MaxSteps /\ UNCHANGED <<depth, scoped, phase, current, worked>>
    BY <1>4 DEF BeginStep, Moves
  <2>2. r \in DriverStates /\ r.pc = "body" /\ r.seq = driver[d].seq /\ r.at = driver[d].at
    BY <1>2 DEF DriverStates
  <2>3. row \in StepRows /\ row.stage = driver[d].at /\ ~Finished(row) /\ Applies(row.stage)
    BY <1>2 DEF StepRows, Finished, AtStage
  <2>4. r.seq = l + 1 /\ l \in Nat
    BY <1>1, <1>2, <1>4, <2>2 DEF AtStage, Records
  <2> HIDE DEF r, row
  <2>5. /\ steps' \in Seq(StepRows) /\ Len(steps') = l + 1 /\ DOMAIN steps' = 1..(l + 1)
        /\ DOMAIN steps = 1..l
        /\ steps'[l + 1] = row /\ \A n \in DOMAIN steps : steps'[n] = steps[n]
    BY <1>1, <2>1, <2>3, AppendProperties
  <2>6. /\ driver' \in [Drivers -> DriverStates] /\ driver'[d] = r
        /\ \A e \in Drivers \ {d} : driver'[e] = driver[e]
    BY <2>1, <2>2 DEF StepsTypes
  <2>7. Len(steps') <= MaxSteps
    BY <2>1, <2>4, <2>5, StepsAssumption
  <2>8. StepsTypes'
    BY <2>1, <2>5, <2>6, <2>7 DEF StepsTypes
  <2>9. DriversAtStages'
    <3> SUFFICES ASSUME NEW e \in Drivers PROVE AtStage(driver[e])'
      BY DEF DriversAtStages
    <3>1. CASE e = d
      BY <3>1, <1>2, <2>1, <2>2, <2>3, <2>4, <2>5, <2>6 DEF AtStage, Applies
    <3>2. CASE e # d
      <4>1. AtStage(driver[e]) /\ driver'[e] = driver[e]
        BY <3>2, <2>6 DEF DriversAtStages
      <4>2. driver[e].seq \in 1..(l + 1) => driver[e].seq \in 1..(Len(steps') + 1)
        BY <2>4, <2>5
      <4>3. \A n \in DOMAIN steps : n \in DOMAIN steps'
        BY <2>4, <2>5
      <4> QED
        BY <4>1, <4>2, <4>3, <2>1, <2>5 DEF AtStage, Applies
    <3> QED
      BY <3>1, <3>2
  <2>10. RowsApply' /\ RowsWorked'
    <3> SUFFICES ASSUME NEW n \in DOMAIN steps'
                 PROVE  /\ Applies(steps'[n].stage)
                        /\ Finished(steps'[n]) => StageOrder[steps'[n].stage] \in worked
      BY <2>1 DEF RowsApply, RowsWorked, Applies, Finished
    <3>1. n \in DOMAIN steps \/ n = l + 1
      BY <2>4, <2>5
    <3> QED
      BY <3>1, <2>3, <2>5 DEF RowsApply, RowsWorked
  <2> QED
    BY <2>8, <2>9, <2>10
<1> QED
  BY <1>3, <1>4

\* The next node of a run is one that applies.
LEMMA NextNodeApplies ==
    ASSUME NEW i \in Nat, NodesLeft(i) # {}
    PROVE  LET next == CHOOSE j \in NodesLeft(i) : \A k \in NodesLeft(i) : j <= k
           IN  next \in StageIndex /\ Applies(next)
<1>1. NodesLeft(i) \subseteq 1..Len(StageOrder) /\ Len(StageOrder) \in Nat
  BY StagesAreNumbered DEF NodesLeft
<1>2. \E j \in NodesLeft(i) : \A k \in NodesLeft(i) : j <= k
  BY <1>1, FirstOfRows
<1> QED
  BY <1>2 DEF NodesLeft

LEMMA StepsStep == StepsIInv /\ [StepsNext]_stepVars => StepsIInv'
<1> SUFFICES ASSUME StepsIInv, [StepsNext]_stepVars PROVE StepsIInv'
  OBVIOUS
<1> USE DEF StepsIInv
<1>1. /\ \A d \in Drivers : driver[d] \in DriverStates /\ AtStage(driver[d])
      /\ phase \in {"live", "completed", "failed", "cancelled"} /\ current \in 0..Len(StageOrder)
      /\ Len(steps) \in Nat /\ Len(steps) <= MaxSteps
  BY RowsAreSteps DEF StepsTypes, DriversAtStages
<1>2. ASSUME NEW d \in Drivers, driver' = [driver EXCEPT ![d] = Off],
             UNCHANGED <<depth, scoped, current, steps, worked>>,
             phase' \in {"live", "completed", "failed", "cancelled"}
      PROVE  StepsIInv'
  <2>1. AtStage(Off)
    BY DEF AtStage, Off
  <2> QED
    BY <1>1, <1>2, <2>1, OffIsDriver, DriverMoves
<1>3. ASSUME NEW d \in Drivers, NEW i \in StageIndex, Drives(d, i) PROVE StepsIInv'
  <2> DEFINE r == [pc |-> "node", at |-> i, seq |-> 0]
  <2>1. r \in DriverStates /\ AtStage(r)
    BY <1>3, StepsAssumption, StagesAreNumbered DEF DriverStates, AtStage, Drives
  <2>2. driver' = [driver EXCEPT ![d] = r]
    BY <1>3 DEF Drives
  <2> HIDE DEF r
  <2> QED
    BY <1>1, <1>3, <2>1, <2>2, DriverMoves DEF Drives
<1>4. ASSUME NEW d \in Drivers, ReadSeq(d) PROVE StepsIInv'
  <2> DEFINE r == [driver[d] EXCEPT !.pc = "begin", !.seq = Len(steps) + 1]
  <2>1. driver' = [driver EXCEPT ![d] = r] /\ driver[d].pc = "node"
    BY <1>4 DEF ReadSeq
  <2>2. /\ r \in DriverStates /\ r.pc = "begin" /\ r.at = driver[d].at
        /\ r.seq = Len(steps) + 1
    <3>1. Len(steps) + 1 \in 0..(MaxSteps + 1)
      BY <1>1, StepsAssumption
    <3> QED
      BY <1>1, <3>1 DEF DriverStates
  <2> HIDE DEF r
  <2>3. AtStage(r)
    BY <1>1, <2>1, <2>2 DEF AtStage
  <2> QED
    BY <1>1, <1>4, <2>1, <2>2, <2>3, DriverMoves DEF ReadSeq
<1>5. ASSUME NEW d \in Drivers, NEW stored \in BOOLEAN, BeginStep(d, stored) PROVE StepsIInv'
  BY <1>5, DriverBegins
<1>6. ASSUME NEW d \in Drivers, EnterStage(d) PROVE StepsIInv'
  <2> DEFINE r == [driver[d] EXCEPT !.pc = "working"]
  <2>1. driver' = [driver EXCEPT ![d] = r] /\ driver[d].pc = "body"
    BY <1>6 DEF EnterStage, Moves
  <2>2. r \in DriverStates /\ r.pc = "working" /\ r.at = driver[d].at /\ r.seq = driver[d].seq
    BY <1>1 DEF DriverStates
  <2> HIDE DEF r
  <2>3. AtStage(r)
    BY <1>1, <2>1, <2>2 DEF AtStage
  <2>4. current' \in 0..Len(StageOrder)
    BY <1>1, <1>6, <2>1, StagesAreNumbered DEF EnterStage, AtStage
  <2> QED
    BY <1>1, <1>6, <2>1, <2>2, <2>3, <2>4, DriverMoves DEF EnterStage
<1>7. ASSUME NEW d \in Drivers, NEW status \in {"completed", "degraded"}, NEW stored \in BOOLEAN,
             SettleStep(d, status, stored)
      PROVE  StepsIInv'
  <2>1. /\ driver[d].pc = "working" /\ Marks(d, stored, status)
        /\ worked' = worked \cup {StageOrder[driver[d].at]}
        /\ UNCHANGED <<depth, scoped, phase, current>>
    BY <1>7 DEF SettleStep
  <2>2. CASE NodesLeft(driver[d].at) = {}
    <3> DEFINE r == [driver[d] EXCEPT !.pc = "end"]
    <3>1. driver' = [driver EXCEPT ![d] = r]
      BY <1>7, <2>2 DEF SettleStep, Moves
    <3>2. r \in DriverStates /\ r.pc = "end" /\ r.at = driver[d].at
      BY <1>1 DEF DriverStates
    <3> HIDE DEF r
    <3>3. r.at \in StageIndex /\ Applies(r.at)
      BY <1>1, <2>1, <3>2 DEF AtStage
    <3> QED
      BY <1>1, <2>1, <3>1, <3>2, <3>3, DriverSettles
  <2>3. CASE NodesLeft(driver[d].at) # {}
    <3> DEFINE next == CHOOSE j \in NodesLeft(driver[d].at) :
                                \A k \in NodesLeft(driver[d].at) : j <= k
               r == [pc |-> "node", seq |-> 0, at |-> next]
    <3>1. driver' = [driver EXCEPT ![d] = r]
      BY <1>7, <2>3 DEF SettleStep
    <3>2. next \in StageIndex /\ Applies(next)
      <4>1. driver[d].at \in Nat
        BY <1>1 DEF DriverStates
      <4> QED
        BY <4>1, <2>3, NextNodeApplies
    <3> HIDE DEF next
    <3>3. r \in DriverStates /\ r.pc = "node" /\ r.at = next
      BY <3>2, StepsAssumption, StagesAreNumbered DEF DriverStates
    <3> HIDE DEF r
    <3> QED
      BY <1>1, <2>1, <3>1, <3>2, <3>3, DriverSettles
  <2> QED
    BY <2>2, <2>3
<1>8. ASSUME NEW d \in Drivers, NEW stored \in BOOLEAN, FailNode(d, stored) PROVE StepsIInv'
  <2>1. phase' \in {"live", "completed", "failed", "cancelled"}
    BY <1>1, <1>8 DEF FailNode
  <2> QED
    BY <1>8, <2>1, OffIsDriver, DriverSettles DEF FailNode
<1>9. ASSUME NEW d \in Drivers, CompleteRun(d) \/ DriverDies(d) PROVE StepsIInv'
  <2>1. phase' \in {"live", "completed", "failed", "cancelled"}
    BY <1>1, <1>9 DEF CompleteRun, DriverDies
  <2> QED
    BY <1>2, <1>9, <2>1 DEF CompleteRun, DriverDies
<1>10. ASSUME NEW end \in {"failed", "cancelled"}, EndsFromOutside(end) PROVE StepsIInv'
  BY <1>10 DEF EndsFromOutside, StepsTypes, DriversAtStages, AtStage, Applies, RowsApply, RowsWorked
<1>11. CASE UNCHANGED stepVars
  BY <1>11 DEF stepVars, StepsTypes, DriversAtStages, AtStage, Applies, RowsApply, RowsWorked
<1> QED
  BY <1>3, <1>4, <1>5, <1>6, <1>7, <1>8, <1>9, <1>10, <1>11 DEF StepsNext

\* One row of a stage is the most advanced one.
LEMMA BestExists ==
    ASSUME StepsTypes, NEW i \in StageIndex, NEW m \in DOMAIN steps, steps[m].stage = i
    PROVE  Best(i) # {}
<1> DEFINE ofStage == {n \in DOMAIN steps : steps[n].stage = i}
           ranks == {Rank[steps[n].status] : n \in ofStage}
<1>1. /\ \A n \in DOMAIN steps : steps[n] \in StepRows
      /\ DOMAIN steps = 1..Len(steps) /\ Len(steps) \in Nat
  BY RowsAreSteps
<1>2. \A n \in ofStage : Rank[steps[n].status] \in 1..5
  BY <1>1 DEF Rank, StepRows
<1>3. PICK k \in ranks : \A l \in ranks : l <= k
  <2>1. ranks \in SUBSET (1..5) /\ ranks # {}
    BY <1>2
  <2> HIDE DEF ranks
  <2> QED
    BY <2>1, LastOfRows
<1> DEFINE tops == {n \in ofStage : Rank[steps[n].status] = k}
<1>4. PICK b \in tops : \A n \in tops : n <= b
  <2>1. tops \in SUBSET (1..Len(steps)) /\ tops # {}
    BY <1>1, <1>3
  <2> HIDE DEF tops
  <2> QED
    BY <1>1, <2>1, LastOfRows
<1>5. \A n \in ofStage : \/ Rank[steps[n].status] < Rank[steps[b].status]
                         \/ Rank[steps[n].status] = Rank[steps[b].status] /\ n <= b
  BY <1>2, <1>3, <1>4
<1> QED
  BY <1>4, <1>5 DEF Best

\* While the assessment lives a stage is settled once a row of it is finished, or
\* when the depth rules it out.
DoneStage(i) == \E n \in DOMAIN steps : steps[n].stage = i /\ Finished(steps[n])

LEMMA SettledOfLiving ==
    ASSUME StepsIInv, phase = "live", NEW i \in StageIndex
    PROVE  /\ StageShown(i) \in {"completed", "degraded"} <=> DoneStage(i)
           /\ StageShown(i) = "skipped" <=> Inapplicable(i)
           /\ i \in SettledStages <=> DoneStage(i) \/ Inapplicable(i)
<1> USE DEF StepsIInv
<1>1. \A n \in DOMAIN steps : steps[n] \in StepRows
  BY RowsAreSteps
<1>2. ASSUME NEW n \in DOMAIN steps, steps[n].stage = i PROVE ~Inapplicable(i)
  BY <1>2, StepsAssumption DEF RowsApply, Applies, Inapplicable
<1>3. CASE Best(i) = {}
  <2>1. \A n \in DOMAIN steps : steps[n].stage # i
    BY <1>3, BestExists
  <2>2. ~DoneStage(i)
    BY <2>1 DEF DoneStage
  <2> QED
    BY <1>3, <2>2 DEF StageShown, SettledStages
<1>4. CASE Best(i) # {}
  <2> DEFINE b == CHOOSE n \in Best(i) : TRUE
  <2>1. b \in Best(i)
    BY <1>4
  <2>2. StageShown(i) = steps[b].status
    BY <1>4 DEF StageShown
  <2> HIDE DEF b
  <2>3. b \in DOMAIN steps /\ steps[b].stage = i
    BY <2>1 DEF Best
  <2>4. ~Inapplicable(i)
    BY <1>2, <2>3
  <2>5. ASSUME NEW n \in DOMAIN steps, steps[n].stage = i, Finished(steps[n]) PROVE Finished(steps[b])
    <3>1. Rank[steps[n].status] <= Rank[steps[b].status]
      <4>1. Rank[steps[n].status] \in 0..5 /\ Rank[steps[b].status] \in 0..5
        BY <1>1, <2>3 DEF Rank, StepRows
      <4> QED
        BY <4>1, <2>1, <2>5 DEF Best
    <3> QED
      BY <3>1, <2>3, <2>5, <1>1 DEF Finished, Rank, StepRows
  <2>6. DoneStage(i) <=> Finished(steps[b])
    BY <2>3, <2>5 DEF DoneStage
  <2> QED
    BY <1>1, <2>2, <2>3, <2>4, <2>6 DEF Finished, StepRows, SettledStages
<1> QED
  BY <1>3, <1>4

\* The part of the stages that is settled, in percent.
LEMMA PercentOfStages ==
    ASSUME NEW l \in Nat \ {0}, NEW a \in 0..l, NEW b \in 0..l, a <= b
    PROVE  /\ (a * 100) \div l \in 0..100
           /\ (a * 100) \div l <= (b * 100) \div l
  OBVIOUS

LEMMA SettledAreCounted ==
    ASSUME NEW A, NEW B, A \subseteq B, B \subseteq StageIndex
    PROVE  /\ Cardinality(A) \in 0..Len(StageOrder) /\ Cardinality(B) \in 0..Len(StageOrder)
           /\ Cardinality(A) <= Cardinality(B)
<1>1. IsFiniteSet(StageIndex) /\ Cardinality(StageIndex) = Len(StageOrder)
  BY StagesAreNumbered, FS_Interval, SMTT(40)
<1>2. IsFiniteSet(B) /\ Cardinality(B) <= Len(StageOrder)
  BY <1>1, FS_Subset
<1>3. IsFiniteSet(A) /\ Cardinality(A) <= Cardinality(B)
  BY <1>2, FS_Subset
<1>4. Cardinality(A) \in Nat /\ Cardinality(B) \in Nat
  BY <1>2, <1>3, FS_CardinalityType
<1> QED
  BY <1>2, <1>3, <1>4, StagesAreNumbered

LEMMA PercentIsPercent == ChecklistPercent \in 0..100
<1>1. SettledStages \subseteq StageIndex
  BY DEF SettledStages
<1> DEFINE a == Cardinality(SettledStages)
<1>2. a \in 0..Len(StageOrder)
  BY <1>1, SettledAreCounted
<1>3. ChecklistPercent = (a * 100) \div Len(StageOrder)
  BY DEF ChecklistPercent
<1> HIDE DEF a
<1>4. a <= a
  BY <1>2, StagesAreNumbered
<1> QED
  BY <1>2, <1>3, <1>4, StagesAreNumbered, PercentOfStages

(* The checklist of a living run claims a stage finished only if a driver finished *)
(* it, however many drivers there are, whichever of them die, and whichever rows   *)
(* are not written because another one took the number or the write failed.        *)
THEOREM StepsInvHolds == StepsSpec => []StepsInv
<1>1. StepsIInv => StepsInv
  <2> SUFFICES ASSUME StepsIInv PROVE StepsInv
    OBVIOUS
  <2> USE DEF StepsIInv
  <2>1. \A n \in DOMAIN steps : steps[n] \in StepRows
    BY RowsAreSteps
  <2>2. \A n \in DOMAIN steps : steps[n].stage \in StageIndex /\ steps[n].status \in DOMAIN Rank
    BY <2>1 DEF StepRows, Rank
  <2>3. \A d \in Drivers : /\ driver[d].pc \in {"off", "node", "begin", "body", "working", "end"}
                           /\ driver[d].seq \in 0..(MaxSteps + 1)
    BY DEF StepsTypes, DriverStates
  <2>4. StepsTypeOK
    BY <2>2, <2>3, PercentIsPercent DEF StepsTypes, StepsTypeOK
  <2>5. FinishedWasWorked
    BY SettledOfLiving DEF FinishedWasWorked, DoneStage, RowsWorked
  <2> QED
    BY <2>4, <2>5 DEF StepsInv
<1> QED
  BY <1>1, StepsInitially, StepsStep, PTL DEF StepsSpec

LEMMA SettledNow ==
    StepsIInv /\ phase = "live" =>
        \A i \in StageIndex : DoneStage(i) \/ Inapplicable(i) => i \in SettledStages
  BY SettledOfLiving

LEMMA SettledThen ==
    (StepsIInv /\ phase = "live" =>
        \A i \in StageIndex : DoneStage(i) \/ Inapplicable(i) => i \in SettledStages)'
  BY SettledNow, PTL

\* A step that leaves the assessment alive leaves what is settled settled.
LEMMA SettledStaysSettled ==
    ASSUME StepsIInv, StepsIInv', [StepsNext]_stepVars, phase = "live", phase' = "live",
           NEW i \in SettledStages
    PROVE  i \in SettledStages'
<1> USE DEF StepsIInv
<1>1. i \in StageIndex /\ (DoneStage(i) \/ Inapplicable(i))
  <2>1. i \in StageIndex
    BY DEF SettledStages
  <2> QED
    BY <2>1, SettledOfLiving
<1>2. depth' = depth
  BY DEF StepsNext, stepVars, Drives, ReadSeq, BeginStep, EnterStage, SettleStep, FailNode, CompleteRun,
     DriverDies, EndsFromOutside
<1>3. Inapplicable(i)' = Inapplicable(i)
  BY <1>2 DEF Inapplicable
<1>4. ASSUME DoneStage(i) PROVE DoneStage(i)'
  <2>1. PICK n \in DOMAIN steps : steps[n].stage = i /\ Finished(steps[n])
    BY <1>4 DEF DoneStage
  <2>2. CASE UNCHANGED steps
    BY <2>1, <2>2 DEF DoneStage, Finished
  <2>3. ASSUME NEW d \in Drivers, NEW stored \in BOOLEAN, BeginStep(d, stored) PROVE DoneStage(i)'
    <3>1. CASE UNCHANGED steps
      BY <3>1, <2>2
    <3>2. CASE steps' = Append(steps, [stage |-> driver[d].at, status |-> "running"])
      <4>1. steps' \in Seq(StepRows) /\ steps \in Seq(StepRows)
        BY DEF StepsTypes
      <4>2. n \in DOMAIN steps' /\ steps'[n] = steps[n]
        <5>1. [stage |-> driver[d].at, status |-> "running"] \in StepRows
          BY <2>3 DEF BeginStep, StepRows, DriversAtStages, AtStage
        <5> QED
          BY <4>1, <5>1, <3>2, AppendProperties
      <4> QED
        BY <4>2, <2>1 DEF DoneStage, Finished
    <3> QED
      BY <2>3, <3>1, <3>2 DEF BeginStep
  <2>4. ASSUME NEW d \in Drivers, NEW status \in {"completed", "degraded"}, NEW stored \in BOOLEAN,
               SettleStep(d, status, stored)
        PROVE  DoneStage(i)'
    <3>1. driver[d].pc \in {"body", "working"} /\ Marks(d, stored, status)
      BY <2>4 DEF SettleStep
    <3>2. /\ DOMAIN steps' = DOMAIN steps /\ steps'[n].stage = steps[n].stage
          /\ steps'[n] = steps[n] \/ steps'[n].status = status
      BY <3>1, RowIsMarked
    <3> QED
      BY <2>1, <3>2 DEF DoneStage, Finished
  <2>5. ASSUME NEW d \in Drivers, NEW stored \in BOOLEAN, FailNode(d, stored) PROVE DoneStage(i)'
    BY <2>5 DEF FailNode
  <2> QED
    BY <2>2, <2>3, <2>4, <2>5 DEF StepsNext, stepVars, Drives, ReadSeq, EnterStage, CompleteRun,
       DriverDies, EndsFromOutside
<1>5. DoneStage(i)' \/ Inapplicable(i)' => (i \in SettledStages)'
  BY <1>1, SettledThen DEF StageIndex
<1> QED
  BY <1>1, <1>3, <1>4, <1>5

(* While the assessment lives the percentage never falls: what is once shown as     *)
(* settled stays so though stages are retried, drivers die and two of them write.   *)
THEOREM ProgressAdvancesHolds == StepsSpec => ProgressAdvances
<1>1. StepsIInv /\ StepsIInv' /\ [StepsNext]_stepVars =>
        [phase = "live" /\ phase' = "live" => ChecklistPercent' >= ChecklistPercent]_stepVars
  <2> SUFFICES ASSUME StepsIInv, StepsIInv', [StepsNext]_stepVars, phase = "live", phase' = "live"
               PROVE  ChecklistPercent' >= ChecklistPercent
    OBVIOUS
  <2>1. SettledStages \subseteq SettledStages'
    BY SettledStaysSettled
  <2>2. SettledStages' \subseteq StageIndex
    BY DEF SettledStages
  <2> DEFINE a == Cardinality(SettledStages)
             b == Cardinality(SettledStages')
  <2>3. a \in 0..Len(StageOrder) /\ b \in 0..Len(StageOrder) /\ a <= b
    BY <2>1, <2>2, SettledAreCounted
  <2>4. ChecklistPercent = (a * 100) \div Len(StageOrder)
        /\ ChecklistPercent' = (b * 100) \div Len(StageOrder)
    BY DEF ChecklistPercent
  <2> HIDE DEF a, b
  <2>5. /\ (a * 100) \div Len(StageOrder) <= (b * 100) \div Len(StageOrder)
        /\ (a * 100) \div Len(StageOrder) \in Nat /\ (b * 100) \div Len(StageOrder) \in Nat
    BY <2>3, StagesAreNumbered, PercentOfStages
  <2> QED
    BY <2>4, <2>5
<1> QED
  BY <1>1, StepsInitially, StepsStep, PTL DEF StepsSpec, ProgressAdvances

-----------------------------------------------------------------------------
(* The inventory                                                           *)

RunPoints == {"recon", "merging", "failed", "scope", "ranking", "chosen", "proposed"}
RunStates == [pc : RunPoints, found : SUBSET Hosts, read : [Hosts -> AssetRows \cup {NOROW}],
              tagged : [Hosts -> Levels \cup {"none"}], chosen : SUBSET Hosts,
              proposed : SUBSET Hosts]

InventoryTypes ==
    /\ assets \in [Hosts -> AssetRows \cup {NOROW}]
    /\ tags \in [Hosts -> Levels \cup {"none"}]
    /\ scoping \in [Assessments -> RunStates]
    /\ rated \in [Hosts -> Levels \cup {"none"}]

\* An assessment is listed once on a row.
ListedOnce(row) == row # NOROW => IsInjective(row.seenIn)
RowsListOnce ==
    /\ \A h \in Hosts : ListedOnce(assets[h])
    /\ \A a \in Assessments, h \in Hosts : ListedOnce(scoping[a].read[h])

\* A mark that somebody made is still there, or it was overwritten.
Marked(a, h) == h \in SeenIn(a, assets) \/ <<a, h>> \in dropped
Excluded(h) == <<"excluded", h>> \in raced
Disturbed(a) == a \in reselected \/ \E h \in Hosts : <<a, h>> \in dropped \/ Excluded(h)
RatingKept(h) == rated[h] # "none" /\ <<"rated", h>> \notin raced
IsRated(row, h) == row # NOROW /\ row.source = "operator_tag" /\ row.level = rated[h]

\* What a ranking that nothing disturbed read is what the rows are.
ReadIsCurrent(a, read, h) ==
    IF read[h] = NOROW THEN h \in SeenIn(a, assets) => ~assets[h].selected
    ELSE /\ h \in SeenIn(a, assets) /\ assets[h].active
         /\ read[h].selected = assets[h].selected

\* What a run in state r knows of the rows.
RunFits(a, r) ==
    /\ r.pc = "merging" => \A h \in Hosts : r.read[h] # NOROW =>
            /\ assets[h] # NOROW
            /\ \A b \in Assessments : b \in ToSet(r.read[h].seenIn) => Marked(b, h)
    /\ r.pc = "scope" => \A h \in r.found : Marked(a, h)
    /\ r.pc = "ranking" => \A h \in Hosts :
            /\ Disturbed(a) \/ ReadIsCurrent(a, r.read, h)
            /\ r.read[h] # NOROW =>
                  /\ assets[h] # NOROW
                  /\ ~assets[h].active => Excluded(h)
                  /\ RatingKept(h) => IsRated(r.read[h], h)
    /\ r.pc = "chosen" => Disturbed(a) \/ SelectedAssets(a) = r.chosen
    /\ r.pc = "proposed" => Disturbed(a) \/ r.proposed = r.chosen

RunsFit == \A a \in Assessments : RunFits(a, scoping[a])
ExcludedUnselected == \A h \in Hosts :
    assets[h] # NOROW /\ ~assets[h].active /\ assets[h].selected => Excluded(h)
RatingsKept == \A h \in Hosts :
    /\ rated[h] # "none" => assets[h] # NOROW
    /\ RatingKept(h) => IsRated(assets[h], h)

InventoryIInv ==
    /\ InventoryTypes /\ RowsListOnce /\ RunsFit /\ ExcludedUnselected /\ RatingsKept

\* A listed assessment is taken out, and put at the end.
LEMMA OneIsRemoved ==
    ASSUME NEW s \in Seq(Assessments), NEW a \in Assessments, IsInjective(s)
    PROVE  /\ RemoveFirst(s, a) \in Seq(Assessments)
           /\ ToSet(RemoveFirst(s, a)) = ToSet(s) \ {a}
           /\ IsInjective(RemoveFirst(s, a))
<1> DEFINE n == Len(s)
<1>1. n \in Nat /\ DOMAIN s = 1..n /\ \A i \in 1..n : s[i] \in Assessments
  BY ElementOfSeq
<1>2. \A i, j \in 1..n : s[i] = s[j] => i = j
  BY <1>1 DEF IsInjective
<1>3. ToSet(s) = {s[i] : i \in 1..n}
  BY <1>1 DEF ToSet
<1>4. CASE ~\E i \in 1..n : s[i] = a
  <2>1. RemoveFirst(s, a) = s
    BY <1>4 DEF RemoveFirst
  <2> QED
    BY <1>3, <1>4, <2>1
<1>5. CASE \E i \in 1..n : s[i] = a
  <2>1. PICK k \in 1..n : s[k] = a
    BY <1>5
  <2>2. SelectInSeq(s, LAMBDA v : v = a) = k
    <3> DEFINE I == {i \in 1..n : s[i] = a}
    <3>1. I = {k}
      BY <1>2, <2>1
    <3>2. (CHOOSE x \in I : \A y \in I : x <= y) = k
      BY <3>1, <2>1
    <3> QED
      BY <3>1, <3>2 DEF SelectInSeq, Min
  <2> DEFINE u == SubSeq(s, 1, k - 1)
             v == SubSeq(s, k + 1, n)
             t == u \o v
  <2>3. RemoveFirst(s, a) = t
    BY <1>5, <2>2 DEF RemoveFirst, RemoveAt
  <2>4. /\ u \in Seq(Assessments) /\ Len(u) = k - 1
        /\ \A i \in 1..(k - 1) : u[i] = s[i]
    <3>1. k \in Int /\ 1 \in Int /\ k - 1 \in Int /\ \A i \in 1..(k - 1) : s[i] \in Assessments
      BY <1>1, <2>1
    <3>2. /\ u \in Seq(Assessments) /\ Len(u) = IF 1 <= k - 1 THEN (k - 1) - 1 + 1 ELSE 0
          /\ \A i \in 1..((k - 1) - 1 + 1) : u[i] = s[1 + i - 1]
      BY <3>1, SubSeqProperties
    <3> HIDE DEF u
    <3>3. Len(u) = k - 1 /\ (k - 1) - 1 + 1 = k - 1
      BY <3>1, <3>2, <2>1
    <3>4. \A i \in 1..(k - 1) : 1 + i - 1 = i
      BY <3>1
    <3> QED
      BY <3>2, <3>3, <3>4
  <2>5. /\ v \in Seq(Assessments) /\ Len(v) = n - k
        /\ \A i \in 1..(n - k) : v[i] = s[k + i]
    <3>1. n \in Int /\ k + 1 \in Int /\ \A i \in (k + 1)..n : s[i] \in Assessments
      BY <1>1, <2>1
    <3>2. /\ v \in Seq(Assessments) /\ Len(v) = IF k + 1 <= n THEN n - (k + 1) + 1 ELSE 0
          /\ \A i \in 1..(n - (k + 1) + 1) : v[i] = s[(k + 1) + i - 1]
      <4> HIDE DEF n
      <4> QED
        BY <3>1, SubSeqProperties, SMTT(40)
    <3> HIDE DEF v
    <3>3. Len(v) = n - k /\ n - (k + 1) + 1 = n - k
      <4>1. n \in Nat /\ k \in 1..n /\ Len(v) = IF k + 1 <= n THEN n - (k + 1) + 1 ELSE 0
        BY <1>1, <2>1, <3>2
      <4> HIDE DEF n
      <4> QED
        BY <4>1, SMTT(40)
    <3>4. \A i \in 1..(n - k) : (k + 1) + i - 1 = k + i
      BY <1>1, <3>1, <2>1
    <3> QED
      BY <3>2, <3>3, <3>4, ZenonT(60)
  <2> HIDE DEF u, v
  <2>6. /\ t \in Seq(Assessments) /\ Len(t) = n - 1 /\ DOMAIN t = 1..(n - 1)
        /\ \A i \in 1..(n - 1) : t[i] = IF i < k THEN s[i] ELSE s[i + 1]
    <3>1. /\ t \in Seq(Assessments) /\ Len(t) = Len(u) + Len(v)
          /\ \A i \in 1..(Len(u) + Len(v)) : t[i] = IF i <= Len(u) THEN u[i] ELSE v[i - Len(u)]
      BY <2>4, <2>5, ConcatProperties
    <3> HIDE DEF t
    <3>2. Len(t) = n - 1 /\ DOMAIN t = 1..(n - 1)
      BY <1>1, <2>1, <2>4, <2>5, <3>1
    <3>3. ASSUME NEW i \in 1..(n - 1) PROVE t[i] = IF i < k THEN s[i] ELSE s[i + 1]
      <4>1. CASE i < k
        BY <4>1, <1>1, <2>1, <2>4, <2>5, <3>1, SMTT(40)
      <4>2. CASE ~(i < k)
        <5>1. i - (k - 1) \in 1..(n - k) /\ k + (i - (k - 1)) = i + 1
          BY <4>2, <1>1, <2>1
        <5>2. i \in 1..(Len(u) + Len(v)) /\ ~(i <= Len(u)) /\ i - Len(u) = i - (k - 1)
          BY <4>2, <1>1, <2>1, <2>4, <2>5
        <5>3. t[i] = v[i - (k - 1)]
          BY <5>2, <3>1
        <5> QED
          BY <4>2, <5>1, <5>3, <2>5, SMTT(40)
      <4> QED
        BY <4>1, <4>2
    <3> QED
      BY <3>1, <3>2, <3>3
  <2> HIDE DEF t
  <2>7. IsInjective(t)
    <3> SUFFICES ASSUME NEW i \in 1..(n - 1), NEW j \in 1..(n - 1), t[i] = t[j] PROVE i = j
      BY <2>6 DEF IsInjective
    <3> QED
      BY <1>1, <1>2, <2>1, <2>6, SMTT(40)
  <2>8. ToSet(t) = {t[i] : i \in 1..(n - 1)}
    BY <2>6 DEF ToSet
  <2>9. ASSUME NEW x PROVE x \in ToSet(t) <=> x \in ToSet(s) /\ x # a
    <3>1. ASSUME x \in ToSet(t) PROVE x \in ToSet(s) /\ x # a
      <4>1. PICK i \in 1..(n - 1) : x = t[i]
        BY <3>1, <2>8
      <4> QED
        BY <4>1, <1>1, <1>2, <1>3, <2>1, <2>6
    <3>2. ASSUME x \in ToSet(s), x # a PROVE x \in ToSet(t)
      <4>1. PICK i \in 1..n : x = s[i] /\ i # k
        BY <3>2, <1>3, <2>1
      <4>2. CASE i < k
        BY <4>1, <4>2, <1>1, <2>1, <2>6, <2>8
      <4>3. CASE k < i
        <5>1. i - 1 \in 1..(n - 1) /\ ~(i - 1 < k) /\ (i - 1) + 1 = i
          BY <4>3, <1>1, <2>1
        <5>2. t[i - 1] = x
          BY <5>1, <4>1, <2>6
        <5> QED
          BY <5>1, <5>2, <2>8
      <4> QED
        BY <4>1, <4>2, <4>3, <1>1, <2>1
    <3> QED
      BY <3>1, <3>2
  <2> QED
    BY <2>3, <2>6, <2>7, <2>9
<1> QED
  BY <1>4, <1>5

LEMMA ListedLast ==
    ASSUME NEW s \in Seq(Assessments), NEW a \in Assessments, IsInjective(s)
    PROVE  /\ Append(RemoveFirst(s, a), a) \in Seq(Assessments)
           /\ ToSet(Append(RemoveFirst(s, a), a)) = ToSet(s) \cup {a}
           /\ IsInjective(Append(RemoveFirst(s, a), a))
<1> DEFINE t == RemoveFirst(s, a)
           u == Append(t, a)
           n == Len(t)
<1>1. t \in Seq(Assessments) /\ ToSet(t) = ToSet(s) \ {a} /\ IsInjective(t)
  BY OneIsRemoved
<1> HIDE DEF t
<1>2. n \in Nat /\ DOMAIN t = 1..n
  BY <1>1
<1>3. u \in Seq(Assessments) /\ Len(u) = n + 1 /\ DOMAIN u = 1..(n + 1) /\ u[n + 1] = a
      /\ \A i \in 1..n : u[i] = t[i]
  BY <1>1, <1>2, AppendProperties
<1>4. ToSet(t) = {t[i] : i \in 1..n} /\ ToSet(u) = {u[i] : i \in 1..(n + 1)}
  BY <1>2, <1>3 DEF ToSet
<1> HIDE DEF u, n
<1>5. \A i \in 1..(n + 1) : i \in 1..n \/ i = n + 1
  BY <1>2
<1>6. \A i \in 1..n : i \in 1..(n + 1)
  BY <1>2
<1>7. ToSet(u) = ToSet(t) \cup {a}
  BY <1>2, <1>3, <1>4, <1>5, <1>6
<1>8. \A i \in 1..n : u[i] # a
  BY <1>1, <1>3, <1>4
<1>9. \A i, j \in 1..n : t[i] = t[j] => i = j
  BY <1>1, <1>2 DEF IsInjective
<1>10. IsInjective(u)
  BY <1>3, <1>5, <1>8, <1>9 DEF IsInjective
<1>11. ToSet(u) = ToSet(s) \cup {a}
  BY <1>1, <1>7
<1> QED
  BY <1>3, <1>10, <1>11 DEF u, t

LEMMA NobodyListed == /\ << >> \in Seq(Assessments) /\ IsInjective(<< >>) /\ ToSet(<< >>) = {}
  BY DEF IsInjective, ToSet

LEMMA WaitingIsRun == Waiting \in RunStates /\ Waiting.pc = "recon"
                      /\ Waiting.read = [h \in Hosts |-> NOROW]
  BY DEF Waiting, RunStates, RunPoints

LEMMA InventoryInitially == InventoryInit => InventoryIInv
<1> SUFFICES ASSUME InventoryInit PROVE InventoryIInv
  OBVIOUS
<1>1. /\ assets = [h \in Hosts |-> NOROW] /\ tags = [h \in Hosts |-> "none"]
      /\ rated = [h \in Hosts |-> "none"]
      /\ \A a \in Assessments : scoping[a] = Waiting
      /\ scoping = [a \in Assessments |-> Waiting]
  BY DEF InventoryInit
<1>2. InventoryTypes
  BY <1>1, WaitingIsRun DEF InventoryTypes
<1>3. RowsListOnce
  BY <1>1, WaitingIsRun DEF RowsListOnce, ListedOnce
<1>4. RunsFit
  BY <1>1, WaitingIsRun DEF RunsFit, RunFits
<1>5. ExcludedUnselected /\ RatingsKept
  BY <1>1 DEF ExcludedUnselected, RatingsKept, RatingKept
<1> QED
  BY <1>2, <1>3, <1>4, <1>5 DEF InventoryIInv

\* Who has seen a host.
LEMMA SeenBy ==
    ASSUME NEW inventory, NEW a, NEW h
    PROVE  h \in SeenIn(a, inventory) <=> h \in Hosts /\ inventory[h] # NOROW /\ a \in ToSet(inventory[h].seenIn)
  BY DEF SeenIn, Known

\* A run moves on while the rows stay as they are.
LEMMA RunMoves ==
    ASSUME InventoryIInv, NEW a \in Assessments, NEW r \in RunStates,
           scoping' = [scoping EXCEPT ![a] = r], RunFits(a, r),
           \A h \in Hosts : ListedOnce(r.read[h]),
           UNCHANGED <<assets, tags, rated, dropped, raced>>,
           reselected' = reselected \/ (reselected' = reselected \ {a} /\ r.pc = "recon")
    PROVE  InventoryIInv'
<1> USE DEF InventoryIInv
<1>1. /\ scoping' \in [Assessments -> RunStates] /\ scoping'[a] = r
      /\ \A b \in Assessments \ {a} : scoping'[b] = scoping[b]
  BY DEF InventoryTypes
<1>2. InventoryTypes'
  BY <1>1 DEF InventoryTypes
<1>3. RowsListOnce'
  BY <1>1 DEF RowsListOnce, ListedOnce
<1>4. RunsFit'
  <2> SUFFICES ASSUME NEW b \in Assessments PROVE RunFits(b, scoping[b])'
    BY DEF RunsFit
  <2>1. CASE b # a
    <3>1. scoping'[b] = scoping[b] /\ RunFits(b, scoping[b]) /\ (b \in reselected' <=> b \in reselected)
      BY <2>1, <1>1 DEF RunsFit
    <3> QED
      BY <3>1 DEF RunFits, Marked, Disturbed, Excluded, ReadIsCurrent, RatingKept, IsRated,
         SelectedAssets
  <2>2. CASE b = a /\ r.pc = "recon"
    BY <2>2, <1>1 DEF RunFits
  <2>3. CASE b = a /\ reselected' = reselected
    BY <2>3, <1>1 DEF RunFits, Marked, Disturbed, Excluded, ReadIsCurrent, RatingKept, IsRated,
       SelectedAssets
  <2> QED
    BY <2>1, <2>2, <2>3
<1>5. ExcludedUnselected' /\ RatingsKept'
  BY DEF ExcludedUnselected, RatingsKept, Excluded, RatingKept, IsRated
<1> QED
  BY <1>2, <1>3, <1>4, <1>5

\* What a merge makes of one row: those it lists were marked before, but for the run itself.
LEMMA RecordApplied ==
    ASSUME InventoryIInv, NEW a \in Assessments, NEW h \in Hosts, scoping[a].pc = "merging",
           ~(scoping[a].read[h] = NOROW /\ assets[h] # NOROW), NEW q, q = ApplyRecord(a, h)
    PROVE  /\ q \in AssetRows /\ IsInjective(q.seenIn)
           /\ assets[h] = NOROW => q.active /\ ~q.selected /\ ToSet(q.seenIn) = {a}
           /\ assets[h] # NOROW =>
                /\ q.selected = assets[h].selected /\ q.level = assets[h].level
                /\ q.source = assets[h].source
                /\ assets[h].active => q.active
                /\ \A b \in ToSet(q.seenIn) : b = a \/ Marked(b, h)
           /\ a \in ToSet(q.seenIn) \/ <<a, h>> \in dropped
<1> USE DEF InventoryIInv
<1> DEFINE before == scoping[a].read[h]
<1>1. before \in AssetRows \cup {NOROW} /\ assets[h] \in AssetRows \cup {NOROW}
  BY DEF InventoryTypes, RunStates
<1>2. ListedOnce(before) /\ ListedOnce(assets[h]) /\ RunFits(a, scoping[a])
  BY DEF RowsListOnce, RunsFit
<1>3. CASE before = NOROW
  <2> DEFINE longer == Append(RemoveFirst(<< >>, a), a)
  <2>1. longer \in Seq(Assessments) /\ ToSet(longer) = {a} /\ IsInjective(longer)
    BY NobodyListed, ListedLast
  <2>2. q = [active |-> TRUE, level |-> "unknown", source |-> "default",
             selected |-> FALSE, seenIn |-> longer]
    BY <1>3 DEF ApplyRecord
  <2> HIDE DEF longer
  <2>3. q \in AssetRows /\ q.seenIn = longer /\ q.active /\ ~q.selected
    BY <2>1, <2>2 DEF AssetRows, Levels, Sources
  <2> QED
    BY <1>3, <2>1, <2>3
<1>4. CASE before # NOROW
  <2> DEFINE history == before.seenIn
             longer == Append(RemoveFirst(history, a), a)
  <2>1. history \in Seq(Assessments) /\ IsInjective(history)
    BY <1>1, <1>2, <1>4 DEF AssetRows, ListedOnce
  <2>2. longer \in Seq(Assessments) /\ ToSet(longer) = ToSet(history) \cup {a} /\ IsInjective(longer)
    BY <2>1, ListedLast
  <2>3. assets[h] # NOROW /\ \A b \in Assessments : b \in ToSet(history) => Marked(b, h)
    BY <1>2, <1>4 DEF RunFits
  <2>4. q = [assets[h] EXCEPT !.active = IF before.active THEN @ ELSE TRUE,
                              !.seenIn = IF longer = history THEN @ ELSE longer]
    BY <1>4 DEF ApplyRecord
  <2> HIDE DEF history, longer
  <2>5. assets[h] \in AssetRows /\ assets[h].seenIn \in Seq(Assessments) /\ IsInjective(assets[h].seenIn)
    BY <1>1, <1>2, <2>3 DEF AssetRows, ListedOnce
  <2>6. /\ q \in AssetRows /\ q.seenIn = IF longer = history THEN assets[h].seenIn ELSE longer
        /\ q.selected = assets[h].selected /\ q.level = assets[h].level
        /\ q.source = assets[h].source /\ (assets[h].active => q.active)
    BY <2>2, <2>4, <2>5 DEF AssetRows
  <2>7. \A b \in ToSet(assets[h].seenIn) : Marked(b, h)
    BY <2>3, SeenBy DEF Marked
  <2>8. ToSet(history) \subseteq Assessments
    BY <2>1, ElementOfSeq DEF ToSet
  <2>9. a \in ToSet(q.seenIn) \/ <<a, h>> \in dropped
    BY <2>2, <2>3, <2>6, SeenBy DEF Marked
  <2> QED
    BY <2>2, <2>3, <2>5, <2>6, <2>7, <2>8, <2>9
<1> QED
  BY <1>3, <1>4

LEMMA MergeKeeps == ASSUME InventoryIInv, NEW a \in Assessments, UpsertAssets(a) PROVE InventoryIInv'
<1> USE DEF InventoryIInv
<1> DEFINE found == scoping[a].found
<1>1. scoping[a] \in RunStates /\ scoping[a].pc = "merging" /\ RunFits(a, scoping[a])
      /\ found \subseteq Hosts
  BY DEF UpsertAssets, InventoryTypes, RunsFit, RunStates
<1>2. CASE \E h \in found : scoping[a].read[h] = NOROW /\ assets[h] # NOROW
  <2> DEFINE r == [Waiting EXCEPT !.pc = "failed"]
  <2>1. scoping' = [scoping EXCEPT ![a] = r] /\ UNCHANGED <<assets, tags, rated, dropped, raced, reselected>>
    BY <1>2 DEF UpsertAssets
  <2>2. r \in RunStates /\ r.pc = "failed" /\ \A h \in Hosts : r.read[h] = NOROW
    BY WaitingIsRun DEF RunStates, RunPoints
  <2> HIDE DEF r
  <2>3. RunFits(a, r) /\ \A h \in Hosts : ListedOnce(r.read[h])
    BY <2>2 DEF RunFits, ListedOnce
  <2> QED
    BY <2>1, <2>2, <2>3, RunMoves
<1>3. CASE ~\E h \in found : scoping[a].read[h] = NOROW /\ assets[h] # NOROW
  <2> DEFINE r == [scoping[a] EXCEPT !.pc = "scope", !.read = Waiting.read]
  <2>1. /\ assets' = [h \in Hosts |-> IF h \in found THEN ApplyRecord(a, h) ELSE assets[h]]
        /\ dropped' = (dropped \ ({a} \X SeenIn(a, assets'))) \cup
             {mark \in Assessments \X found :
                 mark[2] \in SeenIn(mark[1], assets) \ SeenIn(mark[1], assets')}
        /\ scoping' = [scoping EXCEPT ![a] = r]
        /\ UNCHANGED <<tags, rated, reselected, raced>>
    BY <1>3 DEF UpsertAssets
  <2>2. r \in RunStates /\ r.pc = "scope" /\ r.found = found /\ \A h \in Hosts : r.read[h] = NOROW
    BY <1>1, WaitingIsRun DEF RunStates, RunPoints
  <2> HIDE DEF r
  <2>3. /\ scoping' \in [Assessments -> RunStates] /\ scoping'[a] = r
        /\ \A b \in Assessments \ {a} : scoping'[b] = scoping[b]
    BY <2>1, <2>2 DEF InventoryTypes
  <2>4. ASSUME NEW h \in Hosts
        PROVE  /\ assets'[h] \in AssetRows \cup {NOROW} /\ ListedOnce(assets'[h])
               /\ assets[h] = NOROW /\ assets'[h] # NOROW =>
                    assets'[h].active /\ ~assets'[h].selected /\ ToSet(assets'[h].seenIn) = {a}
               /\ assets[h] # NOROW =>
                    /\ assets'[h] # NOROW
                    /\ assets'[h].selected = assets[h].selected /\ assets'[h].level = assets[h].level
                    /\ assets'[h].source = assets[h].source
                    /\ assets[h].active => assets'[h].active
                    /\ \A b \in ToSet(assets'[h].seenIn) : b = a \/ Marked(b, h)
               /\ h \in found => /\ assets'[h] # NOROW
                                 /\ a \in ToSet(assets'[h].seenIn) \/ <<a, h>> \in dropped
               /\ h \notin found => assets'[h] = assets[h]
    <3>1. CASE h \in found
      <4>1. assets'[h] = ApplyRecord(a, h)
        BY <3>1, <2>1
      <4>2. assets'[h] \in AssetRows /\ assets'[h] # NOROW
        BY <4>1, <3>1, <1>1, <1>3, RecordApplied, InventoryAssumption, ZenonT(60)
      <4>3. IsInjective(assets'[h].seenIn)
        BY <4>1, <3>1, <1>1, <1>3, RecordApplied
      <4>4. assets[h] = NOROW =>
                assets'[h].active /\ ~assets'[h].selected /\ ToSet(assets'[h].seenIn) = {a}
        BY <4>1, <3>1, <1>1, <1>3, RecordApplied
      <4>5. assets[h] # NOROW =>
                /\ assets'[h].selected = assets[h].selected /\ assets'[h].level = assets[h].level
                /\ assets'[h].source = assets[h].source
                /\ assets[h].active => assets'[h].active
                /\ \A b \in ToSet(assets'[h].seenIn) : b = a \/ Marked(b, h)
        BY <4>1, <3>1, <1>1, <1>3, RecordApplied
      <4>6. a \in ToSet(assets'[h].seenIn) \/ <<a, h>> \in dropped
        BY <4>1, <3>1, <1>1, <1>3, RecordApplied
      <4> QED
        BY <4>2, <4>3, <4>4, <4>5, <4>6, <3>1 DEF ListedOnce
    <3>2. CASE h \notin found
      <4>1. assets'[h] = assets[h]
        BY <3>2, <2>1
      <4>2. assets[h] # NOROW => \A b \in ToSet(assets[h].seenIn) : Marked(b, h)
        BY SeenBy DEF Marked
      <4> QED
        BY <4>1, <4>2, <3>2 DEF InventoryTypes, RowsListOnce, ListedOnce
    <3> QED
      BY <3>1, <3>2
\* A mark is lost only where it is noted, and comes back only where its loss was noted.
  <2>5. ASSUME NEW b \in Assessments, NEW h \in Hosts, Marked(b, h)
        PROVE  h \in SeenIn(b, assets') \/ <<b, h>> \in dropped'
    <3>1. CASE h \in SeenIn(b, assets)
      <4>1. CASE h \in found
        <5>1. <<b, h>> \in Assessments \X found
          BY <4>1
        <5>2. h \notin SeenIn(b, assets') => <<b, h>> \in dropped'
          BY <5>1, <3>1, <2>1
        <5> QED
          BY <5>2
      <4>2. CASE h \notin found
        <5>1. assets'[h] = assets[h] /\ assets[h] # NOROW /\ b \in ToSet(assets[h].seenIn)
          BY <4>2, <3>1, <2>4, SeenBy
        <5>2. assets'[h] # NOROW /\ b \in ToSet(assets'[h].seenIn)
          BY <5>1
        <5> QED
          BY <5>2, SeenBy
      <4> QED
        BY <4>1, <4>2
    <3>2. CASE <<b, h>> \in dropped
      <4>1. h \notin SeenIn(a, assets') \/ b # a => <<b, h>> \in dropped'
        BY <3>2, <2>1
      <4> QED
        BY <4>1
    <3> QED
      BY <2>5, <3>1, <3>2 DEF Marked
  <2>6. ASSUME NEW b \in Assessments, NEW h \in Hosts, b # a, h \in SeenIn(b, assets')
        PROVE  assets[h] # NOROW /\ Marked(b, h)
    <3>1. assets'[h] # NOROW /\ b \in ToSet(assets'[h].seenIn)
      BY <2>6, SeenBy
    <3> QED
      BY <3>1, <2>4, <2>6
  <2>7. ASSUME NEW b \in Assessments, b # a, Disturbed(b) PROVE Disturbed(b)'
    <3>1. \A h \in Hosts : <<b, h>> \in dropped => <<b, h>> \in dropped'
      BY <2>1, <2>7
    <3> QED
      BY <3>1, <2>1, <2>7, SMTT(40) DEF Disturbed, Excluded
\* As far as a run is undisturbed, it sees the same rows as before.
  <2>8. ASSUME NEW b \in Assessments, b # a, ~Disturbed(b)', NEW h \in Hosts
        PROVE  h \in SeenIn(b, assets') <=> h \in SeenIn(b, assets)
    <3>1. <<b, h>> \notin dropped'
      BY <2>8 DEF Disturbed
    <3>2. <<b, h>> \notin dropped
      BY <3>1, <2>1, <2>8
    <3> QED
      BY <3>1, <3>2, <2>5, <2>6, <2>8 DEF Marked
  <2>9. InventoryTypes'
    <3>1. assets' \in [Hosts -> AssetRows \cup {NOROW}]
      BY <2>1, <2>4
    <3> QED
      BY <3>1, <2>1, <2>3 DEF InventoryTypes
  <2>10. RowsListOnce'
    <3>1. \A h \in Hosts : ListedOnce(assets'[h])
      BY <2>4
    <3>2. \A b \in Assessments, h \in Hosts : ListedOnce(scoping'[b].read[h])
      BY <2>2, <2>3 DEF RowsListOnce, ListedOnce
    <3> QED
      BY <3>1, <3>2 DEF RowsListOnce, ListedOnce
  <2>11. ExcludedUnselected' /\ RatingsKept'
    <3> SUFFICES ASSUME NEW h \in Hosts
                 PROVE  /\ assets'[h] # NOROW /\ ~assets'[h].active /\ assets'[h].selected => Excluded(h)
                        /\ rated[h] # "none" => assets'[h] # NOROW
                        /\ RatingKept(h) => IsRated(assets'[h], h)
      BY <2>1 DEF ExcludedUnselected, RatingsKept, Excluded, RatingKept, IsRated
    <3>1. assets[h] # NOROW /\ ~assets[h].active /\ assets[h].selected => Excluded(h)
      BY DEF ExcludedUnselected
    <3>2. (rated[h] # "none" => assets[h] # NOROW) /\ (RatingKept(h) => IsRated(assets[h], h))
      BY DEF RatingsKept
    <3>3. CASE assets[h] = NOROW
      BY <3>2, <3>3, <2>4 DEF RatingKept
    <3>4. CASE assets[h] # NOROW
      BY <3>1, <3>2, <3>4, <2>4 DEF IsRated
    <3> QED
      BY <3>3, <3>4
  <2>12. RunsFit'
    <3> SUFFICES ASSUME NEW b \in Assessments PROVE RunFits(b, scoping[b])'
      BY DEF RunsFit
    <3>1. CASE b = a
      <4>1. \A h \in found : h \in SeenIn(a, assets') \/ <<a, h>> \in dropped'
        <5> SUFFICES ASSUME NEW h \in found PROVE h \in SeenIn(a, assets') \/ <<a, h>> \in dropped'
          OBVIOUS
        <5>1. h \in Hosts
          BY <1>1
        <5>2. h \in SeenIn(a, assets') \/ <<a, h>> \in dropped
          BY <5>1, <2>4, SeenBy
        <5> QED
          BY <5>1, <5>2, <2>5 DEF Marked
      <4> QED
        BY <4>1, <3>1, <2>2, <2>3 DEF RunFits, Marked
    <3>2. CASE b # a
      <4>1. scoping'[b] = scoping[b] /\ RunFits(b, scoping[b])
        BY <3>2, <2>3 DEF RunsFit
      <4> DEFINE s == scoping[b]
      <4>2. ASSUME s.pc = "merging", NEW h \in Hosts, s.read[h] # NOROW
            PROVE  /\ assets'[h] # NOROW
                   /\ \A c \in Assessments : c \in ToSet(s.read[h].seenIn) => Marked(c, h)'
        BY <4>1, <4>2, <2>4, <2>5 DEF RunFits, Marked
      <4>3. ASSUME s.pc = "scope", NEW h \in s.found PROVE Marked(b, h)'
        <5>1. h \in Hosts
          BY DEF InventoryTypes, RunStates
        <5> QED
          BY <5>1, <4>1, <4>3, <2>5 DEF RunFits, Marked
      <4>4. ASSUME s.pc = "ranking", NEW h \in Hosts
            PROVE  /\ Disturbed(b)' \/ ReadIsCurrent(b, s.read, h)'
                   /\ s.read[h] # NOROW =>
                        /\ assets'[h] # NOROW
                        /\ ~assets'[h].active => Excluded(h)
                        /\ RatingKept(h) => IsRated(s.read[h], h)
        <5>1. /\ Disturbed(b) \/ ReadIsCurrent(b, s.read, h)
              /\ s.read[h] # NOROW =>
                        /\ assets[h] # NOROW
                        /\ ~assets[h].active => Excluded(h)
                        /\ RatingKept(h) => IsRated(s.read[h], h)
          BY <4>1, <4>4 DEF RunFits
        <5>2. ASSUME ~Disturbed(b)' PROVE ReadIsCurrent(b, s.read, h)'
          <6>1. ReadIsCurrent(b, s.read, h)
            BY <5>1, <5>2, <2>7, <3>2
          <6>2. h \in SeenIn(b, assets') <=> h \in SeenIn(b, assets)
            BY <5>2, <2>8, <3>2
          <6>3. h \in SeenIn(b, assets) => assets[h] # NOROW
            BY SeenBy
          <6>4. CASE s.read[h] = NOROW
            BY <6>1, <6>2, <6>3, <6>4, <2>4, <4>1 DEF ReadIsCurrent
          <6>5. CASE s.read[h] # NOROW
            BY <6>1, <6>2, <6>3, <6>5, <2>4, <4>1 DEF ReadIsCurrent
          <6> QED
            BY <6>4, <6>5
        <5> QED
          BY <5>1, <5>2, <2>4
      <4>5. ASSUME s.pc = "chosen", ~Disturbed(b)' PROVE SelectedAssets(b)' = s.chosen
        <5>1. SelectedAssets(b) = s.chosen
          BY <4>1, <4>5, <2>7, <3>2 DEF RunFits
        <5>2. ASSUME NEW h \in Hosts
              PROVE  /\ h \in SeenIn(b, assets') <=> h \in SeenIn(b, assets)
                     /\ h \in SeenIn(b, assets) => assets'[h].selected = assets[h].selected
          <6>1. h \in SeenIn(b, assets) => assets[h] # NOROW
            BY SeenBy
          <6> QED
            BY <6>1, <4>5, <2>4, <2>8, <3>2
        <5>3. SeenIn(b, assets) \subseteq Hosts /\ SeenIn(b, assets') \subseteq Hosts
          BY SeenBy
        <5> QED
          BY <5>1, <5>2, <5>3 DEF SelectedAssets
      <4>6. s.pc = "proposed" => Disturbed(b)' \/ s.proposed = s.chosen
        BY <4>1, <2>7, <3>2 DEF RunFits
      <4> HIDE DEF s
      <4>7. scoping'[b] = s /\ s' = s
        BY <4>1 DEF s
      <4> QED
        BY <4>2, <4>3, <4>4, <4>5, <4>6, <4>7, <2>1 DEF RunFits, Excluded, RatingKept, IsRated
    <3> QED
      BY <3>1, <3>2
  <2> QED
    BY <2>9, <2>10, <2>11, <2>12
<1> QED
  BY <1>2, <1>3

\* What a ranking writes to one row, and that a rating stays.
Wrote(row, read, level, source, h, top) ==
    [row EXCEPT !.level = IF read.level = level THEN row.level ELSE level,
                !.source = IF read.source = source THEN row.source ELSE source,
                !.selected = IF read.selected = (h \in top) THEN row.selected ELSE h \in top]

LEMMA RankWrites ==
    ASSUME NEW row \in AssetRows, NEW read \in AssetRows, NEW level \in Levels, NEW source \in Sources,
           NEW h, NEW top, NEW q, q = Wrote(row, read, level, source, h, top)
    PROVE  /\ q \in AssetRows
           /\ q.active = row.active /\ q.seenIn = row.seenIn
           /\ q.level = IF read.level = level THEN row.level ELSE level
           /\ q.source = IF read.source = source THEN row.source ELSE source
           /\ read.selected = row.selected => (q.selected <=> h \in top)
<1>1. q \in AssetRows
  <2> DEFINE l == IF read.level = level THEN row.level ELSE level
             c == IF read.source = source THEN row.source ELSE source
             m == IF read.selected = (h \in top) THEN row.selected ELSE h \in top
  <2>1. l \in Levels /\ c \in Sources
    BY DEF AssetRows
  <2>2. m \in BOOLEAN
    <3>1. row.selected \in BOOLEAN
      BY DEF AssetRows
    <3>2. CASE read.selected = (h \in top)
      BY <3>1, <3>2
    <3>3. CASE read.selected # (h \in top)
      <4>1. m = (h \in top)
        BY <3>3
      <4>2. (h \in top) \in BOOLEAN
        OBVIOUS
      <4> HIDE DEF m
      <4> QED
        BY <4>1, <4>2, Zenon
    <3> QED
      BY <3>2, <3>3
  <2>3. q = [row EXCEPT !.level = l, !.source = c, !.selected = m]
    BY DEF Wrote
  <2> HIDE DEF l, c, m
  <2> QED
    BY <2>1, <2>2, <2>3 DEF AssetRows
<1>2. /\ q.active = row.active /\ q.seenIn = row.seenIn
      /\ q.level = IF read.level = level THEN row.level ELSE level
      /\ q.source = IF read.source = source THEN row.source ELSE source
  BY DEF Wrote, AssetRows
<1>3. read.selected = row.selected => (q.selected <=> h \in top)
  <2>1. CASE h \in top
    BY <2>1, ZenonT(60) DEF Wrote, AssetRows
  <2>2. CASE h \notin top
    BY <2>2, ZenonT(60) DEF Wrote, AssetRows
  <2> QED
    BY <2>1, <2>2
<1> QED
  BY <1>1, <1>2, <1>3

LEMMA InferredTypes ==
    ASSUME NEW row \in AssetRows, NEW tag \in Levels \cup {"none"}
    PROVE  /\ InferCriticality(row, tag)[1] \in Levels /\ InferCriticality(row, tag)[2] \in Sources
           /\ row.source = "operator_tag" => InferCriticality(row, tag) = <<row.level, "operator_tag">>
<1>1. CASE row.source = "operator_tag"
  BY <1>1 DEF InferCriticality, AssetRows, Sources
<1>2. CASE row.source # "operator_tag" /\ tag # "none"
  BY <1>2 DEF InferCriticality, AssetRows, Sources
<1>3. CASE row.source # "operator_tag" /\ tag = "none"
  BY <1>3, SMTT(40) DEF InferCriticality, AssetRows, Sources, Levels
<1> QED
  BY <1>1, <1>2, <1>3

LEMMA RankKeeps == ASSUME InventoryIInv, NEW a \in Assessments, ScoreAndSelect(a) PROVE InventoryIInv'
<1> USE DEF InventoryIInv
<1> DEFINE read == scoping[a].read
           inferred == [h \in Hosts |-> IF read[h] = NOROW THEN <<"unknown", "default">>
                                        ELSE InferCriticality(read[h], scoping[a].tagged[h])]
           top == TopRanked(read, inferred)
           r == [Waiting EXCEPT !.pc = "chosen", !.chosen = top]
<1>1. /\ scoping[a] \in RunStates /\ scoping[a].pc = "ranking" /\ RunFits(a, scoping[a])
      /\ read \in [Hosts -> AssetRows \cup {NOROW}]
      /\ scoping[a].tagged \in [Hosts -> Levels \cup {"none"}]
      /\ assets \in [Hosts -> AssetRows \cup {NOROW}]
  BY ZenonT(60) DEF ScoreAndSelect, InventoryTypes, RunsFit, RunStates
<1>2. /\ scoping' = [scoping EXCEPT ![a] = r]
      /\ UNCHANGED <<tags, rated, dropped, raced>>
      /\ reselected' = reselected \cup
           {b \in Others(a, {"ranking", "chosen"}) :
               \E h \in SeenIn(b, assets) : assets'[h].selected # assets[h].selected}
  BY ZenonT(60) DEF ScoreAndSelect
<1>3. /\ \A h \in Hosts : read[h] = NOROW => assets'[h] = assets[h]
      /\ \A h \in Hosts : read[h] # NOROW =>
            assets'[h] = Wrote(assets[h], read[h], inferred[h][1], inferred[h][2], h, top)
      /\ assets' = [h \in Hosts |-> assets'[h]]
  BY ZenonT(60) DEF ScoreAndSelect, Wrote
<1>4. top \subseteq {h \in Hosts : read[h] # NOROW}
  BY DEF TopRanked, Known
<1>5. /\ r \in RunStates /\ r.pc = "chosen" /\ r.chosen = top /\ \A h \in Hosts : r.read[h] = NOROW
  BY <1>4, WaitingIsRun DEF RunStates, RunPoints
<1>6. ASSUME NEW h \in Hosts, read[h] # NOROW
      PROVE  /\ read[h] \in AssetRows /\ inferred[h][1] \in Levels /\ inferred[h][2] \in Sources
             /\ read[h].source = "operator_tag" =>
                    inferred[h][1] = read[h].level /\ inferred[h][2] = "operator_tag"
  <2>1. read[h] \in AssetRows /\ scoping[a].tagged[h] \in Levels \cup {"none"}
    BY <1>1, <1>6
  <2>2. inferred[h] = InferCriticality(read[h], scoping[a].tagged[h])
    BY <1>6
  <2> HIDE DEF read, inferred
  <2> QED
    BY <2>1, <2>2, InferredTypes
<1>7. ASSUME NEW h \in Hosts, read[h] # NOROW
      PROVE  /\ assets[h] \in AssetRows /\ assets[h] # NOROW
             /\ ~assets[h].active => Excluded(h)
             /\ RatingKept(h) => IsRated(read[h], h)
  BY <1>1, <1>7 DEF RunFits
<1> HIDE DEF read, inferred, top, r
<1>8. ASSUME NEW h \in Hosts
      PROVE  /\ assets'[h] \in AssetRows \cup {NOROW}
             /\ (assets'[h] = NOROW) = (assets[h] = NOROW)
             /\ assets[h] # NOROW =>
                   /\ assets'[h].active = assets[h].active /\ assets'[h].seenIn = assets[h].seenIn
                   /\ RatingKept(h) => IsRated(assets'[h], h)
             /\ read[h] = NOROW => assets'[h] = assets[h]
             /\ read[h] # NOROW =>
                   (read[h].selected = assets[h].selected => (assets'[h].selected <=> h \in top))
  <2>1. RatingKept(h) => IsRated(assets[h], h)
    BY DEF RatingsKept
  <2>2. CASE read[h] = NOROW
    BY <2>1, <2>2, <1>1, <1>3
  <2>3. CASE read[h] # NOROW
    <3> DEFINE q == assets'[h]
    <3>1. /\ q \in AssetRows
          /\ q.active = assets[h].active /\ q.seenIn = assets[h].seenIn
          /\ q.level = IF read[h].level = inferred[h][1] THEN assets[h].level ELSE inferred[h][1]
          /\ q.source = IF read[h].source = inferred[h][2] THEN assets[h].source ELSE inferred[h][2]
          /\ read[h].selected = assets[h].selected => (q.selected <=> h \in top)
      <4>1. q = Wrote(assets[h], read[h], inferred[h][1], inferred[h][2], h, top)
        BY <1>3, <2>3
      <4>3. /\ assets[h] \in AssetRows /\ read[h] \in AssetRows
            /\ inferred[h][1] \in Levels /\ inferred[h][2] \in Sources
        BY <1>6, <1>7, <2>3
      <4> HIDE DEF q
      <4> QED
        BY <4>1, <4>3, RankWrites
    <3>2. q # NOROW
      BY <3>1, InventoryAssumption
    <3> HIDE DEF q
    <3>3. ASSUME RatingKept(h) PROVE IsRated(q, h)
      BY <3>1, <3>2, <3>3, <1>6, <1>7, <2>1, <2>3 DEF IsRated
    <3>4. assets'[h] = q
      BY DEF q
    <3> QED
      BY <3>1, <3>2, <3>3, <3>4, <1>7, <2>3
  <2> QED
    BY <2>2, <2>3
<1>9. ASSUME NEW b, NEW h \in Hosts
      PROVE  h \in SeenIn(b, assets') <=> h \in SeenIn(b, assets)
  BY <1>8, SeenBy
<1>10. SeenIn(a, assets) \subseteq Hosts /\ \A b : SeenIn(b, assets') = SeenIn(b, assets)
  <2>1. \A b : SeenIn(b, assets) \subseteq Hosts /\ SeenIn(b, assets') \subseteq Hosts
    BY DEF SeenIn, Known
  <2> QED
    BY <1>9, <2>1
<1>11. /\ scoping' \in [Assessments -> RunStates] /\ scoping'[a] = r
       /\ \A b \in Assessments \ {a} : scoping'[b] = scoping[b]
  BY <1>2, <1>5 DEF InventoryTypes
<1>12. InventoryTypes'
  <2>1. assets' \in [Hosts -> AssetRows \cup {NOROW}]
    BY <1>3, <1>8
  <2> QED
    BY <2>1, <1>2, <1>11 DEF InventoryTypes
<1>13. RowsListOnce'
  <2>1. \A h \in Hosts : ListedOnce(assets'[h])
    BY <1>8 DEF RowsListOnce, ListedOnce
  <2>2. \A b \in Assessments, h \in Hosts : ListedOnce(scoping'[b].read[h])
    BY <1>5, <1>11 DEF RowsListOnce, ListedOnce
  <2> QED
    BY <2>1, <2>2 DEF RowsListOnce, ListedOnce
<1>14. ExcludedUnselected' /\ RatingsKept'
  <2> SUFFICES ASSUME NEW h \in Hosts
               PROVE  /\ assets'[h] # NOROW /\ ~assets'[h].active /\ assets'[h].selected => Excluded(h)
                      /\ rated[h] # "none" => assets'[h] # NOROW
                      /\ RatingKept(h) => IsRated(assets'[h], h)
    BY <1>2 DEF ExcludedUnselected, RatingsKept, Excluded, RatingKept, IsRated
  <2>1. /\ assets[h] # NOROW /\ ~assets[h].active /\ assets[h].selected => Excluded(h)
        /\ rated[h] # "none" => assets[h] # NOROW
    BY DEF ExcludedUnselected, RatingsKept
  <2>2. RatingKept(h) => assets[h] # NOROW
    BY <2>1 DEF RatingKept
  <2> QED
    BY <2>1, <2>2, <1>7, <1>8
<1>15. ASSUME NEW b \in Assessments, Disturbed(b) PROVE Disturbed(b)'
  BY <1>2, <1>15 DEF Disturbed, Excluded
<1>16. ASSUME NEW b \in Assessments \ {a}, scoping[b].pc \in {"ranking", "chosen"}, ~Disturbed(b)',
              NEW h \in SeenIn(b, assets)
       PROVE  assets'[h].selected = assets[h].selected
  <2>1. b \in Others(a, {"ranking", "chosen"}) /\ b \notin reselected'
    BY <1>16 DEF Others, Disturbed
  <2> QED
    BY <2>1, <1>2
<1>17. RunsFit'
  <2> SUFFICES ASSUME NEW b \in Assessments PROVE RunFits(b, scoping[b])'
    BY DEF RunsFit
  <2>1. CASE b = a
    <3>1. ASSUME ~Disturbed(a)' PROVE SelectedAssets(a)' = top
      <4>1. ~Disturbed(a)
        BY <1>15, <3>1
      <4>2. ASSUME NEW h \in Hosts PROVE ReadIsCurrent(a, read, h)
        BY <4>1, <4>2, <1>1 DEF RunFits, read
      <4>3. ASSUME NEW h \in SeenIn(a, assets) PROVE assets'[h].selected <=> h \in top
        <5>1. h \in Hosts /\ assets[h] \in AssetRows
          BY <4>3, <1>1, <1>10, SeenBy
        <5>2. CASE read[h] = NOROW
          <6>1. ~assets[h].selected
            BY <4>2, <4>3, <5>1, <5>2 DEF ReadIsCurrent
          <6>2. h \notin top
            BY <1>4, <5>1, <5>2
          <6> QED
            BY <6>1, <6>2, <5>1, <5>2, <1>8
        <5>3. CASE read[h] # NOROW
          <6>1. read[h].selected = assets[h].selected
            BY <4>2, <5>1, <5>3 DEF ReadIsCurrent
          <6> QED
            BY <6>1, <5>1, <5>3, <1>8
        <5> QED
          BY <5>2, <5>3
      <4>4. top \subseteq SeenIn(a, assets)
        <5> SUFFICES ASSUME NEW h \in top PROVE h \in SeenIn(a, assets)
          OBVIOUS
        <5>1. h \in Hosts /\ read[h] # NOROW
          BY <1>4
        <5>2. ReadIsCurrent(a, read, h)
          BY <4>2, <5>1
        <5> QED
          BY <5>1, <5>2 DEF ReadIsCurrent
      <4>5. SelectedAssets(a)' = {h \in SeenIn(a, assets) : assets'[h].selected}
        BY <1>10 DEF SelectedAssets
      <4> QED
        BY <4>3, <4>4, <4>5
    <3> QED
      BY <3>1, <2>1, <1>5, <1>11 DEF RunFits
  <2>2. CASE b # a
    <3> DEFINE s == scoping[b]
    <3>1. scoping'[b] = s /\ s' = s /\ RunFits(b, s)
      BY <2>2, <1>11 DEF RunsFit
    <3> HIDE DEF s
    <3>2. \A c \in Assessments, h \in Hosts : Marked(c, h)' = Marked(c, h)
      BY <1>2, <1>10 DEF Marked
    <3>3. s.pc \in {"ranking", "chosen"} /\ ~Disturbed(b)' =>
             \A h \in SeenIn(b, assets) : assets'[h].selected = assets[h].selected
      BY <1>16, <2>2 DEF s
    <3>4. ASSUME s.pc = "ranking", NEW h \in Hosts
          PROVE  /\ Disturbed(b)' \/ ReadIsCurrent(b, s.read, h)'
                 /\ s.read[h] # NOROW =>
                        /\ assets'[h] # NOROW
                        /\ ~assets'[h].active => Excluded(h)
                        /\ RatingKept(h) => IsRated(s.read[h], h)
      <4>1. /\ Disturbed(b) \/ ReadIsCurrent(b, s.read, h)
            /\ s.read[h] # NOROW =>
                        /\ assets[h] # NOROW
                        /\ ~assets[h].active => Excluded(h)
                        /\ RatingKept(h) => IsRated(s.read[h], h)
        BY <3>1, <3>4 DEF RunFits
      <4>2. ASSUME ~Disturbed(b)' PROVE ReadIsCurrent(b, s.read, h)'
        <5>1. ReadIsCurrent(b, s.read, h)
          BY <4>1, <4>2, <1>15
        <5>2. h \in SeenIn(b, assets) => /\ assets'[h].selected = assets[h].selected
                                         /\ assets'[h].active = assets[h].active
          BY <3>3, <3>4, <4>2, <1>8, SeenBy
        <5> QED
          BY <5>1, <5>2, <1>10, <3>1 DEF ReadIsCurrent
      <4> QED
        BY <4>1, <4>2, <1>8
    <3>5. ASSUME s.pc = "chosen", ~Disturbed(b)' PROVE SelectedAssets(b)' = s.chosen
      <4>1. SelectedAssets(b) = s.chosen
        BY <3>1, <3>5, <1>15 DEF RunFits
      <4> QED
        BY <4>1, <3>3, <3>5, <1>10 DEF SelectedAssets
    <3>6. s.pc = "proposed" => Disturbed(b)' \/ s.proposed = s.chosen
      BY <3>1, <1>15 DEF RunFits
    <3>7. s.pc = "scope" => \A h \in s.found : Marked(b, h)'
      <4>1. s.found \subseteq Hosts
        BY DEF InventoryTypes, RunStates, s
      <4> QED
        BY <4>1, <3>1, <3>2 DEF RunFits
    <3>8. s.pc = "merging" => \A h \in Hosts : s.read[h] # NOROW =>
            /\ assets'[h] # NOROW
            /\ \A c \in Assessments : c \in ToSet(s.read[h].seenIn) => Marked(c, h)'
      BY <3>1, <3>2, <1>8 DEF RunFits
    <3> QED
      BY <3>1, <3>4, <3>5, <3>6, <3>7, <3>8, <1>2 DEF RunFits, Excluded, RatingKept, IsRated
  <2> QED
    BY <2>1, <2>2
<1> QED
  BY <1>12, <1>13, <1>14, <1>17

\* The runs a ranking or its choice belongs to are disturbed by who excludes a host.
LEMMA ExcludeKeeps == ASSUME InventoryIInv, NEW g \in Hosts, MarkOutOfScope(g) PROVE InventoryIInv'
<1> USE DEF InventoryIInv
<1>1. /\ assets[g] # NOROW /\ assets[g].active
      /\ assets' = [assets EXCEPT ![g].active = FALSE, ![g].selected = FALSE]
      /\ reselected' = reselected \cup {b \in Assessments : scoping[b].pc \in {"ranking", "chosen"}}
      /\ raced' = IF BeingRanked(g) THEN raced \cup {<<"excluded", g>>} ELSE raced
      /\ UNCHANGED <<tags, scoping, rated, dropped>>
  BY DEF MarkOutOfScope, Operates
<1>2. /\ assets \in [Hosts -> AssetRows \cup {NOROW}] /\ assets[g] \in AssetRows
      /\ scoping \in [Assessments -> RunStates]
  BY <1>1 DEF InventoryTypes
<1> DEFINE q == assets'[g]
<1>3. /\ q \in AssetRows /\ ~q.active /\ ~q.selected /\ q.seenIn = assets[g].seenIn
      /\ q.level = assets[g].level /\ q.source = assets[g].source
      /\ assets' = [assets EXCEPT ![g] = q]
  <2>1. q = [assets[g] EXCEPT !.active = FALSE, !.selected = FALSE]
    BY <1>1, <1>2
  <2>2. assets' = [assets EXCEPT ![g] = q]
    BY <1>1, <1>2, <2>1
  <2> HIDE DEF q
  <2> QED
    BY <1>2, <2>1, <2>2 DEF AssetRows
<1>4. q # NOROW
  BY <1>3, InventoryAssumption
<1>5. \A h \in Hosts : h # g => assets'[h] = assets[h]
  BY <1>1, <1>2
<1> HIDE DEF q
<1>6. assets'[g] = q
  BY DEF q
<1>7. \A h \in Hosts : (assets'[h] = NOROW) <=> (assets[h] = NOROW)
  BY <1>1, <1>4, <1>5, <1>6
<1>8. \A h \in Hosts : assets[h] # NOROW =>
          /\ assets'[h].seenIn = assets[h].seenIn
          /\ assets'[h].level = assets[h].level /\ assets'[h].source = assets[h].source
  BY <1>3, <1>5, <1>6
<1>9. \A b : SeenIn(b, assets') = SeenIn(b, assets)
  <2>1. ASSUME NEW b, NEW h PROVE h \in SeenIn(b, assets') <=> h \in SeenIn(b, assets)
    BY <1>7, <1>8, SeenBy
  <2>2. \A b : SeenIn(b, assets) \subseteq Hosts /\ SeenIn(b, assets') \subseteq Hosts
    BY DEF SeenIn, Known
  <2> QED
    BY <2>1, <2>2
<1>10. InventoryTypes'
  <2>1. assets' \in [Hosts -> AssetRows \cup {NOROW}]
    BY <1>2, <1>3
  <2> QED
    BY <2>1, <1>1 DEF InventoryTypes
<1>11. RowsListOnce'
  BY <1>1, <1>7, <1>8 DEF RowsListOnce, ListedOnce
<1>12. ASSUME NEW h \in Hosts PROVE Excluded(h) => Excluded(h)'
  BY <1>1, <1>12 DEF Excluded
<1>13. BeingRanked(g) => Excluded(g)'
  BY <1>1 DEF Excluded
<1>14. ASSUME NEW h \in Hosts PROVE RatingKept(h)' <=> RatingKept(h)
  <2>1. <<"rated", h>> # <<"excluded", g>>
    OBVIOUS
  <2> QED
    BY <1>1, <2>1 DEF RatingKept
<1>15. ASSUME NEW b \in Assessments, Disturbed(b) PROVE Disturbed(b)'
  <2>1. b \in reselected => b \in reselected'
    BY <1>1
  <2> QED
    BY <1>1, <1>12, <1>15, <2>1 DEF Disturbed
<1>16. ASSUME NEW b \in Assessments, scoping[b].pc \in {"ranking", "chosen"} PROVE Disturbed(b)'
  BY <1>1, <1>16 DEF Disturbed
<1>17. \A b \in Assessments, h \in Hosts : Marked(b, h)' <=> Marked(b, h)
  BY <1>1, <1>9 DEF Marked
<1>18. ExcludedUnselected' /\ RatingsKept'
  <2> SUFFICES ASSUME NEW h \in Hosts
               PROVE  /\ (assets[h] # NOROW /\ ~assets[h].active /\ assets[h].selected => Excluded(h))'
                      /\ rated'[h] # "none" => assets'[h] # NOROW
                      /\ (RatingKept(h) => IsRated(assets[h], h))'
    BY DEF ExcludedUnselected, RatingsKept
  <2>1. (assets[h] # NOROW /\ ~assets[h].active /\ assets[h].selected => Excluded(h))'
    <3>1. CASE h = g
      BY <3>1, <1>3, <1>6
    <3>2. CASE h # g
      BY <3>2, <1>5, <1>12 DEF ExcludedUnselected
    <3> QED
      BY <3>1, <3>2
  <2>2. rated'[h] # "none" => assets'[h] # NOROW
    BY <1>1, <1>7 DEF RatingsKept
  <2>3. (RatingKept(h) => IsRated(assets[h], h))'
    BY <1>1, <1>7, <1>8, <1>14 DEF RatingsKept, IsRated
  <2> QED
    BY <2>1, <2>2, <2>3
<1>19. RunsFit'
  <2> SUFFICES ASSUME NEW b \in Assessments PROVE RunFits(b, scoping[b])'
    BY DEF RunsFit
  <2> DEFINE s == scoping[b]
  <2>1. scoping'[b] = s /\ s' = s /\ RunFits(b, s) /\ s \in RunStates
    BY <1>1, <1>2 DEF RunsFit
  <2>2. s.pc \in {"ranking", "chosen"} => Disturbed(b)'
    BY <1>16
  <2>3. ASSUME NEW h \in Hosts, s.pc = "ranking", s.read[h] # NOROW PROVE h = g => BeingRanked(g)
    BY <2>3 DEF BeingRanked
  <2> HIDE DEF s
  <2>4. s.pc = "merging" => \A h \in Hosts : s.read[h] # NOROW =>
            /\ assets'[h] # NOROW
            /\ \A c \in Assessments : c \in ToSet(s.read[h].seenIn) => Marked(c, h)'
    BY <2>1, <1>7, <1>17 DEF RunFits
  <2>5. s.pc = "scope" => \A h \in s.found : Marked(b, h)'
    <3>1. s.found \subseteq Hosts
      BY <2>1 DEF RunStates
    <3> QED
      BY <3>1, <2>1, <1>17 DEF RunFits
  <2>6. ASSUME s.pc = "ranking", NEW h \in Hosts, s.read[h] # NOROW
        PROVE  /\ assets'[h] # NOROW
               /\ ~assets'[h].active => Excluded(h)'
               /\ RatingKept(h)' => IsRated(s.read[h], h)'
    <3>1. /\ assets[h] # NOROW
          /\ ~assets[h].active => Excluded(h)
          /\ RatingKept(h) => IsRated(s.read[h], h)
      BY <2>1, <2>6 DEF RunFits
    <3>2. ~assets'[h].active => Excluded(h)'
      BY <2>3, <2>6, <3>1, <1>5, <1>12, <1>13
    <3> QED
      BY <3>1, <3>2, <2>1, <1>1, <1>7, <1>14 DEF IsRated
  <2>7. s.pc = "proposed" => Disturbed(b)' \/ s.proposed = s.chosen
    BY <2>1, <1>15 DEF RunFits
  <2> QED
    BY <2>1, <2>2, <2>4, <2>5, <2>6, <2>7 DEF RunFits
<1> QED
  BY <1>10, <1>11, <1>18, <1>19

\* Who rates a host rates every row of it that a run has not read before.
LEMMA RatingKeeps ==
    ASSUME InventoryIInv, NEW g \in Hosts, NEW level \in Levels, level # "none", SetCriticality(g, level)
    PROVE  InventoryIInv'
<1> USE DEF InventoryIInv
<1>1. /\ assets[g] # NOROW
      /\ assets' = [assets EXCEPT ![g].level = level, ![g].source = "operator_tag"]
      /\ rated' = [rated EXCEPT ![g] = level]
      /\ raced' = IF BeingRanked(g) THEN raced \cup {<<"rated", g>>} ELSE raced \ {<<"rated", g>>}
      /\ UNCHANGED <<tags, scoping, dropped, reselected>>
  BY DEF SetCriticality, Operates
<1>2. /\ assets \in [Hosts -> AssetRows \cup {NOROW}] /\ assets[g] \in AssetRows
      /\ scoping \in [Assessments -> RunStates] /\ rated \in [Hosts -> Levels \cup {"none"}]
  BY <1>1 DEF InventoryTypes
<1> DEFINE q == assets'[g]
<1>3. /\ q \in AssetRows /\ q.active = assets[g].active /\ q.selected = assets[g].selected
      /\ q.seenIn = assets[g].seenIn /\ q.level = level /\ q.source = "operator_tag"
      /\ assets' = [assets EXCEPT ![g] = q]
  <2>1. q = [assets[g] EXCEPT !.level = level, !.source = "operator_tag"]
    BY <1>1, <1>2
  <2>2. assets' = [assets EXCEPT ![g] = q]
    BY <1>1, <1>2, <2>1
  <2> HIDE DEF q
  <2> QED
    BY <1>2, <2>1, <2>2 DEF AssetRows, Sources
<1>4. q # NOROW
  BY <1>3, InventoryAssumption
<1>5. \A h \in Hosts : h # g => assets'[h] = assets[h] /\ rated'[h] = rated[h]
  BY <1>1, <1>2
<1> HIDE DEF q
<1>6. assets'[g] = q /\ rated'[g] = level
  BY <1>1, <1>2 DEF q
<1>7. \A h \in Hosts : (assets'[h] = NOROW) <=> (assets[h] = NOROW)
  BY <1>1, <1>4, <1>5, <1>6
<1>8. \A h \in Hosts : assets[h] # NOROW =>
          /\ assets'[h].seenIn = assets[h].seenIn
          /\ assets'[h].active = assets[h].active /\ assets'[h].selected = assets[h].selected
  BY <1>3, <1>5, <1>6
<1>9. \A b : SeenIn(b, assets') = SeenIn(b, assets)
  <2>1. ASSUME NEW b, NEW h PROVE h \in SeenIn(b, assets') <=> h \in SeenIn(b, assets)
    BY <1>7, <1>8, SeenBy
  <2>2. \A b : SeenIn(b, assets) \subseteq Hosts /\ SeenIn(b, assets') \subseteq Hosts
    BY DEF SeenIn, Known
  <2> QED
    BY <2>1, <2>2
<1>10. InventoryTypes'
  <2>1. assets' \in [Hosts -> AssetRows \cup {NOROW}] /\ rated' \in [Hosts -> Levels \cup {"none"}]
    BY <1>1, <1>2, <1>3, ZenonT(60)
  <2> QED
    BY <2>1, <1>1 DEF InventoryTypes
<1>11. RowsListOnce'
  BY <1>1, <1>7, <1>8 DEF RowsListOnce, ListedOnce
<1>12. ASSUME NEW h \in Hosts PROVE Excluded(h)' <=> Excluded(h)
  <2>1. <<"excluded", h>> # <<"rated", g>>
    OBVIOUS
  <2> QED
    BY <1>1, <2>1 DEF Excluded
<1>13. ASSUME NEW h \in Hosts, h # g PROVE RatingKept(h)' <=> RatingKept(h)
  <2>1. <<"rated", h>> # <<"rated", g>>
    BY <1>13
  <2> QED
    BY <1>1, <1>5, <1>13, <2>1 DEF RatingKept
<1>14. BeingRanked(g) => ~RatingKept(g)'
  BY <1>1 DEF RatingKept
<1>15. ASSUME NEW b \in Assessments PROVE Disturbed(b)' <=> Disturbed(b)
  BY <1>1, <1>12 DEF Disturbed
<1>16. \A b \in Assessments, h \in Hosts : Marked(b, h)' <=> Marked(b, h)
  BY <1>1, <1>9 DEF Marked
<1>17. ExcludedUnselected' /\ RatingsKept'
  <2> SUFFICES ASSUME NEW h \in Hosts
               PROVE  /\ (assets[h] # NOROW /\ ~assets[h].active /\ assets[h].selected => Excluded(h))'
                      /\ rated'[h] # "none" => assets'[h] # NOROW
                      /\ (RatingKept(h) => IsRated(assets[h], h))'
    BY DEF ExcludedUnselected, RatingsKept
  <2>1. (assets[h] # NOROW /\ ~assets[h].active /\ assets[h].selected => Excluded(h))'
    BY <1>7, <1>8, <1>12 DEF ExcludedUnselected
  <2>2. rated'[h] # "none" => assets'[h] # NOROW
    BY <1>1, <1>5, <1>7 DEF RatingsKept
  <2>3. (RatingKept(h) => IsRated(assets[h], h))'
    <3>1. CASE h = g
      BY <3>1, <1>3, <1>4, <1>6 DEF IsRated
    <3>2. CASE h # g
      BY <3>2, <1>5, <1>13 DEF RatingsKept, IsRated
    <3> QED
      BY <3>1, <3>2
  <2> QED
    BY <2>1, <2>2, <2>3
<1>18. RunsFit'
  <2> SUFFICES ASSUME NEW b \in Assessments PROVE RunFits(b, scoping[b])'
    BY DEF RunsFit
  <2> DEFINE s == scoping[b]
  <2>1. scoping'[b] = s /\ s' = s /\ RunFits(b, s) /\ s \in RunStates
    BY <1>1, <1>2 DEF RunsFit
  <2>2. ASSUME NEW h \in Hosts, s.pc = "ranking", s.read[h] # NOROW PROVE h = g => BeingRanked(g)
    BY <2>2 DEF BeingRanked
  <2> HIDE DEF s
  <2>3. s.pc = "merging" => \A h \in Hosts : s.read[h] # NOROW =>
            /\ assets'[h] # NOROW
            /\ \A c \in Assessments : c \in ToSet(s.read[h].seenIn) => Marked(c, h)'
    BY <2>1, <1>7, <1>16 DEF RunFits
  <2>4. s.pc = "scope" => \A h \in s.found : Marked(b, h)'
    <3>1. s.found \subseteq Hosts
      BY <2>1 DEF RunStates
    <3> QED
      BY <3>1, <2>1, <1>16 DEF RunFits
  <2>5. ASSUME NEW h \in Hosts, ReadIsCurrent(b, s.read, h) PROVE ReadIsCurrent(b, s.read, h)'
    <3>1. h \in SeenIn(b, assets) => assets[h] # NOROW
      BY SeenBy
    <3> QED
      BY <2>5, <3>1, <2>1, <1>8, <1>9 DEF ReadIsCurrent
  <2>6. ASSUME s.pc = "ranking", NEW h \in Hosts, s.read[h] # NOROW
        PROVE  /\ assets'[h] # NOROW
               /\ ~assets'[h].active => Excluded(h)'
               /\ RatingKept(h)' => IsRated(s.read[h], h)'
    <3>1. /\ assets[h] # NOROW
          /\ ~assets[h].active => Excluded(h)
          /\ RatingKept(h) => IsRated(s.read[h], h)
      BY <2>1, <2>6 DEF RunFits
    <3>2. RatingKept(h)' => h # g
      BY <2>2, <2>6, <1>14
    <3>3. RatingKept(h)' => IsRated(s.read[h], h)'
      BY <3>1, <3>2, <2>1, <1>5, <1>13 DEF IsRated
    <3> QED
      BY <3>1, <3>3, <1>7, <1>8, <1>12
  <2>7. s.pc = "ranking" => \A h \in Hosts : Disturbed(b)' \/ ReadIsCurrent(b, s.read, h)'
    BY <2>1, <2>5, <1>15 DEF RunFits
  <2>8. SelectedAssets(b)' = SelectedAssets(b)
    <3>1. \A h \in SeenIn(b, assets) : assets'[h].selected = assets[h].selected
      BY <1>8, SeenBy
    <3>2. SeenIn(b, assets') = SeenIn(b, assets)
      BY <1>9
    <3> QED
      BY <3>1, <3>2 DEF SelectedAssets
  <2>9. s.pc = "chosen" => Disturbed(b)' \/ SelectedAssets(b)' = s.chosen
    BY <2>1, <2>8, <1>15 DEF RunFits
  <2>10. s.pc = "proposed" => Disturbed(b)' \/ s.proposed = s.chosen
    BY <2>1, <1>15 DEF RunFits
  <2> QED
    BY <2>1, <2>3, <2>4, <2>6, <2>7, <2>9, <2>10 DEF RunFits
<1> QED
  BY <1>10, <1>11, <1>17, <1>18

\* A row that is there lists whom it was seen by, and what is marked stays so until a write.
LEMMA LoadsKeep ==
    ASSUME InventoryIInv, NEW a \in Assessments, LoadCandidates(a) PROVE InventoryIInv'
<1> USE DEF InventoryIInv
<1> DEFINE read == [h \in Hosts |-> IF h \in SeenIn(a, assets) /\ assets[h].active
                                   THEN assets[h] ELSE NOROW]
           r == [scoping[a] EXCEPT !.pc = "ranking", !.tagged = tags, !.found = {}, !.read = read]
<1>1. scoping[a] \in RunStates /\ assets \in [Hosts -> AssetRows \cup {NOROW}]
      /\ scoping \in [Assessments -> RunStates] /\ tags \in [Hosts -> Levels \cup {"none"}]
  BY DEF InventoryTypes
<1>2. scoping' = [scoping EXCEPT ![a] = r]
      /\ UNCHANGED <<assets, tags, overrides, rated, dropped, reselected, raced>>
  BY <1>1 DEF LoadCandidates
<1>3. read \in [Hosts -> AssetRows \cup {NOROW}]
  BY <1>1
<1>4. /\ \A h \in Hosts : h \in SeenIn(a, assets) /\ assets[h].active => read[h] = assets[h]
      /\ \A h \in Hosts : ~(h \in SeenIn(a, assets) /\ assets[h].active) => read[h] = NOROW
  OBVIOUS
<1> HIDE DEF read
<1>5. r \in RunStates /\ r.pc = "ranking" /\ r.read = read
  BY <1>1, <1>3 DEF RunStates, RunPoints
<1> HIDE DEF r
<1>6. ASSUME NEW h \in Hosts
      PROVE  /\ Disturbed(a) \/ ReadIsCurrent(a, read, h)
             /\ ListedOnce(read[h])
             /\ read[h] # NOROW =>
                  /\ assets[h] # NOROW
                  /\ ~assets[h].active => Excluded(h)
                  /\ RatingKept(h) => IsRated(read[h], h)
  <2>1. h \in SeenIn(a, assets) => assets[h] # NOROW
    BY SeenBy
  <2>2. CASE h \in SeenIn(a, assets) /\ assets[h].active
    <3>1. read[h] = assets[h] /\ assets[h] # NOROW
      BY <1>4, <2>1, <2>2
    <3>2. ReadIsCurrent(a, read, h)
      BY <3>1, <2>2 DEF ReadIsCurrent
    <3>3. ListedOnce(read[h]) /\ (RatingKept(h) => IsRated(read[h], h))
      BY <3>1 DEF RowsListOnce, RatingsKept
    <3> QED
      BY <3>1, <3>2, <3>3, <2>2
  <2>3. CASE ~(h \in SeenIn(a, assets) /\ assets[h].active)
    <3>1. read[h] = NOROW
      BY <1>4, <2>3
    <3>2. h \in SeenIn(a, assets) /\ assets[h].selected => Excluded(h)
      BY <2>1, <2>3 DEF ExcludedUnselected
    <3>3. Disturbed(a) \/ ReadIsCurrent(a, read, h)
      BY <3>1, <3>2 DEF Disturbed, ReadIsCurrent
    <3> QED
      BY <3>1, <3>3 DEF ListedOnce
  <2> QED
    BY <2>2, <2>3
<1>7. RunFits(a, r)
  BY <1>5, <1>6 DEF RunFits
<1> QED
  BY <1>2, <1>5, <1>6, <1>7, RunMoves

LEMMA InventoryStep == InventoryIInv /\ [InventoryNext]_inventoryVars => InventoryIInv'
<1> SUFFICES ASSUME InventoryIInv, [InventoryNext]_inventoryVars PROVE InventoryIInv'
  OBVIOUS
<1>1. /\ assets \in [Hosts -> AssetRows \cup {NOROW}] /\ scoping \in [Assessments -> RunStates]
      /\ tags \in [Hosts -> Levels \cup {"none"}]
  BY SMTT(40) DEF InventoryIInv, InventoryTypes
<1>2. ASSUME NEW a \in Assessments, NEW found \in (SUBSET Hosts) \ {{}}, LoadByKeys(a, found)
      PROVE  InventoryIInv'
  <2> DEFINE read == [h \in Hosts |-> IF h \in found THEN assets[h] ELSE NOROW]
             r == [Waiting EXCEPT !.pc = "merging", !.found = found, !.read = read]
  <2>1. /\ scoping' = [scoping EXCEPT ![a] = r]
        /\ UNCHANGED <<assets, tags, rated, dropped, raced>> /\ reselected' = reselected
    BY <1>2, SMTT(40) DEF LoadByKeys
  <2>2. r \in RunStates /\ r.pc = "merging" /\ r.read = read
    BY <1>1, WaitingIsRun DEF RunStates, RunPoints
  <2>3. \A h \in Hosts : read[h] = NOROW \/ read[h] = assets[h]
    OBVIOUS
  <2> HIDE DEF r, read
  <2>4. RunFits(a, r)
    BY <2>2, <2>3, SeenBy DEF RunFits, Marked
  <2>5. \A h \in Hosts : ListedOnce(r.read[h])
    BY <2>2, <2>3 DEF InventoryIInv, RowsListOnce, ListedOnce
  <2> QED
    BY <2>1, <2>2, <2>4, <2>5, RunMoves
<1>3. ASSUME NEW a \in Assessments, RequestApproval(a) PROVE InventoryIInv'
  <2> DEFINE r == [scoping[a] EXCEPT !.pc = "proposed", !.proposed = SelectedAssets(a)]
  <2>1. /\ scoping' = [scoping EXCEPT ![a] = r] /\ scoping[a].pc = "chosen"
        /\ UNCHANGED <<assets, tags, rated, dropped, raced>> /\ reselected' = reselected
    BY <1>1, <1>3 DEF RequestApproval
  <2>2. SelectedAssets(a) \subseteq Hosts
    BY DEF SelectedAssets, SeenIn, Known
  <2>3. /\ r \in RunStates /\ r.pc = "proposed" /\ r.proposed = SelectedAssets(a)
        /\ r.read = scoping[a].read /\ r.chosen = scoping[a].chosen
    BY <1>1, <2>2 DEF RunStates, RunPoints
  <2> HIDE DEF r
  <2>4. RunFits(a, scoping[a])
    BY DEF InventoryIInv, RunsFit
  <2>5. RunFits(a, r)
    BY <2>1, <2>3, <2>4 DEF RunFits
  <2>6. \A h \in Hosts : ListedOnce(r.read[h])
    BY <2>3 DEF InventoryIInv, RowsListOnce
  <2> QED
    BY <2>1, <2>3, <2>5, <2>6, RunMoves
<1>4. ASSUME NEW a \in Assessments, EndRun(a) PROVE InventoryIInv'
  <2>1. /\ scoping' = [scoping EXCEPT ![a] = Waiting] /\ reselected' = reselected \ {a}
        /\ UNCHANGED <<assets, tags, rated, dropped, raced>>
    BY <1>4 DEF EndRun
  <2>2. RunFits(a, Waiting) /\ \A h \in Hosts : ListedOnce(Waiting.read[h])
    BY WaitingIsRun DEF RunFits, ListedOnce
  <2> QED
    BY <2>1, <2>2, WaitingIsRun, RunMoves
<1>5. ASSUME NEW h \in Hosts, NEW level \in {"low", "high"}, TagAsset(h, level) PROVE InventoryIInv'
  <2>1. /\ tags' = [tags EXCEPT ![h] = level]
        /\ UNCHANGED <<assets, scoping, rated, dropped, reselected, raced>>
    BY <1>5 DEF TagAsset
  <2>2. tags' \in [Hosts -> Levels \cup {"none"}]
    BY <1>1, <2>1 DEF Levels
  <2>3. InventoryTypes'
    BY <2>1, <2>2 DEF InventoryIInv, InventoryTypes
  <2>4. RowsListOnce' /\ ExcludedUnselected' /\ RatingsKept'
    BY <2>1 DEF InventoryIInv, RowsListOnce, ExcludedUnselected, RatingsKept, Excluded, RatingKept,
       IsRated
  <2>5. ASSUME NEW a \in Assessments PROVE RunFits(a, scoping[a])'
    <3>1. RunFits(a, scoping[a])
      BY DEF InventoryIInv, RunsFit
    <3> QED
      BY <2>1, <3>1 DEF RunFits, Marked, Disturbed, Excluded, ReadIsCurrent, RatingKept, IsRated,
         SelectedAssets
  <2> QED
    BY <2>3, <2>4, <2>5 DEF InventoryIInv, RunsFit
<1>6. ASSUME NEW h \in Hosts, NEW level \in {"low", "high"}, SetCriticality(h, level)
      PROVE  InventoryIInv'
  <2>1. level \in Levels /\ level # "none"
    BY DEF Levels
  <2> QED
    BY <2>1, <1>6, RatingKeeps
<1>7. CASE UNCHANGED inventoryVars
  <2>1. UNCHANGED <<assets, tags, scoping, rated, dropped, reselected, raced>>
    BY <1>7 DEF inventoryVars
  <2>2. InventoryTypes'
    BY <2>1 DEF InventoryIInv, InventoryTypes
  <2>3. RowsListOnce' /\ ExcludedUnselected' /\ RatingsKept'
    BY <2>1 DEF InventoryIInv, RowsListOnce, ExcludedUnselected, RatingsKept, Excluded, RatingKept,
       IsRated
  <2>4. ASSUME NEW a \in Assessments PROVE RunFits(a, scoping[a])'
    <3>1. RunFits(a, scoping[a])
      BY DEF InventoryIInv, RunsFit
    <3> QED
      BY <2>1, <3>1 DEF RunFits, Marked, Disturbed, Excluded, ReadIsCurrent, RatingKept, IsRated,
         SelectedAssets
  <2> QED
    BY <2>2, <2>3, <2>4 DEF InventoryIInv, RunsFit
<1> QED
  BY <1>2, <1>3, <1>4, <1>5, <1>6, <1>7, MergeKeeps, LoadsKeep, RankKeeps, ExcludeKeeps
     DEF InventoryNext

\* Whatever is discovered by a run is ranked by it, the scope that is proposed is the one it
\* chose and a rating stands, unless a write in between took that away: for any number of
\* assessments and hosts.
THEOREM InventoryInvHolds == InventorySpec => []InventoryInv
<1>1. InventoryIInv => InventoryInv
  <2> SUFFICES ASSUME InventoryIInv PROVE InventoryInv
    OBVIOUS
  <2> USE DEF InventoryIInv
  <2>1. InventoryTypeOK
    <3>1. ASSUME NEW h \in Known(assets)
          PROVE  assets[h].level \in Levels /\ assets[h].source \in Sources
                 /\ IsInjective(assets[h].seenIn)
      <4>1. h \in Hosts /\ assets[h] # NOROW /\ assets[h] \in AssetRows
        BY DEF Known, InventoryTypes
      <4> QED
        BY <4>1 DEF RowsListOnce, ListedOnce, AssetRows
    <3>2. \A a \in Assessments : scoping[a].pc \in RunPoints
      BY DEF InventoryTypes, RunStates
    <3> QED
      BY <3>1, <3>2 DEF InventoryTypeOK, RunPoints
  <2>2. DiscoveredIsRanked
    BY DEF DiscoveredIsRanked, RunsFit, RunFits, Marked
  <2>3. ProposedIsChosen
    BY DEF ProposedIsChosen, RunsFit, RunFits, Disturbed, Excluded
  <2>4. RatingStands
    BY DEF RatingStands, RatingsKept, RatingKept, IsRated
  <2> QED
    BY <2>1, <2>2, <2>3, <2>4 DEF InventoryInv
<1> QED
  BY InventoryInitially, InventoryStep, <1>1, PTL DEF InventorySpec

-----------------------------------------------------------------------------
(* The session and the records, of any number of actors of each kind       *)

\* The turns of a conversation are numbered without a gap and its page shows no event twice.
THEOREM SessionInvHolds == ConversationSpec /\ EventsSpec => []SessionInv
  BY ConversationInvHolds, EventsInvHolds, PTL DEF SessionInv

\* The checklist claims what was done, the proposed scope is the chosen one and a ready report
\* is stored, with the exceptions that the conjuncts name.
THEOREM RecordsInvHolds == StepsSpec /\ InventorySpec /\ ReportsSpec => []RecordsInv
  BY StepsInvHolds, InventoryInvHolds, ReportsInvHolds, PTL DEF RecordsInv
=============================================================================
