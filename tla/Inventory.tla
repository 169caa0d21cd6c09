----------------------------- MODULE Inventory -----------------------------
(***************************************************************************)
(* The asset inventory of an organization: services/asset.py, as the recon,*)
(* discover_assets and request_approval nodes and api/v1/assets.py use it. *)
(* The rows belong to the organization: the runs of several assessments    *)
(* merge into them, rank them and flag them for scanning, each in a        *)
(* transaction that reads first and writes the columns it changed at its   *)
(* commit, while operators tag, rate and exclude them.                     *)
(***************************************************************************)
EXTENDS Naturals, Sequences, SequencesExt

CONSTANTS
    Assessments,    \* assessments whose runs are under way
    Hosts,          \* asset keys 1..n, in the order of their names
    Budget,         \* scope_budget of every assessment
    MaxOverrides,   \* bound: operators' actions
    NOROW           \* no row of the inventory

Levels == {"unknown", "low", "normal", "high"}
Sources == {"default", "operator_tag", "inferred_exposure"}
AssetRows == [active : BOOLEAN, level : Levels, source : Sources, selected : BOOLEAN,
              seenIn : Seq(Assessments)]

ASSUME InventoryAssumption == Hosts \subseteq Nat /\ Budget \in Nat /\ NOROW \notin AssetRows

Weight == [unknown |-> 0, low |-> 1, normal |-> 2, high |-> 3]

VARIABLES
    assets,         \* the inventory's committed rows
    tags,           \* the criticality tag of each asset, or "none"
    scoping,        \* the runs
    overrides,      \* bound: operators' actions so far
    rated,          \* history: the level set_criticality gave last, or "none"
    dropped,        \* history: <<a, h>> whose mark a later write overwrote, until
                    \* a merge of a leaves it marked
    reselected,     \* history: runs whose flags others wrote after they chose
    raced           \* history: what operators did to an asset as a run ranked it

inventoryVars == <<assets, tags, scoping, overrides, rated, dropped, reselected, raced>>

Waiting == [pc |-> "recon", found |-> {}, read |-> [h \in Hosts |-> NOROW],
            tagged |-> [h \in Hosts |-> "none"], chosen |-> {}, proposed |-> {}]

InventoryInit ==
    /\ assets = [h \in Hosts |-> NOROW]
    /\ tags = [h \in Hosts |-> "none"]
    /\ scoping = [a \in Assessments |-> Waiting]
    /\ overrides = 0
    /\ rated = [h \in Hosts |-> "none"]
    /\ dropped = {}
    /\ reselected = {}
    /\ raced = {}

Known(rows) == {h \in Hosts : rows[h] # NOROW}
SeenIn(a, rows) == {h \in Known(rows) : a \in ToSet(rows[h].seenIn)}
Others(a, pcs) == {b \in Assessments \ {a} : scoping[b].pc \in pcs}

-----------------------------------------------------------------------------
(* upsert_assets: _load_by_keys reads the rows of the discovered keys ... *)
LoadByKeys(a, found) ==
    /\ scoping[a].pc = "recon"
    /\ scoping' = [scoping EXCEPT ![a] = [Waiting EXCEPT !.pc = "merging", !.found = found,
                     !.read = [h \in Hosts |-> IF h \in found THEN assets[h] ELSE NOROW]]]
    /\ UNCHANGED <<assets, tags, overrides, rated, dropped, reselected, raced>>

(* ... _apply_record folds a discovery in: its status is "active", and the  *)
(* assessment goes to the end of seen_in_assessments as it was read, where  *)
(* each is listed once                                                      *)
ApplyRecord(a, h) ==
    LET before == scoping[a].read[h]
        history == IF before = NOROW THEN << >> ELSE before.seenIn
        longer == Append(RemoveFirst(history, a), a)
    IN
    IF before = NOROW
    THEN [active |-> TRUE, level |-> "unknown", source |-> "default",
          selected |-> FALSE, seenIn |-> longer]
    ELSE [assets[h] EXCEPT !.active = IF before.active THEN @ ELSE TRUE,
                           !.seenIn = IF longer = history THEN @ ELSE longer]

(* A row another run inserted meanwhile violates unique_asset; nothing      *)
(* catches the IntegrityError, which fails the node.                        *)
UpsertAssets(a) ==
    LET found == scoping[a].found IN
    /\ scoping[a].pc = "merging"
    /\ IF \E h \in found : scoping[a].read[h] = NOROW /\ assets[h] # NOROW
       THEN /\ scoping' = [scoping EXCEPT ![a] = [Waiting EXCEPT !.pc = "failed"]]
            /\ UNCHANGED <<assets, dropped>>
       ELSE /\ assets' = [h \in Hosts |-> IF h \in found THEN ApplyRecord(a, h) ELSE assets[h]]
            /\ dropped' = (dropped \ ({a} \X SeenIn(a, assets'))) \cup
                 {mark \in Assessments \X found :
                     mark[2] \in SeenIn(mark[1], assets) \ SeenIn(mark[1], assets')}
            /\ scoping' = [scoping EXCEPT ![a].pc = "scope", ![a].read = Waiting.read]
    /\ UNCHANGED <<tags, overrides, rated, reselected, raced>>

(* score_and_select reads what this assessment has seen, unless excluded ... *)
LoadCandidates(a) ==
    /\ scoping[a].pc = "scope"
    /\ scoping' = [scoping EXCEPT ![a].pc = "ranking", ![a].tagged = tags, ![a].found = {},
                     ![a].read = [h \in Hosts |->
                        IF h \in SeenIn(a, assets) /\ assets[h].active THEN assets[h] ELSE NOROW]]
    /\ UNCHANGED <<assets, tags, overrides, rated, dropped, reselected, raced>>

(* Mutant: every ranking infers the level afresh *)
InferAfresh(row, tag) ==
    IF tag # "none" THEN <<tag, "operator_tag">> ELSE <<"normal", "inferred_exposure">>

(* infer_criticality: a curated level stays, then the tag, then exposure    *)
InferCriticality(row, tag) ==
    IF row.source = "operator_tag" THEN <<row.level, "operator_tag">>
    ELSE IF tag # "none" THEN <<tag, "operator_tag">>
    ELSE <<"normal", "inferred_exposure">>

(* ... and flags the best of them, by level and then by name *)
TopRanked(rows, inferred) ==
    LET better(h, g) == \/ Weight[inferred[g][1]] < Weight[inferred[h][1]]
                        \/ inferred[g][1] = inferred[h][1] /\ h < g
    IN {h \in Known(rows) : Len(SelectSeq(SetToSeq(Known(rows)), LAMBDA g : better(g, h))) < Budget}

ScoreAndSelect(a) ==
    LET read == scoping[a].read
        inferred == [h \in Hosts |-> IF read[h] = NOROW THEN <<"unknown", "default">>
                                     ELSE InferCriticality(read[h], scoping[a].tagged[h])]
        top == TopRanked(read, inferred)
        wrote(h, field, value) == IF read[h][field] = value THEN assets[h][field] ELSE value
    IN
    /\ scoping[a].pc = "ranking"
    /\ assets' = [h \in Hosts |->
         IF read[h] = NOROW THEN assets[h]
         ELSE [assets[h] EXCEPT !.level = wrote(h, "level", inferred[h][1]),
                                !.source = wrote(h, "source", inferred[h][2]),
                                !.selected = wrote(h, "selected", h \in top)]]
    /\ reselected' = reselected \cup
         {b \in Others(a, {"ranking", "chosen"}) :
             \E h \in SeenIn(b, assets) : assets'[h].selected # assets[h].selected}
    /\ scoping' = [scoping EXCEPT ![a] = [Waiting EXCEPT !.pc = "chosen", !.chosen = top]]
    /\ UNCHANGED <<tags, overrides, rated, dropped, raced>>

(* request_approval: the payload is what selected_assets returns now *)
SelectedAssets(a) == {h \in SeenIn(a, assets) : assets[h].selected}

RequestApproval(a) ==
    /\ scoping[a].pc = "chosen"
    /\ scoping' = [scoping EXCEPT ![a].pc = "proposed", ![a].proposed = SelectedAssets(a)]
    /\ UNCHANGED <<assets, tags, overrides, rated, dropped, reselected, raced>>

(* The run ends, or its worker dies: the assessment may run again, and what *)
(* its rows lost stays lost until it finds them again                       *)
EndRun(a) ==
    /\ scoping[a].pc # "recon"
    /\ scoping' = [scoping EXCEPT ![a] = Waiting]
    /\ reselected' = reselected \ {a}
    /\ UNCHANGED <<assets, tags, overrides, rated, dropped, raced>>

-----------------------------------------------------------------------------
(* The operators *)
Operates(h) ==
    /\ assets[h] # NOROW
    /\ overrides < MaxOverrides
    /\ overrides' = overrides + 1

BeingRanked(h) == \E a \in Assessments : scoping[a].pc = "ranking" /\ scoping[a].read[h] # NOROW

TagAsset(h, level) ==
    /\ Operates(h)
    /\ tags' = [tags EXCEPT ![h] = level]
    /\ UNCHANGED <<assets, scoping, rated, dropped, reselected, raced>>

SetCriticality(h, level) ==
    /\ Operates(h)
    /\ assets' = [assets EXCEPT ![h].level = level, ![h].source = "operator_tag"]
    /\ rated' = [rated EXCEPT ![h] = level]
    /\ raced' = IF BeingRanked(h) THEN raced \cup {<<"rated", h>>} ELSE raced \ {<<"rated", h>>}
    /\ UNCHANGED <<tags, scoping, dropped, reselected>>

MarkOutOfScope(h) ==
    /\ Operates(h)
    /\ assets[h].active
    /\ assets' = [assets EXCEPT ![h].active = FALSE, ![h].selected = FALSE]
    /\ reselected' = reselected \cup
         {b \in Assessments : scoping[b].pc \in {"ranking", "chosen"}}
    /\ raced' = IF BeingRanked(h) THEN raced \cup {<<"excluded", h>>} ELSE raced
    /\ UNCHANGED <<tags, scoping, rated, dropped>>

InventoryNext ==
    \/ \E a \in Assessments :
          \/ \E found \in (SUBSET Hosts) \ {{}} : LoadByKeys(a, found)
          \/ UpsertAssets(a)
          \/ LoadCandidates(a)
          \/ ScoreAndSelect(a)
          \/ RequestApproval(a)
          \/ EndRun(a)
    \/ \E h \in Hosts :
          \/ \E level \in {"low", "high"} : TagAsset(h, level) \/ SetCriticality(h, level)
          \/ MarkOutOfScope(h)

InventorySpec == InventoryInit /\ [][InventoryNext]_inventoryVars

-----------------------------------------------------------------------------
InventoryTypeOK ==
    /\ \A h \in Known(assets) :
         /\ assets[h].level \in Levels
         /\ assets[h].source \in Sources
         /\ IsInjective(assets[h].seenIn)
    /\ \A a \in Assessments :
         scoping[a].pc \in {"recon", "merging", "failed", "scope", "ranking", "chosen", "proposed"}

(* What a run discovered is ranked by that run, though the rows belong to   *)
(* the organization and another assessment may have found them first; only  *)
(* a merge of another run that had read the row before can take it away.    *)
DiscoveredIsRanked ==
    \A a \in Assessments :
        scoping[a].pc = "scope" => \A h \in scoping[a].found :
            h \in SeenIn(a, assets) \/ <<a, h>> \in dropped

(* The scope put before the operator is the scope the run chose, and within *)
(* its budget, unless another run or an operator changed the flags since,   *)
(* a mark was lost, or an asset was excluded while a run was ranking it.    *)
ProposedIsChosen ==
    \A a \in Assessments :
        scoping[a].pc = "proposed" =>
            \/ scoping[a].proposed = scoping[a].chosen
            \/ a \in reselected
            \/ \E h \in Hosts : <<a, h>> \in dropped \/ <<"excluded", h>> \in raced

(* Once an operator has rated an asset no run rates it otherwise, however   *)
(* many rank it, unless one was ranking it at that moment.                  *)
RatingStands ==
    \A h \in Hosts : rated[h] # "none" /\ <<"rated", h>> \notin raced => assets[h].level = rated[h]

(* services/asset.py: what merges, rankings and overrides of one inventory   *)
(* by several runs leave each of them.                                      *)
InventoryInv == InventoryTypeOK /\ DiscoveredIsRanked /\ ProposedIsChosen /\ RatingStands
=============================================================================
