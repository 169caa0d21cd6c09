----------------------------- MODULE ReconOutput ---------------------------
(***************************************************************************)
(* What one recon node records: the targets the operator named, and what   *)
(* ReconFTW's output files say of them.  agent/nodes/recon.py plans the    *)
(* run and seeds the inventory, scanners/recon_assets.py folds the files   *)
(* into assets as it reads them, and services/asset.py merges both.  The   *)
(* job itself is ScannerJob's, the inventory they land in is Inventory's.  *)
(***************************************************************************)
EXTENDS Naturals, Sequences, SequencesExt, FiniteSets

CONSTANTS
    HostNames,      \* hostnames
    Addresses,      \* IP literals
    Networks,       \* CIDR blocks
    Pages,          \* URLs, with their ports
    MaxAssets,      \* MAX_ASSETS (5000 in the source)
    MaxReconHosts,  \* _MAX_RECON_HOSTS (50 in the source)
    MaxTargets,     \* bound: targets of the assessment
    MaxObserved,    \* bound: lines of the output files
    NULL            \* no value

Keys == HostNames \cup Addresses \cup Networks \cup Pages
Types == {"domain", "subdomain", "host", "url"}

(* One asset as recon saw it; a field it says nothing of is NULL *)
Assets == [name : Keys, type : Types, address : Addresses \cup {NULL},
           service : {"http", "https", NULL}, title : {"title", NULL}]

ASSUME ReconAssumption ==
    /\ MaxAssets \in Nat \ {0, 1} /\ MaxReconHosts \in Nat \ {0} /\ MaxTargets \in Nat
    /\ NULL \notin Keys \cup Types \cup Assets

VARIABLES
    targets,        \* the assessment's targets, in their order
    recon,          \* where the node is, and how far into the files
    merged,         \* parse_recon_output's dictionary
    recorded,       \* what upsert_assets is given
    observed,       \* history: the lines read, as assets
    capped          \* history: reading stopped at the cap

reconVars == <<targets, recon, merged, recorded, observed, capped>>

DiscoveredAsset(name, type, address, service, title) ==
    [name |-> name, type |-> type, address |-> address, service |-> service, title |-> title]

Fields == {"type", "address", "service", "title"}
NoAssets == [k \in Keys |-> NULL]

(* Mutant: the later observation replaces the earlier one *)
MergedIntoLatest(known, seen) == seen

(* DiscoveredAsset.merged_with: the later one wins where it has a value *)
MergedWith(known, seen) ==
    IF known = NULL THEN seen
    ELSE [known EXCEPT !.type = seen.type,
                       !.address = IF seen.address = NULL THEN @ ELSE seen.address,
                       !.service = IF seen.service = NULL THEN @ ELSE seen.service,
                       !.title = IF seen.title = NULL THEN @ ELSE seen.title]

-----------------------------------------------------------------------------
(* The targets; a URL may name a host by its address, a repository neither  *)
NamedTargets ==
    ({"domain"} \X HostNames) \cup ({"url"} \X (HostNames \cup Addresses))
        \cup ({"ip"} \X Addresses) \cup ({"cidr"} \X Networks)
        \cup ({"repository"} \X {NULL})

(* _seed_from_target *)
SeedFromTarget(target) ==
    LET host == target[2] IN
    CASE target[1] = "domain" -> DiscoveredAsset(host, "domain", NULL, NULL, NULL)
      [] target[1] = "url" /\ host \in HostNames ->
             DiscoveredAsset(host, "subdomain", NULL, NULL, NULL)
      [] target[1] = "cidr" -> DiscoveredAsset(host, "host", NULL, NULL, NULL)
      [] OTHER -> DiscoveredAsset(host, "host", host, NULL, NULL)

Seeds ==
    FoldLeft(LAMBDA seeds, target : IF target[1] = "repository" THEN seeds
                                    ELSE Append(seeds, SeedFromTarget(target)),
             << >>, targets)

(* _recon_hosts: the distinct hostnames, up to _MAX_RECON_HOSTS of them *)
ReconHosts ==
    LET named == {i \in DOMAIN targets : targets[i][2] \in HostNames}
        earliest(i) == \A j \in named : j < i => targets[j][2] # targets[i][2]
    IN {targets[i][2] : i \in {i \in named : earliest(i) /\
            Cardinality({j \in named : j < i /\ earliest(j)}) < MaxReconHosts}}

(* _primary_domain: the first target that is a domain *)
PrimaryDomain ==
    LET domains == {i \in DOMAIN targets : targets[i][1] = "domain"} IN
    IF domains = {} THEN NULL ELSE targets[Min(domains)][2]

ReconInit ==
    /\ targets \in UNION {[1..n -> NamedTargets] : n \in 1..MaxTargets}
    /\ recon = [pc |-> "planned", ran |-> FALSE, at |-> 0]
    /\ merged = NoAssets
    /\ recorded = NoAssets
    /\ observed = << >>
    /\ capped = FALSE

(* _plan_recon: the container runs when there is a hostname to look up, and *)
(* without a result the node goes on with the seeds alone                   *)
PlanRecon(ran) ==
    /\ recon.pc = "planned"
    /\ ran => ReconHosts # {}
    /\ recon' = [recon EXCEPT !.pc = IF ran THEN "parsing" ELSE "parsed", !.ran = ran]
    /\ merged' = IF ran /\ PrimaryDomain # NULL
                 THEN [merged EXCEPT ![PrimaryDomain] =
                           DiscoveredAsset(PrimaryDomain, "domain", NULL, NULL, NULL)]
                 ELSE merged
    /\ UNCHANGED <<targets, recorded, observed, capped>>

-----------------------------------------------------------------------------
(* What a line of each file can say *)
ParseHostnames == {DiscoveredAsset(h, "subdomain", NULL, NULL, NULL) : h \in HostNames}

ParseIpPairs ==
    {DiscoveredAsset(h, "subdomain", ip, NULL, NULL) :
        h \in HostNames, ip \in Addresses \cup {NULL}}
    \cup {DiscoveredAsset(ip, "host", ip, NULL, NULL) : ip \in Addresses}

ParseWebUrls == {DiscoveredAsset(u, "url", NULL, scheme, NULL) :
                    u \in Pages, scheme \in {"http", "https"}}

ParseHttpxJsonl ==
    {DiscoveredAsset(u, "url", ip, service, title) : u \in Pages,
        ip \in Addresses \cup {NULL}, service \in {"https", NULL}, title \in {"title", NULL}}

(* _LAYOUT: the files of a directory, in the order in which they are read *)
Layout == <<ParseHostnames, ParseHostnames, ParseIpPairs, ParseHostnames,
            ParseWebUrls, ParseWebUrls, ParseHttpxJsonl>>

FileAt(place) == Layout[(place % Len(Layout)) + 1]

(* parse_recon_output: the next line, in this file or in a later one; it    *)
(* stops as soon as the dictionary has as many assets as the cap allows.    *)
(* The files are read in the root and then in every directory below it.     *)
ParseRecon(file, seen) ==
    /\ recon.pc = "parsing"
    /\ Len(observed) < MaxObserved
    /\ file \in recon.at..2 * Len(Layout) - 1
    /\ seen \in FileAt(file)
    /\ observed' = Append(observed, seen)
    /\ merged' = [merged EXCEPT ![seen.name] = MergedWith(@, seen)]
    /\ LET full == Cardinality({k \in Keys : merged'[k] # NULL}) >= MaxAssets IN
       /\ capped' = full
       /\ recon' = IF full THEN [recon EXCEPT !.pc = "parsed", !.at = 0]
                   ELSE [recon EXCEPT !.at = file]
    /\ UNCHANGED <<targets, recorded>>

FilesEnd ==
    /\ recon.pc = "parsing"
    /\ recon' = [recon EXCEPT !.pc = "parsed", !.at = 0]
    /\ UNCHANGED <<targets, merged, recorded, observed, capped>>

(* _record_inventory: upsert_assets merges the seeds and then what recon    *)
(* found, _merge_duplicates                                                 *)
Seeded == FoldLeft(LAMBDA rows, seed : [rows EXCEPT ![seed.name] = MergedWith(@, seed)],
                   NoAssets, Seeds)

MergeDuplicates ==
    [k \in Keys |-> IF merged[k] = NULL THEN Seeded[k] ELSE MergedWith(Seeded[k], merged[k])]

RecordInventory ==
    /\ recon.pc = "parsed"
    /\ recorded' = MergeDuplicates
    /\ recon' = [recon EXCEPT !.pc = "recorded"]
    /\ UNCHANGED <<targets, merged, observed, capped>>

ReconNext ==
    \/ \E ran \in BOOLEAN : PlanRecon(ran)
    \/ \E file \in 0..2 * Len(Layout) - 1 : \E seen \in FileAt(file) :
          ParseRecon(file, seen)
    \/ FilesEnd
    \/ RecordInventory

ReconSpec == ReconInit /\ [][ReconNext]_reconVars

-----------------------------------------------------------------------------
ReconTypeOK ==
    /\ recon.pc \in {"planned", "parsing", "parsed", "recorded"}
    /\ recon.at < 2 * Len(Layout)
    /\ \A k \in Keys : merged[k] # NULL => merged[k].name = k

(* Every network target the operator named is in the inventory, whether the *)
(* container ran, failed, or filled the cap with something else.            *)
NamedAreRecorded ==
    recon.pc = "recorded" =>
        \A i \in DOMAIN targets : targets[i][1] # "repository" => recorded[targets[i][2]] # NULL

(* What is recorded of an asset is, field by field, the last thing that was *)
(* said of it: among the seeds, the root domain and the lines, however many *)
(* files said something and in however many rounds they were merged.        *)
SaidOf(k, said) == {i \in DOMAIN said : said[i].name = k}

LastSaid(k, field, said) ==
    LET values == {i \in SaidOf(k, said) : said[i][field] # NULL} IN
    IF values = {} THEN NULL ELSE said[Max(values)][field]

Root == IF recon.ran /\ PrimaryDomain # NULL
        THEN <<DiscoveredAsset(PrimaryDomain, "domain", NULL, NULL, NULL)>> ELSE << >>
EverythingSaid == Seeds \o (Root \o observed)

LastSaidIsRecorded ==
    recon.pc = "recorded" =>
        \A k \in Keys :
            /\ recorded[k] = NULL <=> SaidOf(k, EverythingSaid) = {}
            /\ recorded[k] # NULL =>
                 \A field \in Fields : recorded[k][field] = LastSaid(k, field, EverythingSaid)

(* The dictionary never holds more than the cap, and reading stops short of *)
(* the end of the files only at the cap.                                    *)
CapHonoured ==
    LET kept == Cardinality({k \in Keys : merged[k] # NULL}) IN
    kept <= MaxAssets /\ (capped => kept = MaxAssets)

(* agent/nodes/recon.py, scanners/recon_assets.py: what of the targets and   *)
(* of the output files reaches the inventory                                *)
ReconInv == ReconTypeOK /\ NamedAreRecorded /\ LastSaidIsRecorded /\ CapHonoured
=============================================================================
