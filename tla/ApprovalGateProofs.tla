------------------------- MODULE ApprovalGateProofs -------------------------
(***************************************************************************)
(* For any assets, scanners, operators and bounds: a decision is made      *)
(* once, consent only narrows, there is one question at a time, and no     *)
(* scanner starts outside what a granted row authorizes.                   *)
(***************************************************************************)
EXTENDS ApprovalGate, FiniteSetTheorems, TLAPS

\* asset_ids[:_MAX_ASSETS] keeps assets of the selection, and at least one of a
\* non-empty one.
LEMMA CappedNarrows ==
    ASSUME NEW S, NEW kept \in Capped(S)
    PROVE  kept \subseteq S /\ (S # {} => kept # {})
<1>1. CASE Cardinality(S) <= MaxAssets
  BY <1>1 DEF Capped
<1>2. CASE ~(Cardinality(S) <= MaxAssets)
  <2>1. kept \subseteq S /\ Cardinality(kept) = MaxAssets
    BY <1>2 DEF Capped
  <2>2. kept # {}
    BY <2>1, FS_EmptySet, GateConstants
  <2> QED
    BY <2>1, <2>2
<1> QED
  BY <1>1, <1>2

\* _narrow_payload never adds to the proposal.
LEMMA NarrowNarrows ==
    ASSUME NEW requested \in Scopes, NEW decision \in GrantingDecisions,
           NEW assets \in (SUBSET Assets) \cup {Unspecified},
           NEW scanners \in (SUBSET Scanners) \cup {Unspecified}
    PROVE  LET n == Narrow(requested, decision, assets, scanners)
           IN  n \in Scopes /\ n.assets \subseteq requested.assets
                            /\ n.scanners \subseteq requested.scanners
  BY DEF Narrow, Scopes

-----------------------------------------------------------------------------
(* The inductive invariant                                                 *)

\* A resolve request between its checks and its UPDATE is about a row that
\* exists, and if it grants, it grants part of the row's proposal.
RequestsNarrow ==
    \A o \in Operators : request[o] # NoRequest =>
        /\ request[o].row \in DOMAIN rows
        /\ request[o].decision # "pending"
        /\ request[o].decision \in GrantingDecisions =>
              /\ request[o].approved.assets \subseteq rows[request[o].row].requested.assets
              /\ request[o].approved.scanners \subseteq rows[request[o].row].requested.scanners
              /\ request[o].approved.assets # {}
              /\ request[o].approved.scanners # {}

\* A granted row authorizes scanner s on asset a.
Consented(a, s) ==
    \E i \in DOMAIN rows :
        Granted(i) /\ a \in rows[i].approved.assets /\ s \in rows[i].approved.scanners

\* What execute_scanners still plans to run is authorized.
PlanConsented == \A a \in plan.assets, s \in plan.scanners : Consented(a, s)

\* A granting request is submitted.
Grants(o) ==
    \E i \in DOMAIN rows, decision \in GrantingDecisions,
       assets \in (SUBSET Assets) \cup {Unspecified},
       scanners \in (SUBSET Scanners) \cup {Unspecified} :
          SubmitGrant(o, i, decision, assets, scanners)

\* The steps that leave rows and requests alone.
DriverOnly ==
    \/ Pause \/ NoScan \/ ScanDone \/ Resume \/ Crash
    \/ \E i \in 1 .. MaxRows : AuthorizeAndPlan(i) \/ Lapse(i)
    \/ \E s \in Scanners : RunScanner(s)
    \/ \E a \in Assets : Deny(a)
    \/ UNCHANGED vars

\* Every step, sorted by what it does to rows and requests.
LEMMA StepCases ==
    ASSUME [Next]_vars
    PROVE  \/ OpenApproval
           \/ \E o \in Operators :
                 \/ \E i \in 1 .. MaxRows : SubmitReject(o, i)
                 \/ Grants(o) \/ Resolve(o) \/ ResolveConflict(o)
           \/ DriverOnly
  BY DEF Next, Operator, Driver, DriverOnly, Grants, ResolveExpired

\* ... and the last of them indeed leaves rows and requests alone.
LEMMA DriverLeavesRows ==
    ASSUME DriverOnly
    PROVE  UNCHANGED <<rows, request>>
  BY DEF DriverOnly, Pause, NoScan, ScanDone, Resume, Crash, AuthorizeAndPlan, Lapse,
         RunScanner, Deny, vars

-----------------------------------------------------------------------------
(* Types                                                                   *)

\* Rows, requests, the plan and what was started are of their kinds.
THEOREM TypeCorrect == Spec => []TypeOK
<1>1. Init => TypeOK
  BY GateConstants DEF Init, TypeOK, Points, Nothing, Scopes, Approvals
<1>2. TypeOK /\ [Next]_vars => TypeOK'
  <2> SUFFICES ASSUME TypeOK, [Next]_vars PROVE TypeOK'
    OBVIOUS
  <2> USE GateConstants
  <2>1. CASE OpenApproval
    <3>1. NewApproval \in Approvals
      BY DEF NewApproval, Approvals, Scopes, Nothing, Decisions
    <3>2. rows' \in Seq(Approvals) /\ Len(rows') <= MaxRows
      <4>1. rows \in Seq(Approvals) /\ Len(rows) \in Nat /\ Len(rows) <= MaxRows
        BY DEF TypeOK
      <4>2. CASE rows' = rows
        BY <4>1, <4>2
      <4>3. CASE Len(rows) < MaxRows /\ rows' = Append(rows, NewApproval)
        BY <3>1, <4>1, <4>3, MaxRows \in Nat
      <4> QED
        BY <2>1, <4>2, <4>3 DEF OpenApproval
    <3> QED
      BY <2>1, <3>2 DEF OpenApproval, TypeOK, Points
  <2>2. ASSUME NEW o \in Operators, NEW i \in 1 .. MaxRows, SubmitReject(o, i)
        PROVE  TypeOK'
    BY <2>2 DEF SubmitReject, TypeOK, Requests, Scopes, Nothing
  <2>3. ASSUME NEW o \in Operators, Grants(o) PROVE TypeOK'
    <3>1. PICK i \in DOMAIN rows, decision \in GrantingDecisions,
               assets \in (SUBSET Assets) \cup {Unspecified},
               scanners \in (SUBSET Scanners) \cup {Unspecified} :
                  SubmitGrant(o, i, decision, assets, scanners)
      BY <2>3 DEF Grants
    <3> DEFINE n == Narrow(rows[i].requested, decision, assets, scanners)
    <3>7. rows[i] \in Approvals /\ i \in 1 .. MaxRows
      BY DEF TypeOK
    <3>2. rows[i].requested \in Scopes /\ i \in 1 .. MaxRows
      BY <3>7 DEF Approvals
    <3>3. n \in Scopes
      BY <3>2, NarrowNarrows
    <3> HIDE DEF n
    <3>4. PICK kept \in Capped(n.assets) :
             request' = [request EXCEPT ![o] =
                           [row |-> i, decision |-> decision,
                            approved |-> [assets |-> kept, scanners |-> n.scanners]]]
      BY <3>1 DEF SubmitGrant, n
    <3>5. kept \subseteq n.assets
      BY <3>4, CappedNarrows
    <3>6. [row |-> i, decision |-> decision,
           approved |-> [assets |-> kept, scanners |-> n.scanners]] \in Requests
      BY <3>2, <3>3, <3>5 DEF Requests, Scopes
    <3> QED
      BY <3>1, <3>4, <3>6 DEF SubmitGrant, TypeOK
  <2>4. ASSUME NEW o \in Operators, Resolve(o) PROVE TypeOK'
    <3>1. request[o] \in Requests /\ request[o].row \in DOMAIN rows
      BY <2>4 DEF Resolve, TypeOK, Pending
    <3>2. request[o].decision \in Decisions /\ request[o].approved \in Scopes
      BY <3>1 DEF Requests, Decisions, GrantingDecisions
    <3>3. Answer(rows[request[o].row], request[o]) \in Approvals
      <4>1. rows[request[o].row] \in Approvals
        BY <3>1 DEF TypeOK
      <4> QED
        BY <4>1, <3>2 DEF Approvals, Answer
    <3>5. rows' \in Seq(Approvals) /\ Len(rows') = Len(rows)
      BY <2>4, <3>1, <3>3 DEF Resolve, TypeOK
    <3>4. answered' \in Seq(1 .. MaxRows)
      BY <2>4, <3>1 DEF Resolve, TypeOK, Requests
    <3> QED
      BY <2>4, <3>5, <3>4 DEF Resolve, TypeOK
  <2>5. ASSUME NEW o \in Operators, ResolveConflict(o) PROVE TypeOK'
    BY <2>5 DEF ResolveConflict, TypeOK
  <2>6. CASE DriverOnly
    <3>1. CASE Pause \/ NoScan \/ Resume \/ (\E i \in 1 .. MaxRows : Lapse(i))
                     \/ (\E a \in Assets : Deny(a)) \/ UNCHANGED vars
      BY <3>1 DEF Pause, NoScan, Resume, Lapse, Deny, vars, TypeOK, Points
    <3>2. CASE ScanDone \/ Crash
      <4>1. Nothing \in Scopes
        BY DEF Nothing, Scopes
      <4>2. CASE ScanDone
        BY <4>1, <4>2 DEF ScanDone, TypeOK, Points
      <4>3. CASE Crash
        <5>1. node' \in Points /\ crashes' \in Nat
          BY <4>3 DEF Crash, TypeOK, Points
        <5> QED
          BY <4>1, <4>3, <5>1 DEF Crash, TypeOK
      <4> QED
        BY <3>2, <4>2, <4>3
    <3>3. ASSUME NEW i \in 1 .. MaxRows, AuthorizeAndPlan(i) PROVE TypeOK'
      <4>3. rows[i] \in Approvals
        BY <3>3 DEF AuthorizeAndPlan, TypeOK
      <4>1. ResolveScope(i) \in Scopes
        BY <4>3 DEF ResolveScope, Approvals, Scopes
      <4>2. Nothing \in Scopes
        BY DEF Nothing, Scopes
      <4> QED
        BY <3>3, <4>1, <4>2 DEF AuthorizeAndPlan, TypeOK, Points
    <3>4. ASSUME NEW s \in Scanners, RunScanner(s) PROVE TypeOK'
      BY <3>4 DEF RunScanner, TypeOK, Scopes
    <3> QED
      BY <2>6, <3>1, <3>2, <3>3, <3>4 DEF DriverOnly
  <2> QED
    BY <2>1, <2>2, <2>3, <2>4, <2>5, <2>6, StepCases
<1> QED
  BY <1>1, <1>2, PTL DEF Spec

-----------------------------------------------------------------------------
(* What a step does to the rows                                            *)

\* A row is never removed, its proposal never changes, and an answered one does
\* not change at all.
RowsKept ==
    \A i \in DOMAIN rows :
        /\ i \in DOMAIN rows'
        /\ rows'[i].requested = rows[i].requested
        /\ rows[i].decision # "pending" => rows'[i] = rows[i]

LEMMA StepKeepsRows ==
    ASSUME TypeOK, [Next]_vars
    PROVE  RowsKept
<1> USE GateConstants
<1>1. CASE OpenApproval
  <2>1. CASE rows' = rows
    BY <2>1 DEF RowsKept
  <2>2. CASE rows' = Append(rows, NewApproval)
    BY <2>2 DEF RowsKept, TypeOK
  <2> QED
    BY <1>1, <2>1, <2>2 DEF OpenApproval
<1>2. ASSUME NEW o \in Operators, Resolve(o) PROVE RowsKept
  <2>1. request[o].row \in DOMAIN rows /\ rows[request[o].row].decision = "pending"
    BY <1>2 DEF Resolve, Pending
  <2>2. /\ DOMAIN rows' = DOMAIN rows
        /\ rows'[request[o].row] = Answer(rows[request[o].row], request[o])
        /\ \A i \in DOMAIN rows : i # request[o].row => rows'[i] = rows[i]
    BY <1>2, <2>1 DEF Resolve, TypeOK
  <2> QED
    BY <2>1, <2>2 DEF RowsKept, Answer
<1>3. CASE UNCHANGED rows
  BY <1>3 DEF RowsKept
<1>4. ASSUME NEW o \in Operators,
             (\E i \in 1 .. MaxRows : SubmitReject(o, i)) \/ Grants(o) \/ ResolveConflict(o)
      PROVE  UNCHANGED rows
  BY <1>4 DEF SubmitReject, Grants, SubmitGrant, ResolveConflict
<1> QED
  BY <1>1, <1>2, <1>3, <1>4, StepCases, DriverLeavesRows

\* AnsweredOnce: the UPDATE is conditional on the row still being pending, so
\* the loser of a race between operators changes nothing.
THEOREM AnsweredOnceHolds == Spec => AnsweredOnce
<1>1. TypeOK /\ [Next]_vars =>
        [\A i \in DOMAIN rows : rows[i].decision # "pending" => rows'[i] = rows[i]]_vars
  BY StepKeepsRows DEF RowsKept
<1> QED
  BY <1>1, TypeCorrect, PTL DEF Spec, AnsweredOnce

\* OnePending: a row is inserted only when none is pending, and no row becomes
\* pending again.
THEOREM OnePendingHolds == Spec => []OnePending
<1>1. Init => OnePending
  BY DEF Init, OnePending, Pending
<1>2. TypeOK /\ OnePending /\ [Next]_vars => OnePending'
  <2> SUFFICES ASSUME TypeOK, OnePending, [Next]_vars PROVE OnePending'
    OBVIOUS
  <2> USE GateConstants
  <2>1. CASE OpenApproval
    <3>1. CASE rows' = rows
      BY <3>1 DEF OnePending, Pending
    <3>2. CASE Pending = {} /\ rows' = Append(rows, NewApproval)
      <4>1. \A i \in DOMAIN rows' : i \in DOMAIN rows \/ i = Len(rows) + 1
        BY <3>2 DEF TypeOK
      <4>2. \A i \in DOMAIN rows : rows'[i] = rows[i]
        BY <3>2 DEF TypeOK
      <4>3. \A i \in Pending' : i = Len(rows) + 1
        BY <3>2, <4>1, <4>2 DEF Pending
      <4> QED
        BY <4>3 DEF OnePending
    <3> QED
      BY <2>1, <3>1, <3>2 DEF OpenApproval
  <2>2. ASSUME NEW o \in Operators, Resolve(o) PROVE OnePending'
    <3>1. DOMAIN rows' = DOMAIN rows /\ request[o] \in Requests
      BY <2>2 DEF Resolve, TypeOK
    <3>2. request[o].decision # "pending"
      BY <3>1 DEF Requests, GrantingDecisions
    <3>3. request[o].row \in DOMAIN rows
      BY <2>2 DEF Resolve, Pending
    <3>4. /\ rows'[request[o].row] = Answer(rows[request[o].row], request[o])
          /\ \A i \in DOMAIN rows : i # request[o].row => rows'[i] = rows[i]
      BY <2>2, <3>3 DEF Resolve, TypeOK
    <3>5. Pending' \subseteq Pending
      BY <3>1, <3>2, <3>4 DEF Pending, Answer
    <3> QED
      BY <3>5 DEF OnePending
  <2>3. CASE UNCHANGED rows
    BY <2>3 DEF OnePending, Pending
  <2>4. ASSUME NEW o \in Operators,
               (\E i \in 1 .. MaxRows : SubmitReject(o, i)) \/ Grants(o) \/ ResolveConflict(o)
        PROVE  UNCHANGED rows
    BY <2>4 DEF SubmitReject, Grants, SubmitGrant, ResolveConflict
  <2> QED
    BY <2>1, <2>2, <2>3, <2>4, StepCases, DriverLeavesRows
<1> QED
  BY <1>1, <1>2, TypeCorrect, PTL DEF Spec

-----------------------------------------------------------------------------
(* Consent                                                                 *)

\* A request that was about to grant part of a proposal still is: the proposal
\* does not change under it.
LEMMA RequestsNarrowStep ==
    ASSUME TypeOK, RequestsNarrow, [Next]_vars
    PROVE  RequestsNarrow'
<1>1. RowsKept
  BY StepKeepsRows
<1>2. CASE UNCHANGED request
  BY <1>1, <1>2 DEF RequestsNarrow, RowsKept
<1>3. ASSUME NEW o \in Operators, request' = [request EXCEPT ![o] = NoRequest]
      PROVE  RequestsNarrow'
  BY <1>1, <1>3, SMTT(40) DEF RequestsNarrow, RowsKept, TypeOK
<1>4. ASSUME NEW o \in Operators, NEW i \in 1 .. MaxRows, SubmitReject(o, i)
      PROVE  RequestsNarrow'
  <2>1. /\ request'[o].row = i
        /\ request'[o].decision = "rejected"
        /\ \A q \in Operators : q # o => request'[q] = request[q]
    BY <1>4 DEF SubmitReject, TypeOK
  <2>2. i \in DOMAIN rows' /\ UNCHANGED rows
    BY <1>4 DEF SubmitReject, Pending
  <2> QED
    BY <2>1, <2>2 DEF RequestsNarrow, GrantingDecisions
<1>5. ASSUME NEW o \in Operators, Grants(o) PROVE RequestsNarrow'
  <2>1. PICK i \in DOMAIN rows, decision \in GrantingDecisions,
             assets \in (SUBSET Assets) \cup {Unspecified},
             scanners \in (SUBSET Scanners) \cup {Unspecified} :
                SubmitGrant(o, i, decision, assets, scanners)
    BY <1>5 DEF Grants
  <2> DEFINE n == Narrow(rows[i].requested, decision, assets, scanners)
  <2>2. rows[i].requested \in Scopes
    <3>1. rows[i] \in Approvals
      BY DEF TypeOK
    <3> QED
      BY <3>1 DEF Approvals
  <2>3. n.assets \subseteq rows[i].requested.assets
        /\ n.scanners \subseteq rows[i].requested.scanners
    BY <2>2, NarrowNarrows
  <2>4. n.assets # {} /\ n.scanners # {} /\ UNCHANGED rows
    BY <2>1 DEF SubmitGrant
  <2>5. PICK kept \in Capped(n.assets) :
           request' = [request EXCEPT ![o] =
                         [row |-> i, decision |-> decision,
                          approved |-> [assets |-> kept, scanners |-> n.scanners]]]
    BY <2>1 DEF SubmitGrant
  <2> HIDE DEF n
  <2>6. kept \subseteq n.assets /\ kept # {}
    BY <2>4, CappedNarrows
  <2>7. /\ request'[o].row = i
        /\ request'[o].decision = decision
        /\ request'[o].approved.assets = kept
        /\ request'[o].approved.scanners = n.scanners
        /\ \A q \in Operators : q # o => request'[q] = request[q]
    BY <2>5 DEF TypeOK
  <2> QED
    BY <2>3, <2>4, <2>6, <2>7 DEF RequestsNarrow, GrantingDecisions
<1>6. ASSUME NEW o \in Operators, Resolve(o) \/ ResolveConflict(o)
      PROVE  request' = [request EXCEPT ![o] = NoRequest]
  BY <1>6 DEF Resolve, ResolveConflict
<1>7. OpenApproval => UNCHANGED request
  BY DEF OpenApproval
<1> QED
  BY <1>2, <1>3, <1>4, <1>5, <1>6, <1>7, StepCases, DriverLeavesRows

\* ConsentNarrows: what is granted was proposed.  The invariant has to speak of
\* the open requests too, because the payload is computed before the UPDATE.
THEOREM ConsentNarrowsHolds == Spec => []ConsentNarrows
<1>1. Init => RequestsNarrow /\ ConsentNarrows
  BY DEF Init, RequestsNarrow, ConsentNarrows
<1>2. TypeOK /\ RequestsNarrow /\ ConsentNarrows /\ [Next]_vars
        => RequestsNarrow' /\ ConsentNarrows'
  <2> SUFFICES ASSUME TypeOK, RequestsNarrow, ConsentNarrows, [Next]_vars
               PROVE  ConsentNarrows'
    BY RequestsNarrowStep
  <2> USE GateConstants
  <2>1. CASE OpenApproval
    <3>1. CASE rows' = rows
      BY <3>1 DEF ConsentNarrows, Granted
    <3>2. CASE rows' = Append(rows, NewApproval)
      <4>1. \A i \in DOMAIN rows' : \/ i \in DOMAIN rows /\ rows'[i] = rows[i]
                                    \/ rows'[i].decision = "pending"
        BY <3>2 DEF TypeOK, NewApproval
      <4> QED
        BY <4>1 DEF ConsentNarrows, Granted, GrantingDecisions
    <3> QED
      BY <2>1, <3>1, <3>2 DEF OpenApproval
  <2>2. ASSUME NEW o \in Operators, Resolve(o) PROVE ConsentNarrows'
    <3>1. request[o] # NoRequest /\ request[o].row \in DOMAIN rows
      BY <2>2 DEF Resolve, Pending
    <3>2. /\ DOMAIN rows' = DOMAIN rows
          /\ rows'[request[o].row] = Answer(rows[request[o].row], request[o])
          /\ \A i \in DOMAIN rows : i # request[o].row => rows'[i] = rows[i]
      BY <2>2, <3>1 DEF Resolve, TypeOK
    <3> QED
      BY <3>1, <3>2 DEF ConsentNarrows, RequestsNarrow, Granted, Answer
  <2>3. CASE UNCHANGED rows
    BY <2>3 DEF ConsentNarrows, Granted
  <2>4. ASSUME NEW o \in Operators,
               (\E i \in 1 .. MaxRows : SubmitReject(o, i)) \/ Grants(o) \/ ResolveConflict(o)
        PROVE  UNCHANGED rows
    BY <2>4 DEF SubmitReject, Grants, SubmitGrant, ResolveConflict
  <2> QED
    BY <2>1, <2>2, <2>3, <2>4, StepCases, DriverLeavesRows
<1> QED
  BY <1>1, <1>2, TypeCorrect, PTL DEF Spec

\* Consent once given is never taken back.
LEMMA ConsentKept ==
    ASSUME TypeOK, [Next]_vars, NEW a, NEW s, Consented(a, s)
    PROVE  Consented(a, s)'
<1>1. RowsKept
  BY StepKeepsRows
<1>2. PICK i \in DOMAIN rows :
         Granted(i) /\ a \in rows[i].approved.assets /\ s \in rows[i].approved.scanners
  BY DEF Consented
<1>3. i \in DOMAIN rows' /\ rows'[i] = rows[i]
  BY <1>1, <1>2 DEF RowsKept, Granted, GrantingDecisions
<1> QED
  BY <1>2, <1>3 DEF Consented, Granted

\* ScanWithinConsent: a scanner is started on a target only if a granted row
\* says so.  The plan lies between the read of the grant and the start of the
\* scanner, so the invariant carries the consent of the plan as well.
THEOREM ScanWithinConsentHolds == Spec => []ScanWithinConsent
<1> DEFINE Started == \A p \in started : Consented(p[1], p[2])
<1>1. Init => PlanConsented /\ Started
  BY DEF Init, PlanConsented, Nothing
<1>2. TypeOK /\ PlanConsented /\ Started /\ [Next]_vars => PlanConsented' /\ Started'
  <2> SUFFICES ASSUME TypeOK, PlanConsented, Started, [Next]_vars
               PROVE  PlanConsented' /\ Started'
    OBVIOUS
  <2>1. \A a, s : Consented(a, s) => Consented(a, s)'
    BY ConsentKept
  <2>2. CASE UNCHANGED <<plan, started>>
    BY <2>1, <2>2 DEF PlanConsented
  <2>3. CASE plan' = Nothing /\ UNCHANGED started
    BY <2>1, <2>3 DEF PlanConsented, Nothing
  <2>4. ASSUME NEW i \in 1 .. MaxRows, AuthorizeAndPlan(i) PROVE PlanConsented' /\ Started'
    <3>1. i \in DOMAIN rows /\ Granted(i) /\ UNCHANGED <<rows, started>>
      BY <2>4 DEF AuthorizeAndPlan, GrantedApproval
    <3>2. CASE plan' = Nothing
      BY <2>3, <3>1, <3>2
    <3>3. CASE plan' = ResolveScope(i)
      <4>1. /\ plan'.assets \subseteq rows[i].approved.assets
            /\ plan'.scanners \subseteq rows[i].approved.scanners
        BY <3>3 DEF ResolveScope
      <4>2. \A a \in plan'.assets, s \in plan'.scanners : Consented(a, s)
        BY <3>1, <4>1 DEF Consented
      <4> QED
        BY <2>1, <3>1, <4>2 DEF PlanConsented
    <3> QED
      BY <2>4, <3>2, <3>3 DEF AuthorizeAndPlan
  <2>5. ASSUME NEW s \in Scanners, RunScanner(s) PROVE PlanConsented' /\ Started'
    <3>1. plan'.assets = plan.assets /\ plan'.scanners = plan.scanners \ {s}
      BY <2>5 DEF RunScanner
    <3>2. \A p \in plan.assets \X {s} : Consented(p[1], p[2])
      BY <2>5 DEF RunScanner, PlanConsented
    <3>3. \A p \in started' : Consented(p[1], p[2])
      BY <2>5, <3>2 DEF RunScanner
    <3>4. PlanConsented'
      BY <2>1, <3>1 DEF PlanConsented
    <3> QED
      BY <2>1, <3>3, <3>4
  <2>6. \/ UNCHANGED <<plan, started>>
        \/ plan' = Nothing /\ UNCHANGED started
        \/ \E i \in 1 .. MaxRows : AuthorizeAndPlan(i)
        \/ \E s \in Scanners : RunScanner(s)
    BY StepCases DEF OpenApproval, SubmitReject, Grants, SubmitGrant, Resolve,
         ResolveConflict, DriverOnly, Pause, NoScan, ScanDone, Resume, Crash, Lapse, Deny, vars
  <2> QED
    BY <2>2, <2>3, <2>4, <2>5, <2>6
<1>3. Started => ScanWithinConsent
  BY DEF Consented, ScanWithinConsent
<1> QED
  BY <1>1, <1>2, <1>3, TypeCorrect, PTL DEF Spec
=============================================================================
