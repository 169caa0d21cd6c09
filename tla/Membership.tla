----------------------------- MODULE Membership -----------------------------
(***************************************************************************)
(* Organizations and who belongs to them: services/organization.py, the    *)
(* routes of api/v1/organization.py, registration, and the authority of a  *)
(* request (services/auth.py, api/deps.py, db/models/identity.py).         *)
(*                                                                         *)
(* A request reads its caller's role first, then what its checks need, and *)
(* commits last.  PostgreSQL runs it at READ COMMITTED: what others commit *)
(* between those three is not seen again, except by unique indexes.        *)
(***************************************************************************)
EXTENDS Integers, FiniteSets

CONSTANTS
    Users,          \* people, by address
    Names,          \* what organizations are called
    Founders,       \* the people who register
    Roles,          \* the roles in use, of the five
    Callers,        \* requests in flight at a time
    MaxOrgs         \* bound: organizations ever registered

Rank(role) ==
    CASE role = "viewer" -> 0
      [] role = "developer" -> 1
      [] role = "security_engineer" -> 2
      [] role = "admin" -> 3
      [] role = "owner" -> 4

(* PERMISSIONS: who holds MEMBER_MANAGE *)
MemberManagers == {"admin", "owner"}

ASSUME RolesAssumption ==
    /\ {"admin", "owner"} \subseteq Roles
    /\ Roles \subseteq {"viewer", "developer", "security_engineer", "admin", "owner"}
    /\ Founders \subseteq Users
    /\ MaxOrgs \in Nat

VARIABLES
    users,          \* rows of users
    slugs,          \* rows of organizations, by their slug
    members,        \* rows of memberships: <<slug, user>> -> [role, is_default]
    request,
    ownersMade,     \* history: organizations in which an owner made an owner
    racedOrgs       \* history: organizations two changes of which overlapped

tables == <<users, slugs, members>>
memberVars == <<tables, request, ownersMade, racedOrgs>>

NoRequest == [pc |-> "idle"]
Owners(o) == {u \in Users : <<o, u>> \in DOMAIN members /\ members[<<o, u>>].role = "owner"}
Memberships(u) == {o \in slugs : <<o, u>> \in DOMAIN members}

With(key, row) == [k \in DOMAIN members \cup {key} |-> IF k = key THEN row ELSE members[k]]
Without(key) == [k \in DOMAIN members \ {key} |-> members[k]]

MembershipInit ==
    /\ users = {}
    /\ slugs = {}
    /\ members = <<>>
    /\ request = [r \in Callers |-> NoRequest]
    /\ ownersMade = {}
    /\ racedOrgs = {}

Fails(r) == /\ request' = [request EXCEPT ![r] = NoRequest]
            /\ UNCHANGED <<tables, ownersMade, racedOrgs>>

-----------------------------------------------------------------------------
(* POST /auth/register: register and create_organization *)

(* allocate_slug: the name itself or the first free number behind it *)
AllocateSlug(name) ==
    LET free == {n \in 1..MaxOrgs + 1 : <<name, n>> \notin slugs}
    IN  <<name, CHOOSE n \in free : \A m \in free : n <= m>>

RegisterLoad(r, u, name) ==
    /\ request[r] = NoRequest
    /\ Cardinality(slugs) < MaxOrgs
    /\ u \notin users
    /\ request' = [request EXCEPT ![r] =
                     [pc |-> "registering", caller |-> u, slug |-> AllocateSlug(name)]]
    /\ UNCHANGED <<tables, ownersMade, racedOrgs>>

(* The unique indexes on email and slug decide between two registrations. *)
RegisterCommit(r) ==
    /\ request[r].pc = "registering"
    /\ LET u == request[r].caller
           o == request[r].slug
       IN  IF u \in users \/ o \in slugs
           THEN Fails(r)
           ELSE /\ users' = users \cup {u}
                /\ slugs' = slugs \cup {o}
                /\ members' = With(<<o, u>>, [role |-> "owner", is_default |-> Memberships(u) = {}])
                /\ request' = [request EXCEPT ![r] = NoRequest]
                /\ UNCHANGED <<ownersMade, racedOrgs>>

-----------------------------------------------------------------------------
(* The authority of a request: resolve_principal and _active_membership.    *)
(* The organization of the token counts if the caller is still a member,    *)
(* otherwise the default one, otherwise any (the oldest).                   *)
ActiveMemberships(u, claim) ==
    LET flagged == {o \in Memberships(u) : members[<<o, u>>].is_default}
    IN  IF claim \in Memberships(u) THEN {claim}
        ELSE IF flagged # {} THEN flagged
        ELSE Memberships(u)

(* Everybody may call a route of this module, only managers get past        *)
(* principal.require(MEMBER_MANAGE).                                        *)
ResolvePrincipal(r, u, claim) ==
    /\ request[r] = NoRequest
    /\ \E o \in ActiveMemberships(u, claim) :
        LET role == members[<<o, u>>].role IN
        /\ role \in MemberManagers
        /\ request' = [request EXCEPT ![r] =
                         [pc |-> "resolved", caller |-> u, org |-> o, role |-> role]]
    /\ UNCHANGED <<tables, ownersMade, racedOrgs>>

(* Mutant of CanGrant: whoever manages members grants any role *)
CanGrantAny(r, role) == TRUE

(* _assert_can_grant *)
CanGrant(r, role) == Rank(role) <= Rank(request[r].role)

(* _get_membership, scoped to the organization of the principal *)
Target(r, u) == <<request[r].org, u>>

(* the owner check of change_member_role and remove_member *)
LastOwner(key) ==
    members[key].role = "owner" /\ Cardinality(Owners(key[1])) <= 1

Checked(r, op, u, role) ==
    [pc |-> "checked", op |-> op, caller |-> request[r].caller, org |-> request[r].org,
     user |-> u, role |-> role, by |-> request[r].role, known |-> u \in users,
     is_default |-> Memberships(u) = {}]

(* the requests that are about to take somebody's role away *)
Changing(o) == {q \in Callers : /\ request[q].pc = "checked"
                                /\ request[q].op # "invite"
                                /\ request[q].org = o}

Passes(r, op, u, role) ==
    /\ request' = [request EXCEPT ![r] = Checked(r, op, u, role)]
    /\ racedOrgs' = IF op # "invite" /\ Changing(request[r].org) # {}
                    THEN racedOrgs \cup {request[r].org} ELSE racedOrgs
    /\ UNCHANGED <<tables, ownersMade>>

OwnerMade(q) == ownersMade' = IF q.by = "owner" /\ q.role = "owner"
                              THEN ownersMade \cup {q.org} ELSE ownersMade

-----------------------------------------------------------------------------
(* invite_member: somebody new gets an account nobody can sign in to *)

InviteCheck(r, u, role) ==
    /\ request[r].pc = "resolved"
    /\ IF CanGrant(r, role) /\ Target(r, u) \notin DOMAIN members
       THEN Passes(r, "invite", u, role)
       ELSE Fails(r)

(* The unique indexes on email and on (organization, user) decide. *)
InviteCommit(r) ==
    LET q == request[r] IN
    /\ q.pc = "checked" /\ q.op = "invite"
    /\ IF <<q.org, q.user>> \in DOMAIN members \/ (~q.known /\ q.user \in users)
       THEN Fails(r)
       ELSE /\ users' = users \cup {q.user}
            /\ members' = With(<<q.org, q.user>>, [role |-> q.role, is_default |-> q.is_default])
            /\ request' = [request EXCEPT ![r] = NoRequest]
            /\ OwnerMade(q)
            /\ UNCHANGED <<slugs, racedOrgs>>

(* change_member_role: not above the caller, not the caller's own, not the  *)
(* last owner's                                                             *)
RoleCheck(r, u, role) ==
    /\ request[r].pc = "resolved"
    /\ LET key == Target(r, u) IN
       IF /\ CanGrant(r, role)
          /\ key \in DOMAIN members
          /\ u # request[r].caller
          /\ members[key].role # role
          /\ ~LastOwner(key)
       THEN Passes(r, "role", u, role)
       ELSE Fails(r)

RoleCommit(r) ==
    LET q == request[r] IN
    /\ q.pc = "checked" /\ q.op = "role"
    /\ IF <<q.org, q.user>> \notin DOMAIN members          \* StaleDataError
       THEN Fails(r)
       ELSE /\ members' = [members EXCEPT ![<<q.org, q.user>>].role = q.role]
            /\ request' = [request EXCEPT ![r] = NoRequest]
            /\ OwnerMade(q)
            /\ UNCHANGED <<users, slugs, racedOrgs>>

(* remove_member: anybody, oneself included, but not the last owner *)
RemoveCheck(r, u) ==
    /\ request[r].pc = "resolved"
    /\ LET key == Target(r, u) IN
       IF key \in DOMAIN members /\ ~LastOwner(key)
       THEN Passes(r, "remove", u, "owner")
       ELSE Fails(r)

RemoveCommit(r) ==
    LET q == request[r] IN
    /\ q.pc = "checked" /\ q.op = "remove"
    /\ members' = Without(<<q.org, q.user>>)
    /\ request' = [request EXCEPT ![r] = NoRequest]
    /\ UNCHANGED <<users, slugs, ownersMade, racedOrgs>>

MembershipNext ==
    \E r \in Callers :
        \/ RegisterCommit(r)
        \/ InviteCommit(r)
        \/ RoleCommit(r)
        \/ RemoveCommit(r)
        \/ \E u \in Founders, name \in Names : RegisterLoad(r, u, name)
        \/ \E u \in Users, claim \in slugs : ResolvePrincipal(r, u, claim)
        \/ \E u \in Users, role \in Roles : InviteCheck(r, u, role) \/ RoleCheck(r, u, role)
        \/ \E u \in Users : RemoveCheck(r, u)

MembershipSpec == MembershipInit /\ [][MembershipNext]_memberVars

-----------------------------------------------------------------------------
Slugs == Names \X (1..MaxOrgs + 1)
MembershipTypeOK ==
    /\ users \subseteq Users
    /\ slugs \subseteq Slugs
    /\ DOMAIN members \subseteq slugs \X users
    /\ \A key \in DOMAIN members : members[key] \in [role : Roles, is_default : BOOLEAN]
    /\ \A r \in Callers : request[r].pc \in {"idle", "registering", "resolved", "checked"}
    /\ ownersMade \subseteq slugs /\ racedOrgs \subseteq slugs

(* An organization keeps an owner (module docstring of organization.py),    *)
(* unless two changes of its members had both passed their checks before    *)
(* either was committed.                                                    *)
OwnerRemainsUnlessRaced ==
    \A o \in slugs : Owners(o) # {} \/ o \in racedOrgs

(* A second owner is made by an owner, whatever the admins of an            *)
(* organization and the people they invite do for each other                *)
(* (_assert_can_grant, change_member_role).                                 *)
OwnersComeFromOwners ==
    \A o \in slugs \ ownersMade : Cardinality(Owners(o)) <= 1

(* Organizations keep their owners, and owners are made by owners. *)
MembershipInv == MembershipTypeOK /\ OwnerRemainsUnlessRaced /\ OwnersComeFromOwners
=============================================================================
