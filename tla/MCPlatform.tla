------------------------------ MODULE MCPlatform ----------------------------
(* What requests change besides findings: the status of an assessment, the *)
(* sessions and the password of an account, the members of organizations,  *)
(* an integration; and the circuit breaker its calls go through.  No       *)
(* variable is shared; a run moves one of them, the focus, and leaves the  *)
(* others at rest.                                                         *)
EXTENDS AssessmentLifecycle, Sessions, Passwords, Membership, IntegrationConfig,
        ProviderCalls, TLC

CONSTANTS driver, guest, first, second, one, other, w1, w2

(* Requests come in interchangeable twos, and so do addresses and founders; *)
(* of the words, w1 is the one an account starts with                       *)
MCDrivers == {driver}
MCActors == {first, second}
MCValues == {one, other}
MCUsers == MCValues \cup {guest}
MCWords == {w1, w2}
Symmetry == Permutations(MCActors) \cup Permutations(MCValues)

VARIABLE focus

MCInit ==
    /\ focus \in {"assessment", "sessions", "passwords", "members", "integration", "calls"}
    /\ Init
    /\ SessionsInit
    /\ PasswordsInit /\ (focus = "passwords" \/ account.hash = HashPassword(w1))
    /\ MembershipInit
    /\ ConfigInit
    /\ ProviderCallsInit

MCNext ==
    /\ UNCHANGED focus
    /\ \/ /\ focus = "assessment" /\ Next
          /\ UNCHANGED <<sessionVars, passwordVars, memberVars, configVars, callVars>>
       \/ /\ focus = "sessions" /\ SessionsNext
          /\ UNCHANGED <<vars, passwordVars, memberVars, configVars, callVars>>
       \/ /\ focus = "passwords" /\ PasswordsNext
          /\ UNCHANGED <<vars, sessionVars, memberVars, configVars, callVars>>
       \/ /\ focus = "members" /\ MembershipNext
          /\ UNCHANGED <<vars, sessionVars, passwordVars, configVars, callVars>>
       \/ /\ focus = "integration" /\ ConfigNext
          /\ UNCHANGED <<vars, sessionVars, passwordVars, memberVars, callVars>>
       \/ /\ focus = "calls" /\ ProviderCallsNext
          /\ UNCHANGED <<vars, sessionVars, passwordVars, memberVars, configVars>>

MCSpec ==
    MCInit /\ [][MCNext]_<<focus, vars, sessionVars, passwordVars, memberVars, configVars, callVars>>
=============================================================================
