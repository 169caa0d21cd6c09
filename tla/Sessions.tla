------------------------------ MODULE Sessions ------------------------------
(***************************************************************************)
(* The tokens of one account: services/auth.py, core/security.py, the deny *)
(* list of core/redis_client.py and the routes of api/v1/auth.py.          *)
(*                                                                         *)
(* Tokens are stateless.  What ends them early is in Redis: an entry per   *)
(* token, and a cutoff per user that a password change sets (module        *)
(* Passwords has its steps).  A request is a sequence of calls to Redis    *)
(* and PostgreSQL, and every call is an action.                            *)
(*                                                                         *)
(* Time runs in half seconds: a token's times are whole seconds            *)
(* (int(timestamp())), the clock that judges them is not.                  *)
(***************************************************************************)
EXTENDS Integers, Sequences

CONSTANTS
    Clients,        \* requests in flight at a time
    AccessTTL,      \* access_token_ttl, in seconds
    RefreshTTL,     \* refresh_token_ttl
    MaxPairs,       \* bound: token pairs ever issued
    MaxTime,        \* bound: half seconds
    ResetTimes      \* bound: when the password may be changed

ASSUME TTLAssumption ==
    /\ {AccessTTL, RefreshTTL} \subseteq Nat \ {0}
    /\ AccessTTL <= RefreshTTL
    /\ MaxPairs \in Nat \ {0} /\ MaxTime \in Nat

VARIABLES
    now,            \* half seconds since the account was registered
    pairs,          \* tokens handed out: pair p was issued in second pairs[p]
    denied,         \* cynux:revoked:jti:*, token -> time its entry expires
    cutoff,         \* cynux:revoked:user:*, [at, expires]
    call,           \* the requests
    exchanged,      \* history: how often a pair's refresh token was exchanged
    retired,        \* history: tokens that were put on the deny list
    raced           \* history: pairs an exchange of which was late or overlapped

redis == <<denied, cutoff>>
history == <<exchanged, retired, raced>>
sessionVars == <<now, pairs, redis, call, history>>

Second(t) == t \div 2
Idle == [pc |-> "idle"]

-----------------------------------------------------------------------------
(* Tokens: create_token, decode_token, TokenDenyList *)

Types == {"access", "refresh"}
Tokens == (DOMAIN pairs) \X Types
TTL(typ) == IF typ = "access" THEN AccessTTL ELSE RefreshTTL
Iat(t) == pairs[t[1]]
Exp(t) == Iat(t) + TTL(t[2])

(* decode_token: the signature is the token itself; typ and exp are left *)
Decodes(t, typ) == t \in Tokens /\ t[2] = typ /\ now < 2 * Exp(t)

(* is_revoked *)
IsRevoked(t) ==
    \/ t \in DOMAIN denied
    \/ cutoff.expires > now /\ Iat(t) < cutoff.at

(* authenticate_token: no operation disables an account *)
Authenticates(t, typ) == Decodes(t, typ) /\ ~IsRevoked(t)

(* _revoke and revoke_token: an entry for the whole seconds a token has left *)
Revoke(ts) ==
    LET left(t) == (2 * Exp(t) - now) \div 2
        denies == {t \in ts : left(t) > 0}
    IN  /\ denied' = [t \in DOMAIN denied \cup denies |->
                         IF t \in denies THEN now + 2 * left(t) ELSE denied[t]]
        /\ retired' = retired \cup ts

(* _issue_pair *)
IssuePair == /\ Len(pairs) < MaxPairs
             /\ pairs' = Append(pairs, Second(now))

-----------------------------------------------------------------------------
SessionsInit ==
    /\ now = 0
    /\ pairs = <<0>>                        \* register returns the first pair
    /\ denied = <<>>
    /\ cutoff = [at |-> 0, expires |-> 0]
    /\ call = [c \in Clients |-> Idle]
    /\ exchanged = [p \in 1..MaxPairs |-> 0]
    /\ retired = {}
    /\ raced = {}

Begins(c, request) == call[c] = Idle /\ call' = [call EXCEPT ![c] = request]
Ends(c) == call' = [call EXCEPT ![c] = Idle]

(* Redis drops the entries that expire. *)
Tick == /\ now < MaxTime
        /\ now' = now + 1
        /\ denied' = [t \in {u \in DOMAIN denied : denied[u] > now'} |-> denied[t]]
        /\ UNCHANGED <<pairs, cutoff, call, history>>

(* A request dies: the client goes away, the process stops, a call raises.  *)
(* What it did in Redis stays, and nobody gets its tokens.                  *)
Abort(c) == /\ call[c] # Idle
            /\ Ends(c)
            /\ UNCHANGED <<now, pairs, redis, history>>

(* POST /auth/refresh: authenticate, _revoke, _issue_pair and commit *)

RefreshCheck(c, p) ==
    /\ Authenticates(<<p, "refresh">>, "refresh")
    /\ Begins(c, [pc |-> "authenticated", pair |-> p])
    /\ raced' = IF \/ <<p, "refresh">> \in retired
                   \/ \E d \in Clients : call[d] = [pc |-> "authenticated", pair |-> p]
                THEN raced \cup {p} ELSE raced
    /\ UNCHANGED <<now, pairs, redis, exchanged, retired>>

RefreshRevoke(c) ==
    /\ call[c].pc = "authenticated"
    /\ Revoke({<<call[c].pair, "refresh">>})
    /\ call' = [call EXCEPT ![c].pc = "rotating"]
    /\ UNCHANGED <<now, pairs, cutoff, exchanged, raced>>

RefreshCommit(c) ==
    /\ call[c].pc = "rotating"
    /\ IssuePair
    /\ exchanged' = [exchanged EXCEPT ![call[c].pair] = @ + 1]
    /\ Ends(c)
    /\ UNCHANGED <<now, redis, retired, raced>>

(* POST /auth/switch-organization: another pair, nothing is retired *)
SwitchOrganization(p) ==
    /\ Authenticates(<<p, "access">>, "access")
    /\ IssuePair
    /\ UNCHANGED <<now, redis, call, history>>

(* POST /auth/logout: the access token, and the refresh token sent with it  *)
(* if it still decodes                                                      *)
Logout(p, ts) ==
    /\ Authenticates(<<p, "access">>, "access")
    /\ Revoke({<<p, "access">>} \cup {t \in ts : Decodes(t, "refresh")})
    /\ UNCHANGED <<now, pairs, cutoff, call, exchanged, raced>>

(* Mutant of RevokeAllSessions: the marker lives as long as an access token *)
RevokeAllSessionsBriefly ==
    /\ now \in ResetTimes
    /\ cutoff' = [at |-> Second(now), expires |-> now + 2 * AccessTTL]
    /\ UNCHANGED <<now, pairs, denied, call, history>>

(* _revoke_all_sessions: a new password ends what was issued before it *)
RevokeAllSessions ==
    /\ now \in ResetTimes
    /\ cutoff' = [at |-> Second(now), expires |-> now + 2 * RefreshTTL]
    /\ UNCHANGED <<now, pairs, denied, call, history>>

SessionsNext ==
    \/ Tick
    \/ RevokeAllSessions
    \/ \E p \in DOMAIN pairs : SwitchOrganization(p)
    \/ \E p \in DOMAIN pairs : \E ts \in {{}, {<<p, "refresh">>}} : Logout(p, ts)
    \/ \E c \in Clients :
        \/ Abort(c)
        \/ RefreshRevoke(c)
        \/ RefreshCommit(c)
        \/ \E p \in DOMAIN pairs : RefreshCheck(c, p)

SessionsSpec == SessionsInit /\ [][SessionsNext]_sessionVars

-----------------------------------------------------------------------------
Calls ==
    [pc : {"idle"}]
    \cup [pc : {"authenticated", "rotating"}, pair : 1..MaxPairs]

SessionsTypeOK ==
    /\ now \in 0..MaxTime
    /\ pairs \in Seq(0..MaxTime) /\ Len(pairs) <= MaxPairs
    /\ DOMAIN denied \subseteq Tokens /\ \A t \in DOMAIN denied : denied[t] \in Nat
    /\ cutoff \in [at : Nat, expires : Nat]
    /\ call \in [Clients -> Calls]
    /\ exchanged \in [1..MaxPairs -> Nat]
    /\ retired \subseteq Tokens /\ raced \subseteq DOMAIN pairs

(* A token that was signed out or rotated stays unusable (_revoke: "for     *)
(* exactly as long as it would otherwise remain valid"), up to its last     *)
(* half second: the entry lives for whole seconds, the token does not.      *)
RevokedIsDead ==
    \A t \in retired : Authenticates(t, t[2]) => 2 * Exp(t) - now <= 1

(* A refresh token is exchanged once (refresh: "usable exactly once"),      *)
(* unless two exchanges had both passed the deny list before either was on  *)
(* it, or the second came in that last half second.                         *)
ExchangedOnceUnlessRaced ==
    \A p \in DOMAIN pairs : exchanged[p] > 1 => p \in raced

(* No token issued before the second of a password reset is accepted after  *)
(* it, however long the token lives: the marker outlives them all           *)
(* (_revoke_all_sessions).                                                  *)
CutoffHolds ==
    \A t \in Tokens : Iat(t) < cutoff.at => ~Authenticates(t, t[2])

(* What was ended early stays ended. *)
SessionsInv == SessionsTypeOK /\ RevokedIsDead /\ ExchangedOnceUnlessRaced /\ CutoffHolds
=============================================================================
