----------------------------- MODULE Passwords -----------------------------
(***************************************************************************)
(* The password of one account and what guards it: sign-in with its        *)
(* lock-out, reset links and invitations, password changes                 *)
(* (services/auth.py, core/security.py, db/models/identity.py).            *)
(*                                                                         *)
(* A sign-in works on a copy of the row that may be old when it answers,   *)
(* and a failed one counts in a transaction of its own.  A reset holds the *)
(* row of its link from the flush to the commit and revokes the sessions,  *)
(* in Redis, before it.  Time runs in half seconds, see module Sessions.   *)
(***************************************************************************)
EXTENDS Integers, FiniteSets, Sequences

CONSTANTS
    Attempts,       \* requests in flight at a time
    Words,          \* what people type
    ResetTTL,       \* password_reset_ttl, in seconds
    MaxAttempts,    \* login_max_attempts
    LockSeconds,    \* login_lockout_seconds
    MaxLinks,       \* bound: links ever requested
    MaxClock        \* bound: half seconds

ASSUME LockAssumption ==
    /\ {ResetTTL, LockSeconds} \subseteq Nat \ {0}
    /\ {MaxAttempts, MaxLinks, MaxClock} \subseteq Nat
    /\ IsFiniteSet(Attempts)

VARIABLES
    clock,
    account,        \* row of users: [hash, failed, locked]
    links,          \* password_reset_tokens: [issued, used], used counts how often
    try,            \* the requests
    overlapped,     \* history: links that two requests had read unused
    lifted          \* history: a lock was taken away, the count that caused it kept

passwordVars == <<clock, account, links, try, overlapped, lifted>>

NoTry == [pc |-> "idle"]
Threshold == IF MaxAttempts < 1 THEN 1 ELSE MaxAttempts

(* hash_password, verify_password(password, password_hash) *)
HashPassword(password) == <<"argon2", password>>
VerifyPassword(password, password_hash) == password_hash = HashPassword(password)

PasswordsInit ==
    /\ clock = 0
    /\ \E w \in Words : account = [hash |-> HashPassword(w), failed |-> 0, locked |-> 0]
    /\ links = <<>>
    /\ try = [a \in Attempts |-> NoTry]
    /\ overlapped = {}
    /\ lifted = FALSE

Starts(a, request) == try[a] = NoTry /\ try' = [try EXCEPT ![a] = request]
Leaves(a) == try' = [try EXCEPT ![a] = NoTry]

TimePasses == /\ clock < MaxClock
              /\ clock' = clock + 1
              /\ UNCHANGED <<account, links, try, overlapped, lifted>>

(* A request dies, and its transaction with it. *)
RollBack(a) == /\ try[a] # NoTry
               /\ Leaves(a)
               /\ UNCHANGED <<clock, account, links, overlapped, lifted>>

-----------------------------------------------------------------------------
(* POST /auth/login: load the row and look at the lock, then verify *)

(* _lockout_remaining, in whole seconds: int() drops a rest *)
LockoutRemaining ==
    IF account.locked > clock THEN (account.locked - clock) \div 2 ELSE 0

LoginLoad(a, word) ==
    /\ LockoutRemaining = 0
    /\ Starts(a, [pc |-> "verifying", row |-> account, word |-> word])
    /\ UNCHANGED <<clock, account, links, overlapped, lifted>>

(* Mutant of RegisterFailedLogin: only the attempt that reaches the threshold locks *)
RegisterFailedLoginOnce ==
    LET count == account.failed + 1
    IN  account' = [account EXCEPT
            !.failed = count,
            !.locked = IF count = Threshold THEN clock + 2 * LockSeconds ELSE @]

(* _register_failed_login: one UPDATE, committed at once *)
RegisterFailedLogin ==
    LET count == account.failed + 1
    IN  account' = [account EXCEPT
            !.failed = count,
            !.locked = IF count >= Threshold THEN clock + 2 * LockSeconds ELSE @]

(* _clear_failed_logins: the ORM writes the columns that differ from the copy *)
Cleared(row) == [account EXCEPT !.failed = IF row.failed # 0 THEN 0 ELSE @,
                                !.locked = IF row.locked # 0 THEN 0 ELSE @]

(* A copy without failures but with a lock (one that has expired, say)      *)
(* takes away a lock set since, and leaves the failures that set it.        *)
Lifts(row) ==
    /\ Cleared(row).failed >= Threshold
    /\ lifted \/ Cleared(row).locked # account.locked

(* The arguments are in the order of the code. *)
LoginAnswer(a) ==
    /\ try[a].pc = "verifying"
    /\ IF VerifyPassword(try[a].row.hash, try[a].word)
       THEN account' = Cleared(try[a].row) /\ lifted' = Lifts(try[a].row)
       ELSE RegisterFailedLogin /\ UNCHANGED lifted
    /\ Leaves(a)
    /\ UNCHANGED <<clock, links, overlapped>>

-----------------------------------------------------------------------------
(* POST /auth/password/reset-request (_store_single_use_token).  Who gets   *)
(* the link is up to the caller of the service; the routes discard it.      *)
RequestLink ==
    /\ Len(links) < MaxLinks
    /\ links' = Append(links, [issued |-> clock, used |-> 0])
    /\ UNCHANGED <<clock, account, try, overlapped, lifted>>

(* POST /auth/password/reset-confirm: decode_token of the link, and         *)
(* _spend_single_use_token up to its SELECT                                 *)
LinkLoad(a, l, word) ==
    /\ clock < 2 * ((links[l].issued \div 2) + ResetTTL)
    /\ links[l].used = 0
    /\ overlapped' = IF \E b \in Attempts :
                            try[b].pc \in {"spending", "spent", "revoked"} /\ try[b].link = l
                     THEN overlapped \cup {l} ELSE overlapped
    /\ Starts(a, [pc |-> "spending", link |-> l, word |-> word])
    /\ UNCHANGED <<clock, account, links, lifted>>

HoldsLink(a, l) == try[a].pc \in {"spent", "revoked"} /\ try[a].link = l

(* The flush of used_at takes the row's lock: a second one waits here.  The *)
(* account is loaded next, and a password that verifies is refused.         *)
LinkFlush(a) ==
    /\ try[a].pc = "spending"
    /\ ~\E b \in Attempts : HoldsLink(b, try[a].link)
    /\ IF VerifyPassword(account.hash, try[a].word)
       THEN Leaves(a)
       ELSE try' = [try EXCEPT ![a] = [pc |-> "spent", link |-> @.link, word |-> @.word,
                                       row |-> account]]
    /\ UNCHANGED <<clock, account, links, overlapped, lifted>>

(* _revoke_all_sessions: what Sessions!RevokeAllSessions does in Redis *)
LinkRevoke(a) ==
    /\ try[a].pc = "spent"
    /\ try' = [try EXCEPT ![a].pc = "revoked"]
    /\ UNCHANGED <<clock, account, links, overlapped, lifted>>

LinkCommit(a) ==
    /\ try[a].pc = "revoked"
    /\ links' = [links EXCEPT ![try[a].link].used = @ + 1]
    /\ account' = [Cleared(try[a].row) EXCEPT !.hash = HashPassword(try[a].word)]
    /\ lifted' = Lifts(try[a].row)
    /\ Leaves(a)
    /\ UNCHANGED <<clock, overlapped>>

(* POST /auth/password/change: refused unless the current one verifies *)
ChangePassword(current, new) ==
    /\ account' = IF VerifyPassword(account.hash, current) /\ ~VerifyPassword(account.hash, new)
                  THEN [account EXCEPT !.hash = HashPassword(new)]
                  ELSE account
    /\ UNCHANGED <<clock, links, try, overlapped, lifted>>

PasswordsNext ==
    \/ TimePasses
    \/ RequestLink
    \/ \E current, new \in Words : ChangePassword(current, new)
    \/ \E a \in Attempts :
        \/ RollBack(a)
        \/ LoginAnswer(a)
        \/ LinkFlush(a)
        \/ LinkRevoke(a)
        \/ LinkCommit(a)
        \/ \E word \in Words : LoginLoad(a, word)
        \/ \E l \in DOMAIN links, word \in Words : LinkLoad(a, l, word)

PasswordsSpec == PasswordsInit /\ [][PasswordsNext]_passwordVars

-----------------------------------------------------------------------------
Rows == [hash : {HashPassword(w) : w \in Words}, failed : Nat, locked : Nat]
Tries ==
    [pc : {"idle"}]
    \cup [pc : {"verifying"}, row : Rows, word : Words]
    \cup [pc : {"spending"}, link : 1..MaxLinks, word : Words]
    \cup [pc : {"spent", "revoked"}, link : 1..MaxLinks, row : Rows, word : Words]

PasswordsTypeOK ==
    /\ clock \in 0..MaxClock
    /\ account \in Rows
    /\ links \in Seq([issued : 0..MaxClock, used : Nat]) /\ Len(links) <= MaxLinks
    /\ try \in [Attempts -> Tries]
    /\ overlapped \subseteq DOMAIN links
    /\ lifted \in BOOLEAN

(* Guessing is slowed down for good: after the first lock every lock period *)
(* admits the attempts in flight at a time and no more, whatever resets and *)
(* late answers do to the counter (_register_failed_login,                  *)
(* _lockout_remaining), unless a clearing on an old copy lifted a lock.     *)
GuessesBoundedUnlessLifted ==
    LET period == 2 * LockSeconds - 1
    IN  \/ account.failed <= Threshold - 1 + Cardinality(Attempts) * (1 + clock \div period)
        \/ lifted

(* A link changes the password once (_store_single_use_token: "so it can be *)
(* spent exactly once"), unless two requests had both read it unused.       *)
SpentOnceUnlessOverlapped ==
    \A l \in DOMAIN links : links[l].used > 1 => l \in overlapped

(* What guards the account holds against guesses and against used links. *)
PasswordsInv == PasswordsTypeOK /\ GuessesBoundedUnlessLifted /\ SpentOnceUnlessOverlapped

(* A sign-in with the right password is not counted as a failed one         *)
(* (login: "Verify credentials and issue a token pair").                    *)
RightPasswordSignsIn ==
    [][\A a \in Attempts :
         try[a].pc = "verifying" /\ HashPassword(try[a].word) = try[a].row.hash
         => account'.failed <= account.failed]_passwordVars
=============================================================================
