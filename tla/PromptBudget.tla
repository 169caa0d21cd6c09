---------------------------- MODULE PromptBudget ----------------------------
(***************************************************************************)
(* What a model is asked: LLMGateway.complete_json re-asks a rejected      *)
(* answer (llm/gateway.py), and every prompt passes enforce_prompt_budget  *)
(* (llm/budget.py).  A message is its role, its length and a name; lengths *)
(* are in a unit, the joining newline of a truncation is 1.                *)
(***************************************************************************)
EXTENDS Integers, Sequences, SequencesExt

CONSTANTS
    Sizes,          \* lengths of turns, replies and corrections
    SystemSizes,    \* lengths of a system prompt
    MaxTurns,       \* bound: turns of a conversation
    Limit,          \* max_prompt_chars
    Notice,         \* TRUNCATION_NOTICE
    Marker,         \* "[n earlier turn(s) omitted ...]"
    LeastTurn,      \* the 2000 characters a truncated turn may always have
    ReplyKept,      \* the 4000 characters of a rejected reply that are quoted
    MaxAsks         \* max_attempts

ASSUME BudgetAssumption ==
    /\ {Limit, Notice, Marker, LeastTurn, ReplyKept, MaxAsks} \subseteq Nat \ {0}
    /\ Sizes \cup SystemSizes \subseteq Nat \ {0} /\ MaxTurns \in Nat
    /\ 2 * Notice <= LeastTurn      \* some 200 characters, and 2000

VARIABLES
    question,   \* what the caller asks: the messages passed to complete_json
    asked,      \* attempt_messages
    sent,       \* what enforce_prompt_budget made of them
    exchange    \* attempt, and how the call stands

promptVars == <<question, asked, sent, exchange>>

Message(role, size, id) == [role |-> role, size |-> size, id |-> id, cut |-> FALSE]
Larger(a, b) == IF a > b THEN a ELSE b
Smaller(a, b) == IF a < b THEN a ELSE b
Length(ms) == FoldLeft(LAMBDA n, m : n + m.size, 0, ms)

(* truncate_tool_output: a head and a tail around the notice, and a newline *)
Truncated(m, limit) ==
    IF m.size <= limit THEN m
    ELSE [m EXCEPT !.size = Larger(limit - Notice, limit \div 2) + Notice + 1, !.cut = TRUE]

(* Mutant: the walk keeps the oldest turns *)
KeepTurnsOldestFirst(turns, room) ==
    FoldLeft(LAMBDA w, m :
                IF m.size <= w.left
                THEN [kept |-> Append(w.kept, m), left |-> w.left - m.size]
                ELSE IF w.kept = <<>>
                     THEN [kept |-> <<Truncated(m, Larger(w.left, LeastTurn))>>, left |-> 0]
                     ELSE w,
             [kept |-> <<>>, left |-> room], turns).kept

(* The walk of enforce_prompt_budget, newest turn first: a turn that fits is *)
(* kept, the newest is truncated to fit, any other is left out               *)
KeepTurns(turns, room) ==
    FoldRight(LAMBDA m, w :
                IF m.size <= w.left
                THEN [kept |-> <<m>> \o w.kept, left |-> w.left - m.size]
                ELSE IF w.kept = <<>>
                     THEN [kept |-> <<Truncated(m, Larger(w.left, LeastTurn))>>, left |-> 0]
                     ELSE w,
              turns, [kept |-> <<>>, left |-> room]).kept

Roles == {"system", "user", "assistant"}
OfRole(ms, roles) ==
    FoldLeft(LAMBDA kept, m : IF m.role \in roles THEN Append(kept, m) ELSE kept, <<>>, ms)
SystemOf(ms) == OfRole(ms, {"system"})
TurnsOf(ms) == OfRole(ms, Roles \ {"system"})

EnforceBudget(ms) ==
    IF Length(ms) <= Limit THEN ms
    ELSE LET system == SystemOf(ms)
             turns == TurnsOf(ms)
             kept == KeepTurns(turns, Limit - Length(system))
             marker == IF Len(kept) < Len(turns) THEN <<Message("user", Marker, 0)>> ELSE <<>>
         IN  system \o marker \o kept

----------------------------------------------------------------------------
PromptInit ==
    /\ \E s \in SystemSizes, n \in 1..MaxTurns : \E sizes \in [1..n -> Sizes] :
            question = <<Message("system", s, 1)>>
                        \o [i \in 1..n |-> Message("user", sizes[i], i + 1)]
    /\ asked = question
    /\ sent = <<>>
    /\ exchange = [pc |-> "send", attempt |-> 1]

ExchangeMoves(pc) == exchange' = [exchange EXCEPT !.pc = pc]

(* complete: the budget is applied at the single place every call passes *)
Send ==
    /\ exchange.pc = "send"
    /\ sent' = EnforceBudget(asked)
    /\ ExchangeMoves("wait")
    /\ UNCHANGED <<question, asked>>

(* The reply parses and matches the schema *)
Accept ==
    /\ exchange.pc = "wait"
    /\ ExchangeMoves("answered")
    /\ UNCHANGED <<question, asked, sent>>

(* It does not, or was cut off: the question again, the reply and what was  *)
(* wrong with it, until the attempts are used up                            *)
Reject ==
    /\ exchange.pc = "wait"
    /\ exchange.attempt < MaxAsks
    /\ \E reply, error \in Sizes :
            LET next == Len(question) + 1 IN
            asked' = question \o <<Message("assistant", Smaller(reply, ReplyKept), next),
                                   Message("user", error, next + 1)>>
    /\ exchange' = [pc |-> "send", attempt |-> exchange.attempt + 1]
    /\ UNCHANGED <<question, sent>>

(* InvalidModelResponseError, or the provider's own error *)
Fail ==
    /\ exchange.pc = "wait"
    /\ ExchangeMoves("raised")
    /\ UNCHANGED <<question, asked, sent>>

PromptNext == Send \/ Accept \/ Reject \/ Fail

PromptSpec == PromptInit /\ [][PromptNext]_promptVars

----------------------------------------------------------------------------
Messages == [role : Roles, size : Nat \ {0}, id : Nat, cut : BOOLEAN]

PromptTypeOK ==
    /\ {question, asked, sent} \subseteq Seq(Messages)
    /\ exchange \in [pc : {"send", "wait", "answered", "raised"}, attempt : 1..MaxAsks]

Sending == exchange.pc # "send"

(* The system prompt is never touched and the newest turn always goes, if   *)
(* need be truncated; what is kept is in the order of the conversation      *)
GuardrailsSurvive ==
    Sending =>
        /\ SystemOf(sent) = SystemOf(asked)
        /\ sent[Len(sent)].id = asked[Len(asked)].id
        /\ \A i, j \in DOMAIN sent : i < j => sent[i].id <= sent[j].id \/ sent[i].role = "system"
        /\ \A i \in 1..(Len(sent) - 1) : ~sent[i].cut

(* How far a prompt can exceed its budget: by the marker and one newline,   *)
(* as long as the system prompt leaves the newest turn its least room       *)
OverrunIsBounded ==
    Sending => Length(sent) <=
        Larger(Limit, Length(SystemOf(asked)) + LeastTurn) + Marker + 1

(* llm/gateway.py, llm/budget.py: what every prompt of an exchange keeps.    *)
PromptInv == PromptTypeOK /\ GuardrailsSurvive /\ OverrunIsBounded
=============================================================================
