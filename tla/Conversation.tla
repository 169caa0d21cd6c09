---------------------------- MODULE Conversation ---------------------------
(***************************************************************************)
(* The transcript of one conversation: POST /agent/messages in             *)
(* api/v1/agent.py over the agent_sessions and agent_messages tables.  A   *)
(* request reads the conversation, then the next number, inserts its turn, *)
(* and writes the number of messages back from what it read first; the     *)
(* transactions are READ COMMITTED and unique_message_seq tells the        *)
(* inserts apart.  EventStream carries what the broadcast at the end sends.*)
(***************************************************************************)
EXTENDS Naturals, Sequences, SequencesExt, FiniteSetsExt

CONSTANTS
    Posters,        \* requests under way at the same time
    MaxSeqRetries,  \* _MAX_SEQ_RETRIES (3 in the source)
    MaxMessages     \* bound: turns of the transcript when a request begins

ASSUME ConversationAssumption == MaxSeqRetries \in Nat \ {0} /\ MaxMessages \in Nat

VARIABLES
    opened,         \* the conversation's row exists
    messageCount,   \* its message_count
    transcript,     \* committed turns in commit order: their numbers
    posting,        \* the requests
    overtaken,      \* history: turns of others committed during each request
    overlapped      \* history: a count was written back that others had moved

conversationVars == <<opened, messageCount, transcript, posting, overtaken, overlapped>>

NoPost == [pc |-> "idle", created |-> FALSE, loaded |-> 0, seq |-> 0, tries |-> 0, behind |-> 0]

(* POST /assessments opens an empty conversation; else the first post does  *)
ConversationInit ==
    /\ opened \in BOOLEAN
    /\ messageCount = 0
    /\ transcript = << >>
    /\ posting = [p \in Posters |-> NoPost]
    /\ overtaken = [p \in Posters |-> 0]
    /\ overlapped = FALSE

Numbers == ToSet(transcript)

-----------------------------------------------------------------------------
(* _resolve_conversation: the row as it is now, or a new one that nobody    *)
(* else can name before this request commits                                *)
ResolveConversation(p) ==
    /\ posting[p].pc \in {"idle", "again"}
    /\ opened \/ \A q \in Posters \ {p} : posting[q].pc = "idle"
    /\ Len(transcript) < MaxMessages
    /\ posting' = [posting EXCEPT ![p] = [@ EXCEPT !.pc = "resolved", !.created = ~opened,
                                                   !.loaded = messageCount, !.behind = 0]]
    /\ overtaken' = [overtaken EXCEPT ![p] = IF posting[p].pc = "idle" THEN 0 ELSE @]
    /\ UNCHANGED <<opened, messageCount, transcript, overlapped>>

(* _next_message_seq: one above the highest of the committed turns *)
NextNumber(p) == IF Numbers = {} THEN 0 ELSE Max(Numbers) + 1

NextMessageSeq(p) ==
    /\ posting[p].pc = "resolved"
    /\ posting' = [posting EXCEPT ![p].pc = "numbered", ![p].seq = NextNumber(p)]
    /\ UNCHANGED <<opened, messageCount, transcript, overtaken, overlapped>>

(* Mutant: nothing tells two turns of one number apart *)
FlushUnconstrained(p) ==
    /\ posting[p].pc = "numbered"
    /\ posting' = [posting EXCEPT ![p].pc = "flushed"]
    /\ UNCHANGED <<opened, messageCount, transcript, overtaken, overlapped>>

(* The insert waits for a transaction that holds the same number, and fails *)
(* when that number was committed: rolled back, and tried again             *)
Flush(p) ==
    LET refused == posting[p].seq \in Numbers
        spent == posting[p].tries + 1 = MaxSeqRetries
    IN
    /\ posting[p].pc = "numbered"
    /\ \A q \in Posters \ {p} : ~(posting[q].pc = "flushed" /\ posting[q].seq = posting[p].seq)
    /\ posting' = [posting EXCEPT ![p] =
         IF ~refused THEN [@ EXCEPT !.pc = "flushed"]
         ELSE [NoPost EXCEPT !.pc = IF spent THEN "refused" ELSE "again",
                             !.tries = posting[p].tries + 1]]
    /\ UNCHANGED <<opened, messageCount, transcript, overtaken, overlapped>>

CommitTurn(p) ==
    /\ posting[p].pc = "flushed"
    /\ opened' = TRUE
    /\ transcript' = Append(transcript, posting[p].seq)
    /\ messageCount' = IF posting[p].created THEN 1 ELSE posting[p].loaded + 1
    /\ overlapped' = (overlapped \/ posting[p].behind > 0)
    /\ posting' = [q \in Posters |-> IF q = p THEN [NoPost EXCEPT !.pc = "committed"]
                                     ELSE [posting[q] EXCEPT !.behind = @ + 1]]
    /\ overtaken' = [q \in Posters |-> IF q = p THEN overtaken[p] ELSE overtaken[q] + 1]

(* The turn is broadcast, or not, and answered; or ConflictError is; or the *)
(* request dies, and what it has not committed with it                      *)
PostEnds(p) ==
    /\ posting[p].pc # "idle"
    /\ posting' = [posting EXCEPT ![p] = NoPost]
    /\ overtaken' = [overtaken EXCEPT ![p] = 0]
    /\ UNCHANGED <<opened, messageCount, transcript, overlapped>>

ConversationNext ==
    \E p \in Posters :
        ResolveConversation(p) \/ NextMessageSeq(p) \/ Flush(p) \/ CommitTurn(p) \/ PostEnds(p)

ConversationSpec == ConversationInit /\ [][ConversationNext]_conversationVars

-----------------------------------------------------------------------------
ConversationTypeOK ==
    /\ messageCount \in 0..MaxMessages + 1
    /\ \A p \in Posters :
         /\ posting[p].pc \in {"idle", "resolved", "numbered", "again", "flushed", "committed",
                               "refused"}
         /\ posting[p].tries <= MaxSeqRetries

(* However the requests overlap, fail and retry, the turns are numbered     *)
(* from 0 without a gap, in the order in which they were committed.         *)
TranscriptDense == \A i \in DOMAIN transcript : transcript[i] = i - 1

(* A request is turned away with ConflictError only after as many others    *)
(* got their turn in while it was trying as it has attempts.                *)
RefusedOnlyWhenOvertaken ==
    \A p \in Posters : posting[p].pc = "refused" => overtaken[p] >= MaxSeqRetries

(* message_count is the length of the transcript, unless a request wrote it *)
(* back that had read it before another one committed.                      *)
CountedUnlessOverlapped == overlapped \/ messageCount = Len(transcript)

(* api/v1/agent.py: the numbering, the retries and the counter of a          *)
(* conversation several requests post into                                  *)
ConversationInv ==
    ConversationTypeOK /\ TranscriptDense /\ RefusedOnlyWhenOvertaken /\ CountedUnlessOverlapped
=============================================================================
