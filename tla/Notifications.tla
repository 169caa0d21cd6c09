--------------------------- MODULE Notifications ---------------------------
(***************************************************************************)
(* Alerts: services/notification.py with the Slack and email clients, as   *)
(* the nodes call it.  dispatch joins the caller's transaction: it records *)
(* one row per channel, sends while the transaction is open, and the       *)
(* caller commits, or does not.                                            *)
(***************************************************************************)
EXTENDS Naturals, Sequences

CONSTANTS
    Senders,        \* runs that may alert about the same thing
    Channels,       \* the channels of the event in order, "websocket" stored only
    MaxDeliveries,  \* bound: messages accepted per channel
    NONE            \* no row

ASSUME NotificationsAssumption ==
    /\ Channels \in Seq(STRING) /\ MaxDeliveries \in Nat
    /\ NONE \notin {"pending", "sent", "failed", "suppressed"}

VARIABLES
    below,          \* the event is below the organization's floor
    completion,     \* the alert announces work of the same transaction (_complete)
    rows,           \* notifications: the committed status per channel, or NONE
    sender,         \* the transactions
    delivered,      \* external: messages the provider accepted, per channel
    undone          \* history: a transaction that had sent was rolled back

notificationVars == <<below, completion, rows, sender, delivered, undone>>

NoRows == [c \in DOMAIN Channels |-> NONE]
Asleep == [pc |-> "idle", at |-> 1, below |-> FALSE, staged |-> NoRows]

NotificationsInit ==
    /\ below \in BOOLEAN
    /\ completion \in BOOLEAN
    /\ rows = NoRows
    /\ sender = [s \in Senders |-> Asleep]
    /\ delivered = [c \in DOMAIN Channels |-> 0]
    /\ undone = FALSE

Active(s) == sender[s].pc \notin {"idle", "raised", "done"}
Sets(s, r) == sender' = [sender EXCEPT ![s] = r]

(* An administrator moves notify_min_severity *)
SetFloor ==
    /\ below' = ~below
    /\ UNCHANGED <<completion, rows, sender, delivered, undone>>

(* The policy is read once, at the start of dispatch (_suppression_reason). *)
(* _complete flushes the assessment's row before it announces it, so two    *)
(* completions wait for each other; two runs of create_actions do not.      *)
Begin(s) ==
    /\ sender[s].pc = "idle"
    /\ completion => \A t \in Senders : ~Active(t)
    /\ Sets(s, [Asleep EXCEPT !.pc = "read", !.below = below])
    /\ UNCHANGED <<below, completion, rows, delivered, undone>>

(* _already_recorded sees what is committed *)
AlreadyRecorded(s) ==
    /\ sender[s].pc = "read"
    /\ sender[s].at <= Len(Channels)
    /\ IF rows[sender[s].at] # NONE
       THEN Sets(s, [sender[s] EXCEPT !.at = @ + 1])
       ELSE Sets(s, [sender[s] EXCEPT !.pc = "insert"])
    /\ UNCHANGED <<below, completion, rows, delivered, undone>>

RollsBack(s, pc) ==
    /\ undone' = \/ undone
                 \/ \E c \in DOMAIN Channels : sender[s].staged[c] \notin {NONE, "suppressed"}
    /\ Sets(s, [Asleep EXCEPT !.pc = pc])

(* Mutant: the table has no unique_notification *)
InsertUnconstrained(s) ==
    /\ sender[s].pc = "insert"
    /\ Sets(s, [sender[s] EXCEPT !.staged[sender[s].at] = "pending", !.pc = "deliver"])
    /\ UNCHANGED <<below, completion, rows, delivered, undone>>

(* The flush waits for the transaction that has staged the same key, and    *)
(* unique_notification refuses the row if that one has committed.  The      *)
(* IntegrityError is not caught in dispatch: it fails the node.             *)
Insert(s) ==
    LET c == sender[s].at IN
    /\ sender[s].pc = "insert"
    /\ \A t \in Senders \ {s} : sender[t].staged[c] = NONE
    /\ IF rows[c] # NONE
       THEN RollsBack(s, "raised")
       ELSE /\ Sets(s, [sender[s] EXCEPT !.staged[c] = "pending", !.pc = "deliver"])
            /\ UNCHANGED undone
    /\ UNCHANGED <<below, completion, rows, delivered>>

(* _deliver: an attempt that ends in an error marks the row failed, though  *)
(* the provider may have taken the message                                  *)
Deliver(s, accepted, answered) ==
    LET c == sender[s].at
        remote == ~sender[s].below /\ Channels[c] # "websocket"
    IN
    /\ sender[s].pc = "deliver"
    /\ ~remote => accepted /\ answered
    /\ Sets(s, [sender[s] EXCEPT !.pc = "read", !.at = @ + 1,
                                 !.staged[c] = IF sender[s].below THEN "suppressed"
                                               ELSE IF accepted /\ answered THEN "sent"
                                               ELSE "failed"])
    /\ delivered' = [delivered EXCEPT ![c] = IF remote /\ accepted THEN @ + 1 ELSE @]
    /\ delivered'[c] <= MaxDeliveries
    /\ UNCHANGED <<below, completion, rows, undone>>

(* The caller's commit *)
Commit(s) ==
    /\ sender[s].pc = "read"
    /\ sender[s].at > Len(Channels)
    /\ rows' = [c \in DOMAIN Channels |->
                  IF sender[s].staged[c] = NONE THEN rows[c] ELSE sender[s].staged[c]]
    /\ Sets(s, [Asleep EXCEPT !.pc = "done"])
    /\ UNCHANGED <<below, completion, delivered, undone>>

(* The process dies or the commit fails *)
SenderDies(s) ==
    /\ Active(s)
    /\ RollsBack(s, "idle")
    /\ UNCHANGED <<below, completion, rows, delivered>>

(* The node runs again *)
Resume(s) ==
    /\ sender[s].pc \in {"done", "raised"}
    /\ Sets(s, Asleep)
    /\ UNCHANGED <<below, completion, rows, delivered, undone>>

NotificationsNext ==
    \/ SetFloor
    \/ \E s \in Senders :
          \/ Begin(s)
          \/ AlreadyRecorded(s)
          \/ Insert(s)
          \/ \E accepted, answered \in BOOLEAN : Deliver(s, accepted, answered)
          \/ Commit(s)
          \/ SenderDies(s)
          \/ Resume(s)

NotificationsSpec == NotificationsInit /\ [][NotificationsNext]_notificationVars

-----------------------------------------------------------------------------
Statuses == {NONE, "pending", "sent", "failed", "suppressed"}

NotificationsTypeOK ==
    /\ rows \in [DOMAIN Channels -> Statuses \ {"pending"}]
    /\ delivered \in [DOMAIN Channels -> 0..MaxDeliveries]
    /\ \A s \in Senders :
         /\ sender[s].pc \in {"idle", "read", "insert", "deliver", "done", "raised"}
         /\ sender[s].at \in 1..(Len(Channels) + 1)
         /\ sender[s].staged \in [DOMAIN Channels -> Statuses]

(* A resumed run does not alert twice: two messages on one channel need a   *)
(* transaction that was rolled back after it had sent.                      *)
AlertedOnceUnlessUndone == \A c \in DOMAIN Channels : delivered[c] > 1 => undone

(* The row tells what happened: nothing is called sent that no provider     *)
(* accepted, and what is suppressed was never sent (other than by a         *)
(* transaction that was rolled back), however the floor moved meanwhile.    *)
RowsTellTheTruth ==
    \A c \in DOMAIN Channels :
        /\ rows[c] = "sent" /\ Channels[c] # "websocket" => delivered[c] > 0
        /\ rows[c] = "suppressed" => delivered[c] = 0 \/ undone

(* services/notification.py: what dispatch promises of a resumed run and of *)
(* the rows an operator reads.                                              *)
NotificationsInv == NotificationsTypeOK /\ AlertedOnceUnlessUndone /\ RowsTellTheTruth
=============================================================================
