---------------------------- MODULE EventStream ----------------------------
(***************************************************************************)
(* The live event stream of one agent session: services/events.py (the     *)
(* bus over Redis), api/ws/agent.py (the socket) and the page's hook       *)
(* frontend/src/lib/ws.ts.  The emitters are the worker that drives the    *)
(* run and the requests that post a message into the same session.         *)
(***************************************************************************)
EXTENDS Naturals, Sequences, SequencesExt

CONSTANTS
    Emitters,       \* processes that publish into the session
    MaxEvents,      \* bound: events published
    ReplayLimit,    \* REPLAY_LIMIT (20 in the source)
    SendQueueMax    \* _SEND_QUEUE_MAX (256 in the source)

ASSUME EventsAssumption ==
    /\ MaxEvents \in Nat
    /\ ReplayLimit \in Nat \ {0} /\ SendQueueMax \in Nat \ {0}

VARIABLES
    seqCounter,     \* Redis: the session's counter
    replayBuffer,   \* Redis: the capped list of recent events
    channel,        \* Redis: events relayed to the subscription, not read yet
    emitting,       \* the number each emitter holds: a set of at most one
    published,      \* history: the numbers of the events, in publishing order
    socket,         \* the server's side of the socket: after, the after_seq it came with
    backlog,        \* events the subscription read from the list, not yielded yet
    outbound,       \* frames queued for the writer
    page,           \* the browser: highest number seen, and every event shown
    unreplayed      \* history: events no backlog could give the page

eventVars == <<seqCounter, replayBuffer, channel, emitting, published,
               socket, backlog, outbound, page, unreplayed>>
redisVars == <<seqCounter, replayBuffer, emitting, published>>

EventsInit ==
    /\ seqCounter = 0
    /\ replayBuffer = << >>
    /\ channel = << >>
    /\ emitting = [e \in Emitters |-> {}]
    /\ published = << >>
    /\ socket = [pc |-> "closed", after |-> 0, highest |-> 0]
    /\ backlog = << >>
    /\ outbound = << >>
    /\ page = [last |-> 0, shown |-> << >>]
    /\ unreplayed = {}

Higher(m, n) == IF m < n THEN n ELSE m
Listening == socket.pc \in {"subscribed", "live"}

-----------------------------------------------------------------------------
(* EventEmitter: every method numbers an event and publishes it, one at a time *)
Emits(e) == emitting[e] = {} /\ Len(published) < MaxEvents /\ seqCounter < MaxEvents

(* EventBus.next_seq: INCR, or 0 when Redis fails *)
NextSeq(e, answered) ==
    /\ Emits(e)
    /\ seqCounter' = IF answered THEN seqCounter + 1 ELSE seqCounter
    /\ emitting' = [emitting EXCEPT ![e] = {IF answered THEN seqCounter + 1 ELSE 0}]
    /\ UNCHANGED <<replayBuffer, channel, published, socket, backlog, outbound, page,
                   unreplayed>>

(* EventBus.publish: one MULTI publishes, appends, trims and renews the TTL *)
Publish(e) ==
    \E seq \in emitting[e] :
        LET event == [id |-> Len(published) + 1, seq |-> seq] IN
        /\ Len(published) < MaxEvents
        /\ published' = Append(published, seq)
        /\ replayBuffer' =
             LET longer == Append(replayBuffer, event) IN
             IF Len(longer) > ReplayLimit THEN Tail(longer) ELSE longer
        /\ channel' = IF Listening THEN Append(channel, event) ELSE channel
        /\ emitting' = [emitting EXCEPT ![e] = {}]
        /\ UNCHANGED <<seqCounter, socket, backlog, outbound, page, unreplayed>>

(* The pipeline fails, or the process dies in between: the number is a gap  *)
PublishFails(e) ==
    /\ emitting[e] # {}
    /\ emitting' = [emitting EXCEPT ![e] = {}]
    /\ UNCHANGED <<seqCounter, replayBuffer, channel, published, socket, backlog, outbound,
                   page, unreplayed>>

(* REPLAY_TTL_SECONDS and SEQ_TTL_SECONDS run out in a session nobody has   *)
(* published into for four days                                             *)
KeysExpire ==
    /\ \A e \in Emitters : emitting[e] = {}
    /\ seqCounter > 0
    /\ channel = << >>
    /\ seqCounter' = 0
    /\ replayBuffer' = << >>
    /\ UNCHANGED <<channel, emitting, published, socket, backlog, outbound, page, unreplayed>>

-----------------------------------------------------------------------------
(* connect: the page asks for what follows the last number it has seen *)
Connect ==
    /\ socket.pc = "closed"
    /\ socket' = [pc |-> "handshake", after |-> page.last, highest |-> page.last]
    /\ UNCHANGED <<redisVars, channel, backlog, outbound, page, unreplayed>>

(* _authenticate, and what onclose makes of its close codes *)
Handshake(outcome) ==
    /\ socket.pc = "handshake"
    /\ socket' = [socket EXCEPT !.pc = CASE outcome = "admitted" -> "admitted"
                                         [] outcome = "unauthenticated" -> "closed"
                                         [] OTHER -> "refused"]
    /\ UNCHANGED <<redisVars, channel, backlog, outbound, page, unreplayed>>

(* EventBus.subscribe: first the subscription ... *)
Subscribe ==
    /\ socket.pc = "admitted"
    /\ socket' = [socket EXCEPT !.pc = "subscribed"]
    /\ UNCHANGED <<redisVars, channel, backlog, outbound, page, unreplayed>>

(* ... then the list is read, or not when Redis fails ... *)
Replay(answered) ==
    LET had == {replayBuffer[i].id : i \in DOMAIN replayBuffer} IN
    /\ socket.pc = "subscribed"
    /\ socket' = [socket EXCEPT !.pc = "live"]
    /\ backlog' = IF answered THEN replayBuffer ELSE << >>
    /\ unreplayed' = unreplayed \cup IF answered THEN DOMAIN published \ had ELSE DOMAIN published
    /\ UNCHANGED <<redisVars, channel, outbound, page>>

(* ... and what is newer than the page's last number goes first *)
Backfill ==
    /\ socket.pc = "live"
    /\ backlog # << >>
    /\ Len(outbound) < SendQueueMax
    /\ backlog' = Tail(backlog)
    /\ IF Head(backlog).seq > socket.after
       THEN /\ outbound' = Append(outbound, Head(backlog))
            /\ socket' = [socket EXCEPT !.highest = Higher(@, Head(backlog).seq)]
       ELSE UNCHANGED <<outbound, socket>>
    /\ UNCHANGED <<redisVars, channel, page, unreplayed>>

(* Mutant: what the backlog already gave is relayed a second time *)
PumpEveryEvent ==
    /\ socket.pc = "live"
    /\ backlog = << >> /\ channel # << >>
    /\ Len(outbound) < SendQueueMax
    /\ channel' = Tail(channel)
    /\ outbound' = Append(outbound, Head(channel))
    /\ socket' = [socket EXCEPT !.highest = Higher(@, Head(channel).seq)]
    /\ UNCHANGED <<redisVars, backlog, page, unreplayed>>

(* _pump_events: the next live event, dropped when it is not newer *)
PumpEvent ==
    /\ socket.pc = "live"
    /\ backlog = << >> /\ channel # << >>
    /\ Len(outbound) < SendQueueMax
    /\ channel' = Tail(channel)
    /\ IF Head(channel).seq > socket.highest
       THEN /\ outbound' = Append(outbound, Head(channel))
            /\ socket' = [socket EXCEPT !.highest = Head(channel).seq]
       ELSE UNCHANGED <<outbound, socket>>
    /\ UNCHANGED <<redisVars, backlog, page, unreplayed>>

(* _writer and the page's onmessage *)
WriteFrame ==
    /\ socket.pc = "live"
    /\ outbound # << >>
    /\ outbound' = Tail(outbound)
    /\ page' = [last |-> Higher(page.last, Head(outbound).seq),
                shown |-> Append(page.shown, Head(outbound).id)]
    /\ UNCHANGED <<redisVars, channel, socket, backlog, unreplayed>>

(* The socket, its process or the subscription goes: what was queued is gone *)
Disconnect ==
    /\ socket.pc \in {"admitted", "subscribed", "live"}
    /\ socket' = [socket EXCEPT !.pc = "closed"]
    /\ channel' = << >>
    /\ backlog' = << >>
    /\ outbound' = << >>
    /\ UNCHANGED <<redisVars, page, unreplayed>>

EventsNext ==
    \/ \E e \in Emitters :
          \/ \E answered \in BOOLEAN : NextSeq(e, answered)
          \/ Publish(e)
          \/ PublishFails(e)
    \/ KeysExpire
    \/ Connect
    \/ \E outcome \in {"admitted", "unauthenticated", "forbidden"} : Handshake(outcome)
    \/ Subscribe
    \/ \E answered \in BOOLEAN : Replay(answered)
    \/ Backfill
    \/ PumpEvent
    \/ WriteFrame
    \/ Disconnect

EventsSpec == EventsInit /\ [][EventsNext]_eventVars

-----------------------------------------------------------------------------
EventsTypeOK ==
    /\ seqCounter \in 0..MaxEvents
    /\ Len(replayBuffer) <= ReplayLimit
    /\ published \in Seq(0..MaxEvents)
    /\ socket.pc \in {"closed", "handshake", "admitted", "subscribed", "live", "refused"}
    /\ socket.highest \in 0..MaxEvents
    /\ page.last \in 0..MaxEvents

(* The page is shown no event twice, though one may arrive both in the      *)
(* backlog and live, and a reconnect replays what it had not seen.          *)
ShownOnce == IsInjective(page.shown)

\* An event whose number is not above that of every event before it.
Overtaken(i) == published[i] = 0 \/ \E j \in 1..(i - 1) : published[j] >= published[i]

(* A page that is up to date has been shown every event, unless the event   *)
(* was published after one of a higher number (two emitters, or a counter   *)
(* that had expired), got no number, or no backlog had it.                  *)
MissedOnlyIfOvertaken ==
    socket.pc = "live" /\ backlog = << >> /\ channel = << >> /\ outbound = << >>
    => \A i \in DOMAIN published :
          i \in ToSet(page.shown) \/ Overtaken(i) \/ i \in unreplayed

(* services/events.py: what a page of the session may and may not show.     *)
EventsInv == EventsTypeOK /\ ShownOnce /\ MissedOnlyIfOvertaken
=============================================================================
