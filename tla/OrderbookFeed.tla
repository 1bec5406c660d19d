---------------------------- MODULE OrderbookFeed ----------------------------
(***************************************************************************)
(* Sequenced order-book channels over one WebSocket session: the server's  *)
(* frames, SequenceTracker, OrderbookManager, MessageDispatcher, and the   *)
(* resubscriptions of SubscriptionManager (src/kalshi/ws/sequence.py,      *)
(* orderbook.py, dispatch.py, channels.py and _process_frame,              *)
(* _handle_seq_gap, _handle_reconnect of client.py).                       *)
(*                                                                         *)
(* One coroutine at a time reads the socket (module RecvLoop), so a step   *)
(* is the handling of one frame.  A handler that waits for a reply leaves  *)
(* the wait in `pc` and `call`; frames it must replay afterwards are in    *)
(* `drain`.  A nested replay runs to its end before the outer one goes on, *)
(* so one sequence stands for the whole stack.                             *)
(*                                                                         *)
(* The content of a book is abstracted to a count: a snapshot sets it, a   *)
(* delta adds one, and `ver` remembers the server's count in the last      *)
(* frame applied, so that a book is right when both agree.                 *)
(***************************************************************************)
EXTENDS Integers, Sequences, FiniteSets

CONSTANTS Clients,      \* subscriptions, named by their durable client_id
          Late,         \* those that are made while the others already run
          Leavers,      \* those that a callback may unsubscribe
          TickerOf,     \* the market each of them asks for
          Nobody,       \* no client
          MaxSid,       \* bound: sids the server assigns
          MaxVersion,   \* bound: changes of a market
          StashMax,     \* stash_maxlen
          Faults,       \* what can go wrong
          MaxFaults     \* bound: how often it does

ASSUME FeedAssumption ==
    /\ IsFiniteSet(Clients) /\ Nobody \notin Clients
    /\ \A c \in Clients : TickerOf[c] # Nobody
    /\ Late \subseteq Clients /\ Leavers \subseteq Clients
    /\ Cardinality(Clients \ Late) <= MaxSid
    /\ MaxSid \in Nat /\ MaxVersion \in Nat /\ StashMax \in Nat \ {0}
    /\ Faults \subseteq {"skip", "repeat", "redeliver", "reset", "late_reset",
                         "malformed", "bad_snapshot", "reject", "timeout", "reap",
                         "drop", "exhausted"}
    /\ MaxFaults \in Nat

Tickers == {TickerOf[c] : c \in Clients}
Sids == 1..MaxSid
NoSid == 0
NoBook == [sid |-> NoSid, val |-> 0, ver |-> 0]

VARIABLES
    version,    \* server: changes of each market so far
    active,     \* server: the market behind each live sid, or Nobody
    seq, sent,  \* server: last seq and last version sent on each sid
    nextSid,    \* server: the next sid to assign
    up, down,   \* commands to the server, frames to the client
    connected,  \* the socket is open
    registered, \* _subscriptions
    sidOf,      \* server_sid of each subscription
    clientOf,   \* _sid_to_client
    outcome,    \* what each subscription's iterator sees
    watermark,  \* _last_seq, 0 where the sid has none
    book,       \* _books, and through their sid _sid_tickers
    view,       \* what a consumer folds out of the frames it is given
    orphans,    \* _pending_orphan_unsub
    pc,         \* what the reader of the socket is doing, or how the loop ended
    call,       \* the command whose reply is awaited, and for whom
    todo,       \* subscriptions resubscribe_all has still to do
    stash,      \* _stash, sid after sid
    drain,      \* stashed frames being replayed
    msgId,      \* _next_msg_id
    spent       \* faults so far

server == <<version, active, seq, sent, nextSid>>
subs == <<registered, sidOf, clientOf, outcome>>
local == <<watermark, book, view>>
control == <<pc, call, todo, stash, drain>>
vars == <<server, up, down, connected, subs, local, orphans, control, msgId, spent>>

NoCall == [client |-> Nobody, id |-> 0, replay |-> FALSE]

Awaiting == {"subscribe", "leave", "unsub", "resub", "reall"}

Commands ==
    [cmd : {"subscribe"}, id : Nat, ticker : Tickers]
    \cup [cmd : {"unsubscribe"}, id : Nat, sid : Sids]
Endings == [type : {"unsubscribed"}, id : Nat, sid : Sids]
Replies ==
    [type : {"subscribed"}, id : Nat, sid : Sids] \cup Endings
    \cup [type : {"error"}, id : Nat, sid : 0..MaxSid]
DataFrames ==
    [type : {"snapshot", "delta"}, sid : Sids, seq : Nat, ticker : Tickers,
     ver : Nat, ok : BOOLEAN]
Frames == Replies \cup DataFrames
Stashable == Endings \cup DataFrames
Books == [sid : 0..MaxSid, val : Nat, ver : Nat]

ServerType ==
    /\ version \in [Tickers -> Nat]
    /\ active \in [Sids -> Tickers \cup {Nobody}]
    /\ seq \in [Sids -> Nat] /\ sent \in [Sids -> Nat]
    /\ nextSid \in 1..(MaxSid + 1)
NetType ==
    /\ up \in Seq(Commands) /\ down \in Seq(Frames) /\ connected \in BOOLEAN
    /\ msgId \in Nat /\ spent \in Nat
\* An iterator is not made, refused, open, ended by a sentinel or an error, or
\* ended with the receive loop while its subscription stays registered.
Outcomes == {"idle", "refused", "open", "stopped", "raised", "halted"}
SubsType ==
    /\ registered \subseteq Clients
    /\ sidOf \in [Clients -> 0..MaxSid]
    /\ clientOf \in [Sids -> Clients \cup {Nobody}]
    /\ outcome \in [Clients -> Outcomes]
LocalType ==
    /\ watermark \in [Sids -> Nat]
    /\ book \in [Tickers -> Books] /\ view \in [Clients -> Books]
    /\ orphans \subseteq Sids
ControlType ==
    /\ pc \in Awaiting \cup {"recv", "crashed", "dead"}
    /\ call \in [client : Clients \cup {Nobody}, id : Nat, replay : BOOLEAN]
    /\ todo \subseteq Clients
    /\ stash \in Seq(Stashable) /\ drain \in Seq(Stashable)

TypeOK == ServerType /\ NetType /\ SubsType /\ LocalType /\ ControlType

\* The early subscriptions are made, their snapshots read, and all is quiet.
Early == Clients \ Late
FirstSid == CHOOSE f \in [Early -> 1..Cardinality(Early)] :
                \A c, d \in Early : c # d => f[c] # f[d]
ClientOn(s) == IF \E c \in Early : FirstSid[c] = s
               THEN CHOOSE c \in Early : FirstSid[c] = s ELSE Nobody
FirstBook(c) == [sid |-> FirstSid[c], val |-> 0, ver |-> 0]

Init ==
    /\ version = [t \in Tickers |-> 0]
    /\ active = [s \in Sids |->
                    IF ClientOn(s) = Nobody THEN Nobody ELSE TickerOf[ClientOn(s)]]
    /\ seq = [s \in Sids |-> IF ClientOn(s) = Nobody THEN 0 ELSE 1]
    /\ sent = [s \in Sids |-> 0]
    /\ nextSid = Cardinality(Early) + 1
    /\ up = <<>> /\ down = <<>> /\ connected = TRUE
    /\ registered = Early
    /\ sidOf = [c \in Clients |-> IF c \in Early THEN FirstSid[c] ELSE NoSid]
    /\ clientOf = [s \in Sids |-> ClientOn(s)]
    /\ outcome = [c \in Clients |-> IF c \in Early THEN "open" ELSE "idle"]
    /\ watermark = seq
    /\ view = [c \in Clients |-> IF c \in Early THEN FirstBook(c) ELSE NoBook]
    /\ book \in {b \in [Tickers -> {NoBook} \cup {FirstBook(c) : c \in Early}] :
                    \A t \in Tickers :
                        IF \E c \in Early : TickerOf[c] = t
                        THEN \E c \in Early : TickerOf[c] = t /\ b[t] = FirstBook(c)
                        ELSE b[t] = NoBook}
    /\ orphans = {}
    /\ pc = "recv" /\ call = NoCall /\ todo = {}
    /\ stash = <<>> /\ drain = <<>>
    /\ msgId = Cardinality(Early) + 1 /\ spent = 0

Fault(f) == f \in Faults /\ spent < MaxFaults /\ spent' = spent + 1

-----------------------------------------------------------------------------
(* The server and the network.                                             *)

Delta(s, q, v, ok) ==
    [type |-> "delta", sid |-> s, seq |-> q, ticker |-> active[s], ver |-> v, ok |-> ok]
Reply(t, i, s) == [type |-> t, id |-> i, sid |-> s]

Change(t) ==
    /\ version[t] < MaxVersion
    /\ version' = [version EXCEPT ![t] = @ + 1]
    /\ UNCHANGED <<active, seq, sent, nextSid, up, down, connected, subs, local,
                   orphans, control, msgId, spent>>

\* The next change goes out on sid s, or something goes wrong with it. Numbers start
\* again while every frame so far has come through, or ("late_reset") at any time.
Emit(s) ==
    /\ active[s] # Nobody /\ sent[s] < version[active[s]]
    /\ sent' = [sent EXCEPT ![s] = @ + 1]
    /\ LET next == seq[s] + 1
           frame(q, ok) == Delta(s, q, sent[s] + 1, ok)
           numbered(q) == seq' = [seq EXCEPT ![s] = q]
       IN  \/ numbered(next) /\ down' = Append(down, frame(next, TRUE))
              /\ UNCHANGED spent
           \/ Fault("skip") /\ numbered(next) /\ UNCHANGED down
           \/ Fault("malformed") /\ numbered(next)
              /\ down' = Append(down, frame(next, FALSE))
           \/ Fault("repeat") /\ numbered(next)
              /\ down' = down \o <<frame(next, TRUE), frame(next, TRUE)>>
           \/ /\ (Fault("reset") /\ spent = 0) \/ Fault("late_reset")
              /\ seq[s] > 1 /\ numbered(1)
              /\ down' = Append(down, frame(1, TRUE))
    /\ UNCHANGED <<version, active, nextSid, up, connected, subs, local, orphans,
                   control, msgId>>

\* A frame older than the last one is delivered again.
Redeliver(s) ==
    /\ Fault("redeliver") /\ active[s] # Nobody /\ seq[s] > 2 /\ sent[s] > 1
    /\ down' = Append(down, Delta(s, seq[s] - 1, sent[s] - 1, TRUE))
    /\ UNCHANGED <<server, up, connected, subs, local, orphans, control, msgId>>

\* A subscription: the acknowledgement, then the snapshot under a new sid.
AcceptSubscribe ==
    /\ up # <<>> /\ Head(up).cmd = "subscribe" /\ nextSid <= MaxSid
    /\ LET s == nextSid
           t == Head(up).ticker
           snapshot(ok) == [type |-> "snapshot", sid |-> s, seq |-> 1,
                            ticker |-> t, ver |-> version[t], ok |-> ok]
           ack == Reply("subscribed", Head(up).id, s)
       IN  /\ active' = [active EXCEPT ![s] = t]
           /\ seq' = [seq EXCEPT ![s] = 1]
           /\ sent' = [sent EXCEPT ![s] = version[t]]
           /\ nextSid' = s + 1
           /\ \/ down' = down \o <<ack, snapshot(TRUE)>> /\ UNCHANGED spent
              \/ Fault("bad_snapshot") /\ down' = down \o <<ack, snapshot(FALSE)>>
    /\ up' = Tail(up)
    /\ UNCHANGED <<version, connected, subs, local, orphans, control, msgId>>

RejectSubscribe ==
    /\ Fault("reject") /\ up # <<>> /\ Head(up).cmd = "subscribe"
    /\ down' = Append(down, Reply("error", Head(up).id, NoSid))
    /\ up' = Tail(up)
    /\ UNCHANGED <<server, connected, subs, local, orphans, control, msgId>>

AnswerUnsubscribe ==
    /\ up # <<>> /\ Head(up).cmd = "unsubscribe"
    /\ LET s == Head(up).sid
           t == IF active[s] = Nobody THEN "error" ELSE "unsubscribed"
       IN  /\ active' = [active EXCEPT ![s] = Nobody]
           /\ down' = Append(down, Reply(t, Head(up).id, s))
    /\ up' = Tail(up)
    /\ UNCHANGED <<version, seq, sent, nextSid, connected, subs, local, orphans,
                   control, msgId, spent>>

\* The server ends a subscription on its own.
Reap(s) ==
    /\ Fault("reap") /\ active[s] # Nobody
    /\ active' = [active EXCEPT ![s] = Nobody]
    /\ down' = Append(down, Reply("unsubscribed", 0, s))
    /\ UNCHANGED <<version, seq, sent, nextSid, up, connected, subs, local,
                   orphans, control, msgId>>

\* The socket breaks; some of the frames on the way still arrive.
Drop ==
    /\ Fault("drop") /\ connected
    /\ connected' = FALSE /\ up' = <<>>
    /\ \E k \in 0..Len(down) : down' = SubSeq(down, 1, k)
    /\ active' = [s \in Sids |-> Nobody]
    /\ UNCHANGED <<version, seq, sent, nextSid, subs, local, orphans, control, msgId>>

Environment ==
    \/ \E t \in Tickers : Change(t)
    \/ \E s \in Sids : Emit(s) \/ Redeliver(s) \/ Reap(s)
    \/ AcceptSubscribe \/ RejectSubscribe \/ AnswerUnsubscribe \/ Drop

-----------------------------------------------------------------------------
(* One frame, in the receive loop or replayed: _process_frame.             *)

Routed(f) == f.type \in {"snapshot", "delta"} /\ clientOf[f.sid] # Nobody

\* Mutant: a forward gap passes for the next frame.
InOrderLoose(f) == watermark[f.sid] = 0 \/ watermark[f.sid] < f.seq

\* track_sync: the first frame of a sid sets the watermark, whatever its seq.
InOrder(f) == watermark[f.sid] \in {0, f.seq - 1}
Duplicate(f) == watermark[f.sid] = f.seq

Send(cmd) == up' = (IF connected THEN Append(up, cmd) ELSE up) /\ msgId' = msgId + 1
Idle == UNCHANGED <<up, msgId>>

SubscribeCommand(c) == [cmd |-> "subscribe", id |-> msgId, ticker |-> TickerOf[c]]
UnsubscribeCommand(s) == [cmd |-> "unsubscribe", id |-> msgId, sid |-> s]

\* Mutant: deltas are subtracted.
FoldInverted(b, f) ==
    IF f.type = "snapshot" THEN [sid |-> f.sid, val |-> f.ver, ver |-> f.ver]
    ELSE IF b.sid = NoSid THEN b
    ELSE [b EXCEPT !.val = @ - 1, !.ver = f.ver]

\* A book after one more frame: a delta without a book does nothing.
Fold(b, f) ==
    IF f.type = "snapshot" THEN [sid |-> f.sid, val |-> f.ver, ver |-> f.ver]
    ELSE IF b.sid = NoSid THEN b
    ELSE [b EXCEPT !.val = @ + 1, !.ver = f.ver]

BooksWithout(s) == [t \in Tickers |-> IF book[t].sid = s THEN NoBook ELSE book[t]]

\* Frames without effect: on a sid that has no subscription (#255), exact
\* duplicates, malformed ones, whose seq is rolled back (#241), errors.
Ignore(f) ==
    /\ \/ f.type \in {"snapshot", "delta"} /\ ~Routed(f)
       \/ Routed(f) /\ (Duplicate(f) \/ (InOrder(f) /\ ~f.ok))
       \/ f.type = "error"
    /\ Idle /\ UNCHANGED <<local, subs, orphans, pc, call>>

\* The book is updated, then the frame is put on the consumer's queue, where it is
\* lost if the queue was closed.
Apply(f) ==
    /\ Routed(f) /\ InOrder(f) /\ ~Duplicate(f) /\ f.ok
    /\ watermark' = [watermark EXCEPT ![f.sid] = f.seq]
    /\ book' = [book EXCEPT ![f.ticker] = Fold(@, f)]
    /\ view' = [view EXCEPT ![clientOf[f.sid]] =
                    IF outcome[clientOf[f.sid]] = "open" THEN Fold(@, f) ELSE @]
    /\ Idle /\ UNCHANGED <<subs, orphans, pc, call>>

\* Mutant: the sid is cleared and nothing more done, waiting for a snapshot nobody
\* asked for (#189).
GapClearsOnly(f, replay) ==
    /\ Routed(f) /\ ~InOrder(f) /\ ~Duplicate(f)
    /\ book' = BooksWithout(f.sid)
    /\ watermark' = [watermark EXCEPT ![f.sid] = 0]
    /\ Idle /\ UNCHANGED <<view, subs, orphans, pc, call>>

\* Mutant: the book stays until the new snapshot replaces it.
GapKeepsBook(f, replay) ==
    /\ Routed(f) /\ ~InOrder(f) /\ ~Duplicate(f)
    /\ watermark' = [watermark EXCEPT ![f.sid] = 0]
    /\ pc' = "unsub"
    /\ call' = [client |-> clientOf[f.sid], id |-> msgId, replay |-> replay]
    /\ Send(UnsubscribeCommand(f.sid))
    /\ UNCHANGED <<book, view, subs, orphans>>

\* _handle_seq_gap: forget what the sid owns and start resubscribe_one.
Gap(f, replay) ==
    /\ Routed(f) /\ ~InOrder(f) /\ ~Duplicate(f)
    /\ book' = BooksWithout(f.sid)
    /\ watermark' = [watermark EXCEPT ![f.sid] = 0]
    /\ pc' = "unsub"
    /\ call' = [client |-> clientOf[f.sid], id |-> msgId, replay |-> replay]
    /\ Send(UnsubscribeCommand(f.sid))
    /\ UNCHANGED <<view, subs, orphans>>

\* Mutants: the mapping, or the iterator, is left alone (#81).
UnsubscribedKeeps(f) ==
    /\ f.type = "unsubscribed"
    /\ watermark' = [watermark EXCEPT ![f.sid] = 0]
    /\ book' = BooksWithout(f.sid)
    /\ Idle /\ UNCHANGED <<view, subs, orphans, pc, call>>

UnsubscribedSilently(f) ==
    /\ f.type = "unsubscribed"
    /\ clientOf' = [clientOf EXCEPT ![f.sid] = Nobody]
    /\ watermark' = [watermark EXCEPT ![f.sid] = 0]
    /\ book' = BooksWithout(f.sid)
    /\ registered' = registered \ {clientOf[f.sid]}
    /\ Idle /\ UNCHANGED <<sidOf, outcome, view, orphans, pc, call>>

\* _handle_server_unsubscribe; the acknowledgement of an orphan stops there.
Unsubscribed(f) ==
    /\ f.type = "unsubscribed"
    /\ \/ /\ f.sid \in orphans
          /\ orphans' = orphans \ {f.sid}
          /\ UNCHANGED <<local, subs>>
       \/ /\ f.sid \notin orphans
          /\ clientOf' = [clientOf EXCEPT ![f.sid] = Nobody]
          /\ watermark' = [watermark EXCEPT ![f.sid] = 0]
          /\ book' = BooksWithout(f.sid)
          /\ registered' = registered \ {clientOf[f.sid]}
          /\ outcome' = [c \in Clients |->
                            IF c = clientOf[f.sid] THEN "stopped" ELSE outcome[c]]
          /\ UNCHANGED <<sidOf, view, orphans>>
    /\ Idle /\ UNCHANGED <<pc, call>>

\* _handle_orphan_subscribed: an acknowledgement nobody waits for.
OrphanSubscribed(f) ==
    /\ f.type = "subscribed"
    /\ \/ clientOf[f.sid] # Nobody /\ Idle /\ UNCHANGED orphans
       \/ /\ clientOf[f.sid] = Nobody
          /\ orphans' = orphans \cup {f.sid}
          /\ Send(UnsubscribeCommand(f.sid))
    /\ UNCHANGED <<local, subs, pc, call>>

Process(f, replay) ==
    Ignore(f) \/ Apply(f) \/ Gap(f, replay) \/ Unsubscribed(f) \/ OrphanSubscribed(f)

Read ==
    /\ pc = "recv" /\ drain = <<>> /\ down # <<>>
    /\ Process(Head(down), FALSE)
    /\ down' = Tail(down)
    /\ UNCHANGED <<server, connected, todo, stash, drain, spent>>

\* _drain_resubscribe_stash: frames of a sid without subscription are dropped.
Replay ==
    /\ pc = "recv" /\ drain # <<>>
    /\ drain' = Tail(drain)
    /\ LET f == Head(drain)
       IN  \/ clientOf[f.sid] # Nobody /\ Process(f, TRUE)
           \/ /\ clientOf[f.sid] = Nobody
              /\ Idle /\ UNCHANGED <<local, subs, orphans, pc, call>>
    /\ UNCHANGED <<server, down, connected, todo, stash, spent>>

-----------------------------------------------------------------------------
(* Waiting for a reply: _wait_for_response.                                *)

Answers(f) == f.type \in {"subscribed", "unsubscribed", "error"} /\ f.id = call.id

\* _maybe_stash, for frames with a top-level sid: a deque per sid that loses
\* its oldest frame when full.
Stashed(f) ==
    LET mine == {i \in DOMAIN stash : stash[i].sid = f.sid}
        first == CHOOSE i \in mine : \A j \in mine : i <= j
        last == CHOOSE i \in mine : \A j \in mine : j <= i
        before == SubSeq(stash, 1, first - 1)
        bucket == SubSeq(stash, first, last)
    IN  IF mine = {} THEN Append(stash, f)
        ELSE before
             \o (IF Cardinality(mine) = StashMax THEN Tail(bucket) ELSE bucket)
             \o <<f>> \o SubSeq(stash, last + 1, Len(stash))

\* A frame that is not the reply: stashed by a resubscription, discarded by a
\* user's subscribe or unsubscribe.
Overhear ==
    /\ pc \in Awaiting /\ call # NoCall
    /\ down # <<>> /\ ~Answers(Head(down))
    /\ down' = Tail(down)
    /\ stash' = IF pc \notin {"subscribe", "leave"}
                   /\ Head(down).type \in {"snapshot", "delta", "unsubscribed"}
                THEN Stashed(Head(down)) ELSE stash
    /\ UNCHANGED <<server, up, connected, subs, local, orphans, pc, call, todo,
                   drain, msgId, spent>>

\* How the wait ends: a reply, the 5 s timeout, or the closed connection.
Answered(types) ==
    /\ down # <<>> /\ Answers(Head(down)) /\ Head(down).type \in types
    /\ down' = Tail(down) /\ UNCHANGED spent
TimedOut == Fault("timeout") /\ UNCHANGED down
Lost == ~connected /\ down = <<>> /\ UNCHANGED <<down, spent>>

Register(c, s) ==
    /\ registered' = registered \cup {c}
    /\ sidOf' = [sidOf EXCEPT ![c] = s]
    /\ clientOf' = [clientOf EXCEPT ![s] = c]

\* The iterator is told, unless its queue was closed before.
Told(c, how) == IF outcome[c] = "halted" THEN "stopped" ELSE how

Remove(c, how) ==
    /\ registered' = registered \ {c}
    /\ outcome' = [outcome EXCEPT ![c] = Told(c, how)]
    /\ UNCHANGED <<sidOf, clientOf>>

\* The stash is handed over for replay.
TakeStash == drain' = stash \o drain /\ stash' = <<>>

\* subscribe, with the receive loop parked, or gone in a session that runs on.
Subscribe(c) ==
    /\ pc \in {"recv", "crashed"} /\ drain = <<>> /\ outcome[c] = "idle"
    /\ pc' = "subscribe"
    /\ call' = [client |-> c, id |-> msgId, replay |-> FALSE]
    /\ Send(SubscribeCommand(c))
    /\ UNCHANGED <<server, down, connected, subs, local, orphans, todo, stash,
                   drain, spent>>

\* However it ends, _ensure_recv_loop resumes the loop or starts a new one.
SubscribeDone ==
    /\ pc = "subscribe"
    /\ \/ /\ Answered({"subscribed"}) /\ Register(call.client, Head(down).sid)
          /\ outcome' = [outcome EXCEPT ![call.client] = "open"]
       \/ /\ Answered({"error"}) \/ TimedOut \/ Lost
          /\ outcome' = [outcome EXCEPT ![call.client] = "refused"]
          /\ UNCHANGED <<registered, sidOf, clientOf>>
    /\ pc' = "recv" /\ call' = NoCall
    /\ Idle /\ UNCHANGED <<server, connected, local, orphans, todo, stash, drain>>

\* unsubscribe, called between two frames by a callback of the receive task (any
\* other task would read the socket at the same time, see RecvLoop). On a closed
\* connection it clears what the reconnect clears anyway, and raises.
Unsubscribe(c) ==
    /\ pc = "recv" /\ connected /\ c \in Leavers \cap registered /\ sidOf[c] # NoSid
    /\ book' = BooksWithout(sidOf[c])
    /\ watermark' = [watermark EXCEPT ![sidOf[c]] = 0]
    /\ pc' = "leave"
    /\ call' = [client |-> c, id |-> msgId, replay |-> FALSE]
    /\ Send(UnsubscribeCommand(sidOf[c]))
    /\ UNCHANGED <<server, down, connected, subs, view, orphans, todo, stash, drain,
                   spent>>

\* Any reply will do; without one the subscription stays.
UnsubscribeDone ==
    /\ pc = "leave"
    /\ \/ /\ Answered({"unsubscribed", "error"})
          /\ clientOf' = [clientOf EXCEPT ![sidOf[call.client]] = Nobody]
          /\ registered' = registered \ {call.client}
          /\ outcome' = [outcome EXCEPT ![call.client] = "stopped"]
          /\ UNCHANGED sidOf
       \/ (TimedOut \/ Lost) /\ UNCHANGED subs
    /\ pc' = "recv" /\ call' = NoCall
    /\ Idle /\ UNCHANGED <<server, connected, local, orphans, todo, stash, drain>>

\* resubscribe_one, first half: any reply or the timeout will do.
Unsubscribing ==
    /\ pc = "unsub"
    /\ Answered({"unsubscribed", "error"}) \/ TimedOut
    /\ clientOf' = [clientOf EXCEPT ![sidOf[call.client]] = Nobody]
    /\ sidOf' = [sidOf EXCEPT ![call.client] = NoSid]
    /\ pc' = "resub" /\ call' = [call EXCEPT !.id = msgId]
    /\ Send(SubscribeCommand(call.client))
    /\ UNCHANGED <<server, connected, registered, outcome, local, orphans, todo,
                   stash, drain>>

Resubscribed ==
    /\ pc = "resub"
    /\ Answered({"subscribed"})
    /\ Register(call.client, Head(down).sid)
    /\ TakeStash
    /\ pc' = "recv" /\ call' = NoCall
    /\ Idle /\ UNCHANGED <<server, connected, outcome, local, orphans, todo>>

\* KalshiSequenceGapError reaches the consumer through broadcast_error.
ResubscribeRefused ==
    /\ pc = "resub"
    /\ Answered({"error"}) \/ TimedOut
    /\ Remove(call.client, "raised")
    /\ pc' = "recv" /\ call' = NoCall
    /\ Idle
    /\ UNCHANGED <<server, connected, local, orphans, todo, stash, drain>>

\* Sentinels for every subscription, none of which is taken off the register.
StopAll ==
    outcome' = [c \in Clients |-> IF c \in registered THEN "halted" ELSE outcome[c]]

\* The connection closes during gap recovery.  A replay logs the exception and
\* goes on; otherwise it ends the receive loop after the sentinels, and leaves the
\* session running.
GapLost ==
    /\ pc \in {"unsub", "resub"} /\ Lost
    /\ \/ call.replay /\ pc' = "recv" /\ UNCHANGED outcome
       \/ ~call.replay /\ pc' = "crashed" /\ StopAll
    /\ call' = NoCall
    /\ Idle
    /\ UNCHANGED <<server, connected, registered, sidOf, clientOf, local, orphans,
                   todo, stash, drain>>

-----------------------------------------------------------------------------
(* Reconnecting: _handle_reconnect and resubscribe_all.                    *)

\* The new connection may number its sids like the old one did.
Reconnect ==
    /\ pc = "recv" /\ drain = <<>> /\ Lost
    /\ connected' = TRUE
    /\ nextSid' \in {nextSid, 1}
    /\ watermark' = [s \in Sids |-> 0]
    /\ book' = [t \in Tickers |-> NoBook]
    /\ clientOf' = [s \in Sids |-> Nobody]
    /\ stash' = <<>>
    /\ pc' = "reall" /\ todo' = registered
    /\ Idle
    /\ UNCHANGED <<version, active, seq, sent, registered, sidOf, outcome, view,
                   orphans, call, drain>>

\* Out of attempts, the session is over.
ReconnectFailed ==
    /\ pc = "recv" /\ drain = <<>> /\ ~connected /\ down = <<>>
    /\ Fault("exhausted") /\ pc' = "dead" /\ StopAll
    /\ UNCHANGED <<server, up, down, connected, registered, sidOf, clientOf, local,
                   orphans, call, todo, stash, drain, msgId>>

ResubscribeNext(c) ==
    /\ pc = "reall" /\ call = NoCall /\ c \in todo
    /\ sidOf' = [sidOf EXCEPT ![c] = NoSid]
    /\ call' = [client |-> c, id |-> msgId, replay |-> FALSE]
    /\ Send(SubscribeCommand(c))
    /\ UNCHANGED <<server, down, connected, registered, clientOf, outcome, local,
                   orphans, pc, todo, stash, drain, spent>>

\* Each subscription succeeds or is dropped with a sentinel, whatever the error.
ResubscribedNext ==
    /\ pc = "reall" /\ call # NoCall
    /\ \/ /\ Answered({"subscribed"}) /\ Register(call.client, Head(down).sid)
          /\ UNCHANGED outcome
       \/ (Answered({"error"}) \/ TimedOut \/ Lost) /\ Remove(call.client, "stopped")
    /\ todo' = todo \ {call.client} /\ call' = NoCall
    /\ Idle
    /\ UNCHANGED <<server, connected, local, orphans, pc, stash, drain>>

ResubscribedAll ==
    /\ pc = "reall" /\ todo = {}
    /\ pc' = "recv"
    /\ TakeStash
    /\ UNCHANGED <<server, up, down, connected, subs, local, orphans, call, todo,
                   msgId, spent>>

ClientStep ==
    \/ Read \/ Replay \/ Overhear
    \/ SubscribeDone \/ UnsubscribeDone \/ Unsubscribing \/ Resubscribed \/ ResubscribeRefused \/ GapLost
    \/ Reconnect \/ ReconnectFailed \/ ResubscribedNext \/ ResubscribedAll
    \/ \E c \in Clients : ResubscribeNext(c)

Next == Environment \/ ClientStep \/ \E c \in Clients : Subscribe(c) \/ Unsubscribe(c)

Spec == Init /\ [][Next]_vars

\* The receive task runs whenever it can; the server answers what it is sent
\* and sends what has changed.
Fairness ==
    /\ WF_vars(ClientStep)
    /\ WF_vars(AcceptSubscribe \/ RejectSubscribe) /\ WF_vars(AnswerUnsubscribe)
    /\ \A s \in Sids : WF_vars(Emit(s))

FairSpec == Spec /\ Fairness

-----------------------------------------------------------------------------
\* Nothing is on its way or waiting to be handled.
Quiet == /\ pc = "recv" /\ connected
         /\ up = <<>> /\ down = <<>> /\ drain = <<>>

(* A local book never differs from the server's book at the last frame      *)
(* applied to it: gaps, repeats, old frames, stale sids and replays never   *)
(* lose or double a delta unnoticed.                                        *)
BookExact == \A t \in Tickers : book[t].sid # NoSid => book[t].val = book[t].ver

\* The server's state a book is in; one whose deltas are not those of its last
\* frame is in none.
NoState == -2
Shown == [t \in Tickers |-> IF book[t].sid = NoSid THEN -1
                            ELSE IF book[t].val = book[t].ver THEN book[t].val ELSE NoState]
Mirror == INSTANCE MirroredBook WITH shown <- Shown

(* The local books mirror the server's: each is absent or goes through the  *)
(* server's states one by one, and is never replaced by another state       *)
(* without having been given up first.                                      *)
MirrorSpec == Mirror!Spec

(* No delta lost or doubled for a consumer that folds its own queue.        *)
StreamExact == \A c \in Clients : view[c].sid # NoSid => view[c].val = view[c].ver

(* A subscription that has taken frames has a book: deltas are never        *)
(* delivered on top of nothing.                                             *)
BookPresent ==
    \A c \in registered :
        sidOf[c] # NoSid /\ watermark[sidOf[c]] > 0 => book[TickerOf[c]].sid # NoSid

(* An iterator that was not told of an end is the one of a registered       *)
(* subscription, and a loop runs that serves it; whoever stays registered   *)
(* without an iterator was told when a loop died; and no sid leads to a     *)
(* subscription that is not registered under it.                            *)
Served == {"open", "halted"}
ToldOrServed ==
    /\ \A c \in Clients : outcome[c] \in Served <=> c \in registered
    /\ pc \in {"crashed", "dead"} => \A c \in Clients : outcome[c] # "open"
    /\ \A s \in Sids : clientOf[s] # Nobody =>
           clientOf[s] \in registered /\ sidOf[clientOf[s]] = s

(* Once everything is handled, server and client agree on who is            *)
(* subscribed: no consumer waits on a sid the server has given up (#81), no *)
(* sid is served that the client gave up (#268).                            *)
ServerAgrees ==
    Quiet => \A s \in Sids : active[s] # Nobody <=> clientOf[s] # Nobody

(* A sid the client gives back serves none of its subscriptions: what the   *)
(* server says of it is taken for the answer.                               *)
OrphansUnserved == \A s \in orphans : clientOf[s] = Nobody

(* The loop feeds no subscription whose iterator has ended.                 *)
NoZombie ==
    pc = "recv" /\ connected =>
        \A s \in Sids : clientOf[s] # Nobody => outcome[clientOf[s]] = "open"

(* Frames stashed for replay are replayed before the loop reads on (#254).  *)
StashReplayed == pc = "recv" /\ drain = <<>> => stash = <<>>

(* A lost connection ends no iterator as long as reconnecting works.        *)
Open == {c \in Clients : outcome[c] = "open"}
LossSurvived == [][~connected /\ ~connected' => Open \subseteq Open']_vars

(* A frame that is not newer than the watermark is ignored.                 *)
OldFramesIgnored ==
    [][/\ pc = "recv" /\ drain = <<>> /\ down # <<>> /\ down' = Tail(down)
       /\ Routed(Head(down)) /\ Head(down).seq <= watermark[Head(down).sid]
       => pc' = "recv"]_vars

(* While no frame is withheld, every open subscription's book comes to      *)
(* show the server's latest state, whatever is redelivered, restarted,      *)
(* reaped or lost with the connection on the way.                           *)
Current(c) == book[TickerOf[c]].sid # NoSid /\ book[TickerOf[c]].val = version[TickerOf[c]]
Converges == []<>(\A c \in Open : Current(c))
=============================================================================
