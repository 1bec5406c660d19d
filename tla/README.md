# A TLA+ model of the Kalshi Python SDK

The Kalshi SDK (`src/kalshi/`) is a client library for an exchange: a REST
client, WebSocket clients that keep local order books, and a FIX client. These
modules model the parts in which several tasks, timers and peers interact, where
a unit test sees one order of events and the program meets all of them, and the
whole surface of the REST client, whose several hundred methods must each get their
guards and their path right. Paths
below are relative to `src/`; `client.py:565` without a directory is
`src/kalshi/ws/client.py`.

Contents: [inventory](#inventory), [modules](#modules-and-how-they-correspond-to-the-code),
[runs](#runs-and-what-they-show), [bounds](#bounds), [fairness](#fairness),
[proofs](#proofs), [disagreements](#where-code-and-documentation-disagree),
[what the code does not promise](#what-the-code-does-not-promise),
[limits](#what-is-not-modelled), [what could follow](#what-could-follow).

## Inventory

| Component | State | Operations | What makes it correct |
|---|---|---|---|
| Subscription queue, `kalshi/ws/backpressure.py` | a `deque(maxlen = maxsize + 1)`, an `asyncio.Event`, `_closed` | `put`, `put_sentinel`, `put_error`, `get`, `__anext__` | messages in order, each at most once; loss only of the oldest and only in DROP_OLDEST; closing keeps the backlog and ends the iteration; no consumer sleeps on a filled queue |
| Session, `kalshi/ws/client.py` | `_running`, the managers, `_recv_task`, `_subscribe_lock`, `_pause_pending`, `_pause_granted`, `_resume_signal` | `_start`, `_stop`, `_recv_loop`, `subscribe_*`, `unsubscribe`, `run_forever`, `_handle_reconnect`, `_handle_seq_gap` | one reader of the socket; a pause only between frames; no subscription during a reconnect; every iterator ends when nobody feeds it; every shutdown completes |
| Subscription manager, `kalshi/ws/channels.py` | `_subscriptions`, `_sid_to_client`, `_stash`, message ids | `subscribe`, `unsubscribe`, `resubscribe_one`, `resubscribe_all`, `take_stash`, `broadcast_error` | client and server agree on who is subscribed; frames that arrive during a resubscription are replayed in order |
| Sequence tracker, `kalshi/ws/sequence.py` | last seq of each sid | `track_sync`, `reset`, `reset_all`, `rollback` | no gap goes unnoticed, no frame counts twice |
| Dispatcher, `kalshi/ws/dispatch.py` | `_pending_orphan_unsub`, callbacks | `dispatch`, server-side unsubscribe, orphan acknowledgements | a subscription the server ended, or that nobody owns, is cleaned up on both sides |
| Order books, `kalshi/ws/orderbook.py` | price levels and sid of each ticker, cached views | `apply_snapshot`, `apply_delta`, `remove_by_sid`, `clear` | a local book is the server's book at the last frame applied |
| Connection, `kalshi/ws/connection.py` | the socket, the connection state | `connect`, `send`, `recv`, `reconnect`, `close` | reconnect attempts are bounded; a closed session has no socket |
| Perps session, `kalshi/perps/ws/client.py` | as the session, and `_resume_ack` | `subscribe_*`, `unsubscribe`, `update_subscription*`, `list_subscriptions`, the receive loop, `_stop` | one reader of the socket, `unsubscribe` included; a pause answered by the loop it was asked of; no consumer stranded; every command returns |
| FIX session, `kalshi/fix/session.py` | sequence numbers of both directions, pending messages, resend flag, state | logon, send, receive, gap fill, resend, heartbeat, reconnect, logout | in-order delivery, exactly one logon, dead peers are noticed, a gap is recovered or ends the session |
| HTTP transport, `kalshi/_base_client.py` | none between requests; whether it is closed | one request with signatures, attempts and pauses; `close` | what may have taken effect is not repeated, and the caller is told the truth about it; the total budget holds |
| Pagination and resource base, `kalshi/resources/_base.py` | cursors seen, pages fetched | `_seg`, `_get`, `_post`, ..., `_list`, `_list_all` | an identifier stays in its place in the path; no page is asked for twice; it ends |
| Authentication, `kalshi/auth.py` | the signing executor, `_closed`, a lock | `sign_request`, `sign_request_async`, `close` | one executor at most, and none after `close()`; every attempt has a signature of its own |
| REST resources, `kalshi/resources`, `kalshi/perps/resources`, `kalshi/perps/klear` | none | every public method, sync and async | nothing leaves without the credentials it needs; every method reaches its own endpoint |
| FIX clients and order books, FIX codec, WebSocket and REST models, configuration, contract map, test support | data | stateless, or a map that one caller updates | see [limits](#what-is-not-modelled) |

**How they interact.** User tasks call `subscribe_*`; the session takes its lock,
asks the receive loop to park, and lets the caller read its own acknowledgement
through the subscription manager. The receive loop reads frames, passes each to
the sequence tracker, then the order books, then the dispatcher, which puts it
on the queue of the subscription behind its sid. A gap makes the loop itself
unsubscribe and subscribe again; frames of any sid that arrive meanwhile are
stashed and replayed. A lost connection makes it take the lock, reconnect, clear
sequences, books and the sid map, and subscribe everything again. Consumers
iterate over queues. Everything of a session runs on one event loop, so tasks
interleave at awaits only; the awaits are where the models cut their steps. A REST
method checks its arguments, hands one request (or one per page) to the transport,
which has each attempt signed, inline or on the executor of `KalshiAuth`, and turns the
reply into a model. The executor is shared by threads, so there the steps are single
reads and writes.

**What is hard.** Two tasks that want the same `recv()`; events and locks that
are waited for without a timeout by tasks that can be cancelled or can die;
frames in transit while the meaning of their sid changes; replies that arrive
after their timeout; a second failure during the recovery from the first.
`PROJECT.json` lists each such hazard at its line, with the properties about it.

## Modules and how they correspond to the code

| Module | Models | Steps |
|---|---|---|
| `BoundedStream` | what an iterator promises: accept, displace, deliver, close, end | abstract specification |
| `MessageQueue` | `backpressure.py`; refines `BoundedStream` | one per call of `put*`; a consumer's `__anext__` is polling, waiting, woken, then taking |
| `MessageQueue_proofs` | theorems about `MessageQueue` | |
| `RecvLoop` | the tasks of one session: receive loop, subscribers, unsubscribers, `_stop`, `run_forever` | what a task does between two awaits |
| `RecvLoop_proofs` | theorems about `RecvLoop` | |
| `MirroredBook` | what a local book promises its reader: absent, or the market's states one by one | abstract specification |
| `OrderbookFeed` | sequenced channels end to end: server, network, tracker, books, dispatcher, subscription manager; refines `MirroredBook` | one frame handled, one command sent, one reply awaited |
| `OrderbookFeed_proofs` | theorems about `OrderbookFeed` | |
| `OrderedDelivery` | what a FIX session promises about application messages | abstract specification |
| `FixSession` | `fix/session.py` over `fix/connection.py`: receive task, heartbeat task, senders, `close`; the gateway and the network; refines `OrderedDelivery` | what a task does between two awaits that last |
| `FixSession_proofs` | theorems about `FixSession` | |
| `PerpsSession` | the tasks of one perps session: receive loop, commands, `_stop` | what a task does between two awaits |
| `PerpsSession_proofs` | theorems about `PerpsSession` | |
| `RemoteCall` | what a REST call promises: at most one effect, and a true verdict | abstract specification |
| `HttpTransport` | `request` of both transports, the wire and the exchange; refines `RemoteCall` | signing, sending, an answer or a failure, a pause |
| `SignExecutor` | the signing pool of `auth.py` | one unlocked read, one section under the lock, one write of `close()` |
| `ApiOps`, `PredictionApi`, `CommunicationsApi`, `PerpsApi`, `KlearApi` | the endpoint tables: each method's checks in their order, helper, path and use of the reply | constants, no state |
| `RestClient` | one method call from the first check to the last page; composes `HttpTransport`, `SignExecutor` and the tables | those of its parts, a refusal, a decoded reply, a next page |
| `HttpTransport_proofs`, `SignExecutor_proofs`, `RestClient_proofs` | theorems about them | |
| `MCOrderbookFeed` | assignments of markets to subscriptions, for TLC | |

`RecvLoop` and `OrderbookFeed` describe the same program from two sides. In
`RecvLoop` a frame is only "handled well, overflowing, crashing, or finding a
gap", and the subject is which task may run. `OrderbookFeed` takes from it that
one coroutine reads the socket at a time (`RecvExclusive`, proved) and that no
subscription is added during a reconnect (`QuietReconnect`, proved), and the
subject is what the frames do. The queue behind each subscription is
`MessageQueue`.

**MessageQueue.** `buffer` is the deque with its terminals, `closed` is
`_closed`, `overflow` the strategy the queue was made with. `Event.set` moves
every waiting consumer to "woken", as asyncio does: the waiter is scheduled even
when another task clears the event first. `delivered` and `puts` are history.
Several consumers may share a queue. `Push` is what `deque(maxlen)` does,
eviction included, so that "the terminal always fits" is a consequence and not
an assumption.

**RecvLoop.** `pausePending`, `granted`, `resume` are `_pause_pending` and the two
events; `lock` and `queue` the asyncio lock with its waiters in order. `loop`
says at which await the receive task is: `recv`, `handling` (a user callback),
`parked`, `resumed` (woken, not yet running), `lock`, `reconnect`, `resub`,
`resync` (a gap recovery), `teardown` (inside `close()` after an overflow).
`LoopTop` is the code from one such await to the next through the top of the
`while`. Environment actions `Drop` (retryable or permanent), `FrameOverflow`,
`FrameCrash`, `GapFound`, `Cancel`, `StopBegin`, `ForeverBegin` are the
disturbances; `Events` says which of them a run allows, `MaxEvents` how many.

**OrderbookFeed.** The server assigns sids, numbers frames per sid and answers
commands in order; the network is a queue in each direction. `pc` and `call` are
the reply some handler is waiting for; `stash` are the frames it overheard;
`drain` the frames taken out of it for replay. `Subscribe` happens while others run (for
`Late` clients), `Unsubscribe` between two frames, from a callback (for `Leavers`): from any
other task it would read the socket beside the loop, which is `RecvLoop`'s subject. A book is a count of applied
deltas together with the version the last frame stood for: equal when no delta
was lost or doubled. `view` is the same for a consumer that folds the frames of
its own queue. Faults are chosen by `Faults`: frames skipped, repeated, delivered
again late, numbered from 1 again at once (`reset`, where the restart cannot be mistaken for a
repeat) or whatever the watermark (`late_reset`), malformed; snapshots malformed; commands
rejected, timing out (the late reply still arrives); a server-side unsubscribe
("reap"); a lost connection and a reconnect that fails for good ("exhausted"). A new connection goes on numbering sids or
starts again from 1. A loss during a gap recovery that was not begun by a replay ends the loop (`pc = "crashed"`,
`client.py:419-429`): every open iterator is told ("halted"), but the session runs on with its subscriptions registered, and a later
`Subscribe` starts a new loop (`client.py:277-278`), whose reconnect resubscribes them all.

**FixSession.** `outSeq`, `inSeq`, `pending`, `asked` are `_out_seq`, `_in_seq`,
`_pending`, `_resend_requested`. `reader` says where the receive task is: opening
a connection, in the `logging_on` callback (`greet`), waiting for the Logon, reading,
in `on_message` (`deliver`), between two messages of `_drain_pending`, in a back-off.
`start()` takes the same steps with `attempt = 0`. `sock` is the current
`FixConnection`; a failed attempt's connection is replaced without being closed and
counted in `leaked`. A frame has a type, a number and one value (the application
message, the start of a resend, `NewSeqNo`). A Heartbeat of the client is an
application message to the gateway, which only counts it. The gateway is external:
it keeps what it sent (`log`), answers logons, resend and test requests, asks for a
resend when it misses a number, and stores what is made while no connection is up.
Faults: the connection breaks (`drop`) or falls silent (`mute`), the codec rejects a frame,
new, sent again or a reply (`skip`; `missed` remembers that one sent again was), an admin message is malformed and answered with a
Reject (`malformed`), a frame comes twice (`repeat`), no connection
(`refuse`), no or no good answer to a logon (`slow`, `reject`), `on_message` holds
the receive task longer than two intervals (`stall`), `on_state_change` raises (`raise`: it fails a logon, ends the receive
task (`reader = "raised"`) or is without effect, depending on the state announced), the gateway logs out (`logout`).

**PerpsSession.** `kalshi/perps/ws` is a fork of `kalshi/ws` with another handshake. Every command
takes `_subscribe_lock`, parks the loop (`PauseRecvLoop`), works (`Proceed`), and in a
`finally` gives the socket back (`EnsureRecvLoop`), waiting for `_resume_ack` with the lock in
hand. `call` says where each caller is: in line for the lock, waiting for the pause, granted, reading its
reply (`act`), in `send` on a closing connection, waiting for the acknowledgement (`resuming`),
acknowledged. A gap tells the consumer and resubscribes nothing. `loop = "none"` is
`_recv_task is None`, which the teardown of the loop leaves behind as well, and which makes a
`_stop` that waits for that loop raise (`StopRaises`).

**The REST client.** `at` is where a request is, `attempt` the loop variable, `elapsed` the clock since
the start, `verdict` how it ended. The exchange is external: a request on the wire is in `inflight`
until it is carried out or lost, on its own time, even after the caller has given up; `applied`
counts effects. Replies are the classes `_map_error` tells apart. A connection that was never made,
a pool without a free connection, a time-out, a broken connection and a client closed meanwhile are
one action each, because `request` has a handler for each. In `SignExecutor` executors are numbered by
construction, so that "a second one was made" and "one is still alive" can be said. The tables were
read method by method from the resource classes: `checks` holds in order what can refuse the call
(`auth` is `_require_auth`, `seg` is `_seg`, the rest the parameter and body builders);
the async classes repeat the sync ones and are derived by `Awaited`, with both classes named in the
map. `RestClient` calls any of them once, with or without credentials, with each check failing or not, and with
segments that are an identifier, empty, blank, `.`, `..`, or contain a slash, and then follows the request,
page by page for `list_all`, while another thread may close the client.

Definitions that begin with the comment `Mutant` are not part of the
specifications: each is a plausible wrong version of a neighbouring definition
and is used to check that the properties notice the difference.

## Runs and what they show

`tlc -config <cfg> <module>` for each. Deadlock is not checked: every model
stops when its bounded environment is used up, and liveness properties say what
must have happened by then.

| Run | Module | Shows |
|---|---|---|
| `MessageQueue.cfg` | MessageQueue | both strategies, two consumers with cancellation: refinement of `BoundedStream`; no lost wake-up; a terminal is last and ends one iteration; a closed queue is drained and ends |
| `RecvLoopSession.cfg` | RecvLoop | three subscribers and seven kinds of disturbance: one reader, quiet reconnects, no consumer stranded by a dead loop, `_stop` always completes, and in a calm session every subscriber returns and every pause ends |
| `RecvLoopUsers.cfg` | RecvLoop | cancellations of the callers and an unsubscribing task: no live loop feeds closed queues |
| `FeedFaults.cfg` | MCOrderbookFeed | a subscription made while another runs, whose user may end it, and any two of ten faults, a loop that dies of a loss during a gap recovery and is started again by the late subscription among the consequences, and sids of the old connection that the new one gives to others: books are exact or absent and go through their market's states one by one (refinement of `MirroredBook`), every iterator is served or told |
| `FeedConverges.cfg` | MCOrderbookFeed | frames repeated, delivered again, numbered afresh, subscriptions ended by the server, lost connections: client and server agree at rest, and books come to show the latest state |
| `FixSession.cfg` | FixSession | both kinds of session, any two of eleven faults, `close()` at any moment: messages are handed over once and in order (refinement of `OrderedDelivery`), neither side's numbers run ahead or back, no session is left active without its receive task, silence is noticed, a gap closes while its connection holds and what is sent again arrives, `close()` completes |
| `PerpsSession.cfg` | PerpsSession | three commands, eight kinds of disturbance: one reader, fresh pauses, no consumer stranded, and in a calm session every command returns and every pause ends |
| `RestClient.cfg` | RestClient | every method of the tables once, sync and async, with every failing argument, against an exchange that loses, delays, refuses and garbles and a server that cycles through cursors: refinement of `RemoteCall`; the budget; a signature of its own on every attempt that needs one; the path intact; no page twice; one executor, dead with the client; and every call returns |
| `BugReconnectDeadlock.cfg`, `BugPerpsStop.cfg`, `BugResendForgotten.cfg`, `BugReplayOrder.cfg` | RecvLoop, PerpsSession, FixSession, MCOrderbookFeed | counterexamples, see [below](#where-code-and-documentation-disagree) |

## Bounds

* `MessageQueue`: capacity 2, five puts. The buffer fills, displaces twice and
  still has a backlog when it is closed; both consumers can wait, be woken for one
  message and lose it to the other. The proofs remove these bounds.
* `RecvLoop`: three subscribers are one in the handshake, one queued on the lock
  and one that arrives late. Three disturbances suffice for a failure during the
  recovery from a failure during a shutdown. Each subscriber calls once; a task
  that calls again behaves as another task. The safety theorems hold without
  the bounds.
* `OrderbookFeed`: two subscriptions, one whose recovery overhears the other; two changes per market after the
  snapshot, enough for a gap, an old frame and a restarted numbering. In `FeedFaults` the second subscription is made
  while the first runs (`Late`), the first may be ended by its user (`Leavers`), five sids leave three for recoveries, and `FewChanges` bounds the changes of both markets together by three;
  in `FeedConverges` both are there from the start, and six sids let two recoveries of each subscription
  find a number (when `MaxSid` is used up the server stops answering subscribes, which looks like a timeout and is
  excluded from the liveness run by the bound of two faults); `StashMax` 9 is above what a behaviour can stash.
  `BugReplayOrder` needs three subscriptions, and four sids, since the new connection may number them from 1. The safety theorems hold without these bounds; their
  hypotheses name the faults and the subscribers they exclude.
* `FixSession`: two connections are a session and its reconnect; two attempts, one that
  fails and the last; three messages of the gateway, a gap with a message behind it;
  two of the client besides what it has to send. Two gaps on one connection need
  `MaxLog = 5`, `MaxConns = 1`, `Faults = {"skip", "repeat"}`: every property of the run
  holds there too. `BugResendForgotten` needs a third connection.
  The theorems hold without these bounds. Answers are not bounded by `MaxLog` or `MaxOut`, so no bound makes a peer silent.
* `PerpsSession`: three callers are one in the handshake, one in line, one that comes late;
  two disturbances, one during the recovery from the other. `list_subscriptions` changes what
  `update_subscription` changes here, nothing, and is not issued apart. The safety
  theorems hold without the bounds.
* `RestClient`: two retries are a first, a middle and a last attempt; delays and attempts of at most
  one unit against a budget of one unit, so that a pause fits or just does not, and `Retry-After`
  of 0 and of 5, below and beyond every limit. One call: a client keeps nothing between calls but its
  pool and its executor. Three cursors with a cap of two make the guard forget one. The client is
  closed during one method of each kind (a POST, a paging GET, a clearing GET), since closing interacts
  with the transport and not with the table. `CursorsAssumption`: with more cursors than
  the guard remembers plus one, `EveryCallReturns` is false (see below). The theorems need none of these bounds.

## Fairness

* `MessageQueue`: a woken task runs, a polling consumer asks again, so
  weak fairness of the consumer's steps; none of the producer.
* `RecvLoop`: the event loop runs every task that can go on. `WF(LoopStep)`
  includes that a frame's handler returns, that the 50 ms poll expires, and that a
  reconnect ends in success or failure (`ws_max_retries` bounds it).
  `WF(SubscribeAcked \/ SubscribeFailed)`: an acknowledgement arrives or the 5 s
  timeout expires. No fairness for asyncio events and locks beyond this: a
  subscriber that waits for `_pause_granted` waits for a step of the loop.
  Nothing is assumed of disturbances, or that a user ever calls anything.
* `OrderbookFeed`: the client handles frames, the server answers commands and
  sends what has changed. Faults are never fair.
* `FixSession`: the receive task and `close()` run on, a callback returns, a silent peer
  is noticed once its time is over (the heartbeat task sleeps half an interval at a time),
  the gateway answers what reaches it. Nobody has to send, and no time-out has to beat an answer.
* `PerpsSession`: as `RecvLoop`; a reply arrives or the 5 s time-out expires. Nothing is assumed of a
  command that waits for `_pause_granted` or `_resume_ack`.
* `RestClient`: `WF(Advance)`, the call itself: `httpx` bounds every phase of an attempt by a time-out,
  sleeps end, and the caller keeps iterating. And a closer that is inside the lock leaves it. Nothing of
  the exchange: that it never answers is a time-out.

## Proofs

`tlapm M_proofs.tla` for `M` each of MessageQueue, RecvLoop, OrderbookFeed, FixSession, PerpsSession, HttpTransport,
SignExecutor and RestClient. The assumptions are those named in the modules; a theorem that needs more says so in its
ASSUME, and the [table below](#what-the-code-does-not-promise) has the counterexample that makes it necessary.

**MessageQueue**, for every capacity at least 1 (`SizeAssumption`), any set of
consumers, either strategy, any number of puts. `TypeOK`, `NoLostWakeup` and
`EndsOnce` are not inductive on their own: that a taken terminal leaves the buffer
empty, or that a terminal never pushes a message out, depends on where
terminals can stand. `Shape` says it: an open queue holds at most `MaxSize` items
and no terminal; a closed one holds exactly one terminal, at the end, until it has
been taken, after which the buffer is empty. `IInv` is the conjunction; `StoreKeepsIInv` covers
the puts. From it follow `TypeCorrect`, `ConsumersServed`, `TerminalAlwaysLast`,
and the refinement `Implements == Spec => StreamSpec`: `BacklogHolds` shows that
the number of messages under the refinement mapping is what the shape says, and
`NextImplements` maps each action to `Accept`, `Displace`, `Deliver`, `Close`, `End` or a
stutter.

**RecvLoop**, for any sets of tasks and any disturbances. `RecvExclusive`
depends on three facts about who holds what. `Holder`: a subscriber in the
handshake holds the lock. `LoopHolds`: so does the loop during a reconnect. `AtCheckpoint`:
from the grant on, the loop is gone, or parked with the pause still
pending, so that when it is woken it parks again instead of reading. `IInv` is these with
`TypeOK`; one lemma per group of actions shows that it is preserved, with `LoopTopKeeps` and
`EnsureKeeps` for the two operators most actions share. From it follow
`TypeCorrect`, `SafePause`, `OneReader` and the action property `ReconnectIsQuiet`. `NobodyStranded` follows the
subscriptions through every way a loop can end: `TellInv` says that a session that is over without a shutdown was torn down and its consumers told
(`Ends`), that afterwards no reply can add another (`TooLate`), and that a loop that died can be resumed by nobody (`DiesOffline`, `Requested`). It is proved for sessions without unsubscribers in which a
loop does not crash while callers are cancelled; with both a withdrawn pause resumes a dead loop, and an unsubscriber kills the loop
silently. `NobodyDeadIsServed` (`NoZombie`) is proved from `ZombieInv` where nothing ends a loop outside a teardown (`~LoopMayDie`).

**OrderbookFeed**, for any number of subscriptions, markets, changes, sids and faults. `ServeInv` adds to `TypeOK` and `ToldOrServed` what is known of
the command whose reply is awaited (`Waiting`): whoever is being resubscribed is registered and no sid leads to it; and that a connection
that breaks takes the server's side with it (`Cut`), so that a sid numbered afresh belongs to nobody. A loop that died and was started again is
covered: `ToldOrServed` says that its subscriptions were told, and are registered. It needs
no hypothesis (`TypeCorrect`, `EveryoneToldOrServed`). `BooksAreExact` rests on one relation: on each sid the distance between sequence
number and version is the same for every frame under way, stashed or being replayed, for the watermark with the book, and for what the server sends
next (`Numbered`). `Labels` says so of the frames, with what makes sids mean the same on both sides: sids are used once within a connection and the ids of commands once (`Fresh`), a
frame carries the market of the subscription its sid leads to (`RightMarket`), and so will the reply that is awaited (`RightReply`). `RightBooks` says so of
the books. A step that skips, repeats or reorders frames leaves the relation alone, and the tracker accepts only the number after the watermark.
Hypotheses: a numbering that starts again breaks the relation, and two subscriptions of one market share a book. `BooksMirror` proves the
refinement of `MirroredBook` under the same two: a delta in order is the market's next state (`Advance`), a snapshot only ever meets an absent
book, for its number is 1 and a mapped sid with a book has a watermark already (`Load`), every recovery gives books up (`GiveUp`), and nothing shown is
ahead of its market, because no frame and no sid is (`NotAhead`). `BothSidesAgree` rests on `AgreeInv`: one
command at a time is on its way, or its answer is (`OneAsk`); nothing follows the end of a sid, not even in a stash (`Ended`); and where the
two sides differ on a sid, what will tell the client is under way, an acknowledgement or an end (`Agreed`). Its hypotheses (`Settled`) exclude a user's
`subscribe` and `unsubscribe`, which discard what they overhear, and replies that are refused or late.

**FixSession**, for both kinds of session, any faults, any number of connections, attempts and messages.
Whether a message may be handed over depends on whether the frame that carries it, the ones set aside, the
gateway's log and the watermark agree, across resets that start the log anew. `FixInv` says it: what is
settled at each place of the receive task (`Places`), at most one Logon under way and what it may ask for
(`OneLogon`), that what comes down or is set aside is true of the log (`DownHonest`, `PendingHonest`), that
what goes up is numbered in order between what the gateway expects and `outSeq` (`UpHonest`), how the log
relates to the messages made (`LogHonest`), that exactly the messages below the watermark have been
handed over (`Watermark`), and how a session whose receive task ended by itself is left (`Stopped`). `NoLink` is
needed for one action and kept apart. From it: `TypeCorrect`, `Honest`, `InOrder`, and the refinement `Implements`; `NotWedged`, which holds for callbacks that raise as
well and says no more than `session.py:475-477` does, that the session is not left active; and `QuietCallbacks`, that it is closed and not running
(`EndIsNoticed`), under the hypothesis that `on_state_change` does not raise.

**PerpsSession**, for any callers and disturbances. As in `RecvLoop`, `RecvExclusive` needs `Holder`, `LoopHolds` and
`AtCheckpoint`; that these survive a teardown or `close()` around a command needs `ClosedEnds` and
`TornDown` (a session without managers is over, and so is one whose socket is closing). `PendingHeld` and `ParkedHeld`
say whose request a pending pause or a parked loop answers: with them `PausesAreFresh` follows. `TypeCorrect`, `OneReader`.
`NobodyStranded` from `TellInv`: whatever ends the session has told the consumers before its loop is gone (`OverIsTold`), and so has a loop that
died in a session that runs on (`DeadIsTold`). It needs no hypothesis on the constants; the property itself leaves out the running
session in which a command was cancelled.

**HttpTransport**, for any settings. `OneEffect` counts: what can still take effect and what has taken effect
make at most one, none while the request may be sent again. `InTime`: a pause is only begun if it ends within the
budget. `TurnLeft`: and only if a turn of the loop is left. From them `TransportTyped`, `WithinBudget` and the refinement `TransportImplements`.

**SignExecutor**, for any threads. The three writes of `close()` are tied to the place of the closer inside
the lock, and an open signer without an executor has never had one (`FirstPool`): `ClosedForGood`.

**RestClient**, for any settings, caps and cursors. `Composition`: every step of the client is a step or a
stutter of the transport and of the executor, so the theorems about those carry over (`ClientImplements`). `AlwaysSigned`
uses `GuardsAssumption`, the fact about the tables that every private method checks for credentials or carries the
bearer token, which TLC evaluates on the tables themselves. `PagesOnce` from `Remembered`: the
first `CursorSeenCap` cursors sent are all in the set. `TypeCorrect`; `PathsIntact` uses `RoutesAssumption`, that each route
with the segments its checks let through keeps them in their places, which TLC evaluates for every method and every segment value.

Only model-checked: liveness (`ClosedEnds`, `EveryMessageLeaves`, `StopCompletes`, `HandshakeEndsInCalm`, `Converges`,
`GapRecoveredOnOneConnection`, `DeadPeerNoticed`, `CloseCompletes`, `EveryCallReturns`), since TLAPS does not reason about
`ENABLED`; that `GuardsAssumption` and `RoutesAssumption` hold of the tables, which are data. Every invariant, safety action property and refinement of a passing run is
stated by a theorem, under hypotheses that the run satisfies.

## Where code and documentation disagree

Four runs whose configuration names one property expect TLC to violate it:

* `BugReconnectDeadlock`: `_handle_reconnect` (`client.py:565`) waits for the lock of a
  subscriber that waits for the loop to park. Neither ever goes on.
* `BugPerpsStop`: `_stop` sets `_resume_ack` once, to release whoever awaits it
  (`perps/ws/client.py:177-179`). A command whose pause is granted by that very `_stop` is refused afterwards, and its
  `finally` clears the event and waits for it (`perps/ws/client.py:246-251`); the loop is leaving and does not
  set it again. The command hangs with the lock in its hand.
* `BugResendForgotten`: `_resend_requested` (`fix/session.py:661`) outlives the connection its
  request was sent on; after a reconnect no request is made, and an active session buffers
  every message for good. `GapRecoveredOnOneConnection` is what does hold: a gap closes as long as its connection holds and no
  frame sent again is rejected by the codec. One that is (`fix/session.py:443-447`) has the same effect as the reconnect: the flag stays
  set, and nothing asks for the frame a second time.
* `BugReplayOrder`: a gap found while the stash is replayed resubscribes, and `_handle_seq_gap` drains the stash of that resubscription
  (`client.py:711`) while the outer replay still holds frames of other subscriptions. A delta overheard meanwhile is accepted as the
  first frame of its sid, before the snapshot that arrived first, which is replayed afterwards, found to be a gap, and makes a healthy
  subscription resubscribe. `docs/websockets.md:363-364` promises arrival order. The resubscription repairs the book.

## What the code does not promise

Properties one might expect that TLC refutes, each reproduced by the constants and the property given (others as
in the module's passing runs, one disturbance or fault per kind named unless said otherwise):

| Module, constants | Property | What happens |
|---|---|---|
| RecvLoop, `Events = {"stop"}` | `SubscribeReturns` | `_stop` cancels a loop that had not granted the pause; the subscriber waits for good (`client.py:300`) |
| RecvLoop, `{"crash"}` | `SubscribeReturns` | the same after a crashing callback; only the overflow path sets the events (`client.py:402-407`, #332) |
| RecvLoop, `{"stop_event"}` | `ForeverCompletes` | a subscriber granted its pause just before the stop event raises from the check at `client.py:748-757`, outside the `try` that resumes the loop; `run_forever` awaits a loop that stays parked (`client.py:1084`) |
| RecvLoop, `{"cancel"}` | `LoopComesBack` | a subscriber cancelled between grant and `try` leaves the loop parked (`client.py:741`) |
| RecvLoop, three subscribers, `{"crash", "cancel"}` | `NoStrandedConsumer` | a withdrawn pause makes `_ensure_recv_loop` resume a loop that is dead (`client.py:269-275`): the hypothesis of `NobodyStranded` |
| RecvLoop, `{"crash"}`, `{"refuse"}` or `{"gap", "drop"}` | `NoZombie` | the hypothesis `LoopMayDie` of `NobodyDeadIsServed`: the next `subscribe_*` starts a new loop while the old subscriptions, whose queues are closed, stay registered; the overflow path avoids this (`client.py:381-386`) |
| RecvLoop, `{"drop", "stop"}` | `StoppedIsClosed` | `close()` closes the old socket while a reconnect attempt opens the next; the cancelled loop leaves it open (`connection.py:222`) |
| RecvLoop, one unsubscriber, `Events = {}` | `NoStrandedConsumer` | `unsubscribe` (`client.py:979`) reads the socket without pausing the loop, whose own `recv()` raises `ConcurrencyError`: the loop dies without sentinels, against `client.py:420-423` |
| RecvLoop, one unsubscriber, `Events = {}` | `UnsubscribeNeverClashes` | or `unsubscribe` raises it in its caller |
| PerpsSession, three callers, `{"cancel"}` | `CommandReturns` | cancelled between the pause and the `try` (`perps/ws/client.py:551-555`) a command leaves `_pause_pending`; the loop parks, the next command clears the grant it had given and waits for good. With two callers the loop stays parked (`LoopComesBack`) |
| PerpsSession, `{"crash"}` or `{"drop"}` | `CommandReturns` | a crashing callback ends the loop without releasing the command; a reconnect waits for the lock of a command that waits for the loop, as in `kalshi/ws` |
| PerpsSession, two disturbances of `{"stop", "overflow"}` | `StopCompletes` | the loop tears the session down, `_recv_task` included, while `_stop` waits for it; `_stop` then asks `None` whether it is `done()` and raises AttributeError (`perps/ws/client.py:193`, `230`) |
| OrderbookFeed, both subscriptions late, no faults | `BookPresent` | `subscribe` discards the frames it overhears (`channels.py:236`); when one is another subscription's first snapshot, the delta after it is accepted as the first frame of its sid, on top of no book. `channels.py:189-191` says the frames do not matter |
| OrderbookFeed, `{"skip", "bad_snapshot"}`, `MaxVersion = 3` | `BookPresent` | a malformed snapshot is rolled back to "no frame yet", and the next delta is the first frame of the sid (`client.py:544-545`) |
| OrderbookFeed, one subscription, `{"skip", "late_reset"}`, `MaxVersion = 3`, two faults | `BookExact` | a numbering that restarts at the number last seen is taken for an exact repeat (`sequence.py:72-82`) and that delta is lost. With `reset`, whose restart differs from the watermark, the book is exact as long as no user call discards frames |
| OrderbookFeed, `Late = {c2}` or `Leavers = {c1}`, `{"reset"}`, `MaxVersion = 3` | `BookExact` | `subscribe` and `unsubscribe` discard the frames they overhear (`channels.py:236`) without moving the watermark, so that a restarted numbering meets the old one there |
| OrderbookFeed, `OneTicker`, no faults | `BookExact` | two subscriptions of one market apply each delta to the shared book twice (`orderbook.py:195`): `OwnMarkets` in `BooksAreExact` |
| OrderbookFeed, `Leavers = {c1}`, `{"timeout"}` | `BookPresent`, `StreamExact` | `unsubscribe` clears book and watermark before it sends (`client.py:965-977`); when the acknowledgement does not come the subscription goes on without them |
| OrderbookFeed, `Leavers = {c1}`, `{"reap"}` | `ServerAgrees` | a server-side unsubscribe of another subscription overheard by `unsubscribe` is discarded |
| OrderbookFeed, `{"skip", "reject"}`, two faults | `StashReplayed` | a refused resubscription returns before the stash is drained (`client.py:688-698`) |
| OrderbookFeed, `{"reap"}`, `Late = {c2}` | `ServerAgrees` | a server-side unsubscribe overheard by `subscribe` is discarded; the consumer waits for good (`channels.py:236`, `dispatch.py:115-117`) |
| OrderbookFeed, `{"timeout"}`, both late | `ServerAgrees` | a late acknowledgement overheard by the next `subscribe` is discarded; the server keeps sending on it (`dispatch.py:170-190`) |
| OrderbookFeed, `{"drop"}`, two faults | `LossSurvived` | a second loss during `resubscribe_all` ends the iterators that were not yet resubscribed (`docs/websockets.md:340-341`) |
| OrderbookFeed, `{"skip", "drop"}` | `LossSurvived` | a loss during a gap recovery ends the receive loop instead of reconnecting (`channels.py:215-217`) |
| OrderbookFeed, `Late = {c2}`, `{"skip", "drop"}` | `NoZombie` | the same loss leaves the session and its subscriptions in place (`client.py:419-429`); the next `subscribe_*` starts a new loop (`client.py:277-278`) that reconnects and feeds the queues it has closed: `NoZombie` of `RecvLoop` again |
| OrderbookFeed, both late, `{"timeout", "drop"}`, two faults | `OrphansUnserved` | a reconnect does not clear `_pending_orphan_unsub` (`dispatch.py:80`); the new connection gives the sid to another subscription, and when the server ends that one it is taken for the answer to the orphan's unsubscribe (`dispatch.py:136-137`) |
| OrderbookFeed, `{"timeout", "drop"}`, two faults | `ServerAgrees` | after a reconnect the late acknowledgement of a subscription that was given up is overheard by the resubscription of the next and kept out of the stash: the server goes on sending on that sid, nobody is told to unsubscribe it |
| OrderbookFeed, `{"redeliver"}` | `OldFramesIgnored` | an old frame is treated as a gap and resubscribes; only an exact repeat is ignored (`docs/websockets.md:259`) |
| OrderbookFeed, `StashMax = 1`, `{"drop"}`, two faults | `BookPresent` | the documented eviction drops a snapshot; the deltas behind it are replayed |
| FixSession, `Faults = {}` | `LogonFirst` | `send()` asks for an open connection only (`fix/session.py:268`): a message sent from the state callback goes out before the Logon |
| FixSession, `{"drop", "raise"}` | `EndIsNoticed` | `_reconnect` runs inside the exception handlers of `_recv_loop` (`fix/session.py:439`, `470`) and awaits `on_state_change` with nothing around it (`707`, `733`, `753-754`): one that raises ends the receive task with `_running` set, in state RECONNECTING or CLOSED, until somebody calls `close()`. The backstop at `474-477` does not see it; not being ACTIVE is all that is left of its promise (`NeverWedged`) |
| FixSession, `MaxConns = 1`, `{"skip"}`, two faults | `GapRecovered` | a frame that was sent again is rejected by the codec and never asked for a second time (`fix/session.py:443-447`, `660-663`), without any reconnect |
| FixSession, `{"drop", "slow"}` | `OneSocket` | the connection of a failed reconnect attempt is replaced without being closed (`fix/session.py:345`) |
| FixSession, `MaxAttempts = 1`, `{"drop", "slow"}` | `ClosedSocket` | the last attempt's connection stays open in a closed session (`fix/session.py:733-737`) |

Promises of the REST client that are narrower than they read, or stale. Past `_CURSOR_SEEN_CAP` cursors the loop guard sees only
a cursor that comes twice in a row, as the docstring at `resources/_base.py:425-429` says, while
`docs/pagination.md:56-60` promises that any repeat raises: a server that alternates between two cursors beyond the cap is
followed for ever, which is why `CursorsAssumption` is an assumption. `total_timeout`, "hard cap" in
`config.py:43`, bounds when the last attempt may begin: the attempt under way may overrun it, so
`BudgetHonoured` allows one attempt more. An identifier stays in its place of the path (`RouteIntact`), but it is not compared
with the literals other templates have there: the order id `batched` makes `cancel_v2` send DELETE to the path of `batch_cancel_v2`. And
`docs/retries.md:11` says that a POST, PUT or DELETE is retried "never", and `docs/retries.md:21-22` that transport errors are raised at once:
what failed before it reached the wire is retried whatever the verb, and an idempotent request after any transport error
(`_base_client.py:326-370`), as `docs/errors.md:93-103` says and `HttpTransport` models.

Seen while reading and outside the models: the `_stop` docstring says frames
buffered before `close()` are still drained (#357), but the loop leaves at the top of its
`while` as soon as `_running` is false. An error reply whose body is JSON but not an object makes
`_map_error` raise AttributeError instead of a KalshiError (`_base_client.py:85`; `Unmappable` in the model). A
`MessageQueue` of size 0 raises IndexError from its first `put` in DROP_OLDEST
(`backpressure.py:85`): `SizeAssumption` asks for at least 1.

## What is not modelled

* `kalshi/ws`: the content of frames beyond sid, sequence, ticker and well-formedness; price levels and the cached
  `Orderbook` view (one task updates and reads them; a snapshot's dicts become the live book, so a raw consumer sees it
  change, which the docstrings announce); callbacks registered with `on()` (they are the `crash` and the awaits of
  `handling`); channel errors; `update_subscription`, which changes only what the server sends; queue overflow inside
  `OrderbookFeed` (it is an event of `RecvLoop`); the attempts and back-off of `ConnectionManager.reconnect`. A sid is never
  assigned twice within a connection; a new connection may assign it again. A replay looks at the mapping of a sid frame by frame, where the code drops
  the frames of a stale sid together.
* `kalshi/perps/ws`: books, sequence tracking and stash, copies of those of `OrderbookFeed`; callbacks as above.
* `fix`: sending is one step, although `drain()` may wait on a full socket buffer, and time is left out. The codec is a parser
  over bytes: that it rejects a frame is a fault (`skip`), which frames it rejects is not modelled. The Reject of a malformed message is to the gateway what a Heartbeat is. The order-book builder is a map from prices to sizes that one caller updates.
* REST: query parameters, bodies and response fields, header merging, the cookie jar, the cryptography of a signature; that a
  caller stops iterating. Two calls at once share only the pool of connections and the executor, which is modelled with one signer in
  `RestClient.cfg` and any number in the proofs.
* Models, types, configuration and the contract map are declarations; test support and scripts are not part of the running system.

## What could follow

`BooksAreExact` for a numbering that restarts once, before any other fault and
without user calls that discard frames: TLC finds no violation with two subscriptions, three changes and two faults, and `BookInv` would
have to hold from the frame on that starts the numbers again. A book of price levels with
removal at zero and the ticker index, shared by `ws/orderbook.py`, `perps/ws/orderbook.py` and `fix/orderbook.py`.
