------------------------------ MODULE RecvLoop ------------------------------
(***************************************************************************)
(* The tasks of one KalshiWebSocket session (src/kalshi/ws/client.py): the *)
(* receive loop, the user's tasks that call subscribe_* and unsubscribe,   *)
(* and the task that ends the session.  Only one coroutine may be inside   *)
(* the socket's recv() at a time (a rule of the websockets library), so a  *)
(* subscriber takes _subscribe_lock, asks the loop to park at its          *)
(* checkpoint, reads the acknowledgement itself, and resumes the loop.     *)
(*                                                                         *)
(* A step is what a task does between two awaits.  An asyncio.Event is a   *)
(* flag and the waiters it wakes: set() moves a waiter on even if the flag *)
(* is cleared again before the waiter runs, so a woken waiter has a state  *)
(* of its own ("granted", "resumed").  asyncio.Lock is first in, first out.*)
(* Frames, channels and sids are abstracted: what a frame does to books    *)
(* and queues is not the subject here, only whether handling it ends well, *)
(* overflows a queue, raises, or needs a resubscription.                   *)
(***************************************************************************)
EXTENDS Naturals, Sequences, FiniteSets

CONSTANTS Subscribers,      \* user tasks, each calls subscribe_* once
          Unsubscribers,    \* user tasks, each calls unsubscribe once
          RecvTask, Nobody, \* the receive loop, and "no task", as lock holders
          Events,           \* which disturbances can happen
          MaxEvents         \* bound: how many of them happen in a behaviour

ASSUME TasksAssumption ==
    /\ RecvTask # Nobody
    /\ {RecvTask, Nobody} \cap Subscribers = {}
ASSUME EventsAssumption ==
    /\ Events \subseteq {"drop", "refuse", "overflow", "crash", "gap",
                         "cancel", "stop", "stop_event"}
    /\ MaxEvents \in Nat

VARIABLES
    running,        \* _running
    managers,       \* _sub_mgr, _connection, ... are set
    socket,         \* "open", "lost" or "refused" by the peer, "closed" by us
    lock, queue,    \* _subscribe_lock: its holder, and the tasks waiting for it
    pausePending,   \* _pause_pending
    granted,        \* _pause_granted
    resume,         \* _resume_signal
    loop,           \* where the receive task is
    sub, unsub,     \* where each user task is
    live,           \* subscribers whose Subscription the manager holds
    ended,          \* subscribers whose queue has been closed
    stop,           \* progress of _stop()
    forever,        \* progress of run_forever's cooperative shutdown
    spent           \* disturbances so far

handshake == <<pausePending, granted, resume>>
streams == <<live, ended>>
vars == <<running, managers, socket, lock, queue, handshake, loop, sub, unsub,
          streams, stop, forever, spent>>

LoopStates == {"none", "starting", "recv", "handling", "resync", "teardown",
               "parked", "resumed", "lock", "reconnect", "resub", "done"}
LoopGone == {"none", "done"}            \* _recv_task is None or done()
Calling == {"lock", "pause", "granted", "ack"}
Finished == {"returned", "failed", "cancelled"}
Shutdown == {"no", "closing", "joining", "done"}

\* The subscribers whose subscribe_* has returned: only they have a queue.
Returned == {s \in Subscribers : sub[s] = "returned"}

TypeOK ==
    /\ running \in BOOLEAN /\ managers \in BOOLEAN
    /\ socket \in {"open", "lost", "refused", "closed"}
    /\ lock \in Subscribers \cup {RecvTask, Nobody}
    /\ queue \in Seq(Subscribers \cup {RecvTask})
    /\ pausePending \in BOOLEAN /\ granted \in BOOLEAN /\ resume \in BOOLEAN
    /\ loop \in LoopStates
    /\ sub \in [Subscribers -> {"idle"} \cup Calling \cup Finished]
    /\ unsub \in [Unsubscribers -> {"idle", "ack", "returned", "clash"}]
    /\ live \cup ended \subseteq Returned
    /\ stop \in Shutdown /\ forever \in Shutdown
    /\ spent \in Nat

\* A session right after _start(): connected, no receive task yet.
Init ==
    /\ running = TRUE /\ managers = TRUE /\ socket = "open"
    /\ lock = Nobody /\ queue = <<>>
    /\ pausePending = FALSE /\ granted = FALSE /\ resume = FALSE
    /\ loop = "none"
    /\ sub = [s \in Subscribers |-> "idle"]
    /\ unsub = [u \in Unsubscribers |-> "idle"]
    /\ live = {} /\ ended = {}
    /\ stop = "no" /\ forever = "no" /\ spent = 0

Disturb(e) == e \in Events /\ spent < MaxEvents /\ spent' = spent + 1

-----------------------------------------------------------------------------
(* The handshake.                                                          *)

Active == running /\ managers
UnsubReading == \E u \in Unsubscribers : unsub[u] = "ack"

\* _pause_granted.set(): the subscriber waiting for the pause becomes runnable.
WakePaused == [s \in Subscribers |->
                  IF sub[s] = "pause" THEN "granted" ELSE sub[s]]

\* _resume_signal.set() seen by a parked loop.
WakeParked == IF loop = "parked" THEN "resumed" ELSE loop

\* _ensure_recv_loop: resume a parked loop, or start one where none runs.
EnsureRecvLoop ==
    \/ /\ pausePending
       /\ pausePending' = FALSE /\ granted' = FALSE /\ resume' = TRUE
       /\ loop' = WakeParked
    \/ /\ ~pausePending
       /\ loop' = IF loop \in LoopGone THEN "starting" ELSE loop
       /\ UNCHANGED handshake

\* The top of the while loop, with r the value of _resume_signal there: leave,
\* park and grant the pause, or call recv().  A second recv() raises
\* ConcurrencyError, which no handler around it catches.
LoopTop(r) ==
    /\ resume' = r
    /\ UNCHANGED pausePending
    /\ \/ /\ ~running
          /\ loop' = "done" /\ UNCHANGED <<granted, sub>>
       \/ /\ running /\ pausePending
          /\ granted' = TRUE /\ sub' = WakePaused
          /\ loop' = IF r THEN "resumed" ELSE "parked"
       \/ /\ running /\ ~pausePending
          /\ loop' = IF UnsubReading THEN "done" ELSE "recv"
          /\ UNCHANGED <<granted, sub>>

\* _broadcast_sentinels: nothing once the managers are gone.
BroadcastSentinels == ended' = IF managers THEN ended \cup live ELSE ended

-----------------------------------------------------------------------------
(* subscribe_*: _do_subscribe.                                             *)

\* Mutants: go ahead without waiting for the pause, or without the lock.
PauseWithoutGrant(s) ==
    /\ lock' = IF Active THEN s ELSE Nobody
    /\ sub' = [sub EXCEPT ![s] = IF Active THEN "ack" ELSE "failed"]
    /\ UNCHANGED handshake

PauseUnlocked(s) ==
    \/ /\ loop \notin LoopGone
       /\ pausePending' = TRUE /\ granted' = FALSE /\ resume' = FALSE
       /\ sub' = [sub EXCEPT ![s] = "pause"]
       /\ lock' = Nobody
    \/ /\ loop \in LoopGone
       /\ sub' = [sub EXCEPT ![s] = IF Active THEN "ack" ELSE "failed"]
       /\ lock' = Nobody /\ UNCHANGED handshake

\* What a subscriber does once it holds the lock: ask for a pause and wait for
\* it, or go ahead where no loop runs; a dead session raises RuntimeError.
PauseRecvLoop(s) ==
    \/ /\ loop \notin LoopGone
       /\ lock' = s
       /\ pausePending' = TRUE /\ granted' = FALSE /\ resume' = FALSE
       /\ sub' = [sub EXCEPT ![s] = "pause"]
    \/ /\ loop \in LoopGone
       /\ lock' = IF Active THEN s ELSE Nobody
       /\ sub' = [sub EXCEPT ![s] = IF Active THEN "ack" ELSE "failed"]
       /\ UNCHANGED handshake

SubscribeInactive(s) ==
    /\ sub[s] = "idle" /\ ~Active
    /\ sub' = [sub EXCEPT ![s] = "failed"]
    /\ UNCHANGED <<running, managers, socket, lock, queue, handshake, loop,
                   unsub, streams, stop, forever, spent>>

\* The lock is taken at once when it is free and nobody waits for it.
SubscribeAtOnce(s) ==
    /\ sub[s] = "idle" /\ Active
    /\ lock = Nobody /\ queue = <<>>
    /\ PauseRecvLoop(s)
    /\ UNCHANGED <<running, managers, socket, queue, loop, unsub, streams,
                   stop, forever, spent>>

SubscribeQueued(s) ==
    /\ sub[s] = "idle" /\ Active
    /\ lock # Nobody \/ queue # <<>>
    /\ queue' = Append(queue, s)
    /\ sub' = [sub EXCEPT ![s] = "lock"]
    /\ UNCHANGED <<running, managers, socket, lock, handshake, loop, unsub,
                   streams, stop, forever, spent>>

SubscribeLocked(s) ==
    /\ sub[s] = "lock"
    /\ lock = Nobody /\ queue # <<>> /\ Head(queue) = s
    /\ queue' = Tail(queue)
    /\ PauseRecvLoop(s)
    /\ UNCHANGED <<running, managers, socket, loop, unsub, streams, stop,
                   forever, spent>>

\* Mutant: the subscription is registered before it is acknowledged.
SubscribePausedEarly(s) ==
    /\ sub[s] = "granted"
    /\ lock' = IF Active THEN lock ELSE Nobody
    /\ sub' = [sub EXCEPT ![s] = IF Active THEN "ack" ELSE "failed"]
    /\ live' = live \cup {s}
    /\ UNCHANGED <<running, managers, socket, queue, handshake, loop, unsub,
                   ended, stop, forever, spent>>

\* The pause was granted: the session is looked at again before the command is
\* sent; a session torn down meanwhile raises without resuming anything.
SubscribePaused(s) ==
    /\ sub[s] = "granted"
    /\ lock' = IF Active THEN lock ELSE Nobody
    /\ sub' = [sub EXCEPT ![s] = IF Active THEN "ack" ELSE "failed"]
    /\ UNCHANGED <<running, managers, socket, queue, handshake, loop, unsub,
                   streams, stop, forever, spent>>

\* The acknowledgement arrived: register, resume the loop, release the lock.
SubscribeAcked(s) ==
    /\ sub[s] = "ack" /\ socket = "open" /\ ~UnsubReading
    /\ live' = live \cup {s}
    /\ EnsureRecvLoop
    /\ lock' = Nobody
    /\ sub' = [sub EXCEPT ![s] = "returned"]
    /\ UNCHANGED <<running, managers, socket, queue, unsub, ended, stop,
                   forever, spent>>

\* An error reply, the 5 s timeout, or the connection closing under the wait.
SubscribeFailed(s) ==
    /\ sub[s] = "ack"
    /\ EnsureRecvLoop
    /\ lock' = Nobody
    /\ sub' = [sub EXCEPT ![s] = "failed"]
    /\ UNCHANGED <<running, managers, socket, queue, unsub, streams, stop,
                   forever, spent>>

\* A cancelled task leaves the waiters of the lock.
Withdraw(t) ==
    \E i \in DOMAIN queue :
        /\ queue[i] = t
        /\ queue' = SubSeq(queue, 1, i - 1) \o SubSeq(queue, i + 1, Len(queue))

\* The calling task is cancelled.  Only the wait for the acknowledgement is
\* inside the try whose finally resumes the loop.
CancelQueued(s) ==
    /\ Disturb("cancel") /\ sub[s] = "lock"
    /\ Withdraw(s)
    /\ sub' = [sub EXCEPT ![s] = "cancelled"]
    /\ UNCHANGED <<running, managers, socket, lock, handshake, loop, unsub,
                   streams, stop, forever>>

CancelPausing(s) ==
    /\ Disturb("cancel") /\ sub[s] \in {"pause", "granted"}
    /\ lock' = Nobody
    /\ sub' = [sub EXCEPT ![s] = "cancelled"]
    /\ UNCHANGED <<running, managers, socket, queue, handshake, loop, unsub,
                   streams, stop, forever>>

CancelAwaitingAck(s) ==
    /\ Disturb("cancel") /\ sub[s] = "ack"
    /\ EnsureRecvLoop
    /\ lock' = Nobody
    /\ sub' = [sub EXCEPT ![s] = "cancelled"]
    /\ UNCHANGED <<running, managers, socket, queue, unsub, streams, stop,
                   forever>>

Subscribe(s) ==
    \/ SubscribeInactive(s) \/ SubscribeAtOnce(s) \/ SubscribeQueued(s)
    \/ SubscribeLocked(s) \/ SubscribePaused(s)
    \/ SubscribeAcked(s) \/ SubscribeFailed(s)

Cancel(s) == CancelQueued(s) \/ CancelPausing(s) \/ CancelAwaitingAck(s)

-----------------------------------------------------------------------------
(* unsubscribe: no lock and no pause.  It sends the command and calls       *)
(* recv() for the acknowledgement itself.                                   *)

\* The tasks inside recv() that the pause and the lock are there to separate,
\* and with them the ones that unsubscribe.
Coordinated == {t \in Subscribers : sub[t] = "ack"}
               \cup (IF loop \in {"recv", "resync", "resub"} THEN {RecvTask} ELSE {})
Reading == Coordinated \cup {u \in Unsubscribers : unsub[u] = "ack"}

\* No session or nothing to unsubscribe: return.
UnsubscribeNothing(u) ==
    /\ unsub[u] = "idle" /\ (~managers \/ live = {})
    /\ unsub' = [unsub EXCEPT ![u] = "returned"]
    /\ UNCHANGED <<running, managers, socket, lock, queue, handshake, loop,
                   sub, streams, stop, forever, spent>>

\* recv() raises ConcurrencyError in the caller when another task is in it.
UnsubscribeSend(u) ==
    /\ unsub[u] = "idle" /\ managers /\ live # {}
    /\ unsub' = [unsub EXCEPT ![u] = IF Reading = {} THEN "ack" ELSE "clash"]
    /\ UNCHANGED <<running, managers, socket, lock, queue, handshake, loop,
                   sub, streams, stop, forever, spent>>

\* Mutant: the queue is closed and the subscription kept.
UnsubscribeAckedKeeps(u) ==
    /\ unsub[u] = "ack" /\ socket = "open"
    /\ unsub' = [unsub EXCEPT ![u] = "returned"]
    /\ \E s \in live : ended' = ended \cup {s}
    /\ UNCHANGED <<running, managers, socket, lock, queue, handshake, loop,
                   sub, live, stop, forever, spent>>

UnsubscribeAcked(u) ==
    /\ unsub[u] = "ack" /\ socket = "open"
    /\ unsub' = [unsub EXCEPT ![u] = "returned"]
    /\ \E s \in live : live' = live \ {s} /\ ended' = ended \cup {s}
    /\ UNCHANGED <<running, managers, socket, lock, queue, handshake, loop,
                   sub, stop, forever, spent>>

\* A timeout or a closed connection: the subscription stays registered.
UnsubscribeFailed(u) ==
    /\ unsub[u] = "ack"
    /\ unsub' = [unsub EXCEPT ![u] = "returned"]
    /\ UNCHANGED <<running, managers, socket, lock, queue, handshake, loop,
                   sub, streams, stop, forever, spent>>

Unsubscribe(u) == UnsubscribeNothing(u) \/ UnsubscribeSend(u)
                  \/ UnsubscribeAcked(u) \/ UnsubscribeFailed(u)

-----------------------------------------------------------------------------
(* The receive loop.                                                       *)

LoopStart ==
    /\ loop = "starting"
    /\ \/ managers /\ LoopTop(resume)
       \/ ~managers /\ loop' = "done" /\ UNCHANGED <<handshake, sub>>
    /\ UNCHANGED <<running, managers, socket, lock, queue, unsub, streams,
                   stop, forever, spent>>

\* A parked loop whose signal was set clears it and goes round again.
LoopResume ==
    /\ loop = "resumed"
    /\ LoopTop(FALSE)
    /\ UNCHANGED <<running, managers, socket, lock, queue, unsub, streams,
                   stop, forever, spent>>

\* The 50 ms poll expires.
PollTimeout ==
    /\ loop = "recv"
    /\ LoopTop(resume)
    /\ UNCHANGED <<running, managers, socket, lock, queue, unsub, streams,
                   stop, forever, spent>>

\* A frame arrives and _process_frame awaits (a user callback).
Frame ==
    /\ loop = "recv" /\ socket = "open"
    /\ loop' = "handling"
    /\ UNCHANGED <<running, managers, socket, lock, queue, handshake, sub,
                   unsub, streams, stop, forever, spent>>

\* The frame is done with, or was malformed and is skipped.
FrameDone ==
    /\ loop = "handling"
    /\ LoopTop(resume)
    /\ UNCHANGED <<running, managers, socket, lock, queue, unsub, streams,
                   stop, forever, spent>>

\* KalshiBackpressureError: sentinels, _running cleared, connection closed ...
FrameOverflow ==
    /\ Disturb("overflow") /\ loop = "handling"
    /\ BroadcastSentinels
    /\ running' = FALSE
    /\ loop' = "teardown"
    /\ UNCHANGED <<managers, socket, lock, queue, handshake, sub, unsub, live,
                   stop, forever>>

\* Mutant: the teardown without the events of #332.
TeardownSilent ==
    /\ loop = "teardown"
    /\ managers' = FALSE /\ socket' = "closed"
    /\ pausePending' = FALSE
    /\ loop' = "done"
    /\ UNCHANGED <<running, lock, queue, granted, resume, sub, unsub, streams,
                   stop, forever, spent>>

\* ... and, after the await of close(), the rest of the teardown.
TeardownDone ==
    /\ loop = "teardown"
    /\ managers' = FALSE /\ socket' = "closed"
    /\ pausePending' = FALSE /\ granted' = TRUE /\ resume' = TRUE
    /\ sub' = WakePaused
    /\ loop' = "done"
    /\ UNCHANGED <<running, lock, queue, unsub, streams, stop, forever, spent>>

\* Mutant: the exception propagates without sentinels.
FrameCrashSilent ==
    /\ Disturb("crash") /\ loop = "handling"
    /\ loop' = "done"
    /\ UNCHANGED <<running, managers, socket, lock, queue, handshake, sub,
                   unsub, streams, stop, forever>>

\* Any other exception (a user's callback raising AttributeError): sentinels,
\* and the task dies of it.
FrameCrash ==
    /\ Disturb("crash") /\ loop = "handling"
    /\ BroadcastSentinels
    /\ loop' = "done"
    /\ UNCHANGED <<running, managers, socket, lock, queue, handshake, sub,
                   unsub, live, stop, forever>>

\* A sequence gap on a live subscription: resubscribe_one reads the socket.
GapFound ==
    /\ Disturb("gap") /\ loop = "recv" /\ socket = "open" /\ live # {}
    /\ loop' = "resync"
    /\ UNCHANGED <<running, managers, socket, lock, queue, handshake, sub,
                   unsub, streams, stop, forever>>

ResyncDone ==
    /\ loop = "resync" /\ socket = "open"
    /\ LoopTop(resume)
    /\ UNCHANGED <<running, managers, socket, lock, queue, unsub, streams,
                   stop, forever, spent>>

\* The server refuses, or does not answer in time: broadcast_error.
ResyncRejected ==
    /\ loop = "resync"
    /\ \E s \in live : live' = live \ {s} /\ ended' = ended \cup {s}
    /\ LoopTop(resume)
    /\ UNCHANGED <<running, managers, socket, lock, queue, unsub, stop,
                   forever, spent>>

\* The connection closes under it: KalshiConnectionError, caught by nothing
\* but the handler that broadcasts sentinels and re-raises.
ResyncLost ==
    /\ loop = "resync" /\ socket # "open"
    /\ BroadcastSentinels
    /\ loop' = "done"
    /\ UNCHANGED <<running, managers, socket, lock, queue, handshake, sub,
                   unsub, live, stop, forever, spent>>

\* ConnectionClosed with a permanent code: sentinels, and the task dies.
ClosedForGood ==
    /\ loop = "recv" /\ socket = "refused"
    /\ BroadcastSentinels
    /\ loop' = "done"
    /\ UNCHANGED <<running, managers, socket, lock, queue, handshake, sub,
                   unsub, live, stop, forever, spent>>

\* ConnectionClosed otherwise: leave when the session is ending, else take the
\* lock for the whole reconnect.
ConnectionLost ==
    /\ loop = "recv" /\ socket \in {"lost", "closed"}
    /\ \/ ~running /\ loop' = "done" /\ UNCHANGED <<lock, queue>>
       \/ /\ running /\ lock = Nobody /\ queue = <<>>
          /\ loop' = "reconnect" /\ lock' = RecvTask /\ UNCHANGED queue
       \/ /\ running /\ (lock # Nobody \/ queue # <<>>)
          /\ loop' = "lock" /\ queue' = Append(queue, RecvTask)
          /\ UNCHANGED lock
    /\ UNCHANGED <<running, managers, socket, handshake, sub, unsub, streams,
                   stop, forever, spent>>

ReconnectLocked ==
    /\ loop = "lock" /\ lock = Nobody /\ queue # <<>> /\ Head(queue) = RecvTask
    /\ loop' = "reconnect" /\ lock' = RecvTask /\ queue' = Tail(queue)
    /\ UNCHANGED <<running, managers, socket, handshake, sub, unsub, streams,
                   stop, forever, spent>>

\* One of the attempts opens a socket; resubscribe_all starts.
ReconnectOpened ==
    /\ loop = "reconnect"
    /\ socket' = "open" /\ loop' = "resub"
    /\ UNCHANGED <<running, managers, lock, queue, handshake, sub, unsub,
                   streams, stop, forever, spent>>

\* Every attempt failed: sentinels and _running cleared.
ReconnectFailed ==
    /\ loop = "reconnect"
    /\ BroadcastSentinels
    /\ running' = FALSE /\ socket' = "closed"
    /\ lock' = Nobody /\ loop' = "done"
    /\ UNCHANGED <<managers, queue, handshake, sub, unsub, live, stop,
                   forever, spent>>

\* resubscribe_all: each subscription succeeds or fails on its own; one that
\* fails gets a sentinel and is dropped.
Resubscribed ==
    /\ loop = "resub"
    /\ \E failed \in SUBSET live :
          live' = live \ failed /\ ended' = ended \cup failed
    /\ lock' = Nobody
    /\ LoopTop(resume)
    /\ UNCHANGED <<running, managers, socket, queue, unsub, stop, forever,
                   spent>>

LoopStep ==
    \/ LoopStart \/ LoopResume \/ PollTimeout \/ Frame \/ FrameDone
    \/ TeardownDone \/ ResyncDone \/ ResyncRejected \/ ResyncLost
    \/ ClosedForGood \/ ConnectionLost \/ ReconnectLocked
    \/ ReconnectOpened \/ ReconnectFailed \/ Resubscribed

LoopFault == FrameOverflow \/ FrameCrash \/ GapFound

-----------------------------------------------------------------------------
(* The network, and the end of the session.                                *)

Drop ==
    /\ socket = "open"
    /\ \/ Disturb("drop") /\ socket' = "lost"
       \/ Disturb("refuse") /\ socket' = "refused"
    /\ UNCHANGED <<running, managers, lock, queue, handshake, loop, sub, unsub,
                   streams, stop, forever>>

\* _stop: clear _running, wake a parked loop, and await close().
StopBegin ==
    /\ Disturb("stop") /\ stop = "no" /\ forever \in {"no", "done"}
    /\ stop' = "closing"
    /\ running' = FALSE /\ resume' = TRUE /\ loop' = WakeParked
    /\ UNCHANGED <<managers, socket, lock, queue, pausePending, granted, sub,
                   unsub, streams, forever>>

StopClose ==
    /\ stop = "closing"
    /\ stop' = "joining" /\ socket' = "closed"
    /\ UNCHANGED <<running, managers, lock, queue, handshake, loop, sub, unsub,
                   streams, forever, spent>>

\* Mutant: only a loop that is reading is cancelled.
StopCancelReading ==
    /\ stop = "joining" /\ loop = "recv"
    /\ loop' = "done"
    /\ UNCHANGED <<running, managers, socket, lock, queue, handshake, sub, unsub,
                   streams, stop, forever, spent>>

\* The loop did not end within 2 s: cancel it wherever it waits.
StopCancel ==
    /\ stop = "joining" /\ loop \notin LoopGone
    /\ loop' = "done"
    /\ lock' = IF lock = RecvTask THEN Nobody ELSE lock
    /\ \/ loop = "lock" /\ Withdraw(RecvTask)
       \/ loop # "lock" /\ UNCHANGED queue
    /\ UNCHANGED <<running, managers, socket, handshake, sub, unsub, streams,
                   stop, forever, spent>>

\* Sentinels last, then the session's state is reset.
StopDone ==
    /\ stop = "joining" /\ loop \in LoopGone
    /\ stop' = "done"
    /\ BroadcastSentinels
    /\ managers' = FALSE
    /\ pausePending' = FALSE /\ granted' = FALSE /\ resume' = FALSE
    /\ loop' = "none"
    /\ UNCHANGED <<running, socket, lock, queue, sub, unsub, live, forever,
                   spent>>

\* run_forever(stop_event): clear _running, close, await the loop, sentinels.
ForeverBegin ==
    /\ Disturb("stop_event")
    /\ forever = "no" /\ stop = "no" /\ loop \notin LoopGone
    /\ forever' = "closing" /\ running' = FALSE
    /\ UNCHANGED <<managers, socket, lock, queue, handshake, loop, sub, unsub,
                   streams, stop>>

ForeverClose ==
    /\ forever = "closing"
    /\ forever' = "joining"
    /\ socket' = IF managers THEN "closed" ELSE socket
    /\ UNCHANGED <<running, managers, lock, queue, handshake, loop, sub, unsub,
                   streams, stop, spent>>

ForeverDone ==
    /\ forever = "joining" /\ loop \in LoopGone
    /\ forever' = "done"
    /\ BroadcastSentinels
    /\ UNCHANGED <<running, managers, socket, lock, queue, handshake, loop,
                   sub, unsub, live, stop, spent>>

Stopping == StopClose \/ StopCancel \/ StopDone \/ ForeverClose \/ ForeverDone

Next ==
    \/ \E s \in Subscribers : Subscribe(s) \/ Cancel(s)
    \/ \E u \in Unsubscribers : Unsubscribe(u)
    \/ LoopStep \/ LoopFault
    \/ Drop \/ StopBegin \/ ForeverBegin \/ Stopping

Spec == Init /\ [][Next]_vars

(* The event loop runs every task that can go on; user callbacks return; the *)
(* server answers or the timeouts of the code expire.  Nothing is assumed of *)
(* the disturbances, nor that a user ever calls.                             *)
Fairness ==
    /\ WF_vars(LoopStep)
    /\ WF_vars(Stopping)
    /\ \A s \in Subscribers :
          /\ WF_vars(SubscribeLocked(s))
          /\ WF_vars(SubscribePaused(s))
          /\ WF_vars(SubscribeAcked(s) \/ SubscribeFailed(s))
    /\ \A u \in Unsubscribers : WF_vars(UnsubscribeAcked(u) \/ UnsubscribeFailed(u))

FairSpec == Spec /\ Fairness

-----------------------------------------------------------------------------
(* At most one task is ever inside recv(): the receive loop, which also      *)
(* resubscribes after a reconnect or a gap, or one subscriber waiting for    *)
(* its acknowledgement.  (unsubscribe is not coordinated with them.)         *)
RecvExclusive == Cardinality(Coordinated) <= 1

(* F-P-04: while a subscriber reads its acknowledgement the loop is at its   *)
(* checkpoint or gone; a frame that was in hand when the pause was requested *)
(* has been dealt with.                                                      *)
PauseAtSafePoint ==
    \A s \in Subscribers :
        sub[s] = "ack" => loop \in LoopGone \cup {"parked", "resumed"}

(* F-P-03: no subscription is added while a reconnect rebuilds the sids.     *)
QuietReconnect ==
    [][(loop \in {"reconnect", "resub"}) => live' \subseteq live]_vars

(* When the receive task is gone and nobody is shutting the session down,    *)
(* every consumer has been told; after the shutdown every consumer has.      *)
NoStrandedConsumer ==
    (loop = "done" /\ stop = "no" /\ forever \in {"no", "done"}) \/ stop = "done"
        => live \subseteq ended

(* A session that delivers frames holds no subscription whose queue is       *)
(* closed (#315, #332: its frames would vanish into the closed queue).       *)
NoZombie == running /\ loop \in {"recv", "handling"} => live \cap ended = {}

(* Once the session is closed its socket is closed.                          *)
StoppedIsClosed == stop = "done" => socket # "open"

(* unsubscribe never trips over the receive loop's own recv().               *)
UnsubscribeNeverClashes == \A u \in Unsubscribers : unsub[u] # "clash"

(* subscribe_* returns or raises ...                                         *)
SubscribeReturns ==
    \A s \in Subscribers : sub[s] \in Calling ~> sub[s] \in Finished

(* ... and a parked loop is resumed.                                         *)
LoopComesBack == loop = "parked" ~> loop # "parked"

(* Both hold as long as nobody is cancelled, the connection holds, no        *)
(* callback raises and nobody ends the session: gap recoveries, failing      *)
(* subscriptions and even the teardown on an overflowing queue release every *)
(* subscriber (#245, #332).                                                  *)
Calm ==
    /\ socket \notin {"lost", "refused"} /\ stop = "no" /\ forever = "no"
    /\ \A s \in Subscribers : sub[s] # "cancelled"
    /\ loop = "done" => ~running

HandshakeEndsInCalm == []Calm => (SubscribeReturns /\ LoopComesBack)

(* Ending the session always completes, whatever state its tasks are in.     *)
StopCompletes == stop = "closing" ~> stop = "done"

(* The cooperative shutdown of run_forever completes.                        *)
ForeverCompletes == forever = "closing" ~> forever = "done"
=============================================================================
