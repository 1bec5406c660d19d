---------------------------- MODULE PerpsSession ----------------------------
(***************************************************************************)
(* The tasks of one PerpsWebSocket session (src/kalshi/perps/ws/client.py).*)
(* The session is built like KalshiWebSocket (module RecvLoop), but every  *)
(* command, unsubscribe included, takes _subscribe_lock and parks the      *)
(* receive loop before it reads its own reply, and gives the socket back   *)
(* in a finally: _ensure_recv_loop wakes the loop and waits, lock in hand, *)
(* until the loop acknowledges through _resume_ack that it goes on.        *)
(*                                                                         *)
(* A step is what a task does between two awaits.  _pause_granted and      *)
(* _resume_ack are cleared by the task that is about to wait for them, so  *)
(* only their waking matters; _resume_signal can be set before the loop    *)
(* waits for it and is a variable.  A finished command may have succeeded  *)
(* or raised.                                                              *)
(***************************************************************************)
EXTENDS Naturals, Sequences, FiniteSets

CONSTANTS Callers,          \* user tasks, each issues one command
          Commands,         \* what they may issue
          RecvTask, Nobody, \* the receive loop, and "no task", as lock holders
          Events,           \* which disturbances can happen
          MaxEvents         \* bound: how many of them happen in a behaviour

ASSUME TasksAssumption ==
    /\ RecvTask # Nobody
    /\ {RecvTask, Nobody} \cap Callers = {}
ASSUME EventsAssumption ==
    /\ Commands \subseteq {"subscribe", "unsubscribe", "update"}
    /\ Events \subseteq {"drop", "refuse", "overflow", "crash", "gap", "reap",
                         "cancel", "stop"}
    /\ MaxEvents \in Nat

VARIABLES
    running,        \* _running
    managers,       \* _sub_mgr, _connection, ... are set
    socket,         \* "open", "lost" or "refused" by the peer, "closing", "closed"
    lock, queue,    \* _subscribe_lock: its holder, and the tasks waiting for it
    pausePending,   \* _pause_pending
    resume,         \* _resume_signal
    loop,           \* where the receive task is
    call, command,  \* where each user task is, and what it issues
    live,           \* callers whose subscription the manager holds
    ended,          \* callers whose queue has been closed
    stop,           \* progress of _stop()
    spent           \* disturbances so far

session == <<running, managers>>
mutex == <<lock, queue>>
handshake == <<pausePending, resume>>
streams == <<live, ended>>
vars == <<session, socket, mutex, handshake, loop, call, command, streams, stop,
          spent>>

LoopStates == {"none", "starting", "recv", "handling", "teardown", "parked",
               "resumed", "lock", "reconnect", "resub", "done"}
LoopGone == {"none", "done"}            \* _recv_task is None or done()
Holding == {"pause", "granted", "act", "send", "resuming", "resumed"}
Finished == {"finished", "cancelled"}

TypeOK ==
    /\ running \in BOOLEAN /\ managers \in BOOLEAN
    /\ socket \in {"open", "lost", "refused", "closing", "closed"}
    /\ lock \in Callers \cup {RecvTask, Nobody}
    /\ queue \in Seq(Callers \cup {RecvTask})
    /\ pausePending \in BOOLEAN /\ resume \in BOOLEAN
    /\ loop \in LoopStates
    /\ call \in [Callers -> {"idle", "lock"} \cup Holding \cup Finished]
    /\ command \in [Callers -> Commands]
    /\ live \subseteq Callers /\ ended \subseteq Callers
    /\ stop \in {"no", "closing", "joining", "done", "raised"}
    /\ spent \in Nat

\* A session right after _start(): connected, no receive task yet.
Init ==
    /\ running = TRUE /\ managers = TRUE /\ socket = "open"
    /\ lock = Nobody /\ queue = <<>>
    /\ pausePending = FALSE /\ resume = FALSE
    /\ loop = "none"
    /\ call = [c \in Callers |-> "idle"] /\ command \in [Callers -> Commands]
    /\ live = {} /\ ended = {}
    /\ stop = "no" /\ spent = 0

Disturb(e) == e \in Events /\ spent < MaxEvents /\ spent' = spent + 1

-----------------------------------------------------------------------------
(* The handshake.                                                          *)

\* Event.set(): the callers that wait at one place go on.
Woken(f, from, to) == [c \in Callers |-> IF f[c] = from THEN to ELSE f[c]]
Granted(f) == Woken(f, "pause", "granted")          \* _pause_granted.set()
Acked(f) == Woken(f, "resuming", "resumed")         \* _resume_ack.set()

\* _resume_signal.set() seen by a parked loop.
WakeParked == IF loop = "parked" THEN "resumed" ELSE loop

\* Mutant: the caller does not wait for the acknowledgement.
ResumeNoAck(c) ==
    /\ IF pausePending
       THEN pausePending' = FALSE /\ resume' = TRUE /\ loop' = WakeParked
       ELSE /\ loop' = IF loop \in LoopGone THEN "starting" ELSE loop
            /\ UNCHANGED handshake
    /\ call' = [call EXCEPT ![c] = "finished"] /\ lock' = Nobody

\* The finally of every command, _ensure_recv_loop: resume a loop that was
\* paused and wait until it says so, or start one where none runs.
EnsureRecvLoop(c) ==
    \/ /\ pausePending /\ loop \notin LoopGone
       /\ pausePending' = FALSE /\ resume' = TRUE /\ loop' = WakeParked
       /\ call' = [call EXCEPT ![c] = "resuming"] /\ lock' = c
    \/ /\ pausePending /\ loop \in LoopGone
       /\ pausePending' = FALSE /\ resume' = TRUE
       /\ call' = [call EXCEPT ![c] = "finished"] /\ lock' = Nobody
       /\ UNCHANGED loop
    \/ /\ ~pausePending
       /\ loop' = IF loop \in LoopGone THEN "starting" ELSE loop
       /\ call' = [call EXCEPT ![c] = "finished"] /\ lock' = Nobody
       /\ UNCHANGED handshake

\* The top of the while loop, with r the value of _resume_signal there and f
\* the callers: leave, park and grant the pause, or call recv().
LoopTop(r, f) ==
    /\ resume' = r
    /\ UNCHANGED pausePending
    /\ \/ ~running /\ loop' = "done" /\ call' = f
       \/ /\ running /\ pausePending
          /\ loop' = IF r THEN "resumed" ELSE "parked"
          /\ call' = Granted(f)
       \/ running /\ ~pausePending /\ loop' = "recv" /\ call' = f

\* _broadcast_sentinels: nothing once the managers are gone.
BroadcastSentinels == ended' = IF managers THEN ended \cup live ELSE ended

-----------------------------------------------------------------------------
(* The commands: subscribe_*, unsubscribe, update_subscription*,           *)
(* list_subscriptions (the last two change nothing here).                  *)

Active == running /\ managers

\* What a command looks at again once it is alone with the socket.  unsubscribe
\* asks only whether there is a manager, and returns early without a target.
Allowed(c) ==
    IF command[c] = "unsubscribe" THEN managers /\ live # {} ELSE Active

\* The body of the try.  send() on a connection that is being closed waits for
\* the end of it and raises.
Proceed(c) ==
    \/ /\ Allowed(c)
       /\ lock' = c
       /\ call' = [call EXCEPT ![c] =
                      IF socket \in {"closing", "closed"} THEN "send" ELSE "act"]
       /\ UNCHANGED <<handshake, loop>>
    \/ ~Allowed(c) /\ EnsureRecvLoop(c)

\* Mutant: the command does not wait for the pause.
PauseWithoutGrant(c) == Proceed(c)

\* _pause_recv_loop, lock in hand: ask for a pause and wait, or go ahead where no
\* loop runs.
PauseRecvLoop(c) ==
    \/ /\ loop \notin LoopGone
       /\ lock' = c
       /\ pausePending' = TRUE /\ resume' = FALSE
       /\ call' = [call EXCEPT ![c] = "pause"]
       /\ UNCHANGED loop
    \/ loop \in LoopGone /\ Proceed(c)

\* A session that is over: RuntimeError, or nothing to unsubscribe.
CommandRefused(c) ==
    /\ call[c] = "idle"
    /\ ~(IF command[c] = "unsubscribe" THEN managers ELSE Active)
    /\ call' = [call EXCEPT ![c] = "finished"]
    /\ UNCHANGED <<session, socket, mutex, handshake, loop, command, streams,
                   stop, spent>>

\* The lock is taken at once when it is free and nobody waits for it ...
CommandBegin(c) ==
    /\ call[c] = "idle"
    /\ IF command[c] = "unsubscribe" THEN managers ELSE Active
    /\ \/ /\ lock = Nobody /\ queue = <<>>
          /\ PauseRecvLoop(c) /\ UNCHANGED queue
       \/ /\ lock # Nobody \/ queue # <<>>
          /\ queue' = Append(queue, c)
          /\ call' = [call EXCEPT ![c] = "lock"]
          /\ UNCHANGED <<lock, handshake, loop>>
    /\ UNCHANGED <<session, socket, command, streams, stop, spent>>

\* ... and otherwise in the order of arrival.  A loop that the last holder
\* created was scheduled before the next holder was woken, and starts first.
CommandLocked(c) ==
    /\ call[c] = "lock" /\ loop # "starting"
    /\ lock = Nobody /\ queue # <<>> /\ Head(queue) = c
    /\ queue' = Tail(queue)
    /\ PauseRecvLoop(c)
    /\ UNCHANGED <<session, socket, command, streams, stop, spent>>

CommandPaused(c) ==
    /\ call[c] = "granted"
    /\ Proceed(c)
    /\ UNCHANGED <<session, socket, queue, command, streams, stop, spent>>

\* The reply arrives: the subscription is registered, or closed and forgotten.
CommandDone(c) ==
    /\ call[c] = "act" /\ socket = "open"
    /\ \/ command[c] = "subscribe" /\ live' = live \cup {c} /\ UNCHANGED ended
       \/ /\ command[c] = "unsubscribe"
          /\ \E s \in live : live' = live \ {s} /\ ended' = ended \cup {s}
       \/ command[c] = "update" /\ UNCHANGED streams
    /\ EnsureRecvLoop(c)
    /\ UNCHANGED <<session, socket, queue, command, stop, spent>>

\* An error reply, the 5 s timeout, or the connection closing under the wait.
CommandFailed(c) ==
    /\ \/ call[c] = "act"
       \/ call[c] = "send" /\ socket = "closed"
    /\ EnsureRecvLoop(c)
    /\ UNCHANGED <<session, socket, queue, command, streams, stop, spent>>

\* The loop goes on: release the lock and return.
CommandResumed(c) ==
    /\ call[c] = "resumed"
    /\ call' = [call EXCEPT ![c] = "finished"] /\ lock' = Nobody
    /\ UNCHANGED <<session, socket, queue, handshake, loop, command, streams,
                   stop, spent>>

\* A cancelled task leaves the waiters of the lock.
Withdraw(t) ==
    \E i \in DOMAIN queue :
        /\ queue[i] = t
        /\ queue' = SubSeq(queue, 1, i - 1) \o SubSeq(queue, i + 1, Len(queue))

\* The calling task is cancelled.  The wait for the pause is outside the try whose
\* finally resumes the loop, and the finally itself waits.
Cancel(c) ==
    /\ Disturb("cancel")
    /\ \/ /\ call[c] = "lock" /\ Withdraw(c)
          /\ call' = [call EXCEPT ![c] = "cancelled"]
          /\ UNCHANGED <<lock, handshake, loop>>
       \/ /\ call[c] \in {"pause", "granted", "resuming", "resumed"}
          /\ call' = [call EXCEPT ![c] = "cancelled"]
          /\ lock' = Nobody
          /\ UNCHANGED <<queue, handshake, loop>>
       \/ /\ call[c] \in {"act", "send"}
          /\ EnsureRecvLoop(c)
          /\ UNCHANGED queue
    /\ UNCHANGED <<session, socket, command, streams, stop>>

Command(c) ==
    \/ CommandRefused(c) \/ CommandBegin(c) \/ CommandLocked(c)
    \/ CommandPaused(c) \/ CommandDone(c) \/ CommandFailed(c)
    \/ CommandResumed(c)

-----------------------------------------------------------------------------
(* The receive loop.                                                       *)

\* The tasks inside the socket's recv(): callers waiting for a reply, and the
\* loop when it waits for a frame or resubscribes.
Reading == {c \in Callers : call[c] = "act"}
           \cup (IF loop \in {"recv", "resub"} THEN {RecvTask} ELSE {})

\* The first step of the task asserts that there is a connection.
LoopStart ==
    /\ loop = "starting"
    /\ \/ managers /\ LoopTop(resume, call)
       \/ ~managers /\ loop' = "done" /\ UNCHANGED <<handshake, call>>
    /\ UNCHANGED <<session, socket, mutex, command, streams, stop, spent>>

\* A parked loop whose signal was set clears it, acknowledges, goes round.
LoopResume ==
    /\ loop = "resumed"
    /\ LoopTop(FALSE, Acked(call))
    /\ UNCHANGED <<session, socket, mutex, command, streams, stop, spent>>

\* The 50 ms poll expires, or a frame was handled (skipped, when malformed).
LoopAgain ==
    /\ loop \in {"recv", "handling"}
    /\ LoopTop(resume, call)
    /\ UNCHANGED <<session, socket, mutex, command, streams, stop, spent>>

\* A frame arrives and _process_frame awaits (a user callback).
Frame ==
    /\ loop = "recv" /\ socket \in {"open", "closing"}
    /\ loop' = "handling"
    /\ UNCHANGED <<session, socket, mutex, handshake, call, command, streams,
                   stop, spent>>

\* A gap: the consumer is told and the subscription stays.  A subscription ended
\* by the server: its iterator ends and it is forgotten.
FrameEndsStream ==
    /\ loop = "recv" /\ socket = "open"
    /\ \E s \in live :
          /\ ended' = ended \cup {s}
          /\ \/ Disturb("gap") /\ UNCHANGED live
             \/ Disturb("reap") /\ live' = live \ {s}
    /\ LoopTop(resume, call)
    /\ UNCHANGED <<session, socket, mutex, command, stop>>

\* A full queue, or a subscription error: sentinels, _running cleared, close ...
FrameOverflow ==
    /\ Disturb("overflow") /\ loop = "handling"
    /\ BroadcastSentinels
    /\ running' = FALSE
    /\ socket' = IF socket = "open" THEN "closing" ELSE socket
    /\ loop' = "teardown"
    /\ UNCHANGED <<managers, mutex, handshake, call, command, live, stop>>

\* Mutant: the teardown releases nobody.
TeardownSilent ==
    /\ loop = "teardown"
    /\ managers' = FALSE /\ socket' = "closed" /\ pausePending' = FALSE
    /\ loop' = "none"
    /\ UNCHANGED <<running, mutex, resume, call, command, streams, stop, spent>>

\* ... and after the await of close() the session is reset, _recv_task included,
\* and everyone woken.
TeardownDone ==
    /\ loop = "teardown"
    /\ managers' = FALSE /\ socket' = "closed"
    /\ pausePending' = FALSE /\ resume' = TRUE
    /\ call' = Acked(Granted(call))
    /\ loop' = "none"
    /\ UNCHANGED <<running, mutex, command, streams, stop, spent>>

\* Mutant: the exception propagates without sentinels.
LoopDiesSilent ==
    /\ \/ Disturb("crash") /\ loop = "handling"
       \/ loop = "recv" /\ socket = "refused" /\ UNCHANGED spent
    /\ loop' = "done"
    /\ UNCHANGED <<session, socket, mutex, handshake, call, command, streams,
                   stop>>

\* Any other exception of a callback, or ConnectionClosed with a permanent
\* code: sentinels, and the task dies of it.
LoopDies ==
    /\ \/ Disturb("crash") /\ loop = "handling"
       \/ loop = "recv" /\ socket = "refused" /\ UNCHANGED spent
    /\ BroadcastSentinels
    /\ loop' = "done"
    /\ UNCHANGED <<session, socket, mutex, handshake, call, command, live, stop>>

\* ConnectionClosed otherwise: leave when the session is ending, else take the
\* lock for the whole reconnect.
ConnectionLost ==
    /\ loop = "recv" /\ socket \in {"lost", "closed"}
    /\ \/ ~running /\ loop' = "done" /\ UNCHANGED mutex
       \/ /\ running /\ lock = Nobody /\ queue = <<>>
          /\ loop' = "reconnect" /\ lock' = RecvTask /\ UNCHANGED queue
       \/ /\ running /\ (lock # Nobody \/ queue # <<>>)
          /\ loop' = "lock" /\ queue' = Append(queue, RecvTask)
          /\ UNCHANGED lock
    /\ UNCHANGED <<session, socket, handshake, call, command, streams, stop,
                   spent>>

ReconnectLocked ==
    /\ loop = "lock" /\ lock = Nobody /\ queue # <<>> /\ Head(queue) = RecvTask
    /\ loop' = "reconnect" /\ lock' = RecvTask /\ queue' = Tail(queue)
    /\ UNCHANGED <<session, socket, handshake, call, command, streams, stop,
                   spent>>

\* One of the attempts opens a socket; resubscribe_all starts.
ReconnectOpened ==
    /\ loop = "reconnect"
    /\ socket' = "open" /\ loop' = "resub"
    /\ UNCHANGED <<session, mutex, handshake, call, command, streams, stop, spent>>

\* Every attempt failed: sentinels and _running cleared.
ReconnectFailed ==
    /\ loop = "reconnect"
    /\ BroadcastSentinels
    /\ running' = FALSE /\ socket' = "closed"
    /\ lock' = Nobody /\ loop' = "done"
    /\ UNCHANGED <<managers, queue, handshake, call, command, live, stop, spent>>

\* resubscribe_all: each subscription succeeds or fails on its own; one that
\* fails gets a sentinel and is dropped.
Resubscribed ==
    /\ loop = "resub"
    /\ \E failed \in SUBSET live :
          live' = live \ failed /\ ended' = ended \cup failed
    /\ lock' = Nobody
    /\ LoopTop(resume, call)
    /\ UNCHANGED <<session, socket, queue, command, stop, spent>>

LoopStep ==
    \/ LoopStart \/ LoopResume \/ LoopAgain \/ Frame \/ TeardownDone
    \/ ConnectionLost \/ ReconnectLocked \/ ReconnectOpened
    \/ ReconnectFailed \/ Resubscribed

LoopFault == FrameEndsStream \/ FrameOverflow \/ LoopDies

-----------------------------------------------------------------------------
(* The network, and the end of the session.                                *)

Drop ==
    /\ socket = "open"
    /\ \/ Disturb("drop") /\ socket' = "lost"
       \/ Disturb("refuse") /\ socket' = "refused"
    /\ UNCHANGED <<session, mutex, handshake, loop, call, command, streams, stop>>

\* _stop: clear _running, wake everyone, and await close().
StopBegin ==
    /\ Disturb("stop") /\ stop = "no"
    /\ stop' = "closing"
    /\ running' = FALSE /\ resume' = TRUE /\ loop' = WakeParked
    /\ call' = Acked(Granted(call))
    /\ socket' = IF managers /\ socket # "closed" THEN "closing" ELSE socket
    /\ UNCHANGED <<managers, mutex, pausePending, command, streams>>

\* Sentinels last, then the session's state is reset.
StopReset ==
    /\ stop' = "done"
    /\ BroadcastSentinels
    /\ managers' = FALSE
    /\ pausePending' = FALSE /\ resume' = FALSE
    /\ loop' = "none"

\* The socket is closed; wait for the loop if there is one.
StopClose ==
    /\ stop = "closing"
    /\ socket' = IF managers THEN "closed" ELSE socket
    /\ \/ loop \in LoopGone /\ StopReset
       \/ /\ loop \notin LoopGone /\ stop' = "joining"
          /\ UNCHANGED <<managers, handshake, loop, ended>>
    /\ UNCHANGED <<running, mutex, call, command, live, spent>>

\* The loop did not end within 2 s: cancel it wherever it waits.
StopCancel ==
    /\ stop = "joining" /\ loop \notin LoopGone
    /\ loop' = "done"
    /\ lock' = IF lock = RecvTask THEN Nobody ELSE lock
    /\ \/ loop = "lock" /\ Withdraw(RecvTask)
       \/ loop # "lock" /\ UNCHANGED queue
    /\ UNCHANGED <<session, socket, handshake, call, command, streams, stop,
                   spent>>

\* It did, ...
StopDone ==
    /\ stop = "joining" /\ loop = "done"
    /\ StopReset
    /\ UNCHANGED <<running, socket, mutex, call, command, live, spent>>

\* ... or it tore the session down itself meanwhile: _recv_task is None, and
\* _stop raises AttributeError when it asks whether it is done().
StopRaises ==
    /\ stop = "joining" /\ loop = "none"
    /\ stop' = "raised"
    /\ UNCHANGED <<session, socket, mutex, handshake, loop, call, command, streams,
                   spent>>

Stopping == StopClose \/ StopCancel \/ StopDone \/ StopRaises

Next ==
    \/ \E c \in Callers : Command(c) \/ Cancel(c)
    \/ LoopStep \/ LoopFault
    \/ Drop \/ StopBegin \/ Stopping

Spec == Init /\ [][Next]_vars

(* The event loop runs every task that can go on; user callbacks return; the *)
(* server answers or the timeouts of the code expire.  Nothing is assumed of *)
(* the disturbances, nor that a user ever calls.                             *)
Fairness ==
    /\ WF_vars(LoopStep)
    /\ WF_vars(Stopping)
    /\ \A c \in Callers :
          /\ WF_vars(CommandLocked(c))
          /\ WF_vars(CommandPaused(c))
          /\ WF_vars(CommandDone(c) \/ CommandFailed(c))
          /\ WF_vars(CommandResumed(c))

FairSpec == Spec /\ Fairness

-----------------------------------------------------------------------------
(* At most one task is ever inside recv(), unsubscribe included: the pause,  *)
(* the lock and the finally keep commands and the receive loop apart also    *)
(* while the session is torn down or closed around them.                     *)
RecvExclusive == Cardinality(Reading) <= 1

(* The acknowledgement: as long as no command was cancelled while it waited, *)
(* none asks for a pause of a loop that has not left the previous one, so    *)
(* that a grant always answers the request that waits for it.                *)
NoneCancelled == \A c \in Callers : call[c] # "cancelled"

FreshPause ==
    running /\ NoneCancelled =>
        \A c \in Callers : call[c] = "pause" => loop \notin {"parked", "resumed"}

(* When the receive task has ended and nobody is shutting the session down,  *)
(* every consumer has been told; after the shutdown every consumer has.      *)
LoopEnded == loop = "done" \/ (loop = "none" /\ ~managers)

NoStrandedConsumer ==
    (NoneCancelled /\ LoopEnded /\ stop = "no") \/ stop \in {"done", "raised"}
        => live \subseteq ended

(* Every command returns or raises, and a parked loop is resumed, as long as *)
(* nobody is cancelled, the connection holds, no callback raises and nobody  *)
(* ends the session.                                                         *)
Calm ==
    /\ socket \notin {"lost", "refused"} /\ stop = "no"
    /\ NoneCancelled
    /\ loop = "done" => ~running

CommandReturns ==
    \A c \in Callers : call[c] \in {"lock"} \cup Holding ~> call[c] \in Finished
LoopComesBack == loop = "parked" ~> loop # "parked"

HandshakeEndsInCalm == []Calm => (CommandReturns /\ LoopComesBack)

(* Ending the session completes, and without an exception (not promised: the *)
(* loop may tear the session down while _stop waits for it).                 *)
StopCompletes == stop = "closing" ~> stop = "done"

(* What the comment in _stop says: once the session is being stopped, a      *)
(* command that awaits _resume_ack is released.                              *)
StopReleasesResume ==
    \A c \in Callers :
        (stop # "no" /\ call[c] = "resuming") ~> call[c] # "resuming"
=============================================================================
