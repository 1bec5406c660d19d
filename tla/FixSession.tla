----------------------------- MODULE FixSession -----------------------------
(***************************************************************************)
(* One FIX session (src/kalshi/fix/session.py over fix/connection.py): the *)
(* receive task, the heartbeat task, users that send, the user that closes *)
(* the session, and the gateway at the other end of a TCP connection that  *)
(* breaks.  A step is what a task does between two awaits that last: the   *)
(* opening of a connection, a state-change or message callback, the next   *)
(* frame, a back-off, the wait for another task.                           *)
(*                                                                         *)
(* Sending is one step: _send holds _send_lock, and drain() does not block *)
(* on frames of this size.  Time is left out: what the clock decides is a  *)
(* fault of a silent peer ("mute") or of a slow one ("slow", "stall").     *)
(* Application messages are numbered by the gateway in the order it makes  *)
(* them.  The codec may reject any frame ("skip"), an admin message may be *)
(* malformed, and on_state_change may raise.                               *)
(***************************************************************************)
EXTENDS Naturals, Sequences, FiniteSets

CONSTANTS MaxAttempts,  \* config.max_retries
          MaxConns,     \* bound: connections that can be opened
          MaxLog,       \* bound: messages the gateway sends of its own accord
          MaxOut,       \* bound: messages the client sends of its own accord
          Faults,       \* what can go wrong
          MaxFaults     \* bound: how often it does

ASSUME FixAssumption ==
    /\ MaxAttempts \in Nat \ {0}
    /\ MaxConns \in Nat \ {0} /\ MaxLog \in Nat /\ MaxOut \in Nat
    /\ Faults \subseteq {"drop", "mute", "skip", "repeat", "refuse", "slow",
                         "reject", "stall", "logout", "malformed", "raise"}
    /\ MaxFaults \in Nat

VARIABLES
    retrans,    \* _supports_retransmission
    state,      \* _state
    running,    \* _running
    outSeq,     \* _out_seq
    inSeq,      \* _in_seq
    pending,    \* _pending
    asked,      \* _resend_requested
    loggedOn,   \* _logged_on_once
    probing,    \* _test_request_outstanding
    sock,       \* the current FixConnection: "none" before open(), "open", "closed"
    leaked,     \* earlier FixConnections nobody closed
    reader,     \* where the receive task is, or start() before there is one
    attempt,    \* attempts of _reconnect so far, 0 in start()
    beating,    \* there is a heartbeat task
    closing,    \* progress of close()
    peer,       \* the other end: "up", "gone" (connection broken), "mute"
    up, down,   \* frames to the gateway, frames to the client
    greeted,    \* gateway: this connection has logged on
    expected,   \* gateway: the next sequence number from the client
    asking,     \* gateway: it waits for a resend
    log,        \* gateway: what it sent, an application message or 0 for others
    made,       \* gateway: application messages made so far
    fresh,      \* ... and how many of them before the last reset
    last,       \* the last application message given to on_message
    missed,     \* a frame that was sent again never reached the session
    conns, spent

session == <<state, running, loggedOn, probing>>
numbers == <<inSeq, pending, asked>>
link == <<sock, leaked, conns>>
tasks == <<reader, attempt, beating, closing>>
gateway == <<greeted, expected, asking, log, made, fresh>>
vars == <<retrans, missed, session, outSeq, numbers, link, tasks, peer, up, down,
          gateway, last, spent>>

States == {"connecting", "logging_on", "active", "reconnecting", "closed"}
ReaderStates == {"connect", "greet", "logon", "resume", "read", "deliver",
                 "drain", "backoff", "giveup", "done", "raised"}
Kinds == {"logon", "app", "test", "beat", "resend", "gapfill", "logout"}
Upward == [type : Kinds, seq : Nat, val : Nat]
Downward == [type : Kinds, seq : Nat, val : Nat, dup : BOOLEAN]

TypeOK ==
    /\ retrans \in BOOLEAN /\ missed \in BOOLEAN /\ state \in States /\ running \in BOOLEAN
    /\ outSeq \in Nat \ {0} /\ inSeq \in Nat \ {0}
    /\ pending \subseteq Downward /\ asked \in BOOLEAN
    /\ loggedOn \in BOOLEAN /\ probing \in BOOLEAN
    /\ sock \in {"none", "open", "closed"} /\ leaked \in Nat /\ conns \in Nat
    /\ reader \in ReaderStates
    /\ attempt \in Nat /\ beating \in BOOLEAN
    /\ closing \in {"no", "logout", "join", "done"}
    /\ peer \in {"up", "gone", "mute"}
    /\ up \in Seq(Upward) /\ down \in Seq(Downward)
    /\ greeted \in BOOLEAN /\ expected \in Nat /\ asking \in BOOLEAN
    /\ log \in Seq(Nat) /\ made \in Nat /\ fresh \in Nat /\ last \in Nat
    /\ spent \in Nat

\* start() has set _running and entered _open_and_logon.
Init ==
    /\ retrans \in BOOLEAN /\ missed = FALSE
    /\ state = "connecting" /\ running = TRUE /\ loggedOn = FALSE /\ probing = FALSE
    /\ outSeq = 1 /\ inSeq = 1 /\ pending = {} /\ asked = FALSE
    /\ sock = "none" /\ leaked = 0 /\ conns = 0
    /\ reader = "connect" /\ attempt = 0
    /\ beating = FALSE /\ closing = "no"
    /\ peer = "gone" /\ up = <<>> /\ down = <<>>
    /\ greeted = FALSE /\ expected = 1 /\ asking = FALSE /\ log = <<>>
    /\ made = 0 /\ fresh = 0 /\ last = 0 /\ spent = 0

Fault(f) == f \in Faults /\ spent < MaxFaults /\ spent' = spent + 1

Later(m, n) == IF m > n THEN m ELSE n

-----------------------------------------------------------------------------
(* Sending, and the ends of an attempt, of a connection, of the session.   *)

\* Mutant: only application messages consume a number.
SentAdminFree(type, val) ==
    /\ sock = "open"
    /\ outSeq' = IF type = "app" THEN outSeq + 1 ELSE outSeq
    /\ up' = IF peer = "up"
             THEN Append(up, [type |-> type, seq |-> outSeq, val |-> val]) ELSE up

\* _send: the number is reserved first; a peer that is gone gets nothing.
Sent(type, val) ==
    /\ sock = "open"
    /\ outSeq' = outSeq + 1
    /\ up' = IF peer = "up"
             THEN Append(up, [type |-> type, seq |-> outSeq, val |-> val]) ELSE up

\* ... or it raises: no open connection, or the write fails.
NotSent ==
    /\ UNCHANGED up
    /\ \/ sock # "open" /\ UNCHANGED outSeq
       \/ sock = "open" /\ peer = "gone" /\ outSeq' = outSeq + 1

\* The receive task goes on; the session stays as it is.
Go(place) == reader' = place /\ UNCHANGED <<state, running, sock, attempt>>

\* The top of the receive loop.
Top == IF running THEN "read" ELSE "done"

\* Mutant: the session goes back to where it was before start().
TerminateIdle(place) ==
    /\ running' = FALSE /\ state' = "disconnected"
    /\ sock' = IF sock = "open" THEN "closed" ELSE sock
    /\ reader' = place /\ UNCHANGED attempt

\* The session ends: peer's Logout, a fatal sequence error, a failed start(). An
\* on_state_change that raises at "closed" changes nothing that is left to do.
Terminate(place) ==
    /\ running' = FALSE /\ state' = "closed"
    /\ sock' = IF sock = "open" THEN "closed" ELSE sock
    /\ reader' = place /\ UNCHANGED attempt

\* _open_and_logon raised in state `at`: start() gives up, _reconnect tries again
\* or gives up.
AttemptFailedAt(at) ==
    \/ attempt = 0 /\ Terminate("done")
    \/ /\ attempt \in 1..(MaxAttempts - 1)
       /\ attempt' = attempt + 1 /\ reader' = "backoff" /\ state' = at
       /\ UNCHANGED <<running, sock>>
    \/ /\ attempt = MaxAttempts
       /\ state' = "closed" /\ reader' = "giveup"
       /\ UNCHANGED <<running, sock, attempt>>

AttemptFailed == AttemptFailedAt(state)

\* Mutant: a failed read or reply ends the receive task and nothing else.
RecoverNot == Go("done")

\* FixConnectionError in the receive loop: leave, or enter _reconnect.
Recover ==
    \/ ~running /\ Go("done")
    \/ /\ running
       /\ sock' = "closed" /\ state' = "reconnecting"
       /\ attempt' = 1 /\ reader' = "backoff" /\ UNCHANGED running

\* Mutant: the request begins behind the missing message.
AskResendBeyond(Then, Else) ==
    \/ asked /\ Then /\ UNCHANGED <<asked, outSeq, up>>
    \/ ~asked /\ asked' = TRUE /\ Sent("resend", inSeq + 1) /\ Then
    \/ ~asked /\ asked' = TRUE /\ NotSent /\ Else

\* _request_resend, once until the gap is closed; the flag is set first.
AskResend(Then, Else) ==
    \/ asked /\ Then /\ UNCHANGED <<asked, outSeq, up>>
    \/ ~asked /\ asked' = TRUE /\ Sent("resend", inSeq) /\ Then
    \/ ~asked /\ asked' = TRUE /\ NotSent /\ Else

-----------------------------------------------------------------------------
(* Connecting: _open_and_logon and _reconnect.                             *)

\* Mutant: every logon starts afresh.
ResettingAlways == TRUE

Resetting == ~retrans \/ ~loggedOn

ResetNumbers ==
    \/ Resetting /\ outSeq' = 1 /\ inSeq' = 1 /\ pending' = {} /\ asked' = FALSE
    \/ ~Resetting /\ UNCHANGED <<outSeq, numbers>>

\* The connection opens, and the numbers are reset where nothing is resumed.
Open ==
    /\ reader = "connect" /\ conns < MaxConns
    /\ conns' = conns + 1 /\ sock' = "open"
    /\ peer' = "up" /\ up' = <<>> /\ down' = <<>> /\ greeted' = FALSE
    /\ ResetNumbers
    /\ state' = "logging_on" /\ reader' = "greet"
    /\ UNCHANGED <<retrans, missed, running, loggedOn, probing, leaked, attempt, beating,
                   closing, expected, asking, log, made, fresh, last, spent>>

OpenFails ==
    /\ reader = "connect"
    /\ \/ Fault("refuse") \/ (attempt = 0 /\ Fault("raise"))
       \/ (conns = MaxConns /\ UNCHANGED spent)
    /\ AttemptFailed
    /\ UNCHANGED <<retrans, missed, loggedOn, probing, outSeq, numbers, leaked, conns,
                   beating, closing, peer, up, down, gateway, last>>

SendLogon ==
    /\ reader = "greet"
    /\ \/ Sent("logon", IF Resetting THEN 1 ELSE 0) /\ Go("logon") /\ UNCHANGED spent
       \/ NotSent /\ AttemptFailed /\ UNCHANGED spent
       \/ Fault("raise") /\ AttemptFailed /\ UNCHANGED <<outSeq, up>>
    /\ UNCHANGED <<retrans, missed, loggedOn, probing, numbers, leaked, conns,
                   beating, closing, peer, down, gateway, last>>

\* The session is active, unless on_state_change raises and fails the attempt.
LoggedOn(place) ==
    /\ loggedOn' = TRUE /\ probing' = FALSE
    /\ \/ /\ state' = "active" /\ reader' = place
          /\ beating' = (beating \/ attempt = 0)
          /\ UNCHANGED <<running, sock, attempt, spent>>
       \/ Fault("raise") /\ AttemptFailedAt("active") /\ UNCHANGED beating

LogonRefused == AttemptFailed /\ UNCHANGED <<numbers, loggedOn, probing, beating, spent>>

\* The first frame has to be a Logon with the expected number, or on a session
\* that retransmits a later one.
LogonAnswered ==
    /\ reader = "logon" /\ sock = "open" /\ down # <<>>
    /\ down' = Tail(down)
    /\ LET f == Head(down) IN
       \/ f.type # "logon" /\ LogonRefused
       \/ /\ f.type = "logon" /\ f.seq = inSeq
          /\ inSeq' = inSeq + 1 /\ UNCHANGED <<pending, asked>>
          /\ LoggedOn("read")
       \/ /\ f.type = "logon" /\ f.seq > inSeq /\ retrans
          /\ pending' = {g \in pending : g.seq # f.seq} \cup {f}
          /\ UNCHANGED <<inSeq, asked>>
          /\ LoggedOn("resume")
       \/ /\ f.type = "logon" /\ (f.seq < inSeq \/ (f.seq > inSeq /\ ~retrans))
          /\ LogonRefused
    /\ UNCHANGED <<retrans, missed, outSeq, leaked, conns, closing, peer, up, gateway,
                   last>>

\* No answer in time, none that can be decoded, or the connection ends first.
LogonUnanswered ==
    /\ reader = "logon"
    /\ \/ Fault("slow")
       \/ down # <<>> /\ Fault("skip")
       \/ peer = "mute" /\ down = <<>> /\ UNCHANGED spent
       \/ (sock # "open" \/ (peer = "gone" /\ down = <<>>)) /\ UNCHANGED spent
    /\ AttemptFailed
    /\ UNCHANGED <<retrans, missed, loggedOn, probing, outSeq, numbers, leaked, conns,
                   beating, closing, peer, up, down, gateway, last>>

\* The session resumes behind a gap.
Resume ==
    /\ reader = "resume"
    /\ AskResend(Go("read"), AttemptFailed)
    /\ UNCHANGED <<retrans, missed, loggedOn, probing, inSeq, pending, leaked, conns,
                   beating, closing, peer, down, gateway, last, spent>>

\* After the back-off; the FixConnection of a failed attempt is replaced.
BackoffOver ==
    /\ reader = "backoff"
    /\ \/ ~running /\ Go("done") /\ UNCHANGED <<leaked, spent>>
       \/ /\ running
          /\ leaked' = IF sock = "open" THEN leaked + 1 ELSE leaked
          /\ sock' = "none" /\ state' = "connecting" /\ reader' = "connect"
          /\ UNCHANGED <<running, attempt, spent>>
       \/ running /\ Fault("raise") /\ AttemptFailedAt("connecting") /\ UNCHANGED leaked
    /\ UNCHANGED <<retrans, missed, loggedOn, probing, outSeq, numbers, conns,
                   beating, closing, peer, up, down, gateway, last>>

\* Out of attempts: once on_state_change has returned the loop leaves.
GiveUp ==
    /\ reader = "giveup"
    /\ running' = FALSE /\ reader' = "done"
    /\ UNCHANGED <<retrans, missed, state, sock, attempt, loggedOn, probing, outSeq,
                   numbers, leaked, conns, beating, closing, peer, up, down, gateway,
                   last, spent>>

\* on_state_change raises where _reconnect awaits it outside any handler, on the
\* way into "reconnecting" or "closed": the exception ends the receive task.
CallbackRaises ==
    /\ reader = "giveup" \/ (reader = "backoff" /\ attempt = 1 /\ state = "reconnecting")
    /\ Fault("raise") /\ Go("raised")
    /\ UNCHANGED <<retrans, missed, loggedOn, probing, outSeq, numbers, leaked, conns,
                   beating, closing, peer, up, down, gateway, last>>

Connecting == Open \/ OpenFails \/ SendLogon \/ LogonAnswered
              \/ LogonUnanswered \/ Resume \/ BackoffOver \/ GiveUp \/ CallbackRaises

-----------------------------------------------------------------------------
(* Receiving: _recv_loop and _handle_inbound.                              *)

\* The request for a resend is settled when nothing waits any more.
Settled(waiting) == asked /\ waiting # {}

\* Mutant: messages behind the new watermark stay.
SkipKeeping(n, waiting) ==
    /\ inSeq' = Later(inSeq, n)
    /\ pending' = waiting
    /\ asked' = Settled(pending')

\* SequenceReset moves the watermark forward, never back.
Skip(n, waiting) ==
    /\ inSeq' = Later(inSeq, n)
    /\ pending' = {g \in waiting : g.seq >= inSeq'}
    /\ asked' = Settled(pending')

Consumed(place) == inSeq' = inSeq + 1 /\ Go(place)

\* _process of the message whose turn it is.  It counts as received only once
\* that is done: a reply that cannot be sent leaves inSeq where it is, and so does an
\* on_state_change that raises at "closed".
Well(f) ==
    \/ /\ f.type = "app"
       /\ last' = f.val /\ Go("deliver")
       /\ UNCHANGED <<inSeq, outSeq, up, spent>>
    \/ /\ f.type \in {"logon", "beat"} \/ (f.type = "resend" /\ (~retrans \/ sock # "open"))
       /\ Consumed("drain")
       /\ UNCHANGED <<outSeq, up, last, spent>>
    \/ /\ f.type = "test" /\ UNCHANGED <<last, spent>>
       /\ \/ Sent("beat", 0) /\ Consumed("drain")
          \/ NotSent /\ Recover /\ UNCHANGED inSeq
    \/ /\ f.type = "resend" /\ retrans /\ sock = "open"
       /\ UNCHANGED <<outSeq, last, spent>>
       /\ \/ /\ up' = IF peer = "up"
                      THEN Append(up, [type |-> "gapfill", seq |-> f.val,
                                       val |-> Later(outSeq, f.val + 1)])
                      ELSE up
             /\ Consumed("drain")
          \/ peer = "gone" /\ Recover /\ UNCHANGED <<inSeq, up>>
    \/ /\ f.type = "logout"
       /\ \/ inSeq' = inSeq + 1 /\ Terminate("drain") /\ UNCHANGED spent
          \/ Fault("raise") /\ Terminate("done") /\ UNCHANGED inSeq
       /\ UNCHANGED <<outSeq, up, last>>

\* _safe_process: a malformed payload is answered with a Reject, which is to the
\* gateway what a Heartbeat is.
Process(f) ==
    \/ /\ f.type \in {"test", "logout"} \/ (f.type = "resend" /\ retrans)
       /\ Fault("malformed")
       /\ Sent("app", 0) \/ NotSent
       /\ Consumed("drain") /\ UNCHANGED last
    \/ Well(f)

\* A frame ahead of its turn: wait for the ones before it, or give up.
Ahead(f) ==
    /\ pending' = IF retrans \/ f.type # "gapfill"
                  THEN {g \in pending : g.seq # f.seq} \cup {f} ELSE pending
    /\ \/ retrans /\ AskResend(Go(Top), Recover)
       \/ ~retrans /\ Terminate("done") /\ UNCHANGED <<asked, outSeq, up>>
    /\ UNCHANGED <<inSeq, last, spent>>

\* A frame whose turn has passed: a retransmission, or a fatal error.
Behind(f) ==
    /\ IF f.dup THEN Go(Top) ELSE Terminate("done")
    /\ UNCHANGED <<numbers, outSeq, up, last, spent>>

Receive ==
    /\ reader = "read" /\ sock = "open" /\ down # <<>>
    /\ down' = Tail(down)
    /\ probing' = FALSE
    /\ LET f == Head(down) IN
       \/ f.seq > inSeq /\ Ahead(f)
       \/ /\ f.type = "gapfill" /\ f.seq <= inSeq
          /\ Skip(f.val, pending) /\ Go("drain")
          /\ UNCHANGED <<outSeq, up, last, spent>>
       \/ f.type # "gapfill" /\ f.seq = inSeq /\ Process(f) /\ UNCHANGED <<pending, asked>>
       \/ f.type # "gapfill" /\ f.seq < inSeq /\ Behind(f)
    /\ UNCHANGED <<retrans, missed, loggedOn, leaked, conns, beating, closing, peer,
                   gateway>>

\* The codec rejects a frame, or a SequenceReset does not parse: it is skipped.
Undecodable ==
    /\ reader = "read" /\ sock = "open" /\ down # <<>>
    /\ Fault("skip") /\ down' = Tail(down)
    /\ missed' = (missed \/ Head(down).dup)
    /\ probing' = probing \/ (Head(down).type = "gapfill" /\ probing' = FALSE)
    /\ Go(Top)
    /\ UNCHANGED <<retrans, loggedOn, outSeq, numbers, leaked, conns, beating, closing,
                   peer, up, gateway, last>>

\* The on_message callback returned, or raised.
Delivered ==
    /\ reader = "deliver"
    /\ Consumed("drain")
    /\ UNCHANGED <<retrans, missed, loggedOn, probing, outSeq, pending, asked, leaked,
                   conns, beating, closing, peer, up, down, gateway, last, spent>>

\* _drain_pending, message by message.
Drain ==
    /\ reader = "drain"
    /\ \/ \E f \in pending :
             /\ f.seq = inSeq
             /\ \/ /\ f.type = "gapfill"
                   /\ Skip(f.val, pending \ {f}) /\ Go("drain")
                   /\ UNCHANGED <<outSeq, up, last, spent>>
                \/ /\ f.type # "gapfill"
                   /\ pending' = pending \ {f}
                   /\ Process(f) /\ UNCHANGED asked
       \/ /\ \A f \in pending : f.seq # inSeq
          /\ asked' = Settled(pending)
          /\ Go(Top)
          /\ UNCHANGED <<inSeq, pending, outSeq, up, last, spent>>
    /\ UNCHANGED <<retrans, missed, loggedOn, probing, leaked, conns, beating, closing,
                   peer, down, gateway>>

EndOfStream ==
    /\ reader = "read"
    /\ sock # "open" \/ (peer = "gone" /\ down = <<>>)
    /\ Recover
    /\ UNCHANGED <<retrans, missed, loggedOn, probing, outSeq, numbers, leaked, conns,
                   beating, closing, peer, up, down, gateway, last, spent>>

Receiving == Receive \/ Undecodable \/ Delivered \/ Drain \/ EndOfStream

-----------------------------------------------------------------------------
(* The heartbeat task, users that send, and close().                       *)

OwnMessage == outSeq <= MaxOut

\* A Heartbeat is to the gateway what a message is: a number, and no answer.
HeartbeatDue ==
    /\ beating /\ running /\ state = "active" /\ OwnMessage
    /\ Sent("app", 0) \/ NotSent
    /\ UNCHANGED <<retrans, missed, session, numbers, link, tasks, peer, down, gateway,
                   last, spent>>

\* One interval of silence.
Probe ==
    /\ beating /\ running /\ state = "active" /\ ~probing /\ OwnMessage
    /\ probing' = TRUE
    /\ Sent("test", 0) \/ NotSent
    /\ UNCHANGED <<retrans, missed, state, running, loggedOn, numbers, link, tasks, peer,
                   down, gateway, last, spent>>

\* Mutant: a silent peer that has been probed is left alone.
PeerDeadUnprobed ==
    /\ beating /\ running /\ state = "active" /\ sock = "open" /\ ~probing
    /\ (peer = "mute" /\ UNCHANGED spent) \/ Fault("stall")
    /\ sock' = "closed"
    /\ UNCHANGED <<retrans, missed, session, outSeq, numbers, leaked, conns, tasks, peer,
                   up, down, gateway, last>>

\* Two: the peer is dead, or the callback holds the receive task for too long.
PeerDead ==
    /\ beating /\ running /\ state = "active" /\ sock = "open"
    /\ (peer = "mute" /\ UNCHANGED spent) \/ Fault("stall")
    /\ sock' = "closed"
    /\ UNCHANGED <<retrans, missed, session, outSeq, numbers, leaked, conns, tasks, peer,
                   up, down, gateway, last>>

\* send() asks for an open connection, not for an active session.
Send ==
    /\ OwnMessage
    /\ Sent("app", 0) \/ NotSent
    /\ UNCHANGED <<retrans, missed, session, numbers, link, tasks, peer, down, gateway,
                   last, spent>>

\* close(), once start() has returned or raised.
CloseBegin ==
    /\ closing = "no" /\ (loggedOn \/ reader = "done")
    /\ closing' = "logout" /\ running' = FALSE /\ beating' = FALSE
    /\ UNCHANGED <<retrans, missed, state, loggedOn, probing, outSeq, numbers, link,
                   reader, attempt, peer, up, down, gateway, last, spent>>

CloseLogout ==
    /\ closing = "logout" /\ closing' = "join"
    /\ \/ state = "active" /\ (Sent("logout", 0) \/ NotSent)
       \/ state # "active" /\ UNCHANGED <<outSeq, up>>
    /\ UNCHANGED <<retrans, missed, session, numbers, link, reader, attempt, beating, peer,
                   down, gateway, last, spent>>

\* Mutant: the receive task is left to end on its own.
CloseJoinDetached ==
    /\ closing = "join" /\ closing' = "done"
    /\ state' = "closed"
    /\ sock' = IF sock = "open" THEN "closed" ELSE sock
    /\ UNCHANGED <<retrans, missed, running, loggedOn, probing, outSeq, numbers, leaked,
                   conns, reader, attempt, beating, peer, up, down, gateway, last,
                   spent>>

\* The receive task is cancelled wherever it is, then the socket is closed.
CloseJoin ==
    /\ closing = "join" /\ closing' = "done"
    /\ reader' = "done" /\ state' = "closed"
    /\ sock' = IF sock = "open" THEN "closed" ELSE sock
    /\ UNCHANGED <<retrans, missed, running, loggedOn, probing, outSeq, numbers, leaked,
                   conns, attempt, beating, peer, up, down, gateway, last, spent>>

-----------------------------------------------------------------------------
(* The gateway and the network.                                            *)

Live == peer = "up" /\ sock = "open"
Frame(type, seq, val, dup) == [type |-> type, seq |-> seq, val |-> val, dup |-> dup]
NextSeq == Len(log) + 1

client == <<retrans, missed, session, outSeq, numbers, link, tasks, last>>

\* Whoever does not begin with a Logon is disconnected.
RefuseStranger ==
    /\ Live /\ ~greeted /\ up # <<>> /\ Head(up).type # "logon"
    /\ peer' = "gone" /\ up' = <<>>
    /\ UNCHANGED <<client, down, gateway, spent>>

\* A Logon that resets both directions, one that resumes, one that is refused.
AnswerLogon ==
    /\ Live /\ ~greeted /\ up # <<>> /\ Head(up).type = "logon"
    /\ up' = Tail(up)
    /\ LET f == Head(up)
           behind == f.seq > expected
       IN  \/ /\ Fault("reject")
             /\ down' = Append(down, Frame("logout", NextSeq, 0, FALSE))
             /\ UNCHANGED gateway
          \/ /\ f.val = 1 /\ UNCHANGED spent
             /\ log' = <<0>> /\ fresh' = made /\ expected' = 2
             /\ greeted' = TRUE /\ asking' = FALSE
             /\ down' = Append(down, Frame("logon", 1, 0, FALSE))
             /\ UNCHANGED made
          \/ /\ f.val = 0 /\ UNCHANGED <<made, fresh, spent>>
             /\ greeted' = TRUE /\ asking' = behind
             /\ expected' = IF behind THEN expected ELSE expected + 1
             /\ log' = log \o (IF behind THEN <<0, 0>> ELSE <<0>>)
             /\ down' = Append(down, Frame("logon", NextSeq, 0, FALSE))
                        \o (IF behind THEN <<Frame("resend", NextSeq + 1, expected, FALSE)>>
                            ELSE <<>>)
    /\ UNCHANGED <<client, peer>>

\* Application messages are sent again, runs of others skipped with one frame.
NextApp(q) == CHOOSE n \in (q + 1)..NextSeq :
                  /\ n = NextSeq \/ log[n] # 0
                  /\ \A m \in (q + 1)..(n - 1) : log[m] = 0

Resent(q) == IF log[q] = 0 THEN Frame("gapfill", q, NextApp(q), TRUE)
                           ELSE Frame("app", q, log[q], TRUE)

Again(begin) ==
    LET Q == {q \in begin..Len(log) : log[q] # 0 \/ q = begin \/ log[q - 1] # 0}
        Nth(i) == CHOOSE q \in Q : Cardinality({p \in Q : p <= q}) = i
    IN  [i \in 1..Cardinality(Q) |-> Resent(Nth(i))]

Reply(type, val) ==
    /\ log' = Append(log, 0)
    /\ down' = Append(down, Frame(type, NextSeq, val, FALSE))

Answer ==
    /\ Live /\ greeted /\ up # <<>>
    /\ up' = Tail(up)
    /\ LET f == Head(up) IN
       /\ \/ f.type = "gapfill" /\ expected' = Later(expected, f.val) /\ asking' = FALSE
          \/ /\ f.type # "gapfill" /\ f.seq <= expected
             /\ expected' = Later(expected, f.seq + 1) /\ UNCHANGED asking
          \/ /\ f.type # "gapfill" /\ f.seq > expected
             /\ asking' = TRUE /\ UNCHANGED expected
       /\ \/ /\ f.type # "gapfill" /\ f.seq > expected /\ ~asking /\ f.type # "resend"
             /\ Reply("resend", expected) /\ UNCHANGED peer
          \/ f.type = "resend" /\ down' = down \o Again(f.val) /\ UNCHANGED <<log, peer>>
          \/ f.type = "test" /\ f.seq <= expected /\ Reply("beat", 0) /\ UNCHANGED peer
          \/ f.type = "logout" /\ f.seq <= expected /\ peer' = "gone" /\ UNCHANGED <<log, down>>
          \/ /\ \/ f.type \in {"gapfill", "app", "beat", "logon"} /\ f.seq <= expected
                \/ f.type = "gapfill"
                \/ f.type # "resend" /\ f.seq > expected /\ asking
             /\ UNCHANGED <<log, down, peer>>
    /\ UNCHANGED <<client, greeted, made, fresh, spent>>

\* Something new from the gateway, perhaps twice without being marked as a
\* retransmission.
Emit(type, val) ==
    /\ Len(log) < MaxLog
    /\ log' = Append(log, val)
    /\ LET f == Frame(type, NextSeq, val, FALSE) IN
       \/ down' = Append(down, f) /\ UNCHANGED spent
       \/ Fault("repeat") /\ down' = down \o <<f, f>>

EmitApp ==
    /\ Live /\ greeted
    /\ made' = made + 1 /\ Emit("app", made')
    /\ UNCHANGED <<client, peer, up, greeted, expected, asking, fresh>>

\* A session that retransmits keeps what is made while nobody is connected.
StoreApp ==
    /\ retrans /\ loggedOn /\ running /\ ~(Live /\ greeted) /\ Len(log) < MaxLog
    /\ made' = made + 1 /\ log' = Append(log, made')
    /\ UNCHANGED <<client, peer, up, down, greeted, expected, asking, fresh, spent>>

EmitAdmin ==
    /\ Live /\ greeted
    /\ \/ Emit("test", 0)
       \/ Fault("logout") /\ Reply("logout", 0)
    /\ UNCHANGED <<client, peer, up, greeted, expected, asking, made, fresh>>

\* The connection breaks, with a FIN or silently.
Break ==
    /\ peer = "up" /\ sock = "open"
    /\ (Fault("drop") /\ peer' = "gone") \/ (Fault("mute") /\ peer' = "mute")
    /\ up' = <<>>
    /\ \E k \in 0..Len(down) : down' = SubSeq(down, 1, k)
    /\ UNCHANGED <<client, gateway>>

-----------------------------------------------------------------------------
Next ==
    \/ Connecting \/ Receiving
    \/ HeartbeatDue \/ Probe \/ PeerDead
    \/ Send \/ CloseBegin \/ CloseLogout \/ CloseJoin
    \/ RefuseStranger \/ AnswerLogon \/ Answer \/ EmitApp \/ StoreApp \/ EmitAdmin \/ Break

Spec == Init /\ [][Next]_vars

\* The event loop runs what can run, callbacks return, the gateway answers.
Fairness ==
    /\ WF_vars(Connecting \/ Receiving)
    /\ WF_vars(PeerDead) /\ WF_vars(CloseLogout \/ CloseJoin)
    /\ WF_vars(RefuseStranger \/ AnswerLogon) /\ WF_vars(Answer)

FairSpec == Spec /\ Fairness

-----------------------------------------------------------------------------
(* Application messages reach on_message as OrderedDelivery promises.       *)
Delivery == INSTANCE OrderedDelivery WITH reliable <- retrans
DeliverySpec == Delivery!Spec

(* The client never expects a message the gateway has not reached, and what *)
(* waits in _pending is ahead of its turn and was sent.                     *)
WatermarkHonest ==
    /\ inSeq <= NextSeq
    /\ reader = "read" => \A f \in pending : f.seq \in (inSeq + 1)..Len(log)
    /\ \A f, g \in pending : f.seq = g.seq => f = g

(* The gateway sees numbers that never repeat or go back.                   *)
OutboundInOrder ==
    /\ \A i, j \in 1..Len(up) :
           i < j /\ "gapfill" \notin {up[i].type, up[j].type} => up[i].seq < up[j].seq
    /\ \A i \in 1..Len(up) :
           Live /\ greeted /\ up[i].type # "gapfill" => up[i].seq >= expected

(* The gateway sees every connection begin with a Logon.                    *)
LogonFirst == Live /\ ~greeted /\ up # <<>> => Head(up).type = "logon"

(* A receive task that ends before close() leaves a closed session that is  *)
(* not running, unless an exception of on_state_change ended it: then the   *)
(* session stays as it was, but not in "active" ("no unexpected error may   *)
(* silently kill the recv loop and leave the session wedged in ACTIVE").    *)
NeverWedged ==
    closing = "no" =>
        /\ reader = "done" => state = "closed" /\ ~running
        /\ reader = "raised" => state \in {"reconnecting", "closed"}

(* Whatever ended the receive task, the session is closed.                  *)
EndIsNoticed ==
    closing = "no" /\ reader \in {"done", "raised"} => state = "closed" /\ ~running

(* A gap is closed or ends the session ...                                  *)
GapRecovered == pending # {} ~> (pending = {} \/ state = "closed")

(* ... and it is closed as long as the connection it was found on holds and *)
(* no frame sent again is lost to the codec.                                *)
GapRecoveredOnOneConnection ==
    [](conns <= 1 /\ ~missed) => (pending # {} ~> (pending = {} \/ state # "active"))

(* A peer that falls silent is noticed.                                     *)
DeadPeerNoticed == (peer = "mute" /\ state = "active") ~> (peer # "mute" \/ state # "active")

(* close() completes and leaves neither task nor socket behind.             *)
CloseCompletes ==
    closing = "logout" ~> (closing = "done" /\ reader = "done" /\ ~beating /\ sock # "open")

(* Whenever the session is closed its socket is.                            *)
ClosedSocket == state = "closed" => sock # "open"

(* Only one socket is open at a time.                                       *)
OneSocket == leaked = 0
=============================================================================
