---------------------------- MODULE MessageQueue ----------------------------
(***************************************************************************)
(* The bounded queue between the receive loop and a subscription's         *)
(* iterator (src/kalshi/ws/backpressure.py, class MessageQueue).           *)
(*                                                                         *)
(* put, put_sentinel and put_error contain no await, so each is one step.  *)
(* A consumer runs get or __anext__: it loops on `while not buffer`, clears *)
(* the event and waits, and pops the head once it finds the buffer filled. *)
(* Event.set resolves the future of every waiter; a waiter whose future is *)
(* resolved still has to be scheduled and looks at the buffer again then,   *)
(* which is the state "woken".  The event's own flag is always cleared     *)
(* right before it is awaited, so the waiters are all there is to it.      *)
(* A waiting consumer can be cancelled (asyncio.timeout around __anext__).  *)
(***************************************************************************)
EXTENDS Naturals, Sequences

CONSTANTS MaxSize,      \* the maxsize argument
          Consumers,    \* tasks iterating the queue; all share one buffer
          MaxPuts       \* bound: how often the receive loop calls put

\* maxsize is not validated by the code; zero makes the first put of a
\* DROP_OLDEST queue pop an empty deque, so only positive sizes are modelled.
ASSUME SizeAssumption == MaxSize \in Nat \ {0}
ASSUME PutsAssumption == MaxPuts \in Nat

VARIABLES overflow,     \* _overflow, an OverflowStrategy chosen at construction
          buffer,       \* the deque: messages, then at most one terminal
          closed,       \* _closed
          puts,         \* number of put calls so far; message k is the k-th
          delivered,    \* the messages consumers got, in order
          consumer      \* what each consumer is doing

vars == <<overflow, buffer, closed, puts, delivered, consumer>>

Message(k) == [kind |-> "message", n |-> k]
Sentinel == [kind |-> "sentinel", n |-> 0]
ErrorSentinel == [kind |-> "error", n |-> 0]
Terminals == {Sentinel, ErrorSentinel}
Messages == [kind : {"message"}, n : Nat \ {0}]

OverflowStrategy == {"DROP_OLDEST", "ERROR"}
Lossy == overflow = "DROP_OLDEST"

Outcomes == {"stopped", "raised"}
Polling == {"ready", "woken"}       \* about to look at the buffer

TypeOK ==
    /\ overflow \in OverflowStrategy
    /\ buffer \in Seq(Messages \cup Terminals)
    /\ closed \in BOOLEAN
    /\ puts \in Nat
    /\ delivered \in Seq(Nat \ {0})
    /\ consumer \in [Consumers -> Polling \cup {"waiting"} \cup Outcomes]

Init ==
    /\ overflow \in OverflowStrategy
    /\ buffer = <<>>
    /\ closed = FALSE
    /\ puts = 0
    /\ delivered = <<>>
    /\ consumer = [c \in Consumers |-> "ready"]

-----------------------------------------------------------------------------
\* Mutant: a deque without the extra slot.
PushTight(b, x) == Append(IF Len(b) = MaxSize THEN Tail(b) ELSE b, x)

\* deque(maxlen = maxsize + 1).append: a full deque loses its head.
Push(b, x) == Append(IF Len(b) = MaxSize + 1 THEN Tail(b) ELSE b, x)

\* Mutant: the event is not set.
WakeNobody(cs) == cs

\* Event.set: every waiter becomes runnable.
Wake(cs) == [c \in Consumers |-> IF cs[c] = "waiting" THEN "woken" ELSE cs[c]]

Store(b) ==
    /\ buffer' = Push(b, Message(puts'))
    /\ consumer' = Wake(consumer)

PutCall == puts < MaxPuts /\ puts' = puts + 1

\* put with room left.
PutRoom ==
    /\ PutCall /\ ~closed
    /\ Len(buffer) < MaxSize
    /\ Store(buffer)
    /\ UNCHANGED <<overflow, closed, delivered>>

\* Mutant: nothing is displaced before the message is stored.
PutDisplacingNothing ==
    /\ PutCall /\ ~closed
    /\ Len(buffer) >= MaxSize /\ Lossy
    /\ Store(buffer)
    /\ UNCHANGED <<overflow, closed, delivered>>

PutDisplacingAnyway ==
    /\ PutCall /\ ~closed
    /\ Len(buffer) >= MaxSize
    /\ Store(Tail(buffer))
    /\ UNCHANGED <<overflow, closed, delivered>>

\* put on a full DROP_OLDEST queue.
PutDisplacing ==
    /\ PutCall /\ ~closed
    /\ Len(buffer) >= MaxSize /\ Lossy
    /\ Store(Tail(buffer))
    /\ UNCHANGED <<overflow, closed, delivered>>

\* put on a full ERROR queue raises KalshiBackpressureError; put on a closed
\* queue returns.  Neither stores anything.
PutIgnored ==
    /\ PutCall
    /\ closed \/ (Len(buffer) >= MaxSize /\ ~Lossy)
    /\ UNCHANGED <<overflow, buffer, closed, delivered, consumer>>

\* put_sentinel and put_error: nothing on a closed queue, else close it.
PutTerminal ==
    /\ ~closed
    /\ closed' = TRUE
    /\ \E t \in Terminals : buffer' = Push(buffer, t)
    /\ consumer' = Wake(consumer)
    /\ UNCHANGED <<overflow, puts, delivered>>

\* get / __anext__ on an empty buffer: clear the event, wait.
Wait(c) ==
    /\ consumer[c] \in Polling
    /\ buffer = <<>>
    /\ consumer' = [consumer EXCEPT ![c] = "waiting"]
    /\ UNCHANGED <<overflow, buffer, closed, puts, delivered>>

\* Mutant: whatever comes out of the deque is handed over, a terminal included.
TakeAnything(c) ==
    /\ consumer[c] \in Polling
    /\ buffer # <<>>
    /\ buffer' = Tail(buffer)
    /\ delivered' = Append(delivered, Head(buffer).n)
    /\ consumer' = [consumer EXCEPT ![c] = "ready"]
    /\ UNCHANGED <<overflow, closed, puts>>

\* get / __anext__ returning a message; the consumer comes back for the next.
TakeMessage(c) ==
    /\ consumer[c] \in Polling
    /\ buffer # <<>> /\ Head(buffer).kind = "message"
    /\ buffer' = Tail(buffer)
    /\ delivered' = Append(delivered, Head(buffer).n)
    /\ consumer' = [consumer EXCEPT ![c] = "ready"]
    /\ UNCHANGED <<overflow, closed, puts>>

\* get / __anext__ reaching the terminal: StopAsyncIteration, or the error.
TakeTerminal(c) ==
    /\ consumer[c] \in Polling
    /\ buffer # <<>> /\ Head(buffer) \in Terminals
    /\ buffer' = Tail(buffer)
    /\ consumer' = [consumer EXCEPT ![c] =
                        IF Head(buffer) = Sentinel THEN "stopped" ELSE "raised"]
    /\ UNCHANGED <<overflow, closed, puts, delivered>>

\* The awaiting task is cancelled and the consumer iterates again later.
Cancel(c) ==
    /\ consumer[c] \in {"waiting", "woken"}
    /\ consumer' = [consumer EXCEPT ![c] = "ready"]
    /\ UNCHANGED <<overflow, buffer, closed, puts, delivered>>

Step(c) == Wait(c) \/ TakeMessage(c) \/ TakeTerminal(c)

Next ==
    \/ PutRoom \/ PutDisplacing \/ PutIgnored \/ PutTerminal
    \/ \E c \in Consumers : Step(c) \/ Cancel(c)

Spec == Init /\ [][Next]_vars

\* The event loop eventually runs every task whose future is resolved.
Fairness == \A c \in Consumers : WF_vars(TakeMessage(c) \/ TakeTerminal(c))

FairSpec == Spec /\ Fairness

-----------------------------------------------------------------------------
\* qsize: what waits, without the terminal.
QSize == IF closed /\ buffer # <<>> THEN Len(buffer) - 1 ELSE Len(buffer)

Waiting == [i \in 1..QSize |-> buffer[i].n]

Ended == {c \in Consumers : consumer[c] \in Outcomes}

(* No consumer sleeps while something it could take is in the buffer: the   *)
(* check of the buffer, event.clear() and wait() are one step, and every    *)
(* append sets the event, whatever other consumers and cancellations do.    *)
NoLostWakeup ==
    \A c \in Consumers : consumer[c] = "waiting" => buffer = <<>>

(* At most maxsize messages wait, qsize counts exactly them, and behind     *)
(* them is one terminal from the close until it is taken, never two and     *)
(* never a message.                                                         *)
TerminalLast ==
    /\ QSize <= MaxSize
    /\ Len(buffer) = QSize + (IF closed /\ Ended = {} THEN 1 ELSE 0)
    /\ \A i \in DOMAIN buffer : buffer[i] \in Terminals <=> i > QSize

(* One terminal ends at most one iteration: whoever took it, the queue      *)
(* stays closed and empty for the others.                                   *)
EndsOnce == \A c, d \in Ended : c = d

(* A closed queue is drained and its iteration ends.                        *)
ClosedEnds == closed ~> (Ended # {} /\ buffer = <<>>)

(* An accepted message does not stay in the buffer for ever.                *)
EveryMessageLeaves ==
    \A k \in 1..MaxPuts :
        (\E i \in DOMAIN Waiting : Waiting[i] = k)
            ~> ~(\E i \in DOMAIN Waiting : Waiting[i] = k)

(* The queue implements the promise of BoundedStream: the buffer without    *)
(* its terminal is the backlog, and the terminal is the phase.              *)
Stream == INSTANCE BoundedStream
    WITH Payload <- 1..MaxPuts, Capacity <- MaxSize, lossy <- Lossy, backlog <- Waiting,
         handed <- delivered,
         phase <- IF ~closed THEN "open"
                  ELSE IF Ended = {} THEN "closing" ELSE "over"

StreamSpec == Stream!Spec
=============================================================================
