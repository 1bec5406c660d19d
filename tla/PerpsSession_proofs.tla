------------------------- MODULE PerpsSession_proofs -------------------------
(***************************************************************************)
(* Proofs about PerpsSession, for every set of callers and any number of   *)
(* disturbances: one reader at a time, pauses that are always fresh, and   *)
(* consumers that are told when the session or its loop ends (TellInv).    *)
(* RecvExclusive is not inductive: that no command meets the loop inside   *)
(* recv() needs the lock (Holder, LoopHolds), where the loop may be while  *)
(* a command has the socket (AtCheckpoint), and that this survives the     *)
(* teardown and close() (ClosedEnds, TornDown).  FreshPause rests on whose *)
(* request a pending pause or a parked loop is (PendingHeld, ParkedHeld).  *)
(***************************************************************************)
EXTENDS PerpsSession, TLAPS, FiniteSetTheorems, SequenceTheorems

Alone == {"granted", "act", "send"}       \* between the grant and the finally

\* Whoever is between the request and the release holds the lock, ...
Holder == \A c \in Callers : call[c] \in Holding => lock = c

\* ... and so does the loop while it reconnects.
LoopHolds == loop \in {"reconnect", "resub"} => lock = RecvTask

\* The loop is gone, or parked at the top of its while.
Checkpoint ==
    loop \in LoopGone \/ (loop \in {"parked", "resumed"} /\ pausePending)

Closing == ~running /\ socket \in {"closing", "closed"}

\* While a command has the socket to itself the loop is at its checkpoint; one
\* that was woken by the end of the session finds that out before it reads.
AtCheckpoint ==
    \A c \in Callers :
        /\ call[c] = "act" => Checkpoint
        /\ call[c] = "granted" => Checkpoint \/ Closing
        /\ call[c] = "send" => ~running

\* Only a session that is over closes its socket.
ClosedEnds == socket \in {"closing", "closed"} \/ stop # "no" => ~running

\* A session without managers that nobody stopped was torn down by its loop.
TornDown ==
    /\ loop = "teardown" => ~running
    /\ ~managers /\ stop = "no" =>
          /\ socket \in {"closing", "closed"}
          /\ loop \in LoopGone \cup {"starting"}

Undisturbed == running /\ NoneCancelled

\* A pending pause belongs to a command that has not resumed the loop yet, ...
PendingHeld ==
    Undisturbed /\ pausePending =>
        \E c \in Callers : call[c] \in {"pause"} \cup Alone

\* ... and a parked loop to one that still has to learn that it went on.
ParkedHeld ==
    Undisturbed /\ loop \in {"parked", "resumed"} =>
        \E c \in Callers : call[c] \in {"resuming"} \cup Alone

IInv == /\ TypeOK /\ Holder /\ LoopHolds /\ AtCheckpoint
        /\ ClosedEnds /\ TornDown /\ PendingHeld /\ ParkedHeld

\* Where a caller stands, the lock, the loop and the handshake have their types.
CallTyped == call \in [Callers -> {"idle", "lock"} \cup Holding \cup Finished]

Core == /\ CallTyped /\ pausePending \in BOOLEAN /\ resume \in BOOLEAN
        /\ loop \in LoopStates /\ lock \in Callers \cup {RecvTask, Nobody}
        /\ Holder /\ LoopHolds /\ AtCheckpoint
        /\ TornDown /\ PendingHeld /\ ParkedHeld

\* What a step of a caller leaves alone.
Aside == /\ UNCHANGED <<session, socket, command, stop>>
         /\ queue' \in Seq(Callers \cup {RecvTask})
         /\ live' \subseteq Callers /\ ended' \subseteq Callers /\ spent' \in Nat

-----------------------------------------------------------------------------
\* Whoever stands between the request and the release is alone.
LEMMA OneHolder ==
    ASSUME IInv, NEW c \in Callers, NEW d \in Callers, call[d] \in Holding,
           call[c] \in Holding \/ lock = Nobody
    PROVE  d = c /\ lock = c
BY TasksAssumption DEF IInv, Holder

\* The parts a caller's step can disturb, with the rest left alone, make it up.
LEMMA Assemble == ASSUME IInv, Core', Aside PROVE IInv'
BY DEF Core, Aside, CallTyped, IInv, TypeOK, ClosedEnds, session

\* The caller that is alone with the socket, or that takes the lock of a session
\* whose loop is gone.
Turn(c) == \/ call[c] \in Alone
           \/ call[c] \in {"idle", "lock"} /\ lock = Nobody /\ loop \in LoopGone

\* Nobody else is in the handshake then, ...
LEMMA TurnIsAlone ==
    ASSUME IInv, NEW c \in Callers, Turn(c), NEW d \in Callers, d # c
    PROVE  call[d] \notin Holding
BY OneHolder DEF Turn, Alone, Holding

\* ... and the loop is at its checkpoint or on its way out.
LEMMA TurnLoop ==
    ASSUME IInv, NEW c \in Callers, Turn(c)
    PROVE  /\ loop \notin {"reconnect", "resub"}
           /\ Undisturbed /\ loop \notin LoopGone => Checkpoint
<1>1. call[c] \in Alone => lock = c
  BY DEF IInv, Holder, Alone, Holding
<1>2. loop \notin {"reconnect", "resub"}
  BY <1>1, TasksAssumption DEF Turn, IInv, LoopHolds, LoopGone
<1> QED
  BY <1>2 DEF Turn, Alone, IInv, AtCheckpoint, Closing, Undisturbed

\* The finally keeps the handshake sound.
LEMMA EnsureKeeps ==
    ASSUME IInv, NEW c \in Callers, Turn(c), EnsureRecvLoop(c), Aside
    PROVE  IInv'
<1> USE DEF Aside, session
<1>0. CallTyped /\ loop \in LoopStates /\ pausePending \in BOOLEAN /\ resume \in BOOLEAN
  BY DEF IInv, TypeOK, CallTyped
<1>1. \A d \in Callers : d # c => call[d] \notin Holding
  BY TurnIsAlone
<1>2. /\ loop \notin {"reconnect", "resub"}
      /\ Undisturbed /\ loop \notin LoopGone => Checkpoint
  BY TurnLoop
<1>3. TornDown
  BY DEF IInv
<1>4. CASE /\ pausePending /\ loop \notin LoopGone
           /\ pausePending' = FALSE /\ resume' = TRUE /\ loop' = WakeParked
           /\ call' = [call EXCEPT ![c] = "resuming"] /\ lock' = c
  <2>1. CallTyped' /\ call'[c] = "resuming" /\ \A d \in Callers : d # c => call'[d] = call[d]
    BY <1>4, <1>0 DEF CallTyped, Holding
  <2>2. loop' \in LoopStates \ {"reconnect", "resub"}
        /\ (loop' = loop \/ (loop = "parked" /\ loop' = "resumed"))
    BY <1>4, <1>2, <1>0 DEF WakeParked, LoopStates
  <2>3. Holder' /\ LoopHolds' /\ AtCheckpoint'
    BY <1>4, <2>1, <2>2, <1>1 DEF Holder, LoopHolds, AtCheckpoint, Holding
  <2>4. TornDown'
    BY <1>4, <1>3, <2>2 DEF TornDown, LoopGone
  <2>5. PendingHeld' /\ ParkedHeld'
    BY <1>4, <2>1 DEF PendingHeld, ParkedHeld
  <2> QED
    BY <1>4, <2>1, <2>2, <2>3, <2>4, <2>5, Assemble DEF Core
<1>5. CASE /\ pausePending /\ loop \in LoopGone
           /\ pausePending' = FALSE /\ resume' = TRUE
           /\ call' = [call EXCEPT ![c] = "finished"] /\ lock' = Nobody
           /\ UNCHANGED loop
  <2>1. CallTyped' /\ \A d \in Callers : call'[d] \notin Holding
    BY <1>5, <1>0, <1>1 DEF CallTyped, Holding, Finished
  <2>2. Holder' /\ LoopHolds' /\ AtCheckpoint'
    BY <1>5, <2>1, <1>2 DEF Holder, LoopHolds, AtCheckpoint, Holding
  <2>3. TornDown'
    BY <1>5, <1>3 DEF TornDown
  <2>4. PendingHeld' /\ ParkedHeld'
    BY <1>5 DEF PendingHeld, ParkedHeld, LoopGone
  <2> QED
    BY <1>5, <1>0, <2>1, <2>2, <2>3, <2>4, Assemble DEF Core
<1>6. CASE /\ ~pausePending
           /\ loop' = IF loop \in LoopGone THEN "starting" ELSE loop
           /\ call' = [call EXCEPT ![c] = "finished"] /\ lock' = Nobody
           /\ UNCHANGED handshake
  <2>1. CallTyped' /\ \A d \in Callers : call'[d] \notin Holding
    BY <1>6, <1>0, <1>1 DEF CallTyped, Holding, Finished
  <2>2. loop' \in LoopStates \ {"reconnect", "resub"}
    BY <1>6, <1>2, <1>0 DEF LoopStates
  <2>3. Holder' /\ LoopHolds' /\ AtCheckpoint'
    BY <1>6, <2>1, <2>2 DEF Holder, LoopHolds, AtCheckpoint, Holding
  <2>4. TornDown'
    BY <1>6, <1>3 DEF TornDown, LoopGone
  <2>5. Undisturbed' => Undisturbed
    <3>1. call[c] # "cancelled"
      BY DEF Turn, Alone
    <3> QED
      BY <3>1, <1>6, <1>0 DEF Undisturbed, NoneCancelled, CallTyped
  <2>6. PendingHeld' /\ ParkedHeld'
    BY <1>6, <2>5, <1>2 DEF PendingHeld, ParkedHeld, Checkpoint, LoopGone, handshake
  <2> QED
    BY <1>6, <1>0, <2>1, <2>2, <2>3, <2>4, <2>6, Assemble DEF Core, handshake
<1> QED
  BY <1>4, <1>5, <1>6 DEF EnsureRecvLoop

\* The body of the try keeps it, ...
LEMMA ProceedKeeps ==
    ASSUME IInv, NEW c \in Callers, Turn(c), call[c] \notin {"act", "send"},
           Proceed(c), Aside
    PROVE  IInv'
<1>1. CASE ~Allowed(c) /\ EnsureRecvLoop(c)
  BY <1>1, EnsureKeeps
<1>2. CASE /\ Allowed(c)
           /\ lock' = c
           /\ call' = [call EXCEPT ![c] =
                          IF socket \in {"closing", "closed"} THEN "send" ELSE "act"]
           /\ UNCHANGED <<handshake, loop>>
  <2> USE DEF Aside, session, handshake
  <2>0. CallTyped /\ loop \in LoopStates /\ pausePending \in BOOLEAN /\ resume \in BOOLEAN
    BY DEF IInv, TypeOK, CallTyped
  <2>1. \A d \in Callers : d # c => call[d] \notin Holding
    BY TurnIsAlone
  <2>2. call[c] # "cancelled"
    BY DEF Turn, Alone
  <2>3. /\ CallTyped' /\ call'[c] \in {"act", "send"} /\ call'[c] \in Alone
        /\ \A d \in Callers : d # c => call'[d] = call[d]
    BY <1>2, <2>0 DEF CallTyped, Holding, Alone
  <2>4. loop \notin {"reconnect", "resub"}
    BY TurnLoop
  <2>5. Holder' /\ LoopHolds'
    BY <1>2, <2>1, <2>3, <2>4 DEF Holder, LoopHolds
  <2>6. call'[c] = "send" => ~running
    BY <1>2, <2>0 DEF IInv, ClosedEnds, CallTyped
  <2>7. call'[c] = "act" => Checkpoint
    <3>1. SUFFICES ASSUME socket \notin {"closing", "closed"} PROVE Checkpoint
      BY <1>2, <2>0 DEF CallTyped
    <3> QED
      BY <3>1 DEF Turn, Alone, IInv, AtCheckpoint, Checkpoint, Closing
  <2>8. AtCheckpoint'
    BY <1>2, <2>1, <2>3, <2>6, <2>7 DEF AtCheckpoint, Holding, Checkpoint
  <2>9. TornDown'
    BY <1>2 DEF IInv, TornDown
  <2>10. PendingHeld' /\ ParkedHeld'
    BY <2>3 DEF PendingHeld, ParkedHeld
  <2> QED
    BY <1>2, <2>0, <2>3, <2>5, <2>8, <2>9, <2>10, Assemble DEF Core
<1> QED
  BY <1>1, <1>2 DEF Proceed

\* ... and so does asking for the pause.
LEMMA PauseKeeps ==
    ASSUME IInv, NEW c \in Callers, call[c] \in {"idle", "lock"}, lock = Nobody,
           PauseRecvLoop(c), Aside
    PROVE  IInv'
<1>1. CASE loop \in LoopGone /\ Proceed(c)
  BY <1>1, ProceedKeeps DEF Turn
<1>2. CASE /\ loop \notin LoopGone
           /\ lock' = c
           /\ pausePending' = TRUE /\ resume' = FALSE
           /\ call' = [call EXCEPT ![c] = "pause"]
           /\ UNCHANGED loop
  <2> USE DEF Aside, session
  <2>0. CallTyped /\ loop \in LoopStates
    BY DEF IInv, TypeOK, CallTyped
  <2>1. \A d \in Callers : call[d] \notin Holding
    BY TasksAssumption DEF IInv, Holder
  <2>2. /\ CallTyped' /\ call'[c] = "pause"
        /\ \A d \in Callers : d # c => call'[d] = call[d]
    BY <1>2, <2>0 DEF CallTyped, Holding
  <2>3. Holder' /\ LoopHolds' /\ AtCheckpoint'
    BY <1>2, <2>1, <2>2, TasksAssumption
       DEF IInv, Holder, LoopHolds, AtCheckpoint, Holding
  <2>4. TornDown'
    BY <1>2 DEF IInv, TornDown
  <2>5. PendingHeld'
    BY <2>2 DEF PendingHeld
  <2>6. Undisturbed' => Undisturbed
    BY <2>2 DEF Undisturbed, NoneCancelled
  <2>7. ParkedHeld'
    BY <1>2, <2>1, <2>6 DEF IInv, ParkedHeld, Alone, Holding
  <2> QED
    BY <1>2, <2>0, <2>2, <2>3, <2>4, <2>5, <2>7, Assemble DEF Core
<1> QED
  BY <1>1, <1>2 DEF PauseRecvLoop

\* A task that waited for the lock leaves the queue.
LEMMA WithdrawTyped ==
    ASSUME NEW t, Withdraw(t), queue \in Seq(Callers \cup {RecvTask})
    PROVE  queue' \in Seq(Callers \cup {RecvTask})
<1>1. PICK i \in DOMAIN queue :
        queue' = SubSeq(queue, 1, i - 1) \o SubSeq(queue, i + 1, Len(queue))
  BY DEF Withdraw
<1>2. i \in 1..Len(queue) /\ Len(queue) \in Nat
  BY LenProperties
<1>3. /\ SubSeq(queue, 1, i - 1) \in Seq(Callers \cup {RecvTask})
      /\ SubSeq(queue, i + 1, Len(queue)) \in Seq(Callers \cup {RecvTask})
  BY <1>2, SubSeqProperties
<1> QED
  BY <1>1, <1>3, ConcatProperties

\* A turn of the while loop keeps it; f are the callers after the acknowledgement.
LEMMA LoopTopKeeps ==
    ASSUME IInv, NEW r \in BOOLEAN, NEW f, LoopTop(r, f),
           f = call \/ (f = Acked(call) /\ loop = "resumed"),
           loop \notin LoopGone, loop # "parked",
           ~managers => stop # "no" \/ loop = "starting",
           lock' = lock \/ (loop = "resub" /\ lock' = Nobody),
           UNCHANGED <<running, managers, socket, command, stop>>,
           queue' \in Seq(Callers \cup {RecvTask}),
           live' \subseteq Callers, ended' \subseteq Callers, spent' \in Nat
    PROVE  IInv'
<1>0. CallTyped /\ loop \in LoopStates /\ pausePending \in BOOLEAN
      /\ lock \in Callers \cup {RecvTask, Nobody} /\ lock' \in Callers \cup {RecvTask, Nobody}
  BY DEF IInv, TypeOK, CallTyped
<1>1. Aside
  BY DEF Aside, session
<1>2. pausePending' = pausePending /\ resume' = r /\ running' = running /\ socket' = socket
  BY DEF LoopTop
<1>3. /\ f \in [Callers -> {"idle", "lock"} \cup Holding \cup Finished]
      /\ \A d \in Callers : f[d] = call[d] \/ (call[d] = "resuming" /\ f[d] = "resumed")
  BY <1>0 DEF CallTyped, Acked, Woken, Holding
<1>4. call' = f \/ (call' = Granted(f) /\ loop' \in {"parked", "resumed"} /\ pausePending /\ running)
  BY DEF LoopTop
<1>5. /\ CallTyped'
      /\ \A d \in Callers :
            \/ call'[d] = call[d]
            \/ call[d] = "resuming" /\ call'[d] = "resumed"
            \/ /\ call[d] = "pause" /\ call'[d] = "granted"
               /\ loop' \in {"parked", "resumed"} /\ pausePending
  BY <1>3, <1>4 DEF CallTyped, Granted, Woken, Holding
<1>6. loop' \in LoopStates \ {"reconnect", "resub", "teardown"}
  BY DEF LoopTop, LoopStates
<1>7. Holder' /\ LoopHolds'
  BY <1>5, <1>6, TasksAssumption DEF IInv, Holder, LoopHolds, Holding
<1>8. ASSUME ~running PROVE IInv'
  <2>1. loop' = "done"
    BY <1>8 DEF LoopTop
  <2>2. AtCheckpoint'
    BY <2>1, <1>8, <1>2 DEF AtCheckpoint, Checkpoint, LoopGone
  <2>3. TornDown'
    BY <2>1, <1>2 DEF IInv, TornDown, LoopGone
  <2>4. PendingHeld' /\ ParkedHeld'
    BY <1>8, <1>2 DEF PendingHeld, ParkedHeld, Undisturbed
  <2> QED
    BY <1>0, <1>1, <1>2, <1>5, <1>6, <1>7, <2>2, <2>3, <2>4, Assemble DEF Core
<1>9. ASSUME running PROVE IInv'
  <2>1. TornDown'
    BY <1>9, <1>2, <1>6 DEF IInv, TornDown, ClosedEnds
  <2>2. Undisturbed' => Undisturbed
    BY <1>2, <1>5 DEF Undisturbed, NoneCancelled
  <2>3. CASE pausePending
    <3>1. loop' \in {"parked", "resumed"} /\ call' = Granted(f)
      BY <1>9, <2>3 DEF LoopTop
    <3>2. AtCheckpoint'
      BY <1>2, <1>5, <1>9, <2>3, <3>1
         DEF IInv, AtCheckpoint, Checkpoint, Closing, LoopGone
    <3>3. ASSUME Undisturbed' PROVE \E d \in Callers : call'[d] \in Alone
      <4>1. PICK d \in Callers : call[d] \in {"pause"} \cup Alone
        BY <2>2, <2>3, <3>3 DEF IInv, PendingHeld
      <4>2. f[d] = call[d]
        BY <1>3, <4>1 DEF Alone
      <4> QED
        BY <3>1, <4>1, <4>2 DEF Granted, Woken, Alone
    <3> QED
      BY <1>0, <1>1, <1>2, <1>5, <1>6, <1>7, <2>1, <3>2, <3>3, Assemble
         DEF Core, PendingHeld, ParkedHeld
  <2>4. CASE ~pausePending
    <3>1. loop' = "recv" /\ call' = f
      BY <1>9, <2>4 DEF LoopTop
    <3>2. \A d \in Callers : call[d] \notin {"act", "granted", "send"}
      BY <1>9, <2>4 DEF IInv, AtCheckpoint, Checkpoint, Closing, LoopGone
    <3>3. AtCheckpoint'
      BY <3>1, <3>2, <1>3 DEF AtCheckpoint
    <3> QED
      BY <1>0, <1>1, <1>2, <1>5, <1>6, <1>7, <2>1, <2>4, <3>1, <3>3, Assemble
         DEF Core, PendingHeld, ParkedHeld
  <2> QED
    BY <1>0, <2>3, <2>4
<1> QED
  BY <1>8, <1>9

-----------------------------------------------------------------------------
\* The invariant holds at the start ...
LEMMA InitIInv == Init => IInv
<1> SUFFICES ASSUME Init PROVE IInv
  OBVIOUS
<1> USE DEF Init
<1>1. TypeOK
  BY EmptySeq DEF TypeOK, LoopStates
<1>2. Holder /\ LoopHolds /\ AtCheckpoint
  BY DEF Holder, LoopHolds, AtCheckpoint, Holding
<1>3. ClosedEnds /\ TornDown /\ PendingHeld /\ ParkedHeld
  BY DEF ClosedEnds, TornDown, PendingHeld, ParkedHeld
<1> QED
  BY <1>1, <1>2, <1>3 DEF IInv

\* The count of the disturbances stays a number.
LEMMA DisturbTyped == ASSUME IInv, NEW e, Disturb(e) PROVE spent' \in Nat
BY DEF Disturb, IInv, TypeOK

\* A caller moves outside the handshake, or leaves it with the lock.
LEMMA LeaveKeeps ==
    ASSUME IInv, NEW c \in Callers, NEW to \in {"lock"} \cup Finished,
           call' = [call EXCEPT ![c] = to], UNCHANGED <<handshake, loop>>, Aside,
           \/ call[c] \in {"idle", "lock"} /\ lock' = lock
           \/ call[c] \in Holding /\ lock' = Nobody,
           call[c] \in {"idle", "lock", "resumed"} \/ to = "cancelled"
    PROVE  IInv'
<1> USE DEF Aside, session, handshake
<1>0. CallTyped /\ loop \in LoopStates /\ pausePending \in BOOLEAN /\ resume \in BOOLEAN
      /\ lock' \in Callers \cup {RecvTask, Nobody}
  BY DEF IInv, TypeOK, CallTyped
<1>1. /\ CallTyped' /\ call'[c] = to /\ to \notin Holding
      /\ \A d \in Callers : d # c => call'[d] = call[d]
  BY <1>0 DEF CallTyped, Holding, Finished
<1>2. call[c] \in Holding => \A d \in Callers : d # c => call[d] \notin Holding
  BY OneHolder
<1>3. Holder'
  BY <1>1, <1>2 DEF IInv, Holder
<1>4. LoopHolds'
  BY TasksAssumption DEF IInv, Holder, LoopHolds, Holding
<1>5. AtCheckpoint'
  BY <1>1 DEF IInv, AtCheckpoint, Checkpoint, Closing, Holding
<1>6. TornDown'
  BY DEF IInv, TornDown
<1>7. ASSUME Undisturbed' PROVE Undisturbed /\ call[c] \in {"idle", "lock", "resumed"}
  BY <1>7, <1>1 DEF Undisturbed, NoneCancelled
<1>8. PendingHeld' /\ ParkedHeld'
  BY <1>7, <1>1 DEF IInv, PendingHeld, ParkedHeld, Alone
<1> QED
  BY <1>0, <1>1, <1>3, <1>4, <1>5, <1>6, <1>8, Assemble DEF Core

\* ... every step of a caller keeps it, ...
LEMMA CommandKeeps ==
    ASSUME IInv, NEW c \in Callers, Command(c) \/ Cancel(c)
    PROVE  IInv'
<1>0. /\ queue \in Seq(Callers \cup {RecvTask}) /\ live \subseteq Callers
      /\ ended \subseteq Callers /\ spent \in Nat
  BY DEF IInv, TypeOK
<1>1. CASE CommandRefused(c)
  BY <1>1, <1>0, LeaveKeeps DEF CommandRefused, Aside, mutex, streams, Finished
<1>2. CASE CommandBegin(c)
  <2>1. CASE lock = Nobody /\ PauseRecvLoop(c) /\ UNCHANGED queue
    BY <2>1, <1>2, <1>0, PauseKeeps DEF CommandBegin, Aside, streams
  <2>2. CASE /\ queue' = Append(queue, c)
             /\ call' = [call EXCEPT ![c] = "lock"]
             /\ UNCHANGED <<lock, handshake, loop>>
    <3>1. queue' \in Seq(Callers \cup {RecvTask})
      BY <2>2, <1>0, AppendProperties
    <3> QED
      BY <3>1, <2>2, <1>2, <1>0, LeaveKeeps DEF CommandBegin, Aside, streams
  <2> QED
    BY <2>1, <2>2, <1>2 DEF CommandBegin
<1>3. CASE CommandLocked(c)
  <2>1. queue' \in Seq(Callers \cup {RecvTask})
    BY <1>3, <1>0, HeadTailProperties DEF CommandLocked
  <2> QED
    BY <2>1, <1>3, <1>0, PauseKeeps DEF CommandLocked, Aside, streams
<1>4. CASE CommandPaused(c)
  BY <1>4, <1>0, ProceedKeeps DEF CommandPaused, Aside, streams, Turn, Alone
<1>5. CASE CommandDone(c)
  <2>1. live' \subseteq Callers /\ ended' \subseteq Callers
    BY <1>5, <1>0 DEF CommandDone, streams
  <2> QED
    BY <2>1, <1>5, <1>0, EnsureKeeps DEF CommandDone, Aside, Turn, Alone
<1>6. CASE CommandFailed(c)
  BY <1>6, <1>0, EnsureKeeps DEF CommandFailed, Aside, streams, Turn, Alone
<1>7. CASE CommandResumed(c)
  BY <1>7, <1>0, LeaveKeeps DEF CommandResumed, Aside, streams, Finished, Holding
<1>8. CASE Cancel(c)
  <2>0. /\ spent' \in Nat /\ UNCHANGED <<session, socket, command, stop, live, ended>>
    BY <1>8, DisturbTyped DEF Cancel, streams
  <2>1. CASE /\ call[c] = "lock" /\ Withdraw(c)
             /\ call' = [call EXCEPT ![c] = "cancelled"]
             /\ UNCHANGED <<lock, handshake, loop>>
    <3>1. queue' \in Seq(Callers \cup {RecvTask})
      BY <2>1, <1>0, WithdrawTyped
    <3> QED
      BY <3>1, <2>0, <2>1, <1>0, LeaveKeeps DEF Aside, Finished
  <2>2. CASE /\ call[c] \in {"pause", "granted", "resuming", "resumed"}
             /\ call' = [call EXCEPT ![c] = "cancelled"]
             /\ lock' = Nobody
             /\ UNCHANGED <<queue, handshake, loop>>
    BY <2>0, <2>2, <1>0, LeaveKeeps DEF Aside, Finished, Holding
  <2>3. CASE call[c] \in {"act", "send"} /\ EnsureRecvLoop(c) /\ UNCHANGED queue
    BY <2>0, <2>3, <1>0, EnsureKeeps DEF Aside, Turn, Alone
  <2> QED
    BY <2>1, <2>2, <2>3, <1>8 DEF Cancel
<1> QED
  BY <1>1, <1>2, <1>3, <1>4, <1>5, <1>6, <1>7, <1>8 DEF Command

\* A running session that is not over has its managers, but for a loop that
\* starts after the teardown.
LEMMA HasManagers ==
    ASSUME IInv, loop \notin LoopGone
    PROVE  ~managers => stop # "no" \/ loop = "starting"
BY DEF IInv, TornDown

\* The task dies, or goes from a frame to its callback or the teardown: nobody is
\* alone with the socket then, unless the session is closing.
LEMMA LeavesReading ==
    ASSUME IInv, loop \in {"recv", "handling"},
           loop' \in {"done", "handling"} \/ (loop' = "teardown" /\ ~running'),
           running' = running \/ running' = FALSE,
           socket' = socket \/ (socket' \in {"closing", "closed"} /\ ~running'),
           UNCHANGED <<managers, mutex, handshake, call, command, live, stop>>,
           ended' \subseteq Callers, spent' \in Nat
    PROVE  IInv'
<1> USE DEF mutex, handshake
<1>1. TypeOK'
  <2>1. running' \in BOOLEAN
    BY Zenon DEF IInv, TypeOK
  <2>2. socket' \in {"open", "lost", "refused", "closing", "closed"}
    BY DEF IInv, TypeOK
  <2>3. loop' \in LoopStates
    BY DEF LoopStates
  <2> QED
    BY <2>1, <2>2, <2>3 DEF IInv, TypeOK
<1>2. Holder' /\ LoopHolds' /\ ClosedEnds'
  BY DEF IInv, Holder, LoopHolds, ClosedEnds, TypeOK
<1>3. AtCheckpoint'
  <2>1. ~Checkpoint
    BY DEF Checkpoint, LoopGone
  <2> QED
    BY <2>1 DEF IInv, AtCheckpoint, Checkpoint, Closing, TypeOK
<1>4. managers \/ stop # "no"
  BY HasManagers DEF LoopGone
<1>5. TornDown' /\ ParkedHeld'
  BY <1>4 DEF TornDown, ParkedHeld
<1>6. PendingHeld'
  BY DEF IInv, PendingHeld, Undisturbed, NoneCancelled, TypeOK
<1> QED
  BY <1>1, <1>2, <1>3, <1>5, <1>6 DEF IInv

\* The loop takes, keeps or gives back the lock while nobody is in the handshake,
\* or only gets in line for it.
LEMMA LockMoves ==
    ASSUME IInv, loop \in {"recv", "lock", "reconnect"},
           loop' \in {"lock", "reconnect", "resub", "done"},
           queue' \in Seq(Callers \cup {RecvTask}), ended' \subseteq Callers,
           UNCHANGED <<managers, handshake, call, command, live, stop, spent>>,
           \/ /\ UNCHANGED <<running, socket>>
              /\ \/ lock' = lock /\ loop' \in {"lock", "done"}
                 \/ lock = Nobody /\ lock' = RecvTask /\ loop' = "reconnect"
           \/ /\ loop = "reconnect" /\ loop' = "resub" /\ socket' = "open"
              /\ UNCHANGED <<running, lock>>
           \/ /\ loop = "reconnect" /\ loop' = "done" /\ lock' = Nobody
              /\ running' = FALSE /\ socket' = "closed"
    PROVE  IInv'
<1> USE DEF handshake
<1>1. TypeOK'
  BY DEF IInv, TypeOK, LoopStates
<1>2. loop = "reconnect" => lock = RecvTask
  BY DEF IInv, LoopHolds
<1>3. lock' # lock \/ loop = "reconnect" => \A c \in Callers : call[c] \notin Holding
  BY <1>2, TasksAssumption DEF IInv, Holder
<1>4. Holder' /\ LoopHolds'
  BY <1>2, <1>3 DEF IInv, Holder, LoopHolds
<1>5. \A c \in Callers : call[c] # "act" /\ (call[c] = "granted" => Closing)
  BY DEF IInv, AtCheckpoint, Checkpoint, LoopGone
<1>6. AtCheckpoint'
  BY <1>3, <1>5 DEF IInv, AtCheckpoint, Closing, Holding, TypeOK
<1>7. managers \/ stop # "no"
  BY HasManagers DEF LoopGone
<1>8. ClosedEnds' /\ TornDown' /\ ParkedHeld'
  BY <1>7 DEF IInv, ClosedEnds, TornDown, ParkedHeld
<1>9. PendingHeld'
  BY DEF IInv, PendingHeld, Undisturbed, NoneCancelled, TypeOK
<1> QED
  BY <1>1, <1>4, <1>6, <1>8, <1>9 DEF IInv

\* ... every step of the receive loop, ...
LEMMA LoopKeeps == IInv /\ (LoopStep \/ LoopFault) => IInv'
<1> SUFFICES ASSUME IInv, LoopStep \/ LoopFault PROVE IInv'
  OBVIOUS
<1>0. /\ queue \in Seq(Callers \cup {RecvTask}) /\ live \subseteq Callers
      /\ ended \subseteq Callers /\ spent \in Nat /\ resume \in BOOLEAN
  BY DEF IInv, TypeOK
<1>1. ASSUME BroadcastSentinels PROVE ended' \subseteq Callers
  BY <1>1, <1>0 DEF BroadcastSentinels
\* Steps that turn the while loop.
<1>2. ASSUME LoopStart PROVE IInv'
  <2>1. CASE LoopTop(resume, call)
    BY <1>2, <2>1, <1>0, LoopTopKeeps
       DEF LoopStart, LoopGone, session, mutex, streams
  <2>2. CASE ~managers /\ loop' = "done" /\ UNCHANGED <<handshake, call>>
    <3> USE <1>2, <2>2 DEF LoopStart, session, mutex, streams, handshake
    <3>1. TypeOK'
      BY DEF IInv, TypeOK, LoopStates
    <3>2. Holder' /\ LoopHolds' /\ ClosedEnds' /\ TornDown' /\ ParkedHeld'
      BY DEF IInv, Holder, LoopHolds, ClosedEnds, TornDown, ParkedHeld, LoopGone
    <3>3. AtCheckpoint'
      BY DEF IInv, AtCheckpoint, Checkpoint, LoopGone
    <3>4. PendingHeld'
      BY DEF IInv, PendingHeld, Undisturbed, NoneCancelled
    <3> QED
      BY <3>1, <3>2, <3>3, <3>4 DEF IInv
  <2> QED
    BY <1>2, <2>1, <2>2 DEF LoopStart
<1>3. ASSUME LoopResume PROVE IInv'
  <2>1. loop = "resumed" /\ (~managers => stop # "no")
    BY <1>3, HasManagers DEF LoopResume, LoopGone
  <2> QED
    BY <1>3, <2>1, <1>0, LoopTopKeeps
       DEF LoopResume, LoopGone, session, mutex, streams
<1>4. ASSUME LoopAgain PROVE IInv'
  <2>1. loop \in {"recv", "handling"} /\ (~managers => stop # "no")
    BY <1>4, HasManagers DEF LoopAgain, LoopGone
  <2> QED
    BY <1>4, <2>1, <1>0, LoopTopKeeps
       DEF LoopAgain, LoopGone, session, mutex, streams
<1>5. ASSUME FrameEndsStream PROVE IInv'
  <2>1. live' \subseteq Callers /\ ended' \subseteq Callers /\ spent' \in Nat
    BY <1>5, <1>0, DisturbTyped DEF FrameEndsStream
  <2>2. loop = "recv" /\ (~managers => stop # "no")
    BY <1>5, HasManagers DEF FrameEndsStream, LoopGone
  <2> QED
    BY <1>5, <2>1, <2>2, <1>0, LoopTopKeeps
       DEF FrameEndsStream, LoopGone, session, mutex
<1>6. ASSUME Resubscribed PROVE IInv'
  <2>1. live' \subseteq Callers /\ ended' \subseteq Callers
    BY <1>6, <1>0 DEF Resubscribed
  <2>2. loop = "resub" /\ (~managers => stop # "no")
    BY <1>6, HasManagers DEF Resubscribed, LoopGone
  <2> QED
    BY <1>6, <2>1, <2>2, <1>0, LoopTopKeeps DEF Resubscribed, LoopGone, session
\* Steps that leave recv() or the callback.
<1>7. ASSUME Frame PROVE IInv'
  BY <1>7, <1>0, LeavesReading DEF Frame, session, streams
<1>8. ASSUME FrameOverflow PROVE IInv'
  <2>1. ended' \subseteq Callers /\ spent' \in Nat
    BY <1>8, <1>1, DisturbTyped DEF FrameOverflow
  <2> QED
    BY <1>8, <2>1, LeavesReading DEF FrameOverflow
<1>9. ASSUME LoopDies PROVE IInv'
  <2>1. ended' \subseteq Callers /\ spent' \in Nat
    BY <1>9, <1>0, <1>1, DisturbTyped DEF LoopDies
  <2> QED
    BY <1>9, <2>1, LeavesReading DEF LoopDies, session
<1>10. ASSUME TeardownDone PROVE IInv'
  <2> USE <1>10 DEF TeardownDone, mutex, streams
  <2>1. /\ call' \in [Callers -> {"idle", "lock"} \cup Holding \cup Finished]
        /\ \A c \in Callers :
              /\ call'[c] \in Holding => call[c] \in Holding
              /\ call'[c] = "act" => call[c] = "act"
              /\ call'[c] = "send" => call[c] = "send"
    BY DEF IInv, TypeOK, Acked, Granted, Woken, Holding
  <2>2. TypeOK'
    BY <2>1 DEF IInv, TypeOK, LoopStates
  <2>3. ~running
    BY DEF IInv, TornDown
  <2>4. Holder' /\ LoopHolds' /\ ClosedEnds' /\ TornDown'
    BY <2>1, <2>3 DEF IInv, Holder, LoopHolds, ClosedEnds, TornDown, LoopGone
  <2>5. AtCheckpoint'
    BY <2>1, <2>3 DEF AtCheckpoint, Checkpoint, LoopGone
  <2>6. PendingHeld' /\ ParkedHeld'
    BY DEF PendingHeld, ParkedHeld
  <2> QED
    BY <2>2, <2>4, <2>5, <2>6 DEF IInv
\* Steps that take or release the lock.
<1>11. ASSUME ConnectionLost PROVE IInv'
  <2>1. Append(queue, RecvTask) \in Seq(Callers \cup {RecvTask})
    BY <1>0, AppendProperties
  <2> QED
    BY <1>11, <2>1, <1>0, LockMoves DEF ConnectionLost, session, mutex, streams
<1>12. ASSUME ReconnectLocked PROVE IInv'
  <2>1. Tail(queue) \in Seq(Callers \cup {RecvTask})
    BY <1>12, <1>0, HeadTailProperties DEF ReconnectLocked
  <2> QED
    BY <1>12, <2>1, <1>0, LockMoves DEF ReconnectLocked, session, streams
<1>13. ASSUME ReconnectOpened PROVE IInv'
  BY <1>13, <1>0, LockMoves DEF ReconnectOpened, session, mutex, streams
<1>14. ASSUME ReconnectFailed PROVE IInv'
  BY <1>14, <1>0, <1>1, LockMoves DEF ReconnectFailed
<1> QED
  BY <1>2, <1>3, <1>4, <1>5, <1>6, <1>7, <1>8, <1>9, <1>10, <1>11, <1>12,
     <1>13, <1>14 DEF LoopStep, LoopFault

\* Resetting a session that is over leaves nobody at the handshake to be misled.
LEMMA ResetKeeps ==
    ASSUME IInv, ~running, StopReset,
           UNCHANGED <<running, mutex, call, command, live, spent>>,
           socket' \in {"open", "lost", "refused", "closing", "closed"}
    PROVE  IInv'
<1> USE DEF StopReset, mutex
<1>1. ended' \subseteq Callers
  BY DEF BroadcastSentinels, IInv, TypeOK
<1>2. TypeOK'
  BY <1>1 DEF IInv, TypeOK, LoopStates
<1>3. Holder' /\ LoopHolds' /\ ClosedEnds' /\ TornDown'
  BY DEF IInv, Holder, LoopHolds, ClosedEnds, TornDown
<1>4. AtCheckpoint'
  BY DEF IInv, AtCheckpoint, Checkpoint, LoopGone
<1>5. PendingHeld' /\ ParkedHeld'
  BY DEF PendingHeld, ParkedHeld
<1> QED
  BY <1>2, <1>3, <1>4, <1>5 DEF IInv

\* ... and every step of the network and of the shutdown.
LEMMA ShutdownKeeps == IInv /\ (Drop \/ StopBegin \/ Stopping) => IInv'
<1> SUFFICES ASSUME IInv, Drop \/ StopBegin \/ Stopping PROVE IInv'
  OBVIOUS
<1>1. CASE Drop
  <2> USE <1>1 DEF Drop, session, mutex, handshake, streams
  <2>1. spent' \in Nat
    BY DisturbTyped
  <2>2. TypeOK'
    BY <2>1 DEF IInv, TypeOK
  <2>3. Holder' /\ LoopHolds' /\ ClosedEnds' /\ TornDown' /\ PendingHeld' /\ ParkedHeld'
    BY DEF IInv, Holder, LoopHolds, ClosedEnds, TornDown, PendingHeld, ParkedHeld,
           Undisturbed, NoneCancelled
  <2>4. AtCheckpoint'
    BY DEF IInv, AtCheckpoint, Checkpoint, Closing
  <2> QED
    BY <2>2, <2>3, <2>4 DEF IInv
<1>2. CASE StopBegin
  <2> USE <1>2 DEF StopBegin, mutex, streams
  <2>0. call \in [Callers -> {"idle", "lock"} \cup Holding \cup Finished]
    BY DEF IInv, TypeOK
  <2>1. /\ call' \in [Callers -> {"idle", "lock"} \cup Holding \cup Finished]
        /\ \A c \in Callers :
              /\ call'[c] \in Holding => call[c] \in Holding
              /\ call'[c] = "act" => call[c] = "act"
    BY <2>0 DEF Acked, Granted, Woken, Holding
  <2>2. loop' = loop \/ (loop = "parked" /\ loop' = "resumed")
    BY DEF WakeParked
  <2>3. socket' \in {"closing", "closed"}
    BY DEF IInv, TornDown
  <2>4. spent' \in Nat
    BY DisturbTyped
  <2>5. TypeOK'
    BY <2>1, <2>2, <2>3, <2>4 DEF IInv, TypeOK, LoopStates
  <2>6. Holder' /\ LoopHolds' /\ ClosedEnds' /\ TornDown'
    BY <2>1, <2>2 DEF IInv, Holder, LoopHolds, ClosedEnds, TornDown
  <2>7. AtCheckpoint'
    BY <2>1, <2>2, <2>3 DEF IInv, AtCheckpoint, Checkpoint, Closing, LoopGone
  <2>8. PendingHeld' /\ ParkedHeld'
    BY DEF PendingHeld, ParkedHeld, Undisturbed
  <2> QED
    BY <2>5, <2>6, <2>7, <2>8 DEF IInv
<1>3. CASE StopClose
  <2> USE <1>3 DEF StopClose, mutex
  <2>1. ~running
    BY DEF IInv, ClosedEnds
  <2>2. CASE loop \in LoopGone /\ StopReset
    BY <2>1, <2>2, ResetKeeps DEF IInv, TypeOK
  <2>3. CASE /\ loop \notin LoopGone /\ stop' = "joining"
             /\ UNCHANGED <<managers, handshake, loop, ended>>
    <3> USE <2>3 DEF handshake
    <3>1. TypeOK'
      BY DEF IInv, TypeOK
    <3>2. Holder' /\ LoopHolds' /\ ClosedEnds' /\ TornDown'
      BY <2>1 DEF IInv, Holder, LoopHolds, ClosedEnds, TornDown
    <3>3. AtCheckpoint'
      BY <2>1 DEF IInv, AtCheckpoint, Checkpoint, Closing
    <3>4. PendingHeld' /\ ParkedHeld'
      BY <2>1 DEF PendingHeld, ParkedHeld, Undisturbed
    <3> QED
      BY <3>1, <3>2, <3>3, <3>4 DEF IInv
  <2> QED
    BY <2>2, <2>3
<1>4. CASE StopCancel
  <2> USE <1>4 DEF StopCancel, session, handshake, streams
  <2>1. queue' \in Seq(Callers \cup {RecvTask})
    BY WithdrawTyped DEF IInv, TypeOK
  <2>2. lock' \in Callers \cup {RecvTask, Nobody}
    BY DEF IInv, TypeOK
  <2>3. TypeOK'
    BY <2>1, <2>2 DEF IInv, TypeOK, LoopStates
  <2>4. ~running
    BY DEF IInv, ClosedEnds
  <2>5. Holder'
    BY TasksAssumption DEF IInv, Holder
  <2>6. LoopHolds' /\ ClosedEnds' /\ TornDown'
    BY <2>4 DEF IInv, LoopHolds, ClosedEnds, TornDown
  <2>7. AtCheckpoint'
    BY <2>4 DEF AtCheckpoint, Checkpoint, LoopGone
  <2>8. PendingHeld' /\ ParkedHeld'
    BY <2>4 DEF PendingHeld, ParkedHeld, Undisturbed
  <2> QED
    BY <2>3, <2>5, <2>6, <2>7, <2>8 DEF IInv
<1>5. CASE StopDone
  <2>1. ~running
    BY <1>5 DEF StopDone, IInv, ClosedEnds
  <2> QED
    BY <1>5, <2>1, ResetKeeps DEF StopDone, IInv, TypeOK
<1>6. CASE StopRaises
  <2> USE <1>6 DEF StopRaises, session, mutex, handshake, streams
  <2>1. TypeOK'
    BY DEF IInv, TypeOK
  <2>2. Holder' /\ LoopHolds' /\ ClosedEnds' /\ TornDown'
    BY DEF IInv, Holder, LoopHolds, ClosedEnds, TornDown
  <2>3. AtCheckpoint' /\ PendingHeld' /\ ParkedHeld'
    BY DEF IInv, AtCheckpoint, Checkpoint, Closing, PendingHeld, ParkedHeld,
           Undisturbed, NoneCancelled
  <2> QED
    BY <2>1, <2>2, <2>3 DEF IInv
<1> QED
  BY <1>1, <1>2, <1>3, <1>4, <1>5, <1>6 DEF Stopping

\* ... so that every step of the session keeps the invariant.
LEMMA NextIInv == IInv /\ [Next]_vars => IInv'
<1> SUFFICES ASSUME IInv, [Next]_vars PROVE IInv'
  OBVIOUS
<1>1. CASE UNCHANGED vars
  BY <1>1 DEF vars, session, mutex, handshake, streams, IInv, TypeOK, Holder,
              LoopHolds, AtCheckpoint, Checkpoint, Closing, ClosedEnds, TornDown,
              PendingHeld, ParkedHeld, Undisturbed, NoneCancelled
<1>2. CASE Next
  BY <1>2, CommandKeeps, LoopKeeps, ShutdownKeeps DEF Next
<1> QED
  BY <1>1, <1>2

-----------------------------------------------------------------------------
(* In every reachable state the handshake is sound.                         *)
THEOREM InvariantHolds == Spec => []IInv
  BY InitIInv, NextIInv, PTL DEF Spec

(* Every variable of the session keeps its type.                            *)
THEOREM TypeCorrect == Spec => []TypeOK
  BY InvariantHolds, PTL DEF IInv

(* At most one of the loop and the commands, unsubscribe included, is inside *)
(* recv(), whatever is cancelled, lost or torn down.                         *)
THEOREM OneReader == Spec => []RecvExclusive
<1>1. IInv => RecvExclusive
  <2> SUFFICES ASSUME IInv PROVE RecvExclusive
    OBVIOUS
  <2>1. \A t, v \in Reading : t = v
    BY TasksAssumption DEF Reading, IInv, Holder, AtCheckpoint, Checkpoint, LoopGone, Holding
  <2>2. Reading = {} \/ \E t : Reading = {t}
    BY <2>1
  <2>3. Cardinality(Reading) = 0 \/ Cardinality(Reading) = 1
    BY <2>2, FS_EmptySet, FS_Singleton, Zenon
  <2> QED
    BY <2>3 DEF RecvExclusive
<1> QED
  BY <1>1, InvariantHolds, PTL

(* Where no command was cancelled, a pause is only ever asked of a loop that *)
(* has left the previous one: what _resume_ack is for.                       *)
THEOREM PausesAreFresh == Spec => []FreshPause
<1>1. IInv => FreshPause
  <2> SUFFICES ASSUME IInv, Undisturbed, NEW c \in Callers, call[c] = "pause",
                      loop \in {"parked", "resumed"}
               PROVE  FALSE
    BY DEF FreshPause, Undisturbed
  <2>1. PICK d \in Callers : call[d] \in {"resuming"} \cup Alone
    BY DEF IInv, ParkedHeld
  <2>2. d = c
    BY <2>1, OneHolder DEF Holding, Alone
  <2> QED
    BY <2>1, <2>2 DEF Alone
<1> QED
  BY <1>1, InvariantHolds, PTL

-----------------------------------------------------------------------------
Told == live \subseteq ended

\* A session that no longer runs reads no subscription's reply any more.
NoLateReply ==
    ~running => \A c \in Callers :
                    call[c] = "act" /\ command[c] = "subscribe" => socket # "open"

\* Whatever ended the session told its consumers first, ...
OverIsTold ==
    /\ ~running /\ stop = "no" => Told /\ loop \in LoopGone \cup {"teardown", "starting"}
    /\ ~managers => Told /\ ~running
    /\ loop = "teardown" => Told
    /\ stop = "joining" /\ loop = "none" => ~managers
    /\ stop \in {"done", "raised"} => Told

\* ... and so did a loop that died under a running session; a command that was
\* waiting for the pause then keeps waiting, and the lock with it.
DeadIsTold ==
    Undisturbed /\ loop \in LoopGone =>
        /\ loop = "done" => Told
        /\ pausePending => \A c \in Callers : call[c] \notin Alone

TellInv == NoLateReply /\ OverIsTold /\ DeadIsTold

\* A step that neither ends the session nor the loop of a running one keeps it; it
\* may add a subscription to a session that runs and whose loop is not dead.
LEMMA GoesOnTells ==
    ASSUME IInv, TellInv, UNCHANGED <<running, managers, socket, command, stop>>,
           (Told => Told') \/ (running /\ (Undisturbed => loop' # "done")),
           \A c \in Callers : call'[c] = "act" /\ command[c] = "subscribe"
                                  => call[c] = "act" \/ running,
           NoneCancelled' => NoneCancelled,
           loop' = "none" => loop = "none",
           loop' = "teardown" => loop = "teardown",
           ~running /\ loop \in LoopGone \cup {"teardown", "starting"}
               => loop' \in LoopGone \cup {"teardown", "starting"},
           Undisturbed /\ loop' \in LoopGone
               => /\ loop \in LoopGone /\ (loop' = "done" => loop = "done")
                  /\ pausePending' => /\ pausePending
                                      /\ \A c \in Callers : call'[c] \in Alone => call[c] \in Alone
    PROVE  TellInv'
<1>1. NoLateReply' BY DEF TellInv, NoLateReply
<1>2. stop # "no" \/ loop = "teardown" => ~running BY DEF IInv, ClosedEnds, TornDown
<1>3. OverIsTold' BY <1>2 DEF TellInv, OverIsTold
<1>4. DeadIsTold' BY DEF TellInv, DeadIsTold, Undisturbed
<1> QED BY <1>1, <1>3, <1>4 DEF TellInv

\* The finally of a command, whose reply may have changed the subscriptions.
LEMMA EnsureTells ==
    ASSUME IInv, TellInv, NEW c \in Callers, Turn(c), EnsureRecvLoop(c),
           UNCHANGED <<running, managers, socket, command, stop>>,
           (Told => Told') \/ (running /\ call[c] \in Alone)
    PROVE  TellInv'
<1>0. CallTyped BY DEF IInv, TypeOK, CallTyped
<1>1. call[c] # "cancelled" BY DEF Turn, Alone
<1>2. /\ call'[c] \in {"resuming", "finished"} /\ \A d \in Callers : d # c => call'[d] = call[d]
      /\ loop' = loop \/ (loop \in LoopGone /\ loop' = "starting")
                      \/ (loop = "parked" /\ loop' = "resumed")
      /\ pausePending' => pausePending
      /\ loop \in LoopGone /\ ~pausePending => loop' = "starting"
  BY <1>0 DEF EnsureRecvLoop, CallTyped, WakeParked, handshake, Holding
<1>3. NoneCancelled' => NoneCancelled BY <1>1, <1>2 DEF NoneCancelled
<1>4. \A d \in Callers : /\ call'[d] = "act" => call[d] = "act"
                         /\ call'[d] \in Alone => call[d] \in Alone
  BY <1>2 DEF Alone
<1>5. call[c] \in Alone /\ Undisturbed => loop' # "done"
  BY <1>2 DEF TellInv, DeadIsTold, LoopGone, IInv, AtCheckpoint
<1>6. (Told => Told') \/ (running /\ (Undisturbed => loop' # "done")) BY <1>5
<1> QED BY <1>2, <1>3, <1>4, <1>6, GoesOnTells DEF LoopGone

\* The body of the try, where the command may go ahead, ...
LEMMA ProceedTells ==
    ASSUME IInv, TellInv, NEW c \in Callers, Turn(c), Proceed(c),
           loop \in LoopGone /\ pausePending => call[c] \in Alone,
           UNCHANGED <<running, managers, socket, command, stop, live, ended>>
    PROVE  TellInv'
<1>0. CallTyped BY DEF IInv, TypeOK, CallTyped
<1>1. Told => Told' BY DEF Told
<1>2. CASE ~Allowed(c) /\ EnsureRecvLoop(c) BY <1>1, <1>2, EnsureTells
<1>3. CASE /\ Allowed(c)
           /\ call' = [call EXCEPT ![c] =
                          IF socket \in {"closing", "closed"} THEN "send" ELSE "act"]
           /\ UNCHANGED <<handshake, loop>>
  <2>1. call[c] # "cancelled" BY DEF Turn, Alone
  <2>2. \A d \in Callers : d # c => call'[d] = call[d] BY <1>0, <1>3 DEF CallTyped
  <2>3. NoneCancelled' => NoneCancelled BY <2>1, <2>2 DEF NoneCancelled
  <2>4. command[c] = "subscribe" => running BY <1>3 DEF Allowed, Active
  <2>5. pausePending' = pausePending /\ loop' = loop BY <1>3 DEF handshake
  <2>6. \A d \in Callers : call'[d] = "act" /\ command[d] = "subscribe"
                               => call[d] = "act" \/ running
    BY <2>2, <2>4
  <2>7. loop \in LoopGone /\ pausePending
          => \A d \in Callers : call'[d] \in Alone => call[d] \in Alone
    BY <2>2
  <2> QED BY <1>1, <2>3, <2>5, <2>6, <2>7, GoesOnTells
<1> QED BY <1>2, <1>3 DEF Proceed

\* ... and the request for the pause, by a caller that got the lock.
LEMMA PauseTells ==
    ASSUME IInv, TellInv, NEW c \in Callers, call[c] \in {"idle", "lock"}, lock = Nobody,
           PauseRecvLoop(c),
           UNCHANGED <<running, managers, socket, command, stop, live, ended>>
    PROVE  TellInv'
<1>0. CallTyped BY DEF IInv, TypeOK, CallTyped
<1>1. Told => Told' BY DEF Told
<1>2. CASE loop \in LoopGone /\ Proceed(c)
  <2>1. Undisturbed /\ pausePending => FALSE
    <3>1. \A d \in Callers : call[d] \notin Holding BY TasksAssumption DEF IInv, Holder
    <3> QED BY <3>1 DEF IInv, PendingHeld, Alone, Holding
  <2>2. CASE ~Allowed(c) /\ EnsureRecvLoop(c) BY <1>1, <1>2, <2>2, EnsureTells DEF Turn
  <2>3. CASE ~pausePending BY <1>2, <2>3, ProceedTells DEF Turn
  <2>4. CASE /\ Allowed(c) /\ pausePending
             /\ call' = [call EXCEPT ![c] =
                            IF socket \in {"closing", "closed"} THEN "send" ELSE "act"]
             /\ UNCHANGED <<handshake, loop>>
    <3>1. \A d \in Callers : d # c => call'[d] = call[d] BY <1>0, <2>4 DEF CallTyped
    <3>2. NoneCancelled' => NoneCancelled BY <3>1 DEF NoneCancelled
    <3>3. command[c] = "subscribe" => running BY <2>4 DEF Allowed, Active
    <3>4. pausePending' = pausePending /\ loop' = loop BY <2>4 DEF handshake
    <3>5. \A d \in Callers : call'[d] = "act" /\ command[d] = "subscribe"
                                 => call[d] = "act" \/ running
      BY <3>1, <3>3
    <3> QED BY <1>1, <2>1, <2>4, <3>2, <3>4, <3>5, GoesOnTells
  <2> QED BY <1>2, <2>2, <2>3, <2>4 DEF Proceed
<1>3. CASE /\ loop \notin LoopGone
           /\ call' = [call EXCEPT ![c] = "pause"]
           /\ UNCHANGED loop
  <2>1. call'[c] = "pause" /\ \A d \in Callers : d # c => call'[d] = call[d]
    BY <1>0, <1>3 DEF CallTyped
  <2>2. NoneCancelled' => NoneCancelled BY <2>1 DEF NoneCancelled
  <2>3. \A d \in Callers : call'[d] = "act" => call[d] = "act" BY <2>1
  <2> QED BY <1>1, <1>3, <2>2, <2>3, GoesOnTells
<1> QED BY <1>2, <1>3 DEF PauseRecvLoop

\* Every step of a caller keeps it.
LEMMA CommandTells ==
    ASSUME IInv, TellInv, NEW c \in Callers, Command(c) \/ Cancel(c)
    PROVE  TellInv'
<1> USE DEF session, streams
<1>0. CallTyped BY DEF IInv, TypeOK, CallTyped
<1>a. ASSUME UNCHANGED streams PROVE Told => Told' BY <1>a DEF Told
<1>b. ASSUME NEW to \in {"lock"} \cup Finished, call' = [call EXCEPT ![c] = to],
             call[c] # "cancelled", UNCHANGED <<session, socket, handshake, loop, command,
                                                streams, stop>>
      PROVE  TellInv'
  <2>1. call'[c] = to /\ \A d \in Callers : d # c => call'[d] = call[d]
    BY <1>0, <1>b DEF CallTyped
  <2>2. NoneCancelled' => NoneCancelled BY <1>b, <2>1 DEF NoneCancelled
  <2>3. \A d \in Callers : /\ call'[d] = "act" => call[d] = "act"
                           /\ call'[d] \in Alone => call[d] \in Alone
    BY <2>1 DEF Alone, Finished
  <2> QED BY <1>a, <1>b, <2>2, <2>3, GoesOnTells DEF handshake
<1>1. CASE CommandRefused(c) \/ CommandResumed(c)
  BY <1>1, <1>b DEF CommandRefused, CommandResumed, Finished
<1>2. CASE CommandBegin(c)
  <2>1. CASE lock = Nobody /\ PauseRecvLoop(c) BY <1>2, <2>1, PauseTells DEF CommandBegin
  <2>2. CASE call' = [call EXCEPT ![c] = "lock"] /\ UNCHANGED <<lock, handshake, loop>>
    BY <1>2, <2>2, <1>b DEF CommandBegin
  <2> QED BY <1>2, <2>1, <2>2 DEF CommandBegin
<1>3. CASE CommandLocked(c) BY <1>3, PauseTells DEF CommandLocked
<1>4. CASE CommandPaused(c) BY <1>4, ProceedTells DEF CommandPaused, Turn, Alone
<1>5. CASE CommandDone(c)
  <2>1. call[c] = "act" /\ socket = "open" /\ EnsureRecvLoop(c)
        /\ UNCHANGED <<running, managers, socket, command, stop>>
    BY <1>5 DEF CommandDone
  <2>2. CASE command[c] = "subscribe"
    <3>1. running BY <2>1, <2>2 DEF TellInv, NoLateReply
    <3> QED BY <2>1, <3>1, EnsureTells DEF Turn, Alone
  <2>3. CASE \E s \in live : live' = live \ {s} /\ ended' = ended \cup {s}
    <3>1. Told => Told' BY <2>3 DEF Told
    <3> QED BY <2>1, <3>1, EnsureTells DEF Turn, Alone
  <2>4. CASE UNCHANGED streams BY <2>1, <2>4, <1>a, EnsureTells DEF Turn, Alone
  <2> QED BY <1>5, <2>2, <2>3, <2>4 DEF CommandDone
<1>6. CASE CommandFailed(c) BY <1>6, <1>a, EnsureTells DEF CommandFailed, Turn, Alone
<1>7. CASE Cancel(c)
  <2>1. UNCHANGED <<session, socket, command, streams, stop>> BY <1>7 DEF Cancel
  <2>2. CASE /\ call[c] \in {"lock", "pause", "granted", "resuming", "resumed"}
             /\ call' = [call EXCEPT ![c] = "cancelled"] /\ UNCHANGED <<handshake, loop>>
    BY <2>1, <2>2, <1>b DEF Finished
  <2>3. CASE call[c] \in {"act", "send"} /\ EnsureRecvLoop(c)
    BY <2>1, <2>3, <1>a, EnsureTells DEF Turn, Alone
  <2> QED BY <1>7, <2>2, <2>3 DEF Cancel
<1> QED
  BY <1>1, <1>2, <1>3, <1>4, <1>5, <1>6, <1>7 DEF Command

\* A turn of the while loop: only a session that is over is left.
LEMMA LoopTopTells ==
    ASSUME IInv, TellInv, NEW r, NEW f, LoopTop(r, f),
           f = call \/ f = Acked(call), loop \notin LoopGone \cup {"teardown"},
           Told => Told', UNCHANGED <<running, managers, socket, command, stop>>
    PROVE  TellInv'
<1>0. CallTyped BY DEF IInv, TypeOK, CallTyped
<1>1. /\ f \in [Callers -> {"idle", "lock"} \cup Holding \cup Finished]
      /\ \A c \in Callers : f[c] = call[c] \/ (call[c] = "resuming" /\ f[c] = "resumed")
  BY <1>0 DEF CallTyped, Acked, Woken, Holding
<1>2. call' = f \/ call' = Granted(f) BY DEF LoopTop
<1>3. \A c \in Callers : \/ call'[c] = call[c]
                         \/ call[c] = "resuming" /\ call'[c] = "resumed"
                         \/ call[c] = "pause" /\ call'[c] = "granted"
  BY <1>1, <1>2 DEF Granted, Woken
<1>4. NoneCancelled' => NoneCancelled BY <1>3 DEF NoneCancelled
<1>5. loop' \in {"done", "parked", "resumed", "recv"} /\ (running <=> loop' # "done")
  BY DEF LoopTop
<1>6. \A c \in Callers : call'[c] = "act" => call[c] = "act" BY <1>3
<1>7. /\ loop' \notin {"none", "teardown"}
      /\ ~running => loop' \in LoopGone
      /\ Undisturbed => loop' \notin LoopGone
  BY <1>5 DEF LoopGone, Undisturbed
<1> QED BY <1>4, <1>6, <1>7, GoesOnTells

\* The loop ends the session, or dies under it, after it has told the consumers:
\* nobody is alone with the socket then.
LEMMA LoopEndsTells ==
    ASSUME IInv, TellInv, loop \in {"recv", "handling", "reconnect"},
           BroadcastSentinels, loop' = "done" \/ (loop' = "teardown" /\ ~running'),
           running' = running \/ running' = FALSE,
           UNCHANGED <<managers, call, command, live, stop>>
    PROVE  TellInv'
<1>1. ~Checkpoint BY DEF Checkpoint, LoopGone
<1>2. \A c \in Callers : call[c] # "act" /\ (call[c] \in Alone => Closing \/ ~running)
  BY <1>1 DEF IInv, AtCheckpoint, Alone
<1>3. Told'
  <2>1. CASE managers BY <2>1 DEF BroadcastSentinels, Told
  <2>2. CASE ~managers BY <2>2 DEF BroadcastSentinels, Told, TellInv, OverIsTold
  <2> QED BY <2>1, <2>2
<1>4. OverIsTold' BY <1>3 DEF TellInv, OverIsTold, LoopGone
<1>5. NoLateReply' BY <1>2 DEF NoLateReply
<1>6. DeadIsTold' BY <1>2, <1>3 DEF DeadIsTold, Undisturbed, Closing
<1> QED BY <1>4, <1>5, <1>6 DEF TellInv

\* Every step of the receive loop keeps it.
LEMMA LoopTells ==
    ASSUME IInv, TellInv, LoopStep \/ LoopFault
    PROVE  TellInv'
<1> USE DEF session, streams
<1>a. ASSUME UNCHANGED streams PROVE Told => Told' BY <1>a DEF Told
<1>1. ASSUME LoopStart PROVE TellInv'
  <2>1. CASE LoopTop(resume, call)
    BY <1>1, <2>1, <1>a, LoopTopTells DEF LoopStart, LoopGone
  <2>2. CASE ~managers /\ loop' = "done" /\ UNCHANGED <<handshake, call>>
    <3>1. ~running BY <2>2 DEF TellInv, OverIsTold
    <3> QED BY <1>1, <2>2, <3>1, <1>a, GoesOnTells
            DEF LoopStart, handshake, Undisturbed, NoneCancelled, LoopGone
  <2> QED BY <1>1, <2>1, <2>2 DEF LoopStart
<1>2. ASSUME LoopResume PROVE TellInv'
  BY <1>2, <1>a, LoopTopTells DEF LoopResume, LoopGone
<1>3. ASSUME LoopAgain PROVE TellInv'
  BY <1>3, <1>a, LoopTopTells DEF LoopAgain, LoopGone
<1>4. ASSUME FrameEndsStream PROVE TellInv'
  <2>1. Told => Told' BY <1>4 DEF FrameEndsStream, Told
  <2> QED BY <1>4, <2>1, LoopTopTells DEF FrameEndsStream, LoopGone
<1>5. ASSUME Resubscribed PROVE TellInv'
  <2>1. Told => Told' BY <1>5 DEF Resubscribed, Told
  <2> QED BY <1>5, <2>1, LoopTopTells DEF Resubscribed, LoopGone
<1>6. ASSUME Frame \/ ReconnectLocked PROVE TellInv'
  <2>1. /\ loop \in {"recv", "lock"} /\ loop' \in {"handling", "reconnect"}
        /\ UNCHANGED <<running, managers, socket, pausePending, call, command, streams, stop>>
    BY <1>6 DEF Frame, ReconnectLocked, handshake
  <2>2. NoneCancelled' => NoneCancelled BY <2>1 DEF NoneCancelled
  <2> QED BY <2>1, <2>2, <1>a, GoesOnTells DEF LoopGone
<1>7. ASSUME ConnectionLost PROVE TellInv'
  <2>1. /\ loop = "recv"
        /\ (loop' = "done" /\ ~running) \/ loop' \in {"reconnect", "lock"}
        /\ UNCHANGED <<running, managers, socket, pausePending, call, command, streams, stop>>
    BY <1>7 DEF ConnectionLost, handshake
  <2>2. NoneCancelled' => NoneCancelled BY <2>1 DEF NoneCancelled
  <2> QED BY <2>1, <2>2, <1>a, GoesOnTells DEF LoopGone, Undisturbed
<1>8. ASSUME ReconnectOpened PROVE TellInv'
  <2>1. /\ loop = "reconnect" /\ loop' = "resub"
        /\ UNCHANGED <<running, managers, pausePending, call, command, streams, stop>>
    BY <1>8 DEF ReconnectOpened, handshake
  <2>2. \A c \in Callers : call[c] # "act"
    BY <2>1 DEF IInv, AtCheckpoint, Checkpoint, LoopGone
  <2> QED BY <2>1, <2>2, <1>a
          DEF TellInv, NoLateReply, OverIsTold, DeadIsTold, LoopGone, Undisturbed
<1>9. ASSUME FrameOverflow \/ LoopDies \/ ReconnectFailed PROVE TellInv'
  <2>1. /\ loop \in {"recv", "handling", "reconnect"} /\ BroadcastSentinels
        /\ loop' = "done" \/ (loop' = "teardown" /\ ~running')
        /\ running' = running \/ running' = FALSE
        /\ UNCHANGED <<managers, call, command, live, stop>>
    BY <1>9 DEF FrameOverflow, LoopDies, ReconnectFailed
  <2> QED BY <2>1, LoopEndsTells
<1>10. ASSUME TeardownDone PROVE TellInv'
  <2>1. /\ loop = "teardown" /\ loop' = "none" /\ managers' = FALSE /\ socket' = "closed"
        /\ UNCHANGED <<running, live, ended, stop>>
    BY <1>10 DEF TeardownDone
  <2>2. ~running /\ Told BY <2>1 DEF IInv, TornDown, TellInv, OverIsTold
  <2> QED BY <2>1, <2>2, <1>a
          DEF TellInv, NoLateReply, OverIsTold, DeadIsTold, LoopGone, Undisturbed
<1> QED
  BY <1>1, <1>2, <1>3, <1>4, <1>5, <1>6, <1>7, <1>8, <1>9, <1>10 DEF LoopStep, LoopFault

\* Every step of the network and of the shutdown keeps it.
LEMMA ShutdownTells ==
    ASSUME IInv, TellInv, Drop \/ StopBegin \/ Stopping
    PROVE  TellInv'
<1> USE DEF session, streams
<1>a. ASSUME UNCHANGED streams PROVE Told => Told' BY <1>a DEF Told
<1>b. ASSUME ~running, StopReset, UNCHANGED <<running, call, command, live>>,
             socket' = socket \/ socket' # "open"
      PROVE  TellInv'
  <2>1. Told'
    <3>1. CASE managers BY <1>b, <3>1 DEF StopReset, BroadcastSentinels, Told
    <3>2. CASE ~managers
      BY <1>b, <3>2 DEF StopReset, BroadcastSentinels, Told, TellInv, OverIsTold
    <3> QED BY <3>1, <3>2
  <2> QED BY <1>b, <2>1
          DEF StopReset, TellInv, NoLateReply, OverIsTold, DeadIsTold, Undisturbed
<1>1. CASE Drop
  <2>1. /\ socket = "open" /\ socket' # "open"
        /\ UNCHANGED <<running, managers, pausePending, loop, call, command, streams, stop>>
    BY <1>1 DEF Drop, handshake
  <2> QED BY <2>1, <1>a
          DEF TellInv, NoLateReply, OverIsTold, DeadIsTold, Undisturbed, NoneCancelled
<1>2. CASE StopBegin
  <2>1. /\ ~running' /\ stop' = "closing" /\ socket' \in {"closing", "closed"}
        /\ loop' = loop \/ loop' = "resumed"
        /\ UNCHANGED <<managers, command, streams>>
    BY <1>2 DEF StopBegin, WakeParked, IInv, TornDown
  <2> QED BY <2>1, <1>a DEF TellInv, NoLateReply, OverIsTold, DeadIsTold, Undisturbed
<1>3. CASE StopClose
  <2>1. ~running BY <1>3 DEF StopClose, IInv, ClosedEnds
  <2>2. CASE loop \in LoopGone /\ StopReset BY <1>3, <2>1, <2>2, <1>b DEF StopClose
  <2>3. CASE /\ loop \notin LoopGone /\ stop' = "joining"
             /\ UNCHANGED <<managers, handshake, loop, ended>>
    BY <1>3, <2>1, <2>3, <1>a
       DEF StopClose, TellInv, NoLateReply, OverIsTold, DeadIsTold, Undisturbed, LoopGone
  <2> QED BY <1>3, <2>2, <2>3 DEF StopClose
<1>4. CASE StopCancel
  <2>1. /\ ~running /\ stop = "joining" /\ loop' = "done"
        /\ UNCHANGED <<running, managers, socket, call, command, streams, stop>>
    BY <1>4 DEF StopCancel, IInv, ClosedEnds
  <2> QED BY <2>1, <1>a DEF TellInv, NoLateReply, OverIsTold, DeadIsTold, Undisturbed
<1>5. CASE StopDone
  <2>1. ~running BY <1>5 DEF StopDone, IInv, ClosedEnds
  <2> QED BY <1>5, <2>1, <1>b DEF StopDone
<1>6. CASE StopRaises
  <2>1. /\ ~running /\ stop = "joining" /\ loop = "none" /\ stop' = "raised"
        /\ UNCHANGED <<running, managers, socket, loop, call, command, streams>>
    BY <1>6 DEF StopRaises, IInv, ClosedEnds
  <2>2. Told BY <2>1 DEF TellInv, OverIsTold
  <2> QED BY <2>1, <2>2, <1>a DEF TellInv, NoLateReply, OverIsTold, DeadIsTold, Undisturbed
<1> QED
  BY <1>1, <1>2, <1>3, <1>4, <1>5, <1>6 DEF Stopping

(* Whatever ends the receive task, and however the shutdown goes, no        *)
(* consumer is left waiting, unless a command was cancelled while the       *)
(* session runs on.                                                         *)
THEOREM NobodyStranded == Spec => []NoStrandedConsumer
<1>1. Init => TellInv
  BY DEF Init, TellInv, NoLateReply, OverIsTold, DeadIsTold, Told, Undisturbed
<1>2. IInv /\ TellInv /\ [Next]_vars => TellInv'
  <2> SUFFICES ASSUME IInv, TellInv, [Next]_vars PROVE TellInv' OBVIOUS
  <2>1. CASE UNCHANGED vars
    BY <2>1 DEF vars, session, mutex, handshake, streams, TellInv, NoLateReply, OverIsTold,
                DeadIsTold, Told, Undisturbed, NoneCancelled
  <2>2. CASE Next BY <2>2, CommandTells, LoopTells, ShutdownTells DEF Next
  <2> QED BY <2>1, <2>2
<1>3. IInv /\ TellInv => NoStrandedConsumer
  BY DEF IInv, ClosedEnds, TellInv, OverIsTold, DeadIsTold, Told, Undisturbed, LoopGone,
         LoopEnded, NoStrandedConsumer
<1> QED
  BY <1>1, <1>2, <1>3, InvariantHolds, PTL DEF Spec

=============================================================================
