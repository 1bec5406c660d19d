--------------------------- MODULE RecvLoop_proofs ---------------------------
(***************************************************************************)
(* For every set of user tasks and every mix of disturbances: a subscriber *)
(* reads the socket only while the receive loop is at its checkpoint or    *)
(* gone, no subscription is added during a reconnect, and, where nobody    *)
(* calls unsubscribe, recv() has at most one caller.                       *)
(*                                                                         *)
(* PauseAtSafePoint alone is not inductive: that a loop found at the       *)
(* checkpoint stays there needs the pause request to be still pending      *)
(* (AtCheckpoint), and that it is this subscriber's request needs the lock *)
(* (Holder).  That a loop that ends leaves nobody stranded follows its     *)
(* subscriptions through every ending (TellInv); that no live loop serves  *)
(* a closed queue is ZombieInv.                                            *)
(***************************************************************************)
EXTENDS RecvLoop, TLAPS, FiniteSetTheorems, SequenceTheorems

InHandshake == {"pause", "granted", "ack"}

Holder == \A s \in Subscribers : sub[s] \in InHandshake => lock = s

LoopHolds == loop \in {"reconnect", "resub"} => lock = RecvTask

AtCheckpoint ==
    \A s \in Subscribers :
        sub[s] \in {"granted", "ack"} =>
            loop \in LoopGone \/ (loop \in {"parked", "resumed"} /\ pausePending)

IInv == TypeOK /\ Holder /\ LoopHolds /\ AtCheckpoint

HandshakeTyped ==
    pausePending \in BOOLEAN /\ granted \in BOOLEAN /\ resume \in BOOLEAN

SubTyped == sub \in [Subscribers -> {"idle"} \cup Calling \cup Finished]

-----------------------------------------------------------------------------
\* Waking the paused subscriber changes nobody else.
LEMMA WakePausedProperties ==
    ASSUME SubTyped
    PROVE  /\ WakePaused \in [Subscribers -> {"idle"} \cup Calling \cup Finished]
           /\ \A s \in Subscribers :
                 /\ sub[s] = "pause" => WakePaused[s] = "granted"
                 /\ sub[s] # "pause" => WakePaused[s] = sub[s]
BY DEF WakePaused, SubTyped, Calling

\* A turn of the while loop keeps the handshake sound, whether the lock is
\* left alone or a finished reconnect releases it.
LEMMA LoopTopKeeps ==
    ASSUME IInv, NEW r \in BOOLEAN, LoopTop(r), loop \notin LoopGone,
           loop # "parked",
           lock' = lock \/ (loop = "resub" /\ lock' = Nobody)
    PROVE  /\ SubTyped' /\ HandshakeTyped' /\ loop' \in LoopStates
           /\ Holder' /\ LoopHolds' /\ AtCheckpoint'
<1> USE DEF IInv, TypeOK, SubTyped, HandshakeTyped
<1>0. pausePending' = pausePending /\ resume' = r
  BY DEF LoopTop
<1>1. CASE ~running /\ loop' = "done" /\ UNCHANGED <<granted, sub>>
  BY <1>1, <1>0, TasksAssumption
     DEF Holder, LoopHolds, AtCheckpoint, LoopStates, LoopGone, InHandshake
<1>2. CASE /\ pausePending /\ granted' = TRUE /\ sub' = WakePaused
           /\ loop' \in {"parked", "resumed"}
  <2>1. SubTyped' /\ HandshakeTyped' /\ loop' \in LoopStates
    BY <1>2, <1>0, WakePausedProperties DEF LoopStates
  <2>2. \A s \in Subscribers : sub'[s] \in InHandshake => sub[s] \in InHandshake
    BY <1>2, WakePausedProperties DEF InHandshake
  <2>3. Holder'
    BY <2>2, TasksAssumption DEF Holder, LoopHolds
  <2>4. pausePending'
    BY <1>0, <1>2, Zenon
  <2> QED
    BY <2>1, <2>3, <2>4, <1>2 DEF LoopHolds, AtCheckpoint
<1>3. CASE ~pausePending /\ loop' \in {"done", "recv"} /\ UNCHANGED <<granted, sub>>
  <2>1. \A s \in Subscribers : sub[s] \notin {"granted", "ack"}
    BY <1>3 DEF AtCheckpoint
  <2> QED
    BY <2>1, <1>3, <1>0, TasksAssumption
       DEF Holder, LoopHolds, AtCheckpoint, LoopStates, InHandshake
<1> QED
  BY <1>1, <1>2, <1>3 DEF LoopTop

\* A task that waited for the lock leaves the queue.
LEMMA WithdrawTyped ==
    ASSUME NEW t, Withdraw(t), queue \in Seq(Subscribers \cup {RecvTask})
    PROVE  queue' \in Seq(Subscribers \cup {RecvTask})
<1>1. PICK i \in DOMAIN queue :
        queue' = SubSeq(queue, 1, i - 1) \o SubSeq(queue, i + 1, Len(queue))
  BY DEF Withdraw
<1>2. i \in 1..Len(queue) /\ Len(queue) \in Nat
  BY LenProperties
<1>3. /\ SubSeq(queue, 1, i - 1) \in Seq(Subscribers \cup {RecvTask})
      /\ SubSeq(queue, i + 1, Len(queue)) \in Seq(Subscribers \cup {RecvTask})
  BY <1>2, SubSeqProperties
<1> QED
  BY <1>1, <1>3, ConcatProperties

\* Releasing a held handshake: subscriber s, which held the lock, has finished
\* and the loop was started or resumed.
LEMMA EnsureKeeps ==
    ASSUME IInv, NEW s \in Subscribers, sub[s] = "ack", EnsureRecvLoop,
           lock' = Nobody, NEW out \in Finished, sub' = [sub EXCEPT ![s] = out]
    PROVE  /\ SubTyped' /\ HandshakeTyped' /\ loop' \in LoopStates
           /\ Holder' /\ LoopHolds' /\ AtCheckpoint'
<1> USE DEF IInv, TypeOK, SubTyped, HandshakeTyped
<1>1. \A t \in Subscribers : sub'[t] \notin InHandshake
  BY DEF Holder, InHandshake, Finished
<1>2. loop \notin {"reconnect", "resub"}
  BY TasksAssumption DEF Holder, LoopHolds, InHandshake
<1>3. loop' \in LoopStates \ {"reconnect", "resub"} /\ HandshakeTyped'
  <2>1. CASE /\ pausePending' = FALSE /\ granted' = FALSE /\ resume' = TRUE
             /\ loop' = WakeParked
    BY <2>1, <1>2 DEF WakeParked, LoopStates
  <2>2. CASE /\ loop' = IF loop \in LoopGone THEN "starting" ELSE loop
             /\ UNCHANGED handshake
    BY <2>2, <1>2 DEF LoopStates, handshake
  <2> QED
    BY <2>1, <2>2 DEF EnsureRecvLoop
<1>4. SubTyped'
  BY DEF Calling, Finished
<1> QED
  BY <1>1, <1>3, <1>4 DEF Holder, LoopHolds, AtCheckpoint, InHandshake

\* The step that takes the lock for subscriber s, which waited for it.
LEMMA PauseKeeps ==
    ASSUME IInv, NEW s \in Subscribers, sub[s] \in {"idle", "lock"},
           lock = Nobody, PauseRecvLoop(s), UNCHANGED loop
    PROVE  /\ SubTyped' /\ HandshakeTyped' /\ loop' \in LoopStates
           /\ lock' \in Subscribers \cup {RecvTask, Nobody}
           /\ Holder' /\ LoopHolds' /\ AtCheckpoint'
<1> USE DEF IInv, TypeOK, SubTyped, HandshakeTyped
<1>1. \A t \in Subscribers : sub[t] \notin InHandshake
  BY TasksAssumption DEF Holder
<1>2. loop \notin {"reconnect", "resub"}
  BY TasksAssumption DEF LoopHolds
<1>3. CASE /\ lock' = s
           /\ pausePending' = TRUE /\ granted' = FALSE /\ resume' = FALSE
           /\ sub' = [sub EXCEPT ![s] = "pause"]
  BY <1>1, <1>2, <1>3
     DEF Holder, LoopHolds, AtCheckpoint, InHandshake, Calling
<1>4. CASE /\ loop \in LoopGone
           /\ lock' = s /\ sub' = [sub EXCEPT ![s] = "ack"]
           /\ UNCHANGED handshake
  BY <1>1, <1>2, <1>4
     DEF Holder, LoopHolds, AtCheckpoint, InHandshake, Calling, handshake
<1>5. CASE /\ loop \in LoopGone
           /\ lock' = Nobody /\ sub' = [sub EXCEPT ![s] = "failed"]
           /\ UNCHANGED handshake
  BY <1>1, <1>2, <1>5
     DEF Holder, LoopHolds, AtCheckpoint, InHandshake, Finished, handshake
<1> QED
  BY <1>3, <1>4, <1>5 DEF PauseRecvLoop

\* Who has returned stays returned.
LEMMA ReturnedStays ==
    ASSUME TypeOK
    PROVE  /\ sub' = WakePaused => Returned \subseteq Returned'
           /\ UNCHANGED sub => Returned' = Returned
           /\ \A s \in Subscribers : \A out :
                  sub[s] # "returned" /\ sub' = [sub EXCEPT ![s] = out]
                      => Returned \subseteq Returned'
<1>1. SubTyped
  BY DEF TypeOK, SubTyped
<1>2. sub' = WakePaused => Returned \subseteq Returned'
  BY <1>1, WakePausedProperties DEF Returned
<1>3. UNCHANGED sub => Returned' = Returned
  BY DEF Returned
<1>4. ASSUME NEW s \in Subscribers, NEW out, sub[s] # "returned",
             sub' = [sub EXCEPT ![s] = out]
      PROVE  Returned \subseteq Returned'
  BY <1>1, <1>4 DEF Returned, SubTyped
<1> QED
  BY <1>2, <1>3, <1>4

-----------------------------------------------------------------------------
\* The invariant holds at the start ...
LEMMA InitIInv == Init => IInv
<1> SUFFICES ASSUME Init PROVE IInv
  OBVIOUS
<1> USE DEF Init
<1>1. queue \in Seq(Subscribers \cup {RecvTask})
  BY EmptySeq
<1>2. TypeOK
  BY <1>1 DEF TypeOK, LoopStates, Shutdown
<1> QED
  BY <1>2 DEF IInv, Holder, LoopHolds, AtCheckpoint, InHandshake

\* ... every step of a subscriber keeps it, ...
LEMMA SubscribeKeeps ==
    ASSUME IInv, NEW s \in Subscribers, Subscribe(s) \/ Cancel(s)
    PROVE  IInv'
<1> USE DEF IInv, Returned
<1>1. CASE SubscribeInactive(s)
  BY <1>1 DEF SubscribeInactive, TypeOK, Holder, LoopHolds, AtCheckpoint,
              InHandshake, Calling, Finished, handshake, streams
<1>2. CASE SubscribeAtOnce(s)
  <2>1. /\ SubTyped' /\ HandshakeTyped' /\ loop' \in LoopStates
        /\ lock' \in Subscribers \cup {RecvTask, Nobody}
        /\ Holder' /\ LoopHolds' /\ AtCheckpoint'
    BY <1>2, PauseKeeps DEF SubscribeAtOnce
  <2>2. Returned \subseteq Returned'
    BY <1>2, ReturnedStays DEF SubscribeAtOnce, PauseRecvLoop
  <2> QED
    BY <2>1, <2>2, <1>2 DEF SubscribeAtOnce, TypeOK, SubTyped, HandshakeTyped, streams
<1>3. CASE SubscribeQueued(s)
  <2>1. queue' \in Seq(Subscribers \cup {RecvTask})
    BY <1>3, AppendProperties DEF SubscribeQueued, TypeOK
  <2> QED
    BY <2>1, <1>3 DEF SubscribeQueued, TypeOK, Holder, LoopHolds, AtCheckpoint,
                      InHandshake, Calling, handshake, streams
<1>4. CASE SubscribeLocked(s)
  <2>1. sub[s] = "lock"
    BY <1>4 DEF SubscribeLocked
  <2>2. /\ SubTyped' /\ HandshakeTyped' /\ loop' \in LoopStates
        /\ lock' \in Subscribers \cup {RecvTask, Nobody}
        /\ Holder' /\ LoopHolds' /\ AtCheckpoint'
    BY <1>4, <2>1, PauseKeeps DEF SubscribeLocked
  <2>3. queue' \in Seq(Subscribers \cup {RecvTask})
    BY <1>4, HeadTailProperties DEF SubscribeLocked, TypeOK
  <2>4. Returned \subseteq Returned'
    BY <1>4, <2>1, ReturnedStays DEF SubscribeLocked, PauseRecvLoop
  <2> QED
    BY <2>2, <2>3, <2>4, <1>4 DEF SubscribeLocked, TypeOK, SubTyped, HandshakeTyped, streams
<1>5. CASE SubscribePaused(s)
  <2>1. CASE lock' = lock /\ sub' = [sub EXCEPT ![s] = "ack"]
    BY <2>1, <1>5 DEF SubscribePaused, TypeOK, Holder, LoopHolds, AtCheckpoint,
                      InHandshake, Calling, handshake, streams
  <2>2. CASE lock' = Nobody /\ sub' = [sub EXCEPT ![s] = "failed"]
    <3>1. lock = s /\ \A t \in Subscribers : sub'[t] \notin InHandshake
      BY <2>2, <1>5 DEF SubscribePaused, TypeOK, Holder, InHandshake
    <3> QED
      BY <3>1, <2>2, <1>5, TasksAssumption
         DEF SubscribePaused, TypeOK, Holder, LoopHolds, AtCheckpoint,
             InHandshake, Finished, handshake, streams
  <2> QED
    BY <2>1, <2>2, <1>5 DEF SubscribePaused
<1>6. CASE SubscribeAcked(s)
  <2>1. "returned" \in Finished /\ sub[s] = "ack"
    BY <1>6 DEF SubscribeAcked, Finished
  <2>2. /\ SubTyped' /\ HandshakeTyped' /\ loop' \in LoopStates
        /\ Holder' /\ LoopHolds' /\ AtCheckpoint'
    BY <1>6, <2>1, EnsureKeeps DEF SubscribeAcked
  <2> QED
    BY <2>2, <1>6 DEF SubscribeAcked, TypeOK, SubTyped, HandshakeTyped
<1>7. CASE SubscribeFailed(s)
  <2>1. "failed" \in Finished /\ sub[s] = "ack"
    BY <1>7 DEF SubscribeFailed, Finished
  <2>2. /\ SubTyped' /\ HandshakeTyped' /\ loop' \in LoopStates
        /\ Holder' /\ LoopHolds' /\ AtCheckpoint'
    BY <1>7, <2>1, EnsureKeeps DEF SubscribeFailed
  <2> QED
    BY <2>2, <1>7 DEF SubscribeFailed, TypeOK, SubTyped, HandshakeTyped, streams
<1>8. CASE CancelQueued(s)
  <2>1. queue' \in Seq(Subscribers \cup {RecvTask})
    BY <1>8, WithdrawTyped DEF CancelQueued, TypeOK
  <2> QED
    BY <2>1, <1>8 DEF CancelQueued, Disturb, TypeOK, Holder, LoopHolds,
                      AtCheckpoint, InHandshake, Finished, handshake, streams
<1>9. CASE CancelPausing(s)
  <2>1. lock = s /\ \A t \in Subscribers : sub'[t] \notin InHandshake
    BY <1>9 DEF CancelPausing, TypeOK, Holder, InHandshake
  <2> QED
    BY <2>1, <1>9, TasksAssumption
       DEF CancelPausing, Disturb, TypeOK, Holder, LoopHolds, AtCheckpoint,
           InHandshake, Finished, handshake, streams
<1>10. CASE CancelAwaitingAck(s)
  <2>1. "cancelled" \in Finished /\ sub[s] = "ack"
    BY <1>10 DEF CancelAwaitingAck, Finished
  <2>2. /\ SubTyped' /\ HandshakeTyped' /\ loop' \in LoopStates
        /\ Holder' /\ LoopHolds' /\ AtCheckpoint'
    BY <1>10, <2>1, EnsureKeeps DEF CancelAwaitingAck
  <2> QED
    BY <2>2, <1>10 DEF CancelAwaitingAck, Disturb, TypeOK, SubTyped,
                       HandshakeTyped, streams
<1> QED
  BY <1>1, <1>2, <1>3, <1>4, <1>5, <1>6, <1>7, <1>8, <1>9, <1>10
     DEF Subscribe, Cancel

\* ... every step of a task that unsubscribes, ...
LEMMA UnsubscribeKeeps ==
    ASSUME IInv, NEW u \in Unsubscribers, Unsubscribe(u)
    PROVE  IInv'
<1> USE DEF IInv, TypeOK, Returned, Holder, LoopHolds, AtCheckpoint, handshake, streams
<1>1. CASE UnsubscribeNothing(u)
  BY <1>1 DEF UnsubscribeNothing
<1>2. CASE UnsubscribeSend(u)
  BY <1>2 DEF UnsubscribeSend
<1>3. CASE UnsubscribeAcked(u)
  BY <1>3 DEF UnsubscribeAcked
<1>4. CASE UnsubscribeFailed(u)
  BY <1>4 DEF UnsubscribeFailed
<1> QED
  BY <1>1, <1>2, <1>3, <1>4 DEF Unsubscribe

\* The conjuncts of TypeOK that a turn of the loop's while leaves alone.
LEMMA LoopTopStep ==
    ASSUME IInv, NEW r \in BOOLEAN, LoopTop(r), loop \notin LoopGone,
           loop # "parked",
           lock' = lock \/ (loop = "resub" /\ lock' = Nobody),
           live' \cup ended' \subseteq Returned, spent' \in Nat,
           UNCHANGED <<running, managers, socket, queue, unsub, stop, forever>>
    PROVE  IInv'
<1>1. /\ SubTyped' /\ HandshakeTyped' /\ loop' \in LoopStates
      /\ Holder' /\ LoopHolds' /\ AtCheckpoint'
  BY LoopTopKeeps
<1>2. Returned \subseteq Returned'
  BY ReturnedStays DEF LoopTop, IInv
<1>3. TypeOK'
  BY <1>1, <1>2 DEF IInv, TypeOK, SubTyped, HandshakeTyped
<1> QED
  BY <1>1, <1>3 DEF IInv

\* The count of the disturbances stays a number.
LEMMA DisturbTyped == ASSUME IInv, NEW e, Disturb(e) PROVE spent' \in Nat
BY DEF Disturb, IInv, TypeOK

\* ... every step of the receive loop, ...
LEMMA LoopKeeps == IInv /\ (LoopStep \/ LoopFault) => IInv'
<1> SUFFICES ASSUME IInv, LoopStep \/ LoopFault PROVE IInv'
  OBVIOUS
<1> DEFINE Bare == /\ UNCHANGED <<handshake, sub, unsub, stop, forever>>
                   /\ running' \in BOOLEAN /\ managers' \in BOOLEAN
                   /\ socket' \in {"open", "lost", "refused", "closed"}
                   /\ live' \cup ended' \subseteq Returned
                   /\ spent' \in Nat
<1> HIDE DEF Bare
<1> USE DEF Returned
<1>0. ASSUME \E l \in live : live' = live \ {l} /\ ended' = ended \cup {l}
      PROVE  live' \cup ended' \subseteq Returned
  BY <1>0 DEF IInv, TypeOK
<1>1. ASSUME BroadcastSentinels PROVE ended' \subseteq Returned
  BY <1>1 DEF BroadcastSentinels, IInv, TypeOK
\* Steps that turn the while loop.
<1>2. ASSUME LoopStart PROVE IInv'
  <2>1. CASE LoopTop(resume)
    BY <1>2, <2>1, LoopTopStep
       DEF LoopStart, IInv, TypeOK, LoopGone, streams
  <2>2. CASE loop' = "done" /\ UNCHANGED <<handshake, sub>>
    BY <1>2, <2>2 DEF LoopStart, IInv, TypeOK, Holder, LoopHolds, AtCheckpoint,
                      LoopStates, LoopGone, handshake, streams
  <2> QED
    BY <1>2, <2>1, <2>2 DEF LoopStart
<1>3. ASSUME LoopResume PROVE IInv'
  BY <1>3, LoopTopStep DEF LoopResume, IInv, TypeOK, LoopGone, streams
<1>4. ASSUME PollTimeout \/ FrameDone \/ ResyncDone PROVE IInv'
  BY <1>4, LoopTopStep
     DEF PollTimeout, FrameDone, ResyncDone, IInv, TypeOK, LoopGone, streams
<1>5. ASSUME ResyncRejected PROVE IInv'
  <2>1. live' \cup ended' \subseteq Returned
    BY <1>5, <1>0 DEF ResyncRejected
  <2> QED
    BY <1>5, <2>1, LoopTopStep DEF ResyncRejected, IInv, TypeOK, LoopGone
<1>6. ASSUME Resubscribed PROVE IInv'
  <2>1. live' \cup ended' \subseteq Returned
    BY <1>6 DEF Resubscribed, IInv, TypeOK
  <2> QED
    BY <1>6, <2>1, LoopTopStep DEF Resubscribed, IInv, TypeOK, LoopGone
\* Steps that end the task or move it on: nobody is in the handshake where the
\* loop leaves a state that is neither the checkpoint nor gone.
<1>7. ASSUME Bare, UNCHANGED <<lock, queue>>,
             loop \in {"recv", "handling", "resync"},
             loop' \in {"done", "handling", "resync", "teardown"}
      PROVE  IInv'
  BY <1>7 DEF Bare, IInv, TypeOK, Holder, LoopHolds, AtCheckpoint, LoopStates,
              LoopGone, handshake
<1>8. ASSUME Frame \/ GapFound PROVE IInv'
  <2>1. Bare
    BY <1>8 DEF Frame, GapFound, Disturb, Bare, IInv, TypeOK, handshake, streams
  <2> QED
    BY <1>7, <1>8, <2>1 DEF Frame, GapFound, streams
<1>9. ASSUME FrameOverflow \/ FrameCrash \/ ResyncLost \/ ClosedForGood PROVE IInv'
  <2>1. ended' \subseteq Returned
    BY <1>9, <1>1 DEF FrameOverflow, FrameCrash, ResyncLost, ClosedForGood
  <2>2. spent' \in Nat
    BY <1>9, DisturbTyped DEF FrameOverflow, FrameCrash, ResyncLost,
                              ClosedForGood, IInv, TypeOK
  <2>3. Bare
    BY <1>9, <2>1, <2>2, Zenon
       DEF FrameOverflow, FrameCrash, ResyncLost, ClosedForGood, Bare, IInv, TypeOK
  <2> QED
    BY <1>7, <1>9, <2>3
       DEF FrameOverflow, FrameCrash, ResyncLost, ClosedForGood
<1>10. ASSUME TeardownDone PROVE IInv'
  <2>1. SubTyped
    BY DEF IInv, TypeOK, SubTyped
  <2>2. /\ WakePaused \in [Subscribers -> {"idle"} \cup Calling \cup Finished]
        /\ \A s \in Subscribers :
              WakePaused[s] \in InHandshake => sub[s] \in InHandshake
    BY <2>1, WakePausedProperties DEF InHandshake
  <2>3. live' \cup ended' \subseteq Returned'
    BY <1>10, ReturnedStays, Zenon DEF TeardownDone, IInv, TypeOK, streams
  <2> QED
    BY <1>10, <2>2, <2>3 DEF TeardownDone, IInv, TypeOK, Holder, LoopHolds,
                       AtCheckpoint, LoopStates, LoopGone, streams
\* Steps that take or release the lock.
<1>11. ASSUME ConnectionLost PROVE IInv'
  <2>1. Append(queue, RecvTask) \in Seq(Subscribers \cup {RecvTask})
    BY AppendProperties DEF IInv, TypeOK
  <2>2. \A s \in Subscribers : sub[s] \notin {"granted", "ack"}
    BY <1>11 DEF ConnectionLost, IInv, AtCheckpoint, LoopGone
  <2>3. lock' # lock => \A s \in Subscribers : sub[s] \notin InHandshake
    BY <1>11, TasksAssumption DEF ConnectionLost, IInv, Holder
  <2> QED
    BY <1>11, <2>1, <2>2, <2>3
       DEF ConnectionLost, IInv, TypeOK, Holder, LoopHolds, AtCheckpoint,
           LoopStates, handshake, streams
<1>12. ASSUME ReconnectLocked PROVE IInv'
  <2>1. Tail(queue) \in Seq(Subscribers \cup {RecvTask})
    BY <1>12, HeadTailProperties DEF ReconnectLocked, IInv, TypeOK
  <2>2. \A s \in Subscribers : sub[s] \notin InHandshake
    BY <1>12, TasksAssumption DEF ReconnectLocked, IInv, Holder
  <2> QED
    BY <1>12, <2>1, <2>2
       DEF ReconnectLocked, IInv, TypeOK, Holder, LoopHolds, AtCheckpoint,
           LoopStates, InHandshake, handshake, streams
<1>13. ASSUME ReconnectOpened PROVE IInv'
  BY <1>13 DEF ReconnectOpened, IInv, TypeOK, Holder, LoopHolds, AtCheckpoint,
               LoopStates, LoopGone, handshake, streams
<1>14. ASSUME ReconnectFailed PROVE IInv'
  <2>1. ended' \subseteq Returned
    BY <1>14, <1>1 DEF ReconnectFailed
  <2>2. \A s \in Subscribers : sub[s] \notin InHandshake
    BY <1>14, TasksAssumption DEF ReconnectFailed, IInv, Holder, LoopHolds
  <2> QED
    BY <1>14, <2>1, <2>2
       DEF ReconnectFailed, IInv, TypeOK, Holder, LoopHolds, AtCheckpoint,
           LoopStates, InHandshake, handshake
<1> QED
  BY <1>2, <1>3, <1>4, <1>5, <1>6, <1>8, <1>9, <1>10, <1>11, <1>12, <1>13, <1>14
     DEF LoopStep, LoopFault

\* ... and every step of the network and of the shutdown.
LEMMA ShutdownKeeps == IInv /\ (Drop \/ StopBegin \/ ForeverBegin \/ Stopping) => IInv'
<1> SUFFICES ASSUME IInv, Drop \/ StopBegin \/ ForeverBegin \/ Stopping PROVE IInv'
  OBVIOUS
<1> USE DEF Returned
<1>1. ASSUME BroadcastSentinels PROVE ended' \subseteq Returned
  BY <1>1 DEF BroadcastSentinels, IInv, TypeOK
<1>2. ASSUME Drop \/ StopClose \/ ForeverBegin \/ ForeverClose PROVE IInv'
  <2>1. spent' \in Nat
    BY <1>2, DisturbTyped
       DEF Drop, StopClose, ForeverBegin, ForeverClose, IInv, TypeOK
  <2>2. TypeOK'
    <3>1. CASE Drop BY <2>1, <3>1 DEF Drop, IInv, TypeOK, handshake, streams
    <3>2. CASE StopClose BY <2>1, <3>2 DEF StopClose, IInv, TypeOK, Shutdown, handshake, streams
    <3>3. CASE ForeverBegin
      BY <2>1, <3>3 DEF ForeverBegin, IInv, TypeOK, Shutdown, handshake, streams
    <3>4. CASE ForeverClose
      BY <2>1, <3>4 DEF ForeverClose, IInv, TypeOK, Shutdown, handshake, streams
    <3> QED BY <1>2, <3>1, <3>2, <3>3, <3>4
  <2>3. Holder' /\ LoopHolds' /\ AtCheckpoint'
    BY <1>2 DEF Drop, StopClose, ForeverBegin, ForeverClose, IInv, Holder,
                LoopHolds, AtCheckpoint, handshake
  <2> QED
    BY <2>2, <2>3 DEF IInv
<1>3. ASSUME StopBegin PROVE IInv'
  <2>1. spent' \in Nat
    BY <1>3, DisturbTyped DEF StopBegin
  <2>2. loop' = loop \/ (loop = "parked" /\ loop' = "resumed")
    BY <1>3 DEF StopBegin, WakeParked
  <2>3. TypeOK'
    BY <1>3, <2>1, <2>2 DEF StopBegin, IInv, TypeOK, LoopStates, Shutdown, streams
  <2>4. Holder' /\ LoopHolds' /\ AtCheckpoint'
    BY <1>3, <2>2 DEF StopBegin, IInv, Holder, LoopHolds, AtCheckpoint, LoopGone
  <2> QED
    BY <2>3, <2>4 DEF IInv
<1>4. ASSUME StopCancel PROVE IInv'
  <2>1. queue' \in Seq(Subscribers \cup {RecvTask})
    BY <1>4, WithdrawTyped DEF StopCancel, IInv, TypeOK
  <2>2. \A s \in Subscribers : sub[s] \in InHandshake => lock' = s
    BY <1>4, TasksAssumption DEF StopCancel, IInv, Holder
  <2>3. lock' \in Subscribers \cup {RecvTask, Nobody}
    BY <1>4 DEF StopCancel, IInv, TypeOK
  <2> QED
    BY <1>4, <2>1, <2>2, <2>3
       DEF StopCancel, IInv, TypeOK, Holder, LoopHolds, AtCheckpoint,
           LoopStates, LoopGone, handshake, streams
<1>5. ASSUME StopDone PROVE IInv'
  BY <1>5, <1>1 DEF StopDone, IInv, TypeOK, Holder, LoopHolds, AtCheckpoint,
                    LoopStates, LoopGone, Shutdown
<1>6. ASSUME ForeverDone PROVE IInv'
  BY <1>6, <1>1 DEF ForeverDone, IInv, TypeOK, Holder, LoopHolds, AtCheckpoint,
                    Shutdown, handshake
<1> QED
  BY <1>2, <1>3, <1>4, <1>5, <1>6 DEF Stopping

\* Every step keeps the invariant.
LEMMA NextIInv == IInv /\ [Next]_vars => IInv'
<1> SUFFICES ASSUME IInv, [Next]_vars PROVE IInv'
  OBVIOUS
<1>1. CASE UNCHANGED vars
  BY <1>1 DEF vars, handshake, streams, IInv, TypeOK, Returned, Holder, LoopHolds, AtCheckpoint
<1>2. CASE Next
  BY <1>2, SubscribeKeeps, UnsubscribeKeeps, LoopKeeps, ShutdownKeeps DEF Next
<1> QED
  BY <1>1, <1>2

-----------------------------------------------------------------------------
(* In every reachable state the handshake is sound.                        *)
THEOREM InvariantHolds == Spec => []IInv
  BY InitIInv, NextIInv, PTL DEF Spec

(* Every variable of the session keeps its type, and only subscriptions      *)
(* whose subscribe_* has returned are registered or ended.                 *)
THEOREM TypeCorrect == Spec => []TypeOK
  BY InvariantHolds, PTL DEF IInv

(* Whatever the users, the network and the shutdown do, a subscriber reads  *)
(* its acknowledgement only while the receive loop is parked or gone.       *)
THEOREM SafePause == Spec => []PauseAtSafePoint
<1>1. IInv => PauseAtSafePoint
  BY DEF IInv, AtCheckpoint, PauseAtSafePoint
<1> QED
  BY <1>1, InvariantHolds, PTL

(* No step of a reconnect, by any task, adds a subscription.                *)
THEOREM ReconnectIsQuiet == Spec => QuietReconnect
<1>1. IInv /\ [Next]_vars
        => [(loop \in {"reconnect", "resub"}) => live' \subseteq live]_vars
  <2> SUFFICES ASSUME IInv, Next, loop \in {"reconnect", "resub"}
               PROVE  live' \subseteq live
    OBVIOUS
  <2>1. \A s \in Subscribers : sub[s] # "ack"
    BY DEF IInv, AtCheckpoint, LoopGone
  <2>2. ASSUME NEW s \in Subscribers, Subscribe(s) \/ Cancel(s)
        PROVE  live' \subseteq live
    BY <2>1, <2>2 DEF Subscribe, Cancel, SubscribeInactive, SubscribeAtOnce,
          SubscribeQueued, SubscribeLocked, SubscribePaused, SubscribeAcked,
          SubscribeFailed, CancelQueued, CancelPausing, CancelAwaitingAck, streams
  <2>3. ASSUME NEW u \in Unsubscribers, Unsubscribe(u)
        PROVE  live' \subseteq live
    BY <2>3 DEF Unsubscribe, UnsubscribeNothing, UnsubscribeSend,
          UnsubscribeAcked, UnsubscribeFailed, streams
  <2>4. ASSUME LoopStep \/ LoopFault
        PROVE  live' \subseteq live
    BY <2>4 DEF LoopStep, LoopFault, LoopStart, LoopResume, PollTimeout, Frame,
          FrameDone, TeardownDone, ResyncDone, ResyncRejected, ResyncLost,
          ClosedForGood, ConnectionLost, ReconnectLocked, ReconnectOpened,
          ReconnectFailed, Resubscribed, FrameOverflow, FrameCrash, GapFound,
          streams
  <2>5. ASSUME Drop \/ StopBegin \/ ForeverBegin \/ Stopping
        PROVE  live' \subseteq live
    BY <2>5 DEF Drop, StopBegin, ForeverBegin, Stopping, StopClose, StopCancel,
          StopDone, ForeverClose, ForeverDone, streams
  <2> QED
    BY <2>2, <2>3, <2>4, <2>5 DEF Next
<1> QED
  BY <1>1, InvariantHolds, PTL DEF Spec, QuietReconnect

(* At most one of the loop and the subscribers is inside recv().            *)
THEOREM OneReader == Spec => []RecvExclusive
<1>1. IInv => RecvExclusive
  <2> SUFFICES ASSUME IInv PROVE RecvExclusive
    OBVIOUS
  <2>1. \A t, v \in Coordinated : t = v
    BY TasksAssumption DEF Coordinated, IInv, Holder, AtCheckpoint, LoopGone, InHandshake
  <2>2. Coordinated = {} \/ \E t : Coordinated = {t}
    BY <2>1
  <2>3. Cardinality(Coordinated) = 0 \/ Cardinality(Coordinated) = 1
    BY <2>2, FS_EmptySet, FS_Singleton, Zenon
  <2> QED
    BY <2>3 DEF RecvExclusive
<1> QED
  BY <1>1, InvariantHolds, PTL

-----------------------------------------------------------------------------
\* Where no callback raises, a loop that died in a session still running, with
\* a pause asked for, died of its connection, which nobody opens again.
DiesOffline ==
    "crash" \notin Events /\ running /\ loop \in LoopGone /\ pausePending => socket # "open"

Ending == stop # "no" \/ forever # "no"
Told == live \subseteq ended
Unanswered == \A s \in Subscribers : sub[s] # "ack"

\* An ending session is not running; one that stopped by itself is being torn
\* down or was, and nobody is left in the handshake.
Ends ==
    /\ Ending => ~running
    /\ ~running /\ ~Ending => loop \in {"teardown", "done"} /\ Told /\ Unanswered
    /\ loop = "teardown" => Told /\ ~running
    /\ ~managers => ~running /\ loop \in {"none", "starting", "done"} /\ Told

\* Where consumers have been told for good, no subscription can still be added.
TooLate ==
    ~managers \/ stop \in {"joining", "done"} \/ forever \in {"joining", "done"}
        => Unanswered \/ socket # "open"

\* While the session runs, a pause was asked for by somebody who waits for it or
\* has it, and whoever has it on an open connection finds the loop at its
\* checkpoint.
Requested ==
    pausePending /\ running =>
        /\ "cancel" \notin Events => \E s \in Subscribers : sub[s] \in InHandshake
        /\ \A s \in Subscribers :
              sub[s] \in {"granted", "ack"} => loop \in {"parked", "resumed"} \/ socket # "open"

Informed ==
    (forever = "done" \/ stop = "done" \/ (loop = "done" /\ ~Ending)) => Told

TellInv == DiesOffline /\ Ends /\ TooLate /\ Requested /\ Informed

\* A turn of the while loop: it leaves only a session that is ending.
LEMMA LoopTopTells ==
    ASSUME IInv, TellInv, Unsubscribers = {}, NEW r, LoopTop(r),
           loop \notin LoopGone \cup {"parked", "teardown"}, managers,
           Told => Told', UNCHANGED <<running, managers, socket, stop, forever>>
    PROVE  TellInv'
<1> USE DEF TellInv, Ending
<1>1. SubTyped /\ pausePending' = pausePending BY DEF IInv, TypeOK, SubTyped, LoopTop
<1>2. CASE ~running /\ loop' = "done" /\ UNCHANGED sub
  <2>1. Ending BY <1>2 DEF Ends, LoopGone
  <2> QED BY <1>1, <1>2, <2>1
          DEF DiesOffline, Ends, TooLate, Requested, Informed, Unanswered, LoopGone
<1>3. CASE running /\ pausePending /\ sub' = WakePaused /\ loop' \in {"parked", "resumed"}
  <2>1. \A s \in Subscribers : /\ sub'[s] = "ack" <=> sub[s] = "ack"
                               /\ sub'[s] \in InHandshake <=> sub[s] \in InHandshake
    BY <1>1, <1>3, WakePausedProperties DEF InHandshake
  <2>2. Unanswered' <=> Unanswered BY <2>1 DEF Unanswered
  <2>3. Requested' BY <1>3, <2>1 DEF Requested
  <2> QED BY <1>1, <1>3, <2>2, <2>3 DEF DiesOffline, Ends, TooLate, Informed, LoopGone
<1>4. CASE running /\ ~pausePending /\ loop' = "recv" /\ UNCHANGED sub
  BY <1>1, <1>4 DEF DiesOffline, Ends, TooLate, Requested, Informed, Unanswered, LoopGone
<1> QED
  BY <1>2, <1>3, <1>4, Zenon DEF LoopTop, UnsubReading

\* What the loop does between two turns while it goes on.
LEMMA LoopGoesOn ==
    ASSUME IInv, TellInv, loop \in {"recv", "handling", "resync", "lock", "reconnect"},
           loop' \in {"handling", "resync", "lock", "reconnect", "resub"},
           socket' = socket \/ socket' = "open",
           UNCHANGED <<running, managers, pausePending, sub, live, ended, stop, forever>>
    PROVE  TellInv'
<1>1. \A s \in Subscribers : sub[s] \notin {"granted", "ack"}
  BY DEF IInv, AtCheckpoint, LoopGone
<1>2. Unanswered' BY <1>1 DEF Unanswered
<1>3. running \/ Ending BY DEF TellInv, Ends
<1> QED
  BY <1>1, <1>2, <1>3
     DEF TellInv, DiesOffline, Ends, Ending, Told, TooLate, Requested, Informed, LoopGone

\* The loop ends on its own after it has told the consumers.
LEMMA LoopEnds ==
    ASSUME IInv, TellInv, loop \in {"recv", "handling", "resync", "reconnect"},
           loop' \in {"teardown", "done"}, BroadcastSentinels, live' = live,
           loop' = "teardown" => ~running',
           running' => running /\ ("crash" \in Events \/ socket # "open"),
           running' = running \/ running' = FALSE,
           socket' = socket \/ (socket' = "closed" /\ ~running'),
           UNCHANGED <<managers, pausePending, sub, stop, forever>>
    PROVE  TellInv'
<1>1. \A s \in Subscribers : sub[s] \notin {"granted", "ack"}
  BY DEF IInv, AtCheckpoint, LoopGone
<1>2. Unanswered' BY <1>1 DEF Unanswered
<1>3. managers BY DEF TellInv, Ends
<1>4. Told' BY <1>3 DEF BroadcastSentinels, Told
<1> QED
  BY <1>1, <1>2, <1>3, <1>4
     DEF TellInv, DiesOffline, Ends, Ending, TooLate, Requested, Informed

\* The loop only changes where it is: while it is parked, or when it ends in a
\* session that is ending.
LEMMA LoopLeaves ==
    ASSUME IInv, TellInv, ~running, Ending, loop' # "teardown",
           loop = "teardown" => Told,
           ~managers => loop' \in {"none", "starting", "done"},
           UNCHANGED <<running, managers, socket, pausePending, sub, live, ended, stop, forever>>
    PROVE  TellInv'
BY DEF TellInv, DiesOffline, Ends, Ending, Told, TooLate, Requested, Informed, Unanswered

\* Every step of the receive loop keeps it.
LEMMA LoopTells ==
    ASSUME IInv, TellInv, Unsubscribers = {}, LoopStep \/ LoopFault
    PROVE  TellInv'
<1>a. ASSUME NEW l \in live, live' = live \ {l}, ended' = ended \cup {l} PROVE Told => Told'
  BY <1>a DEF Told
<1>1. ASSUME LoopStart PROVE TellInv'
  <2>1. loop = "starting" /\ UNCHANGED <<running, managers, socket, live, ended, stop, forever>>
    BY <1>1 DEF LoopStart, streams
  <2>2. CASE managers /\ LoopTop(resume)
    BY <2>1, <2>2, LoopTopTells DEF LoopGone, Told
  <2>3. CASE ~managers /\ loop' = "done" /\ UNCHANGED <<handshake, sub>>
    BY <2>1, <2>3 DEF handshake, TellInv, DiesOffline, Ends, Ending, Told, TooLate, Requested,
                      Informed, Unanswered
  <2> QED BY <1>1, <2>2, <2>3 DEF LoopStart
<1>2. ASSUME LoopResume \/ PollTimeout \/ FrameDone \/ ResyncDone PROVE TellInv'
  <2>1. /\ loop \in {"resumed", "recv", "handling", "resync"}
        /\ \E r : LoopTop(r)
        /\ UNCHANGED <<running, managers, socket, live, ended, stop, forever>>
    BY <1>2 DEF LoopResume, PollTimeout, FrameDone, ResyncDone, streams
  <2>2. managers BY <2>1 DEF TellInv, Ends
  <2> QED BY <2>1, <2>2, LoopTopTells DEF LoopGone, Told
<1>3. ASSUME ResyncRejected \/ Resubscribed PROVE TellInv'
  <2>1. /\ loop \in {"resync", "resub"} /\ LoopTop(resume)
        /\ \E gone \in SUBSET live : live' = live \ gone /\ ended' = ended \cup gone
        /\ UNCHANGED <<running, managers, socket, stop, forever>>
    <3>1. CASE ResyncRejected
      <4>1. PICK l \in live : live' = live \ {l} /\ ended' = ended \cup {l}
        BY <3>1 DEF ResyncRejected
      <4>2. {l} \in SUBSET live OBVIOUS
      <4> QED BY <3>1, <4>1, <4>2 DEF ResyncRejected
    <3>2. CASE Resubscribed BY <3>2 DEF Resubscribed
    <3> QED BY <1>3, <3>1, <3>2
  <2>2. managers BY <2>1 DEF TellInv, Ends
  <2>3. Told => Told' BY <2>1 DEF Told
  <2> QED BY <2>1, <2>2, <2>3, LoopTopTells DEF LoopGone
<1>4. ASSUME Frame \/ GapFound \/ ReconnectLocked \/ ReconnectOpened PROVE TellInv'
  <2>1. /\ loop \in {"recv", "lock", "reconnect"}
        /\ loop' \in {"handling", "resync", "reconnect", "resub"}
        /\ socket' = socket \/ socket' = "open"
        /\ UNCHANGED <<running, managers, pausePending, sub, live, ended, stop, forever>>
    BY <1>4 DEF Frame, GapFound, ReconnectLocked, ReconnectOpened, handshake, streams
  <2> QED BY <2>1, LoopGoesOn
<1>5. ASSUME ConnectionLost PROVE TellInv'
  <2>1. /\ loop = "recv"
        /\ UNCHANGED <<running, managers, socket, pausePending, sub, live, ended, stop, forever>>
        /\ (~running /\ loop' = "done") \/ loop' \in {"reconnect", "lock"}
    BY <1>5 DEF ConnectionLost, handshake, streams
  <2>2. CASE ~running /\ loop' = "done"
    <3>1. Ending BY <2>1, <2>2 DEF TellInv, Ends
    <3> QED BY <2>1, <2>2, <3>1, LoopLeaves
  <2>3. CASE loop' \in {"reconnect", "lock"} BY <2>1, <2>3, LoopGoesOn
  <2> QED BY <2>1, <2>2, <2>3
<1>6. ASSUME FrameOverflow \/ FrameCrash \/ ResyncLost \/ ClosedForGood \/ ReconnectFailed
      PROVE  TellInv'
  <2>1. /\ loop \in {"recv", "handling", "resync", "reconnect"}
        /\ loop' \in {"teardown", "done"} /\ BroadcastSentinels /\ live' = live
        /\ loop' = "teardown" => ~running'
        /\ running' = running \/ running' = FALSE
        /\ socket' = socket \/ (socket' = "closed" /\ ~running')
        /\ UNCHANGED <<managers, pausePending, sub, stop, forever>>
    BY <1>6 DEF FrameOverflow, FrameCrash, ResyncLost, ClosedForGood, ReconnectFailed, handshake
  <2>2. running' => running BY <2>1
  <2>3. running' => "crash" \in Events \/ socket # "open"
    <3>1. CASE FrameOverflow \/ ReconnectFailed BY <3>1 DEF FrameOverflow, ReconnectFailed
    <3>2. CASE FrameCrash BY <3>2 DEF FrameCrash, Disturb
    <3>3. CASE ResyncLost
      BY <3>3 DEF ResyncLost
    <3>4. CASE ClosedForGood BY <3>4 DEF ClosedForGood
    <3> QED BY <1>6, <3>1, <3>2, <3>3, <3>4
  <2> QED BY <2>1, <2>2, <2>3, LoopEnds
<1>7. ASSUME TeardownDone PROVE TellInv'
  <2>1. /\ loop = "teardown" /\ loop' = "done" /\ ~managers' /\ socket' = "closed"
        /\ ~pausePending' /\ UNCHANGED <<running, live, ended, stop, forever>>
        /\ sub' = WakePaused
    BY <1>7 DEF TeardownDone, streams
  <2>2. Told /\ ~running BY <2>1 DEF TellInv, Ends
  <2>3. SubTyped BY DEF IInv, TypeOK, SubTyped
  <2>4. \A s \in Subscribers : sub[s] # "ack"
    BY <2>1 DEF IInv, AtCheckpoint, LoopGone
  <2>5. Unanswered' BY <2>1, <2>3, <2>4, WakePausedProperties DEF Unanswered
  <2> QED
    BY <2>1, <2>2, <2>5 DEF TellInv, DiesOffline, Ends, Ending, Told, TooLate, Requested, Informed
<1> QED
  BY <1>1, <1>2, <1>3, <1>4, <1>5, <1>6, <1>7 DEF LoopStep, LoopFault

\* The step that takes the lock: nobody is in the handshake, and a pause that
\* is still asked for found a loop that runs.
LEMMA PauseTells ==
    ASSUME IInv, TellInv, "crash" \notin Events \/ "cancel" \notin Events,
           NEW s \in Subscribers, sub[s] \in {"idle", "lock"},
           lock = Nobody, PauseRecvLoop(s),
           UNCHANGED <<running, managers, socket, loop, live, ended, stop, forever>>
    PROVE  TellInv'
<1> USE DEF TellInv, Ending
<1>1. \A t \in Subscribers : sub[t] \notin InHandshake
  BY TasksAssumption DEF IInv, Holder
<1>2. sub \in [Subscribers -> {"idle"} \cup Calling \cup Finished] BY DEF IInv, TypeOK
<1>3. CASE loop \notin LoopGone /\ pausePending' = TRUE /\ sub' = [sub EXCEPT ![s] = "pause"]
  BY <1>1, <1>2, <1>3
     DEF DiesOffline, Ends, Told, TooLate, Requested, Informed, Unanswered, InHandshake
<1>4. CASE loop \in LoopGone /\ Active /\ pausePending' = pausePending
           /\ sub' = [sub EXCEPT ![s] = "ack"]
  <2>1. running /\ managers BY <1>4 DEF Active
  <2>2. pausePending => "cancel" \in Events /\ socket # "open"
    BY <1>1, <1>4, <2>1 DEF Requested, DiesOffline
  <2> QED BY <1>4, <2>1, <2>2 DEF DiesOffline, Ends, Told, TooLate, Requested, Informed
<1>5. CASE ~Active /\ pausePending' = pausePending /\ sub' = [sub EXCEPT ![s] = "failed"]
  <2>1. ~running BY <1>5 DEF Active, Ends
  <2> QED BY <1>2, <1>5, <2>1
          DEF DiesOffline, Ends, Told, TooLate, Requested, Informed, Unanswered
<1> QED BY <1>3, <1>4, <1>5 DEF PauseRecvLoop, handshake

\* The acknowledgement came, or does not come any more: the loop is resumed or
\* started, and nobody is left in the handshake.
LEMMA EnsureTells ==
    ASSUME IInv, TellInv, NEW s \in Subscribers, sub[s] = "ack", EnsureRecvLoop,
           NEW out \in Finished, sub' = [sub EXCEPT ![s] = out],
           ended' = ended, live' = live \/ socket = "open",
           UNCHANGED <<running, managers, socket, stop, forever>>
    PROVE  TellInv'
<1> USE DEF TellInv, Ending
<1>1. \A t \in Subscribers : sub[t] # "ack" \/ t = s
  BY DEF IInv, Holder, InHandshake
<1>2. sub \in [Subscribers -> {"idle"} \cup Calling \cup Finished] BY DEF IInv, TypeOK
<1>3. Unanswered' BY <1>1, <1>2 DEF Unanswered, Finished
<1>4. ~pausePending' BY DEF EnsureRecvLoop, handshake
<1>5. ~Unanswered BY DEF Unanswered
<1>6. loop' \in {loop, "resumed", "starting"} /\ (loop' = "starting" => loop \in LoopGone \cup {"starting"})
  BY DEF EnsureRecvLoop, WakeParked
<1>7. loop \in LoopGone \cup {"parked", "resumed"} BY DEF IInv, AtCheckpoint
<1>8. loop' = "resumed" => managers BY <1>5, <1>7, <1>6 DEF Ends, EnsureRecvLoop, WakeParked
<1>9. ~running => Ending BY <1>5 DEF Ends
<1>10. CASE live' = live
  BY <1>3, <1>4, <1>6, <1>7, <1>8, <1>9, <1>10
     DEF DiesOffline, Ends, Told, TooLate, Requested, Informed, LoopGone
<1>11. CASE socket = "open"
  <2>1. managers /\ stop \notin {"joining", "done"} /\ forever \notin {"joining", "done"}
    BY <1>5, <1>11 DEF TooLate
  <2>2. ~Ending => loop' # "done"
    <3>1. CASE pausePending
      <4>1. ~Ending => loop \in {"parked", "resumed"} BY <1>9, <1>11, <3>1 DEF Requested
      <4> QED BY <4>1, <1>6
    <3>2. CASE ~pausePending BY <3>2, <1>6 DEF EnsureRecvLoop, LoopGone
    <3> QED BY <3>1, <3>2
  <2> QED
    BY <1>3, <1>4, <1>6, <1>7, <1>9, <2>1, <2>2
       DEF DiesOffline, Ends, TooLate, Requested, Informed, LoopGone
<1> QED BY <1>10, <1>11

\* Every step of a subscriber keeps it.
LEMMA SubscribeTells ==
    ASSUME IInv, TellInv, "crash" \notin Events \/ "cancel" \notin Events,
           NEW s \in Subscribers, Subscribe(s) \/ Cancel(s)
    PROVE  TellInv'
<1>0. sub \in [Subscribers -> {"idle"} \cup Calling \cup Finished] BY DEF IInv, TypeOK
<1>1. ASSUME SubscribeInactive(s) \/ SubscribeQueued(s) \/ CancelQueued(s) PROVE TellInv'
  <2>1. /\ sub[s] \in {"idle", "lock"}
        /\ \E out \in {"failed", "lock", "cancelled"} : sub' = [sub EXCEPT ![s] = out]
        /\ UNCHANGED <<running, managers, socket, pausePending, loop, live, ended, stop, forever>>
    BY <1>1 DEF SubscribeInactive, SubscribeQueued, CancelQueued, handshake, streams
  <2>2. \A t \in Subscribers : /\ sub'[t] = "ack" <=> sub[t] = "ack"
                               /\ sub'[t] = "granted" <=> sub[t] = "granted"
                               /\ sub'[t] \in InHandshake <=> sub[t] \in InHandshake
    BY <1>0, <2>1 DEF InHandshake
  <2>3. Unanswered' <=> Unanswered BY <2>2 DEF Unanswered
  <2>4. Requested' <=> Requested BY <2>1, <2>2 DEF Requested
  <2> QED BY <2>1, <2>3, <2>4 DEF TellInv, DiesOffline, Ends, Ending, Told, TooLate, Informed
<1>2. ASSUME SubscribeAtOnce(s) \/ SubscribeLocked(s) PROVE TellInv'
  <2>1. /\ sub[s] \in {"idle", "lock"} /\ lock = Nobody /\ PauseRecvLoop(s)
        /\ UNCHANGED <<running, managers, socket, loop, live, ended, stop, forever>>
    BY <1>2, Zenon DEF SubscribeAtOnce, SubscribeLocked, streams
  <2> QED BY <2>1, PauseTells
<1>3. ASSUME SubscribePaused(s) PROVE TellInv'
  <2>1. /\ sub[s] = "granted"
        /\ sub' = [sub EXCEPT ![s] = IF Active THEN "ack" ELSE "failed"]
        /\ UNCHANGED <<running, managers, socket, pausePending, loop, live, ended, stop, forever>>
    BY <1>3 DEF SubscribePaused, handshake, streams
  <2>2. CASE Active
    <3>1. running /\ managers BY <2>2 DEF Active
    <3>2. Requested' BY <1>0, <2>1, <2>2 DEF TellInv, Requested, InHandshake
    <3> QED BY <2>1, <3>1, <3>2 DEF TellInv, DiesOffline, Ends, Ending, Told, TooLate, Informed
  <2>3. CASE ~Active
    <3>1. ~running BY <2>3 DEF Active, TellInv, Ends
    <3>2. Unanswered => Unanswered' BY <1>0, <2>1, <2>3 DEF Unanswered
    <3> QED BY <2>1, <3>1, <3>2
            DEF TellInv, DiesOffline, Ends, Ending, Told, TooLate, Requested, Informed
  <2> QED BY <2>2, <2>3
<1>4. ASSUME SubscribeAcked(s) \/ SubscribeFailed(s) \/ CancelAwaitingAck(s) PROVE TellInv'
  <2>1. /\ sub[s] = "ack" /\ EnsureRecvLoop
        /\ \E out \in {"returned", "failed", "cancelled"} : sub' = [sub EXCEPT ![s] = out]
        /\ ended' = ended /\ (live' = live \/ socket = "open")
        /\ UNCHANGED <<running, managers, socket, stop, forever>>
    BY <1>4 DEF SubscribeAcked, SubscribeFailed, CancelAwaitingAck, streams
  <2>2. \E out \in Finished : sub' = [sub EXCEPT ![s] = out] BY <2>1 DEF Finished
  <2> QED BY <2>1, <2>2, EnsureTells
<1>5. ASSUME CancelPausing(s) PROVE TellInv'
  <2>1. /\ "cancel" \in Events /\ sub' = [sub EXCEPT ![s] = "cancelled"]
        /\ UNCHANGED <<running, managers, socket, pausePending, loop, live, ended, stop, forever>>
    BY <1>5 DEF CancelPausing, Disturb, handshake, streams
  <2>2. \A t \in Subscribers : sub'[t] = sub[t] \/ sub'[t] = "cancelled" BY <1>0, <2>1
  <2>3. Unanswered => Unanswered' BY <2>2 DEF Unanswered
  <2>4. Requested' BY <2>1, <2>2 DEF TellInv, Requested
  <2> QED BY <2>1, <2>3, <2>4 DEF TellInv, DiesOffline, Ends, Ending, Told, TooLate, Informed
<1> QED
  BY <1>1, <1>2, <1>3, <1>4, <1>5 DEF Subscribe, Cancel

\* Every step of the network and of the shutdown keeps it.
LEMMA ShutdownTells ==
    ASSUME IInv, TellInv, Drop \/ StopBegin \/ ForeverBegin \/ Stopping
    PROVE  TellInv'
<1> USE DEF TellInv, Ending
<1>a. ASSUME BroadcastSentinels, live' = live PROVE Told'
  BY <1>a DEF BroadcastSentinels, Told, Ends
<1>1. ASSUME Drop PROVE TellInv'
  <2>1. /\ socket' # "open"
        /\ UNCHANGED <<running, managers, pausePending, sub, loop, live, ended, stop, forever>>
    BY <1>1 DEF Drop, handshake, streams
  <2> QED BY <2>1 DEF DiesOffline, Ends, Told, TooLate, Requested, Informed, Unanswered
<1>2. ASSUME StopBegin PROVE TellInv'
  <2>1. /\ running' = FALSE /\ stop' = "closing" /\ stop = "no" /\ loop' = WakeParked
        /\ UNCHANGED <<managers, socket, pausePending, sub, live, ended, forever>>
    BY <1>2 DEF StopBegin, streams
  <2> QED BY <2>1
          DEF WakeParked, DiesOffline, Ends, Told, TooLate, Requested, Informed, Unanswered
<1>3. ASSUME ForeverBegin PROVE TellInv'
  <2>1. /\ running' = FALSE /\ forever' = "closing" /\ forever = "no" /\ stop = "no"
        /\ UNCHANGED <<managers, socket, pausePending, sub, loop, live, ended, stop>>
    BY <1>3 DEF ForeverBegin, handshake, streams
  <2> QED BY <2>1 DEF DiesOffline, Ends, Told, TooLate, Requested, Informed, Unanswered
<1>4. ASSUME StopClose PROVE TellInv'
  <2>1. /\ stop = "closing" /\ stop' = "joining" /\ socket' = "closed"
        /\ UNCHANGED <<running, managers, pausePending, sub, loop, live, ended, forever>>
    BY <1>4 DEF StopClose, handshake, streams
  <2> QED BY <2>1 DEF DiesOffline, Ends, Told, TooLate, Requested, Informed, Unanswered
<1>5. ASSUME ForeverClose PROVE TellInv'
  <2>1. /\ forever = "closing" /\ forever' = "joining"
        /\ socket' = IF managers THEN "closed" ELSE socket
        /\ UNCHANGED <<running, managers, pausePending, sub, loop, live, ended, stop>>
    BY <1>5 DEF ForeverClose, handshake, streams
  <2> QED BY <2>1 DEF DiesOffline, Ends, Told, TooLate, Requested, Informed, Unanswered
<1>6. ASSUME StopCancel PROVE TellInv'
  <2>1. /\ stop = "joining" /\ loop' = "done"
        /\ UNCHANGED <<running, managers, socket, pausePending, sub, live, ended, stop, forever>>
    BY <1>6 DEF StopCancel, handshake, streams
  <2>2. ~running /\ (loop = "teardown" => Told) BY <2>1 DEF Ends
  <2> QED BY <2>1, <2>2, LoopLeaves
<1>7. ASSUME StopDone PROVE TellInv'
  <2>1. /\ stop = "joining" /\ stop' = "done" /\ ~managers' /\ loop' = "none" /\ Told'
        /\ ~pausePending' /\ UNCHANGED <<running, socket, sub, live, forever>>
    BY <1>7, <1>a DEF StopDone
  <2> QED BY <2>1 DEF DiesOffline, Ends, TooLate, Requested, Informed, Unanswered
<1>8. ASSUME ForeverDone PROVE TellInv'
  <2>1. /\ forever = "joining" /\ forever' = "done" /\ Told'
        /\ UNCHANGED <<running, managers, socket, pausePending, sub, loop, live, stop>>
    BY <1>8, <1>a DEF ForeverDone, handshake
  <2> QED BY <2>1 DEF DiesOffline, Ends, TooLate, Requested, Informed, Unanswered
<1> QED
  BY <1>1, <1>2, <1>3, <1>4, <1>5, <1>6, <1>7, <1>8 DEF Stopping

(* Where no task unsubscribes on its own, and callbacks do not raise while   *)
(* callers are cancelled, every way the receive task can end tells all       *)
(* consumers (client.py:420-423): overflow, crash, refusal, a gap or a       *)
(* reconnect that fails, and both shutdowns.                                 *)
THEOREM NobodyStranded ==
    ASSUME Unsubscribers = {}, "crash" \notin Events \/ "cancel" \notin Events
    PROVE  Spec => []NoStrandedConsumer
<1>1. Init => TellInv
  BY DEF Init, TellInv, DiesOffline, Ends, Ending, Told, TooLate, Requested, Informed, Unanswered
<1>2. IInv /\ TellInv /\ [Next]_vars => TellInv'
  <2> SUFFICES ASSUME IInv, TellInv, [Next]_vars PROVE TellInv' OBVIOUS
  <2>1. CASE UNCHANGED vars
    BY <2>1 DEF vars, handshake, streams, TellInv, DiesOffline, Ends, Ending, Told, TooLate,
                Requested, Informed, Unanswered
  <2>2. CASE Next
    BY <2>2, SubscribeTells, LoopTells, ShutdownTells DEF Next
  <2> QED BY <2>1, <2>2
<1>3. IInv /\ TellInv => NoStrandedConsumer
  BY DEF TellInv, Informed, Ends, Ending, Told, NoStrandedConsumer, IInv, TypeOK, Shutdown
<1> QED
  BY <1>1, <1>2, <1>3, InvariantHolds, PTL DEF Spec

-----------------------------------------------------------------------------
\* What can end the receive task of a session that nobody is ending: a callback
\* that raises, a refusal by the server, a gap whose recovery loses the socket.
LoopMayDie == Events \cap {"crash", "refuse"} # {} \/ {"gap", "drop"} \subseteq Events

\* What keeps a running session free of dead consumers: a queue is closed behind
\* its subscription only once the session no longer runs, and a subscription is
\* only registered by a call that is still waiting, never a second time.
ZombieInv ==
    /\ running => live \cap ended = {}
    /\ \A s \in live \cup ended : sub[s] = "returned"
    /\ socket # "refused"
    /\ "gap" \notin Events => loop # "resync"
    /\ "drop" \notin Events => (running => socket = "open")
    /\ Ending \/ loop = "teardown" => ~running

\* A turn of the while loop, with or without a subscription it gave up.
LEMMA LoopTopZombie ==
    ASSUME IInv, ZombieInv, NEW r, LoopTop(r), loop # "teardown",
           NEW gone, gone \subseteq live, live' = live \ gone, ended' = ended \cup gone,
           UNCHANGED <<running, socket, stop, forever>>
    PROVE  ZombieInv'
<1>1. SubTyped BY DEF IInv, TypeOK, SubTyped
<1>2. sub' = sub \/ sub' = WakePaused BY DEF LoopTop
<1>3. loop' \in {"done", "parked", "resumed", "recv"} BY DEF LoopTop, UnsubReading
<1>4. live \cup ended \subseteq Subscribers BY DEF IInv, TypeOK, Returned
<1>5. \A s \in live' \cup ended' : sub'[s] = "returned"
  BY <1>1, <1>2, <1>4 DEF ZombieInv, WakePaused, SubTyped
<1> QED
  BY <1>3, <1>5 DEF ZombieInv, Ending

\* The receive loop keeps it.
LEMMA LoopZombie ==
    ASSUME ~LoopMayDie, IInv, ZombieInv, LoopStep \/ LoopFault
    PROVE  ZombieInv'
<1> USE DEF Ending
<1>1. ASSUME LoopStart PROVE ZombieInv'
  <2>1. loop = "starting" /\ UNCHANGED <<running, socket, live, ended, stop, forever>>
    BY <1>1 DEF LoopStart, streams
  <2>2. CASE managers /\ LoopTop(resume)
    <3>1. {} \in SUBSET live /\ live' = live \ {} /\ ended' = ended \cup {} BY <2>1
    <3>2. \E gone \in SUBSET live : live' = live \ gone /\ ended' = ended \cup gone
      BY <3>1, Zenon
    <3> QED BY <2>1, <2>2, <3>2, LoopTopZombie
  <2>3. CASE ~managers /\ loop' = "done" /\ UNCHANGED <<handshake, sub>>
    BY <2>1, <2>3 DEF ZombieInv
  <2> QED BY <1>1, <2>2, <2>3 DEF LoopStart
<1>2. ASSUME LoopResume \/ PollTimeout \/ FrameDone \/ ResyncDone PROVE ZombieInv'
  <2>1. /\ loop # "teardown" /\ \E r : LoopTop(r)
        /\ UNCHANGED <<running, socket, live, ended, stop, forever>>
    BY <1>2 DEF LoopResume, PollTimeout, FrameDone, ResyncDone, streams
  <2>2. {} \in SUBSET live /\ live' = live \ {} /\ ended' = ended \cup {} BY <2>1
  <2>3. \E gone \in SUBSET live : live' = live \ gone /\ ended' = ended \cup gone
    BY <2>2, Zenon
  <2> QED BY <2>1, <2>3, LoopTopZombie
<1>3. ASSUME ResyncRejected \/ Resubscribed PROVE ZombieInv'
  <2>1. /\ loop # "teardown" /\ LoopTop(resume)
        /\ \E gone \in SUBSET live : live' = live \ gone /\ ended' = ended \cup gone
        /\ UNCHANGED <<running, socket, stop, forever>>
    <3>1. CASE ResyncRejected
      <4>1. PICK l \in live : live' = live \ {l} /\ ended' = ended \cup {l}
        BY <3>1 DEF ResyncRejected
      <4>2. {l} \in SUBSET live OBVIOUS
      <4> QED BY <3>1, <4>1, <4>2 DEF ResyncRejected
    <3>2. CASE Resubscribed BY <3>2 DEF Resubscribed
    <3> QED BY <1>3, <3>1, <3>2
  <2> QED BY <2>1, LoopTopZombie
<1>4. ASSUME Frame \/ GapFound \/ ReconnectLocked \/ ReconnectOpened \/ ConnectionLost
      PROVE  ZombieInv'
  <2>1. /\ loop' \notin {"teardown"} /\ (loop' = "resync" => "gap" \in Events)
        /\ loop # "teardown" /\ (socket' = socket \/ socket' = "open")
        /\ UNCHANGED <<running, sub, live, ended, stop, forever>>
    BY <1>4 DEF Frame, GapFound, Disturb, ReconnectLocked, ReconnectOpened, ConnectionLost, streams
  <2> QED BY <2>1 DEF ZombieInv
<1>5. ASSUME FrameOverflow \/ FrameCrash \/ ResyncLost \/ ClosedForGood \/ ReconnectFailed
      PROVE  ZombieInv'
  <2>1. /\ BroadcastSentinels /\ live' = live /\ loop' \in {"teardown", "done"}
        /\ running' = running \/ running' = FALSE
        /\ socket' = socket \/ (socket' = "closed" /\ ~running')
        /\ UNCHANGED <<sub, stop, forever>>
    BY <1>5 DEF FrameOverflow, FrameCrash, ResyncLost, ClosedForGood, ReconnectFailed, handshake
  <2>2. ~running'
    <3>1. CASE FrameOverflow \/ ReconnectFailed BY <3>1 DEF FrameOverflow, ReconnectFailed
    <3>2. CASE FrameCrash \/ ClosedForGood
      BY <3>2 DEF FrameCrash, Disturb, ClosedForGood, LoopMayDie, ZombieInv
    <3>3. CASE ResyncLost
      <4>1. loop = "resync" /\ socket # "open" /\ running' = running BY <3>3 DEF ResyncLost
      <4>2. "drop" \notin Events BY <4>1 DEF ZombieInv, LoopMayDie
      <4> QED BY <4>1, <4>2 DEF ZombieInv
    <3> QED BY <1>5, <3>1, <3>2, <3>3
  <2>3. ended' \subseteq live \cup ended BY <2>1 DEF BroadcastSentinels
  <2> QED BY <2>1, <2>2, <2>3 DEF ZombieInv
<1>6. ASSUME TeardownDone PROVE ZombieInv'
  <2>1. /\ loop = "teardown" /\ loop' = "done" /\ socket' = "closed" /\ sub' = WakePaused
        /\ UNCHANGED <<running, live, ended, stop, forever>>
    BY <1>6 DEF TeardownDone, streams
  <2>2. SubTyped /\ live \cup ended \subseteq Subscribers BY DEF IInv, TypeOK, Returned, SubTyped
  <2>3. \A s \in live' \cup ended' : sub'[s] = "returned"
    BY <2>1, <2>2 DEF ZombieInv, WakePaused, SubTyped
  <2> QED BY <2>1, <2>3 DEF ZombieInv
<1> QED
  BY <1>1, <1>2, <1>3, <1>4, <1>5, <1>6 DEF LoopStep, LoopFault

\* Every step of a user's task keeps it.
LEMMA UsersZombie ==
    ASSUME IInv, ZombieInv,
           \/ \E s \in Subscribers : Subscribe(s) \/ Cancel(s)
           \/ \E u \in Unsubscribers : Unsubscribe(u)
    PROVE  ZombieInv'
<1> USE DEF Ending
<1>0. SubTyped /\ live \cup ended \subseteq Subscribers BY DEF IInv, TypeOK, Returned, SubTyped
<1>1. ASSUME NEW s \in Subscribers,
             \/ SubscribeInactive(s) \/ SubscribeAtOnce(s) \/ SubscribeQueued(s)
             \/ SubscribeLocked(s) \/ SubscribePaused(s) \/ CancelQueued(s) \/ CancelPausing(s)
      PROVE  ZombieInv'
  <2>1. /\ sub[s] # "returned"
        /\ \E out : sub' = [sub EXCEPT ![s] = out]
        /\ UNCHANGED <<running, socket, loop, live, ended, stop, forever>>
    BY <1>1, Zenon DEF SubscribeInactive, SubscribeAtOnce, SubscribeQueued, SubscribeLocked,
       SubscribePaused, CancelQueued, CancelPausing, PauseRecvLoop, streams
  <2>2. \A t \in live \cup ended : sub'[t] = sub[t]
    BY <1>0, <2>1 DEF ZombieInv, SubTyped
  <2> QED BY <2>1, <2>2 DEF ZombieInv
<1>2. ASSUME NEW s \in Subscribers, SubscribeAcked(s) \/ SubscribeFailed(s) \/ CancelAwaitingAck(s)
      PROVE  ZombieInv'
  <2>1. /\ sub[s] = "ack" /\ EnsureRecvLoop
        /\ \/ live' = live /\ \E out : sub' = [sub EXCEPT ![s] = out]
           \/ live' = live \cup {s} /\ sub' = [sub EXCEPT ![s] = "returned"]
        /\ UNCHANGED <<running, socket, ended, stop, forever>>
    BY <1>2 DEF SubscribeAcked, SubscribeFailed, CancelAwaitingAck, streams
  <2>2. /\ s \notin live \cup ended
        /\ \A t \in live \cup ended : sub'[t] = sub[t]
    BY <1>0, <2>1 DEF ZombieInv, SubTyped
  <2>3. s \in live' => sub'[s] = "returned" BY <1>0, <2>1, <2>2 DEF SubTyped
  <2>4. loop' = loop \/ loop' \in {"resumed", "starting"}
    BY <2>1 DEF EnsureRecvLoop, WakeParked
  <2> QED BY <2>1, <2>2, <2>3, <2>4 DEF ZombieInv
<1>3. ASSUME NEW u \in Unsubscribers, Unsubscribe(u) PROVE ZombieInv'
  <2>1. /\ \E gone \in SUBSET live : live' = live \ gone /\ ended' = ended \cup gone
        /\ UNCHANGED <<running, socket, loop, sub, stop, forever>>
    <3>1. CASE UnsubscribeAcked(u)
      <4>1. PICK l \in live : live' = live \ {l} /\ ended' = ended \cup {l}
        BY <3>1 DEF UnsubscribeAcked
      <4>2. {l} \in SUBSET live OBVIOUS
      <4> QED BY <3>1, <4>1, <4>2 DEF UnsubscribeAcked
    <3>2. CASE UnsubscribeNothing(u) \/ UnsubscribeSend(u) \/ UnsubscribeFailed(u)
      <4>1. live' = live \ {} /\ ended' = ended \cup {} /\ {} \in SUBSET live
        BY <3>2 DEF UnsubscribeNothing, UnsubscribeSend, UnsubscribeFailed, streams
      <4> QED BY <3>2, <4>1 DEF UnsubscribeNothing, UnsubscribeSend, UnsubscribeFailed
    <3> QED BY <1>3, <3>1, <3>2 DEF Unsubscribe
  <2> QED BY <2>1 DEF ZombieInv
<1> QED
  BY <1>1, <1>2, <1>3 DEF Subscribe, Cancel

\* Every step of the network and of the shutdown keeps it.
LEMMA ShutdownZombie ==
    ASSUME ~LoopMayDie, IInv, ZombieInv, Drop \/ StopBegin \/ ForeverBegin \/ Stopping
    PROVE  ZombieInv'
<1> USE DEF Ending
<1>1. ASSUME Drop PROVE ZombieInv'
  <2>1. /\ "drop" \in Events \/ "refuse" \in Events
        /\ socket' = "lost" \/ (socket' = "refused" /\ "refuse" \in Events)
        /\ UNCHANGED <<running, sub, loop, live, ended, stop, forever>>
    BY <1>1 DEF Drop, Disturb, streams
  <2> QED BY <2>1 DEF ZombieInv, LoopMayDie
<1>2. ASSUME StopBegin \/ ForeverBegin PROVE ZombieInv'
  <2>1. /\ ~running' /\ (loop' = loop \/ loop' = "resumed")
        /\ UNCHANGED <<socket, sub, live, ended>>
    BY <1>2 DEF StopBegin, ForeverBegin, WakeParked, streams
  <2> QED BY <2>1 DEF ZombieInv
<1>3. ASSUME Stopping PROVE ZombieInv'
  <2>1. /\ Ending /\ Ending' /\ running' = running /\ sub' = sub /\ live' = live
        /\ loop' = loop \/ loop' \in {"done", "none"}
        /\ socket' = socket \/ socket' = "closed"
        /\ ended' = ended \/ BroadcastSentinels
    BY <1>3 DEF Stopping, StopClose, StopCancel, StopDone, ForeverClose, ForeverDone, handshake,
                streams
  <2>2. ended' \subseteq live \cup ended BY <2>1 DEF BroadcastSentinels
  <2> QED BY <2>1, <2>2 DEF ZombieInv
<1> QED
  BY <1>1, <1>2, <1>3

(* Where the loop of a running session cannot die, a session that delivers  *)
(* frames never holds a subscription whose queue is closed (#315, #332),    *)
(* even with tasks that unsubscribe on their own.                           *)
THEOREM NobodyDeadIsServed ==
    ASSUME ~LoopMayDie
    PROVE  Spec => []NoZombie
<1>1. Init => ZombieInv
  BY DEF Init, ZombieInv, Ending
<1>2. IInv /\ ZombieInv /\ [Next]_vars => ZombieInv'
  <2> SUFFICES ASSUME IInv, ZombieInv, [Next]_vars PROVE ZombieInv' OBVIOUS
  <2>1. CASE UNCHANGED vars BY <2>1 DEF vars, streams, ZombieInv, Ending
  <2>2. CASE Next BY <2>2, UsersZombie, LoopZombie, ShutdownZombie DEF Next
  <2> QED BY <2>1, <2>2
<1>3. ZombieInv => NoZombie BY DEF ZombieInv, NoZombie
<1> QED
  BY <1>1, <1>2, <1>3, InvariantHolds, PTL DEF Spec

=============================================================================
