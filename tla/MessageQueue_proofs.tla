------------------------ MODULE MessageQueue_proofs ------------------------
(***************************************************************************)
(* Theorems about MessageQueue, for every size, overflow strategy, set of  *)
(* consumers and number of puts.                                           *)
(***************************************************************************)
EXTENDS MessageQueue, SequenceTheorems, TLAPS

Items == Messages \cup Terminals

\* The buffer is a run of at most maxsize messages; the terminal, and nothing
\* else, follows them from the close until a consumer takes it.
Shape ==
    /\ Len(buffer) <= MaxSize + 1
    /\ ~closed => Len(buffer) <= MaxSize
    /\ ~closed => \A i \in 1..Len(buffer) : buffer[i] \notin Terminals
    /\ closed => \A i \in 1..Len(buffer) :
                    buffer[i] \in Terminals <=> i = Len(buffer)
    /\ closed /\ Ended = {} => buffer # <<>>
    /\ Ended # {} => closed /\ buffer = <<>>

\* The inductive invariant.
IInv == TypeOK /\ Shape /\ NoLostWakeup /\ EndsOnce

\* A message is not a terminal.
LEMMA KindsDiffer ==
    /\ Messages \cap Terminals = {}
    /\ \A x \in Items : x.kind = "message" <=> x \in Messages
    /\ \A k \in Nat \ {0} : Message(k) \in Messages /\ Message(k).n = k
BY DEF Messages, Terminals, Items, Message, Sentinel, ErrorSentinel

\* Within the bound Push evicts nothing.
LEMMA PushAppends ==
    ASSUME NEW b \in Seq(Items), NEW x \in Items, Len(b) <= MaxSize
    PROVE  /\ Push(b, x) \in Seq(Items)
           /\ Len(Push(b, x)) = Len(b) + 1
           /\ \A i \in 1..Len(b) : Push(b, x)[i] = b[i]
           /\ Push(b, x)[Len(b) + 1] = x
<1>1. Push(b, x) = Append(b, x)
  BY SizeAssumption DEF Push
<1> QED
  BY <1>1, AppendProperties

\* Event.set leaves no waiter, and ends nobody's iteration.
LEMMA WakeProperties ==
    ASSUME TypeOK
    PROVE  /\ Wake(consumer) \in [Consumers -> Polling \cup {"waiting"} \cup Outcomes]
           /\ \A c \in Consumers : Wake(consumer)[c] # "waiting"
           /\ \A c \in Consumers : Wake(consumer)[c] \in Outcomes
                                       <=> consumer[c] \in Outcomes
BY DEF TypeOK, Wake, Polling, Outcomes

\* Storing message k in an open queue with room for it keeps the invariant.
LEMMA StoreKeepsIInv ==
    ASSUME IInv, ~closed, UNCHANGED <<overflow, closed, delivered>>,
           puts' = puts + 1,
           NEW b \in Seq(Items), Len(b) < MaxSize,
           \A i \in 1..Len(b) : b[i] \notin Terminals,
           Store(b)
    PROVE  IInv'
<1> USE DEF IInv, Store
<1>1. puts' \in Nat /\ Message(puts') \in Items /\ Message(puts') \notin Terminals
  BY KindsDiffer DEF TypeOK, Items
<1>2. /\ buffer' \in Seq(Items)
      /\ Len(buffer') = Len(b) + 1
      /\ \A i \in 1..Len(b) : buffer'[i] = b[i]
      /\ buffer'[Len(b) + 1] = Message(puts')
  BY <1>1, PushAppends, SizeAssumption
<1>3. /\ consumer' \in [Consumers -> Polling \cup {"waiting"} \cup Outcomes]
      /\ \A c \in Consumers : consumer'[c] # "waiting"
      /\ \A c \in Consumers : consumer'[c] \in Outcomes <=> consumer[c] \in Outcomes
  BY WakeProperties
<1>4. Ended' = Ended
  BY <1>3 DEF Ended
<1>5. TypeOK'
  BY <1>1, <1>2, <1>3, AppendProperties DEF TypeOK, Items
<1>6. Shape'
  <2>1. Len(buffer') <= MaxSize
    BY <1>2, SizeAssumption
  <2>2. \A i \in 1..Len(buffer') : buffer'[i] \notin Terminals
    BY <1>1, <1>2
  <2>3. Ended' = {}
    BY <1>4 DEF Shape
  <2> QED
    BY <2>1, <2>2, <2>3, <1>2, SizeAssumption DEF Shape
<1>7. NoLostWakeup'
  BY <1>3 DEF NoLostWakeup
<1>8. EndsOnce'
  BY <1>4 DEF EndsOnce
<1> QED
  BY <1>5, <1>6, <1>7, <1>8

\* Taking the head of a filled buffer.
LEMMA TailProperties ==
    ASSUME IInv, buffer # <<>>
    PROVE  /\ Tail(buffer) \in Seq(Items) /\ Head(buffer) \in Items
           /\ Len(Tail(buffer)) = Len(buffer) - 1 /\ Len(buffer) \in Nat \ {0}
           /\ Head(buffer) = buffer[1]
           /\ \A i \in 1..Len(Tail(buffer)) : Tail(buffer)[i] = buffer[i + 1]
BY HeadTailProperties DEF IInv, TypeOK, Items

\* The invariant holds at the start ...
LEMMA InitIInv == Init => IInv
<1> SUFFICES ASSUME Init PROVE IInv
  OBVIOUS
<1> USE SizeAssumption DEF Init
<1>1. TypeOK
  <2>1. closed \in BOOLEAN
    BY Zenon
  <2>2. <<>> \in Seq(Messages \cup Terminals) /\ <<>> \in Seq(Nat \ {0})
    BY EmptySeq
  <2>3. consumer \in [Consumers -> Polling \cup {"waiting"} \cup Outcomes]
    BY DEF Polling
  <2> QED
    BY <2>1, <2>2, <2>3, Zenon, SMT DEF TypeOK
<1>2. Ended = {}
  BY DEF Ended, Outcomes
<1>3. Shape /\ NoLostWakeup /\ EndsOnce
  BY <1>2 DEF Shape, NoLostWakeup, EndsOnce
<1> QED
  BY <1>1, <1>3 DEF IInv

\* ... and every step keeps it.
LEMMA NextIInv == IInv /\ [Next]_vars => IInv'
<1> SUFFICES ASSUME IInv, [Next]_vars PROVE IInv'
  OBVIOUS
<1>1. CASE PutRoom
  <2>1. buffer \in Seq(Items) /\ \A i \in 1..Len(buffer) : buffer[i] \notin Terminals
    BY <1>1 DEF PutRoom, IInv, TypeOK, Shape, Items
  <2> QED
    BY <1>1, <2>1, StoreKeepsIInv DEF PutRoom, PutCall
<1>2. CASE PutDisplacing
  <2>1. buffer # <<>>
    BY <1>2, SizeAssumption DEF PutDisplacing, IInv, TypeOK
  <2>2. /\ Tail(buffer) \in Seq(Items)
        /\ Len(Tail(buffer)) = Len(buffer) - 1 /\ Len(buffer) \in Nat \ {0}
        /\ \A i \in 1..Len(Tail(buffer)) : Tail(buffer)[i] = buffer[i + 1]
    BY <2>1, TailProperties
  <2>3. \A i \in 1..Len(Tail(buffer)) : Tail(buffer)[i] \notin Terminals
    <3>1. \A i \in 1..Len(buffer) : buffer[i] \notin Terminals
      BY <1>2, Zenon DEF PutDisplacing, IInv, Shape
    <3> QED
      BY <2>2, <3>1
  <2>4. Len(Tail(buffer)) < MaxSize
    <3>1. Len(buffer) <= MaxSize
      BY <1>2, Zenon DEF PutDisplacing, IInv, Shape
    <3> QED
      BY <2>2, <3>1, SizeAssumption
  <2> QED
    BY <1>2, <2>2, <2>3, <2>4, StoreKeepsIInv DEF PutDisplacing, PutCall
<1>3. CASE PutIgnored
  BY <1>3 DEF PutIgnored, PutCall, IInv, TypeOK, Shape, NoLostWakeup, EndsOnce, Ended
<1>4. CASE PutTerminal
  <2>1. PICK t \in Terminals : buffer' = Push(buffer, t)
    BY <1>4 DEF PutTerminal
  <2>2. buffer \in Seq(Items) /\ Len(buffer) <= MaxSize /\ t \in Items /\ Ended = {}
    BY <1>4 DEF PutTerminal, IInv, TypeOK, Shape, Items
  <2>3. /\ buffer' \in Seq(Items)
        /\ Len(buffer') = Len(buffer) + 1
        /\ \A i \in 1..Len(buffer) : buffer'[i] = buffer[i]
        /\ buffer'[Len(buffer) + 1] = t
    BY <2>1, <2>2, PushAppends
  <2>4. /\ consumer' \in [Consumers -> Polling \cup {"waiting"} \cup Outcomes]
        /\ \A c \in Consumers : consumer'[c] # "waiting"
        /\ Ended' = {}
    BY <1>4, <2>2, WakeProperties DEF PutTerminal, IInv, Ended
  <2>5. TypeOK'
    BY <1>4, <2>3, <2>4 DEF PutTerminal, IInv, TypeOK, Items
  <2>6. Shape'
    <3>1. \A i \in 1..Len(buffer') : buffer'[i] \in Terminals <=> i = Len(buffer')
      BY <1>4, <2>2, <2>3 DEF PutTerminal, IInv, Shape
    <3> QED
      BY <1>4, <2>2, <2>3, <2>4, <3>1, SizeAssumption DEF PutTerminal, Shape
  <2>7. NoLostWakeup' /\ EndsOnce'
    BY <2>4 DEF NoLostWakeup, EndsOnce
  <2> QED
    BY <2>5, <2>6, <2>7 DEF IInv
<1>5. ASSUME NEW c \in Consumers, Wait(c) PROVE IInv'
  <2>1. Ended' = Ended
    BY <1>5 DEF Wait, Ended, IInv, TypeOK, Polling, Outcomes
  <2> QED
    BY <1>5, <2>1 DEF Wait, IInv, TypeOK, Shape, NoLostWakeup, EndsOnce, Polling, Outcomes
<1>6. ASSUME NEW c \in Consumers, TakeMessage(c) PROVE IInv'
  <2>1. /\ buffer' \in Seq(Items) /\ Head(buffer) \in Messages
        /\ Len(buffer') = Len(buffer) - 1 /\ Len(buffer) \in Nat \ {0}
        /\ Head(buffer) = buffer[1]
        /\ \A i \in 1..Len(buffer') : buffer'[i] = buffer[i + 1]
    BY <1>6, TailProperties, KindsDiffer DEF TakeMessage
  <2>2. Ended' = Ended /\ Ended = {}
    BY <1>6 DEF TakeMessage, Ended, IInv, TypeOK, Shape, Polling, Outcomes
  <2>3. TypeOK'
    <3>1. Head(buffer).n \in Nat \ {0}
      BY <2>1 DEF Messages
    <3>2. delivered' \in Seq(Nat \ {0})
      BY <1>6, <3>1, AppendProperties DEF TakeMessage, IInv, TypeOK
    <3> QED
      BY <1>6, <2>1, <3>2 DEF TakeMessage, IInv, TypeOK, Items, Polling
  <2>4. Shape'
    <3>1. closed => Len(buffer) # 1
      BY <2>1, KindsDiffer DEF IInv, Shape
    <3>2. /\ ~closed => \A i \in 1..Len(buffer') : buffer'[i] \notin Terminals
          /\ closed => \A i \in 1..Len(buffer') :
                          buffer'[i] \in Terminals <=> i = Len(buffer')
      BY <2>1 DEF IInv, Shape
    <3>3. closed => buffer' # <<>>
      BY <2>1, <3>1
    <3>4. /\ Len(buffer') <= MaxSize + 1
          /\ ~closed => Len(buffer') <= MaxSize
      BY <2>1, SizeAssumption DEF IInv, Shape
    <3> QED
      BY <1>6, <2>2, <3>2, <3>3, <3>4, Zenon DEF TakeMessage, Shape
  <2>5. NoLostWakeup'
    BY <1>6, <2>1 DEF TakeMessage, IInv, TypeOK, NoLostWakeup
  <2>6. EndsOnce'
    BY <2>2 DEF EndsOnce
  <2> QED
    BY <2>3, <2>4, <2>5, <2>6 DEF IInv
<1>7. ASSUME NEW c \in Consumers, TakeTerminal(c) PROVE IInv'
  <2>1. /\ buffer' \in Seq(Items) /\ Head(buffer) \in Terminals
        /\ Len(buffer') = Len(buffer) - 1 /\ Len(buffer) \in Nat \ {0}
        /\ Head(buffer) = buffer[1]
    BY <1>7, TailProperties DEF TakeTerminal
  <2>2. closed /\ Len(buffer) = 1 /\ Ended = {}
    BY <2>1 DEF IInv, Shape
  <2>3. buffer' = <<>>
    BY <2>1, <2>2
  <2>4. Ended' = {c}
    BY <1>7, <2>2 DEF TakeTerminal, Ended, IInv, TypeOK, Outcomes
  <2>5. TypeOK'
    BY <1>7, <2>1 DEF TakeTerminal, IInv, TypeOK, Items, Outcomes
  <2>6. Shape'
    <3>1. closed' = TRUE /\ Len(buffer') = 0
      BY <1>7, <2>2, <2>3 DEF TakeTerminal, IInv, TypeOK
    <3> QED
      BY <2>3, <2>4, <3>1, SizeAssumption DEF Shape
  <2>7. NoLostWakeup' /\ EndsOnce'
    BY <2>3, <2>4 DEF NoLostWakeup, EndsOnce
  <2> QED
    BY <2>5, <2>6, <2>7 DEF IInv
<1>8. ASSUME NEW c \in Consumers, Cancel(c) PROVE IInv'
  <2>1. Ended' = Ended
    BY <1>8 DEF Cancel, Ended, IInv, TypeOK, Outcomes
  <2> QED
    BY <1>8, <2>1 DEF Cancel, IInv, TypeOK, Shape, NoLostWakeup, EndsOnce, Polling
<1>9. CASE UNCHANGED vars
  BY <1>9 DEF vars, IInv, TypeOK, Shape, NoLostWakeup, EndsOnce, Ended
<1> QED
  BY <1>1, <1>2, <1>3, <1>4, <1>5, <1>6, <1>7, <1>8, <1>9 DEF Next, Step

\* The invariant holds in every reachable state.
THEOREM InvariantHolds == Spec => []IInv
BY InitIInv, NextIInv, PTL DEF Spec

\* The values of the queue's state have their types.
THEOREM TypeCorrect == Spec => []TypeOK
BY InvariantHolds, PTL DEF IInv

\* No consumer sleeps on a filled queue, and one terminal ends one iteration.
THEOREM ConsumersServed == Spec => [](NoLostWakeup /\ EndsOnce)
BY InvariantHolds, PTL DEF IInv

\* What TerminalLast says follows from the shape of the buffer.
LEMMA ShapeImpliesTerminalLast == IInv => TerminalLast
<1> SUFFICES ASSUME IInv PROVE TerminalLast
  OBVIOUS
<1>1. Len(buffer) \in Nat /\ DOMAIN buffer = 1..Len(buffer)
      /\ (buffer = <<>> <=> Len(buffer) = 0) /\ closed \in BOOLEAN
  BY DEF IInv, TypeOK
<1>2. CASE closed /\ Ended = {}
  <2>1. QSize = Len(buffer) - 1 /\ Len(buffer) <= MaxSize + 1
    BY <1>1, <1>2 DEF IInv, Shape, QSize
  <2>2. \A i \in 1..Len(buffer) : buffer[i] \in Terminals <=> i = Len(buffer)
    BY <1>2, Zenon DEF IInv, Shape
  <2>3. \A i \in 1..Len(buffer) : buffer[i] \in Terminals <=> i > QSize
    <3>1. \A i \in 1..Len(buffer) : i = Len(buffer) <=> i > QSize
      <4>1. Len(buffer) \in Nat /\ QSize = Len(buffer) - 1
        BY <1>1, <2>1, Zenon
      <4> QED
        BY <4>1
    <3> QED
      BY <2>2, <3>1, Zenon
  <2> QED
    BY <1>1, <1>2, <2>1, <2>3, SizeAssumption DEF TerminalLast
<1>3. CASE closed /\ Ended # {}
  <2>1. QSize = 0 /\ Len(buffer) = 0
    BY <1>1, <1>3 DEF IInv, Shape, QSize
  <2> QED
    BY <1>1, <1>3, <2>1, SizeAssumption DEF IInv, Shape, TerminalLast
<1>4. CASE ~closed
  <2>1. QSize = Len(buffer) /\ Len(buffer) <= MaxSize
    BY <1>1, <1>4, SizeAssumption DEF IInv, Shape, QSize
  <2>2. \A i \in 1..Len(buffer) : buffer[i] \notin Terminals
    BY <1>4, Zenon DEF IInv, Shape
  <2>3. \A i \in 1..Len(buffer) : buffer[i] \in Terminals <=> i > QSize
    <3>1. \A i \in 1..Len(buffer) : ~(i > QSize)
      BY <1>1, <2>1
    <3> QED
      BY <2>2, <3>1, Zenon
  <2> QED
    BY <1>1, <1>4, <2>1, <2>3 DEF TerminalLast
<1> QED
  BY <1>2, <1>3, <1>4

\* At most maxsize messages wait, with the terminal behind them.
THEOREM TerminalAlwaysLast == Spec => []TerminalLast
BY InvariantHolds, ShapeImpliesTerminalLast, PTL

-----------------------------------------------------------------------------
(* The queue implements BoundedStream.                                     *)

\* The backlog is a sequence of message numbers, one for each message that
\* waits, and the buffer holds nothing else beside the terminal.
Backlog ==
    /\ QSize \in Nat /\ Len(buffer) \in Nat
    /\ Waiting \in Seq(Nat) /\ Len(Waiting) = QSize
    /\ \A i \in 1..QSize : Waiting[i] = buffer[i].n
    /\ closed /\ buffer # <<>> => QSize = Len(buffer) - 1
    /\ ~closed \/ buffer = <<>> => QSize = Len(buffer)

LEMMA BacklogHolds == IInv => Backlog
<1> SUFFICES ASSUME IInv PROVE Backlog
  OBVIOUS
<1>1. /\ Len(buffer) \in Nat /\ closed \in BOOLEAN
      /\ buffer # <<>> => Len(buffer) > 0
      /\ buffer = <<>> => Len(buffer) = 0
  BY DEF IInv, TypeOK
<1>2. /\ closed /\ buffer # <<>> => QSize = Len(buffer) - 1
      /\ ~closed \/ buffer = <<>> => QSize = Len(buffer)
  BY <1>1, Zenon DEF QSize
<1>3. QSize \in Nat /\ QSize <= Len(buffer)
  BY <1>1, <1>2
<1>4. \A i \in 1..QSize : buffer[i].n \in Nat
  <2>1. \A i \in 1..Len(buffer) : buffer[i] \in Items
    BY DEF IInv, TypeOK, Items
  <2>2. \A x \in Items : x.n \in Nat
    BY DEF Items, Messages, Terminals, Sentinel, ErrorSentinel
  <2>3. \A i \in 1..QSize : i \in 1..Len(buffer)
    BY <1>1, <1>3
  <2> QED
    BY <2>1, <2>2, <2>3
<1>5. Waiting \in [1..QSize -> Nat]
  BY <1>4 DEF Waiting
<1>6. Waiting \in Seq(Nat) /\ Len(Waiting) = QSize
  BY <1>3, <1>5
<1>7. \A i \in 1..QSize : Waiting[i] = buffer[i].n
  BY DEF Waiting
<1> QED
  BY <1>1, <1>2, <1>3, <1>6, <1>7 DEF Backlog

\* Two sequences of numbers with the same entries are the same.
LEMMA SameSeq ==
    ASSUME NEW s \in Seq(Nat), NEW t \in Seq(Nat), Len(s) = Len(t),
           \A i \in 1..Len(s) : s[i] = t[i]
    PROVE  s = t
BY SeqEqual

\* A message stored behind b is the new last one of the backlog.
LEMMA StoreAppends ==
    ASSUME Backlog', ~closed',
           NEW b \in Seq(Items), Len(b) < MaxSize, puts' \in Nat \ {0},
           Store(b),
           NEW w \in Seq(Nat), Len(w) = Len(b),
           \A i \in 1..Len(b) : w[i] = b[i].n
    PROVE  Waiting' = Append(w, puts')
<1>1. Message(puts') \in Items /\ Message(puts').n = puts'
  BY KindsDiffer DEF Items
<1>2. /\ Len(buffer') = Len(b) + 1
      /\ \A i \in 1..Len(b) : buffer'[i] = b[i]
      /\ buffer'[Len(b) + 1] = Message(puts')
  <2>1. Len(b) <= MaxSize
    BY SizeAssumption
  <2>2. buffer' = Push(b, Message(puts'))
    BY Zenon DEF Store
  <2> QED
    BY <1>1, <2>1, <2>2, PushAppends, Zenon
<1>3. /\ QSize' = Len(buffer') /\ Waiting' \in Seq(Nat) /\ Len(Waiting') = QSize'
      /\ \A i \in 1..QSize' : Waiting'[i] = buffer'[i].n
  BY Zenon DEF Backlog
<1>4. /\ Append(w, puts') \in Seq(Nat)
      /\ Len(Append(w, puts')) = Len(b) + 1
      /\ \A i \in 1..Len(b) : Append(w, puts')[i] = b[i].n
      /\ Append(w, puts')[Len(b) + 1] = puts'
  <2>1. \A v \in Nat : /\ Append(w, v) \in Seq(Nat)
                        /\ Len(Append(w, v)) = Len(b) + 1
                        /\ \A i \in 1..Len(b) : Append(w, v)[i] = b[i].n
                        /\ Append(w, v)[Len(b) + 1] = v
    BY AppendProperties
  <2> QED
    BY <2>1
<1>5. \A i \in 1..Len(Waiting') : Waiting'[i] = Append(w, puts')[i]
  <2> SUFFICES ASSUME NEW i \in 1..Len(Waiting') PROVE Waiting'[i] = Append(w, puts')[i]
    OBVIOUS
  <2>1. i \in 1..(Len(b) + 1) /\ Waiting'[i] = buffer'[i].n
    BY <1>2, <1>3
  <2>2. CASE i \in 1..Len(b)
    BY <2>1, <2>2, <1>2, <1>4
  <2>3. CASE i = Len(b) + 1
    BY <2>1, <2>3, <1>1, <1>2, <1>4
  <2> QED
    BY <2>1, <2>2, <2>3
<1> QED
  BY <1>2, <1>3, <1>4, <1>5, SameSeq

\* Every step of the queue is a step of the stream, or leaves it alone.
LEMMA NextImplements ==
    ASSUME IInv, Backlog, Backlog', [Next]_vars
    PROVE  [Stream!Next]_(Stream!streamVars)
<1>1. CASE PutRoom
  <2>1. Waiting' = Append(Waiting, puts')
    <3>1. buffer \in Seq(Items) /\ puts' \in Nat \ {0}
      BY <1>1 DEF PutRoom, PutCall, IInv, TypeOK, Items
    <3> QED
      BY <1>1, <3>1, StoreAppends DEF PutRoom, Backlog
  <2>2. puts' \in 1..MaxPuts /\ Len(Waiting) < MaxSize
    BY <1>1, PutsAssumption DEF PutRoom, PutCall, IInv, TypeOK, Backlog
  <2>3. Stream!Accept
    BY <1>1, <2>1, <2>2, Zenon DEF PutRoom, Stream!Accept, Lossy
  <2> QED
    BY <2>3 DEF Stream!Next
<1>2. CASE PutDisplacing
  <2>1. /\ ~closed /\ ~closed' /\ Lossy /\ UNCHANGED <<overflow, closed, delivered>>
        /\ Len(buffer) >= MaxSize /\ Store(Tail(buffer))
        /\ puts' \in Nat \ {0} /\ puts' \in 1..MaxPuts
    BY <1>2, PutsAssumption DEF PutDisplacing, PutCall, IInv, TypeOK
  <2>2. Len(buffer) = MaxSize /\ QSize = Len(buffer) /\ buffer # <<>>
    <3>1. Len(buffer) <= MaxSize /\ QSize = Len(buffer)
      BY <2>1, Zenon DEF IInv, Shape, Backlog
    <3> QED
      BY <2>1, <3>1, SizeAssumption DEF IInv, TypeOK
  <2>3. /\ Tail(buffer) \in Seq(Items) /\ Len(Tail(buffer)) = MaxSize - 1
        /\ \A i \in 1..Len(Tail(buffer)) : Tail(buffer)[i] = buffer[i + 1]
    BY <2>2, TailProperties
  <2>4. /\ Waiting \in Seq(Nat) /\ Len(Waiting) = MaxSize /\ Waiting # <<>>
        /\ \A i \in 1..MaxSize : Waiting[i] = buffer[i].n
    BY <2>2, SizeAssumption DEF Backlog
  <2>5. /\ Tail(Waiting) \in Seq(Nat) /\ Len(Tail(Waiting)) = MaxSize - 1
        /\ \A i \in 1..(MaxSize - 1) : Tail(Waiting)[i] = Waiting[i + 1]
    BY <2>4, SizeAssumption, HeadTailProperties
  <2>6. \A i \in 1..Len(Tail(buffer)) : Tail(Waiting)[i] = Tail(buffer)[i].n
    BY <2>3, <2>4, <2>5, SizeAssumption
  <2>7. Waiting' = Append(Tail(Waiting), puts')
    <3>1. Len(Tail(buffer)) < MaxSize /\ Len(Tail(Waiting)) = Len(Tail(buffer))
      BY <2>3, <2>5, SizeAssumption
    <3> QED
      BY <2>1, <2>3, <2>5, <2>6, <3>1, StoreAppends, Zenon
  <2>8. Stream!Displace
    BY <2>1, <2>4, <2>7, Zenon DEF Stream!Displace, Lossy
  <2> QED
    BY <2>8 DEF Stream!Next
<1>3. CASE PutTerminal
  <2>1. Waiting' = Waiting
    <3>1. PICK t \in Terminals : buffer' = Push(buffer, t)
      BY <1>3 DEF PutTerminal
    <3>2. buffer \in Seq(Items) /\ Len(buffer) <= MaxSize /\ t \in Items /\ ~closed /\ closed'
      BY <1>3 DEF PutTerminal, IInv, TypeOK, Shape, Items
    <3>3. /\ Len(buffer') = Len(buffer) + 1 /\ buffer' # <<>>
          /\ \A i \in 1..Len(buffer) : buffer'[i] = buffer[i]
      BY <3>1, <3>2, PushAppends
    <3>4. QSize = Len(buffer) /\ QSize' = Len(buffer') - 1
      BY <3>2, <3>3, Zenon DEF Backlog
    <3>5. /\ Waiting \in Seq(Nat) /\ Len(Waiting) = QSize
          /\ Waiting' \in Seq(Nat) /\ Len(Waiting') = QSize'
          /\ \A i \in 1..QSize : Waiting[i] = buffer[i].n
          /\ \A i \in 1..QSize' : Waiting'[i] = buffer'[i].n
          /\ Len(buffer) \in Nat
      BY Zenon DEF Backlog
    <3>6. QSize' = QSize
      BY <3>3, <3>4, <3>5
    <3>7. \A i \in 1..QSize : Waiting'[i] = Waiting[i]
      BY <3>3, <3>4, <3>5, <3>6, Zenon
    <3> QED
      BY <3>5, <3>6, <3>7, SameSeq, Zenon
  <2>2. /\ ~closed /\ closed' = TRUE /\ Ended' = {}
        /\ UNCHANGED <<overflow, delivered>>
    BY <1>3, WakeProperties DEF PutTerminal, IInv, Shape, Ended
  <2>3. Stream!Close
    BY <2>1, <2>2, Zenon DEF Stream!Close, Lossy
  <2> QED
    BY <2>3 DEF Stream!Next
<1>4. ASSUME NEW c \in Consumers, TakeMessage(c) PROVE Stream!Deliver
  <2>1. /\ Head(buffer) \in Messages /\ Head(buffer) = buffer[1]
        /\ Len(buffer') = Len(buffer) - 1 /\ Len(buffer) \in Nat \ {0}
        /\ \A i \in 1..Len(buffer') : buffer'[i] = buffer[i + 1]
    BY <1>4, TailProperties, KindsDiffer DEF TakeMessage
  <2>2. /\ UNCHANGED <<overflow, closed>> /\ buffer # <<>>
        /\ delivered' = Append(delivered, Head(buffer).n)
        /\ Ended' = Ended
    BY <1>4 DEF TakeMessage, Ended, IInv, TypeOK, Polling, Outcomes
  <2>3. QSize' = QSize - 1 /\ QSize \in Nat \ {0} /\ QSize <= Len(buffer)
    <3>1. closed => Len(buffer) # 1
      BY <2>1, KindsDiffer DEF IInv, Shape
    <3>2. closed => QSize = Len(buffer) - 1
      BY <2>2, Zenon DEF Backlog
    <3>3. ~closed => QSize = Len(buffer)
      BY Zenon DEF Backlog
    <3>4. closed /\ buffer' # <<>> => QSize' = Len(buffer') - 1
      BY <2>2, Zenon DEF Backlog
    <3>5. ~closed => QSize' = Len(buffer')
      BY <2>2, Zenon DEF Backlog
    <3>6. Len(buffer') > 0 => buffer' # <<>>
      OBVIOUS
    <3>7. CASE closed
      BY <2>1, <3>1, <3>2, <3>4, <3>6, <3>7
    <3>8. CASE ~closed
      BY <2>1, <3>3, <3>5, <3>8
    <3> QED
      BY <3>7, <3>8
  <2>4. /\ Waiting \in Seq(Nat) /\ Len(Waiting) = QSize
        /\ Waiting' \in Seq(Nat) /\ Len(Waiting') = QSize'
        /\ \A i \in 1..QSize : Waiting[i] = buffer[i].n
        /\ \A i \in 1..QSize' : Waiting'[i] = buffer'[i].n
        /\ QSize' <= Len(buffer')
    <3>1. QSize' <= Len(buffer')
      BY <2>1, <2>3
    <3> QED
      BY <3>1, Zenon DEF Backlog
  <2>5. Waiting # <<>> /\ Head(Waiting) = Waiting[1]
    BY <2>3, <2>4
  <2>6. /\ Tail(Waiting) \in Seq(Nat) /\ Len(Tail(Waiting)) = QSize - 1
        /\ \A i \in 1..(QSize - 1) : Tail(Waiting)[i] = Waiting[i + 1]
    BY <2>3, <2>4, <2>5, HeadTailProperties
  <2>7. \A i \in 1..Len(Waiting') : Waiting'[i] = Tail(Waiting)[i]
    <3> SUFFICES ASSUME NEW i \in 1..Len(Waiting') PROVE Waiting'[i] = Tail(Waiting)[i]
      OBVIOUS
    <3>1. i \in 1..QSize' /\ i \in 1..(QSize - 1)
      BY <2>3, <2>4
    <3>2. i \in 1..Len(buffer') /\ i + 1 \in 1..QSize
      BY <2>1, <2>3, <2>4, <3>1
    <3>3. Waiting'[i] = buffer'[i].n /\ Waiting[i + 1] = buffer[i + 1].n
      BY <2>4, <3>1, <3>2, Zenon
    <3> QED
      BY <2>1, <2>6, <3>1, <3>2, <3>3, Zenon
  <2>8. Waiting' = Tail(Waiting)
    BY <2>3, <2>4, <2>6, <2>7, SameSeq
  <2>9. delivered' = Append(delivered, Head(Waiting))
    BY <2>1, <2>2, <2>3, <2>4, <2>5
  <2> QED
    BY <2>2, <2>5, <2>8, <2>9, Zenon DEF Stream!Deliver, Lossy
<1>5. ASSUME NEW c \in Consumers, TakeTerminal(c) PROVE Stream!End
  <2>1. /\ Head(buffer) \in Terminals /\ Head(buffer) = buffer[1] /\ buffer # <<>>
        /\ Len(buffer') = Len(buffer) - 1 /\ Len(buffer) \in Nat \ {0}
    BY <1>5, TailProperties DEF TakeTerminal
  <2>2. closed /\ Len(buffer) = 1 /\ Ended = {}
    BY <2>1 DEF IInv, Shape
  <2>3. /\ Ended' # {} /\ closed' /\ UNCHANGED <<overflow, delivered>>
    BY <1>5, <2>2 DEF TakeTerminal, Ended, IInv, TypeOK, Outcomes
  <2>4. QSize = 0 /\ QSize' = 0
    <3>1. buffer' = <<>>
      BY <1>5, <2>1, <2>2, TailProperties DEF TakeTerminal
    <3>2. QSize = Len(buffer) - 1 /\ QSize' = Len(buffer')
      BY <2>1, <2>2, <3>1, Zenon DEF Backlog
    <3> QED
      BY <2>1, <2>2, <3>2
  <2>5. Waiting = <<>> /\ Waiting' = <<>>
    BY <2>4 DEF Backlog
  <2> QED
    BY <2>2, <2>3, <2>5, Zenon DEF Stream!End, Lossy
<1>6. CASE PutIgnored \/ (\E c \in Consumers : Wait(c) \/ Cancel(c)) \/ UNCHANGED vars
  <2>1. UNCHANGED <<overflow, buffer, closed, delivered>>
    BY <1>6 DEF PutIgnored, Wait, Cancel, vars
  <2>2. Ended' = Ended
    BY <1>6 DEF PutIgnored, Wait, Cancel, vars, Ended, IInv, TypeOK, Polling, Outcomes
  <2>3. Waiting' = Waiting
    BY <2>1 DEF Waiting, QSize
  <2> QED
    BY <2>1, <2>2, <2>3, Zenon DEF Stream!streamVars, Lossy
<1> QED
  BY <1>1, <1>2, <1>3, <1>4, <1>5, <1>6 DEF Next, Step, Stream!Next

\* The initial states are the stream's.
LEMMA InitImplements == Init => Stream!Init
<1> SUFFICES ASSUME Init PROVE Stream!Init
  OBVIOUS
<1>1. buffer = <<>> /\ delivered = <<>> /\ closed = FALSE
  BY Zenon DEF Init
<1>2. Waiting = <<>>
  BY <1>1 DEF Waiting, QSize
<1>3. Lossy \in BOOLEAN
  BY Zenon DEF Lossy
<1> QED
  BY <1>1, <1>2, <1>3, Zenon DEF Stream!Init

\* The queue implements the promise of BoundedStream.
THEOREM Implements == Spec => StreamSpec
<1>1. IInv /\ IInv' /\ [Next]_vars => [Stream!Next]_(Stream!streamVars)
  <2>1. IInv => Backlog
    BY BacklogHolds
  <2>2. IInv' => Backlog'
    BY <2>1, PTL
  <2> QED
    BY <2>1, <2>2, NextImplements
<1> QED
  BY <1>1, InitImplements, InvariantHolds, PTL DEF Spec, StreamSpec, Stream!Spec
=============================================================================
