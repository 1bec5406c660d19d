------------------------- MODULE FixSession_proofs -------------------------
(***************************************************************************)
(* Theorems about FixSession, for both kinds of session, any faults, any   *)
(* numbers of connections, attempts and messages: the types; the numbers   *)
(* of either side are never ahead of what the other has said; the client's *)
(* messages go out in order; an open session has its receive task; and the *)
(* refinement of OrderedDelivery.                                          *)
(*                                                                         *)
(* All of them rest on one invariant, FixInv, which says what a frame in   *)
(* transit, a frame set aside, the gateway's log and the watermark mean to *)
(* one another at each place the receive task can be at.                   *)
(***************************************************************************)
EXTENDS FixSession, TLAPS, FiniteSetTheorems, SequenceTheorems, WellFoundedInduction

\* The places of the receive task in a session that is logged on.
Sessioned == {"resume", "read", "deliver", "drain"}

\* What frame f says is true of a log, if n numbers were used upwards.
Tells(f, l, n) ==
    /\ f.seq \in 1..Len(l)
    /\ f.type = "app" => l[f.seq] # 0 /\ f.val = l[f.seq]
    /\ f.type # "app" => l[f.seq] = 0
    /\ f.type = "gapfill" => /\ f.val \in (f.seq + 1)..(Len(l) + 1)
                             /\ \A k \in f.seq..(f.val - 1) : l[k] = 0
    /\ f.type = "resend" => f.val \in 1..(n - 1)

Truthful(f) == Tells(f, log, outSeq)

\* What is settled at each place of the receive task.
Places ==
    /\ reader \in Sessioned => greeted /\ loggedOn
    /\ reader = "backoff" => loggedOn
    /\ reader = "greet" =>
           /\ ~greeted /\ down = <<>>
           /\ \A i \in DOMAIN up : up[i].type # "logon"
           /\ Resetting => inSeq = 1 /\ pending = {}
    /\ reader \in {"connect", "greet"} /\ ~loggedOn => ~greeted /\ made = 0 /\ fresh = 0
    /\ ~loggedOn => attempt = 0

\* One Logon at most is on its way up. Until it is answered nothing comes down,
\* and it does not ask for less than what the gateway already expects.
OneLogon ==
    /\ \A i, j \in DOMAIN up : up[i].type = "logon" /\ up[j].type = "logon" => i = j
    /\ ~greeted => \A i \in DOMAIN up : up[i].type = "logon" =>
           /\ down = <<>>
           /\ up[i].val = 1 => /\ inSeq = 1 /\ pending = {}
                               /\ retrans => ~loggedOn /\ made = 0 /\ fresh = 0
           /\ up[i].val # 1 => retrans /\ up[i].val = 0 /\ expected <= up[i].seq

\* What comes down on a session that was greeted is true of the log.
DownHonest ==
    /\ greeted => \A i \in DOMAIN down : Truthful(down[i])
    /\ \A i \in DOMAIN down : down[i].type = "logon" => greeted

\* What is set aside is true of the log, once for each number, and ahead of its turn.
PendingHonest ==
    /\ \A f \in pending : Truthful(f)
    /\ \A f, g \in pending : f.seq = g.seq => f = g
    /\ reader = "drain" => \A f \in pending : f.seq >= inSeq
    /\ reader \notin {"drain", "giveup", "done", "raised"} => \A f \in pending : f.seq > inSeq
    /\ reader = "logon" => \A i \in DOMAIN down, f \in pending :
                               down[i].type = "logon" => f.seq < down[i].seq

\* What goes up is numbered in order, between what the gateway expects and outSeq.
UpHonest ==
    /\ \A i \in DOMAIN up :
           /\ up[i].type # "gapfill" => up[i].seq \in 1..(outSeq - 1)
           /\ up[i].type = "gapfill" => up[i].val <= outSeq
           /\ up[i].type = "resend" => up[i].val >= 1
    /\ \A i, j \in DOMAIN up :
           i < j /\ up[j].type # "gapfill" =>
               IF up[i].type = "gapfill" THEN up[i].val <= up[j].seq ELSE up[i].seq < up[j].seq
    /\ greeted => \A i \in DOMAIN up : up[i].type # "gapfill" => up[i].seq >= expected
    /\ greeted \/ (retrans /\ loggedOn) => expected <= outSeq
    /\ expected >= 1

\* The gateway's log, in terms of the messages made.
LogHonest ==
    /\ fresh <= made
    /\ \A n \in DOMAIN log : log[n] # 0 => log[n] \in (fresh + 1)..made
    /\ \A m, n \in DOMAIN log : m < n /\ log[m] # 0 /\ log[n] # 0 => log[m] < log[n]
    /\ \A v \in (fresh + 1)..made : \E n \in DOMAIN log : log[n] = v

\* What was handed over is what the log holds below the watermark.
Watermark ==
    /\ inSeq <= NextSeq
    /\ last <= made
    /\ reader \notin {"deliver", "giveup", "done", "raised"} /\ (greeted \/ retrans) =>
           \A n \in DOMAIN log : log[n] # 0 => (log[n] <= last <=> n < inSeq)
    /\ reader = "deliver" =>
           /\ inSeq <= Len(log) /\ log[inSeq] = last /\ last # 0
           /\ \A n \in DOMAIN log : log[n] # 0 => (log[n] <= last <=> n <= inSeq)

\* A session that stopped running without close() is closed, and its task ends. So is
\* one that gives up; one whose task an exception ended was not active any more.
Stopped ==
    closing = "no" =>
        /\ ~running => state = "closed" /\ reader \in {"deliver", "drain", "done"}
        /\ reader = "done" => ~running
        /\ reader = "giveup" => state = "closed"
        /\ reader = "raised" => state \in {"reconnecting", "closed"}

\* The inductive invariant, but for NoLink (below), which one action needs.
FixInv ==
    /\ TypeOK /\ Places /\ OneLogon /\ DownHonest /\ PendingHonest /\ UpHonest
    /\ LogHonest /\ Watermark /\ Stopped

-----------------------------------------------------------------------------
\* Every set of numbers that is not empty has a least member.
LEMMA LeastMember ==
    ASSUME NEW S \in SUBSET Nat, S # {}
    PROVE  \E m \in S : \A n \in S : m <= n
<1>1. IsWellFoundedOn(OpToRel(<, Nat), Nat) BY NatLessThanWellFounded
<1>2. PICK m \in S : \A n \in S : ~(<<n, m>> \in OpToRel(<, Nat))
  BY <1>1, WFMin, Zenon
<1>3. ASSUME NEW n \in S PROVE ~(n < m)
  BY <1>2, <1>3, Zenon DEF OpToRel
<1> QED BY <1>3

\* The members of a set of numbers up to a bound can be counted off in order.
LEMMA Ranks ==
    ASSUME NEW Q \in SUBSET Nat, IsFiniteSet(Q), NEW i \in 1..Cardinality(Q)
    PROVE  \E q \in Q : Cardinality({p \in Q : p <= q}) = i
<1> DEFINE Upto(q) == {p \in Q : p <= q}
           Missing == {j \in 1..Cardinality(Q) : \A q \in Q : Cardinality(Upto(q)) # j}
<1>0. Cardinality(Q) \in Nat BY FS_CardinalityType
<1>1. SUFFICES Missing = {} OBVIOUS
<1>2. SUFFICES ASSUME Missing # {} PROVE FALSE OBVIOUS
<1>3. PICK j \in Missing : \A k \in Missing : j <= k
  <2>1. Missing \in SUBSET Nat BY <1>0
  <2> QED BY <1>2, <2>1, LeastMember
<1>4. j \in 1..Cardinality(Q) /\ \A q \in Q : Cardinality(Upto(q)) # j OBVIOUS
<1>5. \A q : IsFiniteSet(Upto(q)) /\ Cardinality(Upto(q)) \in Nat /\ Upto(q) \in SUBSET Q
  BY FS_Subset, FS_CardinalityType
<1>6. CASE j = 1
  <2>1. Q # {} BY <1>0, <1>4, FS_EmptySet
  <2>2. PICK q \in Q : \A p \in Q : q <= p BY <2>1, LeastMember
  <2>3. Upto(q) = {q}
    <3>1. ASSUME NEW p \in Q, p <= q PROVE p = q BY <2>2, <3>1
    <3>2. q <= q OBVIOUS
    <3> QED BY <3>1, <3>2
  <2>4. Cardinality({q}) = 1 BY FS_Singleton, Zenon
  <2>5. Cardinality(Upto(q)) = 1 BY <2>3, <2>4
  <2> QED BY <2>5, <1>4, <1>6
<1>7. CASE j # 1
  <2>1. j - 1 \in 1..Cardinality(Q) /\ ~(j <= j - 1) BY <1>0, <1>4, <1>7
  <2>2. j - 1 \notin Missing BY <1>3, <2>1
  <2>3. PICK q \in Q : Cardinality(Upto(q)) = j - 1 BY <2>1, <2>2
  <2> DEFINE Above == {p \in Q : p > q}
  <2>4. Above # {}
    <3>1. SUFFICES ASSUME Above = {} PROVE FALSE OBVIOUS
    <3>2. \A p \in Q : p <= q BY <3>1
    <3>3. Upto(q) = Q BY <3>2
    <3> QED BY <3>3, <2>3, <1>0, <1>4
  <2>5. PICK r \in Above : \A p \in Above : r <= p
    <3>1. Above \in SUBSET Nat OBVIOUS
    <3> QED BY <2>4, <3>1, LeastMember
  <2>6. Upto(r) = Upto(q) \cup {r}
    <3>1. ASSUME NEW p \in Q, p <= r PROVE p <= q \/ p = r BY <2>5, <3>1
    <3>2. q <= r BY <2>5
    <3>3. ASSUME NEW p \in Q, p <= q PROVE p <= r BY <3>2, <3>3
    <3> QED BY <3>1, <3>3, <2>5
  <2>7. r \notin Upto(q) OBVIOUS
  <2>8. Cardinality(Upto(r)) = Cardinality(Upto(q)) + 1
    <3> HIDE DEF Upto
    <3> QED BY <1>5, <2>6, <2>7, FS_AddElement
  <2>9. Cardinality(Upto(r)) = j BY <2>8, <2>3, <1>0, <1>4
  <2> QED BY <2>9, <1>4, <2>5
<1> QED BY <1>6, <1>7

-----------------------------------------------------------------------------
\* A run of others ends at the next application message or at the end.
LEMMA RunsEnd ==
    ASSUME log \in Seq(Nat), NEW q \in 1..Len(log)
    PROVE  NextApp(q) \in (q + 1)..NextSeq /\ \A m \in (q + 1)..(NextApp(q) - 1) : log[m] = 0
<1> DEFINE S == {n \in (q + 1)..NextSeq : n = NextSeq \/ log[n] # 0}
<1>0. Len(log) \in Nat OBVIOUS
<1>1. NextSeq \in S BY <1>0 DEF NextSeq
<1>2. S \in SUBSET Nat BY <1>0 DEF NextSeq
<1>3. PICK n \in S : \A m \in S : n <= m
  <2> HIDE DEF S
  <2> QED BY <1>1, <1>2, LeastMember
<1>4. ASSUME NEW m \in (q + 1)..(n - 1) PROVE log[m] = 0
  <2>1. m \in (q + 1)..NextSeq /\ ~(n <= m) BY <1>0, <1>3 DEF NextSeq
  <2> QED BY <1>3, <2>1
<1>5. \E k \in (q + 1)..NextSeq : /\ k = NextSeq \/ log[k] # 0
                                  /\ \A m \in (q + 1)..(k - 1) : log[m] = 0
  BY <1>3, <1>4
<1> QED BY <1>5 DEF NextApp

\* What is sent again says what the log says, in frames of two kinds.
LEMMA AgainHonest ==
    ASSUME log \in Seq(Nat), NEW b \in Nat \ {0}
    PROVE  /\ Again(b) \in Seq(Downward)
            /\ \A i \in DOMAIN Again(b) :
                   Truthful(Again(b)[i]) /\ Again(b)[i].type \in {"app", "gapfill"}
<1> DEFINE Q == {q \in b..Len(log) : log[q] # 0 \/ q = b \/ log[q - 1] # 0}
           Nth(i) == CHOOSE q \in Q : Cardinality({p \in Q : p <= q}) = i
<1>0. Len(log) \in Nat OBVIOUS
<1>1. Q \in SUBSET Nat /\ IsFiniteSet(Q)
  <2>1. Q \in SUBSET (b..Len(log)) /\ Q \in SUBSET Nat BY <1>0
  <2>2. IsFiniteSet(b..Len(log)) BY <1>0, FS_Interval
  <2> QED BY <2>1, <2>2, FS_Subset
<1>2. Cardinality(Q) \in Nat BY <1>1, FS_CardinalityType
<1>3. ASSUME NEW i \in 1..Cardinality(Q) PROVE Nth(i) \in 1..Len(log)
  <2>1. \E q \in Q : Cardinality({p \in Q : p <= q}) = i
    <3> HIDE DEF Q
    <3> QED BY <1>1, Ranks
  <2>2. Nth(i) \in Q
    <3> HIDE DEF Q
    <3> QED BY <2>1
  <2> QED BY <2>2, <1>0
<1>4. ASSUME NEW q \in 1..Len(log)
      PROVE  Resent(q) \in Downward /\ Truthful(Resent(q)) /\ Resent(q).type \in {"app", "gapfill"}
  <2>1. log[q] \in Nat OBVIOUS
  <2>2. CASE log[q] = 0
    <3>1. Resent(q) = Frame("gapfill", q, NextApp(q), TRUE) BY <2>2 DEF Resent
    <3>2. NextApp(q) \in (q + 1)..NextSeq /\ \A m \in (q + 1)..(NextApp(q) - 1) : log[m] = 0
      BY RunsEnd
    <3>3. NextApp(q) \in Nat BY <3>2, <1>0 DEF NextSeq
    <3>4. \A m \in q..(NextApp(q) - 1) : log[m] = 0 BY <3>2, <2>2, <1>0, <3>3
    <3> QED BY <3>1, <3>2, <3>3, <3>4, <2>2 DEF Frame, Downward, Kinds, Truthful, Tells, NextSeq
  <2>3. CASE log[q] # 0
    <3>1. Resent(q) = Frame("app", q, log[q], TRUE) BY <2>3 DEF Resent
    <3> QED BY <3>1, <2>1, <2>3 DEF Frame, Downward, Kinds, Truthful, Tells
  <2> QED BY <2>2, <2>3
<1>5. Again(b) = [i \in 1..Cardinality(Q) |-> Resent(Nth(i))] BY DEF Again
<1> HIDE DEF Q, Nth
<1>6. \A i \in 1..Cardinality(Q) : Again(b)[i] = Resent(Nth(i)) BY <1>5
<1>7. Again(b) \in [1..Cardinality(Q) -> Downward] BY <1>3, <1>4, <1>5
<1>8. Again(b) \in Seq(Downward) BY <1>2, <1>7
<1> QED BY <1>3, <1>4, <1>5, <1>6, <1>8

-----------------------------------------------------------------------------
\* The log only grows.
LogGrows ==
    /\ log' \in Seq(Nat) /\ Len(log) <= Len(log')
    /\ \A n \in 1..Len(log) : log'[n] = log[n]

\* What a frame says of the log stays true while the log grows.
LEMMA TruthLasts ==
    ASSUME NEW f \in Downward, Truthful(f), log \in Seq(Nat), LogGrows,
           outSeq \in Nat, outSeq' \in Nat, outSeq <= outSeq'
    PROVE  Tells(f, log', outSeq')
<1>1. /\ f.seq \in Nat /\ f.val \in Nat
      /\ Len(log) \in Nat /\ Len(log') \in Nat /\ Len(log) <= Len(log')
  BY DEF Downward, LogGrows
<1>2. f.seq \in 1..Len(log) /\ f.seq \in 1..Len(log') /\ log'[f.seq] = log[f.seq]
  BY <1>1 DEF Truthful, Tells, LogGrows
<1>3. f.type = "gapfill" => /\ f.val \in (f.seq + 1)..(Len(log') + 1)
                            /\ \A n \in f.seq..(f.val - 1) : log'[n] = 0
  <2> SUFFICES ASSUME f.type = "gapfill"
      PROVE  f.val \in (f.seq + 1)..(Len(log') + 1) /\ \A n \in f.seq..(f.val - 1) : log'[n] = 0
    OBVIOUS
  <2>1. f.val \in (f.seq + 1)..(Len(log) + 1) /\ \A n \in f.seq..(f.val - 1) : log[n] = 0
    BY DEF Truthful, Tells
  <2>2. ASSUME NEW n \in f.seq..(f.val - 1) PROVE log'[n] = 0
    <3>1. n \in 1..Len(log) BY <1>1, <1>2, <2>1
    <3> QED BY <2>1, <3>1 DEF LogGrows
  <2>3. f.val \in (f.seq + 1)..(Len(log') + 1) BY <1>1, <2>1
  <2> QED BY <2>2, <2>3
<1>4. f.type = "resend" => f.val \in 1..(outSeq' - 1) BY <1>1 DEF Truthful, Tells
<1>5. /\ f.type = "app" => log[f.seq] # 0 /\ f.val = log[f.seq]
      /\ f.type # "app" => log[f.seq] = 0
  BY DEF Truthful, Tells
<1> QED BY <1>2, <1>3, <1>4, <1>5 DEF Tells, NextSeq

\* The client takes a step; the gateway does not.
Still == UNCHANGED <<retrans, gateway>>

\* The client says nothing, or one frame with its next number.
Uttered(type, val) ==
    \/ up' = up /\ (outSeq' = outSeq \/ outSeq' = outSeq + 1)
    \/ up' = Append(up, [type |-> type, seq |-> outSeq, val |-> val]) /\ outSeq' = outSeq + 1

\* The answer to a ResendRequest takes no number of its own.
Refilled(seq) ==
    /\ outSeq' = outSeq
    /\ up' = up \/ up' = Append(up, [type |-> "gapfill", seq |-> seq, val |-> outSeq])

\* The client takes the next frame that comes down, or none.
Hears == down' = down \/ (down # <<>> /\ down' = Tail(down))

\* No Logon is added to what goes up.
LogonsStay == \A i \in DOMAIN up' : up'[i].type = "logon" => i \in DOMAIN up /\ up'[i] = up[i]

\* _send, whether or not it raises.
LEMMA Utters ==
    ASSUME NEW type, NEW val, Sent(type, val) \/ NotSent PROVE Uttered(type, val)
BY DEF Sent, NotSent, Uttered

\* What the client sends keeps its numbers in order.
LEMMA UtterKeeps ==
    ASSUME TypeOK, UpHonest, Still, NEW type \in Kinds \ {"gapfill"}, NEW val \in Nat,
           type = "resend" => val >= 1, Uttered(type, val),
           retrans /\ loggedOn' => greeted \/ loggedOn
    PROVE  /\ up' \in Seq(Upward) /\ outSeq' \in Nat \ {0} /\ outSeq <= outSeq'
           /\ UpHonest'
           /\ type # "logon" => LogonsStay
<1>0. /\ up \in Seq(Upward) /\ outSeq \in Nat /\ outSeq >= 1 /\ expected \in Nat
      /\ expected' = expected
  BY DEF TypeOK, Still, gateway
<1>1. (greeted' \/ (retrans' /\ loggedOn')) => expected' <= outSeq
  BY <1>0 DEF UpHonest, Still, gateway
<1>2. greeted' => greeted BY DEF Still, gateway
<1>3. \A i \in DOMAIN up : up[i] \in Upward BY <1>0
<1>4. CASE up' = up /\ (outSeq' = outSeq \/ outSeq' = outSeq + 1)
  <2>1. \A i \in DOMAIN up : up[i].type # "gapfill" => up[i].seq \in 1..(outSeq' - 1)
    BY <1>0, <1>3, <1>4 DEF UpHonest, Upward
  <2>2. \A i \in DOMAIN up : up[i].type = "gapfill" => up[i].val <= outSeq'
    BY <1>0, <1>3, <1>4 DEF UpHonest, Upward
  <2>3. outSeq' \in Nat \ {0} /\ outSeq <= outSeq'
    BY <1>0, <1>4
  <2>4. (greeted' \/ (retrans' /\ loggedOn')) => expected' <= outSeq' BY <1>0, <1>1, <1>4
  <2>5. UpHonest' BY <1>0, <1>2, <1>4, <2>1, <2>2, <2>4 DEF UpHonest
  <2> QED BY <1>0, <1>4, <2>5 DEF LogonsStay
<1>5. CASE /\ up' = Append(up, [type |-> type, seq |-> outSeq, val |-> val])
           /\ outSeq' = outSeq + 1
  <2> DEFINE new == [type |-> type, seq |-> outSeq, val |-> val]
  <2>1. new \in Upward BY <1>0 DEF Upward
  <2>2. /\ up' \in Seq(Upward) /\ DOMAIN up' = 1..(Len(up) + 1) /\ DOMAIN up = 1..Len(up)
        /\ Len(up) \in Nat
        /\ up'[Len(up) + 1] = new /\ \A i \in DOMAIN up : up'[i] = up[i]
    BY <1>0, <1>5, <2>1
  <2>3. new.type = type /\ new.seq = outSeq /\ new.val = val OBVIOUS
  <2> HIDE DEF new
  <2>4. outSeq' - 1 = outSeq /\ outSeq' \in Nat \ {0} /\ outSeq <= outSeq' BY <1>0, <1>5
  <2>5. \A i \in DOMAIN up' :
           /\ up'[i].type # "gapfill" => up'[i].seq \in 1..(outSeq' - 1)
           /\ up'[i].type = "gapfill" => up'[i].val <= outSeq'
           /\ up'[i].type = "resend" => up'[i].val >= 1
    <3> SUFFICES ASSUME NEW i \in DOMAIN up'
        PROVE  /\ up'[i].type # "gapfill" => up'[i].seq \in 1..(outSeq' - 1)
               /\ up'[i].type = "gapfill" => up'[i].val <= outSeq'
               /\ up'[i].type = "resend" => up'[i].val >= 1
      OBVIOUS
    <3>1. CASE i = Len(up) + 1
      <4>1. up'[i].type = type /\ up'[i].seq = outSeq /\ up'[i].val = val BY <2>2, <2>3, <3>1
      <4>2. outSeq \in 1..(outSeq' - 1)
        <5>1. outSeq \in 1..outSeq BY <1>0
        <5> QED BY <5>1, <2>4
      <4>3. type # "gapfill" OBVIOUS
      <4>4. up'[i].type = "resend" => up'[i].val >= 1 BY <4>1
      <4>5. up'[i].type # "gapfill" BY <4>1, <4>3
      <4>6. up'[i].seq \in 1..(outSeq' - 1) BY <4>1, <4>2
      <4> QED BY <4>4, <4>5, <4>6
    <3>2. CASE i \in DOMAIN up
      <4>1. up[i].seq \in Nat /\ up[i].val \in Nat BY <1>3, <3>2 DEF Upward
      <4>2. /\ up[i].type # "gapfill" => up[i].seq \in 1..(outSeq - 1)
            /\ up[i].type = "gapfill" => up[i].val <= outSeq
            /\ up[i].type = "resend" => up[i].val >= 1
        BY <3>2 DEF UpHonest
      <4> QED BY <1>0, <2>2, <2>4, <3>2, <4>1, <4>2
    <3> QED BY <2>2, <3>1, <3>2
  <2>6. \A i, j \in DOMAIN up' :
           i < j /\ up'[j].type # "gapfill" =>
               IF up'[i].type = "gapfill" THEN up'[i].val <= up'[j].seq ELSE up'[i].seq < up'[j].seq
    <3> SUFFICES ASSUME NEW i \in DOMAIN up', NEW j \in DOMAIN up', i < j, up'[j].type # "gapfill"
        PROVE  IF up'[i].type = "gapfill" THEN up'[i].val <= up'[j].seq ELSE up'[i].seq < up'[j].seq
      OBVIOUS
    <3>0. i \in DOMAIN up /\ up'[i] = up[i] /\ up[i].seq \in Nat /\ up[i].val \in Nat
      <4>1. i \in DOMAIN up BY <2>2
      <4> QED BY <1>3, <2>2, <4>1 DEF Upward
    <3>1. CASE j = Len(up) + 1
      <4>1. /\ up[i].type # "gapfill" => up[i].seq \in 1..(outSeq - 1)
            /\ up[i].type = "gapfill" => up[i].val <= outSeq
        BY <3>0 DEF UpHonest
      <4> QED BY <1>0, <2>2, <2>3, <3>0, <3>1, <4>1
    <3>2. CASE j \in DOMAIN up BY <2>2, <3>0, <3>2 DEF UpHonest
    <3> QED BY <2>2, <3>1, <3>2
  <2>7. greeted' => \A i \in DOMAIN up' : up'[i].type # "gapfill" => up'[i].seq >= expected'
    <3> SUFFICES ASSUME greeted', NEW i \in DOMAIN up', up'[i].type # "gapfill"
        PROVE  up'[i].seq >= expected'
      OBVIOUS
    <3>1. CASE i = Len(up) + 1 BY <1>0, <1>1, <2>2, <2>3, <3>1
    <3>2. CASE i \in DOMAIN up BY <1>0, <1>2, <2>2, <3>2 DEF UpHonest
    <3> QED BY <2>2, <3>1, <3>2
  <2>8. (greeted' \/ (retrans' /\ loggedOn')) => expected' <= outSeq' BY <1>0, <1>1, <1>5
  <2>9. expected' >= 1 BY <1>0 DEF UpHonest
  <2>10. UpHonest' BY <2>5, <2>6, <2>7, <2>8, <2>9 DEF UpHonest
  <2>11. type # "logon" => LogonsStay BY <2>2, <2>3 DEF LogonsStay
  <2> QED BY <2>2, <2>4, <2>10, <2>11
<1> QED BY <1>4, <1>5 DEF Uttered

\* Nor does a gap fill disturb them: it claims numbers already used.
LEMMA RefillKeeps ==
    ASSUME TypeOK, UpHonest, Still, NEW seq \in Nat, Refilled(seq),
           retrans /\ loggedOn' => greeted \/ loggedOn
    PROVE  /\ up' \in Seq(Upward) /\ outSeq' \in Nat \ {0} /\ outSeq <= outSeq'
           /\ UpHonest' /\ LogonsStay
<1>0. /\ up \in Seq(Upward) /\ outSeq \in Nat \ {0} /\ outSeq' = outSeq /\ expected \in Nat
      /\ expected' = expected /\ outSeq <= outSeq'
  BY DEF TypeOK, Still, gateway, Refilled
<1>1. /\ (greeted' \/ (retrans' /\ loggedOn')) => expected' <= outSeq'
      /\ expected' >= 1
  BY <1>0 DEF UpHonest, Still, gateway
<1>2. greeted' => greeted BY DEF Still, gateway
<1>3. CASE up' = up
  BY <1>0, <1>1, <1>2, <1>3 DEF UpHonest, LogonsStay
<1>4. CASE up' = Append(up, [type |-> "gapfill", seq |-> seq, val |-> outSeq])
  <2> DEFINE new == [type |-> "gapfill", seq |-> seq, val |-> outSeq]
  <2>1. new \in Upward BY <1>0 DEF Upward, Kinds
  <2>2. /\ up' \in Seq(Upward) /\ DOMAIN up' = 1..(Len(up) + 1) /\ DOMAIN up = 1..Len(up)
        /\ Len(up) \in Nat
        /\ up'[Len(up) + 1] = new /\ \A i \in DOMAIN up : up'[i] = up[i]
    BY <1>0, <1>4, <2>1
  <2>3. new.type = "gapfill" /\ new.val = outSeq OBVIOUS
  <2> HIDE DEF new
  <2>4. \A i \in DOMAIN up' : i \in DOMAIN up \/ (up'[i].type = "gapfill" /\ up'[i].val = outSeq)
    BY <2>2, <2>3
  <2>5. \A i \in DOMAIN up' :
           /\ up'[i].type # "gapfill" => up'[i].seq \in 1..(outSeq' - 1)
           /\ up'[i].type = "gapfill" => up'[i].val <= outSeq'
           /\ up'[i].type = "resend" => up'[i].val >= 1
    BY <1>0, <2>2, <2>4 DEF UpHonest
  <2>6. \A i, j \in DOMAIN up' :
           i < j /\ up'[j].type # "gapfill" =>
               IF up'[i].type = "gapfill" THEN up'[i].val <= up'[j].seq ELSE up'[i].seq < up'[j].seq
    <3> SUFFICES ASSUME NEW i \in DOMAIN up', NEW j \in DOMAIN up', i < j, up'[j].type # "gapfill"
        PROVE  IF up'[i].type = "gapfill" THEN up'[i].val <= up'[j].seq ELSE up'[i].seq < up'[j].seq
      OBVIOUS
    <3>1. j \in DOMAIN up BY <2>4
    <3>2. i \in DOMAIN up BY <2>2, <3>1
    <3> QED BY <2>2, <3>1, <3>2 DEF UpHonest
  <2>7. greeted' => \A i \in DOMAIN up' : up'[i].type # "gapfill" => up'[i].seq >= expected'
    BY <1>0, <1>2, <2>2, <2>4 DEF UpHonest
  <2>8. UpHonest' BY <1>1, <2>5, <2>6, <2>7 DEF UpHonest
  <2>9. LogonsStay BY <2>2, <2>4 DEF LogonsStay
  <2> QED BY <1>0, <2>2, <2>8, <2>9
<1> QED BY <1>3, <1>4 DEF Refilled

\* What a frame says stays true while only the client moves.
LEMMA TruthStands ==
    ASSUME TypeOK, Still, outSeq' \in Nat, outSeq <= outSeq', NEW f \in Downward, Truthful(f)
    PROVE  Tells(f, log', outSeq')
<1>1. log \in Seq(Nat) /\ outSeq \in Nat /\ log' = log BY DEF TypeOK, Still, gateway
<1>2. LogGrows BY <1>1 DEF LogGrows
<1> QED BY <1>1, <1>2, TruthLasts

\* The parts of the invariant a step of the client cannot disturb.
LEMMA ClientKeeps ==
    ASSUME TypeOK, OneLogon, DownHonest, LogHonest, Still, Hears, LogonsStay,
           outSeq' \in Nat, outSeq <= outSeq',
           greeted \/ (inSeq' = inSeq /\ pending' = pending /\ loggedOn' = loggedOn)
    PROVE  down' \in Seq(Downward) /\ DownHonest' /\ OneLogon' /\ LogHonest'
<1>0. /\ down \in Seq(Downward) /\ \A i \in DOMAIN down : down[i] \in Downward
      /\ greeted' = greeted /\ log' = log /\ expected' = expected /\ made' = made
      /\ fresh' = fresh /\ retrans' = retrans
  BY DEF TypeOK, Still, gateway
<1>1. /\ down' \in Seq(Downward)
      /\ \A i \in DOMAIN down' : \E j \in DOMAIN down : down'[i] = down[j]
      /\ down = <<>> => down' = <<>>
  <2>1. CASE down' = down BY <1>0, <2>1
  <2>2. CASE down # <<>> /\ down' = Tail(down)
    <3>1. /\ Tail(down) \in Seq(Downward) /\ Len(down) \in Nat \ {0}
          /\ Len(Tail(down)) = Len(down) - 1
          /\ \A i \in 1..(Len(down) - 1) : Tail(down)[i] = down[i + 1]
      BY <1>0, <2>2
    <3>2. \A i \in DOMAIN down' : i + 1 \in DOMAIN down /\ down'[i] = down[i + 1]
      BY <1>0, <2>2, <3>1
    <3> QED BY <2>2, <3>1, <3>2
  <2> QED BY <2>1, <2>2 DEF Hears
<1>2. DownHonest'
  <2>1. ASSUME greeted', NEW i \in DOMAIN down' PROVE Tells(down'[i], log', outSeq')
    <3>1. PICK j \in DOMAIN down : down'[i] = down[j] BY <1>1
    <3>2. down[j] \in Downward /\ Truthful(down[j]) BY <1>0, <2>1 DEF DownHonest
    <3>3. Tells(down[j], log', outSeq') BY <3>2, TruthStands
    <3> QED BY <3>1, <3>3
  <2>2. ASSUME NEW i \in DOMAIN down', down'[i].type = "logon" PROVE greeted'
    BY <1>0, <1>1, <2>2 DEF DownHonest
  <2> QED BY <2>1, <2>2 DEF DownHonest, Truthful
<1>3. OneLogon'
  <2>1. \A i, j \in DOMAIN up' : up'[i].type = "logon" /\ up'[j].type = "logon" => i = j
    BY DEF OneLogon, LogonsStay
  <2>2. ASSUME ~greeted', NEW i \in DOMAIN up', up'[i].type = "logon"
        PROVE  /\ down' = <<>>
               /\ up'[i].val = 1 => /\ inSeq' = 1 /\ pending' = {}
                                    /\ retrans' => ~loggedOn' /\ made' = 0 /\ fresh' = 0
               /\ up'[i].val # 1 => retrans' /\ up'[i].val = 0 /\ expected' <= up'[i].seq
    <3>1. ~greeted /\ i \in DOMAIN up /\ up'[i] = up[i] BY <1>0, <2>2 DEF LogonsStay
    <3>2. inSeq' = inSeq /\ pending' = pending /\ loggedOn' = loggedOn BY <3>1
    <3>3. down' = <<>> BY <1>1, <2>2, <3>1 DEF OneLogon
    <3> QED BY <1>0, <2>2, <3>1, <3>2, <3>3 DEF OneLogon
  <2> QED BY <2>1, <2>2 DEF OneLogon
<1>4. LogHonest' BY <1>0 DEF LogHonest
<1> QED BY <1>1, <1>2, <1>3, <1>4

-----------------------------------------------------------------------------
\* What a step of the client may say.
Speaks ==
    \/ \E type \in Kinds \ {"gapfill", "logon"}, val \in Nat :
           (type = "resend" => val >= 1) /\ Uttered(type, val)
    \/ \E seq \in Nat : Refilled(seq)

\* What every step of the client but a Logon keeps.
LEMMA ClientStep ==
    ASSUME FixInv, Still, Hears, Speaks,
           greeted \/ (inSeq' = inSeq /\ pending' = pending /\ loggedOn' = loggedOn)
    PROVE  /\ up' \in Seq(Upward) /\ outSeq' \in Nat \ {0} /\ down' \in Seq(Downward)
           /\ UpHonest' /\ DownHonest' /\ OneLogon' /\ LogHonest'
           /\ LogonsStay
           /\ \A f \in Downward : Truthful(f) => Tells(f, log', outSeq')
<1>0. TypeOK /\ UpHonest /\ OneLogon /\ DownHonest /\ LogHonest BY DEF FixInv
<1>1. retrans /\ loggedOn' => greeted \/ loggedOn OBVIOUS
<1>2. /\ up' \in Seq(Upward) /\ outSeq' \in Nat \ {0} /\ outSeq <= outSeq'
      /\ UpHonest' /\ LogonsStay
  BY <1>0, <1>1, UtterKeeps, RefillKeeps DEF Speaks
<1>3. down' \in Seq(Downward) /\ DownHonest' /\ OneLogon' /\ LogHonest'
  BY <1>0, <1>2, ClientKeeps
<1>4. \A f \in Downward : Truthful(f) => Tells(f, log', outSeq')
  BY <1>0, <1>2, TruthStands
<1> QED BY <1>2, <1>3, <1>4

\* A step that moves neither the reader nor the numbers.
LEMMA Bystander ==
    ASSUME FixInv, Still, down' = down, Speaks,
           UNCHANGED <<retrans, loggedOn, inSeq, pending, reader, attempt, last>>
    PROVE  /\ up' \in Seq(Upward) /\ outSeq' \in Nat \ {0} /\ down' \in Seq(Downward)
           /\ Places' /\ OneLogon' /\ DownHonest' /\ PendingHonest' /\ UpHonest'
           /\ LogHonest' /\ Watermark'
<1>0. TypeOK /\ Places /\ PendingHonest /\ Watermark BY DEF FixInv
<1>1. Hears BY DEF Hears
<1>2. /\ up' \in Seq(Upward) /\ outSeq' \in Nat \ {0} /\ down' \in Seq(Downward)
      /\ UpHonest' /\ DownHonest' /\ OneLogon' /\ LogHonest' /\ LogonsStay
      /\ \A f \in Downward : Truthful(f) => Tells(f, log', outSeq')
  BY <1>1, ClientStep
<1>3. /\ greeted' = greeted /\ made' = made /\ fresh' = fresh /\ log' = log
  BY DEF Still, gateway
<1>4. Places' BY <1>0, <1>2, <1>3 DEF Places, LogonsStay, Resetting
<1>5. PendingHonest'
  <2>1. \A f \in pending' : Tells(f, log', outSeq') BY <1>0, <1>2 DEF PendingHonest, TypeOK
  <2> QED BY <1>0, <2>1 DEF PendingHonest, Truthful
<1>6. Watermark' BY <1>0, <1>3 DEF Watermark, NextSeq
<1> QED BY <1>2, <1>4, <1>5, <1>6

\* Users and the heartbeat task.
LEMMA UserKeeps ==
    ASSUME FixInv, HeartbeatDue \/ Send \/ Probe \/ CloseLogout
    PROVE  FixInv'
<1>0. TypeOK /\ Stopped BY DEF FixInv
<1>1. Speaks
  <2>1. \E type \in {"app", "test", "logout"} : Uttered(type, 0)
    <3>1. ASSUME NEW type, Sent(type, 0) \/ NotSent PROVE Uttered(type, 0)
      BY <3>1, Utters
    <3>2. UNCHANGED <<outSeq, up>> => Uttered("app", 0) BY DEF Uttered
    <3> QED BY <3>1, <3>2, Zenon DEF HeartbeatDue, Send, Probe, CloseLogout
  <2> QED BY <2>1 DEF Speaks, Kinds
<1>2. /\ Still /\ down' = down
      /\ UNCHANGED <<retrans, loggedOn, inSeq, pending, reader, attempt, last>>
  BY DEF HeartbeatDue, Send, Probe, CloseLogout, Still, session, numbers, tasks
<1>3. /\ up' \in Seq(Upward) /\ outSeq' \in Nat \ {0} /\ down' \in Seq(Downward)
      /\ Places' /\ OneLogon' /\ DownHonest' /\ PendingHonest' /\ UpHonest'
      /\ LogHonest' /\ Watermark'
  BY <1>1, <1>2, Bystander
<1>4. TypeOK'
  <2>1. /\ UNCHANGED <<retrans, missed, state, running, loggedOn, numbers, link, reader,
                       attempt, beating, peer, down, gateway, last, spent>>
        /\ probing' \in BOOLEAN /\ closing' \in {"no", "logout", "join", "done"}
    BY <1>0, Zenon DEF TypeOK, HeartbeatDue, Send, Probe, CloseLogout, session, tasks
  <2> QED BY <1>0, <1>3, <2>1 DEF TypeOK, numbers, link, gateway
<1>5. Stopped'
  BY <1>0, <1>2 DEF Stopped, HeartbeatDue, Send, Probe, CloseLogout, session, tasks
<1> QED BY <1>3, <1>4, <1>5 DEF FixInv

\* The receive task leaves the connection, or ends.
LEMMA Retreat ==
    ASSUME FixInv, Still, Hears, Speaks, UNCHANGED <<inSeq, loggedOn, last>>,
           pending' \in SUBSET pending, greeted \/ pending' = pending,
           reader' \in {"backoff", "giveup", "done", "raised"},
           reader' = "backoff" => /\ loggedOn /\ reader \notin {"deliver", "giveup", "done", "raised"}
                                  /\ \A f \in pending' : f.seq > inSeq,
           ~loggedOn => attempt' = 0
    PROVE  /\ up' \in Seq(Upward) /\ outSeq' \in Nat \ {0} /\ down' \in Seq(Downward)
           /\ Places' /\ OneLogon' /\ DownHonest' /\ PendingHonest' /\ UpHonest'
           /\ LogHonest' /\ Watermark'
<1>0. TypeOK /\ Places /\ PendingHonest /\ Watermark BY DEF FixInv
<1>1. /\ up' \in Seq(Upward) /\ outSeq' \in Nat \ {0} /\ down' \in Seq(Downward)
      /\ UpHonest' /\ DownHonest' /\ OneLogon' /\ LogHonest'
      /\ \A f \in Downward : Truthful(f) => Tells(f, log', outSeq')
  BY ClientStep
<1>2. /\ greeted' = greeted /\ made' = made /\ fresh' = fresh /\ log' = log /\ retrans' = retrans
  BY DEF Still, gateway
<1>3. Places' BY <1>0, <1>2 DEF Places, Sessioned
<1>4. PendingHonest'
  <2>1. \A f \in pending' : Tells(f, log', outSeq') BY <1>0, <1>1 DEF PendingHonest, TypeOK
  <2>2. \A f, g \in pending' : f.seq = g.seq => f = g BY <1>0 DEF PendingHonest
  <2>3. reader' = "backoff" => \A f \in pending' : f.seq > inSeq' OBVIOUS
  <2> QED BY <2>1, <2>2, <2>3 DEF PendingHonest, Truthful
<1>5. Watermark' BY <1>0, <1>2 DEF Watermark, NextSeq
<1> QED BY <1>1, <1>3, <1>4, <1>5

\* The ends of an attempt, of a connection, of the session.
LEMMA Ends ==
    ASSUME TypeOK, Stopped
    PROVE  /\ \A at \in States : AttemptFailedAt(at) =>
                  /\ reader' \in {"backoff", "giveup", "done"} /\ attempt' \in Nat
                  /\ attempt = 0 => reader' = "done" /\ attempt' = 0
           /\ \A place \in ReaderStates : Terminate(place) => reader' = place /\ attempt' = attempt
           /\ Recover => /\ reader' \in {"done", "backoff"} /\ attempt' \in Nat
                         /\ reader' = "done" => attempt' = attempt
<1>1. attempt \in Nat /\ MaxAttempts \in Nat \ {0} BY FixAssumption DEF TypeOK
<1>2. ASSUME NEW at \in States, AttemptFailedAt(at)
      PROVE  /\ reader' \in {"backoff", "giveup", "done"} /\ attempt' \in Nat
             /\ attempt = 0 => reader' = "done" /\ attempt' = 0
  BY <1>1, <1>2 DEF AttemptFailedAt, Terminate
<1> QED BY <1>1, <1>2 DEF Terminate, Recover, Go

\* A step that ends the receive task, or lets it recover, keeps the types.
LEMMA EndsTyped ==
    ASSUME TypeOK, NEW place \in ReaderStates, NEW at \in States,
           AttemptFailedAt(at) \/ Terminate(place) \/ Recover \/ Go(place)
    PROVE  /\ state' \in States /\ running' \in BOOLEAN /\ sock' \in {"none", "open", "closed"}
           /\ reader' \in ReaderStates /\ attempt' \in Nat
<1>1. /\ state' \in States /\ sock' \in {"none", "open", "closed"} /\ reader' \in ReaderStates
  BY DEF TypeOK, AttemptFailedAt, Terminate, Recover, Go, States, ReaderStates
<1>2. running' \in BOOLEAN BY Zenon DEF TypeOK, AttemptFailedAt, Terminate, Recover, Go
<1>3. attempt' \in Nat BY DEF TypeOK, AttemptFailedAt, Terminate, Recover, Go
<1> QED BY <1>1, <1>2, <1>3

\* Where they leave a session nobody is closing.
LEMMA EndsStopped ==
    ASSUME TypeOK, Stopped, closing' = closing
    PROVE  /\ \A at \in States :
                  AttemptFailedAt(at) /\ reader \notin {"deliver", "drain", "done"} => Stopped'
           /\ \A place \in {"drain", "done"} : Terminate(place) => Stopped'
           /\ Recover => Stopped'
<1>1. ASSUME ~running', state' = "closed", reader' \in {"deliver", "drain", "done"}
      PROVE  Stopped'
  <2>1. reader' # "giveup" /\ reader' # "raised" BY <1>1
  <2> QED BY <1>1, <2>1, Zenon DEF Stopped
<1>2. ASSUME NEW at \in States, AttemptFailedAt(at), reader \notin {"deliver", "drain", "done"}
      PROVE  Stopped'
  <2>0. running \/ closing # "no" BY <1>2, Zenon DEF Stopped
  <2>1. CASE Terminate("done")
    <3>1. ~running' /\ state' = "closed" BY <2>1, Zenon DEF Terminate
    <3>2. reader' \in {"deliver", "drain", "done"} BY <2>1 DEF Terminate
    <3> QED BY <1>1, <3>1, <3>2
  <2>2. CASE reader' = "backoff" /\ running' = running
    <3>1. running' \/ closing' # "no" BY <2>0, <2>2, Zenon
    <3>2. reader' # "done" /\ reader' # "giveup" /\ reader' # "raised" BY <2>2
    <3> QED BY <3>1, <3>2, Zenon DEF Stopped
  <2>3. CASE state' = "closed" /\ reader' = "giveup" /\ running' = running
    <3>1. running' \/ closing' # "no" BY <2>0, <2>3, Zenon
    <3>2. reader' # "done" /\ reader' # "raised" BY <2>3
    <3> QED BY <2>3, <3>1, <3>2, Zenon DEF Stopped
  <2> QED BY <1>2, <2>1, <2>2, <2>3, Zenon DEF AttemptFailedAt
<1>3. ASSUME NEW place \in {"drain", "done"}, Terminate(place) PROVE Stopped'
  <2>1. ~running' /\ state' = "closed" BY <1>3, Zenon DEF Terminate
  <2>2. reader' \in {"deliver", "drain", "done"} BY <1>3 DEF Terminate
  <2> QED BY <1>1, <2>1, <2>2
<1>4. ASSUME Recover PROVE Stopped'
  <2>1. CASE ~running /\ Go("done")
    <3>1. ~running' /\ state' = state /\ reader' = "done" BY <2>1, Zenon DEF Go
    <3>2. closing = "no" => state = "closed" BY <2>1, Zenon DEF Stopped
    <3>3. reader' # "giveup" /\ reader' # "raised" BY <3>1
    <3> QED BY <3>1, <3>2, <3>3, Zenon DEF Stopped
  <2>2. CASE running /\ reader' = "backoff" /\ UNCHANGED running
    <3>1. running' BY <2>2, Zenon
    <3>2. reader' # "done" /\ reader' # "giveup" /\ reader' # "raised" BY <2>2
    <3> QED BY <3>1, <3>2, Zenon DEF Stopped
  <2> QED BY <1>4, <2>1, <2>2, Zenon DEF Recover
<1> QED BY <1>2, <1>3, <1>4

-----------------------------------------------------------------------------
\* A step in which the client says nothing.
LEMMA Silent == ASSUME UNCHANGED <<outSeq, up>> PROVE Speaks
<1>1. Uttered("app", 0) BY DEF Uttered
<1> QED BY <1>1 DEF Speaks, Kinds

\* The heartbeat task gives the peer up; close() is called.
LEMMA MarkKeeps == ASSUME FixInv, PeerDead \/ CloseBegin PROVE FixInv'
<1>0. TypeOK /\ Stopped BY DEF FixInv
<1>1. /\ UNCHANGED <<outSeq, up, down, retrans, missed, gateway, loggedOn, inSeq, pending, asked,
                     reader, attempt, last, state, probing, leaked, conns, peer>>
      /\ (closing' = closing /\ running' = running) \/ closing' = "logout"
      /\ sock' = sock \/ sock' = "closed"
      /\ running' \in BOOLEAN /\ beating' \in BOOLEAN /\ spent' \in Nat
  <2>1. CASE PeerDead
    <3>1. /\ UNCHANGED <<outSeq, up, down, retrans, missed, gateway, session, numbers, tasks,
                         last, leaked, conns, peer>>
          /\ sock' = "closed"
      BY <2>1, Zenon DEF PeerDead
    <3>2. spent' \in Nat BY <1>0, <2>1 DEF PeerDead, Fault, TypeOK
    <3> QED BY <1>0, <3>1, <3>2, Zenon DEF session, numbers, tasks, TypeOK
  <2>2. CASE CloseBegin BY <1>0, <2>2, Zenon DEF CloseBegin, numbers, link, TypeOK
  <2> QED BY <2>1, <2>2
<1>2. Still /\ Speaks BY <1>1, Silent DEF Still
<1>3. /\ up' \in Seq(Upward) /\ outSeq' \in Nat \ {0} /\ down' \in Seq(Downward)
      /\ Places' /\ OneLogon' /\ DownHonest' /\ PendingHonest' /\ UpHonest'
      /\ LogHonest' /\ Watermark'
  BY <1>1, <1>2, Bystander
<1>4. TypeOK'
  <2>1. closing' \in {"no", "logout", "join", "done"} /\ sock' \in {"none", "open", "closed"}
    BY <1>0, <1>1 DEF TypeOK
  <2> QED BY <1>0, <1>1, <1>3, <2>1 DEF TypeOK, gateway
<1>5. Stopped'
  <2>1. CASE closing' = closing /\ running' = running BY <1>0, <1>1, <2>1, Zenon DEF Stopped
  <2>2. CASE closing' = "logout"
    <3>1. closing' # "no" BY <2>2
    <3> QED BY <3>1, Zenon DEF Stopped
  <2> QED BY <1>1, <2>1, <2>2
<1> QED BY <1>3, <1>4, <1>5 DEF FixInv

\* close() cancels the receive task wherever it is.
LEMMA JoinKeeps == ASSUME FixInv, CloseJoin PROVE FixInv'
<1>0. TypeOK /\ Places BY DEF FixInv
<1>1. /\ UNCHANGED <<outSeq, up, down, retrans, missed, gateway, running, loggedOn, probing,
                     numbers, leaked, conns, attempt, beating, peer, last, spent>>
      /\ reader' = "done" /\ state' = "closed" /\ closing' = "done"
      /\ sock' = sock \/ sock' = "closed"
  BY DEF CloseJoin
<1>2. Still /\ Speaks /\ Hears BY <1>1, Silent DEF Still, Hears
<1>3. UNCHANGED <<inSeq, loggedOn, last, pending>> BY <1>1 DEF numbers
<1>4. ~loggedOn => attempt' = 0 BY <1>0, <1>1, Zenon DEF Places
<1>5. /\ up' \in Seq(Upward) /\ outSeq' \in Nat \ {0} /\ down' \in Seq(Downward)
      /\ Places' /\ OneLogon' /\ DownHonest' /\ PendingHonest' /\ UpHonest'
      /\ LogHonest' /\ Watermark'
  BY <1>1, <1>2, <1>3, <1>4, Retreat
<1>6. TypeOK' BY <1>0, <1>1, <1>5 DEF TypeOK, gateway, numbers, States, ReaderStates
<1>7. Stopped'
  <2>1. closing' # "no" BY <1>1
  <2> QED BY <2>1, Zenon DEF Stopped
<1> QED BY <1>5, <1>6, <1>7 DEF FixInv

\* An attempt to connect ends: start() raises, or _reconnect waits.
LEMMA FailedAttemptKeeps ==
    ASSUME FixInv, NEW at \in States, AttemptFailedAt(at), Still, Hears, Speaks,
           reader \in {"connect", "greet", "logon", "resume", "backoff"},
           UNCHANGED <<inSeq, pending, loggedOn, probing, last, conns, beating, closing, peer>>,
           leaked' \in Nat, asked' \in BOOLEAN, missed' \in BOOLEAN, spent' \in Nat
    PROVE  FixInv'
<1>0. TypeOK /\ Places /\ PendingHonest /\ Stopped BY DEF FixInv
<1>1. /\ reader' \in {"backoff", "giveup", "done"} /\ attempt' \in Nat
      /\ attempt = 0 => reader' = "done" /\ attempt' = 0
  BY <1>0, Ends
<1>2. /\ ~loggedOn => attempt' = 0
      /\ reader' = "backoff" => loggedOn /\ \A f \in pending' : f.seq > inSeq
  <2>1. ~loggedOn => attempt = 0 BY <1>0, Zenon DEF Places
  <2>2. reader \notin {"drain", "giveup", "done", "raised"} OBVIOUS
  <2>3. \A f \in pending' : f.seq > inSeq BY <1>0, <2>2 DEF PendingHonest
  <2>4. reader' = "backoff" => attempt # 0 BY <1>1
  <2> QED BY <1>1, <2>1, <2>3, <2>4
<1>3. reader \notin {"deliver", "giveup", "done", "raised", "drain"} OBVIOUS
<1>4. /\ up' \in Seq(Upward) /\ outSeq' \in Nat \ {0} /\ down' \in Seq(Downward)
      /\ Places' /\ OneLogon' /\ DownHonest' /\ PendingHonest' /\ UpHonest'
      /\ LogHonest' /\ Watermark'
  BY <1>1, <1>2, <1>3, Retreat
<1>5. TypeOK'
  <2>1. /\ state' \in States /\ running' \in BOOLEAN /\ sock' \in {"none", "open", "closed"}
        /\ reader' \in ReaderStates
    BY <1>0, EndsTyped DEF ReaderStates
  <2>2. UNCHANGED <<retrans, gateway>> BY DEF Still
  <2> QED BY <1>0, <1>1, <1>4, <2>1, <2>2 DEF TypeOK, gateway
<1>6. reader \notin {"deliver", "drain", "done"} OBVIOUS
<1>7. Stopped' BY <1>0, <1>6, EndsStopped
<1> QED BY <1>4, <1>5, <1>7 DEF FixInv

\* start() or _reconnect is refused, or not answered.
LEMMA RefusedKeeps == ASSUME FixInv, OpenFails \/ LogonUnanswered PROVE FixInv'
<1>0. TypeOK BY DEF FixInv
<1>1. /\ reader \in {"connect", "greet", "logon", "resume", "backoff"}
      /\ AttemptFailedAt(state) /\ state \in States
      /\ UNCHANGED <<retrans, missed, loggedOn, probing, outSeq, numbers, leaked, conns, beating,
                     closing, peer, up, down, gateway, last>>
      /\ spent' \in Nat
  BY <1>0 DEF OpenFails, LogonUnanswered, Fault, TypeOK, AttemptFailed
<1>2. Still /\ Hears /\ Speaks BY <1>1, Silent DEF Still, Hears
<1>3. asked' \in BOOLEAN /\ missed' \in BOOLEAN BY <1>0, <1>1, Zenon DEF TypeOK, numbers
<1>4. UNCHANGED <<inSeq, pending>> BY <1>1 DEF numbers
<1>5. leaked' \in Nat BY <1>0, <1>1 DEF TypeOK
<1> QED BY <1>1, <1>2, <1>3, <1>4, <1>5, FailedAttemptKeeps

\* The receive task moves on without a change of the numbers.
LEMMA MoveOn ==
    ASSUME FixInv, Still, Hears, Speaks, UNCHANGED <<inSeq, pending, loggedOn, attempt, last>>,
           (reader = "backoff" /\ reader' = "connect")
               \/ (reader \in {"resume", "read"} /\ reader' = "read")
    PROVE  /\ up' \in Seq(Upward) /\ outSeq' \in Nat \ {0} /\ down' \in Seq(Downward)
           /\ Places' /\ OneLogon' /\ DownHonest' /\ PendingHonest' /\ UpHonest'
           /\ LogHonest' /\ Watermark'
<1>0. TypeOK /\ Places /\ PendingHonest /\ Watermark BY DEF FixInv
<1>1. /\ up' \in Seq(Upward) /\ outSeq' \in Nat \ {0} /\ down' \in Seq(Downward)
      /\ UpHonest' /\ DownHonest' /\ OneLogon' /\ LogHonest'
      /\ \A f \in Downward : Truthful(f) => Tells(f, log', outSeq')
  BY ClientStep
<1>2. /\ greeted' = greeted /\ made' = made /\ fresh' = fresh /\ log' = log /\ retrans' = retrans
  BY DEF Still, gateway
<1>3. Places' BY <1>0, <1>2 DEF Places, Sessioned
<1>4. PendingHonest'
  <2>1. \A f \in pending' : Tells(f, log', outSeq') BY <1>0, <1>1 DEF PendingHonest, TypeOK
  <2>2. \A f, g \in pending' : f.seq = g.seq => f = g BY <1>0 DEF PendingHonest
  <2>3. reader \notin {"drain", "giveup", "done", "raised"} OBVIOUS
  <2>4. \A f \in pending' : f.seq > inSeq' BY <1>0, <2>3 DEF PendingHonest
  <2>5. reader' # "drain" /\ reader' # "logon" OBVIOUS
  <2> QED BY <2>1, <2>2, <2>4, <2>5 DEF PendingHonest, Truthful
<1>5. Watermark' BY <1>0, <1>2 DEF Watermark, NextSeq
<1> QED BY <1>1, <1>3, <1>4, <1>5

\* The back-off is over: another attempt, or none any more.
LEMMA BackoffKeeps == ASSUME FixInv, BackoffOver PROVE FixInv'
<1>0. TypeOK /\ Places /\ PendingHonest /\ Watermark /\ Stopped BY DEF FixInv
<1>1. /\ reader = "backoff"
      /\ UNCHANGED <<retrans, missed, loggedOn, probing, outSeq, numbers, conns, beating, closing,
                     peer, up, down, gateway, last>>
      /\ \/ ~running /\ Go("done") /\ UNCHANGED <<leaked, spent>>
         \/ /\ running /\ sock' = "none" /\ state' = "connecting" /\ reader' = "connect"
            /\ UNCHANGED <<running, attempt, spent>>
         \/ Fault("raise") /\ AttemptFailedAt("connecting") /\ UNCHANGED leaked
  BY Zenon DEF BackoffOver
<1>2. leaked' \in Nat /\ spent' \in Nat BY <1>0 DEF BackoffOver, TypeOK, Fault
<1>3. Still /\ Speaks /\ Hears BY <1>1, Silent DEF Still, Hears
<1>4. UNCHANGED <<inSeq, pending, asked>> BY <1>1 DEF numbers
<1>5. asked' \in BOOLEAN /\ missed' \in BOOLEAN BY <1>0, <1>1, <1>4, Zenon DEF TypeOK
<1>6. CASE AttemptFailedAt("connecting")
  <2>1. "connecting" \in States BY DEF States
  <2> QED BY <1>1, <1>2, <1>3, <1>4, <1>5, <1>6, <2>1, FailedAttemptKeeps
<1>7. CASE /\ reader' \in {"done", "connect"} /\ UNCHANGED <<running, attempt>>
           /\ \/ ~running /\ reader' = "done" /\ UNCHANGED <<state, sock>>
              \/ running /\ sock' = "none" /\ state' = "connecting" /\ reader' = "connect"
  <2>1. /\ up' \in Seq(Upward) /\ outSeq' \in Nat \ {0} /\ down' \in Seq(Downward)
        /\ Places' /\ OneLogon' /\ DownHonest' /\ PendingHonest' /\ UpHonest'
        /\ LogHonest' /\ Watermark'
    <3>1. CASE reader' = "done"
      <4>1. ~loggedOn => attempt' = 0 BY <1>0, <1>7, Zenon DEF Places
      <4> QED BY <1>1, <1>3, <1>4, <3>1, <4>1, Retreat
    <3>2. CASE reader' = "connect" BY <1>1, <1>3, <1>4, <1>7, <3>2, MoveOn
    <3> QED BY <1>7, <3>1, <3>2
  <2>2. TypeOK'
    <3>1. /\ sock' \in {"none", "open", "closed"} /\ state' \in States
          /\ reader' \in ReaderStates
      BY <1>0, <1>7 DEF TypeOK, States, ReaderStates
    <3>2. running' \in BOOLEAN BY <1>0, <1>7, Zenon DEF TypeOK
    <3> QED BY <1>0, <1>1, <1>2, <1>4, <1>5, <1>7, <2>1, <3>1, <3>2 DEF TypeOK, gateway
  <2>3. Stopped'
    <3>1. CASE ~running /\ reader' = "done" /\ state' = state
      <4>1. closing' = "no" => state' = "closed" BY <1>0, <1>1, <3>1, Zenon DEF Stopped
      <4>2. ~running' BY <1>7, <3>1, Zenon
      <4>3. reader' # "giveup" /\ reader' # "raised" BY <3>1
      <4> QED BY <3>1, <4>1, <4>2, <4>3, Zenon DEF Stopped
    <3>2. CASE running /\ reader' = "connect"
      <4>1. running' BY <1>7, <3>2, Zenon
      <4>2. reader' # "done" /\ reader' # "giveup" /\ reader' # "raised" BY <3>2
      <4> QED BY <4>1, <4>2, Zenon DEF Stopped
    <3> QED BY <1>7, <3>1, <3>2, Zenon
  <2> QED BY <2>1, <2>2, <2>3 DEF FixInv
<1>8. ASSUME Go("done"), ~running
      PROVE  /\ reader' \in {"done", "connect"} /\ UNCHANGED <<running, attempt>>
             /\ ~running /\ reader' = "done" /\ UNCHANGED <<state, sock>>
  BY <1>8 DEF Go
<1> QED BY <1>1, <1>6, <1>7, <1>8

\* Out of attempts, the session is closed, and the loop leaves.
LEMMA GiveUpKeeps == ASSUME FixInv, GiveUp PROVE FixInv'
<1>0. TypeOK /\ Places /\ Stopped BY DEF FixInv
<1>1. /\ reader = "giveup" /\ reader' = "done" /\ running' = FALSE
      /\ UNCHANGED <<retrans, missed, state, sock, attempt, loggedOn, probing, outSeq, numbers,
                     leaked, conns, beating, closing, peer, up, down, gateway, last, spent>>
  BY Zenon DEF GiveUp
<1>2. Still /\ Speaks /\ Hears BY <1>1, Silent DEF Still, Hears
<1>3. UNCHANGED <<inSeq, pending, asked>> BY <1>1 DEF numbers
<1>4. ~loggedOn => attempt' = 0 BY <1>0, <1>1, Zenon DEF Places
<1>5. /\ up' \in Seq(Upward) /\ outSeq' \in Nat \ {0} /\ down' \in Seq(Downward)
      /\ Places' /\ OneLogon' /\ DownHonest' /\ PendingHonest' /\ UpHonest'
      /\ LogHonest' /\ Watermark'
  BY <1>1, <1>2, <1>3, <1>4, Retreat
<1>6. TypeOK'
  <2>1. running' \in BOOLEAN BY <1>1, Zenon
  <2> QED BY <1>0, <1>1, <1>3, <1>5, <2>1 DEF TypeOK, gateway, ReaderStates
<1>7. Stopped'
  <2>1. closing' = "no" => state' = "closed" BY <1>0, <1>1, Zenon DEF Stopped
  <2>2. reader' # "giveup" /\ reader' # "raised" BY <1>1
  <2> QED BY <1>1, <2>1, <2>2, Zenon DEF Stopped
<1> QED BY <1>5, <1>6, <1>7 DEF FixInv

\* An exception of on_state_change ends the task where nothing catches it.
LEMMA RaisesKeeps == ASSUME FixInv, CallbackRaises PROVE FixInv'
<1>0. TypeOK /\ Places /\ Stopped BY DEF FixInv
<1>1. /\ reader = "giveup" \/ (reader = "backoff" /\ state = "reconnecting")
      /\ reader' = "raised" /\ UNCHANGED <<state, running, sock, attempt>>
      /\ UNCHANGED <<retrans, missed, loggedOn, probing, outSeq, numbers, leaked, conns,
                     beating, closing, peer, up, down, gateway, last>>
  BY DEF CallbackRaises, Go
<1>2. Still /\ Speaks /\ Hears BY <1>1, Silent DEF Still, Hears
<1>3. UNCHANGED <<inSeq, pending, asked>> BY <1>1 DEF numbers
<1>4. ~loggedOn => attempt' = 0 BY <1>0, <1>1, Zenon DEF Places
<1>5. /\ up' \in Seq(Upward) /\ outSeq' \in Nat \ {0} /\ down' \in Seq(Downward)
      /\ Places' /\ OneLogon' /\ DownHonest' /\ PendingHonest' /\ UpHonest'
      /\ LogHonest' /\ Watermark'
  BY <1>1, <1>2, <1>3, <1>4, Retreat
<1>6. spent' \in Nat BY <1>0 DEF CallbackRaises, Fault, TypeOK
<1>7. TypeOK' BY <1>0, <1>1, <1>3, <1>5, <1>6 DEF TypeOK, gateway, ReaderStates
<1>8. Stopped'
  <2>1. reader # "deliver" /\ reader # "drain" /\ reader # "done" BY <1>1
  <2>2. closing = "no" => running /\ (reader = "giveup" => state = "closed")
    BY <1>0, <2>1 DEF Stopped
  <2>3. closing' = "no" => running' /\ state' \in {"reconnecting", "closed"}
    BY <1>1, <2>2, Zenon
  <2>4. reader' # "giveup" /\ reader' # "done" BY <1>1
  <2> QED BY <2>3, <2>4, Zenon DEF Stopped
<1> QED BY <1>5, <1>7, <1>8 DEF FixInv

\* A connection opens; a session that is not resumed starts from 1.
LEMMA OpenKeeps == ASSUME FixInv, Open PROVE FixInv'
<1>0. TypeOK /\ Places /\ PendingHonest /\ UpHonest /\ LogHonest /\ Watermark /\ Stopped
  BY DEF FixInv
<1>1. /\ reader = "connect" /\ reader' = "greet" /\ state' = "logging_on" /\ sock' = "open"
      /\ peer' = "up" /\ up' = <<>> /\ down' = <<>> /\ ~greeted' /\ ResetNumbers
      /\ UNCHANGED <<retrans, missed, running, loggedOn, probing, leaked, attempt, beating,
                     closing, expected, asking, log, made, fresh, last, spent>>
  BY Zenon DEF Open
<1>2. conns' \in Nat /\ greeted' \in BOOLEAN
  <2>1. conns' \in Nat BY <1>0 DEF Open, TypeOK
  <2>2. greeted' \in BOOLEAN BY Zenon DEF Open
  <2> QED BY <2>1, <2>2
<1>3. \/ /\ Resetting /\ outSeq' = 1 /\ inSeq' = 1 /\ pending' = {} /\ asked' = FALSE
      \/ /\ ~Resetting /\ outSeq' = outSeq /\ inSeq' = inSeq /\ pending' = pending
         /\ asked' = asked
  BY <1>1, Zenon DEF ResetNumbers, numbers
<1>4. DOMAIN up' = {} /\ DOMAIN down' = {} BY <1>1
<1>5. TypeOK'
  <2>1. outSeq' \in Nat \ {0} /\ inSeq' \in Nat \ {0} /\ pending' \in SUBSET Downward
    BY <1>0, <1>3 DEF TypeOK
  <2>2. asked' \in BOOLEAN BY <1>0, <1>3, Zenon DEF TypeOK
  <2>3. up' \in Seq(Upward) /\ down' \in Seq(Downward) BY <1>1
  <2> QED BY <1>0, <1>1, <1>2, <2>1, <2>2, <2>3 DEF TypeOK, States, ReaderStates
<1>6. Places'
  <2>1. (~loggedOn => made = 0 /\ fresh = 0 /\ attempt = 0) BY <1>0, <1>1, Zenon DEF Places
  <2>2. Resetting' => Resetting BY <1>1, Zenon DEF Resetting
  <2>3. Resetting' => inSeq' = 1 /\ pending' = {} BY <1>3, <2>2
  <2>4. /\ ~loggedOn' => ~greeted' /\ made' = 0 /\ fresh' = 0 /\ attempt' = 0
    BY <1>1, <2>1, Zenon
  <2>5. reader' = "greet" /\ reader' \notin Sessioned /\ reader' # "backoff" BY <1>1 DEF Sessioned
  <2> QED BY <1>1, <1>4, <2>3, <2>4, <2>5, Zenon DEF Places
<1>7. OneLogon' /\ DownHonest' BY <1>1, <1>4, Zenon DEF OneLogon, DownHonest
<1>8. PendingHonest'
  <2>1. CASE pending' = {} BY <2>1 DEF PendingHonest
  <2>2. CASE pending' = pending /\ outSeq' = outSeq /\ inSeq' = inSeq
    <3>1. \A f \in pending : f.seq > inSeq BY <1>0, <1>1 DEF PendingHonest
    <3> QED BY <1>0, <1>1, <2>2, <3>1 DEF PendingHonest, Truthful
  <2> QED BY <1>3, <2>1, <2>2
<1>9. UpHonest'
  <2>1. retrans' /\ loggedOn' => expected' <= outSeq'
    <3>1. CASE Resetting BY <1>1, <3>1, Zenon DEF Resetting
    <3>2. CASE ~Resetting /\ outSeq' = outSeq BY <1>0, <1>1, <3>2 DEF UpHonest
    <3> QED BY <1>3, <3>1, <3>2
  <2>2. expected' >= 1 BY <1>0, <1>1 DEF UpHonest
  <2>3. (greeted' \/ (retrans' /\ loggedOn')) => expected' <= outSeq' BY <1>1, <2>1, Zenon
  <2> QED BY <1>1, <1>4, <2>2, <2>3, Zenon DEF UpHonest
<1>10. LogHonest' BY <1>0, <1>1 DEF LogHonest
<1>11. Watermark'
  <2>1. inSeq' <= Len(log') + 1
    <3>1. Len(log) \in Nat /\ log' = log BY <1>0, <1>1 DEF TypeOK
    <3> QED BY <1>0, <1>3, <3>1 DEF Watermark, NextSeq
  <2>2. last' <= made' BY <1>0, <1>1 DEF Watermark
  <2>3. ASSUME retrans', NEW n \in DOMAIN log', log'[n] # 0
        PROVE  log'[n] <= last' <=> n < inSeq'
    <3>1. CASE Resetting
      <4>1. ~loggedOn BY <1>1, <2>3, <3>1, Zenon DEF Resetting
      <4>2. made = 0 /\ fresh = 0 BY <1>0, <1>1, <4>1, Zenon DEF Places
      <4>3. log[n] \in (fresh + 1)..made BY <1>0, <1>1, <2>3 DEF LogHonest
      <4> QED BY <4>2, <4>3
    <3>2. CASE ~Resetting /\ inSeq' = inSeq
      <4>1. reader \notin {"deliver", "giveup", "done", "raised"} BY <1>1
      <4>2. retrans BY <1>1, <2>3, Zenon
      <4> QED BY <1>0, <1>1, <2>3, <3>2, <4>1, <4>2 DEF Watermark
    <3> QED BY <1>3, <3>1, <3>2
  <2>4. reader' # "deliver" /\ ~greeted' BY <1>1
  <2> QED BY <2>1, <2>2, <2>3, <2>4 DEF Watermark, NextSeq
<1>12. Stopped'
  <2>1. running \/ closing # "no" BY <1>0, <1>1 DEF Stopped
  <2>2. running' \/ closing' # "no" BY <1>1, <2>1, Zenon
  <2>3. reader' # "done" /\ reader' # "giveup" /\ reader' # "raised" BY <1>1
  <2> QED BY <2>2, <2>3, Zenon DEF Stopped
<1> QED BY <1>5, <1>6, <1>7, <1>8, <1>9, <1>10, <1>11, <1>12 DEF FixInv

\* The Logon is sent.
LEMMA SendLogonKeeps == ASSUME FixInv, SendLogon PROVE FixInv'
<1>0. /\ TypeOK /\ Places /\ OneLogon /\ DownHonest /\ PendingHonest /\ UpHonest /\ LogHonest
      /\ Watermark /\ Stopped
  BY DEF FixInv
<1>1. /\ reader = "greet"
      /\ UNCHANGED <<retrans, missed, loggedOn, probing, numbers, leaked, conns, beating,
                     closing, peer, down, gateway, last>>
      /\ \/ Sent("logon", IF Resetting THEN 1 ELSE 0) /\ Go("logon") /\ UNCHANGED spent
         \/ NotSent /\ AttemptFailed /\ UNCHANGED spent
         \/ Fault("raise") /\ AttemptFailed /\ UNCHANGED <<outSeq, up>>
  BY Zenon DEF SendLogon
<1>2. /\ Still /\ Hears
      /\ UNCHANGED <<inSeq, pending, asked>>
  BY <1>1 DEF Still, Hears, numbers
<1>3. CASE AttemptFailed /\ (NotSent \/ UNCHANGED <<outSeq, up>>)
  <2>1. NotSent => Uttered("app", 0) BY Utters
  <2>2. Speaks BY <1>3, <2>1, Silent DEF Speaks, Kinds
  <2>3. asked' \in BOOLEAN /\ missed' \in BOOLEAN BY <1>0, <1>1, <1>2, Zenon DEF TypeOK
  <2>4. spent' \in Nat /\ leaked' \in Nat BY <1>0, <1>1 DEF TypeOK, Fault
  <2>5. AttemptFailedAt(state) /\ state \in States BY <1>0, <1>3 DEF AttemptFailed, TypeOK
  <2>6. reader \in {"connect", "greet", "logon", "resume", "backoff"} BY <1>1
  <2> QED BY <1>1, <1>2, <2>2, <2>3, <2>4, <2>5, <2>6, FailedAttemptKeeps
<1>4. CASE Sent("logon", IF Resetting THEN 1 ELSE 0) /\ Go("logon") /\ UNCHANGED spent
  <2> DEFINE v == IF Resetting THEN 1 ELSE 0
             new == [type |-> "logon", seq |-> outSeq, val |-> v]
  <2>0. /\ reader' = "logon" /\ UNCHANGED <<state, running, sock, attempt>> BY <1>4 DEF Go
  <2>1. Uttered("logon", v) BY <1>4, Utters
  <2>2. v \in Nat /\ (v = 1 => Resetting) /\ (v # 1 => v = 0 /\ ~Resetting) OBVIOUS
  <2>3. up' = up \/ up' = Append(up, new) BY <2>1 DEF Uttered
  <2>4. new.type = "logon" /\ new.val = v /\ new.seq = outSeq OBVIOUS
  <2> HIDE DEF v, new
  <2>5. /\ up' \in Seq(Upward) /\ outSeq' \in Nat \ {0} /\ outSeq <= outSeq' /\ UpHonest'
    <3>1. "logon" \in Kinds \ {"gapfill"} BY DEF Kinds
    <3>2. retrans /\ loggedOn' => greeted \/ loggedOn BY <1>1, Zenon
    <3> QED BY <1>0, <1>2, <2>1, <2>2, <3>1, <3>2, UtterKeeps
  <2>6. /\ greeted' = greeted /\ made' = made /\ fresh' = fresh /\ log' = log
        /\ retrans' = retrans /\ expected' = expected /\ down' = down /\ loggedOn' = loggedOn
    BY <1>1 DEF gateway
  <2>7. ~greeted /\ down = <<>> /\ \A i \in DOMAIN up : up[i].type # "logon"
    BY <1>0, <1>1 DEF Places
  <2>8. \A i \in DOMAIN up' : up'[i].type = "logon" => i = Len(up) + 1 /\ up'[i] = new
    <3>1. CASE up' = up BY <2>7, <3>1
    <3>2. CASE up' = Append(up, new)
      <4>1. up \in Seq(Upward) /\ Len(up) \in Nat BY <1>0 DEF TypeOK
      <4>2. \A i \in DOMAIN up' : IF i = Len(up) + 1 THEN up'[i] = new
                                                    ELSE i \in DOMAIN up /\ up'[i] = up[i]
        BY <3>2, <4>1
      <4> QED BY <2>7, <4>2
    <3> QED BY <2>3, <3>1, <3>2
  <2>9. Resetting => /\ inSeq = 1 /\ pending = {}
                     /\ retrans => ~loggedOn /\ made = 0 /\ fresh = 0
    <3>1. Resetting => inSeq = 1 /\ pending = {} BY <1>0, <1>1, Zenon DEF Places
    <3>2. Resetting /\ retrans => ~loggedOn BY Zenon DEF Resetting
    <3>3. ~loggedOn => made = 0 /\ fresh = 0 BY <1>0, <1>1, Zenon DEF Places
    <3> QED BY <3>1, <3>2, <3>3, Zenon
  <2>10. ~Resetting => retrans /\ expected <= outSeq BY <1>0 DEF Resetting, UpHonest
  <2>11. OneLogon'
    <3>1. \A i, j \in DOMAIN up' : up'[i].type = "logon" /\ up'[j].type = "logon" => i = j
      BY <2>8
    <3>2. ASSUME NEW i \in DOMAIN up', up'[i].type = "logon"
          PROVE  /\ down' = <<>>
                 /\ up'[i].val = 1 => /\ inSeq' = 1 /\ pending' = {}
                                      /\ retrans' => ~loggedOn' /\ made' = 0 /\ fresh' = 0
                 /\ up'[i].val # 1 => retrans' /\ up'[i].val = 0 /\ expected' <= up'[i].seq
      <4>1. up'[i].val = v /\ up'[i].seq = outSeq BY <2>4, <2>8, <3>2
      <4>2. v = 1 => /\ inSeq' = 1 /\ pending' = {}
                     /\ retrans' => ~loggedOn' /\ made' = 0 /\ fresh' = 0
        BY <1>2, <2>2, <2>6, <2>9
      <4>3. v # 1 => retrans' /\ v = 0 /\ expected' <= outSeq BY <2>2, <2>6, <2>10
      <4> QED BY <2>6, <2>7, <4>1, <4>2, <4>3
    <3> QED BY <3>1, <3>2 DEF OneLogon
  <2>12. DOMAIN down' = {} BY <2>6, <2>7
  <2>13. DownHonest' BY <2>12, Zenon DEF DownHonest
  <2>14. Places'
    <3>1. reader' \notin Sessioned /\ reader' \notin {"connect", "greet", "backoff"}
      BY <2>0 DEF Sessioned
    <3>2. ~loggedOn' => attempt' = 0 BY <1>0, <2>0, <2>6, Zenon DEF Places
    <3> QED BY <3>1, <3>2 DEF Places
  <2>15. PendingHonest'
    <3>1. \A f \in pending' : Tells(f, log', outSeq')
      BY <1>0, <1>2, <2>5, TruthStands DEF PendingHonest, TypeOK
    <3>2. \A f \in pending' : f.seq > inSeq' BY <1>0, <1>1, <1>2 DEF PendingHonest
    <3>3. \A f, g \in pending' : f.seq = g.seq => f = g BY <1>0, <1>2 DEF PendingHonest
    <3>4. reader' # "drain" BY <2>0
    <3> QED BY <2>12, <3>1, <3>2, <3>3, <3>4 DEF PendingHonest, Truthful
  <2>16. LogHonest' BY <1>0, <2>6 DEF LogHonest
  <2>17. Watermark' BY <1>0, <1>1, <1>2, <2>0, <2>6 DEF Watermark, NextSeq
  <2>18. TypeOK'
    <3>1. /\ UNCHANGED <<running, asked, probing, beating, greeted, asking, retrans, missed>>
          /\ UNCHANGED loggedOn
      BY <1>1, <1>2, <2>0 DEF gateway
    <3>2. /\ running' \in BOOLEAN /\ asked' \in BOOLEAN /\ probing' \in BOOLEAN
          /\ beating' \in BOOLEAN /\ greeted' \in BOOLEAN /\ asking' \in BOOLEAN
          /\ retrans' \in BOOLEAN /\ loggedOn' \in BOOLEAN /\ missed' \in BOOLEAN
      BY <1>0, <3>1, Zenon DEF TypeOK
    <3> QED BY <1>0, <1>1, <1>2, <1>4, <2>0, <2>5, <3>2 DEF TypeOK, ReaderStates, gateway
  <2>19. Stopped'
    <3>1. running \/ closing # "no" BY <1>0, <1>1 DEF Stopped
    <3>2. running' \/ closing' # "no" BY <1>1, <2>0, <3>1, Zenon
    <3>3. reader' # "done" /\ reader' # "giveup" /\ reader' # "raised" BY <2>0
    <3> QED BY <3>2, <3>3, Zenon DEF Stopped
  <2> QED BY <2>5, <2>11, <2>13, <2>14, <2>15, <2>16, <2>17, <2>18, <2>19 DEF FixInv
<1> QED BY <1>1, <1>3, <1>4

-----------------------------------------------------------------------------
\* The watermark passes over what is not an application message; what waits
\* stays ahead of it.
LEMMA Advance ==
    ASSUME FixInv, Still, Hears, Speaks, greeted, loggedOn', last' = last,
           reader \notin {"deliver", "giveup", "done", "raised"},
           reader' \in {"resume", "read", "drain", "done", "backoff", "giveup"},
           inSeq' \in inSeq..NextSeq, \A k \in inSeq..(inSeq' - 1) : log[k] = 0,
           pending' \in SUBSET Downward, \A g \in pending' : Truthful(g),
           \A g, h \in pending' : g.seq = h.seq => g = h,
           reader' = "drain" => \A g \in pending' : g.seq >= inSeq',
           reader' \in {"resume", "read", "backoff"} => \A g \in pending' : g.seq > inSeq'
    PROVE  /\ up' \in Seq(Upward) /\ outSeq' \in Nat \ {0} /\ down' \in Seq(Downward)
           /\ Places' /\ OneLogon' /\ DownHonest' /\ PendingHonest' /\ UpHonest'
           /\ LogHonest' /\ Watermark'
<1>0. TypeOK /\ Places /\ PendingHonest /\ Watermark BY DEF FixInv
<1>1. /\ up' \in Seq(Upward) /\ outSeq' \in Nat \ {0} /\ down' \in Seq(Downward)
      /\ UpHonest' /\ DownHonest' /\ OneLogon' /\ LogHonest'
      /\ \A f \in Downward : Truthful(f) => Tells(f, log', outSeq')
  BY ClientStep
<1>2. /\ greeted' = greeted /\ made' = made /\ fresh' = fresh /\ log' = log /\ retrans' = retrans
  BY DEF Still, gateway
<1>3. Places'
  <2>1. greeted' /\ loggedOn' BY <1>2, Zenon
  <2>2. reader' # "greet" /\ reader' # "connect" OBVIOUS
  <2> QED BY <2>1, <2>2, Zenon DEF Places
<1>4. PendingHonest'
  <2>1. \A f \in pending' : Tells(f, log', outSeq') BY <1>1
  <2>2. reader' # "logon" OBVIOUS
  <2>3. reader' \notin {"drain", "giveup", "done", "raised"} => \A f \in pending' : f.seq > inSeq' OBVIOUS
  <2> QED BY <2>1, <2>2, <2>3 DEF PendingHonest, Truthful
<1>5. Watermark'
  <2>1. log \in Seq(Nat) /\ Len(log) \in Nat /\ inSeq \in Nat /\ inSeq' \in Nat
    BY <1>0 DEF TypeOK, NextSeq
  <2>2. ASSUME NEW n \in DOMAIN log, log[n] # 0 PROVE n < inSeq <=> n < inSeq'
    <3>1. n \in Nat /\ inSeq <= inSeq' BY <2>1
    <3>2. n \notin inSeq..(inSeq' - 1) BY <2>2
    <3> QED BY <2>1, <3>1, <3>2
  <2>3. \A n \in DOMAIN log : log[n] # 0 => (log[n] <= last <=> n < inSeq)
    BY <1>0 DEF Watermark
  <2>4. inSeq' <= Len(log') + 1 BY <1>2, <2>1 DEF NextSeq
  <2>5. \A n \in DOMAIN log' : log'[n] # 0 => (log'[n] <= last' <=> n < inSeq')
    BY <1>2, <2>2, <2>3
  <2>6. last' <= made' BY <1>0, <1>2 DEF Watermark
  <2>7. reader' # "deliver" OBVIOUS
  <2> QED BY <2>4, <2>5, <2>6, <2>7 DEF Watermark, NextSeq
<1> QED BY <1>1, <1>3, <1>4, <1>5

\* The receive task goes on, in a session that may have been stopped.
LEMMA GoStopped ==
    ASSUME TypeOK, Stopped, closing' = closing
    PROVE  /\ \A place \in {"deliver", "drain", Top} : Go(place) => Stopped'
           /\ reader \notin {"deliver", "drain", "done"} /\ Go("read") => Stopped'
<1>1. ASSUME NEW place, Go(place), ~running, place \in {"deliver", "drain", "done"} PROVE Stopped'
  <2>1. state' = state /\ ~running' /\ reader' = place BY <1>1, Zenon DEF Go
  <2>2. closing = "no" => state = "closed" BY <1>1, Zenon DEF Stopped
  <2>3. reader' \in {"deliver", "drain", "done"} BY <1>1, <2>1
  <2>4. reader' # "giveup" /\ reader' # "raised" BY <2>3
  <2> QED BY <2>1, <2>2, <2>3, <2>4, Zenon DEF Stopped
<1>2. ASSUME NEW place, Go(place), running \/ closing # "no",
             place # "done" /\ place # "giveup" /\ place # "raised"
      PROVE  Stopped'
  <2>1. (running' \/ closing' # "no") /\ reader' = place BY <1>2, Zenon DEF Go
  <2> QED BY <1>2, <2>1, Zenon DEF Stopped
<1>3. ASSUME NEW place \in {"deliver", "drain", Top}, Go(place) PROVE Stopped'
  <2>1. CASE running
    <3>1. place # "done" /\ place # "giveup" /\ place # "raised" BY <1>3, <2>1 DEF Top
    <3> QED BY <1>2, <1>3, <2>1, <3>1, Zenon
  <2>2. CASE ~running
    <3>1. place \in {"deliver", "drain", "done"} BY <1>3, <2>2 DEF Top
    <3> QED BY <1>1, <1>3, <2>2, <3>1, Zenon
  <2> QED BY <2>1, <2>2
<1>4. ASSUME reader \notin {"deliver", "drain", "done"}, Go("read") PROVE Stopped'
  <2>1. running \/ closing # "no" BY <1>4, Zenon DEF Stopped
  <2>2. "read" # "done" /\ "read" # "giveup" /\ "read" # "raised" OBVIOUS
  <2> QED BY <1>2, <1>4, <2>1, <2>2, Zenon
<1> QED BY <1>3, <1>4

\* What is left of the type invariant after a step of the receive task.
LEMMA ReaderTyped ==
    ASSUME TypeOK, Still, UNCHANGED <<leaked, conns, closing, peer>>,
           missed' \in BOOLEAN, spent' \in Nat,
           state' \in States, running' \in BOOLEAN, sock' \in {"none", "open", "closed"},
           reader' \in ReaderStates, attempt' \in Nat,
           up' \in Seq(Upward), down' \in Seq(Downward),
           outSeq' \in Nat \ {0}, inSeq' \in Nat \ {0}, last' \in Nat,
           pending' \in SUBSET Downward, asked' \in BOOLEAN, probing' \in BOOLEAN,
           beating' \in BOOLEAN, loggedOn' \in BOOLEAN
    PROVE  TypeOK'
<1>1. UNCHANGED <<retrans, greeted, expected, asking, log, made, fresh>>
  BY DEF Still, gateway
<1> QED BY <1>1 DEF TypeOK

\* The answer to the Logon.
LEMMA LogonAnsweredKeeps == ASSUME FixInv, LogonAnswered PROVE FixInv'
<1>0. /\ TypeOK /\ Places /\ DownHonest /\ PendingHonest /\ Watermark /\ Stopped
  BY DEF FixInv
<1> DEFINE f == Head(down)
<1>1. /\ reader = "logon" /\ down # <<>> /\ down' = Tail(down)
      /\ UNCHANGED <<retrans, missed, outSeq, leaked, conns, closing, peer, up, gateway, last>>
      /\ \/ LogonRefused
         \/ /\ f.type = "logon" /\ f.seq = inSeq
            /\ inSeq' = inSeq + 1 /\ UNCHANGED <<pending, asked>>
            /\ LoggedOn("read")
         \/ /\ f.type = "logon" /\ f.seq > inSeq /\ retrans
            /\ pending' = {g \in pending : g.seq # f.seq} \cup {f}
            /\ UNCHANGED <<inSeq, asked>>
            /\ LoggedOn("resume")
  BY Zenon DEF LogonAnswered
<1>2. Still /\ Hears /\ Speaks BY <1>1, Silent DEF Still, Hears
<1>3. 1 \in DOMAIN down /\ f = down[1] /\ f \in Downward
  <2>1. down \in Seq(Downward) BY <1>0 DEF TypeOK
  <2> QED BY <1>1, <2>1
<1> HIDE DEF f
<1>9. missed' \in BOOLEAN BY <1>0, <1>1, Zenon DEF TypeOK
<1>4. CASE LogonRefused
  <2>1. /\ AttemptFailedAt(state) /\ state \in States
        /\ UNCHANGED <<inSeq, pending, asked, loggedOn, probing, beating, spent>>
    BY <1>0, <1>4 DEF LogonRefused, AttemptFailed, numbers, TypeOK
  <2>2. asked' \in BOOLEAN BY <1>0, <2>1, Zenon DEF TypeOK
  <2>3. spent' \in Nat /\ leaked' \in Nat BY <1>0, <1>1, <2>1 DEF TypeOK
  <2>4. reader \in {"connect", "greet", "logon", "resume", "backoff"} BY <1>1
  <2> QED BY <1>1, <1>2, <1>9, <2>1, <2>2, <2>3, <2>4, FailedAttemptKeeps
<1>5. ASSUME NEW place \in {"read", "resume"}, f.type = "logon", LoggedOn(place), asked' = asked,
             \/ place = "read" /\ f.seq = inSeq /\ inSeq' = inSeq + 1 /\ pending' = pending
             \/ /\ place = "resume" /\ f.seq > inSeq /\ inSeq' = inSeq
                /\ pending' = {g \in pending : g.seq # f.seq} \cup {f}
      PROVE  FixInv'
  <2>1. greeted /\ Truthful(f) BY <1>0, <1>3, <1>5 DEF DownHonest
  <2>2. /\ loggedOn' = TRUE /\ probing' = FALSE
        /\ \/ /\ state' = "active" /\ reader' = place
              /\ beating' = (beating \/ attempt = 0) /\ UNCHANGED <<running, sock, attempt, spent>>
           \/ Fault("raise") /\ AttemptFailedAt("active") /\ UNCHANGED beating
    BY <1>5, Zenon DEF LoggedOn
  <2>14. "active" \in States BY DEF States
  <2>3. f.seq \in 1..Len(log) /\ log[f.seq] = 0 BY <1>5, <2>1 DEF Truthful, Tells
  <2>4. inSeq \in Nat \ {0} /\ Len(log) \in Nat /\ pending \in SUBSET Downward
    BY <1>0 DEF TypeOK
  <2>5. \A g \in pending : g.seq > inSeq /\ g.seq < f.seq /\ g.seq \in Nat
    BY <1>0, <1>1, <1>3, <1>5, <2>4 DEF PendingHonest, Downward
  <2>6. \A g, h \in pending : g.seq = h.seq => g = h BY <1>0 DEF PendingHonest
  <2>7. \A g \in pending : Truthful(g) BY <1>0 DEF PendingHonest
  <2>8. /\ inSeq' \in inSeq..NextSeq /\ inSeq' \in Nat \ {0}
        /\ \A k \in inSeq..(inSeq' - 1) : log[k] = 0
    BY <1>0, <1>5, <2>3, <2>4 DEF Watermark, NextSeq
  <2>9. /\ pending' \in SUBSET Downward /\ \A g \in pending' : Truthful(g) /\ g.seq > inSeq'
        /\ \A g, h \in pending' : g.seq = h.seq => g = h
    <3>1. CASE place = "read" /\ f.seq = inSeq /\ inSeq' = inSeq + 1 /\ pending' = pending
      <4>1. pending = {} BY <2>4, <2>5, <3>1
      <4> QED BY <3>1, <4>1
    <3>2. CASE /\ f.seq > inSeq /\ inSeq' = inSeq
               /\ pending' = {g \in pending : g.seq # f.seq} \cup {f}
      <4>1. \A g \in pending' : g = f \/ (g \in pending /\ g.seq # f.seq) BY <3>2
      <4> HIDE <3>2
      <4>2. pending' \in SUBSET Downward BY <1>3, <2>4, <4>1
      <4>3. \A g \in pending' : Truthful(g) /\ g.seq > inSeq' BY <2>1, <2>5, <2>7, <3>2, <4>1
      <4>4. \A g, h \in pending' : g.seq = h.seq => g = h BY <2>6, <4>1
      <4> QED BY <4>2, <4>3, <4>4
    <3> QED BY <1>5, <3>1, <3>2
  <2>15. reader' \in {"resume", "read", "done", "backoff", "giveup"} /\ loggedOn'
    <3>1. AttemptFailedAt("active") => reader' \in {"backoff", "giveup", "done"}
      BY <1>0, <2>14, Ends
    <3> QED BY <2>2, <3>1
  <2>10. /\ reader \notin {"deliver", "giveup", "done", "raised"} /\ last' = last
         /\ reader' \in {"resume", "read", "drain", "done", "backoff", "giveup"}
         /\ reader' # "drain"
    BY <1>1, <2>15
  <2>11. /\ up' \in Seq(Upward) /\ outSeq' \in Nat \ {0} /\ down' \in Seq(Downward)
         /\ Places' /\ OneLogon' /\ DownHonest' /\ PendingHonest' /\ UpHonest'
         /\ LogHonest' /\ Watermark'
    BY <1>2, <2>1, <2>8, <2>9, <2>10, <2>15, Advance
  <2>12. TypeOK'
    <3>1. UNCHANGED <<leaked, conns, closing, peer>> BY <1>1
    <3>2. /\ asked' \in BOOLEAN /\ probing' \in BOOLEAN /\ beating' \in BOOLEAN
          /\ loggedOn' \in BOOLEAN
      BY <1>0, <1>5, <2>2, Zenon DEF TypeOK
    <3>3. spent' \in Nat /\ last' \in Nat BY <1>0, <2>2, <2>10 DEF TypeOK, Fault
    <3>4. /\ state' \in States /\ running' \in BOOLEAN /\ sock' \in {"none", "open", "closed"}
          /\ reader' \in ReaderStates /\ attempt' \in Nat
      <4>1. CASE AttemptFailedAt("active") BY <1>0, <2>14, <4>1, EndsTyped DEF ReaderStates
      <4>2. CASE /\ state' = "active" /\ reader' = place
                 /\ UNCHANGED <<running, sock, attempt>>
        <5>1. running' \in BOOLEAN BY <1>0, <4>2, Zenon DEF TypeOK
        <5> QED BY <1>0, <4>2, <5>1 DEF TypeOK, States, ReaderStates
      <4> QED BY <2>2, <4>1, <4>2
    <3> QED BY <1>0, <1>2, <1>9, <2>8, <2>9, <2>11, <3>1, <3>2, <3>3, <3>4, ReaderTyped
  <2>13. Stopped'
    <3>1. CASE AttemptFailedAt("active")
      <4>1. reader \notin {"deliver", "drain", "done"} /\ closing' = closing BY <1>1
      <4> QED BY <1>0, <2>14, <3>1, <4>1, EndsStopped
    <3>2. CASE reader' = place /\ running' = running
      <4>1. running \/ closing # "no" BY <1>0, <1>1 DEF Stopped
      <4>2. running' \/ closing' # "no" BY <1>1, <3>2, <4>1, Zenon
      <4>3. reader' # "done" /\ reader' # "giveup" /\ reader' # "raised" BY <3>2
      <4> QED BY <4>2, <4>3, Zenon DEF Stopped
    <3> QED BY <2>2, <3>1, <3>2
  <2> QED BY <2>11, <2>12, <2>13 DEF FixInv
<1>6. CASE /\ f.type = "logon" /\ f.seq = inSeq
           /\ inSeq' = inSeq + 1 /\ UNCHANGED <<pending, asked>>
           /\ LoggedOn("read")
  BY <1>5, <1>6
<1>7. CASE /\ f.type = "logon" /\ f.seq > inSeq /\ retrans
           /\ pending' = {g \in pending : g.seq # f.seq} \cup {f}
           /\ UNCHANGED <<inSeq, asked>>
           /\ LoggedOn("resume")
  BY <1>5, <1>7
<1> QED BY <1>1, <1>4, <1>6, <1>7

\* The resend asked for when a session resumes behind a gap.
LEMMA ResumeKeeps == ASSUME FixInv, Resume PROVE FixInv'
<1>0. TypeOK /\ Places /\ Stopped BY DEF FixInv
<1>1. /\ reader = "resume"
      /\ UNCHANGED <<retrans, missed, loggedOn, probing, inSeq, pending, leaked, conns, beating,
                     closing, peer, down, gateway, last, spent>>
      /\ AskResend(Go("read"), AttemptFailed)
  BY Zenon DEF Resume
<1>2. /\ asked' \in BOOLEAN /\ missed' \in BOOLEAN
      /\ \/ Go("read") /\ (UNCHANGED <<outSeq, up>> \/ Sent("resend", inSeq))
         \/ AttemptFailed /\ NotSent
  BY <1>0, <1>1, Zenon DEF AskResend, TypeOK
<1>3. Still /\ Hears BY <1>1 DEF Still, Hears
<1>4. UNCHANGED <<outSeq, up>> \/ Uttered("resend", inSeq) BY <1>2, Utters
<1>5. Speaks
  <2>1. inSeq \in Nat /\ inSeq >= 1 BY <1>0 DEF TypeOK
  <2> QED BY <1>4, <2>1, Silent DEF Speaks, Kinds
<1>6. CASE AttemptFailed
  <2>1. spent' \in Nat /\ leaked' \in Nat BY <1>0, <1>1 DEF TypeOK
  <2>2. AttemptFailedAt(state) /\ state \in States BY <1>0, <1>6 DEF AttemptFailed, TypeOK
  <2> QED BY <1>1, <1>2, <1>3, <1>5, <2>1, <2>2, FailedAttemptKeeps
<1>7. CASE Go("read")
  <2>1. reader' = "read" /\ UNCHANGED <<state, running, sock, attempt>> BY <1>7 DEF Go
  <2>2. /\ up' \in Seq(Upward) /\ outSeq' \in Nat \ {0} /\ down' \in Seq(Downward)
        /\ Places' /\ OneLogon' /\ DownHonest' /\ PendingHonest' /\ UpHonest'
        /\ LogHonest' /\ Watermark'
    BY <1>1, <1>3, <1>5, <2>1, MoveOn
  <2>3. TypeOK'
    <3>1. /\ running' \in BOOLEAN /\ probing' \in BOOLEAN /\ beating' \in BOOLEAN
          /\ loggedOn' \in BOOLEAN
      BY <1>0, <1>1, <2>1, Zenon DEF TypeOK
    <3>2. /\ state' \in States /\ sock' \in {"none", "open", "closed"} /\ reader' \in ReaderStates
          /\ attempt' \in Nat /\ inSeq' \in Nat \ {0} /\ pending' \in SUBSET Downward
          /\ last' \in Nat /\ spent' \in Nat
      BY <1>0, <1>1, <2>1 DEF TypeOK, ReaderStates
    <3> QED BY <1>0, <1>1, <1>2, <1>3, <2>2, <3>1, <3>2, ReaderTyped
  <2>4. Stopped' BY <1>0, <1>1, <1>7, GoStopped
  <2> QED BY <2>2, <2>3, <2>4 DEF FixInv
<1> QED BY <1>2, <1>6, <1>7

-----------------------------------------------------------------------------
\* What every step of _recv_loop leaves alone; it may use up a fault.
ReaderOnly ==
    /\ UNCHANGED <<loggedOn, leaked, conns, beating, closing, peer>>
    /\ missed' \in BOOLEAN /\ spent' \in Nat

LEMMA LeftAlone ==
    ASSUME TypeOK, UNCHANGED <<missed, loggedOn, leaked, conns, beating, closing, peer>>,
           spent' \in Nat
    PROVE  ReaderOnly
<1>1. missed' \in BOOLEAN BY Zenon DEF TypeOK
<1> QED BY <1>1 DEF ReaderOnly

\* A step of the receive task that leaves everything in its place.
LEMMA ReaderKeeps ==
    ASSUME FixInv, Still, ReaderOnly,
           probing' \in BOOLEAN, asked' \in BOOLEAN, last' \in Nat,
           inSeq' \in Nat \ {0}, pending' \in SUBSET Downward,
           \/ \E place \in {"deliver", "drain", Top} : Go(place)
           \/ Recover
           \/ \E place \in {"drain", "done"} : Terminate(place),
           up' \in Seq(Upward) /\ outSeq' \in Nat \ {0} /\ down' \in Seq(Downward),
           Places' /\ OneLogon' /\ DownHonest' /\ PendingHonest' /\ UpHonest'
               /\ LogHonest' /\ Watermark'
    PROVE  FixInv'
<1>0. TypeOK /\ Stopped BY DEF FixInv
<1>1. Top \in {"read", "done"} BY DEF Top
<1>2. /\ state' \in States /\ running' \in BOOLEAN /\ sock' \in {"none", "open", "closed"}
      /\ reader' \in ReaderStates /\ attempt' \in Nat
  <2>1. \E place \in ReaderStates : Terminate(place) \/ Recover \/ Go(place)
    BY <1>1, Zenon DEF ReaderStates
  <2>2. state \in States BY <1>0 DEF TypeOK
  <2> QED BY <1>0, <2>1, <2>2, EndsTyped
<1>3. loggedOn' \in BOOLEAN /\ beating' \in BOOLEAN
  BY <1>0, Zenon DEF ReaderOnly, TypeOK
<1>4. TypeOK' BY <1>0, <1>2, <1>3, ReaderTyped DEF ReaderOnly
<1>5. Stopped'
  <2>1. closing' = closing BY DEF ReaderOnly
  <2> QED BY <1>0, <2>1, GoStopped, EndsStopped
<1> QED BY <1>4, <1>5 DEF FixInv

\* An application message whose turn it is goes to on_message.
LEMMA HandOver ==
    ASSUME FixInv, Still, Hears, UNCHANGED <<outSeq, up, loggedOn, inSeq, attempt>>,
           reader \in {"read", "drain"}, reader' = "deliver",
           NEW f \in Downward, Truthful(f), f.seq = inSeq, f.type = "app", last' = f.val,
           pending' \in SUBSET pending, \A g \in pending' : g.seq > inSeq
    PROVE  /\ up' \in Seq(Upward) /\ outSeq' \in Nat \ {0} /\ down' \in Seq(Downward)
           /\ Places' /\ OneLogon' /\ DownHonest' /\ PendingHonest' /\ UpHonest'
           /\ LogHonest' /\ Watermark'
<1>0. TypeOK /\ Places /\ PendingHonest /\ Watermark /\ LogHonest BY DEF FixInv
<1>1. greeted /\ loggedOn BY <1>0 DEF Places, Sessioned
<1>2. Speaks BY Silent
<1>3. /\ up' \in Seq(Upward) /\ outSeq' \in Nat \ {0} /\ down' \in Seq(Downward)
      /\ UpHonest' /\ DownHonest' /\ OneLogon' /\ LogHonest'
      /\ \A g \in Downward : Truthful(g) => Tells(g, log', outSeq')
  BY <1>1, <1>2, ClientStep
<1>4. /\ greeted' = greeted /\ made' = made /\ fresh' = fresh /\ log' = log /\ retrans' = retrans
  BY DEF Still, gateway
<1>5. Places'
  <2>1. greeted' /\ loggedOn' BY <1>1, <1>4, Zenon
  <2>2. reader' # "greet" /\ reader' # "connect" OBVIOUS
  <2> QED BY <2>1, <2>2, Zenon DEF Places
<1>6. PendingHonest'
  <2>1. \A g \in pending' : Tells(g, log', outSeq') BY <1>0, <1>3 DEF PendingHonest, TypeOK
  <2>2. \A g, h \in pending' : g.seq = h.seq => g = h BY <1>0 DEF PendingHonest
  <2>3. reader' # "drain" /\ reader' # "logon" /\ \A g \in pending' : g.seq > inSeq' OBVIOUS
  <2> QED BY <2>1, <2>2, <2>3 DEF PendingHonest, Truthful
<1>7. Watermark'
  <2>1. log \in Seq(Nat) /\ Len(log) \in Nat /\ inSeq \in Nat \ {0} /\ made \in Nat /\ fresh \in Nat
    BY <1>0 DEF TypeOK
  <2>2. inSeq \in 1..Len(log) /\ log[inSeq] # 0 /\ log[inSeq] = last'
    BY DEF Truthful, Tells
  <2>3. inSeq \in DOMAIN log /\ last' \in (fresh + 1)..made BY <1>0, <2>1, <2>2 DEF LogHonest
  <2>4. ASSUME NEW n \in DOMAIN log, log[n] # 0 PROVE log[n] <= last' <=> n <= inSeq
    <3>1. n < inSeq => log[n] < log[inSeq] BY <1>0, <2>2, <2>3, <2>4 DEF LogHonest
    <3>2. inSeq < n => log[inSeq] < log[n] BY <1>0, <2>2, <2>3, <2>4 DEF LogHonest
    <3>3. n \in Nat /\ log[n] \in Nat /\ log[inSeq] \in Nat BY <2>1, <2>3, <2>4
    <3> QED BY <2>1, <2>2, <3>1, <3>2, <3>3
  <2>5. inSeq' <= Len(log') /\ log'[inSeq'] = last' /\ last' # 0 /\ inSeq' <= Len(log') + 1
    BY <1>4, <2>1, <2>2
  <2>6. last' <= made' BY <1>4, <2>1, <2>3
  <2>7. \A n \in DOMAIN log' : log'[n] # 0 => (log'[n] <= last' <=> n <= inSeq')
    BY <1>4, <2>4
  <2> QED BY <2>5, <2>6, <2>7 DEF Watermark, NextSeq
<1> QED BY <1>3, <1>5, <1>6, <1>7

\* A message whose turn it is is processed.
LEMMA ProcessKeeps ==
    ASSUME FixInv, Still, Hears, ReaderOnly, reader \in {"read", "drain"},
           probing' \in BOOLEAN, asked' = asked,
           NEW f \in Downward, Truthful(f), f.seq = inSeq, f.type # "gapfill", Process(f),
           pending' \in SUBSET pending, \A g \in pending' : g.seq > inSeq
    PROVE  FixInv'
<1>0. TypeOK /\ Places /\ PendingHonest /\ Watermark /\ Stopped BY DEF FixInv
<1>1. greeted /\ loggedOn' /\ loggedOn' = loggedOn
  <2>1. reader \in Sessioned BY DEF Sessioned
  <2> QED BY <1>0, <2>1, Zenon DEF Places, ReaderOnly
<1>2. /\ log \in Seq(Nat) /\ Len(log) \in Nat /\ inSeq \in Nat \ {0} /\ outSeq \in Nat \ {0}
      /\ last \in Nat /\ pending' \in SUBSET Downward
  BY <1>0 DEF TypeOK
<1>3. asked' \in BOOLEAN BY <1>0, Zenon DEF TypeOK
<1>4. f.seq \in Nat /\ f.val \in Nat /\ inSeq \in 1..Len(log) BY DEF Downward, Truthful, Tells
<1>5. /\ \A g \in pending' : Truthful(g) /\ g.seq \in Nat
      /\ \A g, h \in pending' : g.seq = h.seq => g = h
  BY <1>0, <1>2 DEF PendingHonest, Downward
<1>6. CASE f.type = "app"
  <2>1. last' = f.val /\ Go("deliver") /\ UNCHANGED <<inSeq, outSeq, up>>
    BY <1>6 DEF Process, Well
  <2>2. reader' = "deliver" /\ attempt' = attempt BY <2>1 DEF Go
  <2>3. /\ up' \in Seq(Upward) /\ outSeq' \in Nat \ {0} /\ down' \in Seq(Downward)
        /\ Places' /\ OneLogon' /\ DownHonest' /\ PendingHonest' /\ UpHonest'
        /\ LogHonest' /\ Watermark'
    BY <1>1, <1>6, <2>1, <2>2, HandOver
  <2>4. last' \in Nat /\ inSeq' \in Nat \ {0} BY <1>2, <1>4, <2>1
  <2>5. \E place \in {"deliver", "drain", Top} : Go(place) BY <2>1
  <2> QED BY <1>2, <1>3, <2>3, <2>4, <2>5, ReaderKeeps
<1>7. ASSUME f.type # "app", last' = last, Speaks,
             \/ inSeq' = inSeq + 1 /\ (Go("drain") \/ Terminate("drain"))
             \/ inSeq' = inSeq /\ (Recover \/ Terminate("done"))
      PROVE  FixInv'
  <2>1. log[inSeq] = 0 BY <1>7 DEF Truthful, Tells
  <2>2. /\ inSeq' \in inSeq..NextSeq /\ inSeq' \in Nat \ {0}
        /\ \A k \in inSeq..(inSeq' - 1) : log[k] = 0
    BY <1>2, <1>4, <1>7, <2>1 DEF NextSeq
  <2>3. /\ reader' \in {"resume", "read", "drain", "done", "backoff"}
        /\ reader' = "drain" => inSeq' = inSeq + 1
        /\ reader' \in {"resume", "read", "backoff"} => inSeq' = inSeq
    <3>1. CASE inSeq' = inSeq + 1 /\ (Go("drain") \/ Terminate("drain"))
      <4>1. reader' = "drain" BY <3>1 DEF Go, Terminate
      <4> QED BY <3>1, <4>1
    <3>2. CASE inSeq' = inSeq /\ (Recover \/ Terminate("done"))
      <4>1. Recover => reader' \in {"done", "backoff"} BY <1>0, Ends
      <4>2. Terminate("done") => reader' = "done" BY DEF Terminate
      <4> QED BY <3>2, <4>1, <4>2
    <3> QED BY <1>7, <3>1, <3>2
  <2>4. /\ reader' = "drain" => \A g \in pending' : g.seq >= inSeq'
        /\ reader' \in {"resume", "read", "backoff"} => \A g \in pending' : g.seq > inSeq'
    BY <1>2, <1>5, <2>3
  <2>5. reader \notin {"deliver", "giveup", "done", "raised"} OBVIOUS
  <2>6. /\ up' \in Seq(Upward) /\ outSeq' \in Nat \ {0} /\ down' \in Seq(Downward)
        /\ Places' /\ OneLogon' /\ DownHonest' /\ PendingHonest' /\ UpHonest'
        /\ LogHonest' /\ Watermark'
    BY <1>1, <1>2, <1>5, <1>7, <2>2, <2>3, <2>4, <2>5, Advance
  <2>7. /\ \/ \E place \in {"deliver", "drain", Top} : Go(place)
           \/ Recover
           \/ \E place \in {"drain", "done"} : Terminate(place)
    BY <1>7
  <2>8. last' \in Nat BY <1>2, <1>7
  <2> QED BY <1>2, <1>3, <2>2, <2>6, <2>7, <2>8, ReaderKeeps
<1>8. CASE /\ f.type # "app" /\ UNCHANGED <<outSeq, up, last>>
           /\ \/ inSeq' = inSeq + 1 /\ (Go("drain") \/ Terminate("drain"))
              \/ inSeq' = inSeq /\ Terminate("done")
  BY <1>7, <1>8, Silent
<1>9. CASE /\ f.type = "test" /\ UNCHANGED last
           /\ \/ Sent("beat", 0) /\ Consumed("drain")
              \/ NotSent /\ Recover /\ UNCHANGED inSeq
  <2>1. Uttered("beat", 0) BY <1>9, Utters
  <2>2. Speaks BY <2>1 DEF Speaks, Kinds
  <2>3. \/ inSeq' = inSeq + 1 /\ Go("drain")
        \/ inSeq' = inSeq /\ Recover
    BY <1>9 DEF Consumed
  <2>4. f.type # "app" /\ last' = last BY <1>9
  <2> QED BY <1>7, <2>2, <2>3, <2>4
<1>10. CASE /\ f.type = "resend" /\ UNCHANGED <<outSeq, last>>
            /\ \/ /\ up' = IF peer = "up"
                      THEN Append(up, [type |-> "gapfill", seq |-> f.val,
                                       val |-> Later(outSeq, f.val + 1)])
                      ELSE up
                  /\ Consumed("drain")
               \/ Recover /\ UNCHANGED <<inSeq, up>>
  <2>1. f.val \in 1..(outSeq - 1) BY <1>10 DEF Truthful, Tells
  <2>2. Later(outSeq, f.val + 1) = outSeq BY <1>2, <1>4, <2>1 DEF Later
  <2>3. Refilled(f.val) BY <1>10, <2>2 DEF Refilled
  <2>4. Speaks BY <1>4, <2>3 DEF Speaks
  <2>5. \/ inSeq' = inSeq + 1 /\ Go("drain")
        \/ inSeq' = inSeq /\ Recover
    BY <1>10 DEF Consumed
  <2>6. f.type # "app" /\ last' = last BY <1>10
  <2> QED BY <1>7, <2>4, <2>5, <2>6
<1>11. CASE /\ f.type # "app" /\ UNCHANGED last /\ Consumed("drain")
            /\ Sent("app", 0) \/ NotSent
  <2>1. Uttered("app", 0) BY <1>11, Utters
  <2>2. Speaks BY <2>1 DEF Speaks, Kinds
  <2>3. inSeq' = inSeq + 1 /\ Go("drain") BY <1>11 DEF Consumed
  <2>4. f.type # "app" /\ last' = last BY <1>11
  <2> QED BY <1>7, <2>2, <2>3, <2>4
<1>12. \/ f.type = "app"
       \/ /\ f.type # "app" /\ UNCHANGED last /\ Consumed("drain")
          /\ Sent("app", 0) \/ NotSent
       \/ /\ f.type # "app" /\ UNCHANGED <<outSeq, up, last>>
          /\ \/ inSeq' = inSeq + 1 /\ (Go("drain") \/ Terminate("drain"))
             \/ inSeq' = inSeq /\ Terminate("done")
       \/ /\ f.type = "test" /\ UNCHANGED last
          /\ \/ Sent("beat", 0) /\ Consumed("drain")
             \/ NotSent /\ Recover /\ UNCHANGED inSeq
       \/ /\ f.type = "resend" /\ UNCHANGED <<outSeq, last>>
          /\ \/ /\ up' = IF peer = "up"
                      THEN Append(up, [type |-> "gapfill", seq |-> f.val,
                                       val |-> Later(outSeq, f.val + 1)])
                      ELSE up
                /\ Consumed("drain")
             \/ Recover /\ UNCHANGED <<inSeq, up>>
  BY DEF Process, Well, Consumed
<1> QED BY <1>6, <1>8, <1>9, <1>10, <1>11, <1>12

\* on_message returned.
LEMMA DeliveredKeeps == ASSUME FixInv, Delivered PROVE FixInv'
<1>0. TypeOK /\ Places /\ PendingHonest /\ Watermark BY DEF FixInv
<1>1. /\ reader = "deliver" /\ inSeq' = inSeq + 1 /\ reader' = "drain" /\ Go("drain")
      /\ UNCHANGED <<retrans, missed, loggedOn, probing, outSeq, pending, asked, leaked, conns,
                     beating, closing, peer, up, down, gateway, last, spent>>
  BY DEF Delivered, Consumed, Go
<1>2. Still /\ Hears /\ Speaks /\ ReaderOnly
  <2>1. spent' \in Nat BY <1>0, <1>1 DEF TypeOK
  <2> QED BY <1>0, <1>1, <2>1, LeftAlone, Silent DEF Still, Hears
<1>3. greeted /\ loggedOn BY <1>0, <1>1 DEF Places, Sessioned
<1>4. /\ up' \in Seq(Upward) /\ outSeq' \in Nat \ {0} /\ down' \in Seq(Downward)
      /\ UpHonest' /\ DownHonest' /\ OneLogon' /\ LogHonest'
      /\ \A g \in Downward : Truthful(g) => Tells(g, log', outSeq')
  BY <1>2, <1>3, ClientStep
<1>5. /\ greeted' = greeted /\ made' = made /\ fresh' = fresh /\ log' = log /\ retrans' = retrans
  BY <1>1 DEF gateway
<1>6. Places'
  <2>1. greeted' /\ loggedOn' BY <1>1, <1>3, <1>5, Zenon
  <2>2. reader' # "greet" /\ reader' # "connect" BY <1>1
  <2> QED BY <2>1, <2>2, Zenon DEF Places
<1>7. /\ log \in Seq(Nat) /\ Len(log) \in Nat /\ inSeq \in Nat \ {0} /\ inSeq' \in Nat \ {0}
      /\ pending \in SUBSET Downward
  BY <1>0, <1>1 DEF TypeOK
<1>8. PendingHonest'
  <2>1. \A g \in pending' : Tells(g, log', outSeq') BY <1>0, <1>1, <1>4 DEF PendingHonest, TypeOK
  <2>2. \A g, h \in pending' : g.seq = h.seq => g = h BY <1>0, <1>1 DEF PendingHonest
  <2>3. \A g \in pending' : g.seq >= inSeq'
    <3>1. \A g \in pending : g.seq > inSeq /\ g.seq \in Nat
      BY <1>0, <1>1, <1>7 DEF PendingHonest, Downward
    <3> QED BY <1>1, <1>7, <3>1
  <2>4. reader' = "drain" BY <1>1
  <2> QED BY <2>1, <2>2, <2>3, <2>4 DEF PendingHonest, Truthful
<1>9. Watermark'
  <2>1. inSeq' <= Len(log') + 1 BY <1>0, <1>1, <1>5, <1>7 DEF Watermark
  <2>2. \A n \in DOMAIN log : n <= inSeq <=> n < inSeq' BY <1>1, <1>7
  <2>3. \A n \in DOMAIN log' : log'[n] # 0 => (log'[n] <= last' <=> n < inSeq')
    BY <1>0, <1>1, <1>5, <2>2 DEF Watermark
  <2>4. last' <= made' BY <1>0, <1>1, <1>5 DEF Watermark
  <2> QED BY <1>1, <2>1, <2>3, <2>4 DEF Watermark, NextSeq
<1>10. probing' \in BOOLEAN /\ asked' \in BOOLEAN BY <1>0, <1>1, Zenon DEF TypeOK
<1>11. last' \in Nat /\ pending' \in SUBSET Downward BY <1>0, <1>1, <1>7 DEF TypeOK
<1>12. \E place \in {"deliver", "drain", Top} : Go(place) BY <1>1
<1> QED BY <1>2, <1>4, <1>6, <1>7, <1>8, <1>9, <1>10, <1>11, <1>12, ReaderKeeps

\* The watermark stays; the receive task goes on, recovers, or ends the session.
LEMMA StayKeeps ==
    ASSUME FixInv, Still, Hears, ReaderOnly, Speaks, reader \in {"read", "drain"},
           UNCHANGED <<inSeq, last>>, probing' \in BOOLEAN, asked' \in BOOLEAN,
           pending' \in SUBSET Downward, \A g \in pending' : Truthful(g) /\ g.seq > inSeq,
           \A g, h \in pending' : g.seq = h.seq => g = h,
           Go(Top) \/ Recover \/ Terminate("done")
    PROVE  FixInv'
<1>0. TypeOK /\ Places /\ Watermark /\ Stopped BY DEF FixInv
<1>1. greeted /\ loggedOn'
  <2>1. reader \in Sessioned BY DEF Sessioned
  <2> QED BY <1>0, <2>1, Zenon DEF Places, ReaderOnly
<1>2. reader' \in {"read", "done", "backoff"}
  <2>1. Go(Top) => reader' \in {"read", "done"} BY DEF Go, Top
  <2>2. Terminate("done") => reader' = "done" BY DEF Terminate
  <2>3. Recover => reader' \in {"done", "backoff"} BY <1>0, Ends
  <2> QED BY <2>1, <2>2, <2>3
<1>3. /\ inSeq \in Nat \ {0} /\ inSeq' \in Nat \ {0} /\ last' \in Nat /\ Len(log) \in Nat
  BY <1>0 DEF TypeOK
<1>4. inSeq' \in inSeq..NextSeq /\ \A k \in inSeq..(inSeq' - 1) : log[k] = 0
  BY <1>0, <1>3 DEF Watermark, NextSeq
<1>5. \A g \in pending' : g.seq > inSeq' OBVIOUS
<1>6. /\ reader \notin {"deliver", "giveup", "done", "raised"} /\ reader' # "drain"
      /\ reader' \in {"resume", "read", "drain", "done", "backoff"}
  BY <1>2
<1>7. /\ up' \in Seq(Upward) /\ outSeq' \in Nat \ {0} /\ down' \in Seq(Downward)
      /\ Places' /\ OneLogon' /\ DownHonest' /\ PendingHonest' /\ UpHonest'
      /\ LogHonest' /\ Watermark'
  BY <1>1, <1>4, <1>5, <1>6, Advance
<1>8. \/ \E place \in {"deliver", "drain", Top} : Go(place)
      \/ Recover
      \/ \E place \in {"drain", "done"} : Terminate(place)
  OBVIOUS
<1> QED BY <1>3, <1>7, <1>8, ReaderKeeps

\* A SequenceReset moves the watermark over numbers that will not be sent.
LEMMA SkipKeeps ==
    ASSUME FixInv, Still, Hears, ReaderOnly, UNCHANGED <<outSeq, up, last>>,
           reader \in {"read", "drain"}, probing' \in BOOLEAN,
           NEW f \in Downward, Truthful(f), f.type = "gapfill", f.seq <= inSeq,
           NEW waiting \in SUBSET pending, Skip(f.val, waiting), Go("drain")
    PROVE  FixInv'
<1>0. TypeOK /\ Places /\ PendingHonest /\ Watermark BY DEF FixInv
<1>1. greeted /\ loggedOn'
  <2>1. reader \in Sessioned BY DEF Sessioned
  <2> QED BY <1>0, <2>1, Zenon DEF Places, ReaderOnly
<1>2. /\ inSeq \in Nat \ {0} /\ last' \in Nat /\ Len(log) \in Nat /\ pending \in SUBSET Downward
      /\ f.seq \in Nat /\ f.val \in Nat
  BY <1>0 DEF TypeOK, Downward
<1>3. /\ inSeq' = Later(inSeq, f.val)
      /\ pending' = {g \in waiting : g.seq >= inSeq'}
      /\ asked' = Settled(pending')
  BY DEF Skip
<1>4. /\ f.val \in (f.seq + 1)..NextSeq /\ \A k \in f.seq..(f.val - 1) : log[k] = 0
      /\ f.seq \in 1..Len(log)
  BY DEF Truthful, Tells, NextSeq
<1>5. /\ inSeq' \in inSeq..NextSeq /\ inSeq' \in Nat \ {0}
      /\ \A k \in inSeq..(inSeq' - 1) : log[k] = 0
  <2>1. CASE f.val >= inSeq
    <3>1. inSeq' = f.val BY <1>2, <1>3, <2>1 DEF Later
    <3> QED BY <1>2, <1>4, <2>1, <3>1 DEF NextSeq
  <2>2. CASE f.val < inSeq
    <3>1. inSeq' = inSeq BY <1>2, <1>3, <2>2 DEF Later
    <3> QED BY <1>0, <1>2, <3>1 DEF Watermark, NextSeq
  <2> QED BY <1>2, <2>1, <2>2
<1>6. /\ pending' \in SUBSET Downward /\ \A g \in pending' : Truthful(g) /\ g.seq >= inSeq'
      /\ \A g, h \in pending' : g.seq = h.seq => g = h
  <2>1. pending' \in SUBSET pending /\ \A g \in pending' : g.seq >= inSeq' BY <1>3
  <2> QED BY <1>0, <1>2, <2>1 DEF PendingHonest
<1>7. reader' = "drain" /\ reader \notin {"deliver", "giveup", "done", "raised"} BY DEF Go
<1>8. /\ reader' \in {"resume", "read", "drain", "done", "backoff"}
      /\ ~(reader' \in {"resume", "read", "backoff"})
  BY <1>7
<1>9. Speaks BY Silent
<1>10. /\ up' \in Seq(Upward) /\ outSeq' \in Nat \ {0} /\ down' \in Seq(Downward)
       /\ Places' /\ OneLogon' /\ DownHonest' /\ PendingHonest' /\ UpHonest'
       /\ LogHonest' /\ Watermark'
  BY <1>1, <1>5, <1>6, <1>7, <1>8, <1>9, Advance
<1>11. asked' \in BOOLEAN BY <1>3, Zenon DEF Settled
<1>12. \E place \in {"deliver", "drain", Top} : Go(place) OBVIOUS
<1> QED BY <1>2, <1>5, <1>6, <1>10, <1>11, <1>12, ReaderKeeps

\* A frame arrives.
LEMMA ReceiveKeeps == ASSUME FixInv, Receive PROVE FixInv'
<1>0. TypeOK /\ Places /\ DownHonest /\ PendingHonest BY DEF FixInv
<1> DEFINE f == Head(down)
<1>1. /\ reader = "read" /\ down # <<>> /\ down' = Tail(down) /\ probing' = FALSE
      /\ UNCHANGED <<retrans, missed, loggedOn, leaked, conns, beating, closing, peer, gateway>>
      /\ \/ f.seq > inSeq /\ Ahead(f)
         \/ /\ f.type = "gapfill" /\ f.seq <= inSeq
            /\ Skip(f.val, pending) /\ Go("drain") /\ UNCHANGED <<outSeq, up, last, spent>>
         \/ f.type # "gapfill" /\ f.seq = inSeq /\ Process(f) /\ UNCHANGED <<pending, asked>>
         \/ f.type # "gapfill" /\ f.seq < inSeq /\ Behind(f)
  BY Zenon DEF Receive
<1>2. Still /\ Hears /\ ReaderOnly
  <2>1. spent' \in Nat
    <3>1. spent' = spent \/ spent' = spent + 1
      BY <1>1 DEF Ahead, Behind, Process, Well, Fault
    <3> QED BY <1>0, <3>1 DEF TypeOK
  <2> QED BY <1>0, <1>1, <2>1, LeftAlone DEF Still, Hears
<1>3. 1 \in DOMAIN down /\ f = down[1] /\ f \in Downward
  <2>1. down \in Seq(Downward) BY <1>0 DEF TypeOK
  <2> QED BY <1>1, <2>1
<1> HIDE DEF f
<1>4. greeted BY <1>0, <1>1 DEF Places, Sessioned
<1>5. Truthful(f) BY <1>0, <1>3, <1>4 DEF DownHonest
<1>6. /\ probing' \in BOOLEAN /\ reader \in {"read", "drain"} BY <1>1
<1>7. /\ inSeq \in Nat \ {0} /\ pending \in SUBSET Downward
      /\ \A g \in pending : Truthful(g) /\ g.seq > inSeq
      /\ \A g, h \in pending : g.seq = h.seq => g = h
  BY <1>0, <1>1 DEF TypeOK, PendingHonest
<1>8. asked \in BOOLEAN BY <1>0, Zenon DEF TypeOK
<1>9. CASE f.seq > inSeq /\ Ahead(f)
  <2>1. /\ pending' = IF retrans \/ f.type # "gapfill"
                      THEN {g \in pending : g.seq # f.seq} \cup {f} ELSE pending
        /\ inSeq' = inSeq /\ last' = last
    BY <1>9 DEF Ahead
  <2>2. \A g \in pending' : g \in pending \/ g = f BY <2>1
  <2>3. \A g, h \in pending' : g.seq = h.seq => g = h
    <3>1. CASE pending' = pending BY <1>7, <3>1
    <3>2. CASE pending' = {g \in pending : g.seq # f.seq} \cup {f}
      <4>1. \A g \in pending' : g = f \/ (g \in pending /\ g.seq # f.seq) BY <3>2
      <4> HIDE <3>2
      <4> QED BY <1>7, <4>1
    <3> QED BY <2>1, <3>1, <3>2
  <2>4. pending' \in SUBSET Downward /\ \A g \in pending' : Truthful(g) /\ g.seq > inSeq
    <3>1. \A g \in pending' : g \in Downward BY <1>3, <1>7, <2>2
    <3>2. \A g \in pending' : Truthful(g) /\ g.seq > inSeq BY <1>5, <1>7, <1>9, <2>2
    <3> QED BY <3>1, <3>2
  <2>5. /\ asked' \in BOOLEAN
        /\ UNCHANGED <<outSeq, up>> \/ Sent("resend", inSeq) \/ NotSent
        /\ Go(Top) \/ Recover \/ Terminate("done")
    BY <1>8, <1>9, Zenon DEF Ahead, AskResend
  <2>6. UNCHANGED <<outSeq, up>> \/ Uttered("resend", inSeq) BY <2>5, Utters
  <2>7. inSeq \in Nat /\ inSeq >= 1 BY <1>7
  <2>8. Speaks BY <2>6, <2>7, Silent DEF Speaks, Kinds
  <2> QED BY <1>2, <1>6, <2>1, <2>3, <2>4, <2>5, <2>8, StayKeeps
<1>10. CASE /\ f.type = "gapfill" /\ f.seq <= inSeq
            /\ Skip(f.val, pending) /\ Go("drain") /\ UNCHANGED <<outSeq, up, last, spent>>
  <2>1. pending \in SUBSET pending OBVIOUS
  <2> QED BY <1>2, <1>3, <1>5, <1>6, <1>10, <2>1, SkipKeeps
<1>11. CASE f.type # "gapfill" /\ f.seq = inSeq /\ Process(f) /\ UNCHANGED <<pending, asked>>
  <2>1. pending' \in SUBSET pending /\ \A g \in pending' : g.seq > inSeq BY <1>7, <1>11
  <2> QED BY <1>2, <1>3, <1>5, <1>6, <1>11, <2>1, ProcessKeeps
<1>12. CASE f.type # "gapfill" /\ f.seq < inSeq /\ Behind(f)
  <2>1. /\ UNCHANGED <<inSeq, pending, asked, outSeq, up, last>>
        /\ Go(Top) \/ Recover \/ Terminate("done")
    BY <1>12, Zenon DEF Behind, numbers
  <2>2. Speaks BY <2>1, Silent
  <2>3. asked' \in BOOLEAN BY <1>8, <2>1, Zenon
  <2>4. /\ pending' \in SUBSET Downward /\ \A g \in pending' : Truthful(g) /\ g.seq > inSeq
        /\ \A g, h \in pending' : g.seq = h.seq => g = h
    BY <1>7, <2>1
  <2> QED BY <1>2, <1>6, <2>1, <2>2, <2>3, <2>4, StayKeeps
<1> QED BY <1>1, <1>9, <1>10, <1>11, <1>12

\* What waited is processed when its turn comes.
LEMMA DrainKeeps == ASSUME FixInv, Drain PROVE FixInv'
<1>0. TypeOK /\ Places /\ PendingHonest BY DEF FixInv
<1>1. /\ reader = "drain"
      /\ UNCHANGED <<retrans, missed, loggedOn, probing, leaked, conns, beating, closing, peer,
                     down, gateway>>
      /\ \/ \E f \in pending :
             /\ f.seq = inSeq
             /\ \/ /\ f.type = "gapfill"
                   /\ Skip(f.val, pending \ {f}) /\ Go("drain")
                   /\ UNCHANGED <<outSeq, up, last, spent>>
                \/ /\ f.type # "gapfill"
                   /\ pending' = pending \ {f}
                   /\ Process(f) /\ UNCHANGED asked
         \/ /\ \A f \in pending : f.seq # inSeq
            /\ asked' = Settled(pending)
            /\ Go(Top)
            /\ UNCHANGED <<inSeq, pending, outSeq, up, last, spent>>
  BY Zenon DEF Drain
<1>2. Still /\ Hears /\ ReaderOnly
  <2>1. spent' \in Nat
    <3>1. spent' = spent \/ spent' = spent + 1 BY <1>1 DEF Process, Well, Fault
    <3> QED BY <1>0, <3>1 DEF TypeOK
  <2> QED BY <1>0, <1>1, <2>1, LeftAlone DEF Still, Hears
<1>3. /\ inSeq \in Nat \ {0} /\ pending \in SUBSET Downward
      /\ \A g \in pending : Truthful(g) /\ g.seq >= inSeq /\ g.seq \in Nat
      /\ \A g, h \in pending : g.seq = h.seq => g = h
  BY <1>0, <1>1 DEF TypeOK, PendingHonest, Downward
<1>4. probing' \in BOOLEAN BY <1>0, <1>1, Zenon DEF TypeOK
<1>5. reader \in {"read", "drain"} BY <1>1
<1>6. ASSUME NEW f \in pending, f.seq = inSeq, f.type = "gapfill", Skip(f.val, pending \ {f}),
             Go("drain"), UNCHANGED <<outSeq, up, last>>
      PROVE  FixInv'
  <2>1. pending \ {f} \in SUBSET pending /\ f \in Downward /\ Truthful(f) /\ f.seq <= inSeq
    BY <1>3, <1>6
  <2> QED BY <1>2, <1>4, <1>5, <1>6, <2>1, SkipKeeps
<1>7. ASSUME NEW f \in pending, f.seq = inSeq, f.type # "gapfill", pending' = pending \ {f},
             Process(f), asked' = asked
      PROVE  FixInv'
  <2>1. f \in Downward /\ Truthful(f) BY <1>3
  <2>2. pending' \in SUBSET pending BY <1>7
  <2>3. \A g \in pending' : g.seq > inSeq
    <3>1. \A g \in pending' : g \in pending /\ g # f BY <1>7
    <3> QED BY <1>3, <1>7, <3>1
  <2> QED BY <1>2, <1>4, <1>5, <1>7, <2>1, <2>2, <2>3, ProcessKeeps
<1>8. CASE /\ \A f \in pending : f.seq # inSeq
           /\ asked' = Settled(pending)
           /\ Go(Top)
           /\ UNCHANGED <<inSeq, pending, outSeq, up, last>>
  <2>1. asked' \in BOOLEAN BY <1>8, Zenon DEF Settled
  <2>2. Speaks BY <1>8, Silent
  <2>3. /\ pending' \in SUBSET Downward /\ \A g \in pending' : Truthful(g) /\ g.seq > inSeq
        /\ \A g, h \in pending' : g.seq = h.seq => g = h
    BY <1>3, <1>8
  <2> QED BY <1>2, <1>4, <1>5, <1>8, <2>1, <2>2, <2>3, StayKeeps
<1> QED BY <1>1, <1>6, <1>7, <1>8

\* A frame the codec rejects is lost, and nothing else happens.
LEMMA UndecodableKeeps == ASSUME FixInv, Undecodable PROVE FixInv'
<1>0. TypeOK /\ PendingHonest BY DEF FixInv
<1>1. /\ reader = "read" /\ Go(Top) /\ down # <<>> /\ down' = Tail(down)
      /\ UNCHANGED <<retrans, loggedOn, outSeq, inSeq, pending, asked, leaked, conns, beating,
                     closing, peer, up, gateway, last>>
  BY DEF Undecodable, numbers
<1>2. spent' \in Nat BY <1>0 DEF Undecodable, Fault, TypeOK
<1>3. missed' \in BOOLEAN /\ probing' \in BOOLEAN
  <2>1. missed' \in BOOLEAN BY Zenon DEF Undecodable
  <2>2. probing' = probing \/ probing' = FALSE BY Zenon DEF Undecodable
  <2> QED BY <1>0, <2>1, <2>2, Zenon DEF TypeOK
<1>4. Still /\ Hears /\ ReaderOnly /\ Speaks
  BY <1>1, <1>2, <1>3, Silent DEF Still, Hears, ReaderOnly
<1>5. asked' \in BOOLEAN BY <1>0, <1>1, Zenon DEF TypeOK
<1>6. /\ pending' \in SUBSET Downward /\ \A g \in pending' : Truthful(g) /\ g.seq > inSeq
      /\ \A g, h \in pending' : g.seq = h.seq => g = h
  BY <1>0, <1>1 DEF TypeOK, PendingHonest
<1>7. reader \in {"read", "drain"} BY <1>1
<1> QED BY <1>1, <1>3, <1>4, <1>5, <1>6, <1>7, StayKeeps

\* The connection is gone.
LEMMA EndOfStreamKeeps == ASSUME FixInv, EndOfStream PROVE FixInv'
<1>0. TypeOK /\ PendingHonest BY DEF FixInv
<1>1. /\ reader = "read" /\ Recover
      /\ UNCHANGED <<retrans, missed, loggedOn, probing, outSeq, inSeq, pending, asked, leaked,
                     conns, beating, closing, peer, up, down, gateway, last, spent>>
  BY DEF EndOfStream, numbers
<1>2. Still /\ Hears /\ ReaderOnly /\ Speaks
  <2>1. spent' \in Nat BY <1>0, <1>1 DEF TypeOK
  <2> QED BY <1>0, <1>1, <2>1, LeftAlone, Silent DEF Still, Hears
<1>3. probing' \in BOOLEAN /\ asked' \in BOOLEAN BY <1>0, <1>1, Zenon DEF TypeOK
<1>4. /\ pending' \in SUBSET Downward /\ \A g \in pending' : Truthful(g) /\ g.seq > inSeq
      /\ \A g, h \in pending' : g.seq = h.seq => g = h
  BY <1>0, <1>1 DEF TypeOK, PendingHonest
<1>5. reader \in {"read", "drain"} BY <1>1
<1> QED BY <1>1, <1>2, <1>3, <1>4, <1>5, StayKeeps

-----------------------------------------------------------------------------
\* While the gateway moves, the client does not.
LEMMA ClientStands ==
    ASSUME TypeOK, Stopped, UNCHANGED client
    PROVE  /\ UNCHANGED <<retrans, missed, state, running, loggedOn, probing, outSeq, inSeq,
                          pending, asked, sock, leaked, conns, reader, attempt, beating, closing, last>>
           /\ Stopped'
<1>1. UNCHANGED <<retrans, missed, state, running, loggedOn, probing, outSeq, inSeq, pending,
                  asked, sock, leaked, conns, reader, attempt, beating, closing, last>>
  BY DEF client, session, numbers, link, tasks
<1>2. Stopped' BY <1>1, Zenon DEF Stopped
<1> QED BY <1>1, <1>2

\* A step of the gateway keeps the types.
LEMMA GatewayTyped ==
    ASSUME TypeOK, Stopped, UNCHANGED client,
           peer' \in {"up", "gone", "mute"}, up' \in Seq(Upward), down' \in Seq(Downward),
           greeted' \in BOOLEAN, expected' \in Nat, asking' \in BOOLEAN,
           log' \in Seq(Nat), made' \in Nat, fresh' \in Nat, spent' \in Nat
    PROVE  TypeOK'
<1>1. UNCHANGED <<retrans, missed, state, running, loggedOn, probing, outSeq, inSeq, pending,
                  asked, sock, leaked, conns, reader, attempt, beating, closing, last>>
  BY ClientStands
<1> QED BY <1>1 DEF TypeOK

\* The log grows by messages that are not the application's, or by one that is.
LogSteps ==
    /\ LogGrows
    /\ \/ made' = made /\ \A n \in DOMAIN log' \ DOMAIN log : log'[n] = 0
       \/ made' = made + 1 /\ log' = Append(log, made + 1)

\* What the gateway adds to the frames to the client.
DownSays ==
    /\ down' \in Seq(Downward)
    /\ \A i \in DOMAIN down' :
           \/ i \in DOMAIN down /\ down'[i] = down[i]
           \/ Tells(down'[i], log', outSeq') /\ down'[i].type # "logon"

\* A log that grows keeps its order, and the watermark its place in it.
LEMMA GrowthKeeps ==
    ASSUME FixInv, UNCHANGED client, UNCHANGED fresh, LogSteps,
           greeted' => greeted \/ retrans
    PROVE  /\ LogHonest' /\ Watermark' /\ made' \in Nat
           /\ \A f \in Downward : Truthful(f) => Tells(f, log', outSeq')
<1>0. TypeOK /\ Stopped /\ LogHonest /\ Watermark BY DEF FixInv
<1>1. UNCHANGED <<retrans, outSeq, inSeq, reader, last>> BY <1>0, ClientStands
<1>2. /\ log \in Seq(Nat) /\ log' \in Seq(Nat) /\ Len(log) \in Nat /\ Len(log') \in Nat
      /\ Len(log) <= Len(log') /\ \A n \in DOMAIN log : n \in DOMAIN log' /\ log'[n] = log[n]
      /\ DOMAIN log = 1..Len(log) /\ DOMAIN log' = 1..Len(log')
      /\ made \in Nat /\ fresh \in Nat /\ last \in Nat /\ inSeq \in Nat \ {0} /\ fresh' = fresh
  <2>1. /\ log \in Seq(Nat) /\ made \in Nat /\ fresh \in Nat /\ last \in Nat
        /\ inSeq \in Nat \ {0}
    BY <1>0 DEF TypeOK
  <2>2. /\ log' \in Seq(Nat) /\ Len(log) <= Len(log')
        /\ \A n \in 1..Len(log) : log'[n] = log[n]
    BY DEF LogSteps, LogGrows
  <2>3. /\ DOMAIN log = 1..Len(log) /\ DOMAIN log' = 1..Len(log')
        /\ Len(log) \in Nat /\ Len(log') \in Nat
    BY <2>1, <2>2
  <2>4. \A n \in DOMAIN log : n \in DOMAIN log' /\ log'[n] = log[n] BY <2>2, <2>3
  <2> QED BY <2>1, <2>2, <2>3, <2>4
<1>3. ASSUME NEW n \in DOMAIN log' PROVE n \in DOMAIN log \/ (n > Len(log) /\ n \in Nat)
  BY <1>2
<1>4. \/ made' = made /\ \A n \in DOMAIN log' \ DOMAIN log : log'[n] = 0
      \/ /\ made' = made + 1 /\ Len(log') = Len(log) + 1 /\ log'[Len(log')] = made + 1
  <2>1. CASE made' = made + 1 /\ log' = Append(log, made + 1)
    <3>1. made + 1 \in Nat BY <1>2
    <3>2. /\ Len(Append(log, made + 1)) = Len(log) + 1
          /\ Append(log, made + 1)[Len(log) + 1] = made + 1
      BY <1>2, <3>1
    <3> QED BY <2>1, <3>2
  <2> QED BY <2>1 DEF LogSteps
<1>5. ASSUME NEW n \in DOMAIN log', n \notin DOMAIN log, log'[n] # 0
      PROVE  made' = made + 1 /\ n = Len(log) + 1 /\ log'[n] = made + 1 /\ n \in Nat
  <2>1. /\ made' = made + 1 /\ Len(log') = Len(log) + 1 /\ log'[Len(log')] = made + 1
    BY <1>4, <1>5
  <2>2. n \in 1..Len(log') /\ n \notin 1..Len(log) BY <1>2, <1>5
  <2>3. n = Len(log) + 1 BY <1>2, <2>1, <2>2
  <2> QED BY <1>2, <2>1, <2>3
<1>6. made' \in Nat /\ made <= made'
  <2>1. made' = made \/ made' = made + 1 BY <1>4
  <2> QED BY <1>2, <2>1
<1>7. LogHonest'
  <2>1. fresh' <= made' BY <1>0, <1>2, <1>6 DEF LogHonest
  <2>2. ASSUME NEW n \in DOMAIN log', log'[n] # 0 PROVE log'[n] \in (fresh' + 1)..made'
    <3>1. CASE n \in DOMAIN log
      <4>1. log'[n] \in (fresh + 1)..made BY <1>0, <1>2, <2>2, <3>1 DEF LogHonest
      <4> QED BY <1>2, <1>6, <4>1
    <3>2. CASE n \notin DOMAIN log
      <4>1. log'[n] = made + 1 /\ made' = made + 1 BY <1>5, <2>2, <3>2
      <4>2. fresh <= made BY <1>0 DEF LogHonest
      <4> QED BY <1>2, <4>1, <4>2
    <3> QED BY <3>1, <3>2
  <2>3. ASSUME NEW m \in DOMAIN log', NEW n \in DOMAIN log', m < n, log'[m] # 0, log'[n] # 0
        PROVE  log'[m] < log'[n]
    <3>1. m \in DOMAIN log
      <4>1. SUFFICES ASSUME m \notin DOMAIN log PROVE FALSE OBVIOUS
      <4>2. m = Len(log) + 1 /\ made' = made + 1 BY <1>5, <2>3, <4>1
      <4>3. n \notin DOMAIN log BY <1>2, <2>3, <4>2
      <4>4. n = Len(log) + 1 BY <1>5, <2>3, <4>3
      <4> QED BY <1>2, <2>3, <4>2, <4>4
    <3>2. CASE n \in DOMAIN log BY <1>0, <1>2, <2>3, <3>1, <3>2 DEF LogHonest
    <3>3. CASE n \notin DOMAIN log
      <4>1. log'[n] = made + 1 BY <1>5, <2>3, <3>3
      <4>2. log'[m] = log[m] BY <1>2, <3>1
      <4>3. log[m] \in (fresh + 1)..made BY <1>0, <2>3, <3>1, <4>2 DEF LogHonest
      <4> QED BY <1>2, <4>1, <4>2, <4>3
    <3> QED BY <3>2, <3>3
  <2>4. ASSUME NEW v \in (fresh' + 1)..made' PROVE \E n \in DOMAIN log' : log'[n] = v
    <3>1. CASE v \in (fresh + 1)..made
      <4>1. PICK n \in DOMAIN log : log[n] = v BY <1>0, <3>1 DEF LogHonest
      <4> QED BY <1>2, <4>1
    <3>2. CASE v \notin (fresh + 1)..made
      <4>0. made' = made \/ made' = made + 1 BY <1>4
      <4>1. v = made + 1 /\ made' = made + 1 BY <1>2, <2>4, <3>2, <4>0
      <4>2. made' # made BY <1>2, <4>1
      <4>3. Len(log') = Len(log) + 1 /\ log'[Len(log')] = made + 1 BY <1>4, <4>2
      <4>4. Len(log') \in DOMAIN log' BY <1>2, <4>3
      <4> QED BY <4>1, <4>3, <4>4
    <3> QED BY <3>1, <3>2
  <2> QED BY <2>1, <2>2, <2>3, <2>4 DEF LogHonest
<1>8. Watermark'
  <2>1. inSeq' <= Len(log') + 1 BY <1>0, <1>1, <1>2 DEF Watermark, NextSeq
  <2>2. last <= made /\ last' <= made' BY <1>0, <1>1, <1>2, <1>6 DEF Watermark
  <2>3. ASSUME reader \notin {"deliver", "giveup", "done", "raised"}, greeted' \/ retrans', NEW n \in DOMAIN log',
               log'[n] # 0
        PROVE  log'[n] <= last' <=> n < inSeq'
    <3>1. greeted \/ retrans BY <1>1, <2>3, Zenon
    <3>2. CASE n \in DOMAIN log BY <1>0, <1>1, <1>2, <2>3, <3>1, <3>2 DEF Watermark
    <3>3. CASE n \notin DOMAIN log
      <4>1. n = Len(log) + 1 /\ log'[n] = made + 1 BY <1>5, <2>3, <3>3
      <4>2. inSeq <= Len(log) + 1 BY <1>0 DEF Watermark, NextSeq
      <4> QED BY <1>1, <1>2, <2>2, <4>1, <4>2
    <3> QED BY <3>2, <3>3
  <2>4. ASSUME reader = "deliver"
        PROVE  /\ inSeq' <= Len(log') /\ log'[inSeq'] = last' /\ last' # 0
               /\ \A n \in DOMAIN log' : log'[n] # 0 => (log'[n] <= last' <=> n <= inSeq')
    <3>1. /\ inSeq <= Len(log) /\ log[inSeq] = last /\ last # 0
          /\ \A n \in DOMAIN log : log[n] # 0 => (log[n] <= last <=> n <= inSeq)
      BY <1>0, <2>4 DEF Watermark
    <3>2. inSeq' <= Len(log') /\ log'[inSeq'] = last' /\ last' # 0
      <4>1. inSeq \in DOMAIN log /\ inSeq <= Len(log') BY <1>2, <3>1
      <4>2. log'[inSeq] = log[inSeq] BY <1>2, <4>1
      <4> QED BY <1>1, <3>1, <4>1, <4>2
    <3>3. ASSUME NEW n \in DOMAIN log', log'[n] # 0 PROVE log'[n] <= last' <=> n <= inSeq'
      <4>1. CASE n \in DOMAIN log BY <1>1, <1>2, <3>1, <3>3, <4>1
      <4>2. CASE n \notin DOMAIN log
        <5>1. n = Len(log) + 1 /\ log'[n] = made + 1 BY <1>5, <3>3, <4>2
        <5> QED BY <1>1, <1>2, <2>2, <3>1, <5>1
      <4> QED BY <4>1, <4>2
    <3> QED BY <3>2, <3>3
  <2> QED BY <1>1, <2>1, <2>2, <2>3, <2>4 DEF Watermark, NextSeq
<1>9. \A f \in Downward : Truthful(f) => Tells(f, log', outSeq')
  <2>1. outSeq \in Nat /\ outSeq' \in Nat /\ outSeq <= outSeq' BY <1>0, <1>1 DEF TypeOK
  <2>2. LogGrows BY DEF LogSteps
  <2> QED BY <1>2, <2>1, <2>2, TruthLasts
<1> QED BY <1>6, <1>7, <1>8, <1>9

\* What the gateway takes from the frames to it.
LEMMA TakeKeeps ==
    ASSUME FixInv, UNCHANGED client, up # <<>>, up' = Tail(up),
           expected' \in Nat, expected' >= 1,
           greeted' \/ (retrans /\ loggedOn) => expected' <= outSeq,
           greeted' => \A i \in DOMAIN up :
                           i # 1 /\ up[i].type # "gapfill" => up[i].seq >= expected'
    PROVE  /\ up' \in Seq(Upward) /\ UpHonest'
           /\ \A i \in DOMAIN up' : i + 1 \in DOMAIN up /\ up'[i] = up[i + 1]
           /\ \A i, j \in DOMAIN up' : up'[i].type = "logon" /\ up'[j].type = "logon" => i = j
<1>0. TypeOK /\ Stopped /\ UpHonest /\ OneLogon BY DEF FixInv
<1>1. UNCHANGED <<retrans, outSeq, loggedOn>> BY <1>0, ClientStands
<1>2. /\ up' \in Seq(Upward) /\ Len(up) \in Nat \ {0} /\ Len(up') = Len(up) - 1
      /\ DOMAIN up = 1..Len(up) /\ DOMAIN up' = 1..Len(up')
      /\ \A i \in 1..(Len(up) - 1) : up'[i] = up[i + 1]
  BY <1>0 DEF TypeOK
<1>3. \A i \in DOMAIN up' : i \in Nat /\ i + 1 \in DOMAIN up /\ i + 1 # 1 /\ up'[i] = up[i + 1]
  BY <1>2
<1>4. \A i, j \in DOMAIN up' : up'[i].type = "logon" /\ up'[j].type = "logon" => i = j
  <2> SUFFICES ASSUME NEW i \in DOMAIN up', NEW j \in DOMAIN up',
                      up'[i].type = "logon", up'[j].type = "logon"
      PROVE  i = j
    OBVIOUS
  <2>1. i + 1 = j + 1 BY <1>0, <1>3 DEF OneLogon
  <2> QED BY <1>3, <2>1
<1>5. UpHonest'
  <2>1. \A i \in DOMAIN up' :
           /\ up'[i].type # "gapfill" => up'[i].seq \in 1..(outSeq' - 1)
           /\ up'[i].type = "gapfill" => up'[i].val <= outSeq'
           /\ up'[i].type = "resend" => up'[i].val >= 1
           /\ greeted' /\ up'[i].type # "gapfill" => up'[i].seq >= expected'
    BY <1>0, <1>1, <1>3 DEF UpHonest
  <2>2. ASSUME NEW i \in DOMAIN up', NEW j \in DOMAIN up', i < j, up'[j].type # "gapfill"
        PROVE  IF up'[i].type = "gapfill" THEN up'[i].val <= up'[j].seq ELSE up'[i].seq < up'[j].seq
    <3>1. i + 1 < j + 1 BY <1>3, <2>2
    <3> QED BY <1>0, <1>3, <2>2, <3>1 DEF UpHonest
  <2>3. greeted' \/ (retrans' /\ loggedOn') => expected' <= outSeq' BY <1>1
  <2> QED BY <2>1, <2>2, <2>3 DEF UpHonest
<1> QED BY <1>2, <1>3, <1>4, <1>5

\* What the gateway does in a session, and what it stores outside of one.
LEMMA GatewayKeeps ==
    ASSUME FixInv, UNCHANGED client, UNCHANGED <<greeted, fresh>>, LogSteps, DownSays,
           greeted \/ (retrans /\ loggedOn /\ down' = down /\ up' = up /\ expected' = expected),
           peer' \in {"up", "gone", "mute"}, asking' \in BOOLEAN, spent' \in Nat,
           \/ up' = up /\ expected' = expected
           \/ /\ greeted /\ up # <<>> /\ up' = Tail(up)
              /\ expected' \in Nat /\ expected' >= 1 /\ expected' <= outSeq
              /\ \A i \in DOMAIN up : i # 1 /\ up[i].type # "gapfill" => up[i].seq >= expected'
    PROVE  FixInv'
<1>0. /\ TypeOK /\ Places /\ OneLogon /\ DownHonest /\ PendingHonest /\ UpHonest /\ Stopped
  BY DEF FixInv
<1>1. /\ UNCHANGED <<retrans, state, running, loggedOn, probing, outSeq, inSeq, pending,
                     asked, sock, leaked, conns, reader, attempt, beating, closing, last>>
      /\ Stopped'
  BY <1>0, ClientStands
<1>2. greeted' => greeted \/ retrans BY Zenon
<1>3. /\ LogHonest' /\ Watermark' /\ made' \in Nat
      /\ \A f \in Downward : Truthful(f) => Tells(f, log', outSeq')
  BY <1>2, GrowthKeeps
<1>4. /\ up' \in Seq(Upward) /\ UpHonest' /\ expected' \in Nat
      /\ \A i \in DOMAIN up' : \E j \in DOMAIN up : up'[i] = up[j]
      /\ \A i, j \in DOMAIN up' : up'[i].type = "logon" /\ up'[j].type = "logon" => i = j
  <2>1. CASE up' = up /\ expected' = expected
    <3>1. UpHonest' BY <1>0, <1>1, <2>1 DEF UpHonest
    <3> QED BY <1>0, <2>1, <3>1 DEF TypeOK, OneLogon
  <2>2. CASE /\ up # <<>> /\ up' = Tail(up)
             /\ expected' \in Nat /\ expected' >= 1 /\ expected' <= outSeq
             /\ \A i \in DOMAIN up : i # 1 /\ up[i].type # "gapfill" => up[i].seq >= expected'
    BY <2>2, TakeKeeps
  <2> QED BY <2>1, <2>2
<1>5. DownHonest' /\ down' \in Seq(Downward)
  <2>1. ASSUME greeted', NEW i \in DOMAIN down' PROVE Tells(down'[i], log', outSeq')
    <3>1. CASE i \in DOMAIN down /\ down'[i] = down[i]
      <4>1. down[i] \in Downward /\ Truthful(down[i]) BY <1>0, <2>1, <3>1 DEF DownHonest, TypeOK
      <4> QED BY <1>3, <3>1, <4>1
    <3> QED BY <3>1 DEF DownSays
  <2>2. ASSUME NEW i \in DOMAIN down', down'[i].type = "logon" PROVE greeted'
    <3>1. i \in DOMAIN down /\ down'[i] = down[i] BY <2>2 DEF DownSays
    <3> QED BY <1>0, <2>2, <3>1 DEF DownHonest
  <2> QED BY <2>1, <2>2 DEF DownHonest, Truthful, DownSays
<1>6. PendingHonest'
  <2>1. \A f \in pending' : Tells(f, log', outSeq')
    BY <1>0, <1>1, <1>3 DEF PendingHonest, TypeOK
  <2>2. reader = "logon" => \A i \in DOMAIN down', f \in pending :
                               down'[i].type = "logon" => f.seq < down'[i].seq
    BY <1>0 DEF PendingHonest, DownSays
  <2>3. /\ \A f, g \in pending : f.seq = g.seq => f = g
        /\ reader = "drain" => \A f \in pending : f.seq >= inSeq
        /\ reader \notin {"drain", "giveup", "done", "raised"} => \A f \in pending : f.seq > inSeq
    BY <1>0 DEF PendingHonest
  <2> QED BY <1>1, <2>1, <2>2, <2>3 DEF PendingHonest, Truthful
<1>7. Places'
  <2>1. reader \in {"connect", "greet"} /\ ~loggedOn => FALSE BY <1>0 DEF Places
  <2>2. reader = "greet" => down' = down /\ up' = up BY <1>0 DEF Places
  <2> QED BY <1>0, <1>1, <2>1, <2>2 DEF Places, Resetting
<1>8. OneLogon'
  <2>1. ASSUME ~greeted', NEW i \in DOMAIN up', up'[i].type = "logon"
        PROVE  /\ down' = <<>>
               /\ up'[i].val = 1 => /\ inSeq' = 1 /\ pending' = {}
                                    /\ retrans' => ~loggedOn' /\ made' = 0 /\ fresh' = 0
               /\ up'[i].val # 1 => retrans' /\ up'[i].val = 0 /\ expected' <= up'[i].seq
    BY <1>0, <1>1, <2>1 DEF OneLogon
  <2> QED BY <1>4, <2>1 DEF OneLogon
<1>9. TypeOK'
  <2>1. greeted' \in BOOLEAN BY <1>0, Zenon DEF TypeOK
  <2>2. log' \in Seq(Nat) /\ fresh' \in Nat BY <1>0 DEF TypeOK, LogSteps, LogGrows
  <2> QED BY <1>0, <1>3, <1>4, <1>5, <2>1, <2>2, GatewayTyped
<1> QED BY <1>1, <1>3, <1>4, <1>5, <1>6, <1>7, <1>8, <1>9 DEF FixInv

\* A sequence with one element put behind it.
LEMMA Once ==
    ASSUME NEW S, NEW s \in Seq(S), NEW f \in S
    PROVE  /\ Append(s, f) \in Seq(S) /\ Len(Append(s, f)) = Len(s) + 1
           /\ \A i \in 1..(Len(s) + 1) : Append(s, f)[i] = IF i <= Len(s) THEN s[i] ELSE f
           /\ s \o <<f>> = Append(s, f)
OBVIOUS

\* ... or twice.
LEMMA Twice ==
    ASSUME NEW S, NEW s \in Seq(S), NEW f \in S
    PROVE  /\ s \o <<f, f>> \in Seq(S) /\ Len(s \o <<f, f>>) = Len(s) + 2
           /\ \A i \in 1..(Len(s) + 2) : (s \o <<f, f>>)[i] = IF i <= Len(s) THEN s[i] ELSE f
<1>1. s \o <<f, f>> = Append(Append(s, f), f) OBVIOUS
<1>2. /\ Append(s, f) \in Seq(S) /\ Len(Append(s, f)) = Len(s) + 1 /\ Len(s) \in Nat
      /\ \A i \in 1..(Len(s) + 1) : Append(s, f)[i] = IF i <= Len(s) THEN s[i] ELSE f
  BY Once
<1> DEFINE t == Append(s, f)
<1> HIDE DEF t
<1>3. /\ Append(t, f) \in Seq(S) /\ Len(Append(t, f)) = Len(t) + 1
      /\ \A i \in 1..(Len(t) + 1) : Append(t, f)[i] = IF i <= Len(t) THEN t[i] ELSE f
  BY <1>2, Once DEF t
<1> QED BY <1>1, <1>2, <1>3 DEF t

\* Frames the gateway adds.
LEMMA Adds ==
    ASSUME down \in Seq(Downward), NEW f \in Downward, Tells(f, log', outSeq'), f.type # "logon",
           down' \in {down, Append(down, f), down \o <<f, f>>}
    PROVE  DownSays
<1>1. CASE down' = down BY <1>1 DEF DownSays
<1>2. CASE down' = Append(down, f)
  <2>1. /\ Append(down, f) \in Seq(Downward) /\ Len(Append(down, f)) = Len(down) + 1
        /\ \A i \in 1..(Len(down) + 1) :
               Append(down, f)[i] = IF i <= Len(down) THEN down[i] ELSE f
    BY Once
  <2>2. /\ down' \in Seq(Downward)
        /\ \A i \in DOMAIN down' : (i \in DOMAIN down /\ down'[i] = down[i]) \/ down'[i] = f
    BY <1>2, <2>1
  <2> QED BY <2>2 DEF DownSays
<1>3. CASE down' = down \o <<f, f>>
  <2>1. /\ down' \in Seq(Downward) /\ Len(down') = Len(down) + 2
        /\ \A i \in 1..(Len(down) + 2) : down'[i] = IF i <= Len(down) THEN down[i] ELSE f
    <3>1. /\ down \o <<f, f>> \in Seq(Downward) /\ Len(down \o <<f, f>>) = Len(down) + 2
          /\ \A i \in 1..(Len(down) + 2) :
                 (down \o <<f, f>>)[i] = IF i <= Len(down) THEN down[i] ELSE f
      BY Twice
    <3> QED BY <1>3, <3>1, Zenon
  <2>2. \A i \in DOMAIN down' : (i \in DOMAIN down /\ down'[i] = down[i]) \/ down'[i] = f
    BY <2>1
  <2> QED BY <2>1, <2>2 DEF DownSays
<1> QED BY <1>1, <1>2, <1>3

\* A message the gateway numbers, logs and sends; it may get lost or come twice.
LEMMA Numbered ==
    ASSUME TypeOK, outSeq' = outSeq,
           NEW type \in {"app", "test", "beat", "logout", "resend"}, NEW val \in Nat,
           NEW v \in Nat, log' = Append(log, v),
           type = "app" => v = made + 1 /\ val = v /\ made' = made + 1,
           type # "app" => v = 0 /\ made' = made,
           type = "resend" => val \in 1..(outSeq - 1),
           NEW f, f = Frame(type, NextSeq, val, FALSE),
           down' \in {down, Append(down, f), down \o <<f, f>>}
    PROVE  LogSteps /\ DownSays
<1>1. /\ log \in Seq(Nat) /\ Len(log) \in Nat /\ down \in Seq(Downward) /\ made \in Nat
  BY DEF TypeOK
<1>2. /\ log' \in Seq(Nat) /\ Len(log') = Len(log) + 1 /\ log'[Len(log) + 1] = v
      /\ \A n \in 1..Len(log) : log'[n] = log[n]
      /\ DOMAIN log = 1..Len(log) /\ DOMAIN log' = 1..(Len(log) + 1)
  BY <1>1
<1>3. LogGrows BY <1>1, <1>2 DEF LogGrows
<1>4. LogSteps
  <2>1. CASE type = "app" BY <1>3, <2>1 DEF LogSteps
  <2>2. CASE type # "app"
    <3>1. \A n \in DOMAIN log' \ DOMAIN log : log'[n] = 0 BY <1>1, <1>2, <2>2
    <3> QED BY <1>3, <2>2, <3>1 DEF LogSteps
  <2> QED BY <2>1, <2>2
<1>5. /\ f.type = type /\ f.seq = Len(log) + 1 /\ f.val = val /\ f \in Downward
  <2>1. type \in Kinds /\ NextSeq \in Nat /\ FALSE \in BOOLEAN BY <1>1 DEF Kinds, NextSeq
  <2>2. /\ Frame(type, NextSeq, val, FALSE) \in Downward
        /\ Frame(type, NextSeq, val, FALSE).type = type
        /\ Frame(type, NextSeq, val, FALSE).seq = NextSeq
        /\ Frame(type, NextSeq, val, FALSE).val = val
    BY <2>1 DEF Frame, Downward
  <2> QED BY <2>2, Zenon DEF NextSeq
<1>6. Tells(f, log', outSeq') /\ f.type # "logon"
  <2>1. Len(log) + 1 \in 1..(Len(log) + 1) BY <1>1
  <2>2. f.seq \in 1..Len(log') /\ log'[f.seq] = v BY <1>2, <1>5, <2>1, Zenon
  <2>3. type = "app" => log'[f.seq] # 0 /\ f.val = log'[f.seq]
    <3>1. type = "app" => v # 0 /\ val = v BY <1>1
    <3> QED BY <1>5, <2>2, <3>1, Zenon
  <2>4. type # "app" => log'[f.seq] = 0 BY <2>2
  <2>5. type \notin {"gapfill", "logon"} OBVIOUS
  <2>6. type = "resend" => f.val \in 1..(outSeq' - 1) BY <1>5
  <2> QED BY <1>5, <2>2, <2>3, <2>4, <2>5, <2>6, Zenon DEF Tells
<1>7. DownSays BY <1>1, <1>5, <1>6, Adds, Zenon
<1> QED BY <1>4, <1>7

\* Emit, whether or not the frame arrives.
LEMMA Emits ==
    ASSUME TypeOK, NEW type, NEW val, Emit(type, val)
    PROVE  /\ log' = Append(log, val) /\ spent' \in Nat
           /\ \E f : /\ f = Frame(type, NextSeq, val, FALSE)
                     /\ down' \in {down, Append(down, f), down \o <<f, f>>}
<1> DEFINE f == Frame(type, NextSeq, val, FALSE)
<1>1. spent \in Nat BY DEF TypeOK
<1>2. /\ log' = Append(log, val)
      /\ \/ down' = Append(down, f) /\ UNCHANGED spent
         \/ Fault("skip") /\ UNCHANGED down
         \/ Fault("repeat") /\ down' = down \o <<f, f>>
  BY DEF Emit
<1> HIDE DEF f
<1>3. down' \in {down, Append(down, f), down \o <<f, f>>} BY <1>2, Zenon
<1>4. spent' = spent \/ spent' = spent + 1 BY <1>2, Zenon DEF Fault
<1>5. spent' \in Nat BY <1>1, <1>4
<1> QED BY <1>2, <1>3, <1>5, Zenon DEF f

\* The gateway sends something new.
LEMMA EmitKeeps == ASSUME FixInv, EmitApp \/ EmitAdmin PROVE FixInv'
<1>0. TypeOK /\ Stopped BY DEF FixInv
<1>1. /\ UNCHANGED client /\ UNCHANGED <<peer, up, greeted, expected, asking, fresh>> /\ greeted
  BY DEF EmitApp, EmitAdmin
<1>2. outSeq' = outSeq BY <1>0, <1>1, ClientStands
<1>3. made \in Nat /\ spent \in Nat BY <1>0 DEF TypeOK
<1>4. LogSteps /\ DownSays /\ spent' \in Nat
  <2>1. CASE EmitApp
    <3>1. made' = made + 1 /\ Emit("app", made + 1) BY <2>1 DEF EmitApp
    <3>2. PICK f : /\ f = Frame("app", NextSeq, made + 1, FALSE)
                   /\ log' = Append(log, made + 1) /\ spent' \in Nat
                   /\ down' \in {down, Append(down, f), down \o <<f, f>>}
      BY <1>0, <3>1, Emits, Zenon
    <3>3. made + 1 \in Nat BY <1>3
    <3> QED BY <1>0, <1>2, <3>1, <3>2, <3>3, Numbered
  <2>2. CASE EmitAdmin
    <3>1. made' = made /\ (Emit("test", 0) \/ (Fault("logout") /\ Reply("logout", 0)))
      BY <2>2 DEF EmitAdmin
    <3>2. CASE Emit("test", 0)
      <4>1. PICK f : /\ f = Frame("test", NextSeq, 0, FALSE)
                     /\ log' = Append(log, 0) /\ spent' \in Nat
                     /\ down' \in {down, Append(down, f), down \o <<f, f>>}
        BY <1>0, <3>2, Emits, Zenon
      <4> QED BY <1>0, <1>2, <3>1, <4>1, Numbered
    <3>3. CASE Fault("logout") /\ Reply("logout", 0)
      <4>1. log' = Append(log, 0) /\ down' = Append(down, Frame("logout", NextSeq, 0, FALSE))
        BY <3>3 DEF Reply
      <4>2. spent' \in Nat BY <1>3, <3>3 DEF Fault
      <4> QED BY <1>0, <1>2, <3>1, <4>1, <4>2, Numbered
    <3> QED BY <3>1, <3>2, <3>3
  <2> QED BY <2>1, <2>2 DEF EmitApp, EmitAdmin
<1>5. peer' \in {"up", "gone", "mute"} BY <1>0, <1>1 DEF TypeOK
<1>6. asking' \in BOOLEAN BY <1>0, <1>1, Zenon DEF TypeOK
<1>7. UNCHANGED <<greeted, fresh>> /\ up' = up /\ expected' = expected BY <1>1
<1> QED BY <1>1, <1>4, <1>5, <1>6, <1>7, GatewayKeeps

\* The gateway stores a message for a session that will resume.
LEMMA StoreKeeps == ASSUME FixInv, StoreApp PROVE FixInv'
<1>0. TypeOK /\ Stopped BY DEF FixInv
<1>1. /\ UNCHANGED client /\ UNCHANGED <<peer, up, down, greeted, expected, asking, fresh, spent>>
      /\ retrans /\ loggedOn
  BY Zenon DEF StoreApp
<1>2. outSeq' = outSeq BY <1>0, <1>1, ClientStands
<1>3. LogSteps /\ DownSays
  <2>1. made + 1 \in Nat BY <1>0 DEF TypeOK
  <2>2. made' = made + 1 /\ log' = Append(log, made + 1) BY DEF StoreApp
  <2>3. down' \in {down, Append(down, Frame("app", NextSeq, made + 1, FALSE)),
                   down \o <<Frame("app", NextSeq, made + 1, FALSE),
                             Frame("app", NextSeq, made + 1, FALSE)>>}
    BY <1>1
  <2> QED BY <1>0, <1>2, <2>1, <2>2, <2>3, Numbered
<1>4. peer' \in {"up", "gone", "mute"} /\ spent' \in Nat BY <1>0, <1>1 DEF TypeOK
<1>5. asking' \in BOOLEAN BY <1>0, <1>1, Zenon DEF TypeOK
<1>6. UNCHANGED <<greeted, fresh>> /\ down' = down /\ up' = up /\ expected' = expected BY <1>1
<1> QED BY <1>1, <1>3, <1>4, <1>5, <1>6, GatewayKeeps

\* The gateway answers a frame.
LEMMA AnswerKeeps == ASSUME FixInv, Answer PROVE FixInv'
<1>0. TypeOK /\ Stopped /\ UpHonest BY DEF FixInv
<1> DEFINE f == Head(up)
<1>1. /\ greeted /\ up # <<>> /\ up' = Tail(up)
      /\ UNCHANGED client /\ UNCHANGED <<greeted, made, fresh, spent>>
      /\ \/ f.type = "gapfill" /\ expected' = Later(expected, f.val) /\ asking' = FALSE
         \/ /\ f.type # "gapfill" /\ f.seq <= expected
            /\ expected' = Later(expected, f.seq + 1) /\ UNCHANGED asking
         \/ /\ f.type # "gapfill" /\ f.seq > expected
            /\ asking' = TRUE /\ UNCHANGED expected
      /\ \/ /\ f.type # "gapfill" /\ f.seq > expected
            /\ Reply("resend", expected) /\ UNCHANGED peer
         \/ f.type = "resend" /\ down' = down \o Again(f.val) /\ UNCHANGED <<log, peer>>
         \/ Reply("beat", 0) /\ UNCHANGED peer
         \/ peer' \in {"gone", peer} /\ UNCHANGED <<log, down>>
  BY Zenon DEF Answer
<1>2. /\ 1 \in DOMAIN up /\ f = up[1] /\ f \in Upward
      /\ \A i \in DOMAIN up : up[i] \in Upward /\ (i # 1 => 1 < i)
  <2>1. up \in Seq(Upward) BY <1>0 DEF TypeOK
  <2> QED BY <1>1, <2>1
<1> HIDE DEF f
<1>3. /\ outSeq \in Nat \ {0} /\ expected \in Nat /\ f.seq \in Nat /\ f.val \in Nat
      /\ log \in Seq(Nat) /\ Len(log) \in Nat /\ down \in Seq(Downward) /\ Len(down) \in Nat
  BY <1>0, <1>2 DEF TypeOK, Upward
<1>4. outSeq' = outSeq BY <1>0, <1>1, ClientStands
<1>5. /\ f.type # "gapfill" => f.seq \in 1..(outSeq - 1) /\ f.seq >= expected
      /\ f.type = "gapfill" => f.val <= outSeq
      /\ f.type = "resend" => f.val >= 1
      /\ expected <= outSeq /\ expected >= 1
      /\ \A i \in DOMAIN up : i # 1 /\ up[i].type # "gapfill" =>
             /\ up[i].seq >= expected
             /\ IF f.type = "gapfill" THEN f.val <= up[i].seq ELSE f.seq < up[i].seq
  BY <1>0, <1>1, <1>2 DEF UpHonest
<1>6. \A i \in DOMAIN up : up[i].seq \in Nat BY <1>2 DEF Upward
<1>7. /\ expected' \in Nat /\ expected' >= 1 /\ expected' <= outSeq
      /\ \A i \in DOMAIN up : i # 1 /\ up[i].type # "gapfill" => up[i].seq >= expected'
  <2>1. CASE f.type = "gapfill" /\ expected' = Later(expected, f.val)
    <3>1. (expected' = expected /\ f.val <= expected) \/ (expected' = f.val /\ f.val > expected)
      BY <1>3, <2>1 DEF Later
    <3> QED BY <1>3, <1>5, <1>6, <2>1, <3>1
  <2>2. CASE f.type # "gapfill" /\ expected' = Later(expected, f.seq + 1)
    <3>1. expected' = f.seq + 1 BY <1>3, <1>5, <2>2 DEF Later
    <3> QED BY <1>3, <1>5, <1>6, <2>2, <3>1
  <2>3. CASE expected' = expected BY <1>3, <1>5, <2>3
  <2> QED BY <1>1, <2>1, <2>2, <2>3
<1>8. LogSteps /\ DownSays
  <2>1. CASE f.type # "gapfill" /\ f.seq > expected /\ Reply("resend", expected)
    <3>1. log' = Append(log, 0) /\ down' = Append(down, Frame("resend", NextSeq, expected, FALSE))
      BY <2>1 DEF Reply
    <3>2. expected \in 1..(outSeq - 1) BY <1>3, <1>5, <2>1
    <3> QED BY <1>0, <1>1, <1>3, <1>4, <3>1, <3>2, Numbered
  <2>2. CASE Reply("beat", 0)
    <3>1. log' = Append(log, 0) /\ down' = Append(down, Frame("beat", NextSeq, 0, FALSE))
      BY <2>2 DEF Reply
    <3> QED BY <1>0, <1>1, <1>4, <3>1, Numbered
  <2>3. CASE f.type = "resend" /\ down' = down \o Again(f.val) /\ log' = log
    <3> DEFINE s == Again(f.val)
    <3>1. f.val \in Nat \ {0} BY <1>3, <1>5, <2>3
    <3>2. /\ s \in Seq(Downward)
          /\ \A i \in DOMAIN s : Truthful(s[i]) /\ s[i].type \in {"app", "gapfill"}
      BY <1>3, <3>1, AgainHonest
    <3> HIDE DEF s
    <3>3. /\ down \o s \in Seq(Downward) /\ Len(s) \in Nat /\ DOMAIN s = 1..Len(s)
          /\ Len(down \o s) = Len(down) + Len(s)
          /\ \A i \in 1..(Len(down) + Len(s)) :
                 (down \o s)[i] = IF i <= Len(down) THEN down[i] ELSE s[i - Len(down)]
      BY <1>3, <3>2
    <3>4. down' = down \o s BY <2>3 DEF s
    <3>5. ASSUME NEW i \in DOMAIN down'
          PROVE  \/ i \in DOMAIN down /\ down'[i] = down[i]
                 \/ Tells(down'[i], log', outSeq') /\ down'[i].type # "logon"
      <4>1. i \in 1..(Len(down) + Len(s)) BY <3>3, <3>4
      <4>2. CASE i <= Len(down) BY <1>3, <3>3, <3>4, <4>1, <4>2
      <4>3. CASE ~(i <= Len(down))
        <5>1. i - Len(down) \in DOMAIN s BY <1>3, <3>3, <4>1, <4>3
        <5>2. down'[i] = s[i - Len(down)] BY <3>3, <3>4, <4>1, <4>3
        <5> QED BY <1>4, <2>3, <3>2, <5>1, <5>2 DEF Truthful
      <4> QED BY <4>2, <4>3
    <3>6. DownSays BY <3>3, <3>4, <3>5 DEF DownSays
    <3>7. LogSteps BY <1>1, <1>3, <2>3 DEF LogSteps, LogGrows
    <3> QED BY <3>6, <3>7
  <2>4. CASE log' = log /\ down' = down
    <3>1. DownSays BY <1>3, <2>4 DEF DownSays
    <3>2. LogSteps BY <1>1, <1>3, <2>4 DEF LogSteps, LogGrows
    <3> QED BY <3>1, <3>2
  <2> QED BY <1>1, <2>1, <2>2, <2>3, <2>4
<1>9. peer' \in {"up", "gone", "mute"} /\ spent' \in Nat BY <1>0, <1>1 DEF TypeOK
<1>10. asking' \in BOOLEAN BY <1>0, <1>1, Zenon DEF TypeOK
<1>11. UNCHANGED <<greeted, fresh>> BY <1>1
<1> QED BY <1>1, <1>7, <1>8, <1>9, <1>10, <1>11, GatewayKeeps

\* The gateway disconnects whoever does not begin with a Logon; the connection breaks.
LEMMA CutKeeps == ASSUME FixInv, RefuseStranger \/ Break PROVE FixInv'
<1>0. /\ TypeOK /\ Places /\ OneLogon /\ DownHonest /\ PendingHonest /\ UpHonest /\ Stopped
      /\ LogHonest /\ Watermark
  BY DEF FixInv
<1>1. UNCHANGED client /\ UNCHANGED gateway /\ up' = <<>> /\ peer' \in {"gone", "mute"}
  BY DEF RefuseStranger, Break
<1>2. /\ UNCHANGED <<retrans, state, running, loggedOn, probing, outSeq, inSeq, pending,
                     asked, sock, leaked, conns, reader, attempt, beating, closing, last>>
      /\ UNCHANGED <<greeted, expected, asking, log, made, fresh>>
      /\ Stopped'
  BY <1>0, <1>1, ClientStands DEF gateway
<1>3. /\ down' \in Seq(Downward)
      /\ \A i \in DOMAIN down' : i \in DOMAIN down /\ down'[i] = down[i]
      /\ down = <<>> => down' = <<>>
  <2>0. down \in Seq(Downward) /\ Len(down) \in Nat BY <1>0 DEF TypeOK
  <2>1. CASE RefuseStranger
    <3>1. down' = down BY <2>1 DEF RefuseStranger
    <3> QED BY <2>0, <3>1
  <2>2. CASE Break
    <3>1. PICK k \in 0..Len(down) : down' = SubSeq(down, 1, k) BY <2>2 DEF Break
    <3>2. /\ SubSeq(down, 1, k) \in Seq(Downward)
          /\ Len(SubSeq(down, 1, k)) = k
          /\ \A i \in 1..k : SubSeq(down, 1, k)[i] = down[i]
      BY <2>0
    <3>3. \A i \in DOMAIN down' : i \in 1..k BY <3>1, <3>2
    <3>4. down = <<>> => Len(down') = 0 BY <2>0, <3>1, <3>2
    <3>5. down = <<>> => down' = <<>> BY <3>1, <3>2, <3>4
    <3> QED BY <2>0, <3>1, <3>2, <3>3, <3>5
  <2> QED BY <2>1, <2>2
<1>4. spent' \in Nat BY <1>0 DEF RefuseStranger, Break, Fault, TypeOK
<1>5. DOMAIN up' = {} /\ up' \in Seq(Upward) BY <1>1
<1>6. Places'
  <2>1. ~loggedOn => attempt = 0 BY <1>0, Zenon DEF Places
  <2>2. reader = "greet" => down' = <<>> BY <1>0, <1>3 DEF Places
  <2>3. Resetting' <=> Resetting BY <1>2, Zenon DEF Resetting
  <2> QED BY <1>0, <1>2, <1>5, <2>1, <2>2, <2>3, Zenon DEF Places
<1>7. OneLogon' BY <1>5, Zenon DEF OneLogon
<1>8. DownHonest' BY <1>0, <1>2, <1>3 DEF DownHonest, Truthful
<1>9. PendingHonest' BY <1>0, <1>2, <1>3 DEF PendingHonest, Truthful
<1>10. UpHonest'
  <2>1. (greeted' \/ (retrans' /\ loggedOn')) => expected' <= outSeq' BY <1>0, <1>2 DEF UpHonest
  <2>2. expected' >= 1 BY <1>0, <1>2 DEF UpHonest
  <2> QED BY <1>5, <2>1, <2>2, Zenon DEF UpHonest
<1>11. LogHonest' BY <1>0, <1>2 DEF LogHonest
<1>12. Watermark' BY <1>0, <1>2 DEF Watermark, NextSeq
<1>13. TypeOK'
  <2>1. greeted' \in BOOLEAN /\ asking' \in BOOLEAN BY <1>0, <1>2, Zenon DEF TypeOK
  <2>2. /\ expected' \in Nat /\ log' \in Seq(Nat) /\ made' \in Nat /\ fresh' \in Nat
        /\ peer' \in {"up", "gone", "mute"}
    BY <1>0, <1>1, <1>2 DEF TypeOK
  <2> QED BY <1>0, <1>1, <1>3, <1>4, <1>5, <2>1, <2>2, GatewayTyped
<1> QED BY <1>2, <1>6, <1>7, <1>8, <1>9, <1>10, <1>11, <1>12, <1>13 DEF FixInv

\* While _reconnect waits there is no connection.
NoLink == reader = "connect" => sock = "none"

\* The Logon is answered, or refused.
LEMMA AnswerLogonKeeps == ASSUME FixInv, NoLink, AnswerLogon PROVE FixInv'
<1>0. /\ TypeOK /\ Places /\ OneLogon /\ DownHonest /\ PendingHonest /\ UpHonest /\ Stopped
      /\ LogHonest /\ Watermark
  BY DEF FixInv
<1> DEFINE f == Head(up)
           behind == f.seq > expected
<1>1. /\ sock = "open" /\ ~greeted /\ up # <<>> /\ f.type = "logon" /\ up' = Tail(up)
      /\ UNCHANGED client /\ UNCHANGED peer
      /\ \/ /\ Fault("reject")
            /\ down' = Append(down, Frame("logout", NextSeq, 0, FALSE))
            /\ UNCHANGED gateway
         \/ /\ f.val = 1 /\ UNCHANGED spent
            /\ log' = <<0>> /\ fresh' = made /\ expected' = 2
            /\ greeted' = TRUE /\ asking' = FALSE
            /\ down' = Append(down, Frame("logon", 1, 0, FALSE))
            /\ UNCHANGED made
         \/ /\ f.val = 0 /\ UNCHANGED <<made, fresh, spent>>
            /\ greeted' = TRUE /\ asking' = behind
            /\ expected' = IF behind THEN expected ELSE expected + 1
            /\ log' = log \o (IF behind THEN <<0, 0>> ELSE <<0>>)
            /\ down' = Append(down, Frame("logon", NextSeq, 0, FALSE))
                       \o (IF behind THEN <<Frame("resend", NextSeq + 1, expected, FALSE)>>
                           ELSE <<>>)
  BY Zenon DEF AnswerLogon, Live
<1>2. /\ 1 \in DOMAIN up /\ f = up[1] /\ f \in Upward
      /\ \A i \in DOMAIN up : up[i] \in Upward /\ (i # 1 => 1 < i)
  <2>1. up \in Seq(Upward) BY <1>0 DEF TypeOK
  <2> QED BY <1>1, <2>1
<1> HIDE DEF f
<1>3. /\ outSeq \in Nat \ {0} /\ expected \in Nat /\ f.seq \in Nat /\ f.val \in Nat
      /\ log \in Seq(Nat) /\ Len(log) \in Nat /\ made \in Nat /\ inSeq \in Nat \ {0}
      /\ pending \in SUBSET Downward
  BY <1>0, <1>2 DEF TypeOK, Upward
<1>4. /\ UNCHANGED <<retrans, state, running, loggedOn, probing, outSeq, inSeq, pending,
                     asked, sock, leaked, conns, reader, attempt, beating, closing, last>>
      /\ Stopped'
  BY <1>0, <1>1, ClientStands
<1>5. /\ down = <<>>
      /\ f.val = 1 => /\ inSeq = 1 /\ pending = {}
                      /\ retrans => ~loggedOn /\ made = 0 /\ fresh = 0
      /\ f.val # 1 => retrans /\ f.val = 0 /\ expected <= f.seq
      /\ \A i \in DOMAIN up : i # 1 => up[i].type # "logon"
  BY <1>0, <1>1, <1>2 DEF OneLogon
<1>6. /\ f.seq \in 1..(outSeq - 1) /\ expected >= 1
      /\ \A i \in DOMAIN up : i # 1 /\ up[i].type # "gapfill" => f.seq < up[i].seq
  BY <1>0, <1>1, <1>2 DEF UpHonest
<1>7. reader \notin Sessioned /\ reader \notin {"greet", "connect"}
  BY <1>0, <1>1, <1>2 DEF Places, NoLink
<1>8. Places'
  <2>1. ~loggedOn' => attempt' = 0 BY <1>0, <1>4, Zenon DEF Places
  <2>2. reader' = "backoff" => loggedOn' BY <1>0, <1>4, Zenon DEF Places
  <2>3. reader' \notin Sessioned /\ reader' \notin {"greet", "connect"} BY <1>4, <1>7
  <2> QED BY <2>1, <2>2, <2>3 DEF Places
<1>9. ASSUME expected' \in Nat, expected' >= 1,
             greeted' \/ (retrans /\ loggedOn) => expected' <= outSeq,
             greeted' => expected' <= f.seq + 1
      PROVE  up' \in Seq(Upward) /\ UpHonest' /\ OneLogon'
  <2>1. greeted' => \A i \in DOMAIN up :
                        i # 1 /\ up[i].type # "gapfill" => up[i].seq >= expected'
    <3>1. \A i \in DOMAIN up : up[i].seq \in Nat BY <1>2 DEF Upward
    <3> QED BY <1>3, <1>6, <1>9, <3>1
  <2>2. /\ up' \in Seq(Upward) /\ UpHonest'
        /\ \A i \in DOMAIN up' : i + 1 \in DOMAIN up /\ up'[i] = up[i + 1]
    BY <1>1, <1>9, <2>1, TakeKeeps
  <2>3. DOMAIN up' = 1..Len(up') /\ Len(up') \in Nat BY <2>2
  <2>4. \A i \in DOMAIN up' : up'[i].type # "logon"
    <3>1. \A i \in DOMAIN up' : i + 1 \in DOMAIN up /\ i + 1 # 1 /\ up'[i] = up[i + 1]
      BY <2>2, <2>3
    <3> QED BY <1>5, <3>1
  <2>5. OneLogon' BY <2>4 DEF OneLogon
  <2> QED BY <2>2, <2>5
<1>10. ASSUME NEW g \in Downward, down' = Append(down, g)
       PROVE  down' \in Seq(Downward) /\ \A i \in DOMAIN down' : down'[i] = g
  <2>1. <<>> \in Seq(Downward) /\ Len(<<>>) = 0 OBVIOUS
  <2>2. /\ down' \in Seq(Downward) /\ Len(down') = 1 /\ \A i \in 1..1 : down'[i] = g
    BY <1>5, <1>10, <2>1
  <2>3. DOMAIN down' = 1..1 BY <2>2
  <2> QED BY <2>2, <2>3
<1>11. peer' \in {"up", "gone", "mute"} /\ spent \in Nat BY <1>0, <1>1 DEF TypeOK
<1>12. CASE /\ Fault("reject")
            /\ down' = Append(down, Frame("logout", NextSeq, 0, FALSE))
            /\ UNCHANGED gateway
  <2>1. UNCHANGED <<greeted, expected, asking, log, made, fresh>> BY <1>12 DEF gateway
  <2>2. retrans /\ loggedOn => expected <= outSeq BY <1>0 DEF UpHonest
  <2>3. ~greeted' BY <1>1, <2>1, Zenon
  <2>4. up' \in Seq(Upward) /\ UpHonest' /\ OneLogon'
    BY <1>3, <1>6, <1>9, <2>1, <2>2, <2>3
  <2> DEFINE g == Frame("logout", NextSeq, 0, FALSE)
  <2>5. g \in Downward /\ g.type # "logon" BY <1>3 DEF Frame, Downward, NextSeq, Kinds
  <2> HIDE DEF g
  <2>6. down' \in Seq(Downward) /\ \A i \in DOMAIN down' : down'[i].type # "logon"
    BY <1>10, <1>12, <2>5 DEF g
  <2>7. DownHonest' BY <2>3, <2>6 DEF DownHonest
  <2>8. PendingHonest' BY <1>0, <1>4, <2>1, <2>6 DEF PendingHonest, Truthful
  <2>9. LogHonest' BY <1>0, <2>1 DEF LogHonest
  <2>10. Watermark' BY <1>0, <1>4, <2>1 DEF Watermark, NextSeq
  <2>11. TypeOK'
    <3>1. greeted' \in BOOLEAN /\ asking' \in BOOLEAN BY <1>0, <2>1, Zenon DEF TypeOK
    <3>2. spent' \in Nat BY <1>11, <1>12 DEF Fault
    <3>3. expected' \in Nat /\ log' \in Seq(Nat) /\ made' \in Nat /\ fresh' \in Nat
      BY <1>0, <2>1 DEF TypeOK
    <3> QED BY <1>0, <1>1, <1>11, <2>4, <2>6, <3>1, <3>2, <3>3, GatewayTyped
  <2> QED BY <1>4, <1>8, <2>4, <2>7, <2>8, <2>9, <2>10, <2>11 DEF FixInv
<1>13. CASE /\ f.val = 1 /\ UNCHANGED spent
            /\ log' = <<0>> /\ fresh' = made /\ expected' = 2
            /\ greeted' = TRUE /\ asking' = FALSE
            /\ down' = Append(down, Frame("logon", 1, 0, FALSE))
            /\ UNCHANGED made
  <2>1. up' \in Seq(Upward) /\ UpHonest' /\ OneLogon' BY <1>3, <1>6, <1>9, <1>13
  <2>2. log' \in Seq(Nat) /\ Len(log') = 1 /\ DOMAIN log' = 1..1 /\ \A n \in 1..1 : log'[n] = 0
    BY <1>13
  <2> DEFINE g == Frame("logon", 1, 0, FALSE)
  <2>3. g \in Downward /\ g.type = "logon" /\ g.seq = 1 BY DEF Frame, Downward, Kinds
  <2> HIDE DEF g
  <2>4. down' \in Seq(Downward) /\ \A i \in DOMAIN down' : down'[i] = g
    BY <1>10, <1>13, <2>3 DEF g
  <2>5. Tells(g, log', outSeq') BY <2>2, <2>3 DEF Tells
  <2>6. DownHonest' BY <1>13, <2>4, <2>5 DEF DownHonest, Truthful
  <2>7. pending' = {} /\ inSeq' = 1 BY <1>4, <1>5, <1>13
  <2>8. PendingHonest' BY <2>7 DEF PendingHonest
  <2>9. LogHonest'
    <3>1. \A n \in DOMAIN log' : log'[n] = 0 BY <2>2
    <3>2. fresh' <= made' /\ (fresh' + 1)..made' = {} BY <1>3, <1>13
    <3> QED BY <3>1, <3>2 DEF LogHonest
  <2>10. Watermark'
    <3>1. last' <= made' BY <1>0, <1>4, <1>13 DEF Watermark
    <3>2. inSeq' <= Len(log') + 1 BY <2>2, <2>7
    <3>3. \A n \in DOMAIN log' : log'[n] = 0 BY <2>2
    <3>4. reader' # "deliver" BY <1>4, <1>7 DEF Sessioned
    <3> QED BY <3>1, <3>2, <3>3, <3>4 DEF Watermark, NextSeq
  <2>11. TypeOK'
    <3>1. greeted' \in BOOLEAN /\ asking' \in BOOLEAN BY <1>13, Zenon
    <3>2. expected' \in Nat /\ made' \in Nat /\ fresh' \in Nat /\ spent' \in Nat
      BY <1>3, <1>11, <1>13
    <3> QED BY <1>0, <1>1, <1>11, <2>1, <2>2, <2>4, <3>1, <3>2, GatewayTyped
  <2> QED BY <1>4, <1>8, <2>1, <2>6, <2>8, <2>9, <2>10, <2>11 DEF FixInv
<1>14. CASE /\ f.val = 0 /\ UNCHANGED <<made, fresh, spent>>
            /\ greeted' = TRUE /\ asking' = behind
            /\ expected' = IF behind THEN expected ELSE expected + 1
            /\ log' = log \o (IF behind THEN <<0, 0>> ELSE <<0>>)
            /\ down' = Append(down, Frame("logon", NextSeq, 0, FALSE))
                       \o (IF behind THEN <<Frame("resend", NextSeq + 1, expected, FALSE)>>
                           ELSE <<>>)
  <2>1. retrans /\ expected <= f.seq BY <1>5, <1>14
  <2>2. /\ expected' \in Nat /\ expected' >= 1 /\ expected' <= f.seq + 1 /\ expected' <= outSeq
    BY <1>3, <1>6, <1>14, <2>1
  <2>3. up' \in Seq(Upward) /\ UpHonest' /\ OneLogon' BY <1>9, <2>2
  <2> DEFINE g == Frame("logon", NextSeq, 0, FALSE)
             h == Frame("resend", NextSeq + 1, expected, FALSE)
  <2>4. /\ g \in Downward /\ g.type = "logon" /\ g.seq = Len(log) + 1
        /\ h \in Downward /\ h.type = "resend" /\ h.seq = Len(log) + 2 /\ h.val = expected
    BY <1>3 DEF Frame, Downward, NextSeq, Kinds
  <2> HIDE DEF g, h
  <2>5. /\ log' \in Seq(Nat) /\ Len(log') = IF behind THEN Len(log) + 2 ELSE Len(log) + 1
        /\ \A n \in 1..Len(log') : log'[n] = IF n <= Len(log) THEN log[n] ELSE 0
    <3>1. CASE behind
      <4>1. log' = log \o <<0, 0>> BY <1>14, <3>1
      <4>2. /\ log \o <<0, 0>> \in Seq(Nat) /\ Len(log \o <<0, 0>>) = Len(log) + 2
            /\ \A n \in 1..(Len(log) + 2) :
                   (log \o <<0, 0>>)[n] = IF n <= Len(log) THEN log[n] ELSE 0
        BY <1>3, Twice
      <4> QED BY <3>1, <4>1, <4>2
    <3>2. CASE ~behind
      <4>1. log' = log \o <<0>> BY <1>14, <3>2
      <4>2. /\ Append(log, 0) \in Seq(Nat) /\ Len(Append(log, 0)) = Len(log) + 1
            /\ \A n \in 1..(Len(log) + 1) :
                   Append(log, 0)[n] = IF n <= Len(log) THEN log[n] ELSE 0
            /\ log \o <<0>> = Append(log, 0)
        BY <1>3, Once
      <4> QED BY <3>2, <4>1, <4>2
    <3> QED BY <3>1, <3>2
  <2>6. LogSteps
    <3>1. LogGrows
      <4>1. Len(log) <= Len(log') /\ Len(log') \in Nat BY <1>3, <2>5
      <4>2. \A n \in 1..Len(log) : n \in 1..Len(log') /\ n <= Len(log) BY <1>3, <4>1
      <4>3. \A n \in 1..Len(log) : log'[n] = log[n] BY <2>5, <4>2
      <4> QED BY <2>5, <4>1, <4>3 DEF LogGrows
    <3>2. \A n \in DOMAIN log' \ DOMAIN log : log'[n] = 0 BY <1>3, <2>5
    <3> QED BY <1>14, <3>1, <3>2 DEF LogSteps
  <2>7. /\ LogHonest' /\ Watermark' /\ made' \in Nat
        /\ \A k \in Downward : Truthful(k) => Tells(k, log', outSeq')
    <3>1. UNCHANGED client /\ UNCHANGED fresh BY <1>1, <1>14
    <3>2. greeted' => greeted \/ retrans BY <2>1
    <3> QED BY <2>6, <3>1, <3>2, GrowthKeeps
  <2>8. /\ down' \in Seq(Downward)
        /\ \A i \in DOMAIN down' : down'[i] = g \/ (behind /\ down'[i] = h)
    <3>0. <<>> \in Seq(Downward) /\ Len(<<>>) = 0 OBVIOUS
    <3>1. /\ Append(<<>>, g) \in Seq(Downward) /\ Len(Append(<<>>, g)) = 1
          /\ \A i \in 1..1 : Append(<<>>, g)[i] = g
      BY <2>4, <3>0
    <3>2. CASE behind
      <4>1. down' = Append(<<>>, g) \o <<h>> BY <1>5, <1>14, <3>2 DEF g, h
      <4>2. /\ down' \in Seq(Downward) /\ Len(down') = 2
            /\ \A i \in 1..2 : down'[i] = IF i <= 1 THEN Append(<<>>, g)[i] ELSE h
        BY <2>4, <3>1, <4>1, Once
      <4> QED BY <3>1, <3>2, <4>2
    <3>3. CASE ~behind
      <4>1. down' = Append(<<>>, g) \o <<>> BY <1>5, <1>14, <3>3 DEF g
      <4>2. Append(<<>>, g) \o <<>> = Append(<<>>, g) BY <3>1, ConcatEmptySeq
      <4> QED BY <3>1, <4>1, <4>2
    <3> QED BY <3>2, <3>3
  <2>9. Tells(g, log', outSeq')
    <3>1. g.seq \in 1..Len(log') /\ log'[g.seq] = 0 BY <1>3, <2>4, <2>5
    <3> QED BY <2>4, <3>1 DEF Tells
  <2>10. behind => Tells(h, log', outSeq')
    <3> SUFFICES ASSUME behind PROVE Tells(h, log', outSeq') OBVIOUS
    <3>1. h.seq \in 1..Len(log') /\ log'[h.seq] = 0 BY <1>3, <2>4, <2>5
    <3>2. h.val \in 1..(outSeq' - 1) BY <1>3, <1>4, <1>6, <2>4
    <3> QED BY <2>4, <3>1, <3>2 DEF Tells
  <2>11. DownHonest' BY <1>14, <2>8, <2>9, <2>10, Zenon DEF DownHonest, Truthful
  <2>12. PendingHonest'
    <3>1. \A k \in pending' : Tells(k, log', outSeq') BY <1>0, <1>3, <1>4, <2>7 DEF PendingHonest
    <3>2. \A k \in pending : k.seq \in 1..Len(log) BY <1>0 DEF PendingHonest, Truthful, Tells
    <3>3. \A i \in DOMAIN down', k \in pending' :
              down'[i].type = "logon" => k.seq < down'[i].seq
      BY <1>3, <1>4, <2>4, <2>8, <3>2
    <3>4. /\ \A k, l \in pending : k.seq = l.seq => k = l
          /\ reader = "drain" => \A k \in pending : k.seq >= inSeq
          /\ reader \notin {"drain", "giveup", "done", "raised"} => \A k \in pending : k.seq > inSeq
      BY <1>0 DEF PendingHonest
    <3> QED BY <1>4, <3>1, <3>3, <3>4 DEF PendingHonest, Truthful
  <2>13. TypeOK'
    <3>0. behind \in BOOLEAN OBVIOUS
    <3>1. greeted' \in BOOLEAN /\ asking' \in BOOLEAN BY <1>14, <3>0
    <3>2. fresh' \in Nat /\ spent' \in Nat BY <1>0, <1>11, <1>14 DEF TypeOK
    <3> QED BY <1>0, <1>1, <1>11, <2>2, <2>3, <2>5, <2>7, <2>8, <3>1, <3>2, GatewayTyped
  <2> QED BY <1>4, <1>8, <2>3, <2>7, <2>11, <2>12, <2>13 DEF FixInv
<1> QED BY <1>1, <1>12, <1>13, <1>14

-----------------------------------------------------------------------------
\* The invariant holds at the start.
LEMMA Starts == ASSUME Init PROVE FixInv
<1>1. DOMAIN up = {} /\ DOMAIN down = {} /\ DOMAIN log = {} /\ Len(log) = 0 BY DEF Init
<1>2. TypeOK
  <2>1. /\ retrans \in BOOLEAN /\ missed \in BOOLEAN /\ running \in BOOLEAN /\ asked \in BOOLEAN /\ loggedOn \in BOOLEAN
        /\ probing \in BOOLEAN /\ beating \in BOOLEAN /\ greeted \in BOOLEAN
        /\ asking \in BOOLEAN
    BY Zenon DEF Init
  <2>2. up \in Seq(Upward) /\ down \in Seq(Downward) /\ log \in Seq(Nat) BY DEF Init
  <2> QED BY <2>1, <2>2 DEF Init, TypeOK, States, ReaderStates
<1>3. Places
  <2>1. ~greeted /\ ~loggedOn BY Zenon DEF Init
  <2> QED BY <2>1 DEF Init, Places, Sessioned
<1>4. OneLogon /\ DownHonest
  <2>1. ~greeted BY Zenon DEF Init
  <2> QED BY <1>1, <2>1, Zenon DEF OneLogon, DownHonest
<1>5. PendingHonest BY DEF Init, PendingHonest
<1>6. UpHonest
  <2>1. ~greeted /\ ~loggedOn /\ expected = 1 BY Zenon DEF Init
  <2> QED BY <1>1, <2>1 DEF UpHonest
<1>7. LogHonest BY <1>1 DEF Init, LogHonest
<1>8. Watermark BY <1>1 DEF Init, Watermark, NextSeq
<1>9. Stopped BY DEF Init, Stopped
<1> QED BY <1>2, <1>3, <1>4, <1>5, <1>6, <1>7, <1>8, <1>9 DEF FixInv

\* Nothing happens.
LEMMA StutterKeeps == ASSUME FixInv, UNCHANGED vars PROVE FixInv'
<1>1. UNCHANGED <<retrans, missed, state, running, loggedOn, probing, outSeq, inSeq, pending, asked,
                  sock, leaked, conns, reader, attempt, beating, closing, peer, up, down,
                  greeted, expected, asking, log, made, fresh, last, spent>>
  BY DEF vars, session, numbers, link, tasks, gateway
<1>2. TypeOK'
  <2>1. UNCHANGED client BY <1>1 DEF client, session, numbers, link, tasks
  <2>2. TypeOK /\ Stopped BY DEF FixInv
  <2>3. greeted' \in BOOLEAN /\ asking' \in BOOLEAN BY <1>1, <2>2, Zenon DEF TypeOK
  <2>4. /\ peer' \in {"up", "gone", "mute"} /\ up' \in Seq(Upward) /\ down' \in Seq(Downward)
        /\ expected' \in Nat /\ log' \in Seq(Nat) /\ made' \in Nat /\ fresh' \in Nat
        /\ spent' \in Nat
    BY <1>1, <2>2 DEF TypeOK
  <2> QED BY <2>1, <2>2, <2>3, <2>4, GatewayTyped
<1>3. Places' BY <1>1, Zenon DEF FixInv, Places, Resetting
<1>4. OneLogon' BY <1>1, Zenon DEF FixInv, OneLogon
<1>5. DownHonest' BY <1>1, Zenon DEF FixInv, DownHonest, Truthful
<1>6. PendingHonest' BY <1>1, Zenon DEF FixInv, PendingHonest, Truthful
<1>7. UpHonest' BY <1>1, Zenon DEF FixInv, UpHonest
<1>8. LogHonest' BY <1>1, Zenon DEF FixInv, LogHonest
<1>9. Watermark' BY <1>1, Zenon DEF FixInv, Watermark, NextSeq
<1>10. Stopped' BY <1>1, Zenon DEF FixInv, Stopped
<1> QED BY <1>2, <1>3, <1>4, <1>5, <1>6, <1>7, <1>8, <1>9, <1>10 DEF FixInv

\* The socket of a failed attempt is dropped before the next one.
LEMMA NoLinkKeeps == ASSUME TypeOK, NoLink, [Next]_vars PROVE NoLink'
<1>0. ASSUME NEW at, AttemptFailedAt(at) PROVE reader' # "connect"
  BY <1>0 DEF AttemptFailedAt, Terminate
<1>1. CASE Open \/ SendLogon \/ LogonAnswered \/ LogonUnanswered \/ OpenFails \/ Resume
  <2>1. \/ reader' \in {"greet", "logon", "read", "resume"}
        \/ \E at : AttemptFailedAt(at)
    BY <1>1 DEF Open, SendLogon, LogonAnswered, LogonUnanswered, OpenFails, Resume, AskResend,
                AttemptFailed, Go, LoggedOn, LogonRefused
  <2>2. reader' # "connect" BY <1>0, <2>1
  <2> QED BY <2>2 DEF NoLink
<1>2. CASE BackoffOver
  <2>1. \/ reader' = "done" \/ sock' = "none" \/ \E at : AttemptFailedAt(at)
    BY <1>2 DEF BackoffOver, Go
  <2>2. reader' # "connect" \/ sock' = "none" BY <1>0, <2>1
  <2> QED BY <2>2 DEF NoLink
<1>9. CASE GiveUp \/ CallbackRaises BY <1>9 DEF NoLink, GiveUp, CallbackRaises, Go
<1>3. CASE Receiving
  <2>1. reader' # "connect"
    BY <1>3 DEF Receiving, Receive, Undecodable, Delivered, Drain, EndOfStream, Ahead, Behind,
                Process, Well, Consumed, Recover, Terminate, Go, Top, AskResend
  <2> QED BY <2>1 DEF NoLink
<1>4. CASE HeartbeatDue \/ Probe \/ Send \/ CloseBegin \/ CloseLogout
  <2>1. UNCHANGED <<reader, sock>>
    BY <1>4 DEF HeartbeatDue, Probe, Send, CloseBegin, CloseLogout, link, tasks
  <2> QED BY <2>1 DEF NoLink
<1>5. CASE PeerDead
  <2>1. sock = "open" /\ reader' = reader BY <1>5 DEF PeerDead, tasks
  <2> QED BY <2>1 DEF NoLink
<1>6. CASE CloseJoin BY <1>6 DEF CloseJoin, NoLink
<1>7. CASE RefuseStranger \/ AnswerLogon \/ Answer \/ EmitApp \/ StoreApp \/ EmitAdmin \/ Break
  <2>1. UNCHANGED client
    BY <1>7 DEF RefuseStranger, AnswerLogon, Answer, EmitApp, StoreApp, EmitAdmin, Break
  <2>2. UNCHANGED <<reader, sock>> BY <2>1 DEF client, link, tasks
  <2> QED BY <2>2 DEF NoLink
<1>8. CASE UNCHANGED vars BY <1>8 DEF vars, link, tasks, NoLink
<1> QED BY <1>1, <1>2, <1>3, <1>4, <1>5, <1>6, <1>7, <1>8, <1>9 DEF Next, Connecting

\* Every step keeps the invariant.
LEMMA Steps == ASSUME FixInv, NoLink, [Next]_vars PROVE FixInv'
<1>1. CASE Open BY <1>1, OpenKeeps
<1>2. CASE OpenFails \/ LogonUnanswered BY <1>2, RefusedKeeps
<1>3. CASE SendLogon BY <1>3, SendLogonKeeps
<1>4. CASE LogonAnswered BY <1>4, LogonAnsweredKeeps
<1>5. CASE Resume BY <1>5, ResumeKeeps
<1>6. CASE BackoffOver BY <1>6, BackoffKeeps
<1>7. CASE Receive BY <1>7, ReceiveKeeps
<1>8. CASE Delivered BY <1>8, DeliveredKeeps
<1>9. CASE Drain BY <1>9, DrainKeeps
<1>10. CASE EndOfStream BY <1>10, EndOfStreamKeeps
<1>11. CASE HeartbeatDue \/ Send \/ Probe \/ CloseLogout BY <1>11, UserKeeps
<1>12. CASE PeerDead \/ CloseBegin BY <1>12, MarkKeeps
<1>13. CASE CloseJoin BY <1>13, JoinKeeps
<1>14. CASE RefuseStranger \/ Break BY <1>14, CutKeeps
<1>15. CASE AnswerLogon BY <1>15, AnswerLogonKeeps
<1>16. CASE Answer BY <1>16, AnswerKeeps
<1>17. CASE EmitApp \/ EmitAdmin BY <1>17, EmitKeeps
<1>18. CASE StoreApp BY <1>18, StoreKeeps
<1>19. CASE GiveUp BY <1>19, GiveUpKeeps
<1>20. CASE CallbackRaises BY <1>20, RaisesKeeps
<1>21. CASE Undecodable BY <1>21, UndecodableKeeps
<1>22. CASE UNCHANGED vars BY <1>22, StutterKeeps
<1> QED BY <1>1, <1>2, <1>3, <1>4, <1>5, <1>6, <1>7, <1>8, <1>9, <1>10, <1>11, <1>12, <1>13,
           <1>14, <1>15, <1>16, <1>17, <1>18, <1>19, <1>20, <1>21, <1>22
        DEF Next, Connecting, Receiving

\* The invariant holds in every reachable state.
THEOREM Invariance == Spec => [](FixInv /\ NoLink)
<1>1. Init => FixInv /\ NoLink
  <2>1. Init => NoLink BY DEF Init, NoLink
  <2> QED BY <2>1, Starts
<1>2. FixInv /\ NoLink /\ [Next]_vars => (FixInv /\ NoLink)'
  <2>1. FixInv => TypeOK BY DEF FixInv
  <2> QED BY <2>1, Steps, NoLinkKeeps
<1> QED BY <1>1, <1>2, PTL DEF Spec

\* Every variable keeps its type.
THEOREM TypeCorrect == Spec => []TypeOK
<1>1. FixInv => TypeOK BY DEF FixInv
<1> QED BY <1>1, Invariance, PTL

\* The session never expects a number the gateway has not reached, and what waits
\* in _pending is ahead of its turn, was sent, and waits once.
THEOREM Honest == Spec => []WatermarkHonest
<1>1. FixInv => WatermarkHonest
  <2> SUFFICES ASSUME FixInv PROVE WatermarkHonest OBVIOUS
  <2>0. TypeOK /\ PendingHonest /\ Watermark BY DEF FixInv
  <2>1. inSeq <= NextSeq /\ \A f, g \in pending : f.seq = g.seq => f = g
    BY <2>0 DEF Watermark, PendingHonest
  <2>2. ASSUME reader = "read", NEW f \in pending PROVE f.seq \in (inSeq + 1)..Len(log)
    <3>1. f.seq > inSeq /\ f.seq \in 1..Len(log)
      BY <2>0, <2>2 DEF PendingHonest, Truthful, Tells
    <3>2. inSeq \in Nat /\ Len(log) \in Nat BY <2>0 DEF TypeOK
    <3> QED BY <3>1, <3>2
  <2> QED BY <2>1, <2>2 DEF WatermarkHonest
<1> QED BY <1>1, Invariance, PTL

\* The numbers of the messages on their way to the gateway never repeat or go back,
\* and none is behind the number the gateway expects.
THEOREM InOrder == Spec => []OutboundInOrder
<1>1. FixInv => OutboundInOrder
  <2> SUFFICES ASSUME FixInv PROVE OutboundInOrder OBVIOUS
  <2>0. TypeOK /\ UpHonest BY DEF FixInv
  <2>1. DOMAIN up = 1..Len(up) BY <2>0 DEF TypeOK
  <2>2. ASSUME NEW i \in 1..Len(up), NEW j \in 1..Len(up), i < j,
               "gapfill" \notin {up[i].type, up[j].type}
        PROVE  up[i].seq < up[j].seq
    BY <2>0, <2>1, <2>2 DEF UpHonest
  <2>3. ASSUME NEW i \in 1..Len(up), greeted, up[i].type # "gapfill" PROVE up[i].seq >= expected
    BY <2>0, <2>1, <2>3 DEF UpHonest
  <2> QED BY <2>2, <2>3, Zenon DEF OutboundInOrder
<1> QED BY <1>1, Invariance, PTL

\* A receive task that ended of its own has left a session that is closed and not
\* running; one that an exception of on_state_change ended, a session that is not active.
THEOREM NotWedged == Spec => []NeverWedged
<1>1. FixInv => NeverWedged
  <2> SUFFICES ASSUME FixInv, closing = "no"
      PROVE  /\ reader = "done" => state = "closed" /\ ~running
             /\ reader = "raised" => state \in {"reconnecting", "closed"}
    BY DEF NeverWedged
  <2>1. Stopped BY DEF FixInv
  <2> QED BY <2>1, Zenon DEF Stopped
<1> QED BY <1>1, Invariance, PTL

\* Where on_state_change never raises, nothing but its own end or close() ends the
\* receive task, and the session it leaves is closed and not running.
THEOREM QuietCallbacks == ASSUME "raise" \notin Faults PROVE Spec => []EndIsNoticed
<1>1. Init => reader # "raised" BY DEF Init
<1>2. FixInv /\ reader # "raised" /\ [Next]_vars => (reader # "raised")'
  <2> SUFFICES ASSUME FixInv, reader # "raised", [Next]_vars PROVE reader' # "raised"
    OBVIOUS
  <2>0. TypeOK /\ Stopped BY DEF FixInv
  <2>1. ~Fault("raise") BY DEF Fault
  <2>2. ASSUME NEW at, AttemptFailedAt(at) PROVE reader' # "raised"
    BY <2>2 DEF AttemptFailedAt, Terminate
  <2>3. CASE Connecting
    <3>1. \/ reader' \in {"connect", "greet", "logon", "read", "resume", "done"}
          \/ \E at : AttemptFailedAt(at)
      BY <2>1, <2>3 DEF Connecting, Open, SendLogon, LogonAnswered, LogonUnanswered, OpenFails,
                Resume, AskResend, AttemptFailed, Go, LoggedOn, LogonRefused, BackoffOver,
                GiveUp, CallbackRaises
    <3> QED BY <2>2, <3>1
  <2>4. CASE Receiving
    BY <2>4 DEF Receiving, Receive, Undecodable, Delivered, Drain, EndOfStream, Ahead, Behind,
                Process, Well, Consumed, Recover, Terminate, Go, Top, AskResend
  <2>5. CASE HeartbeatDue \/ Probe \/ PeerDead \/ Send \/ CloseBegin \/ CloseLogout \/ CloseJoin
    BY <2>5 DEF HeartbeatDue, Probe, PeerDead, Send, CloseBegin, CloseLogout, CloseJoin, tasks
  <2>6. CASE RefuseStranger \/ AnswerLogon \/ Answer \/ EmitApp \/ StoreApp \/ EmitAdmin \/ Break
    <3>1. UNCHANGED client
      BY <2>6 DEF RefuseStranger, AnswerLogon, Answer, EmitApp, StoreApp, EmitAdmin, Break
    <3> QED BY <3>1 DEF client, tasks
  <2>7. CASE UNCHANGED vars BY <2>7 DEF vars, tasks
  <2> QED BY <2>3, <2>4, <2>5, <2>6, <2>7 DEF Next
<1>3. FixInv /\ reader # "raised" => EndIsNoticed
  <2> SUFFICES ASSUME FixInv, reader # "raised", closing = "no", reader \in {"done", "raised"}
      PROVE  state = "closed" /\ ~running
    BY DEF EndIsNoticed
  <2>1. Stopped /\ reader = "done" BY DEF FixInv
  <2> QED BY <2>1, Zenon DEF Stopped
<1> QED BY <1>1, <1>2, <1>3, Invariance, PTL DEF Spec

-----------------------------------------------------------------------------
\* The message whose turn it is is the one OrderedDelivery expects.
LEMMA TurnIsExpected ==
    ASSUME FixInv, reader \in {"read", "drain"}, NEW f, Truthful(f), f.type = "app",
           f.seq = inSeq
    PROVE  f.val = Delivery!Expected /\ Delivery!Expected <= made
<1>0. TypeOK /\ Places /\ LogHonest /\ Watermark BY DEF FixInv
<1>1. /\ log \in Seq(Nat) /\ made \in Nat /\ fresh \in Nat /\ last \in Nat
      /\ inSeq \in Nat \ {0} /\ Len(log) \in Nat /\ DOMAIN log = 1..Len(log)
  BY <1>0 DEF TypeOK
<1>2. greeted BY <1>0 DEF Places, Sessioned
<1>3. inSeq \in DOMAIN log /\ log[inSeq] # 0 /\ f.val = log[inSeq]
  BY <1>1 DEF Truthful, Tells
<1>4. \A n \in DOMAIN log : log[n] # 0 => (log[n] <= last <=> n < inSeq)
  BY <1>0, <1>2 DEF Watermark
<1>5. f.val \in (fresh + 1)..made /\ ~(f.val <= last) /\ f.val \in Nat
  <2>1. log[inSeq] \in (fresh + 1)..made BY <1>0, <1>3 DEF LogHonest
  <2>2. ~(inSeq < inSeq) BY <1>1
  <2> QED BY <1>1, <1>3, <1>4, <2>1, <2>2
<1>6. ASSUME NEW w \in (fresh + 1)..made, w > last PROVE f.val <= w
  <2>1. PICK n \in DOMAIN log : log[n] = w BY <1>0 DEF LogHonest
  <2>2. log[n] # 0 /\ ~(log[n] <= last) BY <1>1, <1>6, <2>1
  <2>3. ~(n < inSeq) BY <1>4, <2>2
  <2>4. CASE n = inSeq BY <1>1, <1>3, <1>5, <2>1, <2>4
  <2>5. CASE inSeq < n
    <3>1. log[inSeq] < log[n] BY <1>0, <1>3, <2>2, <2>5 DEF LogHonest
    <3> QED BY <1>1, <1>3, <1>5, <2>1, <3>1
  <2> QED BY <1>1, <2>3, <2>4, <2>5
<1>7. CASE last > fresh
  <2>1. last + 1 \in (fresh + 1)..made /\ last + 1 > last BY <1>1, <1>5, <1>7
  <2>2. f.val <= last + 1 BY <1>6, <2>1
  <2>3. Delivery!Expected = last + 1 BY <1>7 DEF Delivery!Expected
  <2> QED BY <1>1, <1>5, <2>2, <2>3
<1>8. CASE ~(last > fresh)
  <2>1. fresh + 1 \in (fresh + 1)..made /\ fresh + 1 > last BY <1>1, <1>5, <1>8
  <2>2. f.val <= fresh + 1 BY <1>6, <2>1
  <2>3. Delivery!Expected = fresh + 1 BY <1>8 DEF Delivery!Expected
  <2> QED BY <1>1, <1>5, <2>2, <2>3
<1> QED BY <1>7, <1>8

\* _process hands over what OrderedDelivery delivers, or nothing.
LEMMA ProcessDelivers ==
    ASSUME FixInv, reader \in {"read", "drain"}, NEW f, Truthful(f), f.seq = inSeq,
           Process(f), UNCHANGED <<retrans, made, fresh>>
    PROVE  [Delivery!Next]_<<retrans, made, fresh, last>>
<1>1. CASE f.type = "app"
  <2>1. last' = f.val BY <1>1 DEF Process, Well
  <2>2. f.val = Delivery!Expected /\ Delivery!Expected <= made BY <1>1, TurnIsExpected
  <2> QED BY <2>1, <2>2 DEF Delivery!Next, Delivery!Deliver
<1>2. CASE f.type # "app"
  <2>1. last' = last BY <1>2 DEF Process, Well
  <2> QED BY <2>1
<1> QED BY <1>1, <1>2

\* Every step hands over the next message, makes one, starts afresh, or does none of it.
LEMMA StepsDeliver ==
    ASSUME FixInv, [Next]_vars
    PROVE  [Delivery!Next]_<<retrans, made, fresh, last>>
<1>0. TypeOK /\ Places /\ OneLogon /\ DownHonest /\ PendingHonest BY DEF FixInv
<1>1. CASE Connecting
  <2>1. UNCHANGED <<retrans, made, fresh, last>>
    BY <1>1 DEF Connecting, Open, OpenFails, SendLogon, LogonAnswered, LogonUnanswered, Resume,
                BackoffOver, GiveUp, CallbackRaises, gateway
  <2> QED BY <2>1
<1>2. CASE Receive
  <2> DEFINE f == Head(down)
  <2>1. /\ reader = "read" /\ down # <<>> /\ UNCHANGED <<retrans, made, fresh>>
        /\ last' = last \/ (f.seq = inSeq /\ Process(f))
    BY <1>2, Zenon DEF Receive, Ahead, Behind, gateway
  <2>2. 1 \in DOMAIN down /\ f = down[1]
    <3>1. down \in Seq(Downward) BY <1>0 DEF TypeOK
    <3> QED BY <2>1, <3>1
  <2> HIDE DEF f
  <2>3. greeted BY <1>0, <2>1 DEF Places, Sessioned
  <2>4. Truthful(f) BY <1>0, <2>2, <2>3 DEF DownHonest
  <2>5. reader \in {"read", "drain"} BY <2>1
  <2>6. CASE last' = last BY <2>1, <2>6
  <2>7. CASE f.seq = inSeq /\ Process(f) BY <2>1, <2>4, <2>5, <2>7, ProcessDelivers
  <2> QED BY <2>1, <2>6, <2>7
<1>3. CASE Drain
  <2>1. /\ reader = "drain" /\ UNCHANGED <<retrans, made, fresh>>
        /\ last' = last \/ \E f \in pending : f.seq = inSeq /\ Process(f)
    BY <1>3, Zenon DEF Drain, gateway
  <2>2. reader \in {"read", "drain"} BY <2>1
  <2>3. CASE last' = last BY <2>1, <2>3
  <2>4. CASE \E f \in pending : f.seq = inSeq /\ Process(f)
    <3>1. PICK f \in pending : f.seq = inSeq /\ Process(f) BY <2>4
    <3>2. Truthful(f) BY <1>0 DEF PendingHonest
    <3> QED BY <2>1, <2>2, <3>1, <3>2, ProcessDelivers
  <2> QED BY <2>1, <2>3, <2>4
<1>4. CASE Undecodable \/ Delivered \/ EndOfStream
  <2>1. UNCHANGED <<retrans, made, fresh, last>>
    BY <1>4 DEF Undecodable, Delivered, EndOfStream, gateway
  <2> QED BY <2>1
<1>5. CASE HeartbeatDue \/ Probe \/ PeerDead \/ Send \/ CloseBegin \/ CloseLogout \/ CloseJoin
  <2>1. UNCHANGED <<retrans, made, fresh, last>>
    BY <1>5 DEF HeartbeatDue, Probe, PeerDead, Send, CloseBegin, CloseLogout, CloseJoin, gateway
  <2> QED BY <2>1
<1>6. CASE RefuseStranger \/ Answer \/ Break
  <2>1. UNCHANGED <<retrans, made, fresh, last>>
    BY <1>6 DEF RefuseStranger, Answer, Break, gateway, client
  <2> QED BY <2>1
<1>7. CASE EmitApp \/ StoreApp
  <2>1. made' = made + 1 /\ UNCHANGED <<retrans, fresh, last>>
    BY <1>7 DEF EmitApp, StoreApp, client
  <2> QED BY <2>1 DEF Delivery!Next, Delivery!Make
<1>8. CASE EmitAdmin
  <2>1. UNCHANGED <<retrans, made, fresh, last>> BY <1>8 DEF EmitAdmin, client
  <2> QED BY <2>1
<1>9. CASE AnswerLogon
  <2> DEFINE f == Head(up)
  <2>1. /\ ~greeted /\ up # <<>> /\ f.type = "logon" /\ UNCHANGED <<retrans, made, last>>
        /\ fresh' = fresh \/ (f.val = 1 /\ fresh' = made)
    BY <1>9 DEF AnswerLogon, gateway, client
  <2>2. 1 \in DOMAIN up /\ f = up[1]
    <3>1. up \in Seq(Upward) BY <1>0 DEF TypeOK
    <3> QED BY <2>1, <3>1
  <2> HIDE DEF f
  <2>3. CASE fresh' = fresh BY <2>1, <2>3
  <2>4. CASE f.val = 1 /\ fresh' = made
    <3>1. retrans => made = 0 /\ fresh = 0 BY <1>0, <2>1, <2>2, <2>4, Zenon DEF OneLogon
    <3>2. CASE retrans
      <4>1. fresh' = fresh BY <2>4, <3>1, <3>2
      <4> QED BY <2>1, <4>1
    <3>3. CASE ~retrans BY <2>1, <2>4, <3>3, Zenon DEF Delivery!Next, Delivery!StartAfresh
    <3> QED BY <3>2, <3>3
  <2> QED BY <2>1, <2>3, <2>4
<1>10. CASE UNCHANGED vars
  <2>1. UNCHANGED <<retrans, made, fresh, last>> BY <1>10 DEF vars, gateway
  <2> QED BY <2>1
<1> QED BY <1>1, <1>2, <1>3, <1>4, <1>5, <1>6, <1>7, <1>8, <1>9, <1>10
        DEF Next, Receiving

\* A FIX session implements OrderedDelivery: with retransmission every application
\* message reaches on_message once and in order across reconnects; without it, what
\* comes after a logon does, without a hole.
THEOREM Implements == Spec => DeliverySpec
<1>1. Init => Delivery!Init BY Zenon DEF Init, Delivery!Init
<1>2. FixInv /\ [Next]_vars => [Delivery!Next]_<<retrans, made, fresh, last>>
  BY StepsDeliver
<1> QED BY <1>1, <1>2, Invariance, PTL DEF Spec, DeliverySpec, Delivery!Spec, Delivery!deliveryVars
=============================================================================
