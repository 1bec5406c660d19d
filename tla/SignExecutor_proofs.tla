------------------------ MODULE SignExecutor_proofs ------------------------
(***************************************************************************)
(* For any number of signing and closing threads: at most one executor is  *)
(* ever constructed, and none outlives close().                            *)
(*                                                                         *)
(* The invariant says what the lock protects.  While a closer is inside it *)
(* the three writes of close() are only partly done, so each of them is    *)
(* tied to the closer's place; that no second executor is constructed      *)
(* needs that an open auth without one has never had one (FirstPool).      *)
(***************************************************************************)
EXTENDS SignExecutor, TLAPS

Inside == {"flag", "shutdown", "clear"}

HolderInside == \A c \in Closers : cpc[c] \in Inside <=> holder = c

ClosingIsClosed == \A c \in Closers : cpc[c] \in {"shutdown", "clear"} => closed

ClearIsDown == \A c \in Closers : cpc[c] = "clear" => 1 .. made \subseteq down

FirstPool == executor = 0 /\ ~closed => made = 0

DroppedIsDown == executor = 0 => 1 .. made \subseteq down

ClosedIsClear == closed /\ holder = NoOne => executor = 0

SubmitHeld == \A s \in Signers : spc[s] = "submit" => held[s] \in 1 .. made

PoolInv ==
    /\ AuthTypeOK
    /\ made <= 1
    /\ HolderInside
    /\ ClosingIsClosed
    /\ ClearIsDown
    /\ FirstPool
    /\ DroppedIsDown
    /\ ClosedIsClear
    /\ SubmitHeld

-----------------------------------------------------------------------------
\* Before anything has run, no executor was constructed.
LEMMA InitPool == AuthInit => PoolInv
<1> SUFFICES ASSUME AuthInit PROVE PoolInv OBVIOUS
<1>1. 1 .. made = {} BY DEF AuthInit
<1>2. AuthTypeOK
  <2>1. made \in Nat /\ executor \in 0 .. made
    BY DEF AuthInit
  <2>2. closed \in BOOLEAN /\ holder \in Closers \cup {NoOne}
    BY Zenon DEF AuthInit
  <2>3. down \in SUBSET (1 .. made) BY Zenon DEF AuthInit
  <2>4. 0 \in 0 .. made BY DEF AuthInit
  <2>5. held \in [Signers -> 0 .. made] BY <2>4, Zenon DEF AuthInit
  <2>6. /\ spc \in [Signers -> {"out", "read", "slow", "submit", "signed", "raised"}]
        /\ cpc \in [Closers -> {"out", "flag", "shutdown", "clear", "closed"}]
    BY DEF AuthInit
  <2> QED BY <2>1, <2>2, <2>3, <2>5, <2>6 DEF AuthTypeOK
<1>3. HolderInside BY ThreadsAssumption DEF AuthInit, HolderInside, Inside
<1>4. ClosingIsClosed /\ ClearIsDown /\ SubmitHeld
  BY DEF AuthInit, ClosingIsClosed, ClearIsDown, SubmitHeld
<1>5. made <= 1 /\ FirstPool /\ ClosedIsClear BY DEF AuthInit, FirstPool, ClosedIsClear
<1>6. DroppedIsDown BY <1>1 DEF DroppedIsDown
<1> QED BY <1>2, <1>3, <1>4, <1>5, <1>6 DEF PoolInv

\* The steps of a signer.  Only the locked one touches what the lock
\* protects, and it finds nobody inside.
LEMMA SignerKeeps ==
    ASSUME PoolInv, NEW s \in Signers, SignStep(s) \/ \E how \in {"signed", "raised"} : Deliver(s, how)
    PROVE  PoolInv'
<1> USE DEF PoolInv, AuthTypeOK
<1>1. CASE ReadExecutor(s)
  BY <1>1 DEF ReadExecutor, HolderInside, ClosingIsClosed, ClearIsDown, FirstPool,
              DroppedIsDown, ClosedIsClear, SubmitHeld
<1>2. CASE FastPath(s)
  BY <1>2 DEF FastPath, HolderInside, ClosingIsClosed, ClearIsDown, FirstPool,
              DroppedIsDown, ClosedIsClear, SubmitHeld
<1>3. CASE SlowPath(s)
  <2>1. CASE closed /\ spc' = [spc EXCEPT ![s] = "raised"] /\ UNCHANGED <<made, executor, held>>
    BY <1>3, <2>1 DEF SlowPath, HolderInside, ClosingIsClosed, ClearIsDown, FirstPool,
                      DroppedIsDown, ClosedIsClear, SubmitHeld
  <2>2. CASE ~closed /\ executor # 0
    BY <1>3, <2>2 DEF SlowPath, HolderInside, ClosingIsClosed, ClearIsDown, FirstPool,
                      DroppedIsDown, ClosedIsClear, SubmitHeld
  <2>3. CASE ~closed /\ executor = 0
    <3>1. made = 0 /\ holder = NoOne /\ made' = 1 /\ executor' = 1
      BY <1>3, <2>3 DEF SlowPath, FirstPool
    <3>2. \A c \in Closers : cpc[c] # "clear"
      BY <3>1, ThreadsAssumption DEF HolderInside, Inside
    <3>3. AuthTypeOK'
      BY <1>3, <2>3, <3>1 DEF SlowPath
    <3>4. SubmitHeld'
      BY <1>3, <2>3, <3>1 DEF SlowPath, SubmitHeld
    <3>5. HolderInside' /\ ClosingIsClosed' /\ ClearIsDown' /\ FirstPool' /\ DroppedIsDown'
            /\ ClosedIsClear'
      BY <1>3, <2>3, <3>1, <3>2 DEF SlowPath, HolderInside, ClosingIsClosed, ClearIsDown,
             FirstPool, DroppedIsDown, ClosedIsClear
    <3> QED BY <3>1, <3>3, <3>4, <3>5
  <2> QED BY <1>3, <2>1, <2>2, <2>3 DEF SlowPath
<1>4. CASE Submit(s)
  BY <1>4 DEF Submit, HolderInside, ClosingIsClosed, ClearIsDown, FirstPool,
              DroppedIsDown, ClosedIsClear, SubmitHeld
<1>5. CASE \E how \in {"signed", "raised"} : Deliver(s, how)
  BY <1>5 DEF Deliver, HolderInside, ClosingIsClosed, ClearIsDown, FirstPool,
              DroppedIsDown, ClosedIsClear, SubmitHeld
<1> QED BY <1>1, <1>2, <1>3, <1>4, <1>5 DEF SignStep

\* The steps of close(): the lock is taken, and each write is done by the
\* one closer inside.
LEMMA CloserKeeps ==
    ASSUME PoolInv, NEW c \in Closers, CloseStep(c)
    PROVE  PoolInv'
<1> USE DEF PoolInv, AuthTypeOK
<1>1. CASE EnterClose(c)
  BY <1>1, ThreadsAssumption
     DEF EnterClose, HolderInside, ClosingIsClosed, ClearIsDown, FirstPool,
         DroppedIsDown, ClosedIsClear, SubmitHeld, Inside
<1>2. CASE SetClosed(c)
  BY <1>2, ThreadsAssumption
     DEF SetClosed, HolderInside, ClosingIsClosed, ClearIsDown, FirstPool,
         DroppedIsDown, ClosedIsClear, SubmitHeld, Inside
<1>3. CASE Shutdown(c)
  <2>1. 1 .. made \subseteq down'
    BY <1>3 DEF Shutdown, DroppedIsDown
  <2>2. AuthTypeOK'
    BY <1>3 DEF Shutdown
  <2> QED
    BY <1>3, <2>1, <2>2
       DEF Shutdown, HolderInside, ClosingIsClosed, ClearIsDown, FirstPool,
           DroppedIsDown, ClosedIsClear, SubmitHeld, Inside
<1>4. CASE ClearExecutor(c)
  <2>1. 1 .. made \subseteq down /\ closed /\ holder = c
    BY <1>4 DEF ClearExecutor, ClearIsDown, ClosingIsClosed, HolderInside, Inside
  <2>2. \A d \in Closers : cpc'[d] \notin Inside
    BY <1>4, <2>1 DEF ClearExecutor, HolderInside, Inside
  <2>3. AuthTypeOK'
    BY <1>4 DEF ClearExecutor
  <2>4. HolderInside' /\ ClosingIsClosed' /\ ClearIsDown'
    BY <1>4, <2>2, ThreadsAssumption
       DEF ClearExecutor, HolderInside, ClosingIsClosed, ClearIsDown, Inside
  <2>5. FirstPool' /\ DroppedIsDown' /\ ClosedIsClear' /\ SubmitHeld'
    BY <1>4, <2>1 DEF ClearExecutor, FirstPool, DroppedIsDown, ClosedIsClear, SubmitHeld
  <2> QED BY <1>4, <2>3, <2>4, <2>5 DEF ClearExecutor
<1> QED BY <1>1, <1>2, <1>3, <1>4 DEF CloseStep

\* Every step of any thread keeps it.
LEMMA PoolKeeps == PoolInv /\ [AuthNext]_authVars => PoolInv'
<1> SUFFICES ASSUME PoolInv, [AuthNext]_authVars PROVE PoolInv' OBVIOUS
<1>1. CASE UNCHANGED authVars
  BY <1>1 DEF authVars, PoolInv, AuthTypeOK, HolderInside, ClosingIsClosed, ClearIsDown,
              FirstPool, DroppedIsDown, ClosedIsClear, SubmitHeld
<1>2. CASE AuthNext
  BY <1>2, SignerKeeps, CloserKeeps DEF AuthNext
<1> QED BY <1>1, <1>2

\* The inductive invariant, for any number of threads.
THEOREM PoolInvariant == AuthSpec => []PoolInv
BY InitPool, PoolKeeps, PTL DEF AuthSpec

-----------------------------------------------------------------------------
\* The invariant says more than that the pool dies with its auth.
LEMMA InvariantGivesDeath == PoolInv => PoolDiesWithAuth
BY DEF PoolInv, PoolDiesWithAuth, ClosedIsClear, DroppedIsDown, SubmitHeld

\* The executor's state stays well typed (kalshi/auth.py 74).
THEOREM AuthTyped == AuthSpec => []AuthTypeOK
<1>1. PoolInv => AuthTypeOK BY DEF PoolInv
<1> QED BY <1>1, PoolInvariant, PTL

\* However signers race close() and each other, on any number of threads,
\* one executor at most is constructed and none is alive once close() has
\* left the lock (kalshi/auth.py 325, 379).
THEOREM ClosedForGood == AuthSpec => []PoolDiesWithAuth
BY PoolInvariant, InvariantGivesDeath, PTL

=============================================================================
