------------------------ MODULE HttpTransport_proofs ------------------------
(***************************************************************************)
(* For every number of retries, every delay and every budget: a request    *)
(* keeps to its budget, and the transport implements RemoteCall, so that   *)
(* what changes something at the exchange changes it at most once and the  *)
(* caller is told the truth.                                               *)
(*                                                                         *)
(* The invariant counts.  What can still take effect and what has taken    *)
(* effect make at most one (OneEffect): none while the request can be sent *)
(* again, one while it is on the wire.  And a pause was only begun if it   *)
(* ends within the budget (InTime) and a turn of the loop is left.         *)
(***************************************************************************)
EXTENDS HttpTransport, TLAPS

Sendable == {"idle", "sign", "send", "pause"}

InTime ==
    Budgeted =>
        /\ at \in {"idle", "sign", "send", "wire"} => elapsed <= TotalTimeout
        /\ at = "pause" => elapsed + pause <= TotalTimeout
        /\ elapsed <= TotalTimeout + AttemptTime

OneEffect ==
    /\ ~Changes => applied = 0 /\ inflight = 0
    /\ applied + inflight <= 1
    /\ at \in Sendable => applied = 0 /\ inflight = 0
    /\ at = "done" /\ verdict \in Definite => applied = 0 /\ inflight = 0
    /\ at = "done" /\ verdict = "ok" /\ Changes => applied = 1

TurnLeft == at = "pause" => attempt < MaxRetries

CallInv == TransportTypeOK /\ TurnLeft /\ InTime /\ OneEffect

\* The two ways an attempt that failed goes on.
Ended(v) == at' = "done" /\ verdict' = v /\ attempt' = attempt /\ pause' = pause

Repeats ==
    /\ at' = "pause"
    /\ attempt' = attempt
    /\ attempt < MaxRetries
    /\ verdict' = verdict
    /\ pause' \in 0 .. MaxDelay
    /\ Budgeted => elapsed' + pause' <= TotalTimeout

TakesAtMost == elapsed' \in elapsed .. elapsed + AttemptTime

-----------------------------------------------------------------------------
\* No back-off is longer than retry_max_delay.
LEMMA BackoffsBounded == Backoffs \subseteq 0 .. MaxDelay
BY DEF Backoffs

\* Nor is a pause the server asked for, whatever its Retry-After says.
LEMMA DelaysBounded ==
    ASSUME NEW status \in Statuses, NEW hint \in HintsOf(status)
    PROVE  Delays(hint) \subseteq 0 .. MaxDelay
<1> DEFINE B == Backoffs
<1>1. B \subseteq 0 .. MaxDelay BY BackoffsBounded
<1> HIDE DEF B
<1>2. CASE hint = NoHint
  BY <1>1, <1>2 DEF Delays, B
<1>3. CASE hint # NoHint
  <2>1. hint \in Nat /\ MaxDelay \in Nat
    BY <1>3, TransportAssumption DEF HintsOf
  <2>2. \A d \in B : Least(Least(hint, MaxDelay) + d, MaxDelay) \in 0 .. MaxDelay
    BY <1>1, <2>1 DEF Least
  <2>3. Delays(hint) = {Least(Least(hint, MaxDelay) + d, MaxDelay) : d \in B}
    BY <1>3 DEF Delays, B
  <2> QED BY <2>2, <2>3
<1> QED BY <1>2, <1>3

\* What RetryOr does, whatever it is given.
LEMMA RetryOrProperties ==
    ASSUME TransportTypeOK, NEW v, NEW may, NEW delays \in SUBSET (0 .. MaxDelay),
           RetryOr(v, may, delays)
    PROVE  TakesAtMost /\ (Ended(v) \/ (Repeats /\ may))
<1>1. PICK t \in 0 .. AttemptTime :
          /\ elapsed' = elapsed + t
          /\ \/ End(v)
             \/ /\ may
                /\ attempt < MaxRetries
                /\ \E d \in delays :
                       \/ End(v)
                       \/ /\ ~WouldExceedBudget(elapsed + t, d)
                          /\ at' = "pause"
                          /\ pause' = d
                          /\ UNCHANGED <<attempt, verdict>>
  BY Zenon DEF RetryOr
<1>2. TakesAtMost
  BY <1>1, TransportAssumption DEF TakesAtMost, TransportTypeOK
<1>3. CASE End(v)
  BY <1>2, <1>3, Zenon DEF End, Ended
<1>4. CASE /\ may
           /\ attempt < MaxRetries
           /\ \E d \in delays :
                  /\ ~WouldExceedBudget(elapsed + t, d)
                  /\ at' = "pause"
                  /\ pause' = d
                  /\ UNCHANGED <<attempt, verdict>>
  <2>1. PICK d \in delays :
            /\ ~WouldExceedBudget(elapsed + t, d)
            /\ at' = "pause"
            /\ pause' = d
            /\ UNCHANGED <<attempt, verdict>>
    BY <1>4
  <2>2. Budgeted => ~(elapsed + t + d > TotalTimeout)
    BY <2>1, Zenon DEF WouldExceedBudget
  <2>3. Budgeted => elapsed' + pause' <= TotalTimeout
    BY <1>1, <2>1, <2>2, TransportAssumption DEF TransportTypeOK
  <2>4. Repeats
    BY <1>4, <2>1, <2>3 DEF Repeats
  <2> QED BY <1>2, <1>4, <2>4, Zenon
<1> QED BY <1>1, <1>3, <1>4, Zenon

-----------------------------------------------------------------------------
\* A request that ends keeps the invariant, if what it tells is true.
LEMMA EndKeeps ==
    ASSUME CallInv, NEW v \in Definite \cup Ambiguous, Ended(v),
           at \in {"sign", "send", "wire", "pause"},
           (at \in {"sign", "send", "wire"} /\ TakesAtMost) \/ elapsed' = elapsed,
           verb' = verb, shut' = shut, applied' = applied, (inflight' = inflight \/ inflight' = 0),
           v \in Definite => applied = 0 /\ inflight' = 0
    PROVE  CallInv'
<1>0. TransportTypeOK /\ InTime /\ OneEffect BY DEF CallInv
<1>1. v # "ok" /\ v # "none" BY DEF Definite, Ambiguous
<1>2. elapsed' \in Nat /\ (Budgeted => elapsed' <= TotalTimeout + AttemptTime)
  BY <1>0, TransportAssumption DEF InTime, TakesAtMost, TransportTypeOK
<1>3. TransportTypeOK' BY <1>0, <1>2 DEF Ended, TransportTypeOK
<1>4. InTime' BY <1>2 DEF Ended, InTime
<1>5. OneEffect'
  <2>1. at' = "done" /\ verdict' = v BY DEF Ended
  <2>2. applied \in Nat /\ inflight \in Nat /\ applied + inflight <= 1
    BY <1>0 DEF OneEffect, TransportTypeOK
  <2>3. applied' + inflight' <= 1 BY <2>2
  <2>4. ~Changes' => applied' = 0 /\ inflight' = 0 BY <1>0 DEF OneEffect, Changes
  <2> QED BY <1>1, <2>1, <2>3, <2>4 DEF OneEffect, Sendable
<1>6. TurnLeft' BY DEF Ended, TurnLeft
<1> QED BY <1>3, <1>4, <1>5, <1>6 DEF CallInv

\* So does one that will be sent again, for nothing of it is on its way.
LEMMA RepeatKeeps ==
    ASSUME CallInv, Repeats, TakesAtMost, at \in {"send", "wire"}, ~Changes \/ at = "send",
           verb' = verb, shut' = shut, applied' = applied, inflight' = inflight \/ inflight' = 0
    PROVE  CallInv'
<1>0. TransportTypeOK /\ InTime /\ OneEffect BY DEF CallInv
<1>1. /\ elapsed' \in Nat
      /\ pause' \in Nat
  BY <1>0, TransportAssumption DEF TakesAtMost, Repeats, TransportTypeOK
<1>2. TransportTypeOK' BY <1>0, <1>1 DEF Repeats, TransportTypeOK
<1>3. InTime'
  <2>1. Budgeted => elapsed' + pause' <= TotalTimeout BY DEF Repeats
  <2>2. Budgeted => elapsed' <= TotalTimeout + AttemptTime
    BY <1>0, TransportAssumption DEF InTime, TakesAtMost, TransportTypeOK
  <2>3. at' = "pause" BY DEF Repeats
  <2> QED BY <2>1, <2>2, <2>3 DEF InTime
<1>4. OneEffect' BY <1>0 DEF Repeats, OneEffect, Changes, Sendable, TransportTypeOK
<1>5. TurnLeft' BY <1>0 DEF Repeats, TurnLeft
<1> QED BY <1>2, <1>3, <1>4, <1>5 DEF CallInv

\* The verdicts of the attempts that fail.
LEMMA Verdicts ==
    /\ {"pool", "closed"} \subseteq Definite
    /\ {"network", "timeout", "error", "attribute_error", "cancelled"} \cap Definite = {}
    /\ {"network", "timeout", "error", "attribute_error", "cancelled"} \subseteq Ambiguous
    /\ \A status \in Statuses :
           /\ MapError(status) \in Definite \cup Ambiguous
           /\ MapError(status) \in Definite => status \in Refusals
BY DEF Definite, Ambiguous, Statuses, MapError, Refusals

\* An attempt that fails at the pool, on the way or at the exchange.
LEMMA FailureKeeps ==
    ASSUME CallInv, NEW v \in Definite \cup Ambiguous, NEW may, NEW delays \in SUBSET (0 .. MaxDelay),
           RetryOr(v, may, delays), at \in {"send", "wire"}, may => ~Changes \/ at = "send",
           verb' = verb, shut' = shut, applied' = applied, inflight' = inflight \/ inflight' = 0,
           v \in Definite => applied = 0 /\ inflight' = 0
    PROVE  CallInv'
<1>1. TransportTypeOK BY DEF CallInv
<1>2. TakesAtMost /\ (Ended(v) \/ (Repeats /\ may)) BY <1>1, RetryOrProperties
<1>3. CASE Ended(v)
  <2>1. /\ at \in {"sign", "send", "wire", "pause"}
        /\ (at \in {"sign", "send", "wire"} /\ TakesAtMost) \/ elapsed' = elapsed
    BY <1>2
  <2> QED BY <1>3, <2>1, EndKeeps, Zenon
<1>4. CASE Repeats /\ may
  BY <1>2, <1>4, RepeatKeeps, Zenon
<1> QED BY <1>2, <1>3, <1>4, Zenon

\* Before the request begins, nothing has been sent.
LEMMA InitCall == TransportInit => CallInv
<1> SUFFICES ASSUME TransportInit PROVE CallInv OBVIOUS
<1> USE TransportAssumption DEF TransportInit
<1>1. shut \in BOOLEAN BY Zenon
<1>2. TransportTypeOK BY <1>1 DEF TransportTypeOK, Verbs
<1>3. InTime BY DEF InTime
<1>4. OneEffect BY DEF OneEffect, Changes, RetryableMethods
<1>5. TurnLeft BY DEF TurnLeft
<1> QED BY <1>2, <1>3, <1>4, <1>5 DEF CallInv

-----------------------------------------------------------------------------
\* Every step keeps it: one case for each action of the transport.
LEMMA CallKeeps == CallInv /\ [TransportNext]_transportVars => CallInv'
<1> SUFFICES ASSUME CallInv, [TransportNext]_transportVars PROVE CallInv' OBVIOUS
<1> USE TransportAssumption
<1>0. TransportTypeOK /\ TurnLeft /\ InTime /\ OneEffect BY DEF CallInv
<1>1. CASE \E v \in Verbs : BeginRequest(v)
  <2>1. TransportTypeOK' BY <1>0, <1>1 DEF BeginRequest, TransportTypeOK
  <2>2. InTime' BY <1>1 DEF BeginRequest, InTime
  <2>3. OneEffect' BY <1>1 DEF BeginRequest, OneEffect
  <2>4. TurnLeft' BY <1>0, <1>1 DEF BeginRequest, TurnLeft
  <2> QED BY <2>1, <2>2, <2>3, <2>4 DEF CallInv
<1>2. CASE Signed
  BY <1>0, <1>2 DEF Signed, CallInv, TransportTypeOK, TurnLeft, InTime, OneEffect, Sendable, Changes
<1>3. CASE SignRefused
  BY <1>0, <1>3, EndKeeps, Verdicts DEF SignRefused, End, Ended, OneEffect, Sendable
<1>4. CASE ClientClosed
  BY <1>0, <1>4, EndKeeps, Verdicts DEF ClientClosed, End, Ended, OneEffect, Sendable
<1>5. CASE PoolExhausted
  BY <1>0, <1>5, FailureKeeps, BackoffsBounded, Verdicts DEF PoolExhausted, OneEffect, Sendable
<1>6. CASE ConnectFailed
  BY <1>0, <1>6, FailureKeeps, BackoffsBounded, Verdicts DEF ConnectFailed
<1>7. CASE Send
  <2>1. TransportTypeOK' BY <1>0, <1>7 DEF Send, TransportTypeOK
  <2>2. InTime' BY <1>0, <1>7 DEF Send, InTime
  <2>3. OneEffect' BY <1>0, <1>7 DEF Send, OneEffect, TransportTypeOK, Sendable, Changes
  <2>4. TurnLeft' BY <1>0, <1>7 DEF Send, TurnLeft
  <2> QED BY <2>1, <2>2, <2>3, <2>4 DEF CallInv
<1>8. CASE TimedOut
  BY <1>0, <1>8, FailureKeeps, BackoffsBounded, Verdicts DEF TimedOut, Changes
<1>9. CASE Broken
  BY <1>0, <1>9, FailureKeeps, BackoffsBounded, Verdicts DEF Broken, Changes
<1>10. CASE HttpFault
  BY <1>0, <1>10, FailureKeeps, Verdicts DEF HttpFault
<1>11. CASE Succeed
  <2>1. TransportTypeOK' BY <1>0, <1>11 DEF Succeed, End, TransportTypeOK
  <2>2. InTime' BY <1>0, <1>11 DEF Succeed, End, InTime, TransportTypeOK
  <2>3. OneEffect'
    BY <1>0, <1>11, Verdicts DEF Succeed, End, OneEffect, TransportTypeOK, Sendable, Changes, Definite
  <2>4. TurnLeft' BY <1>0, <1>11 DEF Succeed, End, TurnLeft
  <2> QED BY <2>1, <2>2, <2>3, <2>4 DEF CallInv
<1>12. ASSUME NEW status \in Statuses, Refuse(status) PROVE CallInv'
  <2>1. PICK hint \in HintsOf(status) :
            RetryOr(MapError(status),
                    status \in RetryableStatusCodes /\ verb \in RetryableMethods,
                    Delays(hint))
    BY <1>12 DEF Refuse
  <2>2. Delays(hint) \in SUBSET (0 .. MaxDelay) BY DelaysBounded
  <2>3. /\ at = "wire" /\ verb' = verb /\ applied' = applied /\ shut' = shut
        /\ inflight' = inflight \/ inflight' = 0
    BY <1>12 DEF Refuse
  <2>4. MapError(status) \in Definite => applied = 0 /\ inflight' = 0
    BY <1>12, Verdicts DEF Refuse
  <2>5. (status \in RetryableStatusCodes /\ verb \in RetryableMethods) => ~Changes \/ at = "send"
    BY DEF Changes
  <2> QED BY <2>1, <2>2, <2>3, <2>4, <2>5, FailureKeeps, Verdicts, Zenon
<1>13. CASE Unmappable
  BY <1>0, <1>13, FailureKeeps, Verdicts DEF Unmappable
<1>14. CASE Resume
  <2>1. attempt < MaxRetries /\ elapsed' = elapsed + pause /\ at' = "sign"
    BY <1>0, <1>14 DEF Resume, TurnLeft
  <2>2. TransportTypeOK' BY <1>0, <1>14, <2>1 DEF Resume, TransportTypeOK
  <2>3. InTime' BY <1>0, <1>14, <2>1 DEF Resume, InTime, TransportTypeOK
  <2>4. OneEffect' BY <1>0, <1>14 DEF Resume, OneEffect, Sendable, Changes
  <2>5. TurnLeft' BY <2>1 DEF TurnLeft
  <2> QED BY <2>2, <2>3, <2>4, <2>5 DEF CallInv
<1>15. CASE Cancelled
  BY <1>0, <1>15, EndKeeps, Verdicts DEF Cancelled, End, Ended
<1>16. CASE Apply
  <2>1. TransportTypeOK' BY <1>0, <1>16 DEF Apply, TransportTypeOK
  <2>2. InTime' BY <1>0, <1>16 DEF Apply, InTime
  <2>3. OneEffect' BY <1>0, <1>16 DEF Apply, OneEffect, TransportTypeOK, Sendable, Changes
  <2>4. TurnLeft' BY <1>0, <1>16 DEF Apply, TurnLeft
  <2> QED BY <2>1, <2>2, <2>3, <2>4 DEF CallInv
<1>17. CASE CloseTransport
  BY <1>0, <1>17 DEF CloseTransport, CallInv, TransportTypeOK, TurnLeft, InTime, OneEffect, Changes
<1>18. CASE UNCHANGED transportVars
  BY <1>0, <1>18 DEF transportVars, CallInv, TransportTypeOK, TurnLeft, InTime, OneEffect, Changes
<1> QED
  BY <1>1, <1>2, <1>3, <1>4, <1>5, <1>6, <1>7, <1>8, <1>9, <1>10, <1>11, <1>12, <1>13, <1>14,
     <1>15, <1>16, <1>17, <1>18
     DEF TransportNext, RequestStep

\* The inductive invariant, for every value of the constants.
THEOREM TransportInvariant == TransportSpec => []CallInv
BY InitCall, CallKeeps, PTL DEF TransportSpec

\* The request's state stays well typed (kalshi/_base_client.py 250, 495).
THEOREM TransportTyped == TransportSpec => []TransportTypeOK
<1>1. CallInv => TransportTypeOK BY DEF CallInv
<1> QED BY <1>1, TransportInvariant, PTL

\* Retries, back-off and Retry-After never take a request further past
\* total_timeout than its last attempt does (kalshi/_base_client.py 171).
THEOREM WithinBudget == TransportSpec => []BudgetHonoured
<1>1. CallInv => BudgetHonoured BY DEF CallInv, InTime, BudgetHonoured
<1> QED BY <1>1, TransportInvariant, PTL

-----------------------------------------------------------------------------
callVariables == <<Changes, applied, Told>>

\* Where the request is, as RemoteCall sees it.
LEMMA ToldValues ==
    /\ at = "idle" => Told = "none"
    /\ at \in {"sign", "send", "wire", "pause"} => Told = "pending"
    /\ at = "done" /\ verdict = "ok" => Told = "ok"
    /\ at = "done" /\ verdict \in Definite => Told = "refused"
    /\ at = "done" /\ verdict \in Ambiguous => Told = "unknown"
BY DEF Told, Definite, Ambiguous

\* What the caller has been told after a step.
LEMMA ToldNext ==
    /\ at' \in {"sign", "send", "wire", "pause"} => Told' = "pending"
    /\ at' = "done" /\ verdict' = "ok" => Told' = "ok"
    /\ at' = "done" /\ verdict' \in Definite => Told' = "refused"
    /\ at' = "done" /\ verdict' \in Ambiguous => Told' = "unknown"
BY DEF Told, Definite, Ambiguous

\* The end of a request is RemoteCall's Tell.
LEMMA EndTells ==
    ASSUME NEW v \in Definite \cup Ambiguous, Ended(v), verb' = verb, applied' = applied,
           at \in {"sign", "send", "wire", "pause"}, v \in Definite => applied = 0
    PROVE  Call!Next
<1>1. Told = "pending" /\ at' = "done" /\ verdict' = v BY ToldValues DEF Ended
<1>2. UNCHANGED <<Changes, applied>> BY DEF Changes
<1>3. CASE v \in Definite
  <2>1. Told' = "refused" BY <1>1, <1>3, ToldNext
  <2> QED BY <1>1, <1>2, <1>3, <2>1 DEF Call!Next, Call!Tell
<1>4. CASE v \in Ambiguous
  <2>1. Told' = "unknown" BY <1>1, <1>4, ToldNext
  <2> QED BY <1>1, <1>2, <2>1 DEF Call!Next, Call!Tell
<1> QED BY <1>3, <1>4

\* Of what happens between two attempts RemoteCall sees nothing.
LEMMA BetweenAttempts ==
    ASSUME at \in {"sign", "send", "wire", "pause"}, at' \in {"sign", "send", "wire", "pause"},
           verb' = verb, applied' = applied
    PROVE  UNCHANGED callVariables
BY ToldValues, ToldNext DEF callVariables, Changes

\* An attempt that fails for good is RemoteCall's Tell, else a stutter.
LEMMA FailureTells ==
    ASSUME TransportTypeOK, NEW v \in Definite \cup Ambiguous, NEW may,
           NEW delays \in SUBSET (0 .. MaxDelay), RetryOr(v, may, delays),
           at \in {"send", "wire"}, verb' = verb, applied' = applied,
           v \in Definite => applied = 0
    PROVE  [Call!Next]_callVariables
<1>1. Ended(v) \/ Repeats BY RetryOrProperties
<1>2. at \in {"sign", "send", "wire", "pause"} OBVIOUS
<1>3. CASE Ended(v) BY <1>2, <1>3, EndTells, Zenon
<1>4. CASE Repeats
  <2>1. at' \in {"sign", "send", "wire", "pause"} BY <1>4 DEF Repeats
  <2> QED BY <1>2, <2>1, BetweenAttempts, Zenon
<1> QED BY <1>1, <1>3, <1>4

\* The initial states are RemoteCall's.
LEMMA InitImplements == TransportInit => Call!Init
BY ToldValues DEF TransportInit, Call!Init, Changes, RetryableMethods

\* Every step of the transport is a step of RemoteCall or a stutter.
LEMMA StepImplements == CallInv /\ [TransportNext]_transportVars => [Call!Next]_callVariables
<1> SUFFICES ASSUME CallInv, [TransportNext]_transportVars PROVE [Call!Next]_callVariables
  OBVIOUS
<1>0. TransportTypeOK /\ OneEffect BY DEF CallInv
<1>1. CASE \E v \in Verbs : BeginRequest(v)
  <2>1. PICK v \in Verbs : BeginRequest(v) BY <1>1
  <2>2. Told' = "pending" /\ applied' = 0 /\ (Changes' <=> v \notin RetryableMethods)
    BY <2>1, ToldNext DEF BeginRequest, Changes
  <2>3. Told = "none" \/ (Told = "ok" /\ ~Changes /\ ~Changes')
    BY <2>1, ToldValues DEF BeginRequest, Changes
  <2>4. Changes' \in BOOLEAN BY DEF Changes
  <2>5. Call!Begin(Changes') BY <2>2, <2>3, Zenon DEF Call!Begin
  <2> QED BY <2>4, <2>5 DEF Call!Next
<1>2. CASE Signed \/ Send \/ Resume
  <2>1. /\ at \in {"sign", "send", "wire", "pause"} /\ at' \in {"sign", "send", "wire", "pause"}
        /\ verb' = verb /\ applied' = applied
    BY <1>2 DEF Signed, Send, Resume
  <2> QED BY <2>1, BetweenAttempts, Zenon
<1>3. CASE SignRefused \/ ClientClosed
  <2>1. /\ Ended("closed") /\ verb' = verb /\ applied' = applied /\ applied = 0
        /\ at \in {"sign", "send", "wire", "pause"}
    BY <1>0, <1>3 DEF SignRefused, ClientClosed, End, Ended, OneEffect, Sendable
  <2> QED BY <2>1, EndTells, Verdicts, Zenon
<1>4. CASE PoolExhausted
  BY <1>0, <1>4, FailureTells, BackoffsBounded, Verdicts DEF PoolExhausted, OneEffect, Sendable
<1>5. CASE ConnectFailed
  BY <1>0, <1>5, FailureTells, BackoffsBounded, Verdicts DEF ConnectFailed
<1>6. CASE TimedOut
  BY <1>0, <1>6, FailureTells, BackoffsBounded, Verdicts DEF TimedOut
<1>7. CASE Broken
  BY <1>0, <1>7, FailureTells, BackoffsBounded, Verdicts DEF Broken
<1>8. CASE HttpFault
  BY <1>0, <1>8, FailureTells, Verdicts DEF HttpFault
<1>9. CASE Succeed
  <2>1. Told = "pending" /\ Told' = "ok"
    BY <1>9, ToldValues, ToldNext DEF Succeed, End
  <2>2. UNCHANGED <<Changes, applied>> /\ (Changes => applied = 1)
    BY <1>9 DEF Succeed, Changes
  <2> QED BY <2>1, <2>2 DEF Call!Next, Call!Tell
<1>10. ASSUME NEW status \in Statuses, Refuse(status) PROVE [Call!Next]_callVariables
  <2>1. PICK hint \in HintsOf(status) :
            RetryOr(MapError(status),
                    status \in RetryableStatusCodes /\ verb \in RetryableMethods,
                    Delays(hint))
    BY <1>10 DEF Refuse
  <2>2. Delays(hint) \in SUBSET (0 .. MaxDelay) BY DelaysBounded
  <2>3. at = "wire" /\ verb' = verb /\ applied' = applied BY <1>10 DEF Refuse
  <2>4. MapError(status) \in Definite => applied = 0 BY <1>10, Verdicts DEF Refuse
  <2> QED BY <1>0, <2>1, <2>2, <2>3, <2>4, FailureTells, Verdicts, Zenon
<1>11. CASE Unmappable
  BY <1>0, <1>11, FailureTells, Verdicts DEF Unmappable
<1>12. CASE Cancelled
  <2>1. /\ Ended("cancelled") /\ verb' = verb /\ applied' = applied
        /\ at \in {"sign", "send", "wire", "pause"}
    BY <1>12 DEF Cancelled, End, Ended
  <2> QED BY <2>1, EndTells, Verdicts, Zenon
<1>13. CASE Apply
  <2>1. Changes /\ applied = 0 /\ applied' = 1 /\ at \in {"wire", "done"}
        /\ ~(at = "done" /\ (verdict \in Definite \/ verdict = "ok"))
    BY <1>0, <1>13 DEF Apply, OneEffect, TransportTypeOK, Sendable
  <2>2. Told \in {"pending", "unknown"} BY <2>1, ToldValues DEF Told
  <2>3. UNCHANGED <<Changes, Told>> BY <1>13 DEF Apply, Changes, Told
  <2> QED BY <2>1, <2>2, <2>3 DEF Call!Next, Call!Apply
<1>14. CASE CloseTransport \/ UNCHANGED transportVars
  BY <1>14 DEF CloseTransport, transportVars, callVariables, Changes, Told
<1> QED
  BY <1>1, <1>2, <1>3, <1>4, <1>5, <1>6, <1>7, <1>8, <1>9, <1>10, <1>11, <1>12, <1>13, <1>14
     DEF TransportNext, RequestStep

\* The transport keeps the promise of RemoteCall: however attempts are lost,
\* refused, repeated or carried out late, what the call changes is changed
\* at most once and the caller is told no untruth (kalshi/_base_client.py
\* 250, 495).
THEOREM TransportImplements == TransportSpec => CallSpec
BY TransportInvariant, InitImplements, StepImplements, PTL
   DEF TransportSpec, CallSpec, Call!Spec, callVariables

=============================================================================
