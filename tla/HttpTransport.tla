--------------------------- MODULE HttpTransport ---------------------------
(***************************************************************************)
(* SyncTransport and AsyncTransport (kalshi/_base_client.py): one request,  *)
(* its attempts and the pauses between them, with the exchange at the other *)
(* end of an unreliable wire.  The two transports run the same loop; what   *)
(* is asynchronous about the second (signing in a thread, cancellation) is  *)
(* left open here (Signed, SignRefused, Cancelled) and tied down by         *)
(* RestClient.                                                              *)
(*                                                                          *)
(*   sign -> send -> wire -> done      an attempt                           *)
(*   send or wire -> pause -> sign     the attempt is repeated              *)
(*                                                                          *)
(* Time is counted in units: an attempt takes 0 .. AttemptTime of them and  *)
(* a pause what _compute_backoff and Retry-After say.                       *)
(***************************************************************************)
EXTENDS Integers, FiniteSets

CONSTANTS MaxRetries,    \* KalshiConfig.max_retries
          BaseDelay,     \* KalshiConfig.retry_base_delay
          MaxDelay,      \* KalshiConfig.retry_max_delay
          Budgeted,      \* whether KalshiConfig.total_timeout is set
          TotalTimeout,  \* KalshiConfig.total_timeout, when it is
          AttemptTime,   \* bound: the longest an attempt can take
          Hints          \* bound: the Retry-After values the server sends

ASSUME TransportAssumption ==
    /\ MaxRetries \in Nat
    /\ BaseDelay \in Nat
    /\ MaxDelay \in Nat
    /\ Budgeted \in BOOLEAN
    /\ TotalTimeout \in Nat
    /\ AttemptTime \in Nat
    /\ Hints \subseteq Nat

VARIABLES verb,      \* the HTTP method of the request
          at,        \* where the request is
          attempt,   \* the loop variable
          elapsed,   \* time.monotonic() - start
          pause,     \* the delay of the sleep under way
          verdict,   \* how the request ended
          inflight,  \* sent requests the exchange may still carry out
          applied,   \* changes the exchange has carried out
          shut       \* the httpx client has been closed

transportVars == <<verb, at, attempt, elapsed, pause, verdict, inflight, applied, shut>>

Verbs == {"GET", "POST", "PUT", "DELETE"}

(* RETRYABLE_METHODS: the verbs that change nothing.                        *)
RetryableMethods == {"GET"}

Changes == verb \notin RetryableMethods

(* The replies that are not 2xx, by class; "500" stands for 500, 502, 503   *)
(* and 520 to 524, "501" for the other 5xx, "3xx" for everything _map_error *)
(* has no class for.                                                        *)
Statuses == {"3xx", "400", "401", "404", "408", "409", "425", "429", "500", "501", "504"}

RetryableStatusCodes == {"408", "425", "429", "500", "504"}

(* Replies with which the exchange says that it has not done what was asked.*)
Refusals == {"400", "401", "404", "409", "425", "429"}

(* _map_error: the exception a reply becomes.                               *)
MapError(status) ==
    CASE status = "400" -> "validation"
      [] status = "401" -> "auth"
      [] status = "404" -> "not_found"
      [] status = "409" -> "conflict"
      [] status = "429" -> "rate_limit"
      [] status \in {"408", "504"} -> "timeout"
      [] status \in {"500", "501"} -> "server"
      [] OTHER -> "error"

(* Exceptions that say the request was not carried out and never will be,   *)
(* and those that leave it open.                                            *)
Definite == {"pool", "closed", "validation", "auth", "not_found", "conflict", "rate_limit"}

Ambiguous == {"timeout", "network", "server", "error", "attribute_error", "cancelled"}

NoHint == -1

(* _parse_retry_after: read for 408, 429, 504 and 5xx only.                 *)
HintsOf(status) ==
    IF status \in {"408", "429", "500", "501", "504"} THEN Hints \cup {NoHint} ELSE {NoHint}

(* _compute_backoff: anything up to min(base * 2^attempt, cap).             *)
Backoffs == {d \in 0 .. MaxDelay : d <= BaseDelay * 2 ^ attempt}

Least(a, b) == IF a <= b THEN a ELSE b

(* The pause after an error reply: the server's hint is its floor (0 counts *)
(* as one), retry_max_delay its ceiling.                                    *)
Delays(hint) ==
    IF hint = NoHint
    THEN Backoffs
    ELSE {Least(Least(hint, MaxDelay) + d, MaxDelay) : d \in Backoffs}

(* Mutant: the time already spent is compared, the pause to come is not.    *)
WouldExceedBudgetLate(spent, delay) == Budgeted /\ spent > TotalTimeout

(* _would_exceed_budget: asked before a pause, and of nothing else.         *)
WouldExceedBudget(spent, delay) == Budgeted /\ spent + delay > TotalTimeout

TransportInit ==
    /\ verb = "GET"
    /\ at = "idle"
    /\ attempt = 0
    /\ elapsed = 0
    /\ pause = 0
    /\ verdict = "none"
    /\ inflight = 0
    /\ applied = 0
    /\ shut = FALSE

TransportTypeOK ==
    /\ verb \in Verbs
    /\ at \in {"idle", "sign", "send", "wire", "pause", "done"}
    /\ attempt \in 0 .. MaxRetries
    /\ elapsed \in Nat
    /\ pause \in 0 .. MaxDelay
    /\ verdict \in {"none", "ok"} \cup Definite \cup Ambiguous
    /\ inflight \in Nat
    /\ applied \in Nat
    /\ shut \in BOOLEAN

----------------------------------------------------------------------------
(* request() is called; a paging loop calls it again for the next page.     *)
BeginRequest(v) ==
    /\ \/ at = "idle"
       \/ at = "done" /\ verdict = "ok" /\ ~Changes /\ v \in RetryableMethods
    /\ verb' = v
    /\ at' = "sign"
    /\ attempt' = 0
    /\ elapsed' = 0
    /\ pause' = 0
    /\ verdict' = "none"
    /\ inflight' = 0
    /\ applied' = 0
    /\ UNCHANGED shut

(* The request ends: request() returns or raises.                           *)
End(v) ==
    /\ at' = "done"
    /\ verdict' = v
    /\ UNCHANGED <<attempt, pause>>

(* raise last_error, unless the attempt may be repeated and the pause fits  *)
(* into the budget.                                                         *)
RetryOr(v, may, delays) ==
    \E t \in 0 .. AttemptTime :
        /\ elapsed' = elapsed + t
        /\ \/ ~(may /\ attempt < MaxRetries) /\ End(v)
           \/ /\ may
              /\ attempt < MaxRetries
              /\ \E d \in delays :
                     \/ WouldExceedBudget(elapsed + t, d) /\ End(v)
                     \/ /\ ~WouldExceedBudget(elapsed + t, d)
                        /\ at' = "pause"
                        /\ pause' = d
                        /\ UNCHANGED <<attempt, verdict>>

(* Every attempt is signed afresh; a KalshiAuth that was closed refuses.    *)
Signed ==
    /\ at = "sign"
    /\ at' = "send"
    /\ UNCHANGED <<verb, attempt, elapsed, pause, verdict, inflight, applied, shut>>

SignRefused ==
    /\ at = "sign"
    /\ End("closed")
    /\ UNCHANGED <<verb, elapsed, inflight, applied, shut>>

(* httpx refuses to send on a closed client (RuntimeError).                 *)
ClientClosed ==
    /\ at = "send"
    /\ shut
    /\ End("closed")
    /\ UNCHANGED <<verb, elapsed, inflight, applied, shut>>

(* httpx.PoolTimeout: nothing reached the wire, any verb is repeated.       *)
PoolExhausted ==
    /\ at = "send"
    /\ ~shut
    /\ RetryOr("pool", TRUE, Backoffs)
    /\ UNCHANGED <<verb, inflight, applied, shut>>

(* httpx.ConnectError: nothing reached the wire, any verb is repeated.      *)
ConnectFailed ==
    /\ at = "send"
    /\ ~shut
    /\ RetryOr("network", TRUE, Backoffs)
    /\ UNCHANGED <<verb, inflight, applied, shut>>

Send ==
    /\ at = "send"
    /\ ~shut
    /\ at' = "wire"
    /\ inflight' = IF Changes THEN inflight + 1 ELSE inflight
    /\ UNCHANGED <<verb, attempt, elapsed, pause, verdict, applied, shut>>

(* Mutant: a timeout is repeated whatever the verb.                         *)
TimedOutAnyVerb ==
    /\ at = "wire" \/ (at = "send" /\ ~shut)
    /\ RetryOr("timeout", TRUE, Backoffs)
    /\ UNCHANGED <<verb, inflight, applied, shut>>

(* httpx.TimeoutException: of the connection, or of the answer.             *)
TimedOut ==
    /\ at = "wire" \/ (at = "send" /\ ~shut)
    /\ RetryOr("timeout", verb \in RetryableMethods, Backoffs)
    /\ UNCHANGED <<verb, inflight, applied, shut>>

(* Any other httpx.TransportError: bytes may have been accepted.            *)
Broken ==
    /\ at = "wire"
    /\ RetryOr("network", verb \in RetryableMethods, Backoffs)
    /\ UNCHANGED <<verb, inflight, applied, shut>>

(* Any other httpx.HTTPError is raised as it comes.                         *)
HttpFault ==
    /\ at = "wire"
    /\ RetryOr("error", FALSE, {})
    /\ UNCHANGED <<verb, inflight, applied, shut>>

(* A 2xx reply.                                                             *)
Succeed ==
    /\ at = "wire"
    /\ Changes => applied = 1
    /\ \E t \in 0 .. AttemptTime : elapsed' = elapsed + t
    /\ End("ok")
    /\ UNCHANGED <<verb, inflight, applied, shut>>

(* Any other reply: repeated when the status and the verb both allow it.    *)
Refuse(status) ==
    /\ at = "wire"
    /\ status \in Refusals => applied = 0
    /\ inflight' = IF status \in Refusals THEN 0 ELSE inflight
    /\ \E hint \in HintsOf(status) :
           RetryOr(MapError(status),
                   status \in RetryableStatusCodes /\ verb \in RetryableMethods,
                   Delays(hint))
    /\ UNCHANGED <<verb, applied, shut>>

(* An error reply whose body is JSON but not an object: body.get raises     *)
(* AttributeError inside _map_error, past every retry.                      *)
Unmappable ==
    /\ at = "wire"
    /\ RetryOr("attribute_error", FALSE, {})
    /\ UNCHANGED <<verb, inflight, applied, shut>>

(* Mutant: the turns of the loop are not counted.                           *)
ResumeUncounted ==
    /\ at = "pause"
    /\ at' = "sign"
    /\ elapsed' = elapsed + pause
    /\ pause' = 0
    /\ UNCHANGED <<verb, attempt, verdict, inflight, applied, shut>>

(* time.sleep(delay), then the next turn of the loop.                       *)
Resume ==
    /\ at = "pause"
    /\ at' = "sign"
    /\ attempt' = attempt + 1
    /\ elapsed' = elapsed + pause
    /\ pause' = 0
    /\ UNCHANGED <<verb, verdict, inflight, applied, shut>>

(* The task is cancelled, or the thread interrupted.                        *)
Cancelled ==
    /\ at \in {"sign", "send", "wire", "pause"}
    /\ End("cancelled")
    /\ UNCHANGED <<verb, elapsed, inflight, applied, shut>>

(* The exchange carries out a request it has received, perhaps long after   *)
(* the client gave up on it.                                                *)
Apply ==
    /\ inflight > 0
    /\ inflight' = inflight - 1
    /\ applied' = applied + 1
    /\ UNCHANGED <<verb, at, attempt, elapsed, pause, verdict, shut>>

(* close(): from any thread, at any time, as often as one likes.            *)
CloseTransport ==
    /\ ~shut
    /\ shut' = TRUE
    /\ UNCHANGED <<verb, at, attempt, elapsed, pause, verdict, inflight, applied>>

(* What the caller's thread or task does inside request(), signing apart.   *)
RequestStep ==
    \/ ClientClosed
    \/ PoolExhausted
    \/ ConnectFailed
    \/ Send
    \/ TimedOut
    \/ Broken
    \/ HttpFault
    \/ Succeed
    \/ \E status \in Statuses : Refuse(status)
    \/ Unmappable
    \/ Resume

TransportNext ==
    \/ \E v \in Verbs : BeginRequest(v)
    \/ Signed
    \/ SignRefused
    \/ RequestStep
    \/ Cancelled
    \/ Apply
    \/ CloseTransport

TransportSpec == TransportInit /\ [][TransportNext]_transportVars

----------------------------------------------------------------------------
(* What the caller can conclude.                                            *)
Told ==
    CASE at = "idle" -> "none"
      [] at \in {"sign", "send", "wire", "pause"} -> "pending"
      [] at = "done" /\ verdict = "ok" -> "ok"
      [] at = "done" /\ verdict \in Definite -> "refused"
      [] OTHER -> "unknown"

Call == INSTANCE RemoteCall WITH changes <- Changes, applied <- applied, verdict <- Told

(* The transport keeps the promise of RemoteCall (_base_client.py 40, 204,  *)
(* 240): however attempts are lost, refused, repeated or carried out late,  *)
(* a POST, PUT or DELETE takes effect at most once per call, a return means *)
(* it did, and a pool, closed-client or 4xx error that it did not and will  *)
(* not.                                                                     *)
CallSpec == Call!Spec

(* total_timeout bounds the whole request, up to the attempt that is under  *)
(* way when it runs out: retries and Retry-After never add to that.         *)
BudgetHonoured == Budgeted => elapsed <= TotalTimeout + AttemptTime

=============================================================================
