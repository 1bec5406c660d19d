---------------------------- MODULE SignExecutor ----------------------------
(***************************************************************************)
(* The thread pool on which KalshiAuth signs for async clients              *)
(* (kalshi/auth.py): made lazily by the first signer, shut down by close(). *)
(* Signers and closers may run in different threads.                        *)
(*                                                                          *)
(* The fast path of _get_sign_executor is two reads without the lock (the   *)
(* executor, then _closed), and the executor is used after both: each is a  *)
(* step of its own.  The locked part of _get_sign_executor is one step, for *)
(* it writes one variable; close() writes three things under the lock and   *)
(* takes a step for each, which the fast path can fall between.             *)
(***************************************************************************)
EXTENDS Naturals, FiniteSets

CONSTANTS Signers,   \* threads that run sign_request_async
          Closers,   \* threads that run close()
          NoOne      \* nobody holds the lock

ASSUME ThreadsAssumption == NoOne \notin Closers

VARIABLES made,      \* how many executors have been constructed
          executor,  \* _sign_executor: the number of an executor, 0 for None
          down,      \* the executors that have been shut down
          closed,    \* _closed
          holder,    \* the closer inside the lock of close(), or NoOne
          spc,       \* where each signer is
          held,      \* the executor each signer has read
          cpc        \* where each closer is

authVars == <<made, executor, down, closed, holder, spc, held, cpc>>

AuthInit ==
    /\ made = 0
    /\ executor = 0
    /\ down = {}
    /\ closed = FALSE
    /\ holder = NoOne
    /\ spc = [s \in Signers |-> "out"]
    /\ held = [s \in Signers |-> 0]
    /\ cpc = [c \in Closers |-> "out"]

AuthTypeOK ==
    /\ made \in Nat
    /\ executor \in 0 .. made
    /\ down \in SUBSET (1 .. made)
    /\ closed \in BOOLEAN
    /\ holder \in Closers \cup {NoOne}
    /\ spc \in [Signers -> {"out", "read", "slow", "submit", "signed", "raised"}]
    /\ held \in [Signers -> 0 .. made]
    /\ cpc \in [Closers -> {"out", "flag", "shutdown", "clear", "closed"}]

----------------------------------------------------------------------------
(* executor = self._sign_executor                                           *)
ReadExecutor(s) ==
    /\ spc[s] = "out"
    /\ held' = [held EXCEPT ![s] = executor]
    /\ spc' = [spc EXCEPT ![s] = "read"]
    /\ UNCHANGED <<made, executor, down, closed, holder, cpc>>

(* if executor is not None and not self._closed: return executor            *)
FastPath(s) ==
    /\ spc[s] = "read"
    /\ spc' = [spc EXCEPT ![s] = IF held[s] # 0 /\ ~closed THEN "submit" ELSE "slow"]
    /\ UNCHANGED <<made, executor, down, closed, holder, held, cpc>>

(* Mutant: _closed is not looked at again once the lock is held.            *)
SlowPathUnchecked(s) ==
    /\ spc[s] = "slow"
    /\ holder = NoOne
    /\ made' = IF executor = 0 THEN made + 1 ELSE made
    /\ executor' = IF executor = 0 THEN made + 1 ELSE executor
    /\ held' = [held EXCEPT ![s] = executor']
    /\ spc' = [spc EXCEPT ![s] = "submit"]
    /\ UNCHANGED <<down, closed, holder, cpc>>

(* with self._sign_executor_lock: recheck _closed, construct if None        *)
SlowPath(s) ==
    /\ spc[s] = "slow"
    /\ holder = NoOne
    /\ \/ /\ closed
          /\ spc' = [spc EXCEPT ![s] = "raised"]
          /\ UNCHANGED <<made, executor, held>>
       \/ /\ ~closed
          /\ made' = IF executor = 0 THEN made + 1 ELSE made
          /\ executor' = IF executor = 0 THEN made + 1 ELSE executor
          /\ held' = [held EXCEPT ![s] = executor']
          /\ spc' = [spc EXCEPT ![s] = "submit"]
    /\ UNCHANGED <<down, closed, holder, cpc>>

(* loop.run_in_executor: an executor that was shut down refuses new work    *)
(* with RuntimeError; work accepted before the shutdown is still done.      *)
Submit(s) ==
    /\ spc[s] = "submit"
    /\ spc' = [spc EXCEPT ![s] = IF held[s] \in down THEN "raised" ELSE "signed"]
    /\ UNCHANGED <<made, executor, down, closed, holder, held, cpc>>

SignStep(s) == ReadExecutor(s) \/ FastPath(s) \/ SlowPath(s) \/ Submit(s)

(* await: the coroutine that asked for the signature gets it, or the error. *)
Deliver(s, how) ==
    /\ spc[s] = how
    /\ spc' = [spc EXCEPT ![s] = "out"]
    /\ UNCHANGED <<made, executor, down, closed, holder, held, cpc>>

----------------------------------------------------------------------------
(* close(): with self._sign_executor_lock                                   *)
EnterClose(c) ==
    /\ cpc[c] = "out"
    /\ holder = NoOne
    /\ holder' = c
    /\ cpc' = [cpc EXCEPT ![c] = "flag"]
    /\ UNCHANGED <<made, executor, down, closed, spc, held>>

(* self._closed = True                                                      *)
SetClosed(c) ==
    /\ cpc[c] = "flag"
    /\ closed' = TRUE
    /\ cpc' = [cpc EXCEPT ![c] = "shutdown"]
    /\ UNCHANGED <<made, executor, down, holder, spc, held>>

(* if self._sign_executor is not None: self._sign_executor.shutdown(...)    *)
Shutdown(c) ==
    /\ cpc[c] = "shutdown"
    /\ down' = down \cup ({executor} \ {0})
    /\ cpc' = [cpc EXCEPT ![c] = "clear"]
    /\ UNCHANGED <<made, executor, closed, holder, spc, held>>

(* self._sign_executor = None, and the lock is released                     *)
ClearExecutor(c) ==
    /\ cpc[c] = "clear"
    /\ executor' = 0
    /\ holder' = NoOne
    /\ cpc' = [cpc EXCEPT ![c] = "closed"]
    /\ UNCHANGED <<made, down, closed, spc, held>>

CloseStep(c) == EnterClose(c) \/ SetClosed(c) \/ Shutdown(c) \/ ClearExecutor(c)

AuthNext ==
    \/ \E s \in Signers : SignStep(s)
    \/ \E s \in Signers, how \in {"signed", "raised"} : Deliver(s, how)
    \/ \E c \in Closers : CloseStep(c)

AuthSpec == AuthInit /\ [][AuthNext]_authVars

----------------------------------------------------------------------------
(* close() is terminal (the docstrings of _get_sign_executor and close):    *)
(* once a close() has released the lock no executor is left alive, however  *)
(* signers raced it, and a signer about to submit holds a dead one; and     *)
(* racing signers never construct two executors, one of which would leak.   *)
PoolDiesWithAuth ==
    /\ made <= 1
    /\ closed /\ holder = NoOne =>
          /\ executor = 0
          /\ 1 .. made \subseteq down
          /\ \A s \in Signers : spc[s] = "submit" => held[s] \in down

=============================================================================
