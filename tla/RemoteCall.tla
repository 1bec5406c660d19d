----------------------------- MODULE RemoteCall -----------------------------
(***************************************************************************)
(* What a REST call promises its caller, without retries, time or errors of *)
(* the network: a call that changes something at the exchange changes it at *)
(* most once, and the verdict tells the truth about it.  "ok" says the      *)
(* change was made, "refused" that it was not and never will be, "unknown"  *)
(* promises nothing: the request may even be carried out after the caller   *)
(* has been told.                                                           *)
(***************************************************************************)
EXTENDS Naturals

VARIABLES changes,   \* whether the call is one that changes something
          applied,   \* how often the exchange has carried it out
          verdict    \* what the caller has been told

Verdicts == {"none", "pending", "ok", "refused", "unknown"}

Init == changes = FALSE /\ applied = 0 /\ verdict = "none"

(* A call is made; a read that went well may be followed by the next page.  *)
Begin(c) ==
    /\ \/ verdict = "none"
       \/ verdict = "ok" /\ ~changes /\ ~c
    /\ changes' = c
    /\ applied' = 0
    /\ verdict' = "pending"

(* The exchange carries the call out, in time or late.                      *)
Apply ==
    /\ changes
    /\ applied = 0
    /\ verdict \in {"pending", "unknown"}
    /\ applied' = 1
    /\ UNCHANGED <<changes, verdict>>

(* The caller is told.                                                      *)
Tell(v) ==
    /\ verdict = "pending"
    /\ v = "ok" => (changes => applied = 1)
    /\ v = "refused" => applied = 0
    /\ verdict' = v
    /\ UNCHANGED <<changes, applied>>

Next ==
    \/ \E c \in BOOLEAN : Begin(c)
    \/ Apply
    \/ \E v \in {"ok", "refused", "unknown"} : Tell(v)

Spec == Init /\ [][Next]_<<changes, applied, verdict>>

=============================================================================
