------------------------------- MODULE ApiOps -------------------------------
(***************************************************************************)
(* The vocabulary of the endpoint tables (PredictionApi, CommunicationsApi, *)
(* PerpsApi, KlearApi): one record per public method of a REST resource.    *)
(*                                                                          *)
(*   name    the method, as the caller spells it                            *)
(*   helper  the request helper of resources/_base.py it ends in            *)
(*   route   the path template, a tuple of segments; Arg is a segment the   *)
(*           caller supplies                                                *)
(*   checks  what can refuse the call before anything is sent, in the order *)
(*           in which the method evaluates it                               *)
(*   value   whether the method turns the reply into a model                *)
(*   mode    "sync" or "async"                                              *)
(*                                                                          *)
(* Query parameters, bodies and response fields are data the properties do  *)
(* not tell apart: a parameter builder is the sequence of its checks.       *)
(***************************************************************************)
EXTENDS Naturals, Sequences, SequencesExt

Arg == "<arg>"

Checks == {"auth", "pages", "seg", "limit", "tickers", "exclusive", "required", "model", "check"}

(* The request helpers of SyncResource and AsyncResource, and the verb each *)
(* hands to the transport.                                                  *)
Helpers == {"get", "post", "post_json", "post_void", "put", "delete",
            "delete_with_body", "delete_with_body_json", "list", "list_all"}

VerbOf(helper) ==
    CASE helper \in {"get", "list", "list_all"} -> "GET"
      [] helper \in {"post", "post_json", "post_void"} -> "POST"
      [] helper = "put" -> "PUT"
      [] OTHER -> "DELETE"

(* A method whose reply becomes a model, and one whose reply is dropped.    *)
Op(name, helper, route, checks) ==
    [name |-> name, helper |-> helper, route |-> route, checks |-> checks,
     value |-> TRUE, mode |-> "sync"]

Act(name, helper, route, checks) ==
    [Op(name, helper, route, checks) EXCEPT !.value = FALSE]

(* The async resource classes repeat the sync ones: the same guards, in the *)
(* same order and as eagerly, the same helpers, the same routes.            *)
Awaited(ops) == {[o EXCEPT !.mode = "async"] : o \in ops}

(* A deprecated method that hands its arguments to another one.             *)
Forwarded(name, target, ops) ==
    {[o EXCEPT !.name = name] : o \in {p \in ops : p.name = target}}

(* The positions of the caller's segments in a route.                       *)
ArgPositions(route) == {i \in DOMAIN route : route[i] = Arg}

(* _load_json and the 204 branches: a helper makes something of an empty    *)
(* body only when the method drops the reply (put and delete return None    *)
(* for a 204 without parsing it, which a method that builds a model refuses *)
(* with KalshiError or a validation error), and of a malformed or oversized *)
(* body only when it never reads it (_post_void).                           *)
Decodes(o, body) ==
    \/ body = "json"
    \/ o.helper = "post_void"
    \/ body = "empty" /\ ~o.value
         /\ o.helper \in {"put", "delete", "delete_with_body", "delete_with_body_json"}

=============================================================================
