----------------------------- MODULE RestClient -----------------------------
(***************************************************************************)
(* A REST client whole: one call of one of its methods (the endpoint        *)
(* tables), from the checks that may refuse it on the spot, through the     *)
(* transport (HttpTransport) and, for an async client with credentials, the *)
(* signing pool (SignExecutor), to the reply's decoding and the next page   *)
(* (_list_all), while another thread may close the client.                  *)
(*                                                                          *)
(* The caller of a paging method keeps iterating until it ends.             *)
(***************************************************************************)
EXTENDS HttpTransport, SignExecutor, ApiOps

CONSTANTS CursorSeenCap,  \* _CURSOR_SEEN_CAP
          Cursors,        \* bound: the cursors the server hands out
          Unlimited,      \* max_pages is None
          PageLimits,     \* bound: the values of max_pages, Unlimited among them
          CloseDuring     \* bound: the methods during which the client is closed

ASSUME CursorsAssumption ==
    /\ CursorSeenCap \in Nat
    /\ IsFiniteSet(Cursors) /\ Cardinality(Cursors) <= CursorSeenCap + 1
    /\ Unlimited \in PageLimits

Prediction == INSTANCE PredictionApi
Communications == INSTANCE CommunicationsApi
Perps == INSTANCE PerpsApi
Klear == INSTANCE KlearApi

Clearing == Klear!KlearOps

Ops == UNION {Prediction!PredictionOps, Communications!CommunicationsOps, Perps!PerpsOps, Clearing}

VARIABLES stage,      \* "ready", "calling" or "returned"
          op,         \* the method called, a record of Ops
          args,       \* the segment values the caller passes, by position in the route
          creds,      \* whether the client has credentials to sign with
          outcome,    \* how the method returned
          signature,  \* the attempt the request's signature was made for, -1 for none
          maxPages,   \* max_pages
          fetched,    \* pages_fetched
          seen,       \* seen_cursors
          asked       \* the cursors sent with requests, in order; the last is last_cursor

pageVars == <<maxPages, fetched, seen, asked>>
callVars == <<stage, op, args, creds, outcome>>
vars == <<transportVars, authVars, callVars, signature, pageVars>>

NoCursor == "none"

(* The transport of the clearing API is built without a signer; elsewhere   *)
(* is_authenticated is whether the client was given credentials.            *)
SigningClient == creds /\ op \notin Clearing

(* Operations the exchange serves to nobody without credentials.            *)
Private == Ops \ ({o \in Prediction!PredictionOps : Prediction!Public(o)}
                      \cup {o \in Perps!PerpsOps : Perps!Public(o)})

(* KlearSyncResource overrides these helpers to add the bearer token; _list *)
(* and _list_all go through _get.                                           *)
Bearer == {o \in Clearing : o.helper \in {"get", "post", "put", "delete", "list", "list_all"}}

(* Facts of the tables: an operation that needs credentials is guarded by   *)
(* _require_auth in its method, or carries the bearer token.                *)
ASSUME GuardsAssumption ==
    /\ \A o \in Ops : o.checks \in Seq(Checks)
    /\ \A o \in Private : o \in Bearer \/ ("auth" \in ToSet(o.checks) /\ o \notin Clearing)

----------------------------------------------------------------------------
(* Segment values: an id, an empty one, a blank, one that climbs, one that    *)
(* stays where it is, one with a slash.                                     *)
Segments == {"id", "", " ", "..", ".", "x/y"}

(* _seg: what is refused, and what the rest becomes in the path.            *)
SegRefuses(a) == a \in {"", " ", "..", "."}
Encoded(a) == IF a = "x/y" THEN "x%2Fy" ELSE a

(* How a segment is read back: an unencoded slash makes two of it.          *)
Pieces(a) == IF a = "x/y" THEN <<"x", "y">> ELSE <<a>>

(* path.rstrip("/"): the empty segments at the end go.                      *)
StripSlash(p) ==
    SubSeq(p, 1, CHOOSE n \in 0 .. Len(p) :
                     /\ \A i \in n + 1 .. Len(p) : p[i] = ""
                     /\ n > 0 => p[n] # "")

(* The path as a proxy or the exchange reads it: ".." climbs, "." goes.     *)
Resolved(p) ==
    FoldLeft(LAMBDA acc, s : IF s = ".." THEN Front(acc) ELSE IF s = "." THEN acc
                             ELSE Append(acc, s), <<>>, p)

(* The f-string of the method, then the canonical form of request().        *)
WirePath(o, a) ==
    StripSlash(FlattenSeq(
        [i \in DOMAIN o.route |-> IF o.route[i] = Arg THEN Pieces(Encoded(a[i])) ELSE <<o.route[i]>>]))

(* The first check that fails decides how the call is refused: without      *)
(* credentials AuthRequiredError, with a bad argument ValueError, TypeError *)
(* or a validation error.  "headers" is the last: request() refuses         *)
(* extra_headers that would forge a signature.                              *)
Checked(o) == o.checks \o <<"headers">>

(* Mutant: one good segment lets the others pass.                           *)
FailsWhenAll(check, c, a, flaw) ==
    CASE check = "auth" -> ~c
      [] check = "seg" -> \A i \in DOMAIN a : SegRefuses(a[i])
      [] OTHER -> check = flaw

Fails(check, c, a, flaw) ==
    CASE check = "auth" -> ~c
      [] check = "seg" -> \E i \in DOMAIN a : SegRefuses(a[i])
      [] OTHER -> check = flaw

(* The path of a call is that of its template: as many segments, the caller's *)
(* where it has them and none of those blank, and the method's own elsewhere. *)
Intact(o, a) ==
    LET path == Resolved(WirePath(o, a)) IN
    /\ Len(path) = Len(o.route)
    /\ \A i \in DOMAIN path :
           IF o.route[i] = Arg THEN path[i] \notin {"", " "} ELSE path[i] = o.route[i]

(* Facts of the tables: a method whose path its arguments could bend checks  *)
(* its segments, and what passes the check leaves the path as it is.         *)
ASSUME RoutesAssumption ==
    \A o \in Ops : \A a \in [ArgPositions(o.route) -> Segments] :
        ("seg" \in ToSet(o.checks) /\ \E i \in DOMAIN a : SegRefuses(a[i])) \/ Intact(o, a)

Failing(o, c, a, flaw) == {i \in DOMAIN Checked(o) : Fails(Checked(o)[i], c, a, flaw)}

Refusal(check) == IF check = "auth" THEN "denied" ELSE "invalid"

(* What the caller may get wrong besides the segments.                      *)
Flaws(o) == {"nothing", "headers"} \cup (ToSet(o.checks) \ {"auth", "seg"})

NothingCalled == [name |-> "nothing", helper |-> "get", route |-> <<>>, checks |-> <<>>,
                  value |-> TRUE, mode |-> "sync"]

----------------------------------------------------------------------------
Init ==
    /\ TransportInit
    /\ AuthInit
    /\ stage = "ready"
    /\ op = NothingCalled
    /\ args = <<>>
    /\ creds = FALSE
    /\ outcome = "none"
    /\ signature = -1
    /\ maxPages = Unlimited
    /\ fetched = 0
    /\ seen = {}
    /\ asked = <<>>

(* The method is called: refused on the spot, or its first request begins.  *)
Invoke(o, c, flaw, a, limit) ==
    /\ stage = "ready"
    /\ op' = o
    /\ args' = a
    /\ creds' = c
    /\ LET failing == Failing(o, c, a, flaw) IN
       \/ /\ failing # {}
          /\ stage' = "returned"
          /\ outcome' = Refusal(Checked(o)[Min(failing)])
          /\ maxPages' = limit
          /\ UNCHANGED transportVars
       \/ /\ failing = {}
          /\ stage' = "calling"
          /\ outcome' = outcome
          /\ maxPages' = limit
          /\ BeginRequest(VerbOf(o.helper))
    /\ UNCHANGED <<authVars, signature, fetched, seen, asked>>

(* Mutant: the headers signed for the first attempt are sent again.         *)
SignOnce ==
    /\ op.mode = "sync" \/ ~SigningClient
    /\ Signed
    /\ signature' = IF SigningClient /\ attempt = 0 THEN attempt ELSE signature
    /\ UNCHANGED <<authVars, callVars, pageVars>>

(* auth.sign_request, or nothing to sign with: inline.                      *)
SignInline ==
    /\ op.mode = "sync" \/ ~SigningClient
    /\ Signed
    /\ signature' = IF SigningClient THEN attempt ELSE -1
    /\ UNCHANGED <<authVars, callVars, pageVars>>

(* await auth.sign_request_async: the caller is a signer of SignExecutor.   *)
SignAsync(s) ==
    /\ at = "sign" /\ op.mode = "async" /\ SigningClient
    /\ \/ SignStep(s) /\ UNCHANGED <<transportVars, signature>>
       \/ Deliver(s, "signed") /\ Signed /\ signature' = attempt
       \/ Deliver(s, "raised") /\ SignRefused /\ UNCHANGED signature
    /\ UNCHANGED <<callVars, pageVars>>

(* The loop of request().                                                   *)
Transmit == RequestStep /\ UNCHANGED <<authVars, callVars, signature, pageVars>>

(* A task is cancelled only where it awaits: not before its work is with    *)
(* the signing pool.                                                        *)
Cancel ==
    /\ Cancelled
    /\ \A s \in Signers : spc[s] \in {"out", "signed"}
    /\ op.mode = "async" \/ at = "wire"
    /\ UNCHANGED <<authVars, callVars, signature, pageVars>>

Return(how) ==
    /\ stage' = "returned"
    /\ outcome' = how
    /\ UNCHANGED <<op, args, creds>>

(* request() raised: so does the method.                                    *)
Raise ==
    /\ stage = "calling" /\ at = "done" /\ verdict # "ok"
    /\ Return(verdict)
    /\ UNCHANGED <<transportVars, authVars, signature, pageVars>>

(* request() returned, and the body cannot be made into what the method     *)
(* returns: an error although the exchange did what it was asked.           *)
Garbled(body) ==
    /\ stage = "calling" /\ at = "done" /\ verdict = "ok"
    /\ ~Decodes(op, body)
    /\ Return("garbled")
    /\ UNCHANGED <<transportVars, authVars, signature, pageVars>>

Answer(body) ==
    /\ stage = "calling" /\ at = "done" /\ verdict = "ok"
    /\ op.helper # "list_all"
    /\ Decodes(op, body)
    /\ Return("ok")
    /\ UNCHANGED <<transportVars, authVars, signature, pageVars>>

(* Mutant: only the last cursor is compared.                                *)
CursorIsLast(c) == asked # <<>> /\ Last(asked) = c

(* page.cursor in seen_cursors or page.cursor == last_cursor                *)
CursorRepeats(c) == c \in seen \/ (asked # <<>> /\ Last(asked) = c)

(* Mutant: every cursor is remembered.                                      *)
RememberAll(c) == seen \cup {c}

(* if len(seen_cursors) < _CURSOR_SEEN_CAP: seen_cursors.add(page.cursor)   *)
Remember(c) == IF Cardinality(seen) < CursorSeenCap THEN seen \cup {c} ELSE seen

(* _list_all has yielded a page, and looks at the cursor that came with it. *)
EndOfPages(c) ==
    /\ stage = "calling" /\ at = "done" /\ verdict = "ok" /\ op.helper = "list_all"
    /\ c = NoCursor
    /\ fetched' = fetched + 1
    /\ Return("ok")
    /\ UNCHANGED <<transportVars, authVars, signature, maxPages, seen, asked>>

CursorLoop(c) ==
    /\ stage = "calling" /\ at = "done" /\ verdict = "ok" /\ op.helper = "list_all"
    /\ c # NoCursor /\ CursorRepeats(c)
    /\ fetched' = fetched + 1
    /\ Return("cursor_loop")
    /\ UNCHANGED <<transportVars, authVars, signature, maxPages, seen, asked>>

NextPage(c) ==
    /\ stage = "calling" /\ at = "done" /\ verdict = "ok" /\ op.helper = "list_all"
    /\ c # NoCursor /\ ~CursorRepeats(c)
    /\ fetched' = fetched + 1
    /\ seen' = Remember(c)
    /\ \/ /\ fetched' = maxPages
          /\ Return("ok")
          /\ UNCHANGED <<transportVars, asked>>
       \/ /\ fetched' # maxPages
          /\ asked' = Append(asked, c)
          /\ BeginRequest("GET")
          /\ UNCHANGED callVars
    /\ UNCHANGED <<authVars, signature, maxPages>>

(* client.close(): the transport, then the signer the client owns.          *)
CloseClient ==
    /\ op.name \in CloseDuring
    /\ \/ CloseTransport /\ UNCHANGED authVars
       \/ /\ shut /\ SigningClient
          /\ \E c \in Closers : CloseStep(c)
          /\ UNCHANGED transportVars
    /\ UNCHANGED <<callVars, signature, pageVars>>

(* The exchange, on its own time.                                           *)
Exchange == Apply /\ UNCHANGED <<authVars, callVars, signature, pageVars>>

(* The caller's own steps.                                                  *)
Advance ==
    \/ SignInline
    \/ \E s \in Signers : SignAsync(s)
    \/ Transmit
    \/ Raise
    \/ \E body \in {"json", "empty", "junk"} : Garbled(body) \/ Answer(body)
    \/ \E c \in Cursors \cup {NoCursor} : EndOfPages(c) \/ CursorLoop(c) \/ NextPage(c)

Next ==
    \/ /\ stage = "ready"
       /\ \E o \in Ops, c \in BOOLEAN :
              \E flaw \in Flaws(o), a \in [ArgPositions(o.route) -> Segments],
                 limit \in (IF o.helper = "list_all" THEN PageLimits ELSE {Unlimited}) :
                  Invoke(o, c, flaw, a, limit)
    \/ Advance
    \/ Cancel
    \/ CloseClient
    \/ Exchange

(* A call moves on: attempts end (httpx times every phase of them), sleeps  *)
(* end, the lock is held for three assignments, the caller keeps iterating. *)
Spec ==
    /\ Init /\ [][Next]_vars
    /\ WF_vars(Advance)
    /\ WF_vars(\E c \in Closers : holder = c /\ CloseClient)

CallTypeOK ==
    /\ stage \in {"ready", "calling", "returned"}
    /\ op \in Ops \cup {NothingCalled}
    /\ args \in [ArgPositions(op.route) -> Segments]
    /\ creds \in BOOLEAN
    /\ outcome \in {"none", "ok", "denied", "invalid", "garbled", "cursor_loop"} \cup Definite
                       \cup Ambiguous
    /\ signature \in -1 .. MaxRetries

PageTypeOK ==
    /\ maxPages \in PageLimits
    /\ fetched \in Nat
    /\ seen \in SUBSET Cursors /\ Cardinality(seen) <= CursorSeenCap
    /\ asked \in Seq(Cursors)

TypeOK == TransportTypeOK /\ AuthTypeOK /\ CallTypeOK /\ PageTypeOK

----------------------------------------------------------------------------
(* No request for an operation that needs credentials is sent without them: *)
(* of the methods that reach one, each refuses a client without credentials *)
(* or carries a bearer token, and what is on the wire was signed for this   *)
(* attempt and not an earlier one, whose timestamp the pauses have aged     *)
(* (_base.py 190, _base_client.py 305, klear/resources/_base.py 45).        *)
NothingUnsigned == at = "wire" /\ op \in Private => op \in Bearer \/ signature = attempt

(* Whatever identifier the caller passes, it stays in its place of the      *)
(* method's path, and the rest of the path is the method's own: an empty or *)
(* blank one does not turn "cancel this order" into "cancel all", and none  *)
(* climbs out, vanishes or becomes two segments (_base.py 47).  An ordinary *)
(* identifier that spells a literal of another template ("batched" as an    *)
(* order id) stays in its place too, and gives that other method's path.    *)
RouteIntact == at = "wire" => Intact(op, args)

(* Paging asks for no page twice, however the server repeats its cursors,   *)
(* as long as the guard remembers: never again one of the first             *)
(* CursorSeenCap, never the same one twice in a row (_base.py 447).         *)
NoPageTwice ==
    \A i, j \in DOMAIN asked :
        i < j /\ (i <= CursorSeenCap \/ j = i + 1) => asked[i] # asked[j]

(* Every call returns or raises: retries, pauses, the signing pool and the  *)
(* paging loop all end, against a server that goes round in cursors.  It    *)
(* takes CursorsAssumption: past the cap the guard only sees a cursor come  *)
(* twice in a row (the docstring of _list_all says so), and a server that   *)
(* alternates between two cursors it did not remember is asked for ever.    *)
EveryCallReturns == stage = "calling" ~> stage = "returned"

=============================================================================
