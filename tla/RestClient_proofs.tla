------------------------- MODULE RestClient_proofs -------------------------
(***************************************************************************)
(* The client as a whole, for every number of retries, every budget, every *)
(* cursor cap and any set of cursors: it is a composition of the transport *)
(* and the signing pool that adds no behaviour to either, so what is       *)
(* proved of them (HttpTransport_proofs, SignExecutor_proofs) holds of it; *)
(* nothing that needs credentials leaves unsigned; and paging asks for no  *)
(* page twice.                                                             *)
(***************************************************************************)
EXTENDS RestClient, HttpTransport_proofs, SignExecutor_proofs, FiniteSetTheorems, SequenceTheorems

-----------------------------------------------------------------------------
\* Every step of the client is one of the transport, or leaves it alone, and
\* one of the signing pool, or leaves that alone.
LEMMA InitComposes == Init => TransportInit /\ AuthInit
BY DEF Init

\* A call begins with at most the beginning of a request.
LEMMA InvokeComposes ==
    ASSUME NEW o \in Ops, NEW c, NEW flaw, NEW a, NEW limit, Invoke(o, c, flaw, a, limit)
    PROVE  [TransportNext]_transportVars /\ UNCHANGED authVars
<1>1. UNCHANGED authVars BY Zenon DEF Invoke
<1>2. VerbOf(o.helper) \in Verbs BY DEF VerbOf, Verbs
<1>3. UNCHANGED transportVars \/ BeginRequest(VerbOf(o.helper)) BY Zenon DEF Invoke
<1> QED BY <1>1, <1>2, <1>3, Zenon DEF TransportNext

\* The same of the step relation, one case for each action of the client.
LEMMA StepComposes ==
    [Next]_vars => [TransportNext]_transportVars /\ [AuthNext]_authVars
<1> SUFFICES ASSUME [Next]_vars PROVE [TransportNext]_transportVars /\ [AuthNext]_authVars
  OBVIOUS
<1>1. CASE UNCHANGED vars
  BY <1>1, Zenon DEF vars
<1>2. ASSUME NEW o \in Ops, NEW c, NEW flaw, NEW a, NEW limit, Invoke(o, c, flaw, a, limit)
      PROVE  [TransportNext]_transportVars /\ [AuthNext]_authVars
  BY <1>2, InvokeComposes, Zenon
<1>3. CASE SignInline
  BY <1>3, Zenon DEF SignInline, TransportNext
<1>4. ASSUME NEW s \in Signers, SignAsync(s)
      PROVE  [TransportNext]_transportVars /\ [AuthNext]_authVars
  BY <1>4, Zenon DEF SignAsync, TransportNext, AuthNext
<1>5. CASE Transmit
  BY <1>5, Zenon DEF Transmit, TransportNext
<1>6. CASE Cancel
  BY <1>6, Zenon DEF Cancel, TransportNext
<1>7. CASE Raise
  BY <1>7, Zenon DEF Raise
<1>8. CASE \E body \in {"json", "empty", "junk"} : Garbled(body) \/ Answer(body)
  BY <1>8, Zenon DEF Garbled, Answer
<1>9. CASE \E c \in Cursors \cup {NoCursor} : EndOfPages(c) \/ CursorLoop(c)
  BY <1>9, Zenon DEF EndOfPages, CursorLoop
<1>10. ASSUME NEW c, NextPage(c) PROVE [TransportNext]_transportVars /\ [AuthNext]_authVars
  <2>1. UNCHANGED authVars BY <1>10, Zenon DEF NextPage
  <2>2. UNCHANGED transportVars \/ BeginRequest("GET") BY <1>10, Zenon DEF NextPage
  <2>3. "GET" \in Verbs BY DEF Verbs
  <2> QED BY <2>1, <2>2, <2>3, Zenon DEF TransportNext
<1>11. CASE CloseClient
  BY <1>11, Zenon DEF CloseClient, TransportNext, AuthNext
<1>12. CASE Exchange
  BY <1>12, Zenon DEF Exchange, TransportNext
<1> QED
  BY <1>1, <1>2, <1>3, <1>4, <1>5, <1>6, <1>7, <1>8, <1>9, <1>10, <1>11, <1>12, Zenon
     DEF Next, Advance

\* The client drives its transport as HttpTransport lets a transport be
\* driven, and its signing pool as SignExecutor does.
THEOREM Composition == Spec => TransportSpec /\ AuthSpec
BY InitComposes, StepComposes, PTL DEF Spec, TransportSpec, AuthSpec

\* What a REST call changes is changed at most once, and the caller is told
\* no untruth, whatever method is called and whoever closes the client
\* (kalshi/_base_client.py 250, 495).
THEOREM ClientImplements == Spec => CallSpec
BY Composition, TransportImplements, PTL

\* A request of the client keeps to total_timeout, up to the attempt under
\* way (kalshi/_base_client.py 171).
THEOREM ClientWithinBudget == Spec => []BudgetHonoured
BY Composition, WithinBudget, PTL

\* No executor outlives the client that owns it (kalshi/auth.py 379).
THEOREM ClientClosedForGood == Spec => []PoolDiesWithAuth
BY Composition, ClosedForGood, PTL

-----------------------------------------------------------------------------
\* A private operation gets as far as a request only with the bearer token
\* or with credentials to sign with, and what is about to be sent, or is on
\* the wire, was signed for this attempt.
Guarded == op \in Private => op \in Bearer \/ SigningClient

SignInv ==
    /\ stage = "ready" => at = "idle"
    /\ at # "idle" => Guarded
    /\ at \in {"send", "wire"} /\ SigningClient => signature = attempt

\* The steps of the transport, as far as signatures go.
LEMMA RequestSteps ==
    ASSUME RequestStep
    PROVE  /\ at # "idle"
           /\ at' # "idle"
           /\ at' \in {"send", "wire"} => at = "send" /\ attempt' = attempt
<1>1. \A v, may, delays : RetryOr(v, may, delays) => at' \in {"pause", "done"}
  BY Zenon DEF RetryOr, End
<1> QED
  BY <1>1
     DEF RequestStep, ClientClosed, PoolExhausted, ConnectFailed, Send, TimedOut, Broken,
         HttpFault, Succeed, Refuse, Unmappable, Resume, End

\* A signature is made, or refused, only where the transport signs.
LEMMA SignSteps ==
    ASSUME Signed
    PROVE  at = "sign" /\ at' = "send" /\ attempt' = attempt
BY DEF Signed

\* A call that nothing refuses, of an operation that needs credentials, has
\* them.
LEMMA Admitted ==
    ASSUME NEW o \in Private, NEW c, NEW a, NEW flaw, Failing(o, c, a, flaw) = {}
    PROVE  o \in Bearer \/ (c /\ o \notin Clearing)
<1>1. CASE "auth" \in ToSet(o.checks) /\ o \notin Clearing
  <2>0. o.checks \in Seq(Checks) BY GuardsAssumption DEF Private
  <2>1. PICK i \in 1 .. Len(o.checks) : o.checks[i] = "auth" BY <1>1 DEF ToSet
  <2>2. i \in DOMAIN Checked(o) /\ Checked(o)[i] = "auth" BY <2>0, <2>1 DEF Checked
  <2>3. ~Fails("auth", c, a, flaw) BY <2>2 DEF Failing
  <2>4. c BY <2>3, Zenon DEF Fails
  <2> QED BY <1>1, <2>4
<1> QED BY <1>1, GuardsAssumption

\* Before the call, nothing is on its way.
LEMMA InitSigned == Init => SignInv
BY DEF Init, TransportInit, SignInv

\* A step that neither calls a method nor touches request or signature.
LEMMA Bystanders ==
    ASSUME SignInv, UNCHANGED <<at, attempt, signature, op, creds>>, stage' # "ready" \/ stage' = stage
    PROVE  SignInv'
BY DEF SignInv, Guarded, SigningClient

\* Every step keeps it; where signatures are made, they are this attempt's.
LEMMA StepSigned == SignInv /\ [Next]_vars => SignInv'
<1> SUFFICES ASSUME SignInv, [Next]_vars PROVE SignInv' OBVIOUS
<1>1. CASE UNCHANGED vars
  BY <1>1, Bystanders DEF vars, transportVars, callVars
<1>2. ASSUME NEW o \in Ops, NEW c, NEW flaw, NEW a, NEW limit, Invoke(o, c, flaw, a, limit)
      PROVE  SignInv'
  <2>1. at = "idle" /\ op' = o /\ creds' = c /\ stage' # "ready"
    BY <1>2 DEF Invoke, SignInv
  <2>2. CASE UNCHANGED transportVars
    BY <2>1, <2>2 DEF transportVars, SignInv
  <2>3. CASE Failing(o, c, a, flaw) = {} /\ BeginRequest(VerbOf(o.helper))
    <3>1. at' = "sign" BY <2>3 DEF BeginRequest
    <3>2. o \in Private => o \in Bearer \/ (c /\ o \notin Clearing)
      BY <2>3, Admitted, Zenon
    <3>3. Guarded' BY <2>1, <3>2 DEF Guarded, SigningClient
    <3> QED BY <2>1, <3>1, <3>3 DEF SignInv
  <2> QED BY <1>2, <2>2, <2>3, Zenon DEF Invoke
<1>3. CASE SignInline
  <2>1. Signed /\ UNCHANGED callVars /\ signature' = IF SigningClient THEN attempt ELSE -1
    BY <1>3, Zenon DEF SignInline
  <2> QED BY <2>1, SignSteps DEF callVars, SignInv, Guarded, SigningClient
<1>4. ASSUME NEW s \in Signers, SignAsync(s) PROVE SignInv'
  <2>1. at = "sign" /\ UNCHANGED callVars BY <1>4, Zenon DEF SignAsync
  <2>2. CASE UNCHANGED <<transportVars, signature>>
    BY <2>1, <2>2, Bystanders DEF callVars, transportVars
  <2>3. CASE Signed /\ signature' = attempt
    BY <2>1, <2>3, SignSteps DEF callVars, SignInv, Guarded, SigningClient
  <2>4. CASE SignRefused
    BY <2>1, <2>4 DEF SignRefused, End, callVars, SignInv, Guarded, SigningClient
  <2> QED BY <1>4, <2>2, <2>3, <2>4, Zenon DEF SignAsync
<1>5. CASE Transmit
  BY <1>5, RequestSteps DEF Transmit, callVars, SignInv, Guarded, SigningClient
<1>6. CASE Cancel
  BY <1>6 DEF Cancel, Cancelled, End, callVars, SignInv, Guarded, SigningClient
<1>7. CASE Raise
  BY <1>7, Bystanders DEF Raise, Return, transportVars
<1>8. CASE \E body \in {"json", "empty", "junk"} : Garbled(body) \/ Answer(body)
  BY <1>8, Bystanders DEF Garbled, Answer, Return, transportVars
<1>9. CASE \E c \in Cursors \cup {NoCursor} : EndOfPages(c) \/ CursorLoop(c)
  BY <1>9, Bystanders DEF EndOfPages, CursorLoop, Return, transportVars
<1>10. ASSUME NEW c, NextPage(c) PROVE SignInv'
  <2>1. CASE UNCHANGED transportVars /\ Return("ok")
    BY <1>10, <2>1, Bystanders DEF NextPage, Return, transportVars
  <2>2. CASE BeginRequest("GET") /\ UNCHANGED callVars
    <3>1. at = "done" /\ stage = "calling" BY <1>10, Zenon DEF NextPage
    <3>2. at' = "sign" BY <2>2 DEF BeginRequest
    <3> QED BY <2>2, <3>1, <3>2 DEF callVars, SignInv, Guarded, SigningClient
  <2> QED BY <1>10, <2>1, <2>2, Zenon DEF NextPage
<1>11. CASE CloseClient
  BY <1>11, Bystanders DEF CloseClient, CloseTransport, callVars, transportVars
<1>12. CASE Exchange
  BY <1>12, Bystanders DEF Exchange, Apply, callVars
<1> QED
  BY <1>1, <1>2, <1>3, <1>4, <1>5, <1>6, <1>7, <1>8, <1>9, <1>10, <1>11, <1>12, Zenon
     DEF Next, Advance

\* No request for an operation that needs credentials is sent without them,
\* or with the signature of an earlier attempt (kalshi/_base_client.py 301).
THEOREM AlwaysSigned == Spec => []NothingUnsigned
<1>1. SignInv => NothingUnsigned BY DEF SignInv, NothingUnsigned, Guarded
<1> QED BY <1>1, InitSigned, StepSigned, PTL DEF Spec

-----------------------------------------------------------------------------
\* The guard remembers the first CursorSeenCap cursors that were sent: while
\* it has remembered fewer than the cap it remembers all.
Remembered == \A i \in DOMAIN asked : i <= CursorSeenCap => asked[i] \in seen

PageInv ==
    /\ asked \in Seq(Cursors)
    /\ IsFiniteSet(seen)
    /\ stage # "returned" => Cardinality(seen) <= Len(asked)
    /\ Remembered
    /\ NoPageTwice

\* Before the call, no cursor was sent and none is remembered.
LEMMA InitPaging == Init => PageInv
<1> SUFFICES ASSUME Init PROVE PageInv OBVIOUS
<1>1. asked = <<>> /\ seen = {} BY DEF Init
<1>2. IsFiniteSet(seen) /\ Cardinality(seen) = 0 BY <1>1, FS_EmptySet
<1> QED BY <1>1, <1>2 DEF PageInv, Remembered, NoPageTwice

\* A step that leaves the paging loop alone.
LEMMA PagingUntouched ==
    ASSUME PageInv, UNCHANGED <<seen, asked>>, stage' = "returned" \/ stage # "returned"
    PROVE  PageInv'
BY DEF PageInv, Remembered, NoPageTwice

\* Another page is asked for.
LEMMA NextPageKeeps ==
    ASSUME PageInv, stage # "returned", NEW c \in Cursors, ~CursorRepeats(c),
           seen' = Remember(c), asked' = Append(asked, c)
    PROVE  PageInv'
<1> DEFINE n == Len(asked)
<1>1. /\ asked \in Seq(Cursors) /\ IsFiniteSet(seen) /\ Cardinality(seen) <= n
      /\ Remembered /\ NoPageTwice
  BY DEF PageInv
<1>2. /\ asked' \in Seq(Cursors) /\ Len(asked') = n + 1 /\ asked'[n + 1] = c
      /\ \A i \in 1 .. n : asked'[i] = asked[i]
      /\ n \in Nat /\ CursorSeenCap \in Nat
  BY <1>1, CursorsAssumption
<1>3. c \notin seen /\ (n > 0 => asked[n] # c)
  BY <1>1, <1>2 DEF CursorRepeats, Last
<1>4. /\ IsFiniteSet(seen \cup {c})
      /\ Cardinality(seen \cup {c}) = Cardinality(seen) + 1
      /\ Cardinality(seen) \in Nat
  BY <1>1, <1>3, FS_AddElement, FS_CardinalityType
<1>5. IsFiniteSet(seen') /\ Cardinality(seen') <= n + 1
  BY <1>1, <1>2, <1>4 DEF Remember
<1>6. seen \subseteq seen' /\ (n + 1 <= CursorSeenCap => c \in seen')
  BY <1>1, <1>2, <1>4 DEF Remember
<1>7. Remembered'
  <2> SUFFICES ASSUME NEW i \in DOMAIN asked', i <= CursorSeenCap PROVE asked'[i] \in seen'
    BY CursorsAssumption DEF Remembered
  <2>1. i \in 1 .. n + 1 BY <1>2
  <2>2. CASE i = n + 1 BY <1>2, <1>6, <2>2
  <2>3. CASE i \in 1 .. n BY <1>1, <1>2, <1>6, <2>3 DEF Remembered
  <2> QED BY <1>2, <2>1, <2>2, <2>3
<1>8. NoPageTwice'
  <2> SUFFICES ASSUME NEW i \in DOMAIN asked', NEW j \in DOMAIN asked', i < j,
                      i <= CursorSeenCap \/ j = i + 1
               PROVE  asked'[i] # asked'[j]
    BY DEF NoPageTwice
  <2>1. i \in 1 .. n /\ j \in 1 .. n + 1 BY <1>2
  <2>2. CASE j \in 1 .. n BY <1>1, <1>2, <2>1, <2>2 DEF NoPageTwice
  <2>3. CASE j = n + 1
    <3>1. CASE i <= CursorSeenCap
      <4>1. asked[i] \in seen BY <1>1, <2>1, <3>1 DEF Remembered
      <4> QED BY <1>2, <1>3, <2>1, <2>3, <4>1
    <3>2. CASE i = n BY <1>2, <1>3, <2>1, <2>3, <3>2
    <3> QED BY <1>2, <2>1, <2>3, <3>1, <3>2
  <2> QED BY <1>2, <2>1, <2>2, <2>3
<1> QED BY <1>2, <1>5, <1>7, <1>8 DEF PageInv

\* The last page a caller asked for: its cursor is remembered, not sent.
LEMMA LastPageKeeps ==
    ASSUME PageInv, NEW c, ~CursorRepeats(c), seen' = Remember(c), asked' = asked,
           stage' = "returned"
    PROVE  PageInv'
<1>1. seen \subseteq seen' BY DEF Remember
<1>2. IsFiniteSet(seen')
  BY FS_AddElement DEF Remember, PageInv
<1> QED BY <1>1, <1>2 DEF PageInv, Remembered, NoPageTwice

\* Only a page moves the paging loop.
LEMMA StepPaging == PageInv /\ [Next]_vars => PageInv'
<1> SUFFICES ASSUME PageInv, [Next]_vars PROVE PageInv' OBVIOUS
<1>1. CASE UNCHANGED vars
  <2>1. UNCHANGED <<seen, asked, stage>> BY <1>1 DEF vars, pageVars, callVars
  <2> QED BY <2>1, PagingUntouched
<1>2. ASSUME NEW o \in Ops, NEW c, NEW flaw, NEW a, NEW limit, Invoke(o, c, flaw, a, limit)
      PROVE  PageInv'
  <2>1. UNCHANGED <<seen, asked>> /\ stage = "ready" BY <1>2, Zenon DEF Invoke
  <2> QED BY <2>1, PagingUntouched
<1>3. CASE SignInline \/ (\E s \in Signers : SignAsync(s)) \/ Transmit \/ Cancel \/ CloseClient
             \/ Exchange
  <2>1. UNCHANGED <<pageVars, callVars>>
    BY <1>3, Zenon DEF SignInline, SignAsync, Transmit, Cancel, CloseClient, Exchange
  <2>2. UNCHANGED <<seen, asked, stage>> BY <2>1 DEF pageVars, callVars
  <2> QED BY <2>2, PagingUntouched
<1>4. CASE Raise \/ \E body \in {"json", "empty", "junk"} : Garbled(body) \/ Answer(body)
  <2>1. UNCHANGED pageVars /\ stage' = "returned" BY <1>4, Zenon DEF Raise, Garbled, Answer, Return
  <2>2. UNCHANGED <<seen, asked>> BY <2>1 DEF pageVars
  <2> QED BY <2>1, <2>2, PagingUntouched
<1>5. CASE \E c \in Cursors \cup {NoCursor} : EndOfPages(c) \/ CursorLoop(c)
  <2>1. UNCHANGED <<seen, asked>> /\ stage' = "returned"
    BY <1>5, Zenon DEF EndOfPages, CursorLoop, Return
  <2> QED BY <2>1, PagingUntouched
<1>6. ASSUME NEW c \in Cursors \cup {NoCursor}, NextPage(c) PROVE PageInv'
  <2>1. /\ stage = "calling" /\ c # NoCursor /\ ~CursorRepeats(c) /\ seen' = Remember(c)
        /\ \/ Return("ok") /\ asked' = asked
           \/ asked' = Append(asked, c)
    BY <1>6, Zenon DEF NextPage
  <2>2. CASE Return("ok") /\ asked' = asked
    <3>1. stage' = "returned" BY <2>2 DEF Return
    <3> QED BY <2>1, <2>2, <3>1, LastPageKeeps, Zenon
  <2>3. CASE asked' = Append(asked, c)
    <3>1. c \in Cursors /\ stage # "returned" BY <2>1
    <3> QED BY <2>1, <2>3, <3>1, NextPageKeeps, Zenon
  <2> QED BY <2>1, <2>2, <2>3
<1> QED BY <1>1, <1>2, <1>3, <1>4, <1>5, <1>6, Zenon DEF Next, Advance

\* Paging asks for no page twice, as long as the guard remembers, for every
\* cap and however the server repeats its cursors (resources/_base.py 447).
THEOREM PagesOnce == Spec => []NoPageTwice
<1>1. PageInv => NoPageTwice BY DEF PageInv
<1> QED BY <1>1, InitPaging, StepPaging, PTL DEF Spec

-----------------------------------------------------------------------------
\* What a request may end with.
LEMMA RefusalType == \A check : Refusal(check) \in {"denied", "invalid"}
BY DEF Refusal

\* Nothing is called, and no page was asked for.
LEMMA InitCallType == Init => CallTypeOK /\ PageTypeOK
<1> SUFFICES ASSUME Init PROVE CallTypeOK /\ PageTypeOK OBVIOUS
<1>1. NothingCalled.route = <<>> BY DEF NothingCalled
<1>2. ArgPositions(NothingCalled.route) = {} BY <1>1 DEF ArgPositions
<1>3. args \in [ArgPositions(op.route) -> Segments]
  <2>1. args = <<>> /\ op = NothingCalled BY DEF Init
  <2>2. <<>> \in [{} -> Segments] OBVIOUS
  <2> QED BY <1>2, <2>1, <2>2
<1>4. MaxRetries \in Nat BY TransportAssumption
<1>5. CallTypeOK
  <2>1. stage = "ready" /\ op = NothingCalled /\ creds = FALSE /\ outcome = "none" /\ signature = -1
    BY DEF Init
  <2>2. signature \in -1 .. MaxRetries BY <1>4, <2>1
  <2>3. /\ stage \in {"ready", "calling", "returned"} /\ creds \in BOOLEAN
        /\ op \in Ops \cup {NothingCalled}
        /\ outcome \in {"none", "ok", "denied", "invalid", "garbled", "cursor_loop"} \cup Definite
                          \cup Ambiguous
    BY <2>1
  <2> QED BY <1>3, <2>2, <2>3, Zenon DEF CallTypeOK
<1>6. Cardinality({}) = 0 BY FS_EmptySet
<1>7. PageTypeOK BY <1>6, CursorsAssumption DEF Init, PageTypeOK
<1> QED BY <1>5, <1>7

\* The method returns: what it says is one of the ways to return.
LEMMA ReturnType ==
    ASSUME CallTypeOK, signature' = signature,
           NEW how \in {"ok", "garbled", "cursor_loop"} \cup Definite \cup Ambiguous, Return(how)
    PROVE  CallTypeOK'
BY DEF CallTypeOK, Return

\* A step of the request leaves the call as it was.
LEMMA RequestType ==
    ASSUME CallTypeOK, UNCHANGED callVars, signature' \in -1 .. MaxRetries
    PROVE  CallTypeOK'
BY DEF CallTypeOK, callVars

\* The guard never remembers more cursors than the cap.
LEMMA RememberType ==
    ASSUME seen \in SUBSET Cursors, Cardinality(seen) <= CursorSeenCap, NEW c \in Cursors
    PROVE  Remember(c) \in SUBSET Cursors /\ Cardinality(Remember(c)) <= CursorSeenCap
<1>1. IsFiniteSet(seen) BY CursorsAssumption, FS_Subset
<1>2. Cardinality(seen) \in Nat BY <1>1, FS_CardinalityType
<1>3. Cardinality(seen \cup {c}) = Cardinality(seen) \/ Cardinality(seen \cup {c}) = Cardinality(seen) + 1
  BY <1>1, FS_AddElement
<1>4. CursorSeenCap \in Nat BY CursorsAssumption
<1> QED BY <1>2, <1>3, <1>4 DEF Remember

\* Every step keeps the call and the paging loop well typed.
LEMMA StepCallType == TransportTypeOK /\ CallTypeOK /\ PageTypeOK /\ [Next]_vars => CallTypeOK' /\ PageTypeOK'
<1> SUFFICES ASSUME TransportTypeOK, CallTypeOK, PageTypeOK, [Next]_vars
             PROVE  CallTypeOK' /\ PageTypeOK'
  OBVIOUS
<1>a. signature \in -1 .. MaxRetries BY DEF CallTypeOK
<1>b. attempt \in -1 .. MaxRetries BY TransportAssumption DEF TransportTypeOK
<1>c. -1 \in -1 .. MaxRetries BY TransportAssumption
<1>d. ASSUME UNCHANGED pageVars PROVE PageTypeOK' BY <1>d DEF PageTypeOK, pageVars
<1>1. CASE UNCHANGED vars
  <2>1. UNCHANGED <<callVars, signature, pageVars>> BY <1>1 DEF vars
  <2>2. UNCHANGED callVars /\ signature' \in -1 .. MaxRetries /\ UNCHANGED pageVars BY <2>1, <1>a
  <2> QED BY <2>2, <1>d, RequestType, Zenon
<1>2. ASSUME stage = "ready",
             NEW o \in Ops, NEW c \in BOOLEAN, NEW flaw, NEW a \in [ArgPositions(o.route) -> Segments],
             NEW limit \in (IF o.helper = "list_all" THEN PageLimits ELSE {Unlimited}),
             Invoke(o, c, flaw, a, limit)
      PROVE  CallTypeOK' /\ PageTypeOK'
  <2>1. /\ op' = o /\ args' = a /\ creds' = c /\ signature' = signature /\ maxPages' = limit
        /\ UNCHANGED <<fetched, seen, asked>>
        /\ stage' \in {"returned", "calling"}
        /\ outcome' = outcome \/ \E check : outcome' = Refusal(check)
    BY <1>2, Zenon DEF Invoke
  <2>2. outcome' = outcome \/ outcome' \in {"denied", "invalid"} BY <2>1, RefusalType, Zenon
  <2>3. limit \in PageLimits BY <1>2, CursorsAssumption
  <2>4. CallTypeOK' BY <1>2, <2>1, <2>2 DEF CallTypeOK
  <2>5. PageTypeOK' BY <2>1, <2>3 DEF PageTypeOK
  <2> QED BY <2>4, <2>5
<1>3. CASE SignInline
  <2>1. /\ UNCHANGED callVars /\ UNCHANGED pageVars
        /\ signature' = IF SigningClient THEN attempt ELSE -1
    BY <1>3, Zenon DEF SignInline
  <2>2. signature' \in -1 .. MaxRetries BY <2>1, <1>b, <1>c, Zenon
  <2> QED BY <2>1, <2>2, <1>d, RequestType, Zenon
<1>4. ASSUME NEW s \in Signers, SignAsync(s) PROVE CallTypeOK' /\ PageTypeOK'
  <2>1. UNCHANGED callVars /\ UNCHANGED pageVars BY <1>4, Zenon DEF SignAsync
  <2>2. signature' \in {signature, attempt} BY <1>4, Zenon DEF SignAsync
  <2>3. signature' \in -1 .. MaxRetries BY <2>2, <1>a, <1>b
  <2> QED BY <2>1, <2>3, <1>d, RequestType, Zenon
<1>5. CASE Transmit \/ Cancel \/ CloseClient \/ Exchange
  <2>1. UNCHANGED callVars /\ UNCHANGED pageVars /\ signature' = signature
    BY <1>5, Zenon DEF Transmit, Cancel, CloseClient, Exchange
  <2> QED BY <2>1, <1>a, <1>d, RequestType
<1>6. CASE Raise
  <2>1. Return(verdict) /\ signature' = signature /\ UNCHANGED pageVars /\ verdict # "ok"
        /\ stage = "calling" /\ at = "done"
    BY <1>6, Zenon DEF Raise
  <2>2. CASE verdict = "none"
    BY <2>1, <2>2, <1>d DEF CallTypeOK, Return
  <2>3. CASE verdict # "none"
    <3>1. verdict \in Definite \cup Ambiguous BY <2>1, <2>3 DEF TransportTypeOK
    <3> QED BY <2>1, <3>1, <1>d, ReturnType, Zenon
  <2> QED BY <2>2, <2>3
<1>7. CASE \E body \in {"json", "empty", "junk"} : Garbled(body) \/ Answer(body)
  <2>1. (Return("garbled") \/ Return("ok")) /\ signature' = signature /\ UNCHANGED pageVars
    BY <1>7, Zenon DEF Garbled, Answer
  <2> QED BY <2>1, <1>d, ReturnType
<1>8. ASSUME NEW c \in Cursors \cup {NoCursor}, EndOfPages(c) \/ CursorLoop(c)
      PROVE  CallTypeOK' /\ PageTypeOK'
  <2>1. /\ Return("ok") \/ Return("cursor_loop")
        /\ signature' = signature /\ fetched' = fetched + 1 /\ UNCHANGED <<maxPages, seen, asked>>
    BY <1>8, Zenon DEF EndOfPages, CursorLoop
  <2>2. CallTypeOK' BY <2>1, ReturnType
  <2> QED BY <2>1, <2>2 DEF PageTypeOK
<1>9. ASSUME NEW c \in Cursors \cup {NoCursor}, NextPage(c) PROVE CallTypeOK' /\ PageTypeOK'
  <2>1. /\ c # NoCursor /\ seen' = Remember(c) /\ fetched' = fetched + 1
        /\ UNCHANGED <<maxPages, signature>>
        /\ \/ Return("ok") /\ asked' = asked
           \/ UNCHANGED callVars /\ asked' = Append(asked, c)
    BY <1>9, Zenon DEF NextPage
  <2>2. c \in Cursors BY <2>1
  <2>3. Remember(c) \in SUBSET Cursors /\ Cardinality(Remember(c)) <= CursorSeenCap
    BY <2>2, RememberType DEF PageTypeOK
  <2>4. asked' \in Seq(Cursors) BY <2>1, <2>2 DEF PageTypeOK
  <2>5. CallTypeOK' BY <2>1, <1>a, ReturnType, RequestType
  <2> QED BY <2>1, <2>3, <2>4, <2>5 DEF PageTypeOK
<1> QED
  BY <1>1, <1>2, <1>3, <1>4, <1>5, <1>6, <1>7, <1>8, <1>9, Zenon DEF Next, Advance

\* The client's state stays well typed, for any limits, cursors and threads.
THEOREM TypeCorrect == Spec => []TypeOK
<1>1. Spec => []TransportTypeOK BY Composition, TransportTyped, PTL
<1>2. Spec => []AuthTypeOK BY Composition, AuthTyped, PTL
<1>3. Spec => [](CallTypeOK /\ PageTypeOK)
  BY <1>1, InitCallType, StepCallType, PTL DEF Spec
<1> QED BY <1>1, <1>2, <1>3, PTL DEF TypeOK

-----------------------------------------------------------------------------
\* Once a request is made, its method's checks have passed on what the caller
\* gave: if the method checks its segments, none is one it refuses.
SegmentsChecked == "seg" \in ToSet(op.checks) => \A i \in DOMAIN args : ~SegRefuses(args[i])

RouteInv == at # "idle" => op \in Ops /\ SegmentsChecked

\* A call that nothing refuses has had its segments checked.
LEMMA SegmentsAdmitted ==
    ASSUME NEW o \in Ops, NEW c, NEW a, NEW flaw, Failing(o, c, a, flaw) = {},
           "seg" \in ToSet(o.checks), NEW i \in DOMAIN a
    PROVE  ~SegRefuses(a[i])
<1>0. o.checks \in Seq(Checks) BY GuardsAssumption
<1>1. PICK k \in 1 .. Len(o.checks) : o.checks[k] = "seg" BY DEF ToSet
<1>2. k \in DOMAIN Checked(o) /\ Checked(o)[k] = "seg" BY <1>0, <1>1 DEF Checked
<1>3. ~Fails("seg", c, a, flaw) BY <1>2 DEF Failing
<1> QED BY <1>3, Zenon DEF Fails

\* Every step keeps it: a request begins with the call or with a page of it.
LEMMA StepRouted == SignInv /\ RouteInv /\ [Next]_vars => RouteInv'
<1> SUFFICES ASSUME SignInv, RouteInv, [Next]_vars PROVE RouteInv' OBVIOUS
<1>a. ASSUME UNCHANGED callVars, at = "idle" => at' = "idle" PROVE RouteInv'
  BY <1>a DEF callVars, RouteInv, SegmentsChecked
<1>b. ASSUME NEW how, Return(how), at' = at PROVE RouteInv'
  BY <1>b DEF Return, RouteInv, SegmentsChecked
<1>1. CASE UNCHANGED vars
  <2>1. UNCHANGED callVars /\ at' = at BY <1>1 DEF vars, transportVars
  <2> QED BY <2>1, <1>a
<1>2. ASSUME stage = "ready", NEW o \in Ops, NEW c, NEW flaw, NEW a, NEW limit, Invoke(o, c, flaw, a, limit)
      PROVE  RouteInv'
  <2>1. op' = o /\ args' = a /\ (UNCHANGED transportVars \/ Failing(o, c, a, flaw) = {})
    BY <1>2, Zenon DEF Invoke
  <2>2. CASE UNCHANGED transportVars
    BY <1>2, <2>2 DEF transportVars, SignInv, RouteInv
  <2>3. CASE Failing(o, c, a, flaw) = {}
    <3>1. "seg" \in ToSet(o.checks) => \A i \in DOMAIN a : ~SegRefuses(a[i])
      BY <2>3, SegmentsAdmitted, Zenon
    <3> QED BY <2>1, <3>1 DEF RouteInv, SegmentsChecked
  <2> QED BY <2>1, <2>2, <2>3
<1>3. CASE SignInline \/ \E s \in Signers : SignAsync(s)
  <2>1. UNCHANGED callVars BY <1>3, Zenon DEF SignInline, SignAsync
  <2>2. at = "sign"
    <3>1. CASE SignInline BY <3>1 DEF SignInline, Signed
    <3>2. CASE \E s \in Signers : SignAsync(s) BY <3>2, Zenon DEF SignAsync
    <3> QED BY <1>3, <3>1, <3>2
  <2> QED BY <2>1, <2>2, <1>a
<1>4. CASE Transmit
  <2>1. UNCHANGED callVars /\ at # "idle" BY <1>4, RequestSteps DEF Transmit
  <2> QED BY <2>1, <1>a
<1>5. CASE Cancel \/ CloseClient \/ Exchange
  <2>1. UNCHANGED callVars BY <1>5, Zenon DEF Cancel, CloseClient, Exchange
  <2>2. at # "idle" \/ at' = at
    BY <1>5 DEF Cancel, Cancelled, CloseClient, CloseTransport, transportVars, Exchange, Apply
  <2> QED BY <2>1, <2>2, <1>a
<1>6. CASE Raise \/ \E body \in {"json", "empty", "junk"} : Garbled(body) \/ Answer(body)
  <2>1. PICK how : Return(how) /\ UNCHANGED transportVars BY <1>6, Zenon DEF Raise, Garbled, Answer
  <2>2. at' = at BY <2>1 DEF transportVars
  <2> QED BY <2>1, <2>2, <1>b, Zenon
<1>7. CASE \E c \in Cursors \cup {NoCursor} : EndOfPages(c) \/ CursorLoop(c)
  <2>1. PICK how : Return(how) /\ UNCHANGED transportVars BY <1>7, Zenon DEF EndOfPages, CursorLoop
  <2>2. at' = at BY <2>1 DEF transportVars
  <2> QED BY <2>1, <2>2, <1>b, Zenon
<1>8. ASSUME NEW c, NextPage(c) PROVE RouteInv'
  <2>1. at = "done" /\ (UNCHANGED callVars \/ (Return("ok") /\ UNCHANGED transportVars))
    BY <1>8, Zenon DEF NextPage
  <2>2. CASE UNCHANGED callVars BY <2>1, <2>2, <1>a
  <2>3. CASE Return("ok") /\ UNCHANGED transportVars
    <3>1. at' = at BY <2>3 DEF transportVars
    <3> QED BY <2>3, <3>1, <1>b, Zenon
  <2> QED BY <2>1, <2>2, <2>3
<1> QED
  BY <1>1, <1>2, <1>3, <1>4, <1>5, <1>6, <1>7, <1>8, Zenon DEF Next, Advance

\* What passes the checks of a method leaves its path intact.
LEMMA CheckedIntact ==
    ASSUME NEW o \in Ops, NEW a \in [ArgPositions(o.route) -> Segments],
           "seg" \in ToSet(o.checks) => \A i \in DOMAIN a : ~SegRefuses(a[i])
    PROVE  Intact(o, a)
BY RoutesAssumption, Zenon

\* Whatever identifiers the caller passes, no method's request leaves for
\* another endpoint than its own (kalshi/resources/_base.py 47).
THEOREM PathsIntact == Spec => []RouteIntact
<1>1. Init => RouteInv BY DEF Init, TransportInit, RouteInv
<1>2. Spec => []RouteInv
  BY <1>1, InitSigned, StepSigned, StepRouted, PTL DEF Spec
<1>3. TypeOK /\ RouteInv => RouteIntact
  <2> SUFFICES ASSUME TypeOK, RouteInv, at = "wire" PROVE Intact(op, args) BY DEF RouteIntact
  <2>1. op \in Ops /\ SegmentsChecked BY DEF RouteInv
  <2>2. args \in [ArgPositions(op.route) -> Segments] BY DEF TypeOK, CallTypeOK
  <2>3. "seg" \in ToSet(op.checks) => \A i \in DOMAIN args : ~SegRefuses(args[i])
    BY <2>1, Zenon DEF SegmentsChecked
  <2> QED BY <2>1, <2>2, <2>3, CheckedIntact, Zenon
<1> QED BY <1>2, <1>3, TypeCorrect, PTL

=============================================================================
