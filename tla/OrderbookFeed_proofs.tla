-------------------------- MODULE OrderbookFeed_proofs --------------------------
(***************************************************************************)
(* Theorems about OrderbookFeed, for any subscriptions, markets, sids and  *)
(* faults: types, and that every iterator is served or told (ServeInv);    *)
(* that books are exact (BookInv: version and number of a sid advance      *)
(* together, in frames, watermark and book) and refine MirroredBook (with  *)
(* NotAhead: no frame is ahead of its market); and that client and server  *)
(* agree at rest (AgreeInv: where they differ, what will tell the client   *)
(* is under way).                                                          *)
(***************************************************************************)
EXTENDS OrderbookFeed, TLAPS, FiniteSetTheorems, FunctionTheorems, SequenceTheorems,
        WellFoundedInduction

\* What is known of the command whose reply is awaited, at each place of the reader.
Waiting ==
    /\ pc \in {"recv", "crashed", "dead"} => call = NoCall
    /\ pc \in Awaiting \ {"reall"} => call.client \in Clients
    /\ pc = "subscribe" => outcome[call.client] = "idle"
    /\ pc \in {"leave", "unsub"} => call.client \in registered /\ sidOf[call.client] \in Sids
    /\ pc = "resub" => /\ call.client \in registered
                       /\ \A s \in Sids : clientOf[s] # call.client
    /\ pc = "reall" => /\ todo \subseteq registered
                       /\ \A s \in Sids : clientOf[s] \notin todo
                       /\ call # NoCall => call.client \in todo

\* A connection that breaks takes the server's side with it.
Cut == ~connected => up = <<>> /\ \A s \in Sids : active[s] = Nobody

\* The inductive invariant of TypeOK and ToldOrServed, with Cut for what follows.
ServeInv == TypeOK /\ ToldOrServed /\ Waiting /\ Cut

-----------------------------------------------------------------------------
\* A sequence of frames as a set.
Carried(q) == {q[i] : i \in DOMAIN q}

\* The frames on their way to the client, or kept by it to be replayed.
Transit == Carried(down) \cup Carried(stash) \cup Carried(drain)

\* What the theorems on books ask of the constants: numbers are not restarted
\* within a sid, and no two subscriptions share a book.
NoResets == Faults \cap {"reset", "late_reset"} = {}
OwnMarkets == \A c, d \in Clients : TickerOf[c] = TickerOf[d] => c = d

Data(f) == f.type \in {"snapshot", "delta"}

\* Sequence number and version of a sid advance together.
Numbered(s, q, v) == v + seq[s] = q + sent[s]

\* The frames that name a sid's market: errors and endings name none.
Naming(f) == f.type \in {"subscribed", "snapshot", "delta"}

\* Sids are used once within a connection, ids once.
Fresh ==
    /\ \A f \in Transit : Naming(f) => f.sid < nextSid
    /\ \A s \in Sids : s >= nextSid => active[s] = Nobody /\ clientOf[s] = Nobody
    /\ \A u \in Carried(up) : u.id < msgId
    /\ \A f \in Transit : f.type = "subscribed" => f.id < msgId
    /\ call # NoCall => call.id < msgId

\* Every sid carries the market of the subscription it is mapped to.
RightMarket ==
    /\ \A f \in Transit : Data(f) /\ clientOf[f.sid] # Nobody =>
           f.ticker = TickerOf[clientOf[f.sid]]
    /\ \A s \in Sids : clientOf[s] # Nobody =>
           active[s] \in {Nobody, TickerOf[clientOf[s]]}

\* The reply to the command in hand names a sid of the right market, mapped to nobody.
RightReply ==
    call # NoCall =>
        /\ \A u \in Carried(up) : u.cmd = "subscribe" /\ u.id = call.id =>
               u.ticker = TickerOf[call.client]
        /\ \A a \in Transit : a.type = "subscribed" /\ a.id = call.id =>
               /\ clientOf[a.sid] = Nobody
               /\ active[a.sid] \in {Nobody, TickerOf[call.client]}
               /\ \A f \in Transit : Data(f) /\ f.sid = a.sid =>
                      f.ticker = TickerOf[call.client]

\* Every data frame carries the version its number stands for.
RightNumbers ==
    \A f \in Transit : Data(f) => f.seq >= 1 /\ Numbered(f.sid, f.seq, f.ver)

\* A book belongs to a mapped sid and stands at that sid's watermark.
RightBooks ==
    /\ \A t \in Tickers : book[t].sid # NoSid =>
           LET s == book[t].sid
           IN  /\ clientOf[s] # Nobody /\ TickerOf[clientOf[s]] = t
               /\ watermark[s] > 0 /\ Numbered(s, watermark[s], book[t].ver)
               /\ book[t].val = book[t].ver
    /\ pc \in {"leave", "unsub"} => \A t \in Tickers : book[t].sid # sidOf[call.client]

\* What BookInv says without the books.
Labels == Fresh /\ RightMarket /\ RightReply /\ RightNumbers

\* The inductive invariant of BookExact, with ServeInv.
BookInv == Labels /\ RightBooks

-----------------------------------------------------------------------------
\* Every set of numbers that is not empty has a least member.
LEMMA LeastMember ==
    ASSUME NEW S \in SUBSET Nat, S # {}
    PROVE  \E m \in S : \A n \in S : m <= n
<1>1. IsWellFoundedOn(OpToRel(<, Nat), Nat) BY NatLessThanWellFounded
<1>2. PICK m \in S : \A n \in S : ~(<<n, m>> \in OpToRel(<, Nat))
  BY <1>1, WFMin, Zenon
<1>3. ASSUME NEW n \in S PROVE ~(n < m)
  BY <1>2, <1>3, Zenon DEF OpToRel
<1> QED BY <1>3

\* A set of positions in a sequence has a first and a last member.
LEMMA FirstAndLast ==
    ASSUME NEW n \in Nat, NEW S \in SUBSET (1..n), S # {}
    PROVE  /\ \E i \in S : \A j \in S : i <= j
           /\ \E i \in S : \A j \in S : j <= i
<1>1. \E i \in S : \A j \in S : i <= j BY LeastMember
<1>2. \E i \in S : \A j \in S : j <= i
  <2> DEFINE T == {n - i : i \in S}
  <2>1. T \in SUBSET Nat /\ T # {}
    <3>1. ASSUME NEW i \in S PROVE n - i \in Nat OBVIOUS
    <3>2. \E i \in S : n - i \in T OBVIOUS
    <3> QED BY <3>1, <3>2
  <2>2. PICK m \in T : \A k \in T : m <= k BY <2>1, LeastMember, Zenon
  <2>3. PICK i \in S : m = n - i OBVIOUS
  <2>4. ASSUME NEW j \in S PROVE j <= i
    <3>1. n - j \in T OBVIOUS
    <3> QED BY <3>1, <2>2, <2>3
  <2> QED BY <2>4
<1> QED BY <1>1, <1>2

\* A sequence is over S exactly if what it carries is in S.
LEMMA CarriedSeq ==
    ASSUME NEW T, NEW q \in Seq(T), NEW S
    PROVE  /\ Carried(q) \subseteq T
           /\ q \in Seq(S) <=> Carried(q) \subseteq S
BY DEF Carried

\* What the operations on sequences carry.
LEMMA CarriedOps ==
    ASSUME NEW T, NEW q \in Seq(T), NEW r \in Seq(T), NEW f \in T, NEW k \in 0..Len(q)
    PROVE  /\ Append(q, f) \in Seq(T) /\ Carried(Append(q, f)) = Carried(q) \cup {f}
           /\ q \o r \in Seq(T) /\ Carried(q \o r) = Carried(q) \cup Carried(r)
           /\ SubSeq(q, 1, k) \in Seq(T) /\ Carried(SubSeq(q, 1, k)) \subseteq Carried(q)
           /\ q # <<>> => /\ Tail(q) \in Seq(T) /\ Carried(Tail(q)) \subseteq Carried(q)
                          /\ Head(q) \in T /\ Head(q) \in Carried(q)
<1>1. Append(q, f) \in Seq(T) /\ Carried(Append(q, f)) = Carried(q) \cup {f}
  <2>1. /\ Append(q, f) \in Seq(T) /\ Len(Append(q, f)) = Len(q) + 1
        /\ \A i \in 1..Len(q) : Append(q, f)[i] = q[i]
        /\ Append(q, f)[Len(q) + 1] = f
    OBVIOUS
  <2>2. DOMAIN Append(q, f) = DOMAIN q \cup {Len(q) + 1} BY <2>1
  <2>3. ASSUME NEW i \in DOMAIN q PROVE Append(q, f)[i] = q[i] BY <2>1
  <2> QED BY <2>1, <2>2, <2>3, Zenon DEF Carried
<1>2. q \o r \in Seq(T) OBVIOUS
<1>3. Carried(q \o r) = Carried(q) \cup Carried(r)
  <2>1. ASSUME NEW i \in DOMAIN (q \o r)
        PROVE  (q \o r)[i] \in Carried(q) \cup Carried(r)
    <3>1. CASE i <= Len(q) BY <3>1 DEF Carried
    <3>2. CASE i > Len(q)
      <4>1. (q \o r)[i] = r[i - Len(q)] /\ i - Len(q) \in DOMAIN r BY <3>2
      <4> QED BY <4>1 DEF Carried
    <3> QED BY <3>1, <3>2
  <2>2. ASSUME NEW i \in DOMAIN q PROVE q[i] \in Carried(q \o r)
    <3>1. i \in DOMAIN (q \o r) /\ (q \o r)[i] = q[i] OBVIOUS
    <3> QED BY <3>1 DEF Carried
  <2>3. ASSUME NEW i \in DOMAIN r PROVE r[i] \in Carried(q \o r)
    <3>1. Len(q) + i \in DOMAIN (q \o r) /\ (q \o r)[Len(q) + i] = r[i] OBVIOUS
    <3> QED BY <3>1 DEF Carried
  <2> QED BY <2>1, <2>2, <2>3 DEF Carried
<1>4. SubSeq(q, 1, k) \in Seq(T) /\ Carried(SubSeq(q, 1, k)) \subseteq Carried(q)
  BY DEF Carried
<1>5. ASSUME q # <<>>
      PROVE  /\ Tail(q) \in Seq(T) /\ Carried(Tail(q)) \subseteq Carried(q)
             /\ Head(q) \in T /\ Head(q) \in Carried(q)
  <2>1. Len(q) >= 1 /\ Tail(q) \in Seq(T) /\ Head(q) = q[1] /\ Head(q) \in T BY <1>5
  <2>2. ASSUME NEW i \in DOMAIN Tail(q) PROVE Tail(q)[i] \in Carried(q)
    <3>1. i + 1 \in DOMAIN q /\ Tail(q)[i] = q[i + 1] BY <2>1
    <3> QED BY <3>1 DEF Carried
  <2> QED BY <2>1, <2>2 DEF Carried
<1> QED BY <1>1, <1>2, <1>3, <1>4, <1>5

\* Stashing a frame keeps some of the stashed frames, and the new one.
LEMMA StashedSeq ==
    ASSUME NEW T, stash \in Seq(T), NEW f \in T
    PROVE  /\ Stashed(f) \in Seq(T)
           /\ Carried(Stashed(f)) \subseteq Carried(stash) \cup {f}
<1> DEFINE mine == {i \in DOMAIN stash : stash[i].sid = f.sid}
           first == CHOOSE i \in mine : \A j \in mine : i <= j
           last == CHOOSE i \in mine : \A j \in mine : j <= i
           before == SubSeq(stash, 1, first - 1)
           bucket == SubSeq(stash, first, last)
           kept == IF Cardinality(mine) = StashMax THEN Tail(bucket) ELSE bucket
           after == SubSeq(stash, last + 1, Len(stash))
           S == Carried(stash) \cup {f}
<1>1. stash \in Seq(S) /\ f \in S BY CarriedSeq
<1>2. Stashed(f) \in Seq(S)
  <2>1. CASE mine = {} BY <1>1, <2>1 DEF Stashed
  <2>2. CASE mine # {}
    <3>1. first \in 1..Len(stash) /\ last \in 1..Len(stash) /\ first <= last
      <4>1. mine \in SUBSET (1..Len(stash)) /\ Len(stash) \in Nat BY <1>1
      <4>2. first \in mine /\ last \in mine /\ first <= last
        <5>1. \E i \in mine : \A j \in mine : i <= j BY <4>1, <2>2, FirstAndLast, Zenon
        <5>2. \E i \in mine : \A j \in mine : j <= i BY <4>1, <2>2, FirstAndLast, Zenon
        <5>3. first \in mine /\ \A j \in mine : first <= j BY <5>1, Zenon
        <5>4. last \in mine BY <5>2, Zenon
        <5> QED BY <5>3, <5>4
      <4> QED BY <4>1, <4>2
    <3> HIDE DEF first, last, mine
    <3>2. before \in Seq(S) /\ bucket \in Seq(S) /\ after \in Seq(S)
      BY <1>1, <3>1
    <3>3. bucket # <<>>
      <4>1. Len(bucket) = last - first + 1 BY <1>1, <3>1
      <4> QED BY <4>1, <3>1
    <3>4. kept \in Seq(S) BY <3>2, <3>3
    <3>5. Stashed(f) = before \o kept \o <<f>> \o after
      BY <2>2, Zenon DEF Stashed, mine, first, last
    <3> HIDE DEF before, kept, after
    <3> QED BY <3>2, <3>4, <3>5, <1>1
  <2> QED BY <2>1, <2>2
<1>3. S \subseteq T BY CarriedSeq
<1>4. Stashed(f) \in Seq(T)
  BY <1>2, <1>3, SeqMonotonic
<1> QED BY <1>2, <1>4, CarriedSeq

\* Parts of the state that a step leaves alone keep their types.
LEMMA TypesKept ==
    /\ ServerType /\ UNCHANGED server => ServerType'
    /\ NetType /\ UNCHANGED <<up, down, connected, msgId, spent>> => NetType'
    /\ SubsType /\ UNCHANGED subs => SubsType'
    /\ LocalType /\ UNCHANGED <<local, orphans>> => LocalType'
    /\ ControlType /\ UNCHANGED control => ControlType'
BY DEF ServerType, NetType, SubsType, LocalType, ControlType, server, subs, local, control

\* What a frame is made of.
LEMMA FrameKinds ==
    ASSUME NEW f \in Frames
    PROVE  /\ f.type \in {"subscribed", "unsubscribed", "error", "snapshot", "delta"}
           /\ f.sid \in 0..MaxSid
           /\ f.type # "error" => f.sid \in Sids
           /\ ~Data(f) => f.id \in Nat
           /\ Data(f) => /\ f.seq \in Nat /\ f.ver \in Nat /\ f.ticker \in Tickers
                         /\ f.ok \in BOOLEAN
           /\ f.type \in {"snapshot", "delta", "unsubscribed"} => f \in Stashable
BY FeedAssumption DEF Frames, Replies, Endings, DataFrames, Stashable, Data, Sids

\* What can be stashed is a frame.
LEMMA StashableKinds ==
    ASSUME NEW f \in Stashable
    PROVE  /\ f \in Frames /\ f.sid \in Sids
           /\ f.type \in {"unsubscribed", "snapshot", "delta"}
BY DEF Frames, Replies, Endings, DataFrames, Stashable

\* The frames the server makes.
LEMMA FramesMade ==
    ASSUME TypeOK
    PROVE  /\ \A s \in Sids, q \in Nat, v \in Nat, ok \in BOOLEAN :
                  active[s] # Nobody => Delta(s, q, v, ok) \in Frames
           /\ \A i \in Nat, s \in Sids : /\ Reply("subscribed", i, s) \in Frames
                                         /\ Reply("unsubscribed", i, s) \in Frames
           /\ \A i \in Nat, s \in 0..MaxSid : Reply("error", i, s) \in Frames
<1>1. ASSUME NEW s \in Sids, NEW q \in Nat, NEW v \in Nat, NEW ok \in BOOLEAN,
             active[s] # Nobody
      PROVE  Delta(s, q, v, ok) \in Frames
  <2>1. active[s] \in Tickers BY <1>1 DEF TypeOK, ServerType
  <2> QED BY <2>1 DEF Delta, Frames, DataFrames
<1> QED BY <1>1 DEF Reply, Frames, Replies, Endings

\* A book stays a book.
LEMMA FoldType ==
    ASSUME NEW b \in Books, NEW f \in Frames, Data(f)
    PROVE  Fold(b, f) \in Books
<1>1. f.sid \in 0..MaxSid /\ f.ver \in Nat BY FrameKinds
<1>2. CASE f.type = "snapshot" BY <1>1, <1>2 DEF Fold, Books
<1>3. CASE f.type # "snapshot"
  <2>1. b.val + 1 \in Nat BY DEF Books
  <2>2. [b EXCEPT !.val = @ + 1, !.ver = f.ver] \in Books BY <1>1, <2>1 DEF Books
  <2> QED BY <1>3, <2>2 DEF Fold
<1> QED BY <1>2, <1>3

\* Removing books leaves books.
LEMMA BooksWithoutType ==
    ASSUME TypeOK, NEW s \in Nat
    PROVE  /\ BooksWithout(s) \in [Tickers -> Books]
           /\ NoBook \in Books
<1>1. NoBook \in Books BY FeedAssumption DEF NoBook, NoSid, Books
<1> QED BY <1>1 DEF BooksWithout, TypeOK, LocalType

\* Sending a command.
LEMMA SendType ==
    ASSUME TypeOK, NEW cmd \in Commands, Send(cmd)
    PROVE  up' \in Seq(Commands) /\ msgId' \in Nat
BY DEF TypeOK, NetType, Send

\* The commands the client makes.
LEMMA CommandsMade ==
    ASSUME TypeOK
    PROVE  /\ \A c \in Clients : SubscribeCommand(c) \in Commands
           /\ \A s \in Sids : UnsubscribeCommand(s) \in Commands
BY DEF TypeOK, NetType, SubscribeCommand, UnsubscribeCommand, Commands, Tickers

\* A reader that waits has someone to wait for.
LEMMA CallTypes ==
    ASSUME TypeOK, Waiting
    PROVE  /\ NoCall \in [client : Clients \cup {Nobody}, id : Nat, replay : BOOLEAN]
           /\ \A c \in Clients, r \in BOOLEAN :
                  [client |-> c, id |-> msgId, replay |-> r]
                      \in [client : Clients \cup {Nobody}, id : Nat, replay : BOOLEAN]
           /\ pc \in {"subscribe", "leave", "unsub", "resub"} => call.client \in Clients
           /\ pc = "reall" /\ call # NoCall => call.client \in Clients
           /\ pc = "reall" => todo \subseteq registered
BY DEF TypeOK, NetType, SubsType, ControlType, Waiting, NoCall, Awaiting

-----------------------------------------------------------------------------
\* The early subscriptions have the first sids, one each.
LEMMA FirstSids ==
    /\ Cardinality(Early) \in 0..MaxSid
    /\ FirstSid \in [Early -> 1..Cardinality(Early)]
    /\ \A c, d \in Early : c # d => FirstSid[c] # FirstSid[d]
<1>1. IsFiniteSet(Early) BY FeedAssumption, FS_Subset DEF Early
<1>2. Cardinality(Early) \in Nat /\ ExistsBijection(1..Cardinality(Early), Early)
  BY <1>1, FS_CardinalityType
<1>3. ExistsBijection(Early, 1..Cardinality(Early))
  BY <1>2, Fun_ExistsBijSymmetric, Zenon
<1>3a. Bijection(Early, 1..Cardinality(Early)) # {} BY <1>3, Zenon DEF ExistsBijection
<1>4. PICK g \in Bijection(Early, 1..Cardinality(Early)) : TRUE BY <1>3a
<1>5. g \in [Early -> 1..Cardinality(Early)] /\ \A c, d \in Early : c # d => g[c] # g[d]
  <2>1. g \in Injection(Early, 1..Cardinality(Early)) BY <1>4, Fun_BijectionProperties, Zenon
  <2> QED BY <2>1, Fun_InjectionProperties, Zenon
<1>6. /\ FirstSid \in [Early -> 1..Cardinality(Early)]
      /\ \A c, d \in Early : c # d => FirstSid[c] # FirstSid[d]
  BY <1>5, Zenon DEF FirstSid
<1>7. Cardinality(Early) <= MaxSid /\ MaxSid \in Nat BY FeedAssumption DEF Early
<1>8. Cardinality(Early) \in 0..MaxSid BY <1>2, <1>7
<1> QED BY <1>6, <1>8

\* Who is on a sid at first.
LEMMA OnFirst ==
    /\ \A c \in Early : FirstSid[c] \in Sids /\ ClientOn(FirstSid[c]) = c
    /\ \A s \in Sids : ClientOn(s) = Nobody \/ (ClientOn(s) \in Early /\ FirstSid[ClientOn(s)] = s)
    /\ \A s \in Sids : ClientOn(s) # Nobody => s <= Cardinality(Early)
    /\ Early \subseteq Clients /\ Nobody \notin Clients
<1>1. ASSUME NEW c \in Early PROVE FirstSid[c] \in Sids
  BY FirstSids, FeedAssumption DEF Sids
<1>2. ASSUME NEW s \in Sids
      PROVE  ClientOn(s) = Nobody \/ (ClientOn(s) \in Early /\ FirstSid[ClientOn(s)] = s)
  BY Zenon DEF ClientOn
<1>3. ASSUME NEW c \in Early PROVE ClientOn(FirstSid[c]) = c
  <2>1. \E d \in Early : FirstSid[d] = FirstSid[c] OBVIOUS
  <2>2. ClientOn(FirstSid[c]) \in Early /\ FirstSid[ClientOn(FirstSid[c])] = FirstSid[c]
    BY <2>1, Zenon DEF ClientOn
  <2> QED BY <2>2, FirstSids, Zenon
<1>4. ASSUME NEW s \in Sids, ClientOn(s) # Nobody PROVE s <= Cardinality(Early)
  BY <1>2, <1>4, FirstSids
<1> QED BY <1>1, <1>2, <1>3, <1>4, FeedAssumption DEF Early

\* The initial state is well typed.
LEMMA InitType == Init => TypeOK
<1> SUFFICES ASSUME Init PROVE TypeOK OBVIOUS
<1>1. \A c \in Early : FirstBook(c) \in Books
  BY OnFirst DEF FirstBook, Books, Sids
<1>2. NoBook \in Books BY FeedAssumption DEF NoBook, NoSid, Books
<1>3. version \in [Tickers -> Nat] /\ sent \in [Sids -> Nat] /\ seq \in [Sids -> Nat]
      /\ watermark \in [Sids -> Nat] /\ spent \in Nat
  BY DEF Init
<1>4. active \in [Sids -> Tickers \cup {Nobody}] /\ clientOf \in [Sids -> Clients \cup {Nobody}]
  BY OnFirst DEF Init, Tickers
<1>5. sidOf \in [Clients -> 0..MaxSid]
  <2>1. \A c \in Early : FirstSid[c] \in 0..MaxSid BY OnFirst DEF Sids
  <2>2. NoSid \in 0..MaxSid BY FeedAssumption DEF NoSid
  <2> QED BY <2>1, <2>2 DEF Init
<1>6. nextSid \in 1..(MaxSid + 1) /\ msgId \in Nat
  BY FirstSids, FeedAssumption DEF Init
<1>7. up \in Seq(Commands) /\ down \in Seq(Frames) /\ stash \in Seq(Stashable)
      /\ drain \in Seq(Stashable)
  BY DEF Init
<1>8. book \in [Tickers -> Books] /\ view \in [Clients -> Books]
  <2>1. view \in [Clients -> Books] BY <1>1, <1>2 DEF Init
  <2>2. book \in [Tickers -> {NoBook} \cup {FirstBook(c) : c \in Early}] BY DEF Init
  <2> QED BY <2>1, <2>2, <1>1, <1>2
<1>9. /\ connected \in BOOLEAN /\ registered \subseteq Clients /\ orphans \subseteq Sids
      /\ outcome \in [Clients -> Outcomes]
      /\ pc \in Awaiting \cup {"recv", "crashed", "dead"} /\ todo \subseteq Clients
      /\ call \in [client : Clients \cup {Nobody}, id : Nat, replay : BOOLEAN]
  BY OnFirst DEF Init, NoCall, Outcomes
<1> QED BY <1>3, <1>4, <1>5, <1>6, <1>7, <1>8, <1>9
  DEF TypeOK, ServerType, NetType, SubsType, LocalType, ControlType

\* What the server and the network leave alone.
LEMMA EnvironmentKeeps ==
    ASSUME Environment
    PROVE  UNCHANGED <<subs, local, orphans, control, msgId>>
<1>1. ASSUME NEW t \in Tickers, Change(t)
      PROVE  UNCHANGED <<subs, local, orphans, control, msgId>>
  BY <1>1 DEF Change
<1>2. ASSUME NEW s \in Sids, Emit(s) PROVE UNCHANGED <<subs, local, orphans, control, msgId>>
  BY <1>2 DEF Emit
<1>3. ASSUME NEW s \in Sids, Redeliver(s)
      PROVE  UNCHANGED <<subs, local, orphans, control, msgId>>
  BY <1>3 DEF Redeliver
<1>4. ASSUME NEW s \in Sids, Reap(s) PROVE UNCHANGED <<subs, local, orphans, control, msgId>>
  BY <1>4 DEF Reap
<1>5. AcceptSubscribe => UNCHANGED <<subs, local, orphans, control, msgId>>
  BY DEF AcceptSubscribe
<1>6. RejectSubscribe => UNCHANGED <<subs, local, orphans, control, msgId>>
  BY DEF RejectSubscribe
<1>7. AnswerUnsubscribe => UNCHANGED <<subs, local, orphans, control, msgId>>
  BY DEF AnswerUnsubscribe
<1>8. Drop => UNCHANGED <<subs, local, orphans, control, msgId>>
  BY DEF Drop
<1> QED BY <1>1, <1>2, <1>3, <1>4, <1>5, <1>6, <1>7, <1>8, Zenon DEF Environment

\* The frames an emission sends, and the numbers it leaves.
LEMMA EmitSends ==
    ASSUME TypeOK, NEW s \in Sids, Emit(s)
    PROVE  /\ active[s] \in Tickers /\ seq[s] \in Nat /\ sent[s] \in Nat
           /\ sent' = [sent EXCEPT ![s] = sent[s] + 1]
           /\ \/ seq' = [seq EXCEPT ![s] = seq[s] + 1]
              \/ seq' = [seq EXCEPT ![s] = 1] /\ ~NoResets
           /\ \E ok \in BOOLEAN :
                 LET f == Delta(s, seq'[s], sent[s] + 1, ok)
                 IN  \/ down' = Append(down, f)
                     \/ down' = Append(Append(down, f), f)
                     \/ down' = down
           /\ spent' \in Nat
           /\ UNCHANGED <<version, active, nextSid, up, connected, msgId>>
<1>1. active[s] \in Tickers /\ seq[s] \in Nat /\ sent[s] \in Nat
      /\ seq \in [Sids -> Nat] /\ spent \in Nat /\ down \in Seq(Frames)
  BY DEF TypeOK, ServerType, NetType, Emit
<1>2. /\ sent' = [sent EXCEPT ![s] = sent[s] + 1]
      /\ UNCHANGED <<version, active, nextSid, up, connected, msgId>>
  BY DEF Emit
<1> DEFINE good == Delta(s, seq[s] + 1, sent[s] + 1, TRUE)
           bad == Delta(s, seq[s] + 1, sent[s] + 1, FALSE)
           restart == Delta(s, 1, sent[s] + 1, TRUE)
           numbered(q) == seq' = [seq EXCEPT ![s] = q]
<1>3. \/ numbered(seq[s] + 1) /\ down' = Append(down, good) /\ spent' = spent
      \/ spent' = spent + 1 /\ numbered(seq[s] + 1) /\ down' = down
      \/ spent' = spent + 1 /\ numbered(seq[s] + 1) /\ down' = Append(down, bad)
      \/ spent' = spent + 1 /\ numbered(seq[s] + 1) /\ down' = down \o <<good, good>>
      \/ spent' = spent + 1 /\ numbered(1) /\ down' = Append(down, restart) /\ ~NoResets
  BY DEF Emit, Fault, NoResets
<1>4. \A q \in Nat : numbered(q) => seq'[s] = q BY <1>1
<1>5. good \in Frames
  <2>1. active[s] # Nobody BY DEF Emit
  <2>2. seq[s] + 1 \in Nat /\ sent[s] + 1 \in Nat /\ TRUE \in BOOLEAN BY <1>1
  <2> QED BY <2>1, <2>2, FramesMade, Zenon
<1> HIDE DEF good, bad, restart
<1>6. down \o <<good, good>> = Append(Append(down, good), good) BY <1>1, <1>5
<1>7. \/ numbered(seq[s] + 1) /\ seq'[s] = seq[s] + 1
      \/ numbered(1) /\ seq'[s] = 1 /\ ~NoResets
  BY <1>1, <1>3, <1>4
<1>8. \/ /\ seq'[s] = seq[s] + 1
         /\ \/ down' = Append(down, good)
            \/ down' = Append(down, bad)
            \/ down' = Append(Append(down, good), good)
            \/ down' = down
      \/ seq'[s] = 1 /\ down' = Append(down, restart)
  BY <1>1, <1>3, <1>4, <1>6
<1>9. \E ok \in BOOLEAN :
         LET f == Delta(s, seq'[s], sent[s] + 1, ok)
         IN  \/ down' = Append(down, f)
             \/ down' = Append(Append(down, f), f)
             \/ down' = down
  <2>1. CASE down' = Append(down, bad) /\ seq'[s] = seq[s] + 1
    <3>1. bad = Delta(s, seq'[s], sent[s] + 1, FALSE) BY <2>1, Zenon DEF bad
    <3> QED BY <2>1, <3>1, Zenon
  <2>2. CASE /\ seq'[s] = seq[s] + 1
             /\ \/ down' = Append(down, good)
                \/ down' = Append(Append(down, good), good)
                \/ down' = down
    <3>0. seq'[s] = seq[s] + 1 BY <2>2, Zenon
    <3>1. good = Delta(s, seq'[s], sent[s] + 1, TRUE) BY <3>0, Zenon DEF good
    <3> QED BY <2>2, <3>1, Zenon
  <2>3. CASE seq'[s] = 1 /\ down' = Append(down, restart)
    <3>1. restart = Delta(s, seq'[s], sent[s] + 1, TRUE) BY <2>3, Zenon DEF restart
    <3> QED BY <2>3, <3>1, Zenon
  <2> QED BY <1>8, <2>1, <2>2, <2>3, Zenon
<1>10. spent' \in Nat BY <1>1, <1>3
<1> QED BY <1>1, <1>2, <1>7, <1>9, <1>10, Zenon

\* The acknowledgement and the snapshot of an accepted subscription.
LEMMA AcceptSends ==
    ASSUME TypeOK, AcceptSubscribe
    PROVE  LET s == nextSid
               t == Head(up).ticker
           IN  /\ up # <<>> /\ Head(up) \in Commands /\ Head(up).cmd = "subscribe"
               /\ s \in Sids /\ t \in Tickers /\ Head(up).id \in Nat
               /\ active' = [active EXCEPT ![s] = t]
               /\ seq' = [seq EXCEPT ![s] = 1]
               /\ sent' = [sent EXCEPT ![s] = version[t]] /\ version[t] \in Nat
               /\ nextSid' = s + 1
               /\ \E ok \in BOOLEAN :
                     LET snapshot == [type |-> "snapshot", sid |-> s, seq |-> 1, ticker |-> t,
                                      ver |-> version[t], ok |-> ok]
                     IN  /\ snapshot \in Frames
                         /\ down' = Append(Append(down, Reply("subscribed", Head(up).id, s)), snapshot)
               /\ spent' \in Nat /\ up' = Tail(up)
               /\ UNCHANGED <<version, connected, msgId>>
<1> DEFINE s == nextSid
           t == Head(up).ticker
           snapshot(ok) == [type |-> "snapshot", sid |-> s, seq |-> 1, ticker |-> t,
                            ver |-> version[t], ok |-> ok]
           ack == Reply("subscribed", Head(up).id, s)
<1>1. up # <<>> /\ Head(up) \in Commands /\ Head(up).cmd = "subscribe" /\ s \in Sids
  BY FeedAssumption DEF AcceptSubscribe, TypeOK, NetType, ServerType, Sids
<1>2. t \in Tickers /\ Head(up).id \in Nat BY <1>1 DEF Commands
<1>3. version[t] \in Nat BY <1>2 DEF TypeOK, ServerType
<1>4. \A ok \in BOOLEAN : snapshot(ok) \in Frames BY <1>1, <1>2, <1>3 DEF Frames, DataFrames
<1>5. ack \in Frames BY <1>1, <1>2, FramesMade
<1>6. \E ok \in BOOLEAN : down' = down \o <<ack, snapshot(ok)>>
  BY Zenon DEF AcceptSubscribe
<1>7. spent' \in Nat BY DEF AcceptSubscribe, Fault, TypeOK, NetType
<1>8. /\ active' = [active EXCEPT ![s] = t] /\ seq' = [seq EXCEPT ![s] = 1]
      /\ sent' = [sent EXCEPT ![s] = version[t]] /\ nextSid' = s + 1 /\ up' = Tail(up)
      /\ UNCHANGED <<version, connected, msgId>>
  BY DEF AcceptSubscribe
<1>9. down \in Seq(Frames) BY DEF TypeOK, NetType
<1>10. \E ok \in BOOLEAN : /\ snapshot(ok) \in Frames
                           /\ down' = Append(Append(down, ack), snapshot(ok))
  <2> HIDE DEF snapshot, ack
  <2> QED BY <1>4, <1>5, <1>6, <1>9
<1> HIDE DEF snapshot, ack
<1>11. /\ up # <<>> /\ Head(up) \in Commands /\ Head(up).cmd = "subscribe"
       /\ s \in Sids /\ t \in Tickers /\ Head(up).id \in Nat
       /\ active' = [active EXCEPT ![s] = t]
       /\ seq' = [seq EXCEPT ![s] = 1]
       /\ sent' = [sent EXCEPT ![s] = version[t]] /\ version[t] \in Nat
       /\ nextSid' = s + 1
       /\ spent' \in Nat /\ up' = Tail(up)
       /\ UNCHANGED <<version, connected, msgId>>
  BY <1>1, <1>2, <1>3, <1>7, <1>8
<1> QED BY <1>10, <1>11, Zenon DEF snapshot, ack

\* Types, through the steps of the server and the network.
LEMMA EnvironmentType == TypeOK /\ Environment => TypeOK'
<1> SUFFICES ASSUME TypeOK, Environment PROVE ServerType' /\ NetType'
  BY EnvironmentKeeps, TypesKept DEF TypeOK
<1>0. /\ ServerType /\ NetType /\ msgId \in Nat /\ spent \in Nat
      /\ up \in Seq(Commands) /\ down \in Seq(Frames)
  BY DEF TypeOK, NetType
<1>1. ASSUME NEW t \in Tickers, Change(t) PROVE ServerType' /\ NetType'
  <2>1. version' \in [Tickers -> Nat] BY <1>0, <1>1 DEF Change, ServerType
  <2>2. UNCHANGED <<active, seq, sent, nextSid, up, down, connected, msgId, spent>>
    BY <1>1 DEF Change
  <2> QED BY <1>0, <2>1, <2>2 DEF ServerType, NetType
<1>2. ASSUME NEW s \in Sids, Emit(s) PROVE ServerType' /\ NetType'
  <2> DEFINE f(ok) == Delta(s, seq'[s], sent[s] + 1, ok)
  <2>1. /\ active[s] \in Tickers /\ seq[s] \in Nat /\ sent[s] \in Nat
        /\ sent' = [sent EXCEPT ![s] = sent[s] + 1]
        /\ \/ seq' = [seq EXCEPT ![s] = seq[s] + 1]
           \/ seq' = [seq EXCEPT ![s] = 1]
        /\ spent' \in Nat
        /\ UNCHANGED <<version, active, nextSid, up, connected, msgId>>
    BY <1>2, EmitSends, Zenon
  <2>1a. /\ seq[s] \in Nat /\ sent[s] \in Nat /\ sent' = [sent EXCEPT ![s] = sent[s] + 1]
         /\ \/ seq' = [seq EXCEPT ![s] = seq[s] + 1]
            \/ seq' = [seq EXCEPT ![s] = 1]
    BY <2>1
  <2>2. PICK ok \in BOOLEAN : down' = Append(down, f(ok))
                              \/ down' = Append(Append(down, f(ok)), f(ok)) \/ down' = down
    BY <1>2, EmitSends, Zenon
  <2>3. seq' \in [Sids -> Nat] /\ sent' \in [Sids -> Nat] 
    <3>1. seq \in [Sids -> Nat] /\ sent \in [Sids -> Nat] BY <1>0 DEF ServerType
    <3> QED BY <2>1a, <3>1
  <2>4. active[s] # Nobody BY <1>2 DEF Emit
  <2> DEFINE g == f(ok)
  <2>5. g \in Frames
    <3>1. seq'[s] \in Nat /\ sent[s] + 1 \in Nat BY <2>1, <2>3
    <3> QED BY <3>1, <2>4, FramesMade, Zenon
  <2> HIDE DEF g, f
  <2>6. down' \in Seq(Frames)
    <3>1. down' = Append(down, g) \/ down' = Append(Append(down, g), g) \/ down' = down
      BY <2>2, Zenon DEF g
    <3>2. down \in Seq(Frames) BY <1>0
    <3>3. Append(down, g) \in Seq(Frames) BY <2>5, <3>2
    <3>4. Append(Append(down, g), g) \in Seq(Frames) BY <2>5, <3>3
    <3> QED BY <3>1, <3>2, <3>3, <3>4, Zenon
  <2> QED BY <1>0, <2>1, <2>3, <2>6 DEF ServerType, NetType
<1>3. ASSUME NEW s \in Sids, Redeliver(s) PROVE ServerType' /\ NetType'
  <2>1. seq[s] - 1 \in Nat /\ sent[s] - 1 \in Nat /\ active[s] # Nobody
    BY <1>0, <1>3 DEF Redeliver, ServerType
  <2> DEFINE f == Delta(s, seq[s] - 1, sent[s] - 1, TRUE)
  <2>2. f \in Frames BY <2>1, FramesMade, Zenon
  <2>3. down' = Append(down, f) /\ spent' = spent + 1 /\ UNCHANGED <<server, up, connected, msgId>>
    BY <1>3 DEF Redeliver, Fault
  <2> HIDE DEF f
  <2> QED BY <1>0, <2>2, <2>3, TypesKept DEF NetType
<1>4. ASSUME NEW s \in Sids, Reap(s) PROVE ServerType' /\ NetType'
  <2>1. Reply("unsubscribed", 0, s) \in Frames BY FramesMade
  <2>2. /\ down' = Append(down, Reply("unsubscribed", 0, s))
        /\ active' = [active EXCEPT ![s] = Nobody] /\ spent' = spent + 1
        /\ UNCHANGED <<version, seq, sent, nextSid, up, connected, msgId>>
    BY <1>4 DEF Reap, Fault
  <2>3. active' \in [Sids -> Tickers \cup {Nobody}] BY <1>0, <2>2 DEF ServerType
  <2> QED BY <1>0, <2>1, <2>2, <2>3 DEF ServerType, NetType
<1>5. CASE AcceptSubscribe
  <2> DEFINE s == nextSid
             t == Head(up).ticker
             ack == Reply("subscribed", Head(up).id, s)
  <2>1. /\ up # <<>> /\ s \in Sids /\ t \in Tickers /\ Head(up).id \in Nat
        /\ active' = [active EXCEPT ![s] = t] /\ seq' = [seq EXCEPT ![s] = 1]
        /\ sent' = [sent EXCEPT ![s] = version[t]] /\ version[t] \in Nat
        /\ nextSid' = s + 1 /\ spent' \in Nat /\ up' = Tail(up)
        /\ UNCHANGED <<version, connected, msgId>>
    BY <1>5, AcceptSends, Zenon
  <2>2. PICK snapshot \in Frames : down' = Append(Append(down, ack), snapshot)
    BY <1>5, AcceptSends, Zenon
  <2>3. ack \in Frames BY <2>1, FramesMade
  <2> HIDE DEF ack
  <2>4. down' \in Seq(Frames) BY <1>0, <2>2, <2>3
  <2>5. up' \in Seq(Commands) BY <1>0, <2>1
  <2>6. active' \in [Sids -> Tickers \cup {Nobody}] /\ seq' \in [Sids -> Nat]
        /\ sent' \in [Sids -> Nat]
    BY <1>0, <2>1 DEF ServerType
  <2>7. nextSid' \in 1..(MaxSid + 1) BY <2>1, FeedAssumption DEF Sids
  <2> QED BY <1>0, <2>1, <2>4, <2>5, <2>6, <2>7 DEF ServerType, NetType
<1>6. CASE RejectSubscribe
  <2>1. Head(up) \in Commands /\ up # <<>> BY <1>0, <1>6 DEF RejectSubscribe
  <2>2. Reply("error", Head(up).id, NoSid) \in Frames
    BY <2>1, FramesMade, FeedAssumption DEF Commands, NoSid
  <2>3. /\ down' = Append(down, Reply("error", Head(up).id, NoSid)) /\ up' = Tail(up)
        /\ spent' = spent + 1 /\ UNCHANGED <<server, connected, msgId>>
    BY <1>6 DEF RejectSubscribe, Fault
  <2>4. down' \in Seq(Frames) /\ up' \in Seq(Commands) BY <1>0, <2>1, <2>2, <2>3
  <2> QED BY <1>0, <2>3, <2>4, TypesKept DEF NetType
<1>7. CASE AnswerUnsubscribe
  <2> DEFINE s == Head(up).sid
  <2>1. up # <<>> /\ Head(up) \in Commands /\ Head(up).cmd = "unsubscribe"
    BY <1>0, <1>7 DEF AnswerUnsubscribe
  <2>2. s \in Sids /\ Head(up).id \in Nat BY <2>1 DEF Commands
  <2>3. PICK t \in {"error", "unsubscribed"} : down' = Append(down, Reply(t, Head(up).id, s))
    BY <1>7, Zenon DEF AnswerUnsubscribe
  <2>4. Reply(t, Head(up).id, s) \in Frames BY <2>2, FramesMade DEF Sids
  <2>5. /\ active' = [active EXCEPT ![s] = Nobody] /\ up' = Tail(up)
        /\ UNCHANGED <<version, seq, sent, nextSid, connected, msgId, spent>>
    BY <1>7 DEF AnswerUnsubscribe
  <2>6. down' \in Seq(Frames) /\ up' \in Seq(Commands) BY <1>0, <2>1, <2>3, <2>4, <2>5
  <2>7. active' \in [Sids -> Tickers \cup {Nobody}] BY <1>0, <2>2, <2>5 DEF ServerType
  <2> QED BY <1>0, <2>5, <2>6, <2>7 DEF ServerType, NetType
<1>8. CASE Drop
  <2>1. PICK k \in 0..Len(down) : down' = SubSeq(down, 1, k) BY <1>8 DEF Drop
  <2>2. down' \in Seq(Frames) BY <1>0, <2>1
  <2>3. active' \in [Sids -> Tickers \cup {Nobody}] BY <1>8 DEF Drop
  <2>4. up' = <<>> /\ connected' = FALSE /\ spent' = spent + 1
        /\ UNCHANGED <<version, seq, sent, nextSid, msgId>>
    BY <1>8 DEF Drop, Fault
  <2>5. up' \in Seq(Commands) /\ spent' \in Nat /\ connected' \in BOOLEAN 
    <3>1. up' \in Seq(Commands) BY <2>4
    <3>2. spent' \in Nat BY <1>0, <2>4
    <3>3. connected' \in BOOLEAN BY <2>4
    <3> QED BY <3>1, <3>2, <3>3
  <2> QED BY <1>0, <2>2, <2>3, <2>4, <2>5 DEF ServerType, NetType
<1> QED BY <1>1, <1>2, <1>3, <1>4, <1>5, <1>6, <1>7, <1>8 DEF Environment

\* The records a call is made of.
Calls == [client : Clients \cup {Nobody}, id : Nat, replay : BOOLEAN]

\* Types, through the handling of one frame.
LEMMA ProcessType ==
    ASSUME TypeOK, NEW f \in Frames, NEW r \in BOOLEAN, Process(f, r)
    PROVE  /\ up' \in Seq(Commands) /\ msgId' \in Nat
           /\ SubsType' /\ LocalType'
           /\ pc' \in Awaiting \cup {"recv", "crashed", "dead"} /\ call' \in Calls
<1>0. /\ up \in Seq(Commands) /\ msgId \in Nat /\ SubsType /\ LocalType
      /\ pc \in Awaiting \cup {"recv", "crashed", "dead"} /\ call \in Calls
  BY DEF TypeOK, NetType, ControlType, Calls
<1>1. CASE Ignore(f)
  <2>1. UNCHANGED <<up, msgId>> /\ UNCHANGED subs /\ UNCHANGED <<local, orphans>>
        /\ UNCHANGED <<pc, call>>
    BY <1>1 DEF Ignore, Idle
  <2> QED BY <1>0, <2>1, TypesKept
<1>2. CASE Apply(f)
  <2>1. /\ clientOf[f.sid] # Nobody /\ Data(f)
        /\ watermark' = [watermark EXCEPT ![f.sid] = f.seq]
        /\ book' = [book EXCEPT ![f.ticker] = Fold(@, f)]
        /\ view' = [view EXCEPT ![clientOf[f.sid]] =
                        IF outcome[clientOf[f.sid]] = "open" THEN Fold(@, f) ELSE @]
        /\ UNCHANGED orphans
    BY <1>2 DEF Apply, Routed, Data
  <2>2. UNCHANGED <<up, msgId>> /\ UNCHANGED subs /\ UNCHANGED <<pc, call>>
    BY <1>2 DEF Apply, Idle
  <2>3. f.sid \in Sids /\ f.seq \in Nat /\ f.ticker \in Tickers
    BY <2>1, FrameKinds DEF Data
  <2>4. clientOf[f.sid] \in Clients BY <1>0, <2>1, <2>3 DEF SubsType
  <2>5. Fold(book[f.ticker], f) \in Books /\ Fold(view[clientOf[f.sid]], f) \in Books
    BY <1>0, <2>1, <2>3, <2>4, FoldType DEF LocalType
  <2>6. LocalType' BY <1>0, <2>1, <2>3, <2>4, <2>5 DEF LocalType
  <2> QED BY <1>0, <2>2, <2>6, TypesKept
<1>3. CASE Gap(f, r)
  <2>1. /\ clientOf[f.sid] # Nobody /\ Data(f)
        /\ watermark' = [watermark EXCEPT ![f.sid] = 0]
        /\ book' = BooksWithout(f.sid) /\ UNCHANGED <<view, orphans>>
    BY <1>3 DEF Gap, Routed, Data
  <2>2. /\ Send(UnsubscribeCommand(f.sid)) /\ UNCHANGED subs /\ pc' = "unsub"
        /\ call' = [client |-> clientOf[f.sid], id |-> msgId, replay |-> r]
    BY <1>3 DEF Gap
  <2>3. f.sid \in Sids /\ f.sid \in Nat BY <2>1, FrameKinds DEF Data, Sids
  <2>4. clientOf[f.sid] \in Clients BY <1>0, <2>1, <2>3 DEF SubsType
  <2>5. UnsubscribeCommand(f.sid) \in Commands BY <2>3, CommandsMade
  <2>6. up' \in Seq(Commands) /\ msgId' \in Nat BY <2>2, <2>5, SendType
  <2>7. call' \in Calls BY <1>0, <2>2, <2>4 DEF Calls
  <2>8. LocalType' BY <1>0, <2>1, <2>3, BooksWithoutType DEF LocalType
  <2>9. SubsType' BY <1>0, <2>2, TypesKept
  <2> QED BY <2>2, <2>6, <2>7, <2>8, <2>9 DEF Awaiting
<1>4. CASE Unsubscribed(f)
  <2>1. f.sid \in Sids /\ f.sid \in Nat BY <1>4, FrameKinds DEF Unsubscribed, Sids
  <2>2. UNCHANGED <<up, msgId>> /\ UNCHANGED <<pc, call>>
    BY <1>4 DEF Unsubscribed, Idle
  <2>3. CASE UNCHANGED <<local, subs>> /\ orphans' = orphans \ {f.sid}
    <3>1. LocalType' BY <1>0, <2>3 DEF LocalType, local
    <3> QED BY <1>0, <2>2, <2>3, <3>1, TypesKept
  <2>4. CASE /\ clientOf' = [clientOf EXCEPT ![f.sid] = Nobody]
             /\ watermark' = [watermark EXCEPT ![f.sid] = 0]
             /\ book' = BooksWithout(f.sid)
             /\ registered' = registered \ {clientOf[f.sid]}
             /\ outcome' = [c \in Clients |->
                               IF c = clientOf[f.sid] THEN "stopped" ELSE outcome[c]]
             /\ UNCHANGED <<sidOf, view, orphans>>
    <3>1. LocalType' BY <1>0, <2>1, <2>4, BooksWithoutType DEF LocalType
    <3>2. SubsType'  BY <1>0, <2>1, <2>4 DEF SubsType, Outcomes
    <3> QED BY <1>0, <2>2, <3>1, <3>2
  <2> QED BY <1>4, <2>3, <2>4 DEF Unsubscribed
<1>5. CASE OrphanSubscribed(f)
  <2>1. f.sid \in Sids BY <1>5, FrameKinds DEF OrphanSubscribed
  <2>2. UNCHANGED local /\ UNCHANGED subs /\ UNCHANGED <<pc, call>>
    BY <1>5 DEF OrphanSubscribed
  <2>3. \/ UNCHANGED <<up, msgId, orphans>>
        \/ orphans' = orphans \cup {f.sid} /\ Send(UnsubscribeCommand(f.sid))
    BY <1>5 DEF OrphanSubscribed, Idle
  <2>4. up' \in Seq(Commands) /\ msgId' \in Nat
    BY <1>0, <2>1, <2>3, SendType, CommandsMade
  <2>5. LocalType' BY <1>0, <2>1, <2>2, <2>3 DEF LocalType, local
  <2> QED BY <1>0, <2>2, <2>4, <2>5, TypesKept
<1> QED BY <1>1, <1>2, <1>3, <1>4, <1>5 DEF Process

\* What the end of a wait does to the frames.
LEMMA WaitEnds ==
    ASSUME TypeOK
    PROVE  /\ \A types : Answered(types) =>
                  /\ down # <<>> /\ Head(down) \in Frames /\ Answers(Head(down))
                  /\ Head(down).type \in types
                  /\ down' = Tail(down) /\ down' \in Seq(Frames)
                  /\ spent' \in Nat
           /\ Answered({"subscribed"}) => Head(down).sid \in Sids
           /\ TimedOut \/ Lost => down' = down /\ down' \in Seq(Frames) /\ spent' \in Nat
<1>1. down \in Seq(Frames) /\ spent \in Nat BY DEF TypeOK, NetType
<1>2. ASSUME NEW types, Answered(types)
      PROVE  /\ down # <<>> /\ Head(down) \in Frames /\ Answers(Head(down))
             /\ Head(down).type \in types
             /\ down' = Tail(down) /\ down' \in Seq(Frames)
             /\ spent' \in Nat
  <2>1. /\ down # <<>> /\ Answers(Head(down)) /\ Head(down).type \in types
        /\ down' = Tail(down) /\ spent' = spent
    BY <1>2 DEF Answered
  <2> QED BY <1>1, <2>1
<1>3. Answered({"subscribed"}) => Head(down).sid \in Sids
  <2> SUFFICES ASSUME Answered({"subscribed"}) PROVE Head(down).sid \in Sids OBVIOUS
  <2>1. Head(down) \in Frames /\ Head(down).type = "subscribed" BY <1>2
  <2> QED BY <2>1, FrameKinds
<1>4. TimedOut \/ Lost => down' = down /\ down' \in Seq(Frames) /\ spent' \in Nat
  <2>1. TimedOut => down' = down /\ spent' = spent + 1 BY DEF TimedOut, Fault
  <2>2. Lost => down' = down /\ spent' = spent BY DEF Lost
  <2> QED BY <1>1, <2>1, <2>2
<1> QED BY <1>2, <1>3, <1>4

\* Types, through the registration of a subscription ...
LEMMA RegisterType ==
    ASSUME SubsType, NEW c \in Clients, NEW s \in Sids, Register(c, s),
           outcome' \in {outcome, [outcome EXCEPT ![c] = "open"]}
    PROVE  SubsType'
BY DEF SubsType, Register, Sids, Outcomes

\* ... and through its removal.
LEMMA RemoveType ==
    ASSUME SubsType, NEW c \in Clients, NEW how \in {"stopped", "raised"}, Remove(c, how)
    PROVE  SubsType'
BY DEF SubsType, Remove, Told, Outcomes

\* Types, through the frames read, replayed and overheard.
LEMMA ReadingType ==
    ASSUME TypeOK, Read \/ Replay \/ Overhear
    PROVE  TypeOK'
<1>0. /\ ServerType /\ NetType /\ SubsType /\ LocalType /\ ControlType
      /\ down \in Seq(Frames) /\ stash \in Seq(Stashable) /\ drain \in Seq(Stashable)
      /\ spent \in Nat /\ connected \in BOOLEAN /\ todo \subseteq Clients
  BY DEF TypeOK, NetType, ControlType
<1>1. CASE Read
  <2>1. down # <<>> /\ down' = Tail(down) /\ Process(Head(down), FALSE)
    BY <1>1 DEF Read
  <2>2. UNCHANGED server /\ UNCHANGED <<connected, todo, stash, drain, spent>>
    BY <1>1 DEF Read
  <2>3. Head(down) \in Frames /\ down' \in Seq(Frames) BY <1>0, <2>1
  <2>4. /\ up' \in Seq(Commands) /\ msgId' \in Nat /\ SubsType' /\ LocalType'
        /\ pc' \in Awaiting \cup {"recv", "crashed", "dead"} /\ call' \in Calls
    <3>1. FALSE \in BOOLEAN OBVIOUS
    <3> QED BY <2>1, <2>3, <3>1, ProcessType, Zenon
  <2>5. ServerType' BY <1>0, <2>2, TypesKept
  <2>6. NetType' BY <1>0, <2>2, <2>3, <2>4 DEF NetType
  <2>7. ControlType' BY <1>0, <2>2, <2>4 DEF ControlType, Calls
  <2> QED BY <2>4, <2>5, <2>6, <2>7 DEF TypeOK
<1>2. CASE Replay
  <2>1. drain # <<>> /\ drain' = Tail(drain) BY <1>2 DEF Replay
  <2>2. UNCHANGED server /\ UNCHANGED <<down, connected, todo, stash, spent>>
    BY <1>2 DEF Replay
  <2>3. Head(drain) \in Stashable /\ drain' \in Seq(Stashable) BY <1>0, <2>1
  <2>4. Head(drain) \in Frames BY <2>3, StashableKinds
  <2>5. /\ up' \in Seq(Commands) /\ msgId' \in Nat /\ SubsType' /\ LocalType'
        /\ pc' \in Awaiting \cup {"recv", "crashed", "dead"} /\ call' \in Calls
    <3>1. CASE Process(Head(drain), TRUE)
      <4>1. TRUE \in BOOLEAN OBVIOUS
      <4> QED BY <2>4, <3>1, <4>1, ProcessType, Zenon
    <3>2. CASE Idle /\ UNCHANGED <<local, subs, orphans, pc, call>>
      <4>1. UNCHANGED <<up, msgId>> /\ UNCHANGED <<local, orphans>> /\ UNCHANGED subs
            /\ UNCHANGED <<pc, call>>
        BY <3>2 DEF Idle
      <4> QED BY <1>0, <4>1, TypesKept DEF NetType, ControlType, Calls
    <3> QED BY <1>2, <3>1, <3>2, Zenon DEF Replay
  <2>6. ServerType' BY <1>0, <2>2, TypesKept
  <2>7. NetType' BY <1>0, <2>2, <2>5 DEF NetType
  <2>8. ControlType' BY <1>0, <2>2, <2>3, <2>5 DEF ControlType, Calls
  <2> QED BY <2>5, <2>6, <2>7, <2>8 DEF TypeOK
<1>3. CASE Overhear
  <2>1. down # <<>> /\ down' = Tail(down) BY <1>3 DEF Overhear
  <2>2. UNCHANGED server /\ UNCHANGED <<up, connected, msgId, spent>> /\ UNCHANGED subs
        /\ UNCHANGED <<local, orphans>> /\ UNCHANGED <<pc, call, todo, drain>>
    BY <1>3 DEF Overhear
  <2>3. Head(down) \in Frames /\ down' \in Seq(Frames) BY <1>0, <2>1
  <2>4. stash' \in Seq(Stashable)
    <3>1. CASE stash' = stash BY <1>0, <3>1
    <3>2. CASE /\ Head(down).type \in {"snapshot", "delta", "unsubscribed"}
               /\ stash' = Stashed(Head(down))
      <4>1. Head(down) \in Stashable BY <2>3, <3>2, FrameKinds
      <4> QED BY <1>0, <3>2, <4>1, StashedSeq
    <3> QED BY <1>3, <3>1, <3>2, Zenon DEF Overhear
  <2>5. NetType' BY <1>0, <2>2, <2>3 DEF NetType
  <2>6. ControlType' BY <1>0, <2>2, <2>4 DEF ControlType
  <2> QED BY <1>0, <2>2, <2>5, <2>6, TypesKept DEF TypeOK
<1> QED BY <1>1, <1>2, <1>3

\* Types, through the commands the client sends.
LEMMA AskingType ==
    ASSUME TypeOK, Waiting,
           \E c \in Clients : Subscribe(c) \/ Unsubscribe(c) \/ ResubscribeNext(c)
    PROVE  TypeOK'
<1>0. /\ ServerType /\ NetType /\ SubsType /\ LocalType /\ ControlType
      /\ msgId \in Nat
  BY DEF TypeOK, NetType
<1>1. \A c \in Clients : [client |-> c, id |-> msgId, replay |-> FALSE] \in Calls
  BY CallTypes, Zenon DEF Calls
<1>2. ASSUME NEW c \in Clients, Subscribe(c) PROVE TypeOK'
  <2>1. Send(SubscribeCommand(c)) BY <1>2 DEF Subscribe
  <2>2. up' \in Seq(Commands) /\ msgId' \in Nat BY <2>1, CommandsMade, SendType
  <2>3. UNCHANGED server /\ UNCHANGED subs /\ UNCHANGED <<local, orphans>>
        /\ UNCHANGED <<todo, stash, drain>> /\ UNCHANGED <<down, connected, spent>>
        /\ pc' = "subscribe" /\ call' = [client |-> c, id |-> msgId, replay |-> FALSE]
    BY <1>2 DEF Subscribe
  <2>4. NetType' BY <1>0, <2>2, <2>3 DEF NetType
  <2>5. ControlType'
    <3>1. call' \in Calls BY <1>1, <2>3, Zenon
    <3> QED BY <1>0, <2>3, <3>1 DEF ControlType, Awaiting, Calls
  <2> QED BY <1>0, <2>3, <2>4, <2>5, TypesKept DEF TypeOK
<1>3. ASSUME NEW c \in Clients, Unsubscribe(c) PROVE TypeOK'
  <2>1. Send(UnsubscribeCommand(sidOf[c])) /\ sidOf[c] # NoSid BY <1>3 DEF Unsubscribe
  <2>2. sidOf[c] \in Sids /\ sidOf[c] \in Nat BY <1>0, <2>1 DEF SubsType, Sids, NoSid
  <2>3. up' \in Seq(Commands) /\ msgId' \in Nat BY <2>1, <2>2, CommandsMade, SendType
  <2>4. UNCHANGED server /\ UNCHANGED subs /\ UNCHANGED <<view, orphans>>
        /\ UNCHANGED <<todo, stash, drain>> /\ UNCHANGED <<down, connected, spent>>
        /\ pc' = "leave" /\ call' = [client |-> c, id |-> msgId, replay |-> FALSE]
        /\ book' = BooksWithout(sidOf[c])
        /\ watermark' = [watermark EXCEPT ![sidOf[c]] = 0]
    BY <1>3 DEF Unsubscribe
  <2>5. NetType' BY <1>0, <2>3, <2>4 DEF NetType
  <2>6. ControlType'
    <3>1. call' \in Calls BY <1>1, <2>4, Zenon
    <3> QED BY <1>0, <2>4, <3>1 DEF ControlType, Awaiting, Calls
  <2>7. LocalType' BY <1>0, <2>2, <2>4, BooksWithoutType DEF LocalType
  <2> QED BY <1>0, <2>4, <2>5, <2>6, <2>7, TypesKept DEF TypeOK
<1>4. ASSUME NEW c \in Clients, ResubscribeNext(c) PROVE TypeOK'
  <2>1. Send(SubscribeCommand(c)) BY <1>4 DEF ResubscribeNext
  <2>2. up' \in Seq(Commands) /\ msgId' \in Nat BY <2>1, CommandsMade, SendType
  <2>3. UNCHANGED server /\ UNCHANGED <<registered, clientOf, outcome>> /\ UNCHANGED <<local, orphans>>
        /\ UNCHANGED <<pc, todo, stash, drain>> /\ UNCHANGED <<down, connected, spent>>
        /\ call' = [client |-> c, id |-> msgId, replay |-> FALSE]
        /\ sidOf' = [sidOf EXCEPT ![c] = NoSid]
    BY <1>4 DEF ResubscribeNext
  <2>4. NetType' BY <1>0, <2>2, <2>3 DEF NetType
  <2>5. ControlType'
    <3>1. call' \in Calls BY <1>1, <2>3, Zenon
    <3> QED BY <1>0, <2>3, <3>1 DEF ControlType, Calls
  <2>6. SubsType' BY <1>0, <2>3, FeedAssumption DEF SubsType, NoSid
  <2> QED BY <1>0, <2>3, <2>4, <2>5, <2>6, TypesKept DEF TypeOK
<1> QED BY <1>2, <1>3, <1>4

\* Types, through the ends of subscribe and unsubscribe.
LEMMA UserDoneType ==
    ASSUME TypeOK, Waiting, SubscribeDone \/ UnsubscribeDone
    PROVE  TypeOK'
<1>0. /\ ServerType /\ NetType /\ SubsType /\ LocalType /\ ControlType
      /\ NoCall \in Calls
  BY CallTypes DEF TypeOK, Calls
<1>1. CASE SubscribeDone
  <2>1. call.client \in Clients BY <1>1, CallTypes DEF SubscribeDone
  <2>2. UNCHANGED server /\ UNCHANGED <<up, msgId, connected>> /\ UNCHANGED <<local, orphans>>
        /\ UNCHANGED <<todo, stash, drain>> /\ pc' = "recv" /\ call' = NoCall
    BY <1>1 DEF SubscribeDone, Idle
  <2>3. \/ /\ Answered({"subscribed"}) /\ Register(call.client, Head(down).sid)
           /\ outcome' = [outcome EXCEPT ![call.client] = "open"]
        \/ /\ Answered({"error"}) \/ TimedOut \/ Lost
           /\ outcome' = [outcome EXCEPT ![call.client] = "refused"]
           /\ UNCHANGED <<registered, sidOf, clientOf>>
    BY <1>1 DEF SubscribeDone
  <2>4. down' \in Seq(Frames) /\ spent' \in Nat BY <2>3, WaitEnds
  <2>5. SubsType'
    <3>1. CASE /\ Answered({"subscribed"}) /\ Register(call.client, Head(down).sid)
               /\ outcome' = [outcome EXCEPT ![call.client] = "open"]
      BY <1>0, <2>1, <3>1, WaitEnds, RegisterType
    <3>2. CASE /\ outcome' = [outcome EXCEPT ![call.client] = "refused"]
               /\ UNCHANGED <<registered, sidOf, clientOf>>
      BY <1>0, <2>1, <3>2 DEF SubsType, Outcomes
    <3> QED BY <2>3, <3>1, <3>2
  <2>6. NetType' BY <1>0, <2>2, <2>4 DEF NetType
  <2>7. ControlType' BY <1>0, <2>2 DEF ControlType, Calls
  <2> QED BY <1>0, <2>2, <2>5, <2>6, <2>7, TypesKept DEF TypeOK
<1>2. CASE UnsubscribeDone
  <2>1. call.client \in Clients /\ sidOf[call.client] \in Sids
    BY <1>2, CallTypes DEF UnsubscribeDone, Waiting
  <2>2. UNCHANGED server /\ UNCHANGED <<up, msgId, connected>> /\ UNCHANGED <<local, orphans>>
        /\ UNCHANGED <<todo, stash, drain>> /\ pc' = "recv" /\ call' = NoCall
    BY <1>2 DEF UnsubscribeDone, Idle
  <2>3. \/ /\ Answered({"unsubscribed", "error"})
           /\ clientOf' = [clientOf EXCEPT ![sidOf[call.client]] = Nobody]
           /\ registered' = registered \ {call.client}
           /\ outcome' = [outcome EXCEPT ![call.client] = "stopped"]
           /\ UNCHANGED sidOf
        \/ (TimedOut \/ Lost) /\ UNCHANGED subs
    BY <1>2 DEF UnsubscribeDone
  <2>4. down' \in Seq(Frames) /\ spent' \in Nat BY <2>3, WaitEnds
  <2>5. SubsType'
    <3>1. CASE UNCHANGED subs BY <1>0, <3>1, TypesKept
    <3>2. CASE /\ clientOf' = [clientOf EXCEPT ![sidOf[call.client]] = Nobody]
               /\ registered' = registered \ {call.client}
               /\ outcome' = [outcome EXCEPT ![call.client] = "stopped"]
               /\ UNCHANGED sidOf
      BY <1>0, <2>1, <3>2 DEF SubsType, Outcomes
    <3> QED BY <2>3, <3>1, <3>2
  <2>6. NetType' BY <1>0, <2>2, <2>4 DEF NetType
  <2>7. ControlType' BY <1>0, <2>2 DEF ControlType, Calls
  <2> QED BY <1>0, <2>2, <2>5, <2>6, <2>7, TypesKept DEF TypeOK
<1> QED BY <1>1, <1>2

\* Types, through the recovery of a gap.
LEMMA RecoveryType ==
    ASSUME TypeOK, Waiting, Unsubscribing \/ Resubscribed \/ ResubscribeRefused \/ GapLost
    PROVE  TypeOK'
<1>0. /\ ServerType /\ NetType /\ SubsType /\ LocalType /\ ControlType
      /\ NoCall \in Calls /\ call \in Calls /\ msgId \in Nat
      /\ stash \in Seq(Stashable) /\ drain \in Seq(Stashable)
  BY CallTypes DEF TypeOK, Calls, NetType, ControlType
<1>1. CASE Unsubscribing
  <2>1. call.client \in Clients /\ sidOf[call.client] \in Sids
    BY <1>1, CallTypes DEF Unsubscribing, Waiting
  <2>2. UNCHANGED server /\ UNCHANGED connected /\ UNCHANGED <<local, orphans>>
        /\ UNCHANGED <<todo, stash, drain>> /\ pc' = "resub"
        /\ call' = [call EXCEPT !.id = msgId] /\ Send(SubscribeCommand(call.client))
        /\ (Answered({"unsubscribed", "error"}) \/ TimedOut)
    BY <1>1 DEF Unsubscribing
  <2>3. down' \in Seq(Frames) /\ spent' \in Nat BY <2>2, WaitEnds
  <2>4. up' \in Seq(Commands) /\ msgId' \in Nat BY <2>1, <2>2, CommandsMade, SendType
  <2>5. SubsType'
    <3>1. /\ clientOf' = [clientOf EXCEPT ![sidOf[call.client]] = Nobody]
          /\ sidOf' = [sidOf EXCEPT ![call.client] = NoSid]
          /\ UNCHANGED <<registered, outcome>>
      BY <1>1 DEF Unsubscribing
    <3> QED BY <1>0, <2>1, <3>1, FeedAssumption DEF SubsType, NoSid
  <2>6. NetType' BY <1>0, <2>2, <2>3, <2>4 DEF NetType
  <2>7. call' \in Calls BY <1>0, <2>2 DEF Calls
  <2>8. ControlType' BY <1>0, <2>2, <2>7 DEF ControlType, Calls, Awaiting
  <2> QED BY <1>0, <2>2, <2>5, <2>6, <2>8, TypesKept DEF TypeOK
<1>2. CASE Resubscribed
  <2>1. call.client \in Clients BY <1>2, CallTypes DEF Resubscribed
  <2>2. UNCHANGED server /\ UNCHANGED <<up, msgId, connected>> /\ UNCHANGED <<local, orphans>>
        /\ UNCHANGED todo /\ pc' = "recv" /\ call' = NoCall
        /\ stash' = <<>> /\ drain' = stash \o drain
        /\ Answered({"subscribed"}) /\ Register(call.client, Head(down).sid)
        /\ UNCHANGED outcome
    BY <1>2 DEF Resubscribed, Idle, TakeStash
  <2>3. down' \in Seq(Frames) /\ spent' \in Nat /\ Head(down).sid \in Sids
    BY <2>2, WaitEnds
  <2>4. SubsType' BY <1>0, <2>1, <2>2, <2>3, RegisterType
  <2>5. NetType' BY <1>0, <2>2, <2>3 DEF NetType
  <2>6. drain' \in Seq(Stashable) /\ stash' \in Seq(Stashable) BY <1>0, <2>2
  <2>7. ControlType' BY <1>0, <2>2, <2>6 DEF ControlType, Calls
  <2> QED BY <1>0, <2>2, <2>4, <2>5, <2>7, TypesKept DEF TypeOK
<1>3. CASE ResubscribeRefused
  <2>1. call.client \in Clients BY <1>3, CallTypes DEF ResubscribeRefused
  <2>2. UNCHANGED server /\ UNCHANGED <<up, msgId, connected>> /\ UNCHANGED <<local, orphans>>
        /\ UNCHANGED <<todo, stash, drain>> /\ pc' = "recv" /\ call' = NoCall
        /\ (Answered({"error"}) \/ TimedOut) /\ Remove(call.client, "raised")
    BY <1>3 DEF ResubscribeRefused, Idle
  <2>3. down' \in Seq(Frames) /\ spent' \in Nat BY <2>2, WaitEnds
  <2>4. SubsType' BY <1>0, <2>1, <2>2, RemoveType
  <2>5. NetType' BY <1>0, <2>2, <2>3 DEF NetType
  <2>6. ControlType' BY <1>0, <2>2 DEF ControlType, Calls
  <2> QED BY <1>0, <2>2, <2>4, <2>5, <2>6, TypesKept DEF TypeOK
<1>4. CASE GapLost
  <2>1. UNCHANGED server /\ UNCHANGED <<up, msgId, connected>> /\ UNCHANGED <<local, orphans>>
        /\ UNCHANGED <<todo, stash, drain>> /\ call' = NoCall
        /\ Lost /\ UNCHANGED <<registered, sidOf, clientOf>>
        /\ pc' \in {"recv", "crashed"}
        /\ \/ UNCHANGED outcome
           \/ outcome' = [c \in Clients |-> IF c \in registered THEN "halted" ELSE outcome[c]]
    BY <1>4 DEF GapLost, Idle, StopAll
  <2>2. down' \in Seq(Frames) /\ spent' \in Nat BY <2>1, WaitEnds
  <2>3. SubsType' BY <1>0, <2>1 DEF SubsType, Outcomes
  <2>4. NetType' BY <1>0, <2>1, <2>2 DEF NetType
  <2>5. ControlType' BY <1>0, <2>1 DEF ControlType, Calls
  <2> QED BY <1>0, <2>1, <2>3, <2>4, <2>5, TypesKept DEF TypeOK
<1> QED BY <1>1, <1>2, <1>3, <1>4

\* Types, through a reconnect.
LEMMA ReconnectType ==
    ASSUME TypeOK, Waiting,
           Reconnect \/ ReconnectFailed \/ ResubscribedNext \/ ResubscribedAll
    PROVE  TypeOK'
<1>0. /\ ServerType /\ NetType /\ SubsType /\ LocalType /\ ControlType
      /\ NoCall \in Calls /\ call \in Calls /\ NoBook \in Books
      /\ stash \in Seq(Stashable) /\ drain \in Seq(Stashable)
      /\ down \in Seq(Frames) /\ spent \in Nat
  BY CallTypes, BooksWithoutType DEF TypeOK, Calls, NetType, ControlType, SubsType, NoSid
<1>1. CASE Reconnect
  <2>1. UNCHANGED <<version, active, seq, sent>> /\ nextSid' \in {nextSid, 1}
        /\ UNCHANGED <<up, msgId>> /\ connected' = TRUE
        /\ UNCHANGED <<registered, sidOf, outcome>> /\ UNCHANGED <<view, orphans>>
        /\ UNCHANGED <<call, drain>> /\ Lost
    BY <1>1 DEF Reconnect, Idle
  <2>2. /\ watermark' = [s \in Sids |-> 0] /\ book' = [t \in Tickers |-> NoBook]
        /\ clientOf' = [s \in Sids |-> Nobody]
        /\ stash' = <<>> /\ pc' = "reall" /\ todo' = registered
    BY <1>1 DEF Reconnect
  <2>3. down' \in Seq(Frames) /\ spent' \in Nat BY <2>1, WaitEnds
  <2>4. connected' \in BOOLEAN BY <2>1
  <2>5. NetType' BY <1>0, <2>1, <2>3, <2>4 DEF NetType
  <2>6. SubsType' BY <1>0, <2>1, <2>2 DEF SubsType
  <2>7. LocalType' BY <1>0, <2>1, <2>2 DEF LocalType
  <2>8. ControlType' BY <1>0, <2>1, <2>2 DEF ControlType, SubsType, Awaiting
  <2>9. 1 \in 1..(MaxSid + 1) BY FeedAssumption
  <2>10. ServerType' BY <1>0, <2>1, <2>9 DEF ServerType
  <2> QED BY <2>5, <2>6, <2>7, <2>8, <2>10 DEF TypeOK
<1>2. CASE ReconnectFailed
  <2>1. UNCHANGED server /\ UNCHANGED <<up, msgId, down, connected>> /\ spent' = spent + 1
        /\ UNCHANGED <<registered, sidOf, clientOf>> /\ UNCHANGED <<local, orphans>>
        /\ UNCHANGED <<call, todo, stash, drain>> /\ pc' = "dead"
        /\ outcome' = [c \in Clients |-> IF c \in registered THEN "halted" ELSE outcome[c]]
    BY <1>2 DEF ReconnectFailed, Fault, StopAll
  <2>2. spent' \in Nat BY <1>0, <2>1
  <2>3. NetType' BY <1>0, <2>1, <2>2 DEF NetType
  <2>4. SubsType' BY <1>0, <2>1 DEF SubsType, Outcomes
  <2>5. ControlType' BY <1>0, <2>1 DEF ControlType
  <2> QED BY <1>0, <2>1, <2>3, <2>4, <2>5, TypesKept DEF TypeOK
<1>3. CASE ResubscribedNext
  <2>1. call.client \in Clients BY <1>3, CallTypes DEF ResubscribedNext
  <2>2. UNCHANGED server /\ UNCHANGED <<up, msgId, connected>> /\ UNCHANGED <<local, orphans>>
        /\ UNCHANGED <<pc, stash, drain>> /\ call' = NoCall /\ todo' = todo \ {call.client}
    BY <1>3 DEF ResubscribedNext, Idle
  <2>3. \/ /\ Answered({"subscribed"}) /\ Register(call.client, Head(down).sid)
           /\ UNCHANGED outcome
        \/ (Answered({"error"}) \/ TimedOut \/ Lost) /\ Remove(call.client, "stopped")
    BY <1>3 DEF ResubscribedNext
  <2>4. down' \in Seq(Frames) /\ spent' \in Nat BY <2>3, WaitEnds
  <2>5. SubsType' BY <1>0, <2>1, <2>3, WaitEnds, RegisterType, RemoveType
  <2>6. NetType' BY <1>0, <2>2, <2>4 DEF NetType
  <2>7. ControlType' BY <1>0, <2>2 DEF ControlType, Calls
  <2> QED BY <1>0, <2>2, <2>5, <2>6, <2>7, TypesKept DEF TypeOK
<1>4. CASE ResubscribedAll
  <2>1. UNCHANGED server /\ UNCHANGED <<up, down, connected, msgId, spent>>
        /\ UNCHANGED subs /\ UNCHANGED <<local, orphans>> /\ UNCHANGED <<call, todo>>
        /\ pc' = "recv" /\ stash' = <<>> /\ drain' = stash \o drain
    BY <1>4 DEF ResubscribedAll, TakeStash
  <2>2. drain' \in Seq(Stashable) /\ stash' \in Seq(Stashable) BY <1>0, <2>1
  <2>3. ControlType' BY <1>0, <2>1, <2>2 DEF ControlType
  <2> QED BY <1>0, <2>1, <2>3, TypesKept DEF TypeOK
<1> QED BY <1>1, <1>2, <1>3, <1>4

\* Every step keeps the types.
LEMMA NextType == TypeOK /\ Waiting /\ [Next]_vars => TypeOK'
<1> SUFFICES ASSUME TypeOK, Waiting, [Next]_vars PROVE TypeOK' OBVIOUS
<1>1. CASE Environment BY <1>1, EnvironmentType
<1>2. CASE Read \/ Replay \/ Overhear BY <1>2, ReadingType
<1>3. ASSUME NEW c \in Clients, Subscribe(c) \/ Unsubscribe(c) \/ ResubscribeNext(c)
      PROVE  TypeOK'
  BY <1>3, AskingType, Zenon
<1>4. CASE SubscribeDone \/ UnsubscribeDone BY <1>4, UserDoneType
<1>5. CASE Unsubscribing \/ Resubscribed \/ ResubscribeRefused \/ GapLost
  BY <1>5, RecoveryType
<1>6. CASE Reconnect \/ ReconnectFailed \/ ResubscribedNext \/ ResubscribedAll
  BY <1>6, ReconnectType
<1>7. CASE UNCHANGED vars
  <2>1. /\ UNCHANGED server /\ UNCHANGED <<up, down, connected, msgId, spent>>
        /\ UNCHANGED subs /\ UNCHANGED <<local, orphans>> /\ UNCHANGED control
    BY <1>7 DEF vars
  <2> QED BY <2>1, TypesKept DEF TypeOK
<1> QED BY <1>1, <1>2, <1>3, <1>4, <1>5, <1>6, <1>7, Zenon DEF Next, ClientStep

-----------------------------------------------------------------------------
\* What the iterators are told, and what is awaited.
Serving == ToldOrServed /\ Waiting

\* Steps that touch neither keep it.
LEMMA ServingKept == Serving /\ UNCHANGED <<subs, pc, call, todo>> => Serving'
BY DEF Serving, ToldOrServed, Waiting, subs

\* At first every early subscription is served.
LEMMA InitServes == Init => Serving
<1> SUFFICES ASSUME Init PROVE Serving OBVIOUS
<1>1. /\ \A c \in Clients : outcome[c] = (IF c \in Early THEN "open" ELSE "idle")
      /\ registered = Early /\ pc = "recv" /\ call = NoCall
  BY DEF Init
<1>2. \A s \in Sids : clientOf[s] = ClientOn(s) BY DEF Init
<1>3. \A c \in Early : sidOf[c] = FirstSid[c] BY OnFirst DEF Init
<1>4. \A s \in Sids : clientOf[s] # Nobody =>
          clientOf[s] \in registered /\ sidOf[clientOf[s]] = s
  BY <1>1, <1>2, <1>3, OnFirst
<1>5. \A c \in Clients : outcome[c] \in Served <=> c \in registered BY <1>1 DEF Served
<1> QED BY <1>1, <1>4, <1>5 DEF Serving, ToldOrServed, Waiting, Awaiting

\* A subscription that no sid leads to is registered on one.
LEMMA RegisterServes ==
    ASSUME TypeOK, ToldOrServed, pc' \notin {"crashed", "dead"},
           NEW c \in Clients, NEW s \in Sids, \A r \in Sids : clientOf[r] # c,
           Register(c, s),
           \/ outcome' = [outcome EXCEPT ![c] = "open"]
           \/ c \in registered /\ outcome' = outcome
    PROVE  /\ ToldOrServed'
           /\ \A r \in Sids : clientOf'[r] = (IF r = s THEN c ELSE clientOf[r])
<1>1. /\ sidOf \in [Clients -> 0..MaxSid] /\ outcome \in [Clients -> Outcomes]
      /\ clientOf \in [Sids -> Clients \cup {Nobody}]
  BY DEF TypeOK, SubsType
<1>2. /\ \A r \in Sids : clientOf'[r] = (IF r = s THEN c ELSE clientOf[r])
      /\ \A d \in Clients : sidOf'[d] = (IF d = c THEN s ELSE sidOf[d])
      /\ registered' = registered \cup {c}
  BY <1>1 DEF Register
<1>3. \A d \in Clients : outcome'[d] \in Served <=> d \in registered'
  <2>1. \A d \in Clients : outcome[d] \in Served <=> d \in registered BY DEF ToldOrServed
  <2>2. CASE outcome' = [outcome EXCEPT ![c] = "open"]
    <3>1. \A d \in Clients : outcome'[d] = (IF d = c THEN "open" ELSE outcome[d])
      BY <1>1, <2>2
    <3>2. "open" \in Served BY DEF Served
    <3> QED BY <1>2, <2>1, <3>1, <3>2, Zenon
  <2>3. CASE c \in registered /\ outcome' = outcome BY <1>2, <2>1, <2>3
  <2> QED BY <2>2, <2>3
<1>4. ASSUME NEW r \in Sids, clientOf'[r] # Nobody
      PROVE  clientOf'[r] \in registered' /\ sidOf'[clientOf'[r]] = r
  BY <1>1, <1>2, <1>4 DEF ToldOrServed
<1> QED BY <1>2, <1>3, <1>4 DEF ToldOrServed

\* A subscription that no sid leads to is given up, and its iterator told.
LEMMA RemoveServes ==
    ASSUME TypeOK, ToldOrServed, pc' \notin {"crashed", "dead"},
           NEW c \in Clients, NEW how \in {"stopped", "raised", "refused"},
           \A r \in Sids : clientOf'[r] # c,
           \A r \in Sids : clientOf'[r] \in {clientOf[r], Nobody},
           registered' = registered \ {c}, sidOf' = sidOf,
           outcome' = [outcome EXCEPT ![c] = how]
    PROVE  ToldOrServed'
<1>1. /\ outcome \in [Clients -> Outcomes]
      /\ clientOf \in [Sids -> Clients \cup {Nobody}]
  BY DEF TypeOK, SubsType
<1>2. \A d \in Clients : outcome'[d] = (IF d = c THEN how ELSE outcome[d]) BY <1>1
<1>3. \A d \in Clients : outcome'[d] \in Served <=> d \in registered'
  <2>1. \A d \in Clients : outcome[d] \in Served <=> d \in registered BY DEF ToldOrServed
  <2>2. how \notin Served BY DEF Served
  <2> QED BY <1>2, <2>1, <2>2
<1>4. ASSUME NEW r \in Sids, clientOf'[r] # Nobody
      PROVE  clientOf'[r] \in registered' /\ sidOf'[clientOf'[r]] = r
  BY <1>4 DEF ToldOrServed
<1> QED BY <1>3, <1>4 DEF ToldOrServed

\* What an iterator is told by a removal ends it.
LEMMA ToldEnds ==
    ASSUME NEW c \in Clients, NEW how \in {"stopped", "raised"}
    PROVE  Told(c, how) \in {"stopped", "raised", "refused"}
BY DEF Told

\* The handling of one frame.
LEMMA ProcessServes ==
    ASSUME TypeOK, Serving, NEW f \in Frames, NEW r \in BOOLEAN, Process(f, r),
           pc = "recv", todo' = todo
    PROVE  Serving'
<1>0. clientOf \in [Sids -> Clients \cup {Nobody}] /\ ToldOrServed /\ call = NoCall
      /\ Nobody \notin Clients
      /\ registered \subseteq Clients
      /\ outcome \in [Clients -> Outcomes]
  BY FeedAssumption DEF TypeOK, SubsType, Serving, Waiting
<1>1. CASE UNCHANGED <<subs, pc, call>> BY <1>1, ServingKept
<1>2. CASE Gap(f, r)
  <2>1. /\ clientOf[f.sid] # Nobody /\ Data(f) /\ pc' = "unsub"
        /\ call' = [client |-> clientOf[f.sid], id |-> msgId, replay |-> r]
        /\ UNCHANGED <<registered, sidOf, clientOf, outcome>>
    BY <1>2 DEF Gap, Routed, Data, subs
  <2>2. f.sid \in Sids BY <2>1, FrameKinds DEF Data
  <2>3. clientOf[f.sid] \in Clients /\ clientOf[f.sid] \in registered
        /\ sidOf[clientOf[f.sid]] = f.sid
    BY <1>0, <2>1, <2>2 DEF ToldOrServed
  <2>4. ToldOrServed' BY <1>0, <2>1 DEF ToldOrServed
  <2> QED BY <2>1, <2>2, <2>3, <2>4 DEF Serving, Waiting, Awaiting
<1>3. CASE /\ f.type = "unsubscribed"
           /\ clientOf' = [clientOf EXCEPT ![f.sid] = Nobody]
           /\ registered' = registered \ {clientOf[f.sid]}
           /\ outcome' = [c \in Clients |->
                             IF c = clientOf[f.sid] THEN "stopped" ELSE outcome[c]]
           /\ UNCHANGED <<sidOf, pc, call>>
  <2>1. f.sid \in Sids BY <1>3, FrameKinds
  <2>2. \A s \in Sids : clientOf'[s] = IF s = f.sid THEN Nobody ELSE clientOf[s]
    BY <1>0, <1>3, <2>1
  <2>3. \A c \in Clients : outcome'[c] \in Served <=> c \in registered'
    <3>1. \A c \in Clients : outcome[c] \in Served <=> c \in registered
      BY <1>0 DEF ToldOrServed
    <3>2. "stopped" \notin Served BY DEF Served
    <3> QED BY <1>3, <3>1, <3>2
  <2>4. ASSUME NEW s \in Sids, clientOf'[s] # Nobody
        PROVE  clientOf'[s] \in registered' /\ sidOf'[clientOf'[s]] = s
    BY <1>0, <1>3, <2>1, <2>2, <2>4 DEF ToldOrServed
  <2>5. ToldOrServed' BY <1>3, <2>3, <2>4 DEF ToldOrServed
  <2> QED BY <1>0, <1>3, <2>5 DEF Serving, Waiting, Awaiting
<1>4. ASSUME ~Gap(f, r)
      PROVE  \/ UNCHANGED <<subs, pc, call>>
             \/ /\ f.type = "unsubscribed"
                /\ clientOf' = [clientOf EXCEPT ![f.sid] = Nobody]
                /\ registered' = registered \ {clientOf[f.sid]}
                /\ outcome' = [c \in Clients |->
                                  IF c = clientOf[f.sid] THEN "stopped" ELSE outcome[c]]
                /\ UNCHANGED <<sidOf, pc, call>>
  <2>1. Ignore(f) \/ Apply(f) \/ Unsubscribed(f) \/ OrphanSubscribed(f)
    BY <1>4 DEF Process
  <2>2. Ignore(f) \/ Apply(f) \/ OrphanSubscribed(f) => UNCHANGED <<subs, pc, call>>
    BY DEF Ignore, Apply, OrphanSubscribed
  <2>3. CASE Unsubscribed(f) BY <2>3 DEF Unsubscribed
  <2> QED BY <2>1, <2>2, <2>3
<1> QED BY <1>1, <1>2, <1>3, <1>4

\* Reading, replaying and overhearing.
LEMMA ReadingServes ==
    ASSUME TypeOK, Serving, Read \/ Replay \/ Overhear
    PROVE  Serving'
<1>0. down \in Seq(Frames) /\ drain \in Seq(Stashable)
  BY DEF TypeOK, NetType, ControlType
<1>1. CASE Read
  <2>1. Head(down) \in Frames BY <1>0, <1>1 DEF Read
  <2>2. Process(Head(down), FALSE) /\ pc = "recv" /\ todo' = todo BY <1>1 DEF Read
  <2>3. FALSE \in BOOLEAN OBVIOUS
  <2> QED BY <2>1, <2>2, <2>3, ProcessServes, Zenon
<1>2. CASE Replay
  <2>1. Head(drain) \in Frames
    <3>1. Head(drain) \in Stashable BY <1>0, <1>2 DEF Replay
    <3> QED BY <3>1, StashableKinds
  <2>2. \/ Process(Head(drain), TRUE) 
        \/ UNCHANGED <<local, subs, orphans, pc, call>>
    BY <1>2, Zenon DEF Replay
  <2>3. pc = "recv" /\ todo' = todo BY <1>2 DEF Replay
  <2>4. TRUE \in BOOLEAN OBVIOUS
  <2>5. CASE Process(Head(drain), TRUE) BY <2>1, <2>3, <2>4, <2>5, ProcessServes, Zenon
  <2>6. CASE UNCHANGED <<local, subs, orphans, pc, call>> BY <2>3, <2>6, ServingKept
  <2> QED BY <2>2, <2>5, <2>6
<1>3. CASE Overhear BY <1>3, ServingKept DEF Overhear
<1> QED BY <1>1, <1>2, <1>3

\* A command goes out for a subscription that may have it.
LEMMA AskingServes ==
    ASSUME TypeOK, Serving,
           \E c \in Clients : Subscribe(c) \/ Unsubscribe(c) \/ ResubscribeNext(c)
    PROVE  Serving'
<1>0. /\ sidOf \in [Clients -> 0..MaxSid] /\ clientOf \in [Sids -> Clients \cup {Nobody}]
      /\ ToldOrServed /\ Waiting
  BY DEF TypeOK, SubsType, Serving
<1>1. ASSUME NEW c \in Clients, Subscribe(c) PROVE Serving'
  <2>1. /\ outcome[c] = "idle" /\ pc' = "subscribe"
        /\ call' = [client |-> c, id |-> msgId, replay |-> FALSE]
        /\ UNCHANGED <<registered, sidOf, clientOf, outcome, todo>>
    BY <1>1 DEF Subscribe, subs
  <2>2. ToldOrServed' BY <1>0, <2>1 DEF ToldOrServed
  <2> QED BY <1>0, <2>1, <2>2 DEF Serving, Waiting, Awaiting
<1>2. ASSUME NEW c \in Clients, Unsubscribe(c) PROVE Serving'
  <2>1. /\ c \in registered /\ sidOf[c] # NoSid /\ pc = "recv" /\ pc' = "leave"
        /\ call' = [client |-> c, id |-> msgId, replay |-> FALSE]
        /\ UNCHANGED <<registered, sidOf, clientOf, outcome, todo>>
    BY <1>2 DEF Unsubscribe, subs
  <2>2. sidOf[c] \in Sids BY <1>0, <2>1 DEF Sids, NoSid
  <2>3. ToldOrServed' BY <1>0, <2>1 DEF ToldOrServed
  <2> QED BY <1>0, <2>1, <2>2, <2>3 DEF Serving, Waiting, Awaiting
<1>3. ASSUME NEW c \in Clients, ResubscribeNext(c) PROVE Serving'
  <2>1. /\ pc = "reall" /\ c \in todo /\ sidOf' = [sidOf EXCEPT ![c] = NoSid]
        /\ call' = [client |-> c, id |-> msgId, replay |-> FALSE]
        /\ UNCHANGED <<registered, clientOf, outcome, pc, todo>>
    BY <1>3 DEF ResubscribeNext
  <2>2. \A s \in Sids : clientOf[s] # c BY <1>0, <2>1 DEF Waiting
  <2>3. \A d \in Clients : d # c => sidOf'[d] = sidOf[d] BY <1>0, <2>1
  <2>4. ToldOrServed' BY <1>0, <2>1, <2>2, <2>3 DEF ToldOrServed
  <2> QED BY <1>0, <2>1, <2>4 DEF Serving, Waiting, Awaiting
<1> QED BY <1>1, <1>2, <1>3

\* subscribe and unsubscribe return to their caller.
LEMMA UserDoneServes ==
    ASSUME TypeOK, Serving, SubscribeDone \/ UnsubscribeDone
    PROVE  Serving'
<1>0. /\ clientOf \in [Sids -> Clients \cup {Nobody}] /\ registered \subseteq Clients
      /\ ToldOrServed /\ Waiting /\ Nobody \notin Clients
  BY FeedAssumption DEF TypeOK, SubsType, Serving
<1>1. CASE SubscribeDone
  <2>1. /\ pc = "subscribe" /\ pc' = "recv" /\ call' = NoCall /\ todo' = todo
        /\ call.client \in Clients /\ outcome[call.client] = "idle"
    BY <1>0, <1>1 DEF SubscribeDone, Waiting, Awaiting
  <2>2. call.client \notin registered /\ \A r \in Sids : clientOf[r] # call.client
    BY <1>0, <2>1 DEF ToldOrServed, Served
  <2>3. \/ /\ Answered({"subscribed"}) /\ Register(call.client, Head(down).sid)
           /\ outcome' = [outcome EXCEPT ![call.client] = "open"]
        \/ /\ outcome' = [outcome EXCEPT ![call.client] = "refused"]
           /\ UNCHANGED <<registered, sidOf, clientOf>>
    BY <1>1 DEF SubscribeDone
  <2>4. ASSUME Answered({"subscribed"}), Register(call.client, Head(down).sid),
               outcome' = [outcome EXCEPT ![call.client] = "open"]
        PROVE  ToldOrServed'
    BY <1>0, <2>1, <2>2, <2>4, WaitEnds, RegisterServes
  <2>5. ASSUME outcome' = [outcome EXCEPT ![call.client] = "refused"],
               UNCHANGED <<registered, sidOf, clientOf>>
        PROVE  ToldOrServed'
    <3>1. registered' = registered \ {call.client} BY <2>2, <2>5
    <3> QED BY <1>0, <2>1, <2>2, <2>5, <3>1, RemoveServes
  <2>6. ToldOrServed' BY <2>3, <2>4, <2>5
  <2> QED BY <2>1, <2>6 DEF Serving, Waiting, Awaiting
<1>2. CASE UnsubscribeDone
  <2>1. /\ pc = "leave" /\ pc' = "recv" /\ call' = NoCall /\ todo' = todo
        /\ call.client \in Clients /\ call.client \in registered
        /\ sidOf[call.client] \in Sids
    BY <1>0, <1>2 DEF UnsubscribeDone, Waiting, Awaiting
  <2>2. \/ /\ clientOf' = [clientOf EXCEPT ![sidOf[call.client]] = Nobody]
           /\ registered' = registered \ {call.client}
           /\ outcome' = [outcome EXCEPT ![call.client] = "stopped"]
           /\ UNCHANGED sidOf
        \/ UNCHANGED <<registered, sidOf, clientOf, outcome>>
    BY <1>2 DEF UnsubscribeDone, subs
  <2>3. ASSUME clientOf' = [clientOf EXCEPT ![sidOf[call.client]] = Nobody],
               registered' = registered \ {call.client},
               outcome' = [outcome EXCEPT ![call.client] = "stopped"],
               UNCHANGED sidOf
        PROVE  ToldOrServed'
    <3>1. \A r \in Sids : clientOf'[r] =
              IF r = sidOf[call.client] THEN Nobody ELSE clientOf[r]
      BY <1>0, <2>1, <2>3
    <3>2. \A r \in Sids : clientOf'[r] # call.client BY <1>0, <2>1, <3>1 DEF ToldOrServed
    <3> QED BY <1>0, <2>1, <2>3, <3>1, <3>2, RemoveServes
  <2>4. ASSUME UNCHANGED <<registered, sidOf, clientOf, outcome>> PROVE ToldOrServed'
    BY <1>0, <2>1, <2>4 DEF ToldOrServed
  <2>5. ToldOrServed' BY <2>2, <2>3, <2>4
  <2> QED BY <2>1, <2>5 DEF Serving, Waiting, Awaiting
<1> QED BY <1>1, <1>2

\* When the loop ends, nobody is left unaware.
LEMMA AllHalted ==
    ASSUME ToldOrServed,
           outcome' = [c \in Clients |-> IF c \in registered THEN "halted" ELSE outcome[c]],
           registered' = registered
    PROVE  \A c \in Clients : (outcome'[c] \in Served <=> c \in registered') /\ outcome'[c] # "open"
<1>1. \A c \in Clients : outcome[c] \in Served <=> c \in registered BY DEF ToldOrServed
<1>2. "halted" \in Served /\ "open" \in Served BY DEF Served
<1> QED BY <1>1, <1>2

\* The recovery of a gap.
LEMMA RecoveryServes ==
    ASSUME TypeOK, Serving, Unsubscribing \/ Resubscribed \/ ResubscribeRefused \/ GapLost
    PROVE  Serving'
<1>0. /\ clientOf \in [Sids -> Clients \cup {Nobody}] /\ registered \subseteq Clients
      /\ sidOf \in [Clients -> 0..MaxSid] /\ ToldOrServed /\ Waiting /\ Nobody \notin Clients
      /\ call \in Calls
  BY FeedAssumption DEF TypeOK, SubsType, ControlType, Calls, Serving
<1>1. CASE Unsubscribing
  <2>1. /\ pc = "unsub" /\ pc' = "resub" /\ call' = [call EXCEPT !.id = msgId]
        /\ clientOf' = [clientOf EXCEPT ![sidOf[call.client]] = Nobody]
        /\ sidOf' = [sidOf EXCEPT ![call.client] = NoSid]
        /\ UNCHANGED <<registered, outcome>>
    BY <1>1 DEF Unsubscribing
  <2>2. call.client \in Clients /\ call.client \in registered /\ sidOf[call.client] \in Sids
    BY <1>0, <2>1 DEF Waiting, Awaiting
  <2>3. call'.client = call.client BY <1>0, <2>1 DEF Calls
  <2>4. \A r \in Sids : clientOf'[r] = IF r = sidOf[call.client] THEN Nobody ELSE clientOf[r]
    BY <1>0, <2>1, <2>2
  <2>5. \A d \in Clients : d # call.client => sidOf'[d] = sidOf[d] BY <1>0, <2>1
  <2>6. \A r \in Sids : clientOf'[r] # call.client BY <1>0, <2>2, <2>4 DEF ToldOrServed
  <2>7. \A c \in Clients : outcome'[c] \in Served <=> c \in registered'
    BY <1>0, <2>1 DEF ToldOrServed
  <2>8. ASSUME NEW r \in Sids, clientOf'[r] # Nobody
        PROVE  clientOf'[r] \in registered' /\ sidOf'[clientOf'[r]] = r
    BY <1>0, <2>1, <2>4, <2>5, <2>6, <2>8 DEF ToldOrServed
  <2>9. ToldOrServed' BY <2>1, <2>7, <2>8 DEF ToldOrServed
  <2> QED BY <2>1, <2>2, <2>3, <2>6, <2>9 DEF Serving, Waiting, Awaiting
<1>2. CASE Resubscribed
  <2>1. /\ pc = "resub" /\ pc' = "recv" /\ call' = NoCall
        /\ Answered({"subscribed"}) /\ Register(call.client, Head(down).sid)
        /\ UNCHANGED outcome
    BY <1>2 DEF Resubscribed
  <2>2. /\ call.client \in Clients /\ call.client \in registered
        /\ \A r \in Sids : clientOf[r] # call.client
    BY <1>0, <2>1 DEF Waiting, Awaiting
  <2>3. ToldOrServed' BY <1>0, <2>1, <2>2, WaitEnds, RegisterServes
  <2> QED BY <2>1, <2>3 DEF Serving, Waiting, Awaiting
<1>3. CASE ResubscribeRefused
  <2>1. /\ pc = "resub" /\ pc' = "recv" /\ call' = NoCall /\ Remove(call.client, "raised")
    BY <1>3 DEF ResubscribeRefused
  <2>2. call.client \in Clients /\ \A r \in Sids : clientOf[r] # call.client
    BY <1>0, <2>1 DEF Waiting, Awaiting
  <2>3. ToldOrServed' BY <1>0, <2>1, <2>2, RemoveServes, ToldEnds DEF Remove
  <2> QED BY <2>1, <2>3 DEF Serving, Waiting, Awaiting
<1>4. CASE GapLost
  <2>1. /\ pc' \in {"recv", "crashed"} /\ call' = NoCall
        /\ UNCHANGED <<registered, sidOf, clientOf>>
        /\ \/ pc' = "recv" /\ UNCHANGED outcome
           \/ /\ pc' = "crashed"
              /\ outcome' = [c \in Clients |-> IF c \in registered THEN "halted" ELSE outcome[c]]
    BY <1>4 DEF GapLost, StopAll
  <2>2. ASSUME pc' = "recv", UNCHANGED outcome PROVE ToldOrServed'
    BY <1>0, <2>1, <2>2 DEF ToldOrServed
  <2>3. ASSUME outcome' = [c \in Clients |-> IF c \in registered THEN "halted" ELSE outcome[c]]
        PROVE  ToldOrServed'
    <3>1. \A c \in Clients : (outcome'[c] \in Served <=> c \in registered') /\ outcome'[c] # "open"
      BY <1>0, <2>1, <2>3, AllHalted, Zenon
    <3> QED BY <1>0, <2>1, <3>1 DEF ToldOrServed
  <2>4. ToldOrServed' BY <2>1, <2>2, <2>3
  <2> QED BY <2>1, <2>4 DEF Serving, Waiting, Awaiting
<1> QED BY <1>1, <1>2, <1>3, <1>4

\* A reconnect.
LEMMA ReconnectServes ==
    ASSUME TypeOK, Serving,
           Reconnect \/ ReconnectFailed \/ ResubscribedNext \/ ResubscribedAll
    PROVE  Serving'
<1>0. /\ clientOf \in [Sids -> Clients \cup {Nobody}] /\ registered \subseteq Clients
      /\ ToldOrServed /\ Waiting /\ Nobody \notin Clients
  BY FeedAssumption DEF TypeOK, SubsType, Serving
<1>1. CASE Reconnect
  <2>1. /\ pc = "recv" /\ pc' = "reall" /\ clientOf' = [s \in Sids |-> Nobody]
        /\ todo' = registered /\ UNCHANGED <<registered, sidOf, outcome, call>>
    BY <1>1 DEF Reconnect
  <2>2. ToldOrServed' BY <1>0, <2>1 DEF ToldOrServed
  <2> QED BY <1>0, <2>1, <2>2 DEF Serving, Waiting, Awaiting
<1>2. CASE ReconnectFailed
  <2>1. /\ pc = "recv" /\ pc' = "dead" /\ UNCHANGED <<registered, sidOf, clientOf, call, todo>>
        /\ outcome' = [c \in Clients |-> IF c \in registered THEN "halted" ELSE outcome[c]]
    BY <1>2 DEF ReconnectFailed, StopAll
  <2>2. \A c \in Clients : (outcome'[c] \in Served <=> c \in registered') /\ outcome'[c] # "open"
    BY <1>0, <2>1, AllHalted, Zenon
  <2>3. ToldOrServed' BY <1>0, <2>1, <2>2 DEF ToldOrServed
  <2> QED BY <1>0, <2>1, <2>3 DEF Serving, Waiting, Awaiting
<1>3. CASE ResubscribedNext
  <2>1. /\ pc = "reall" /\ pc' = "reall" /\ call # NoCall /\ call' = NoCall
        /\ todo' = todo \ {call.client}
        /\ \/ /\ Answered({"subscribed"}) /\ Register(call.client, Head(down).sid)
              /\ UNCHANGED outcome
           \/ Remove(call.client, "stopped")
    BY <1>3 DEF ResubscribedNext
  <2>2. /\ call.client \in Clients /\ call.client \in registered
        /\ \A r \in Sids : clientOf[r] # call.client
        /\ todo \subseteq registered /\ \A r \in Sids : clientOf[r] \notin todo
    BY <1>0, <2>1 DEF Waiting, Awaiting
  <2>3. ASSUME Answered({"subscribed"}), Register(call.client, Head(down).sid),
               UNCHANGED outcome
        PROVE  Serving'
    <3>1. /\ ToldOrServed' /\ registered' = registered \cup {call.client}
          /\ \A r \in Sids : clientOf'[r] =
                 (IF r = Head(down).sid THEN call.client ELSE clientOf[r])
      BY <1>0, <2>1, <2>2, <2>3, WaitEnds, RegisterServes DEF Register
    <3> QED BY <2>1, <2>2, <3>1 DEF Serving, Waiting, Awaiting
  <2>4. ASSUME Remove(call.client, "stopped") PROVE Serving'
    <3>1. ToldOrServed' BY <1>0, <2>1, <2>2, <2>4, RemoveServes, ToldEnds DEF Remove
    <3>2. registered' = registered \ {call.client} /\ clientOf' = clientOf
      BY <2>4 DEF Remove
    <3> QED BY <2>1, <2>2, <3>1, <3>2 DEF Serving, Waiting, Awaiting
  <2> QED BY <2>1, <2>3, <2>4
<1>4. CASE ResubscribedAll
  <2>1. /\ pc = "reall" /\ pc' = "recv" /\ todo = {}
        /\ UNCHANGED <<registered, sidOf, clientOf, outcome, call, todo>>
    BY <1>4 DEF ResubscribedAll, subs
  <2>2. ToldOrServed' BY <1>0, <2>1 DEF ToldOrServed
  <2> QED BY <1>0, <2>1, <2>2 DEF Serving, Waiting, Awaiting
<1> QED BY <1>1, <1>2, <1>3, <1>4

\* Only a reconnect opens the connection, and nothing is sent on a broken one.
LEMMA ClientCut ==
    ASSUME ClientStep \/ \E c \in Clients : Subscribe(c) \/ Unsubscribe(c)
    PROVE  /\ UNCHANGED active
           /\ connected' \/ (UNCHANGED connected /\ (~connected => up' = up))
<1>1. ASSUME NEW f, NEW r, Process(f, r) PROVE ~connected => up' = up
  BY <1>1 DEF Process, Ignore, Apply, Gap, Unsubscribed, OrphanSubscribed, Idle, Send
<1>2. CASE Read \/ Replay BY <1>1, <1>2 DEF Read, Replay, Idle, server
<1>3. CASE Overhear \/ SubscribeDone \/ UnsubscribeDone
  BY <1>3 DEF Overhear, SubscribeDone, UnsubscribeDone, Idle, server
<1>4. CASE Unsubscribing \/ Resubscribed \/ ResubscribeRefused \/ GapLost
  BY <1>4 DEF Unsubscribing, Resubscribed, ResubscribeRefused, GapLost, Idle, Send, server
<1>5. CASE Reconnect \/ ReconnectFailed \/ ResubscribedNext \/ ResubscribedAll
  BY <1>5 DEF Reconnect, ReconnectFailed, ResubscribedNext, ResubscribedAll, Idle, server
<1>6. ASSUME NEW c \in Clients, Subscribe(c) \/ Unsubscribe(c) \/ ResubscribeNext(c)
      PROVE  UNCHANGED <<active, connected>> /\ (~connected => up' = up)
  BY <1>6 DEF Subscribe, Unsubscribe, ResubscribeNext, Send, server
<1> QED BY <1>2, <1>3, <1>4, <1>5, <1>6 DEF ClientStep

\* The server has nothing on a broken connection.
LEMMA CutStep ==
    ASSUME TypeOK, Cut, [Next]_vars
    PROVE  Cut'
<1>0. active \in [Sids -> Tickers \cup {Nobody}] BY DEF TypeOK, ServerType
<1>1. ASSUME NEW t \in Tickers, Change(t) PROVE Cut' BY <1>1 DEF Change, Cut
<1>2. ASSUME NEW s \in Sids, Emit(s) \/ Redeliver(s) \/ Reap(s) PROVE Cut'
  BY <1>0, <1>2 DEF Emit, Redeliver, Reap, Cut, server
<1>3. CASE AcceptSubscribe \/ RejectSubscribe \/ AnswerUnsubscribe
  BY <1>3 DEF AcceptSubscribe, RejectSubscribe, AnswerUnsubscribe, Cut
<1>4. CASE Drop BY <1>4 DEF Drop, Cut
<1>5. CASE ClientStep \/ \E c \in Clients : Subscribe(c) \/ Unsubscribe(c)
  BY <1>5, ClientCut DEF Cut
<1>6. CASE UNCHANGED vars BY <1>6 DEF vars, server, Cut
<1> QED BY <1>1, <1>2, <1>3, <1>4, <1>5, <1>6, Zenon DEF Next, Environment

\* Every step keeps the invariant.
LEMMA ServeStep == ServeInv /\ [Next]_vars => ServeInv'
<1> SUFFICES ASSUME ServeInv, [Next]_vars PROVE Serving'
  BY NextType, CutStep DEF ServeInv, Serving
<1>0. TypeOK /\ Serving BY DEF ServeInv, Serving
<1>1. CASE Environment
  <2>1. UNCHANGED <<subs, pc, call, todo>> BY <1>1, EnvironmentKeeps DEF control
  <2> QED BY <1>0, <2>1, ServingKept
<1>2. CASE Read \/ Replay \/ Overhear BY <1>0, <1>2, ReadingServes
<1>3. ASSUME NEW c \in Clients, Subscribe(c) \/ Unsubscribe(c) \/ ResubscribeNext(c)
      PROVE  Serving'
  BY <1>0, <1>3, AskingServes, Zenon
<1>4. CASE SubscribeDone \/ UnsubscribeDone BY <1>0, <1>4, UserDoneServes
<1>5. CASE Unsubscribing \/ Resubscribed \/ ResubscribeRefused \/ GapLost
  BY <1>0, <1>5, RecoveryServes
<1>6. CASE Reconnect \/ ReconnectFailed \/ ResubscribedNext \/ ResubscribedAll
  BY <1>0, <1>6, ReconnectServes
<1>7. CASE UNCHANGED vars
  <2>1. UNCHANGED <<subs, pc, call, todo>> BY <1>7 DEF vars, control
  <2> QED BY <1>0, <2>1, ServingKept
<1> QED BY <1>1, <1>2, <1>3, <1>4, <1>5, <1>6, <1>7, Zenon DEF Next, ClientStep

\* ServeInv holds in every state.
LEMMA ServeAlways == Spec => []ServeInv
<1>1. Init => ServeInv BY InitType, InitServes DEF ServeInv, Serving, Cut, Init
<1> QED BY <1>1, ServeStep, PTL DEF Spec

(* Every variable of the session keeps its type: the sids a frame or an       *)
(* acknowledgement names are sids the server has given out, a call names a     *)
(* subscription wherever its reply is used, and the stash holds what           *)
(* _maybe_stash may put there.                                                 *)
THEOREM TypeCorrect == Spec => []TypeOK
<1>1. ServeInv => TypeOK BY DEF ServeInv
<1> QED BY <1>1, ServeAlways, PTL

(* Through every gap recovery, reconnect, server-side end, refusal and         *)
(* user's unsubscribe, for any number of subscriptions, an iterator that was   *)
(* told of no end is one of a registered subscription; when the loop ends      *)
(* every iterator is told, also of the subscriptions _handle_seq_gap leaves    *)
(* registered, which the loop a later subscribe starts goes on serving; and a  *)
(* sid never leads to a subscription that is gone or has moved, although a     *)
(* new connection may give a sid of the old one to another subscription.       *)
THEOREM EveryoneToldOrServed == Spec => []ToldOrServed
<1>1. ServeInv => ToldOrServed BY DEF ServeInv
<1> QED BY <1>1, ServeAlways, PTL

-----------------------------------------------------------------------------
\* Every frame in transit is a frame.
LEMMA TransitFrames == TypeOK => Transit \subseteq Frames
<1> SUFFICES ASSUME TypeOK PROVE Transit \subseteq Frames OBVIOUS
<1>1. down \in Seq(Frames) /\ stash \in Seq(Stashable) /\ drain \in Seq(Stashable)
  BY DEF TypeOK, NetType, ControlType
<1>2. Stashable \subseteq Frames BY StashableKinds
<1>3. Carried(down) \subseteq Frames BY <1>1, CarriedSeq
<1>4. Carried(stash) \subseteq Stashable /\ Carried(drain) \subseteq Stashable
  BY <1>1, CarriedSeq
<1> QED BY <1>2, <1>3, <1>4 DEF Transit

\* A step that sends nothing new and maps no sid keeps the labels right.
LEMMA LabelsKept ==
    ASSUME TypeOK, Labels, UNCHANGED server, Transit' \subseteq Transit,
           UNCHANGED <<up, msgId>>, call' \in {call, NoCall},
           \A s \in Sids : clientOf'[s] \in {clientOf[s], Nobody}
    PROVE  Labels'
<1>1. UNCHANGED <<active, seq, sent, nextSid>> BY DEF server
<1>2. \A f \in Transit' : f \in Transit /\ f.type # "error" => f.sid \in Sids
  BY TransitFrames, FrameKinds
<1>3. Carried(up)' = Carried(up) BY DEF Carried
<1>4. Fresh' BY <1>1, <1>3 DEF Labels, Fresh
<1>5. RightMarket'
  <2>1. ASSUME NEW f \in Transit', Data(f), clientOf'[f.sid] # Nobody
        PROVE  f.ticker = TickerOf[clientOf'[f.sid]]
    <3>1. f \in Transit /\ f.sid \in Sids BY <2>1, <1>2 DEF Data
    <3>2. clientOf'[f.sid] = clientOf[f.sid] BY <2>1, <3>1
    <3> QED BY <2>1, <3>1, <3>2 DEF Labels, RightMarket
  <2>2. ASSUME NEW s \in Sids, clientOf'[s] # Nobody
        PROVE  active'[s] \in {Nobody, TickerOf[clientOf'[s]]}
    <3>1. clientOf'[s] = clientOf[s] BY <2>2
    <3> QED BY <1>1, <2>2, <3>1 DEF Labels, RightMarket
  <2> QED BY <2>1, <2>2 DEF RightMarket, Data
<1>6. RightReply'
  <2> SUFFICES ASSUME call' # NoCall
               PROVE  /\ \A u \in Carried(up)' : u.cmd = "subscribe" /\ u.id = call'.id =>
                             u.ticker = TickerOf[call'.client]
                      /\ \A a \in Transit' : a.type = "subscribed" /\ a.id = call'.id =>
                             /\ clientOf'[a.sid] = Nobody
                             /\ active'[a.sid] \in {Nobody, TickerOf[call'.client]}
                             /\ \A f \in Transit' : Data(f) /\ f.sid = a.sid =>
                                    f.ticker = TickerOf[call'.client]
    BY DEF RightReply, Data
  <2>1. call' = call /\ call # NoCall OBVIOUS
  <2>2. ASSUME NEW a \in Transit', a.type = "subscribed", a.id = call'.id
        PROVE  /\ clientOf'[a.sid] = Nobody
               /\ active'[a.sid] \in {Nobody, TickerOf[call'.client]}
               /\ \A f \in Transit' : Data(f) /\ f.sid = a.sid =>
                      f.ticker = TickerOf[call'.client]
    <3>1. a \in Transit /\ a.sid \in Sids BY <1>2, <2>2
    <3>2. /\ clientOf[a.sid] = Nobody
          /\ active[a.sid] \in {Nobody, TickerOf[call.client]}
          /\ \A f \in Transit : Data(f) /\ f.sid = a.sid => f.ticker = TickerOf[call.client]
      BY <2>1, <2>2, <3>1 DEF Labels, RightReply
    <3> QED BY <1>1, <2>1, <3>1, <3>2
  <2> QED BY <1>3, <2>1, <2>2 DEF Labels, RightReply
<1>7. RightNumbers' BY <1>1 DEF Labels, RightNumbers, Numbered, Data
<1> QED BY <1>4, <1>5, <1>6, <1>7 DEF Labels

\* A command sent joins those on their way.
LEMMA SendCarries ==
    ASSUME TypeOK, NEW cmd \in Commands, Send(cmd)
    PROVE  Carried(up)' \subseteq Carried(up) \cup {cmd} /\ msgId' = msgId + 1 /\ msgId \in Nat
<1>1. up \in Seq(Commands) /\ msgId \in Nat BY DEF TypeOK, NetType
<1>2. msgId' = msgId + 1 /\ (up' = Append(up, cmd) \/ up' = up) BY DEF Send
<1>3. Carried(Append(up, cmd)) = Carried(up) \cup {cmd}
  <2>1. 0 \in 0..Len(up) BY <1>1
  <2> QED BY <1>1, <2>1, CarriedOps
<1>4. Carried(up)' = Carried(up') BY DEF Carried
<1> QED BY <1>1, <1>2, <1>3, <1>4

\* A command sent, and its reply awaited, under a number not used before.
LEMMA LabelsCall ==
    ASSUME TypeOK, Labels, UNCHANGED server, Transit' \subseteq Transit,
           NEW cmd \in Commands, Send(cmd), cmd.id = msgId, call'.id = msgId,
           cmd.cmd = "subscribe" => cmd.ticker = TickerOf[call'.client],
           \A s \in Sids : clientOf'[s] \in {clientOf[s], Nobody}
    PROVE  Labels'
<1>1. UNCHANGED <<active, seq, sent, nextSid>> BY DEF server
<1>2. \A f \in Transit' : f \in Transit /\ f \in Frames /\ (f.type # "error" => f.sid \in Sids)
  BY TransitFrames, FrameKinds
<1>3. Carried(up)' \subseteq Carried(up) \cup {cmd} /\ msgId' = msgId + 1 /\ msgId \in Nat
  BY SendCarries
<1>3a. Carried(up) \subseteq Commands
  <2>1. up \in Seq(Commands) BY DEF TypeOK, NetType
  <2> QED BY <2>1, CarriedSeq
<1>3b. \A u \in Carried(up) : u.id \in Nat /\ u.id < msgId
  BY <1>3a DEF Commands, Labels, Fresh
<1>3c. \A f \in Transit' : f.type = "subscribed" => f.id \in Nat /\ f.id < msgId
  BY <1>2, FrameKinds DEF Labels, Fresh, Data
<1>4. Fresh'
  <2>1. \A u \in Carried(up)' : u.id < msgId' BY <1>3, <1>3b
  <2>2. \A f \in Transit' : f.type = "subscribed" => f.id < msgId' BY <1>3, <1>3c
  <2>3. call' # NoCall => call'.id < msgId' BY <1>3
  <2>4. \A f \in Transit' : Naming(f) => f.sid < nextSid' BY <1>1 DEF Labels, Fresh
  <2>5. \A s \in Sids : s >= nextSid' => active'[s] = Nobody /\ clientOf'[s] = Nobody
    BY <1>1 DEF Labels, Fresh
  <2> QED BY <2>1, <2>2, <2>3, <2>4, <2>5 DEF Fresh, Naming
<1>5. RightMarket'
  <2>1. ASSUME NEW f \in Transit', Data(f), clientOf'[f.sid] # Nobody
        PROVE  f.ticker = TickerOf[clientOf'[f.sid]]
    <3>1. f \in Transit /\ f.sid \in Sids BY <2>1, <1>2 DEF Data
    <3>2. clientOf'[f.sid] = clientOf[f.sid] BY <2>1, <3>1
    <3> QED BY <2>1, <3>1, <3>2 DEF Labels, RightMarket
  <2>2. ASSUME NEW s \in Sids, clientOf'[s] # Nobody
        PROVE  active'[s] \in {Nobody, TickerOf[clientOf'[s]]}
    <3>1. clientOf'[s] = clientOf[s] BY <2>2
    <3> QED BY <1>1, <2>2, <3>1 DEF Labels, RightMarket
  <2> QED BY <2>1, <2>2 DEF RightMarket, Data
<1>6. RightReply'
  <2>1. \A u \in Carried(up)' : u.cmd = "subscribe" /\ u.id = call'.id =>
            u.ticker = TickerOf[call'.client]
    BY <1>3, <1>3b
  <2>2. \A a \in Transit' : ~(a.type = "subscribed" /\ a.id = call'.id) BY <1>3, <1>3c
  <2> QED BY <2>1, <2>2 DEF RightReply
<1>7. RightNumbers' BY <1>1 DEF Labels, RightNumbers, Numbered, Data
<1> QED BY <1>4, <1>5, <1>6, <1>7 DEF Labels

\* A command sent without waiting for its reply.
LEMMA LabelsSent ==
    ASSUME TypeOK, Labels, UNCHANGED server, Transit' \subseteq Transit,
           NEW cmd \in Commands, Send(cmd), cmd.id = msgId,
           call = NoCall, call' = NoCall, clientOf' = clientOf
    PROVE  Labels'
<1>1. UNCHANGED <<active, seq, sent, nextSid>> BY DEF server
<1>2. \A f \in Transit' : f \in Transit /\ f \in Frames BY TransitFrames
<1>3. Carried(up)' \subseteq Carried(up) \cup {cmd} /\ msgId' = msgId + 1 /\ msgId \in Nat
  BY SendCarries
<1>3a. Carried(up) \subseteq Commands
  <2>1. up \in Seq(Commands) BY DEF TypeOK, NetType
  <2> QED BY <2>1, CarriedSeq
<1>3b. \A u \in Carried(up) : u.id \in Nat /\ u.id < msgId
  BY <1>3a DEF Commands, Labels, Fresh
<1>3c. \A f \in Transit' : f.type = "subscribed" => f.id \in Nat /\ f.id < msgId
  BY <1>2, FrameKinds DEF Labels, Fresh, Data
<1>4. Fresh'
  <2>1. \A u \in Carried(up)' : u.id < msgId' BY <1>3, <1>3b
  <2>2. \A f \in Transit' : f.type = "subscribed" => f.id < msgId' BY <1>3, <1>3c
  <2>4. \A f \in Transit' : Naming(f) => f.sid < nextSid' BY <1>1 DEF Labels, Fresh
  <2>5. \A s \in Sids : s >= nextSid' => active'[s] = Nobody /\ clientOf'[s] = Nobody
    BY <1>1 DEF Labels, Fresh
  <2> QED BY <2>1, <2>2, <2>4, <2>5 DEF Fresh, Naming
<1>5. RightMarket' BY <1>1 DEF Labels, RightMarket, Data
<1>6. RightReply' BY DEF RightReply
<1>7. RightNumbers' BY <1>1 DEF Labels, RightNumbers, Numbered, Data
<1> QED BY <1>4, <1>5, <1>6, <1>7 DEF Labels

\* The sid an acknowledgement names is mapped to the subscription that asked for it.
LEMMA LabelsRegistered ==
    ASSUME TypeOK, Waiting, Labels, UNCHANGED server, Transit' \subseteq Transit,
           UNCHANGED <<up, msgId>>, call # NoCall, call.client \in Clients, call' = NoCall,
           Answered({"subscribed"}), Register(call.client, Head(down).sid)
    PROVE  /\ Labels'
           /\ Head(down).sid \in Sids /\ clientOf[Head(down).sid] = Nobody
           /\ \A s \in Sids : s # Head(down).sid => clientOf'[s] = clientOf[s]
<1> DEFINE a == Head(down)
<1>1. UNCHANGED <<active, seq, sent, nextSid>> BY DEF server
<1>2. \A f \in Transit : f.type # "error" => f.sid \in Sids
  BY TransitFrames, FrameKinds
<1>3. /\ a \in Transit /\ a.type = "subscribed" /\ a.id = call.id /\ a.sid \in Sids
  <2>1. /\ down # <<>> /\ Answers(Head(down)) /\ Head(down).type = "subscribed"
        /\ Head(down).sid \in Sids
    BY WaitEnds
  <2>2. down \in Seq(Frames) /\ 0 \in 0..Len(down) BY DEF TypeOK, NetType
  <2>3. Head(down) \in Carried(down) BY <2>1, <2>2, CarriedOps
  <2> QED BY <2>1, <2>3 DEF Transit, Answers
<1>4. /\ clientOf[a.sid] = Nobody
      /\ active[a.sid] \in {Nobody, TickerOf[call.client]}
      /\ \A f \in Transit : Data(f) /\ f.sid = a.sid => f.ticker = TickerOf[call.client]
  BY <1>3 DEF Labels, RightReply
<1>5. \A s \in Sids : clientOf'[s] = IF s = a.sid THEN call.client ELSE clientOf[s]
  BY <1>3 DEF Register, TypeOK, SubsType
<1> HIDE DEF a
<1>6. a.sid < nextSid BY <1>3 DEF Labels, Fresh, Naming
<1>7. Carried(up)' = Carried(up) BY DEF Carried
<1>8. Fresh'
  <2>1. nextSid \in Nat BY FeedAssumption DEF TypeOK, ServerType
  <2>2. \A s \in Sids : s >= nextSid => s # a.sid
    BY <1>6, <2>1 DEF Sids
  <2>3. \A s \in Sids : s >= nextSid' => active'[s] = Nobody /\ clientOf'[s] = Nobody
    BY <1>1, <1>5, <2>2 DEF Labels, Fresh
  <2> QED BY <1>1, <1>7, <2>3 DEF Labels, Fresh
<1>9. RightMarket'
  <2>1. ASSUME NEW f \in Transit', Data(f), clientOf'[f.sid] # Nobody
        PROVE  f.ticker = TickerOf[clientOf'[f.sid]]
    <3>1. f \in Transit /\ f.sid \in Sids BY <2>1, <1>2 DEF Data
    <3>2. CASE f.sid = a.sid BY <1>4, <1>5, <2>1, <3>1, <3>2
    <3>3. CASE f.sid # a.sid BY <1>5, <2>1, <3>1, <3>3 DEF Labels, RightMarket
    <3> QED BY <3>2, <3>3
  <2>2. ASSUME NEW s \in Sids, clientOf'[s] # Nobody
        PROVE  active'[s] \in {Nobody, TickerOf[clientOf'[s]]}
    BY <1>1, <1>4, <1>5, <2>2 DEF Labels, RightMarket
  <2> QED BY <2>1, <2>2 DEF RightMarket, Data
<1>10. RightReply' BY DEF RightReply
<1>11. RightNumbers' BY <1>1 DEF Labels, RightNumbers, Numbered, Data
<1>12. Labels' BY <1>8, <1>9, <1>10, <1>11 DEF Labels
<1>13. \A s \in Sids : s # a.sid => clientOf'[s] = clientOf[s] BY <1>5
<1> QED BY <1>3, <1>4, <1>12, <1>13 DEF a

\* Books that stay, stay right; the others are dropped.
LEMMA BooksStay ==
    ASSUME TypeOK, RightBooks, UNCHANGED server,
           \A t \in Tickers : book'[t] \in {book[t], NoBook},
           \A t \in Tickers : book'[t].sid # NoSid =>
               /\ clientOf'[book[t].sid] = clientOf[book[t].sid]
               /\ watermark'[book[t].sid] = watermark[book[t].sid],
           pc' \in {"leave", "unsub"} =>
               \A t \in Tickers : book'[t].sid # sidOf'[call'.client]
    PROVE  RightBooks'
<1>1. UNCHANGED <<seq, sent>> BY DEF server
<1>2. NoBook.sid = NoSid BY DEF NoBook
<1>3. ASSUME NEW t \in Tickers, book'[t].sid # NoSid
      PROVE  LET s == book'[t].sid
             IN  /\ clientOf'[s] # Nobody /\ TickerOf[clientOf'[s]] = t
                 /\ watermark'[s] > 0
                 /\ book'[t].ver + seq'[s] = watermark'[s] + sent'[s]
                 /\ book'[t].val = book'[t].ver
  <2>1. book'[t] = book[t] /\ book[t].sid # NoSid BY <1>2, <1>3
  <2> QED BY <1>1, <1>3, <2>1 DEF RightBooks, Numbered
<1> QED BY <1>3 DEF RightBooks, Numbered

\* The client makes no frames: it reads, stashes and replays those that came.
LEMMA TransitLess ==
    ASSUME TypeOK,
           down' = down \/ (down # <<>> /\ down' = Tail(down)),
           \/ UNCHANGED <<stash, drain>>
           \/ stash' = stash /\ drain # <<>> /\ drain' = Tail(drain)
           \/ /\ down # <<>> /\ Head(down) \in Stashable
              /\ stash' = Stashed(Head(down)) /\ drain' = drain
           \/ stash' = <<>> /\ drain' \in {drain, stash \o drain}
    PROVE  /\ Transit' \subseteq Transit
           /\ down # <<>> => Head(down) \in Transit
           /\ drain # <<>> => Head(drain) \in Transit
<1>1. down \in Seq(Frames) /\ stash \in Seq(Stashable) /\ drain \in Seq(Stashable)
  BY DEF TypeOK, NetType, ControlType
<1>2. down # <<>> => Head(down) \in Carried(down) /\ Carried(Tail(down)) \subseteq Carried(down)
  <2> SUFFICES ASSUME down # <<>>
               PROVE  Head(down) \in Carried(down) /\ Carried(Tail(down)) \subseteq Carried(down)
    OBVIOUS
  <2>1. Head(down) \in Frames /\ 0 \in 0..Len(down) BY <1>1
  <2> QED BY <1>1, <2>1, CarriedOps
<1>3. drain # <<>> =>
        Head(drain) \in Carried(drain) /\ Carried(Tail(drain)) \subseteq Carried(drain)
  <2> SUFFICES ASSUME drain # <<>>
               PROVE  Head(drain) \in Carried(drain) /\ Carried(Tail(drain)) \subseteq Carried(drain)
    OBVIOUS
  <2>1. Head(drain) \in Stashable /\ 0 \in 0..Len(drain) BY <1>1
  <2> QED BY <1>1, <2>1, CarriedOps
<1>4. Carried(down)' \subseteq Carried(down)
  <2>1. CASE down' = down BY <2>1 DEF Carried
  <2>2. CASE down # <<>> /\ down' = Tail(down)
    <3>1. Carried(down)' = Carried(Tail(down)) BY <2>2 DEF Carried
    <3> QED BY <1>2, <2>2, <3>1
  <2> QED BY <2>1, <2>2
<1>5. Carried(stash)' \cup Carried(drain)' \subseteq Transit
  <2>1. CASE UNCHANGED <<stash, drain>> BY <2>1 DEF Carried, Transit
  <2>2. CASE stash' = stash /\ drain # <<>> /\ drain' = Tail(drain)
    <3>1. Carried(stash)' = Carried(stash) /\ Carried(drain)' = Carried(Tail(drain))
      BY <2>2 DEF Carried
    <3> QED BY <1>3, <2>2, <3>1 DEF Transit
  <2>3. CASE /\ down # <<>> /\ Head(down) \in Stashable
             /\ stash' = Stashed(Head(down)) /\ drain' = drain
    <3>1. Carried(Stashed(Head(down))) \subseteq Carried(stash) \cup {Head(down)}
      BY <1>1, <2>3, StashedSeq
    <3>2. Carried(stash)' = Carried(Stashed(Head(down))) /\ Carried(drain)' = Carried(drain)
      BY <2>3 DEF Carried
    <3> QED BY <1>2, <2>3, <3>1, <3>2 DEF Transit
  <2>4. CASE stash' = <<>> /\ drain' \in {drain, stash \o drain}
    <3>1. Carried(stash)' = {} BY <2>4 DEF Carried
    <3>2. CASE drain' = drain
      <4>1. Carried(drain)' = Carried(drain) BY <3>2 DEF Carried
      <4> QED BY <3>1, <4>1 DEF Transit
    <3>3. CASE drain' = stash \o drain
      <4>1. Carried(drain)' = Carried(stash \o drain) BY <3>3 DEF Carried
      <4>2. Carried(stash \o drain) = Carried(stash) \cup Carried(drain)
        <5>1. CASE stash = <<>>
          <6>1. stash \o drain = drain BY <1>1, <5>1
          <6>2. Carried(stash) = {} BY <5>1 DEF Carried
          <6> QED BY <6>1, <6>2
        <5>2. CASE stash # <<>>
          <6>1. Head(stash) \in Stashable /\ 0 \in 0..Len(stash) BY <1>1, <5>2
          <6> QED BY <1>1, <6>1, CarriedOps
        <5> QED BY <5>1, <5>2
      <4> QED BY <3>1, <4>1, <4>2 DEF Transit
    <3> QED BY <2>4, <3>2, <3>3
  <2> QED BY <2>1, <2>2, <2>3, <2>4
<1>6. Transit' = Carried(down)' \cup Carried(stash)' \cup Carried(drain)'
  BY DEF Transit, Carried
<1> QED BY <1>2, <1>3, <1>4, <1>5, <1>6 DEF Transit

\* A frame in order keeps the book of its market right.
LEMMA ApplyBooks ==
    ASSUME TypeOK, ToldOrServed, RightMarket, RightNumbers, RightBooks, OwnMarkets,
           UNCHANGED server, NEW f \in Transit, Apply(f), pc = "recv"
    PROVE  RightBooks'
<1> DEFINE c == clientOf[f.sid]
           t == TickerOf[c]
<1>1. f \in Frames BY TransitFrames
<1>2. /\ Data(f) /\ c # Nobody /\ InOrder(f)
      /\ watermark' = [watermark EXCEPT ![f.sid] = f.seq]
      /\ book' = [book EXCEPT ![f.ticker] = Fold(book[f.ticker], f)]
      /\ UNCHANGED <<sidOf, clientOf, pc>>
  BY DEF Apply, Routed, Data, subs
<1>3. f.sid \in Sids /\ f.seq \in Nat /\ f.ver \in Nat BY <1>1, <1>2, FrameKinds DEF Data
<1>4. f.ticker = t BY <1>2 DEF RightMarket
<1>5. c \in Clients /\ t \in Tickers /\ sidOf[c] = f.sid
  BY <1>2, <1>3 DEF TypeOK, SubsType, ToldOrServed, Tickers
<1>6. /\ f.seq >= 1 /\ f.ver + seq[f.sid] = f.seq + sent[f.sid]
      /\ seq[f.sid] \in Nat /\ sent[f.sid] \in Nat
  BY <1>2, <1>3 DEF RightNumbers, Numbered, TypeOK, ServerType
<1>7. UNCHANGED <<seq, sent>> BY DEF server
<1>8. /\ \A s \in Sids : watermark'[s] = IF s = f.sid THEN f.seq ELSE watermark[s]
      /\ \A u \in Tickers : book'[u] = IF u = t THEN Fold(book[t], f) ELSE book[u]
  BY <1>2, <1>3, <1>4, <1>5 DEF TypeOK, LocalType
<1>9. book[t] \in Books BY <1>5 DEF TypeOK, LocalType
<1>10. ASSUME NEW u \in Tickers, book[u].sid # NoSid
       PROVE  book[u].sid \in Sids /\ (book[u].sid = f.sid <=> u = t)
  <2>1. book[u].sid \in Sids BY <1>10 DEF TypeOK, LocalType, Books, Sids, NoSid
  <2>2. clientOf[book[u].sid] # Nobody /\ TickerOf[clientOf[book[u].sid]] = u
    BY <1>10 DEF RightBooks
  <2>3. CASE u = t
    <3>1. clientOf[book[u].sid] \in Clients BY <2>1, <2>2 DEF TypeOK, SubsType
    <3>2. clientOf[book[u].sid] = c BY <1>5, <2>2, <2>3, <3>1 DEF OwnMarkets
    <3> QED BY <1>5, <2>1, <2>2, <2>3, <3>2 DEF ToldOrServed
  <2> QED BY <2>1, <2>2, <2>3
<1>11. Fold(book[t], f).sid # NoSid =>
          /\ Fold(book[t], f).sid = f.sid
          /\ Fold(book[t], f).ver = f.ver /\ Fold(book[t], f).val = f.ver
  <2>1. CASE f.type = "snapshot" BY <2>1 DEF Fold
  <2>2. CASE f.type # "snapshot" /\ book[t].sid = NoSid BY <2>2 DEF Fold
  <2>3. CASE f.type # "snapshot" /\ book[t].sid # NoSid
    <3>1. book[t].sid = f.sid BY <1>5, <1>10, <2>3
    <3>2. /\ watermark[f.sid] > 0 /\ book[t].val = book[t].ver
          /\ book[t].ver + seq[f.sid] = watermark[f.sid] + sent[f.sid]
      BY <1>5, <2>3, <3>1 DEF RightBooks, Numbered
    <3>3. watermark[f.sid] = f.seq - 1 /\ watermark[f.sid] \in Nat
      BY <1>2, <1>3, <3>2 DEF InOrder, TypeOK, LocalType
    <3>4. book[t].val \in Nat /\ book[t].ver \in Nat BY <1>9 DEF Books
    <3>5. f.ver = book[t].val + 1 BY <1>3, <1>6, <3>2, <3>3, <3>4
    <3>6. Fold(book[t], f) = [book[t] EXCEPT !.val = book[t].val + 1, !.ver = f.ver]
      BY <2>3 DEF Fold
    <3>7. /\ Fold(book[t], f).sid = book[t].sid /\ Fold(book[t], f).ver = f.ver
          /\ Fold(book[t], f).val = book[t].val + 1
      BY <1>9, <3>6 DEF Books
    <3> QED BY <3>1, <3>5, <3>7
  <2> QED BY <2>1, <2>2, <2>3
<1> HIDE DEF c, t
<1>12. ASSUME NEW u \in Tickers, book'[u].sid # NoSid
       PROVE  LET s == book'[u].sid
              IN  /\ clientOf'[s] # Nobody /\ TickerOf[clientOf'[s]] = u
                  /\ watermark'[s] > 0
                  /\ book'[u].ver + seq'[s] = watermark'[s] + sent'[s]
                  /\ book'[u].val = book'[u].ver
  <2>1. CASE u = t
    <3>1. book'[u].sid = f.sid /\ book'[u].ver = f.ver /\ book'[u].val = f.ver
      BY <1>5, <1>8, <1>11, <1>12, <2>1
    <3>2. watermark'[f.sid] = f.seq BY <1>3, <1>8
    <3>3. clientOf'[f.sid] = c /\ c # Nobody /\ TickerOf[c] = t BY <1>2 DEF c, t
    <3> QED BY <1>3, <1>6, <1>7, <2>1, <3>1, <3>2, <3>3
  <2>2. CASE u # t
    <3>1. book'[u] = book[u] /\ book[u].sid # NoSid BY <1>8, <1>12, <2>2
    <3>2. watermark'[book[u].sid] = watermark[book[u].sid] BY <1>8, <1>10, <2>2, <3>1
    <3> QED BY <1>2, <1>7, <3>1, <3>2 DEF RightBooks, Numbered
  <2> QED BY <2>1, <2>2
<1>13. pc' \notin {"leave", "unsub"} BY <1>2
<1> QED BY <1>12, <1>13 DEF RightBooks, Numbered

\* Dropping the books of a sid leaves the others.
LEMMA BooksDropped ==
    ASSUME TypeOK, NEW s, book' = BooksWithout(s)
    PROVE  \A t \in Tickers :
               /\ book'[t] \in {book[t], NoBook}
               /\ book'[t].sid # NoSid => book'[t] = book[t] /\ book[t].sid \in Sids \ {s}
<1>1. \A t \in Tickers : book'[t] = IF book[t].sid = s THEN NoBook ELSE book[t]
  BY DEF BooksWithout
<1>2. \A t \in Tickers : book[t].sid # NoSid => book[t].sid \in Sids
  BY DEF TypeOK, LocalType, Books, Sids, NoSid
<1> QED BY <1>1, <1>2 DEF NoBook

\* The handling of one frame.
LEMMA ProcessBooks ==
    ASSUME ServeInv, BookInv, OwnMarkets, pc = "recv", UNCHANGED server,
           Transit' \subseteq Transit, NEW f \in Transit, NEW r \in BOOLEAN, Process(f, r)
    PROVE  BookInv'
<1>0. /\ TypeOK /\ ToldOrServed /\ Labels /\ RightBooks /\ f \in Frames
      /\ call = NoCall /\ RightMarket /\ RightNumbers
      /\ clientOf \in [Sids -> Clients \cup {Nobody}] /\ watermark \in [Sids -> Nat]
  BY TransitFrames DEF ServeInv, BookInv, Waiting, Labels, TypeOK, SubsType, LocalType
<1>1. CASE Ignore(f)
  <2>1. UNCHANGED <<up, msgId>> /\ UNCHANGED <<pc, call, clientOf, sidOf, book, watermark>>
    BY <1>1 DEF Ignore, Idle, local, subs
  <2>2. Labels' BY <1>0, <2>1, LabelsKept
  <2>3. RightBooks' BY <1>0, <2>1, BooksStay
  <2> QED BY <2>2, <2>3 DEF BookInv
<1>2. CASE Apply(f)
  <2>1. UNCHANGED <<up, msgId>> /\ UNCHANGED <<call, clientOf>>
    BY <1>2 DEF Apply, Idle, subs
  <2>2. Labels' BY <1>0, <2>1, LabelsKept
  <2>3. RightBooks' BY <1>0, <1>2, ApplyBooks
  <2> QED BY <2>2, <2>3 DEF BookInv
<1>3. CASE Gap(f, r)
  <2>1. /\ Data(f) /\ clientOf[f.sid] # Nobody /\ book' = BooksWithout(f.sid)
        /\ watermark' = [watermark EXCEPT ![f.sid] = 0]
        /\ call' = [client |-> clientOf[f.sid], id |-> msgId, replay |-> r]
        /\ Send(UnsubscribeCommand(f.sid)) /\ UNCHANGED <<clientOf, sidOf>>
    BY <1>3 DEF Gap, Routed, Data, subs
  <2>2. f.sid \in Sids BY <1>0, <2>1, FrameKinds DEF Data
  <2>3. /\ UnsubscribeCommand(f.sid) \in Commands
        /\ UnsubscribeCommand(f.sid).cmd = "unsubscribe" /\ UnsubscribeCommand(f.sid).id = msgId
    BY <1>0, <2>2, CommandsMade DEF UnsubscribeCommand
  <2>4. call'.id = msgId /\ call'.client = clientOf[f.sid] BY <2>1
  <2>5. Labels' BY <1>0, <2>1, <2>3, <2>4, LabelsCall
  <2>6. \A t \in Tickers :
           /\ book'[t] \in {book[t], NoBook}
           /\ book'[t].sid # NoSid => book'[t] = book[t] /\ book[t].sid \in Sids \ {f.sid}
    BY <1>0, <2>1, BooksDropped
  <2>7. sidOf'[call'.client] = f.sid /\ f.sid # NoSid
    BY <1>0, <2>1, <2>2, <2>4 DEF ToldOrServed, Sids, NoSid
  <2>8. \A s \in Sids \ {f.sid} : watermark'[s] = watermark[s] BY <1>0, <2>1
  <2>9. \A t \in Tickers : book'[t].sid # f.sid BY <2>6, <2>7
  <2>10. RightBooks' BY <1>0, <2>1, <2>6, <2>7, <2>8, <2>9, BooksStay
  <2> QED BY <2>5, <2>10 DEF BookInv
<1>4. CASE Unsubscribed(f)
  <2>1. UNCHANGED <<up, msgId>> /\ UNCHANGED <<pc, call, sidOf>> /\ f.type = "unsubscribed"
    BY <1>4 DEF Unsubscribed, Idle, subs
  <2>2. f.sid \in Sids BY <1>0, <2>1, FrameKinds
  <2>3. CASE UNCHANGED <<local, subs>>
    <3>1. UNCHANGED <<clientOf, book, watermark>> BY <2>3 DEF local, subs
    <3>2. Labels' BY <1>0, <2>1, <3>1, LabelsKept
    <3>3. RightBooks' BY <1>0, <2>1, <3>1, BooksStay
    <3> QED BY <3>2, <3>3 DEF BookInv
  <2>4. CASE /\ clientOf' = [clientOf EXCEPT ![f.sid] = Nobody]
             /\ watermark' = [watermark EXCEPT ![f.sid] = 0]
             /\ book' = BooksWithout(f.sid)
    <3>1. /\ \A s \in Sids \ {f.sid} : clientOf'[s] = clientOf[s] /\ watermark'[s] = watermark[s]
          /\ \A s \in Sids : clientOf'[s] \in {clientOf[s], Nobody}
      BY <1>0, <2>2, <2>4
    <3>2. \A t \in Tickers :
             /\ book'[t] \in {book[t], NoBook}
             /\ book'[t].sid # NoSid => book'[t] = book[t] /\ book[t].sid \in Sids \ {f.sid}
      BY <1>0, <2>4, BooksDropped
    <3>3. Labels' BY <1>0, <2>1, <3>1, LabelsKept
    <3>4. pc' \notin {"leave", "unsub"} BY <2>1
    <3>5. RightBooks' BY <1>0, <3>1, <3>2, <3>4, BooksStay
    <3> QED BY <3>3, <3>5 DEF BookInv
  <2> QED BY <1>4, <2>3, <2>4 DEF Unsubscribed
<1>5. CASE OrphanSubscribed(f)
  <2>1. UNCHANGED <<clientOf, sidOf, book, watermark>> /\ UNCHANGED <<pc, call>>
        /\ f.type = "subscribed"
    BY <1>5 DEF OrphanSubscribed, local, subs
  <2>2. f.sid \in Sids BY <1>0, <2>1, FrameKinds
  <2>3. UNCHANGED <<up, msgId>> \/ Send(UnsubscribeCommand(f.sid))
    BY <1>5 DEF OrphanSubscribed, Idle
  <2>4. ASSUME UNCHANGED <<up, msgId>> PROVE Labels' BY <1>0, <2>1, <2>4, LabelsKept
  <2>5. ASSUME Send(UnsubscribeCommand(f.sid)) PROVE Labels'
    <3>1. UnsubscribeCommand(f.sid) \in Commands /\ UnsubscribeCommand(f.sid).id = msgId
      BY <1>0, <2>2, CommandsMade DEF UnsubscribeCommand
    <3> QED BY <1>0, <2>1, <2>5, <3>1, LabelsSent
  <2>6. RightBooks' BY <1>0, <2>1, BooksStay
  <2> QED BY <2>3, <2>4, <2>5, <2>6 DEF BookInv
<1> QED BY <1>1, <1>2, <1>3, <1>4, <1>5 DEF Process

\* Reading, replaying and overhearing.
LEMMA ReadingBooks ==
    ASSUME ServeInv, BookInv, OwnMarkets, Read \/ Replay \/ Overhear
    PROVE  BookInv'
<1>0. TypeOK /\ Labels /\ RightBooks BY DEF ServeInv, BookInv
<1>1. CASE Read
  <2>1. /\ Process(Head(down), FALSE) /\ pc = "recv" /\ down # <<>> /\ down' = Tail(down)
        /\ UNCHANGED server /\ UNCHANGED <<stash, drain>>
    BY <1>1 DEF Read
  <2>2. Transit' \subseteq Transit /\ Head(down) \in Transit BY <1>0, <2>1, TransitLess
  <2>3. FALSE \in BOOLEAN OBVIOUS
  <2> QED BY <2>1, <2>2, <2>3, ProcessBooks, Zenon
<1>2. CASE Replay
  <2>1. /\ pc = "recv" /\ drain # <<>> /\ drain' = Tail(drain) /\ UNCHANGED <<down, stash>>
        /\ UNCHANGED server
    BY <1>2 DEF Replay
  <2>2. Transit' \subseteq Transit /\ Head(drain) \in Transit
    BY <1>0, <2>1, TransitLess
  <2>3. \/ Process(Head(drain), TRUE)
        \/ Idle /\ UNCHANGED <<local, subs, orphans, pc, call>>
    BY <1>2, Zenon DEF Replay
  <2>4. TRUE \in BOOLEAN OBVIOUS
  <2>5. CASE Process(Head(drain), TRUE) BY <2>1, <2>2, <2>4, <2>5, ProcessBooks, Zenon
  <2>6. CASE Idle /\ UNCHANGED <<local, subs, orphans, pc, call>>
    <3>1. UNCHANGED <<up, msgId>> /\ UNCHANGED <<pc, call, clientOf, sidOf, book, watermark>>
      BY <2>6 DEF Idle, local, subs
    <3>2. Labels' BY <1>0, <2>1, <2>2, <3>1, LabelsKept
    <3>3. RightBooks' BY <1>0, <2>1, <3>1, BooksStay
    <3> QED BY <3>2, <3>3 DEF BookInv
  <2> QED BY <2>3, <2>5, <2>6
<1>3. CASE Overhear
  <2>1. /\ down # <<>> /\ down' = Tail(down) /\ UNCHANGED server /\ drain' = drain
        /\ UNCHANGED <<up, msgId>> /\ UNCHANGED <<pc, call, clientOf, sidOf, book, watermark>>
    BY <1>3 DEF Overhear, local, subs
  <2>2. \/ stash' = stash
        \/ /\ Head(down).type \in {"snapshot", "delta", "unsubscribed"}
           /\ stash' = Stashed(Head(down))
    BY <1>3 DEF Overhear
  <2>3. Head(down) \in Frames BY <1>0, <2>1 DEF TypeOK, NetType
  <2>4. stash' = stash \/ (Head(down) \in Stashable /\ stash' = Stashed(Head(down)))
    BY <2>2, <2>3, FrameKinds
  <2>5. Transit' \subseteq Transit BY <1>0, <2>1, <2>4, TransitLess
  <2>6. Labels' BY <1>0, <2>1, <2>5, LabelsKept
  <2>7. RightBooks' BY <1>0, <2>1, BooksStay DEF RightBooks
  <2> QED BY <2>6, <2>7 DEF BookInv
<1> QED BY <1>1, <1>2, <1>3

\* The commands the client sends.
LEMMA AskingBooks ==
    ASSUME ServeInv, BookInv,
           \E c \in Clients : Subscribe(c) \/ Unsubscribe(c) \/ ResubscribeNext(c)
    PROVE  BookInv'
<1>0. /\ TypeOK /\ Labels /\ RightBooks /\ sidOf \in [Clients -> 0..MaxSid]
      /\ watermark \in [Sids -> Nat]
  BY DEF ServeInv, BookInv, TypeOK, SubsType, LocalType
<1>1. ASSUME NEW c \in Clients, Subscribe(c) \/ ResubscribeNext(c) PROVE BookInv'
  <2>1. /\ Send(SubscribeCommand(c))
        /\ call' = [client |-> c, id |-> msgId, replay |-> FALSE]
        /\ pc' \in {"subscribe", "reall"}
        /\ UNCHANGED server /\ UNCHANGED <<down, stash, drain>>
        /\ UNCHANGED <<clientOf, book, watermark>>
    BY <1>1 DEF Subscribe, ResubscribeNext, subs, local
  <2>2. /\ SubscribeCommand(c) \in Commands /\ SubscribeCommand(c).id = msgId
        /\ SubscribeCommand(c).ticker = TickerOf[call'.client] /\ call'.id = msgId
    BY <1>0, <2>1, CommandsMade DEF SubscribeCommand
  <2>3. Transit' \subseteq Transit BY <1>0, <2>1, TransitLess
  <2>4. Labels' BY <1>0, <2>1, <2>2, <2>3, LabelsCall
  <2>5. RightBooks' BY <1>0, <2>1, BooksStay
  <2> QED BY <2>4, <2>5 DEF BookInv
<1>2. ASSUME NEW c \in Clients, Unsubscribe(c) PROVE BookInv'
  <2>1. /\ Send(UnsubscribeCommand(sidOf[c])) /\ sidOf[c] # NoSid
        /\ call' = [client |-> c, id |-> msgId, replay |-> FALSE]
        /\ book' = BooksWithout(sidOf[c])
        /\ watermark' = [watermark EXCEPT ![sidOf[c]] = 0]
        /\ UNCHANGED server /\ UNCHANGED <<down, stash, drain>> /\ UNCHANGED <<clientOf, sidOf>>
    BY <1>2 DEF Unsubscribe, subs
  <2>2. sidOf[c] \in Sids BY <1>0, <2>1 DEF Sids, NoSid
  <2>3. /\ UnsubscribeCommand(sidOf[c]) \in Commands /\ UnsubscribeCommand(sidOf[c]).id = msgId
        /\ UnsubscribeCommand(sidOf[c]).cmd = "unsubscribe"
        /\ call'.id = msgId /\ call'.client = c
    BY <1>0, <2>1, <2>2, CommandsMade DEF UnsubscribeCommand
  <2>4. Transit' \subseteq Transit BY <1>0, <2>1, TransitLess
  <2>5. Labels' BY <1>0, <2>1, <2>3, <2>4, LabelsCall
  <2>6. \A t \in Tickers :
           /\ book'[t] \in {book[t], NoBook}
           /\ book'[t].sid # NoSid => book'[t] = book[t] /\ book[t].sid \in Sids \ {sidOf[c]}
    BY <1>0, <2>1, BooksDropped
  <2>7. \A s \in Sids \ {sidOf[c]} : watermark'[s] = watermark[s] BY <1>0, <2>1
  <2>8. \A t \in Tickers : book'[t].sid # sidOf[c] BY <2>1, <2>6
  <2>9. sidOf'[call'.client] = sidOf[c] BY <2>1, <2>3
  <2>10. RightBooks' BY <1>0, <2>1, <2>6, <2>7, <2>8, <2>9, BooksStay
  <2> QED BY <2>5, <2>10 DEF BookInv
<1> QED BY <1>1, <1>2

\* A new sid has no book yet.
LEMMA RegisteredBooks ==
    ASSUME ServeInv, BookInv, UNCHANGED server, Transit' \subseteq Transit,
           UNCHANGED <<up, msgId>>, call # NoCall, call.client \in Clients, call' = NoCall,
           Answered({"subscribed"}), Register(call.client, Head(down).sid),
           UNCHANGED <<book, watermark>>, pc' \notin {"leave", "unsub"}
    PROVE  BookInv'
<1>0. TypeOK /\ Waiting /\ Labels /\ RightBooks BY DEF ServeInv, BookInv
<1>1. /\ Labels'
      /\ clientOf[Head(down).sid] = Nobody
      /\ \A s \in Sids : s # Head(down).sid => clientOf'[s] = clientOf[s]
  BY <1>0, LabelsRegistered
<1>2. ASSUME NEW t \in Tickers, book[t].sid # NoSid
      PROVE  clientOf'[book[t].sid] = clientOf[book[t].sid]
  <2>1. book[t].sid \in Sids BY <1>0, <1>2 DEF TypeOK, LocalType, Books, Sids, NoSid
  <2>2. clientOf[book[t].sid] # Nobody BY <1>0, <1>2 DEF RightBooks
  <2> QED BY <1>1, <2>1, <2>2
<1>3. RightBooks' BY <1>0, <1>2, BooksStay
<1> QED BY <1>1, <1>3 DEF BookInv

\* A wait that ends without a new sid, the books left alone.
LEMMA WaitEndsBooks ==
    ASSUME ServeInv, BookInv, UNCHANGED server, Transit' \subseteq Transit,
           UNCHANGED <<up, msgId>>, call' \in {call, NoCall},
           UNCHANGED <<clientOf, book, watermark>>, pc' \notin {"leave", "unsub"}
    PROVE  BookInv'
<1>0. TypeOK /\ Labels /\ RightBooks BY DEF ServeInv, BookInv
<1>1. Labels' BY <1>0, LabelsKept
<1>2. RightBooks' BY <1>0, BooksStay
<1> QED BY <1>1, <1>2 DEF BookInv

\* subscribe and unsubscribe return to their caller.
LEMMA UserDoneBooks ==
    ASSUME ServeInv, BookInv, SubscribeDone \/ UnsubscribeDone
    PROVE  BookInv'
<1>0. TypeOK /\ Waiting /\ ToldOrServed /\ Labels /\ RightBooks /\ Nobody \notin Clients
      /\ clientOf \in [Sids -> Clients \cup {Nobody}]
  BY FeedAssumption DEF ServeInv, BookInv, TypeOK, SubsType
<1>1. CASE SubscribeDone
  <2>1. /\ UNCHANGED server /\ UNCHANGED <<up, msgId>> /\ UNCHANGED <<book, watermark>>
        /\ UNCHANGED <<stash, drain>> /\ pc = "subscribe" /\ pc' = "recv" /\ call' = NoCall
    BY <1>1 DEF SubscribeDone, Idle, local
  <2>2. call.client \in Clients /\ call # NoCall
    BY <1>0, <2>1 DEF Waiting, Awaiting, NoCall
  <2>3. \/ Answered({"subscribed"}) /\ Register(call.client, Head(down).sid)
        \/ (Answered({"error"}) \/ TimedOut \/ Lost) /\ UNCHANGED clientOf
    BY <1>1 DEF SubscribeDone
  <2>4. Transit' \subseteq Transit BY <1>0, <2>1, <2>3, WaitEnds, TransitLess
  <2>5. CASE Answered({"subscribed"}) /\ Register(call.client, Head(down).sid)
    BY <2>1, <2>2, <2>4, <2>5, RegisteredBooks
  <2>6. CASE UNCHANGED clientOf BY <2>1, <2>4, <2>6, WaitEndsBooks
  <2> QED BY <2>3, <2>5, <2>6
<1>2. CASE UnsubscribeDone
  <2>1. /\ UNCHANGED server /\ UNCHANGED <<up, msgId>> /\ UNCHANGED <<book, watermark>>
        /\ UNCHANGED <<stash, drain>> /\ pc = "leave" /\ pc' = "recv" /\ call' = NoCall
        /\ Answered({"unsubscribed", "error"}) \/ TimedOut \/ Lost
    BY <1>2 DEF UnsubscribeDone, Idle, local
  <2>2. call.client \in Clients /\ sidOf[call.client] \in Sids
    BY <1>0, <2>1 DEF Waiting, Awaiting
  <2>3. Transit' \subseteq Transit BY <1>0, <2>1, WaitEnds, TransitLess
  <2>4. \/ clientOf' = [clientOf EXCEPT ![sidOf[call.client]] = Nobody]
        \/ clientOf' = clientOf
    BY <1>2 DEF UnsubscribeDone, subs
  <2>5. CASE clientOf' = [clientOf EXCEPT ![sidOf[call.client]] = Nobody]
    <3>1. /\ \A s \in Sids : clientOf'[s] \in {clientOf[s], Nobody}
          /\ \A s \in Sids : s # sidOf[call.client] => clientOf'[s] = clientOf[s]
      BY <1>0, <2>2, <2>5
    <3>2. Labels' BY <1>0, <2>1, <2>3, <3>1, LabelsKept
    <3>3. ASSUME NEW t \in Tickers, book[t].sid # NoSid
          PROVE  clientOf'[book[t].sid] = clientOf[book[t].sid]
      <4>1. book[t].sid \in Sids BY <1>0, <3>3 DEF TypeOK, LocalType, Books, Sids, NoSid
      <4>2. book[t].sid # sidOf[call.client] BY <1>0, <2>1 DEF RightBooks
      <4> QED BY <3>1, <4>1, <4>2
    <3>4. RightBooks' BY <1>0, <2>1, <3>3, BooksStay
    <3> QED BY <3>2, <3>4 DEF BookInv
  <2>6. CASE clientOf' = clientOf BY <2>1, <2>3, <2>6, WaitEndsBooks
  <2> QED BY <2>4, <2>5, <2>6
<1> QED BY <1>1, <1>2

\* The recovery of a gap.
LEMMA RecoveryBooks ==
    ASSUME ServeInv, BookInv, Unsubscribing \/ Resubscribed \/ ResubscribeRefused \/ GapLost
    PROVE  BookInv'
<1>0. /\ TypeOK /\ Waiting /\ ToldOrServed /\ Labels /\ RightBooks /\ Nobody \notin Clients
      /\ clientOf \in [Sids -> Clients \cup {Nobody}] /\ call \in Calls
  BY FeedAssumption DEF ServeInv, BookInv, TypeOK, SubsType, ControlType, Calls
<1>1. CASE Unsubscribing
  <2>1. /\ UNCHANGED server /\ UNCHANGED <<book, watermark>>
        /\ UNCHANGED <<stash, drain>> /\ pc = "unsub" /\ pc' = "resub"
        /\ call' = [call EXCEPT !.id = msgId] /\ Send(SubscribeCommand(call.client))
        /\ clientOf' = [clientOf EXCEPT ![sidOf[call.client]] = Nobody]
        /\ Answered({"unsubscribed", "error"}) \/ TimedOut
    BY <1>1 DEF Unsubscribing, local
  <2>2. call.client \in Clients /\ sidOf[call.client] \in Sids
    BY <1>0, <2>1 DEF Waiting, Awaiting
  <2>3. call'.id = msgId /\ call'.client = call.client BY <1>0, <2>1 DEF Calls
  <2>4. /\ SubscribeCommand(call.client) \in Commands
        /\ SubscribeCommand(call.client).id = msgId
        /\ SubscribeCommand(call.client).ticker = TickerOf[call'.client]
    BY <1>0, <2>2, <2>3, CommandsMade DEF SubscribeCommand
  <2>5. Transit' \subseteq Transit BY <1>0, <2>1, WaitEnds, TransitLess
  <2>6. /\ \A s \in Sids : clientOf'[s] \in {clientOf[s], Nobody}
        /\ \A s \in Sids : s # sidOf[call.client] => clientOf'[s] = clientOf[s]
    BY <1>0, <2>1, <2>2
  <2>7. Labels' BY <1>0, <2>1, <2>3, <2>4, <2>5, <2>6, LabelsCall
  <2>8. ASSUME NEW t \in Tickers, book[t].sid # NoSid
        PROVE  clientOf'[book[t].sid] = clientOf[book[t].sid]
    <3>1. book[t].sid \in Sids BY <1>0, <2>8 DEF TypeOK, LocalType, Books, Sids, NoSid
    <3>2. book[t].sid # sidOf[call.client] BY <1>0, <2>1 DEF RightBooks
    <3> QED BY <2>6, <3>1, <3>2
  <2>9. RightBooks' BY <1>0, <2>1, <2>8, BooksStay
  <2> QED BY <2>7, <2>9 DEF BookInv
<1>2. CASE Resubscribed
  <2>1. /\ UNCHANGED server /\ UNCHANGED <<up, msgId>> /\ UNCHANGED <<book, watermark>>
        /\ stash' = <<>> /\ drain' = stash \o drain
        /\ pc = "resub" /\ pc' = "recv" /\ call' = NoCall
        /\ Answered({"subscribed"}) /\ Register(call.client, Head(down).sid)
    BY <1>2 DEF Resubscribed, TakeStash, Idle, local
  <2>2. call.client \in Clients /\ call # NoCall
    BY <1>0, <2>1 DEF Waiting, Awaiting, NoCall
  <2>3. Transit' \subseteq Transit BY <1>0, <2>1, WaitEnds, TransitLess
  <2> QED BY <2>1, <2>2, <2>3, RegisteredBooks
<1>3. CASE ResubscribeRefused \/ GapLost
  <2>1. /\ UNCHANGED server /\ UNCHANGED <<up, msgId>> /\ UNCHANGED <<book, watermark>>
        /\ UNCHANGED <<stash, drain>> /\ pc' \in {"recv", "crashed"} /\ call' = NoCall
        /\ UNCHANGED clientOf /\ (Answered({"error"}) \/ TimedOut \/ Lost)
    BY <1>3 DEF ResubscribeRefused, GapLost, StopAll, Remove, Idle, local
  <2>2. Transit' \subseteq Transit BY <1>0, <2>1, WaitEnds, TransitLess
  <2> QED BY <2>1, <2>2, WaitEndsBooks
<1> QED BY <1>1, <1>2, <1>3

\* A reconnect.
LEMMA ReconnectBooks ==
    ASSUME ServeInv, BookInv,
           Reconnect \/ ReconnectFailed \/ ResubscribedNext \/ ResubscribedAll
    PROVE  BookInv'
<1>0. /\ TypeOK /\ Waiting /\ Labels /\ RightBooks /\ Nobody \notin Clients
  BY FeedAssumption DEF ServeInv, BookInv
<1>1. CASE Reconnect
  <2>1. /\ ~connected /\ down = <<>> /\ down' = <<>> /\ drain = <<>> /\ drain' = <<>>
        /\ stash' = <<>> /\ pc = "recv" /\ pc' = "reall" /\ up' = up /\ call' = call
        /\ active' = active
        /\ clientOf' = [s \in Sids |-> Nobody] /\ book' = [t \in Tickers |-> NoBook]
    BY <1>1 DEF Reconnect, Lost, Idle
  <2>2. Transit' = {} BY <2>1 DEF Transit, Carried
  <2>3. /\ Carried(up)' = {} /\ \A s \in Sids : active'[s] = Nobody /\ clientOf'[s] = Nobody
    BY <2>1 DEF ServeInv, Cut, Carried
  <2>4. call' = NoCall BY <1>0, <2>1 DEF Waiting
  <2>5. Labels'
    BY <2>2, <2>3, <2>4 DEF Labels, Fresh, RightMarket, RightReply, RightNumbers
  <2>6. RightBooks' BY <2>1 DEF RightBooks, NoBook
  <2> QED BY <2>5, <2>6 DEF BookInv
<1>2. CASE ReconnectFailed
  <2>1. /\ UNCHANGED server /\ UNCHANGED <<up, msgId>> /\ UNCHANGED <<book, watermark>>
        /\ UNCHANGED <<down, stash, drain>> /\ pc' = "dead" /\ UNCHANGED <<call, clientOf>>
    BY <1>2 DEF ReconnectFailed, StopAll, local
  <2>2. Transit' \subseteq Transit BY <1>0, <2>1, TransitLess
  <2> QED BY <2>1, <2>2, WaitEndsBooks
<1>3. CASE ResubscribedNext
  <2>1. /\ UNCHANGED server /\ UNCHANGED <<up, msgId>> /\ UNCHANGED <<book, watermark>>
        /\ UNCHANGED <<stash, drain>> /\ pc = "reall" /\ pc' = "reall"
        /\ call # NoCall /\ call' = NoCall
    BY <1>3 DEF ResubscribedNext, Idle, local
  <2>2. call.client \in Clients
    BY <1>0, <2>1 DEF Waiting, Awaiting, TypeOK, SubsType
  <2>3. \/ Answered({"subscribed"}) /\ Register(call.client, Head(down).sid)
        \/ (Answered({"error"}) \/ TimedOut \/ Lost) /\ UNCHANGED clientOf
    BY <1>3 DEF ResubscribedNext, Remove
  <2>4. Transit' \subseteq Transit BY <1>0, <2>1, <2>3, WaitEnds, TransitLess
  <2>5. CASE Answered({"subscribed"}) /\ Register(call.client, Head(down).sid)
    BY <2>1, <2>2, <2>4, <2>5, RegisteredBooks
  <2>6. CASE UNCHANGED clientOf BY <2>1, <2>4, <2>6, WaitEndsBooks
  <2> QED BY <2>3, <2>5, <2>6
<1>4. CASE ResubscribedAll
  <2>1. /\ UNCHANGED server /\ UNCHANGED <<up, msgId>> /\ UNCHANGED <<book, watermark>>
        /\ down' = down /\ stash' = <<>> /\ drain' = stash \o drain
        /\ pc' = "recv" /\ UNCHANGED <<call, clientOf>>
    BY <1>4 DEF ResubscribedAll, TakeStash, local, subs
  <2>2. Transit' \subseteq Transit BY <1>0, <2>1, TransitLess
  <2> QED BY <2>1, <2>2, WaitEndsBooks
<1> QED BY <1>1, <1>2, <1>3, <1>4

-----------------------------------------------------------------------------
\* A step of the server that makes no sid: the frames it adds name a live sid,
\* if any, the market of that sid and the numbers it has reached.
LEMMA ServerBooks ==
    ASSUME ServeInv, BookInv, UNCHANGED <<subs, local, orphans, control, msgId>>,
           UNCHANGED <<version, nextSid>>, Carried(up)' \subseteq Carried(up),
           \A s \in Sids : active'[s] \in {active[s], Nobody},
           \A s \in Sids : sent'[s] + seq[s] = seq'[s] + sent[s],
           seq' \in [Sids -> Nat], sent' \in [Sids -> Nat],
           NEW new \in SUBSET Frames, Carried(down)' \subseteq Carried(down) \cup new,
           \A f \in new : f.type # "subscribed",
           \A f \in new : Data(f) =>
               /\ f.sid \in Sids /\ active[f.sid] # Nobody /\ f.ticker = active[f.sid]
               /\ f.seq >= 1 /\ f.ver + seq[f.sid] = f.seq + sent[f.sid]
    PROVE  BookInv'
<1>0. /\ TypeOK /\ Labels /\ RightBooks /\ seq \in [Sids -> Nat] /\ sent \in [Sids -> Nat]
      /\ UNCHANGED <<clientOf, sidOf, watermark, book, pc, call, stash, drain>>
      /\ clientOf \in [Sids -> Clients \cup {Nobody}]
  BY DEF ServeInv, BookInv, TypeOK, ServerType, SubsType, subs, local, control
<1>1. Transit' \subseteq Transit \cup new BY <1>0 DEF Transit, Carried
<1>2. \A f \in Transit : f \in Frames /\ (f.type # "error" => f.sid \in Sids)
  BY <1>0, TransitFrames, FrameKinds
<1>3. \A s \in Sids : active[s] # Nobody => s < nextSid
  BY <1>0 DEF Labels, Fresh, TypeOK, ServerType, Sids
<1>4. Fresh'
  <2>1. \A f \in Transit' : Naming(f) => f.sid < nextSid'
    BY <1>0, <1>1, <1>3 DEF Labels, Fresh, Naming, Data
  <2>2. \A s \in Sids : s >= nextSid' => active'[s] = Nobody /\ clientOf'[s] = Nobody
    BY <1>0 DEF Labels, Fresh
  <2>3. \A f \in Transit' : f.type = "subscribed" => f.id < msgId'
    BY <1>0, <1>1 DEF Labels, Fresh
  <2> QED BY <1>0, <2>1, <2>2, <2>3 DEF Labels, Fresh, Naming
<1>5. RightMarket'
  <2>1. ASSUME NEW f \in Transit', Data(f), clientOf'[f.sid] # Nobody
        PROVE  f.ticker = TickerOf[clientOf'[f.sid]]
    BY <1>0, <1>1, <2>1 DEF Labels, RightMarket
  <2>2. ASSUME NEW s \in Sids, clientOf'[s] # Nobody
        PROVE  active'[s] \in {Nobody, TickerOf[clientOf'[s]]}
    BY <1>0, <2>2 DEF Labels, RightMarket
  <2> QED BY <2>1, <2>2 DEF RightMarket, Data
<1>6. RightReply'
  <2> SUFFICES ASSUME call # NoCall
               PROVE  /\ \A u \in Carried(up)' : u.cmd = "subscribe" /\ u.id = call.id =>
                             u.ticker = TickerOf[call.client]
                      /\ \A a \in Transit' : a.type = "subscribed" /\ a.id = call.id =>
                             /\ clientOf[a.sid] = Nobody
                             /\ active'[a.sid] \in {Nobody, TickerOf[call.client]}
                             /\ \A f \in Transit' : Data(f) /\ f.sid = a.sid =>
                                    f.ticker = TickerOf[call.client]
    BY <1>0 DEF RightReply, Data
  <2>1. ASSUME NEW a \in Transit', a.type = "subscribed", a.id = call.id
        PROVE  /\ clientOf[a.sid] = Nobody
               /\ active'[a.sid] \in {Nobody, TickerOf[call.client]}
               /\ \A f \in Transit' : Data(f) /\ f.sid = a.sid =>
                      f.ticker = TickerOf[call.client]
    <3>1. a \in Transit /\ a.sid \in Sids BY <1>1, <1>2, <2>1
    <3>2. /\ clientOf[a.sid] = Nobody
          /\ active[a.sid] \in {Nobody, TickerOf[call.client]}
          /\ \A f \in Transit : Data(f) /\ f.sid = a.sid => f.ticker = TickerOf[call.client]
      BY <1>0, <2>1, <3>1 DEF Labels, RightReply
    <3> QED BY <1>1, <3>1, <3>2
  <2> QED BY <1>0, <2>1 DEF Labels, RightReply
<1>7. RightNumbers'
  <2> SUFFICES ASSUME NEW f \in Transit', Data(f)
               PROVE  f.seq >= 1 /\ f.ver + seq'[f.sid] = f.seq + sent'[f.sid]
    BY DEF RightNumbers, Numbered, Data
  <2>1. f \in Frames BY <1>1, <1>2
  <2>2. f.sid \in Sids /\ f.ver \in Nat /\ f.seq \in Nat BY <2>1, FrameKinds DEF Data
  <2>3. f.seq >= 1 /\ f.ver + seq[f.sid] = f.seq + sent[f.sid]
    BY <1>0, <1>1 DEF Labels, RightNumbers, Numbered
  <2>4. sent'[f.sid] + seq[f.sid] = seq'[f.sid] + sent[f.sid] BY <2>2
  <2>5. seq[f.sid] \in Nat /\ seq'[f.sid] \in Nat /\ sent[f.sid] \in Nat /\ sent'[f.sid] \in Nat
    BY <1>0, <2>2
  <2> QED BY <2>2, <2>3, <2>4, <2>5
<1>8. RightBooks'
  <2>1. ASSUME NEW t \in Tickers, book[t].sid # NoSid
        PROVE  book[t].ver + seq'[book[t].sid] = watermark[book[t].sid] + sent'[book[t].sid]
    <3>1. book[t].sid \in Sids /\ book[t].ver \in Nat
      BY <1>0, <2>1 DEF TypeOK, LocalType, Books, Sids, NoSid
    <3>2. watermark[book[t].sid] \in Nat BY <1>0, <3>1 DEF TypeOK, LocalType
    <3>3. book[t].ver + seq[book[t].sid] = watermark[book[t].sid] + sent[book[t].sid]
      BY <1>0, <2>1 DEF RightBooks, Numbered
    <3>4. sent'[book[t].sid] + seq[book[t].sid] = seq'[book[t].sid] + sent[book[t].sid]
      BY <3>1
    <3>5. /\ seq[book[t].sid] \in Nat /\ seq'[book[t].sid] \in Nat
          /\ sent[book[t].sid] \in Nat /\ sent'[book[t].sid] \in Nat
      BY <1>0, <3>1
    <3> QED BY <3>1, <3>2, <3>3, <3>4, <3>5
  <2> QED BY <1>0, <2>1 DEF RightBooks, Numbered
<1> QED BY <1>4, <1>5, <1>6, <1>7, <1>8 DEF BookInv, Labels

\* What is in the network after a frame is added or a command taken.
LEMMA NetCarries ==
    ASSUME TypeOK
    PROVE  /\ \A f \in Frames : Carried(Append(down, f)) = Carried(down) \cup {f}
           /\ \A f, g \in Frames :
                  Carried(Append(Append(down, f), g)) = Carried(down) \cup {f, g}
           /\ \A k \in 0..Len(down) : Carried(SubSeq(down, 1, k)) \subseteq Carried(down)
           /\ up # <<>> => Head(up) \in Carried(up) /\ Carried(Tail(up)) \subseteq Carried(up)
<1>1. down \in Seq(Frames) /\ up \in Seq(Commands) BY DEF TypeOK, NetType
<1>2. ASSUME NEW f \in Frames PROVE Carried(Append(down, f)) = Carried(down) \cup {f}
  <2>1. 0 \in 0..Len(down) BY <1>1
  <2> QED BY <1>1, <2>1, CarriedOps
<1>3. ASSUME NEW f \in Frames, NEW g \in Frames
      PROVE  Carried(Append(Append(down, f), g)) = Carried(down) \cup {f, g}
  <2> DEFINE q == Append(down, f)
  <2>1. q \in Seq(Frames) /\ Carried(q) = Carried(down) \cup {f} BY <1>1, <1>2
  <2> HIDE DEF q
  <2>2. 0 \in 0..Len(q) BY <2>1
  <2>3. Carried(Append(q, g)) = Carried(q) \cup {g} BY <2>1, <2>2, CarriedOps
  <2> QED BY <2>1, <2>3 DEF q
<1>4. ASSUME NEW k \in 0..Len(down)
      PROVE  Carried(SubSeq(down, 1, k)) \subseteq Carried(down)
  BY <1>1 DEF Carried
<1>5. ASSUME up # <<>>
      PROVE  Head(up) \in Carried(up) /\ Carried(Tail(up)) \subseteq Carried(up)
  <2>1. Head(up) \in Commands /\ 0 \in 0..Len(up) BY <1>1, <1>5
  <2> QED BY <1>1, <1>5, <2>1, CarriedOps
<1> QED BY <1>2, <1>3, <1>4, <1>5

\* No sid starts its numbers again in this step.
Onward == \A s \in Sids : Emit(s) => seq' = [seq EXCEPT ![s] = seq[s] + 1]

\* The next change of a sid, sent or lost.
LEMMA EmitBooks ==
    ASSUME ServeInv, BookInv, NEW s \in Sids, Emit(s), Onward
    PROVE  BookInv'
<1>0. /\ TypeOK /\ UNCHANGED <<subs, local, orphans, control, msgId>>
      /\ seq \in [Sids -> Nat] /\ sent \in [Sids -> Nat]
  BY DEF ServeInv, TypeOK, ServerType, Emit
<1>1. /\ active[s] \in Tickers /\ active[s] # Nobody
      /\ sent' = [sent EXCEPT ![s] = sent[s] + 1] /\ seq' = [seq EXCEPT ![s] = seq[s] + 1]
      /\ UNCHANGED <<version, active, nextSid, up>>
  BY <1>0, EmitSends DEF Emit, Onward
<1>2. /\ seq' \in [Sids -> Nat] /\ sent' \in [Sids -> Nat]
      /\ seq'[s] = seq[s] + 1 /\ seq[s] \in Nat /\ sent[s] \in Nat
      /\ \A r \in Sids : sent'[r] + seq[r] = seq'[r] + sent[r]
  BY <1>0, <1>1
<1>3. PICK ok \in BOOLEAN :
          \/ down' = Append(down, Delta(s, seq'[s], sent[s] + 1, ok))
          \/ down' = Append(Append(down, Delta(s, seq'[s], sent[s] + 1, ok)),
                            Delta(s, seq'[s], sent[s] + 1, ok))
          \/ down' = down
  BY <1>0, EmitSends, Zenon
<1> DEFINE f == Delta(s, seq'[s], sent[s] + 1, ok)
<1>4. f \in Frames
  <2>1. seq'[s] \in Nat /\ sent[s] + 1 \in Nat BY <1>2
  <2> QED BY <1>0, <1>1, <2>1, FramesMade, Zenon
<1>5. /\ f.type # "subscribed" /\ f.sid = s /\ f.ticker = active[s]
      /\ f.seq = seq[s] + 1 /\ f.ver = sent[s] + 1
  BY <1>2 DEF Delta
<1> HIDE DEF f
<1>6. Carried(down)' \subseteq Carried(down) \cup {f}
  <2>1. Carried(down)' = Carried(down') BY DEF Carried
  <2>2. down' = Append(down, f) \/ down' = Append(Append(down, f), f) \/ down' = down
    BY <1>3, Zenon DEF f
  <2>3. /\ Carried(Append(down, f)) = Carried(down) \cup {f}
        /\ Carried(Append(Append(down, f), f)) = Carried(down) \cup {f, f}
    BY <1>0, <1>4, NetCarries, Zenon
  <2>4. CASE down' = Append(down, f) BY <2>1, <2>3, <2>4
  <2>5. CASE down' = Append(Append(down, f), f) BY <2>1, <2>3, <2>5
  <2>6. CASE down' = down BY <2>1, <2>6
  <2> QED BY <2>2, <2>4, <2>5, <2>6
<1>7. Carried(up)' \subseteq Carried(up) BY <1>1 DEF Carried
<1>8. f.seq >= 1 /\ f.ver + seq[f.sid] = f.seq + sent[f.sid] BY <1>2, <1>5
<1> DEFINE new == {f}
<1>9. /\ new \in SUBSET Frames /\ Carried(down)' \subseteq Carried(down) \cup new
      /\ \A g \in new : g.type # "subscribed"
      /\ \A g \in new : Data(g) =>
             /\ g.sid \in Sids /\ active[g.sid] # Nobody /\ g.ticker = active[g.sid]
             /\ g.seq >= 1 /\ g.ver + seq[g.sid] = g.seq + sent[g.sid]
  BY <1>1, <1>4, <1>5, <1>6, <1>8
<1> HIDE DEF new
<1> QED BY <1>0, <1>1, <1>2, <1>7, <1>9, ServerBooks

\* The acknowledgement and the snapshot name a sid that is new to everyone.
LEMMA AcceptBooks ==
    ASSUME ServeInv, BookInv, AcceptSubscribe
    PROVE  BookInv'
<1> DEFINE s == nextSid
           t == Head(up).ticker
           ack == Reply("subscribed", Head(up).id, s)
<1>0. /\ TypeOK /\ Labels /\ RightBooks /\ seq \in [Sids -> Nat] /\ sent \in [Sids -> Nat]
      /\ active \in [Sids -> Tickers \cup {Nobody}]
      /\ clientOf \in [Sids -> Clients \cup {Nobody}]
  BY DEF ServeInv, BookInv, TypeOK, ServerType, SubsType
<1>1. UNCHANGED <<clientOf, sidOf, watermark, book, pc, call, stash, drain, msgId>>
  BY DEF AcceptSubscribe, subs, local, control
<1>2. /\ up # <<>> /\ s \in Sids /\ t \in Tickers /\ Head(up).id \in Nat
      /\ Head(up).cmd = "subscribe"
      /\ active' = [active EXCEPT ![s] = t] /\ seq' = [seq EXCEPT ![s] = 1]
      /\ sent' = [sent EXCEPT ![s] = version[t]] /\ version[t] \in Nat
      /\ nextSid' = s + 1 /\ up' = Tail(up)
  BY <1>0, AcceptSends, Zenon
<1>3. PICK ok \in BOOLEAN :
          LET snapshot == [type |-> "snapshot", sid |-> s, seq |-> 1, ticker |-> t,
                           ver |-> version[t], ok |-> ok]
          IN  /\ snapshot \in Frames
              /\ down' = Append(Append(down, ack), snapshot)
  BY <1>0, AcceptSends, Zenon
<1> DEFINE snapshot == [type |-> "snapshot", sid |-> s, seq |-> 1, ticker |-> t,
                        ver |-> version[t], ok |-> ok]
<1>4. ack \in Frames BY <1>0, <1>2, FramesMade
<1>5. /\ snapshot.type = "snapshot" /\ snapshot.sid = s /\ snapshot.seq = 1
      /\ snapshot.ticker = t /\ snapshot.ver = version[t]
      /\ ack.type = "subscribed" /\ ack.sid = s /\ ack.id = Head(up).id
  BY DEF Reply
<1> HIDE DEF snapshot, ack
<1>6. Transit' \subseteq Transit \cup {ack, snapshot}
  <2>1. snapshot \in Frames /\ down' = Append(Append(down, ack), snapshot)
    BY <1>3, Zenon DEF snapshot
  <2>2. Carried(down)' = Carried(down) \cup {ack, snapshot}
    <3>1. Carried(down)' = Carried(down') BY DEF Carried
    <3> QED BY <1>0, <1>4, <2>1, <3>1, NetCarries
  <2>3. Carried(stash)' = Carried(stash) /\ Carried(drain)' = Carried(drain)
    BY <1>1 DEF Carried
  <2> QED BY <2>2, <2>3 DEF Transit
<1>7. Head(up) \in Carried(up) /\ Carried(up)' \subseteq Carried(up)
  <2>1. Carried(up)' = Carried(Tail(up)) BY <1>2 DEF Carried
  <2> QED BY <1>0, <1>2, <2>1, NetCarries
<1>8. \A f \in Transit : /\ f \in Frames /\ (f.type # "error" => f.sid \in Sids)
                         /\ Naming(f) => f.sid \in Sids /\ f.sid # s /\ f.sid < s
  <2>1. nextSid \in Nat BY <1>2 DEF Sids
  <2>2. \A f \in Transit : Naming(f) => f.sid < s BY <1>0 DEF Labels, Fresh
  <2>3. \A f \in Transit : f \in Frames /\ (f.type # "error" => f.sid \in Sids)
    BY <1>0, TransitFrames, FrameKinds
  <2>4. ASSUME NEW f \in Transit, Naming(f) PROVE f.sid \in Sids /\ f.sid # s /\ f.sid < s
    <3>1. f.sid \in Sids /\ f.sid < s BY <2>2, <2>3, <2>4 DEF Naming
    <3> QED BY <2>1, <3>1 DEF Sids
  <2> QED BY <2>3, <2>4
<1>9. clientOf[s] = Nobody
  <2>1. s >= nextSid BY <1>2 DEF Sids
  <2> QED BY <1>0, <1>2, <2>1 DEF Labels, Fresh
<1>10. \A r \in Sids : r # s =>
          active'[r] = active[r] /\ seq'[r] = seq[r] /\ sent'[r] = sent[r]
  BY <1>0, <1>2
<1>11. active'[s] = t /\ seq'[s] = 1 /\ sent'[s] = version[t] BY <1>0, <1>2
<1>12. Fresh'
  <2>1. \A f \in Transit' : Naming(f) => f.sid < nextSid'
    <3>1. s < s + 1 /\ \A r \in Sids : r < s => r < s + 1 BY <1>2 DEF Sids
    <3> QED BY <1>2, <1>5, <1>6, <1>8, <3>1
  <2>2. ASSUME NEW r \in Sids, r >= nextSid'
        PROVE  active'[r] = Nobody /\ clientOf'[r] = Nobody
    <3>1. r >= nextSid /\ r # s BY <1>2, <2>2 DEF Sids
    <3> QED BY <1>0, <1>1, <1>10, <3>1 DEF Labels, Fresh
  <2>3. \A u \in Carried(up)' : u.id < msgId' BY <1>0, <1>1, <1>7 DEF Labels, Fresh
  <2>4. \A f \in Transit' : f.type = "subscribed" => f.id < msgId'
    BY <1>0, <1>1, <1>5, <1>6, <1>7 DEF Labels, Fresh
  <2>5. call' # NoCall => call'.id < msgId' BY <1>0, <1>1 DEF Labels, Fresh
  <2> QED BY <2>1, <2>2, <2>3, <2>4, <2>5 DEF Fresh, Naming
<1>13. RightMarket'
  <2>1. ASSUME NEW f \in Transit', Data(f), clientOf'[f.sid] # Nobody
        PROVE  f.ticker = TickerOf[clientOf'[f.sid]]
    <3>1. f \in Transit BY <1>1, <1>5, <1>6, <1>9, <2>1 DEF Data
    <3> QED BY <1>0, <1>1, <2>1, <3>1 DEF Labels, RightMarket
  <2>2. ASSUME NEW r \in Sids, clientOf'[r] # Nobody
        PROVE  active'[r] \in {Nobody, TickerOf[clientOf'[r]]}
    BY <1>0, <1>1, <1>9, <1>10, <2>2 DEF Labels, RightMarket
  <2> QED BY <2>1, <2>2 DEF RightMarket, Data
<1>14. RightReply'
  <2> SUFFICES ASSUME call # NoCall
               PROVE  /\ \A u \in Carried(up)' : u.cmd = "subscribe" /\ u.id = call.id =>
                             u.ticker = TickerOf[call.client]
                      /\ \A a \in Transit' : a.type = "subscribed" /\ a.id = call.id =>
                             /\ clientOf[a.sid] = Nobody
                             /\ active'[a.sid] \in {Nobody, TickerOf[call.client]}
                             /\ \A f \in Transit' : Data(f) /\ f.sid = a.sid =>
                                    f.ticker = TickerOf[call.client]
    BY <1>1 DEF RightReply, Data
  <2>1. ASSUME NEW a \in Transit', a.type = "subscribed", a.id = call.id
        PROVE  /\ clientOf[a.sid] = Nobody
               /\ active'[a.sid] \in {Nobody, TickerOf[call.client]}
               /\ \A f \in Transit' : Data(f) /\ f.sid = a.sid =>
                      f.ticker = TickerOf[call.client]
    <3>1. CASE a = ack
      <4>1. t = TickerOf[call.client]
        BY <1>0, <1>2, <1>5, <1>7, <2>1, <3>1 DEF Labels, RightReply
      <4>2. \A f \in Transit' : Data(f) /\ f.sid = s => f.ticker = t
        BY <1>5, <1>6, <1>8 DEF Data, Naming
      <4> QED BY <1>5, <1>9, <1>11, <3>1, <4>1, <4>2
    <3>2. CASE a \in Transit
      <4>1. a.sid \in Sids /\ a.sid # s BY <1>8, <2>1, <3>2 DEF Naming
      <4>2. /\ clientOf[a.sid] = Nobody
            /\ active[a.sid] \in {Nobody, TickerOf[call.client]}
            /\ \A f \in Transit : Data(f) /\ f.sid = a.sid => f.ticker = TickerOf[call.client]
        BY <1>0, <2>1, <3>2 DEF Labels, RightReply
      <4>3. \A f \in Transit' : Data(f) /\ f.sid = a.sid => f \in Transit
        BY <1>5, <1>6, <4>1 DEF Data
      <4> QED BY <1>10, <4>1, <4>2, <4>3
    <3>3. a = ack \/ a \in Transit BY <1>5, <1>6, <2>1
    <3> QED BY <3>1, <3>2, <3>3
  <2> QED BY <1>0, <1>7, <2>1 DEF Labels, RightReply
<1>15. RightNumbers'
  <2> SUFFICES ASSUME NEW f \in Transit', Data(f)
               PROVE  f.seq >= 1 /\ f.ver + seq'[f.sid] = f.seq + sent'[f.sid]
    BY DEF RightNumbers, Numbered, Data
  <2>1. CASE f = snapshot BY <1>2, <1>5, <1>11, <2>1
  <2>2. CASE f # snapshot
    <3>1. f \in Transit BY <1>5, <1>6, <2>2 DEF Data
    <3>2. f.sid \in Sids /\ f.sid # s BY <1>8, <3>1 DEF Data, Naming
    <3> QED BY <1>0, <1>10, <3>1, <3>2 DEF Labels, RightNumbers, Numbered
  <2> QED BY <2>1, <2>2
<1>16. RightBooks'
  <2>1. ASSUME NEW u \in Tickers, book[u].sid # NoSid
        PROVE  book[u].ver + seq'[book[u].sid] = watermark[book[u].sid] + sent'[book[u].sid]
    <3>1. book[u].sid \in Sids BY <1>0, <2>1 DEF TypeOK, LocalType, Books, Sids, NoSid
    <3>2. clientOf[book[u].sid] # Nobody
          /\ book[u].ver + seq[book[u].sid] = watermark[book[u].sid] + sent[book[u].sid]
      BY <1>0, <2>1 DEF RightBooks, Numbered
    <3>3. book[u].sid # s BY <1>9, <3>2
    <3> QED BY <1>10, <3>1, <3>2, <3>3
  <2> QED BY <1>0, <1>1, <2>1 DEF RightBooks, Numbered
<1> QED BY <1>12, <1>13, <1>14, <1>15, <1>16 DEF BookInv, Labels

\* The server and the network.
LEMMA EnvironmentBooks == ServeInv /\ BookInv /\ Onward /\ Environment => BookInv'
<1> SUFFICES ASSUME ServeInv, BookInv, Onward, Environment PROVE BookInv' OBVIOUS
<1>0. /\ TypeOK /\ UNCHANGED <<subs, local, orphans, control, msgId>>
      /\ seq \in [Sids -> Nat] /\ sent \in [Sids -> Nat]
      /\ active \in [Sids -> Tickers \cup {Nobody}] /\ up \in Seq(Commands)
  BY EnvironmentKeeps DEF ServeInv, TypeOK, ServerType, NetType
<1>1. ASSUME NEW t \in Tickers, Change(t) PROVE BookInv'
  <2>2. /\ UNCHANGED <<active, seq, sent, nextSid, up, down>>
        /\ UNCHANGED <<clientOf, sidOf, watermark, book, pc, call, stash, drain, msgId>>
    BY <1>1 DEF Change, subs, local, control
  <2>3. Labels /\ RightBooks BY DEF BookInv
  <2>4. Labels'
    BY <2>2, <2>3 DEF Labels, Fresh, RightMarket, RightReply, RightNumbers, Transit, Carried,
                      Numbered, Data, Naming
  <2>5. RightBooks' BY <2>2, <2>3 DEF RightBooks, Numbered
  <2> QED BY <2>4, <2>5 DEF BookInv
<1>2. ASSUME NEW s \in Sids, Emit(s) PROVE BookInv' BY <1>2, EmitBooks
<1>3. ASSUME NEW s \in Sids, Redeliver(s) PROVE BookInv'
  <2> DEFINE f == Delta(s, seq[s] - 1, sent[s] - 1, TRUE)
  <2>1. /\ active[s] # Nobody /\ seq[s] > 2 /\ sent[s] > 1 /\ down' = Append(down, f)
        /\ UNCHANGED server /\ UNCHANGED up
    BY <1>3 DEF Redeliver
  <2>2. f.sid = s /\ f.ticker = active[s] /\ f.seq = seq[s] - 1 /\ f.ver = sent[s] - 1
        /\ f.type = "delta"
    BY DEF Delta
  <2>3. f \in Frames
    <3>1. seq[s] - 1 \in Nat /\ sent[s] - 1 \in Nat BY <1>0, <2>1
    <3>2. TRUE \in BOOLEAN OBVIOUS
    <3> QED BY <1>0, <2>1, <3>1, <3>2, FramesMade, Zenon
  <2> HIDE DEF f
  <2>4. f.seq >= 1 /\ f.ver + seq[s] = f.seq + sent[s]
    <3>1. seq[s] \in Nat /\ sent[s] \in Nat /\ seq[s] > 2 BY <1>0, <2>1
    <3>2. f.seq = seq[s] - 1 /\ f.ver = sent[s] - 1 BY <2>2
    <3> QED BY <3>1, <3>2
  <2>5. Carried(down)' \subseteq Carried(down) \cup {f}
    <3>1. Carried(down)' = Carried(down') BY DEF Carried
    <3> QED BY <1>0, <2>1, <2>3, <3>1, NetCarries
  <2>6. Carried(up)' \subseteq Carried(up) BY <2>1 DEF Carried
  <2>7. /\ UNCHANGED <<version, nextSid>>
        /\ \A r \in Sids : active'[r] \in {active[r], Nobody}
        /\ \A r \in Sids : sent'[r] + seq[r] = seq'[r] + sent[r]
        /\ seq' \in [Sids -> Nat] /\ sent' \in [Sids -> Nat]
    BY <1>0, <2>1 DEF server
  <2> DEFINE new == {f}
  <2>8. /\ new \in SUBSET Frames /\ Carried(down)' \subseteq Carried(down) \cup new
        /\ \A g \in new : g.type # "subscribed"
        /\ \A g \in new : Data(g) =>
               /\ g.sid \in Sids /\ active[g.sid] # Nobody /\ g.ticker = active[g.sid]
               /\ g.seq >= 1 /\ g.ver + seq[g.sid] = g.seq + sent[g.sid]
    BY <2>1, <2>2, <2>3, <2>4, <2>5
  <2> HIDE DEF new
  <2> QED BY <1>0, <2>6, <2>7, <2>8, ServerBooks
<1>4. ASSUME NEW s \in Sids, NEW f \in Frames, f.type \in {"unsubscribed", "error"},
             down' = Append(down, f), active' \in {active, [active EXCEPT ![s] = Nobody]},
             UNCHANGED <<version, seq, sent, nextSid>>, Carried(up)' \subseteq Carried(up)
      PROVE  BookInv'
  <2>1. Carried(down)' \subseteq Carried(down) \cup {f}
    <3>1. Carried(down)' = Carried(down') BY DEF Carried
    <3> QED BY <1>0, <1>4, <3>1, NetCarries
  <2>2. /\ \A r \in Sids : active'[r] \in {active[r], Nobody}
        /\ \A r \in Sids : sent'[r] + seq[r] = seq'[r] + sent[r]
        /\ seq' \in [Sids -> Nat] /\ sent' \in [Sids -> Nat]
    BY <1>0, <1>4
  <2> DEFINE new == {f}
  <2>3. /\ new \in SUBSET Frames /\ Carried(down)' \subseteq Carried(down) \cup new
        /\ \A g \in new : g.type # "subscribed"
        /\ \A g \in new : ~Data(g)
    BY <1>4, <2>1 DEF Data
  <2> HIDE DEF new
  <2> QED BY <1>0, <1>4, <2>2, <2>3, ServerBooks
<1>5. ASSUME NEW s \in Sids, Reap(s) PROVE BookInv'
  <2>1. /\ down' = Append(down, Reply("unsubscribed", 0, s))
        /\ active' = [active EXCEPT ![s] = Nobody]
        /\ UNCHANGED <<version, seq, sent, nextSid, up>>
    BY <1>5 DEF Reap
  <2>2. Reply("unsubscribed", 0, s) \in Frames BY <1>0, FramesMade
  <2>3. Carried(up)' \subseteq Carried(up) BY <2>1 DEF Carried
  <2>4. Reply("unsubscribed", 0, s).type = "unsubscribed" BY DEF Reply
  <2> QED BY <1>4, <2>1, <2>2, <2>3, <2>4
<1>6. CASE RejectSubscribe
  <2>1. /\ up # <<>> /\ up' = Tail(up) /\ UNCHANGED server
        /\ down' = Append(down, Reply("error", Head(up).id, NoSid))
    BY <1>6 DEF RejectSubscribe
  <2>2. Head(up) \in Commands BY <1>0, <2>1
  <2>3. Reply("error", Head(up).id, NoSid) \in Frames
    BY <1>0, <2>2, FramesMade, FeedAssumption DEF Commands, NoSid
  <2>4. Carried(up)' \subseteq Carried(up)
    <3>1. Carried(up)' = Carried(Tail(up)) BY <2>1 DEF Carried
    <3> QED BY <1>0, <2>1, <3>1, NetCarries
  <2>5. Reply("error", Head(up).id, NoSid).type = "error" BY DEF Reply
  <2>6. UNCHANGED <<version, active, seq, sent, nextSid>> BY <2>1 DEF server
  <2> DEFINE new == {Reply("error", Head(up).id, NoSid)}
  <2>7. Carried(down)' \subseteq Carried(down) \cup new
    <3>1. Carried(down)' = Carried(down') BY DEF Carried
    <3> QED BY <1>0, <2>1, <2>3, <3>1, NetCarries
  <2>8. /\ new \in SUBSET Frames /\ \A g \in new : g.type # "subscribed"
        /\ \A g \in new : ~Data(g)
    BY <2>3, <2>5 DEF Data
  <2>9. /\ \A r \in Sids : active'[r] \in {active[r], Nobody}
        /\ \A r \in Sids : sent'[r] + seq[r] = seq'[r] + sent[r]
        /\ seq' \in [Sids -> Nat] /\ sent' \in [Sids -> Nat]
    BY <1>0, <2>6
  <2> HIDE DEF new
  <2> QED BY <1>0, <2>4, <2>6, <2>7, <2>8, <2>9, ServerBooks
<1>7. CASE AnswerUnsubscribe
  <2> DEFINE s == Head(up).sid
  <2>1. /\ up # <<>> /\ Head(up).cmd = "unsubscribe" /\ up' = Tail(up)
        /\ active' = [active EXCEPT ![s] = Nobody]
        /\ UNCHANGED <<version, seq, sent, nextSid>>
    BY <1>7 DEF AnswerUnsubscribe
  <2>2. Head(up) \in Commands BY <1>0, <2>1
  <2>3. s \in Sids /\ s \in 0..MaxSid /\ Head(up).id \in Nat
    BY <2>1, <2>2 DEF Commands, Sids
  <2>4. PICK t \in {"error", "unsubscribed"} : down' = Append(down, Reply(t, Head(up).id, s))
    BY <1>7, Zenon DEF AnswerUnsubscribe
  <2>5. Reply(t, Head(up).id, s) \in Frames BY <1>0, <2>3, FramesMade
  <2>6. Reply(t, Head(up).id, s).type \in {"unsubscribed", "error"} BY DEF Reply
  <2>7. Carried(up)' \subseteq Carried(up)
    <3>1. Carried(up)' = Carried(Tail(up)) BY <2>1 DEF Carried
    <3> QED BY <1>0, <2>1, <3>1, NetCarries
  <2> QED BY <1>4, <2>1, <2>3, <2>4, <2>5, <2>6, <2>7
<1>8. CASE AcceptSubscribe BY <1>8, AcceptBooks
<1>9. CASE Drop
  <2>1. /\ up' = <<>> /\ active' = [s \in Sids |-> Nobody]
        /\ UNCHANGED <<version, seq, sent, nextSid>>
    BY <1>9 DEF Drop
  <2>2. PICK k \in 0..Len(down) : down' = SubSeq(down, 1, k) BY <1>9 DEF Drop
  <2>3. Carried(down)' \subseteq Carried(down)
    <3>1. Carried(down)' = Carried(down') BY DEF Carried
    <3>2. Carried(SubSeq(down, 1, k)) \subseteq Carried(down) BY <1>0, NetCarries
    <3> QED BY <2>2, <3>1, <3>2
  <2>4. Carried(up)' \subseteq Carried(up) BY <2>1 DEF Carried
  <2>5. /\ \A r \in Sids : active'[r] \in {active[r], Nobody}
        /\ \A r \in Sids : sent'[r] + seq[r] = seq'[r] + sent[r]
        /\ seq' \in [Sids -> Nat] /\ sent' \in [Sids -> Nat]
    BY <1>0, <2>1
  <2> DEFINE new == {}
  <2>6. /\ new \in SUBSET Frames /\ Carried(down)' \subseteq Carried(down) \cup new
        /\ \A f \in new : f.type # "subscribed"
        /\ \A f \in new : ~Data(f)
    BY <2>3
  <2> HIDE DEF new
  <2> QED BY <1>0, <2>1, <2>4, <2>5, <2>6, ServerBooks
<1> QED BY <1>1, <1>2, <1>3, <1>5, <1>6, <1>7, <1>8, <1>9, Zenon DEF Environment

\* The first snapshots are read.
LEMMA InitBooks == Init => BookInv
<1> SUFFICES ASSUME Init PROVE BookInv OBVIOUS
<1>1. /\ up = <<>> /\ down = <<>> /\ stash = <<>> /\ drain = <<>>
      /\ call = NoCall /\ pc = "recv" /\ nextSid = Cardinality(Early) + 1
      /\ \A s \in Sids : /\ clientOf[s] = ClientOn(s)
                         /\ active[s] = IF ClientOn(s) = Nobody THEN Nobody
                                        ELSE TickerOf[ClientOn(s)]
                         /\ seq[s] = IF ClientOn(s) = Nobody THEN 0 ELSE 1
                         /\ sent[s] = 0
      /\ watermark = seq
  BY DEF Init
<1>2. Transit = {} /\ Carried(up) = {} BY <1>1 DEF Transit, Carried
<1>3. Fresh
  <2>1. ASSUME NEW s \in Sids, s >= nextSid PROVE active[s] = Nobody /\ clientOf[s] = Nobody
    <3>1. ~(s <= Cardinality(Early)) BY <1>1, <2>1, FirstSids DEF Sids
    <3>2. ClientOn(s) = Nobody BY <3>1, OnFirst
    <3> QED BY <1>1, <3>2
  <2> QED BY <1>1, <1>2, <2>1 DEF Fresh
<1>4. RightMarket BY <1>1, <1>2 DEF RightMarket
<1>5. RightReply /\ RightNumbers BY <1>1, <1>2 DEF RightReply, RightNumbers
<1>6. ASSUME NEW t \in Tickers, book[t].sid # NoSid
      PROVE  LET s == book[t].sid
             IN  /\ clientOf[s] # Nobody /\ TickerOf[clientOf[s]] = t
                 /\ watermark[s] > 0 /\ book[t].ver + seq[s] = watermark[s] + sent[s]
                 /\ book[t].val = book[t].ver
  <2>1. IF \E c \in Early : TickerOf[c] = t
        THEN \E c \in Early : TickerOf[c] = t /\ book[t] = FirstBook(c)
        ELSE book[t] = NoBook
    BY DEF Init
  <2>2. PICK c \in Early : TickerOf[c] = t /\ book[t] = FirstBook(c)
    BY <1>6, <2>1 DEF NoBook
  <2>3. FirstSid[c] \in Sids /\ ClientOn(FirstSid[c]) = c /\ c # Nobody BY OnFirst
  <2>4. book[t].sid = FirstSid[c] /\ book[t].val = 0 /\ book[t].ver = 0
    BY <2>2 DEF FirstBook
  <2>5. /\ clientOf[FirstSid[c]] = c /\ seq[FirstSid[c]] = 1 /\ sent[FirstSid[c]] = 0
        /\ watermark[FirstSid[c]] = 1
    BY <1>1, <2>3
  <2> QED BY <2>2, <2>3, <2>4, <2>5
<1>7. RightBooks BY <1>1, <1>6 DEF RightBooks, Numbered
<1> QED BY <1>3, <1>4, <1>5, <1>7 DEF BookInv, Labels

\* Every step keeps the invariant.
LEMMA BookStep ==
    ASSUME OwnMarkets, ServeInv, BookInv, [Next]_vars, Onward
    PROVE  BookInv'
<1>1. CASE Environment BY <1>1, EnvironmentBooks
<1>2. CASE Read \/ Replay \/ Overhear BY <1>2, ReadingBooks
<1>3. ASSUME NEW c \in Clients, Subscribe(c) \/ Unsubscribe(c) \/ ResubscribeNext(c)
      PROVE  BookInv'
  BY <1>3, AskingBooks, Zenon
<1>4. CASE SubscribeDone \/ UnsubscribeDone BY <1>4, UserDoneBooks
<1>5. CASE Unsubscribing \/ Resubscribed \/ ResubscribeRefused \/ GapLost
  BY <1>5, RecoveryBooks
<1>6. CASE Reconnect \/ ReconnectFailed \/ ResubscribedNext \/ ResubscribedAll
  BY <1>6, ReconnectBooks
<1>7. CASE UNCHANGED vars
  <2>1. /\ UNCHANGED <<active, seq, sent, nextSid, up, down>>
        /\ UNCHANGED <<clientOf, sidOf, watermark, book, pc, call, stash, drain, msgId>>
    BY <1>7 DEF vars, server, subs, local, control
  <2>2. Labels /\ RightBooks BY DEF BookInv
  <2>3. Labels'
    BY <2>1, <2>2 DEF Labels, Fresh, RightMarket, RightReply, RightNumbers, Transit, Carried,
                      Numbered, Data, Naming
  <2>4. RightBooks' BY <2>1, <2>2 DEF RightBooks, Numbered
  <2> QED BY <2>3, <2>4 DEF BookInv
<1> QED BY <1>1, <1>2, <1>3, <1>4, <1>5, <1>6, <1>7, Zenon DEF Next, ClientStep

\* The inductive invariant of BookExact holds in every state.
LEMMA BooksAlways ==
    ASSUME NoResets, OwnMarkets
    PROVE  Spec => []BookInv
<1>1. Init => BookInv BY InitBooks
<1>2. ServeInv /\ BookInv /\ [Next]_vars => BookInv'
  <2>1. ServeInv => Onward BY EmitSends DEF ServeInv, NoResets, Onward
  <2> QED BY <2>1, BookStep
<1> QED BY <1>1, <1>2, ServeAlways, PTL DEF Spec

(* Where no sid is numbered afresh and no two subscriptions share a market,   *)
(* a local book is exactly the server's book at the last frame applied to it: *)
(* no gap, repeat, redelivery, malformed or stashed frame, refusal, loss of   *)
(* the connection or end of a subscription makes _process_frame lose or       *)
(* double a delta without dropping the book.                                  *)
THEOREM BooksAreExact ==
    ASSUME NoResets, OwnMarkets
    PROVE  Spec => []BookExact
<1>1. BookInv => BookExact
  <2> SUFFICES ASSUME BookInv PROVE BookExact OBVIOUS
  <2>1. RightBooks BY DEF BookInv
  <2> QED BY <2>1 DEF RightBooks, BookExact
<1> QED BY <1>1, BooksAlways, PTL

-----------------------------------------------------------------------------
\* No frame, and no sid, is ahead of its market, and a snapshot is the first frame
\* of its sid.
NotAhead ==
    /\ \A f \in Transit : Data(f) =>
          f.ver <= version[f.ticker] /\ (f.type = "snapshot" => f.seq = 1)
    /\ \A s \in Sids : active[s] # Nobody => sent[s] <= version[active[s]]

\* The client makes no frames; a step of it leaves the books alone, gives some up,
\* or applies a frame.
LEMMA ClientEffects ==
    ASSUME TypeOK, ClientStep \/ \E c \in Clients : Subscribe(c) \/ Unsubscribe(c)
    PROVE  /\ UNCHANGED <<version, active, seq, sent>> /\ Transit' \subseteq Transit
           /\ \/ UNCHANGED book
              \/ \E s : book' = BooksWithout(s)
              \/ book' = [t \in Tickers |-> NoBook]
              \/ pc = "recv" /\ UNCHANGED server /\ \E f \in Transit : Apply(f)
<1> DEFINE Numbers == UNCHANGED <<version, active, seq, sent>>
           Effect == \/ UNCHANGED book
                     \/ \E s : book' = BooksWithout(s)
                     \/ book' = [t \in Tickers |-> NoBook]
                     \/ pc = "recv" /\ UNCHANGED server /\ \E f \in Transit : Apply(f)
<1>1. ASSUME NEW f \in Transit, NEW r \in BOOLEAN, Process(f, r), pc = "recv", UNCHANGED server
      PROVE  Effect
  <2>1. CASE Ignore(f) BY <2>1 DEF Ignore, local
  <2>2. CASE Apply(f) BY <1>1, <2>2
  <2>3. CASE Gap(f, r) BY <2>3 DEF Gap
  <2>4. CASE Unsubscribed(f) BY <2>4 DEF Unsubscribed, local
  <2>5. CASE OrphanSubscribed(f) BY <2>5 DEF OrphanSubscribed, local
  <2> QED BY <1>1, <2>1, <2>2, <2>3, <2>4, <2>5, Zenon DEF Process
<1>2. CASE Read
  <2>1. /\ Process(Head(down), FALSE) /\ pc = "recv" /\ down # <<>> /\ down' = Tail(down)
        /\ UNCHANGED server /\ UNCHANGED <<stash, drain>>
    BY <1>2 DEF Read
  <2>2. Transit' \subseteq Transit /\ Head(down) \in Transit BY <2>1, TransitLess
  <2>3. FALSE \in BOOLEAN OBVIOUS
  <2>4. Effect BY <1>1, <2>1, <2>2, <2>3, Zenon
  <2> QED BY <2>1, <2>2, <2>4 DEF server
<1>3. CASE Replay
  <2>1. /\ pc = "recv" /\ drain # <<>> /\ drain' = Tail(drain) /\ UNCHANGED <<down, stash>>
        /\ UNCHANGED server
    BY <1>3 DEF Replay
  <2>2. Transit' \subseteq Transit /\ Head(drain) \in Transit BY <2>1, TransitLess
  <2>3. Process(Head(drain), TRUE) \/ UNCHANGED <<local, subs, orphans, pc, call>>
    BY <1>3, Zenon DEF Replay
  <2>4. TRUE \in BOOLEAN OBVIOUS
  <2>5. CASE Process(Head(drain), TRUE)
    <3>1. Effect BY <1>1, <2>1, <2>2, <2>4, <2>5, Zenon
    <3> QED BY <2>1, <2>2, <3>1 DEF server
  <2>6. CASE UNCHANGED <<local, subs, orphans, pc, call>> BY <2>1, <2>2, <2>6 DEF local, server
  <2> QED BY <2>3, <2>5, <2>6
<1>4. CASE Overhear
  <2>1. /\ down # <<>> /\ down' = Tail(down) /\ UNCHANGED server /\ drain' = drain
        /\ UNCHANGED book
    BY <1>4 DEF Overhear, local
  <2>2. \/ stash' = stash
        \/ /\ Head(down).type \in {"snapshot", "delta", "unsubscribed"}
           /\ stash' = Stashed(Head(down))
    BY <1>4 DEF Overhear
  <2>3. Head(down) \in Frames BY <2>1 DEF TypeOK, NetType
  <2>4. stash' = stash \/ (Head(down) \in Stashable /\ stash' = Stashed(Head(down)))
    BY <2>2, <2>3, FrameKinds
  <2>5. Transit' \subseteq Transit BY <2>1, <2>4, TransitLess
  <2> QED BY <2>1, <2>5 DEF server
<1>5. ASSUME NEW c \in Clients, Subscribe(c) \/ Unsubscribe(c) \/ ResubscribeNext(c)
      PROVE  Numbers /\ Transit' \subseteq Transit /\ Effect
  <2>1. UNCHANGED server /\ UNCHANGED <<down, stash, drain>>
    BY <1>5 DEF Subscribe, Unsubscribe, ResubscribeNext
  <2>2. Transit' \subseteq Transit BY <2>1, TransitLess
  <2>3. UNCHANGED book \/ book' = BooksWithout(sidOf[c])
    BY <1>5 DEF Subscribe, Unsubscribe, ResubscribeNext, local
  <2> QED BY <2>1, <2>2, <2>3 DEF server
<1>6. CASE SubscribeDone \/ UnsubscribeDone \/ Unsubscribing \/ ResubscribeRefused \/ GapLost
           \/ ResubscribedNext
  <2>1. /\ UNCHANGED server /\ UNCHANGED <<stash, drain>> /\ UNCHANGED book
        /\ \/ \E types : Answered(types)
           \/ TimedOut \/ Lost
    BY <1>6, Zenon DEF SubscribeDone, UnsubscribeDone, Unsubscribing, ResubscribeRefused, GapLost,
                       ResubscribedNext, local
  <2>2. Transit' \subseteq Transit BY <2>1, WaitEnds, TransitLess
  <2> QED BY <2>1, <2>2 DEF server
<1>7. CASE Resubscribed \/ ResubscribedAll
  <2>1. /\ UNCHANGED server /\ stash' = <<>> /\ drain' = stash \o drain /\ UNCHANGED book
        /\ Answered({"subscribed"}) \/ UNCHANGED down
    BY <1>7 DEF Resubscribed, ResubscribedAll, TakeStash, local
  <2>2. Transit' \subseteq Transit BY <2>1, WaitEnds, TransitLess
  <2> QED BY <2>1, <2>2 DEF server
<1>8. CASE Reconnect
  <2>1. /\ Numbers /\ drain' = drain /\ stash' = <<>> /\ Lost
        /\ book' = [t \in Tickers |-> NoBook]
    BY <1>8 DEF Reconnect
  <2>2. Transit' \subseteq Transit BY <2>1, WaitEnds, TransitLess
  <2> QED BY <2>1, <2>2
<1>9. CASE ReconnectFailed
  <2>1. UNCHANGED server /\ UNCHANGED <<down, stash, drain>> /\ UNCHANGED book
    BY <1>9 DEF ReconnectFailed, local
  <2>2. Transit' \subseteq Transit BY <2>1, TransitLess
  <2> QED BY <2>1, <2>2 DEF server
<1> HIDE DEF Effect, Numbers
<1>10. Numbers /\ Transit' \subseteq Transit /\ Effect
  BY <1>2, <1>3, <1>4, <1>5, <1>6, <1>7, <1>8, <1>9, Zenon DEF ClientStep, Effect, Numbers
<1> QED BY <1>10 DEF Effect, Numbers

\* A step that adds only frames that are not ahead keeps it.
LEMMA NotAheadKept ==
    ASSUME TypeOK, NotAhead,
           \A t \in Tickers : version'[t] \in Nat /\ version[t] <= version'[t],
           \A f \in Transit' : Data(f) =>
               \/ f \in Transit
               \/ f.ver <= version'[f.ticker] /\ (f.type = "snapshot" => f.seq = 1),
           \A s \in Sids : active'[s] # Nobody =>
               \/ sent'[s] <= version'[active'[s]]
               \/ active'[s] = active[s] /\ sent'[s] = sent[s]
    PROVE  NotAhead'
<1>1. version \in [Tickers -> Nat] /\ sent \in [Sids -> Nat]
      /\ active \in [Sids -> Tickers \cup {Nobody}]
  BY DEF TypeOK, ServerType
<1>2. ASSUME NEW f \in Transit', Data(f)
      PROVE  f.ver <= version'[f.ticker] /\ (f.type = "snapshot" => f.seq = 1)
  <2>1. CASE f \notin Transit BY <1>2, <2>1
  <2>2. CASE f \in Transit
    <3>1. f \in Frames BY <2>2, TransitFrames
    <3>2. f.ticker \in Tickers /\ f.ver \in Nat BY <1>2, <3>1, FrameKinds
    <3>3. f.ver <= version[f.ticker] /\ (f.type = "snapshot" => f.seq = 1)
      BY <1>2, <2>2 DEF NotAhead
    <3> QED BY <1>1, <3>2, <3>3
  <2> QED BY <2>1, <2>2
<1>3. ASSUME NEW s \in Sids, active'[s] # Nobody PROVE sent'[s] <= version'[active'[s]]
  <2>1. CASE active'[s] = active[s] /\ sent'[s] = sent[s]
    <3>1. active[s] \in Tickers /\ sent[s] \in Nat BY <1>1, <1>3, <2>1
    <3>2. sent[s] <= version[active[s]] BY <1>3, <2>1 DEF NotAhead
    <3> QED BY <1>1, <2>1, <3>1, <3>2
  <2> QED BY <1>3, <2>1
<1> QED BY <1>2, <1>3 DEF NotAhead, Data

\* The server sends what has happened.
LEMMA EnvironmentNotAhead ==
    ASSUME TypeOK, NotAhead, Environment
    PROVE  NotAhead'
<1>0. /\ version \in [Tickers -> Nat] /\ sent \in [Sids -> Nat] /\ seq \in [Sids -> Nat]
      /\ active \in [Sids -> Tickers \cup {Nobody}] /\ UNCHANGED <<stash, drain>>
      /\ down \in Seq(Frames)
  BY EnvironmentKeeps DEF TypeOK, ServerType, NetType, control
<1>1. ASSUME NEW t \in Tickers, Change(t) PROVE NotAhead'
  <2>1. /\ version' = [version EXCEPT ![t] = version[t] + 1] /\ UNCHANGED <<active, sent, down>>
    BY <1>1 DEF Change
  <2>2. Transit' \subseteq Transit BY <1>0, <2>1 DEF Transit, Carried
  <2>3. \A u \in Tickers : version'[u] \in Nat /\ version[u] <= version'[u] BY <1>0, <2>1
  <2> QED BY <2>1, <2>2, <2>3, NotAheadKept
<1>2. ASSUME NEW s \in Sids, Emit(s) PROVE NotAhead'
  <2>1. /\ active[s] \in Tickers /\ sent[s] < version[active[s]]
        /\ sent' = [sent EXCEPT ![s] = sent[s] + 1] /\ UNCHANGED <<version, active>>
        /\ seq' = [seq EXCEPT ![s] = seq[s] + 1] \/ seq' = [seq EXCEPT ![s] = 1]
    BY <1>0, <1>2, EmitSends DEF Emit
  <2>2. PICK ok \in BOOLEAN :
            \/ down' = Append(down, Delta(s, seq'[s], sent[s] + 1, ok))
            \/ down' = Append(Append(down, Delta(s, seq'[s], sent[s] + 1, ok)),
                              Delta(s, seq'[s], sent[s] + 1, ok))
            \/ down' = down
    BY <1>2, EmitSends, Zenon
  <2> DEFINE f == Delta(s, seq'[s], sent[s] + 1, ok)
  <2>3. f \in Frames
    <3>1. seq'[s] \in Nat /\ sent[s] + 1 \in Nat /\ active[s] # Nobody
      BY <1>0, <2>1, FeedAssumption DEF Tickers
    <3> QED BY <3>1, FramesMade, Zenon
  <2>4. f.ver = sent[s] + 1 /\ f.ticker = active[s] /\ f.type = "delta" BY DEF Delta
  <2>5. down' = Append(down, f) \/ down' = Append(Append(down, f), f) \/ down' = down
    BY <2>2, Zenon
  <2> HIDE DEF f
  <2>6. Carried(down)' \subseteq Carried(down) \cup {f}
    <3>1. /\ Carried(Append(down, f)) = Carried(down) \cup {f}
          /\ Carried(Append(Append(down, f), f)) = Carried(down) \cup {f, f}
      BY <2>3, NetCarries
    <3> QED BY <2>5, <3>1 DEF Carried
  <2>7. Transit' \subseteq Transit \cup {f} BY <1>0, <2>6 DEF Transit, Carried
  <2>8. f.ver <= version'[f.ticker] BY <1>0, <2>1, <2>4
  <2>9. \A r \in Sids : active'[r] # Nobody =>
            sent'[r] <= version'[active'[r]] \/ (active'[r] = active[r] /\ sent'[r] = sent[r])
    BY <1>0, <2>1
  <2> QED BY <1>0, <2>1, <2>3, <2>4, <2>7, <2>8, <2>9, NotAheadKept
<1>3. ASSUME NEW s \in Sids, Redeliver(s) PROVE NotAhead'
  <2> DEFINE f == Delta(s, seq[s] - 1, sent[s] - 1, TRUE)
  <2>1. /\ active[s] # Nobody /\ UNCHANGED server /\ seq[s] > 2 /\ sent[s] > 1
        /\ down' = Append(down, f)
    BY <1>3 DEF Redeliver
  <2>2. seq[s] - 1 \in Nat /\ sent[s] - 1 \in Nat /\ TRUE \in BOOLEAN BY <1>0, <2>1
  <2>3. f \in Frames BY <2>1, <2>2, FramesMade, Zenon
  <2>4. f.ver = sent[s] - 1 /\ f.ticker = active[s] /\ f.type = "delta" BY DEF Delta
  <2> HIDE DEF f
  <2>5. Carried(down)' = Carried(down) \cup {f} BY <2>1, <2>3, NetCarries DEF Carried
  <2>6. Transit' \subseteq Transit \cup {f} BY <1>0, <2>5 DEF Transit, Carried
  <2>7. UNCHANGED <<version, active, sent>> BY <2>1 DEF server
  <2>8. f.ver <= version[f.ticker]
    <3>1. sent[s] <= version[active[s]] BY <2>1 DEF NotAhead
    <3>2. active[s] \in Tickers BY <1>0, <2>1
    <3> QED BY <1>0, <2>4, <3>1, <3>2
  <2> QED BY <1>0, <2>3, <2>4, <2>6, <2>7, <2>8, NotAheadKept
<1>4. CASE AcceptSubscribe
  <2> DEFINE s == nextSid
             t == Head(up).ticker
             ack == Reply("subscribed", Head(up).id, s)
             snapshot(ok) == [type |-> "snapshot", sid |-> s, seq |-> 1, ticker |-> t,
                              ver |-> version[t], ok |-> ok]
  <2>1. /\ s \in Sids /\ t \in Tickers /\ Head(up).id \in Nat
        /\ active' = [active EXCEPT ![s] = t] /\ sent' = [sent EXCEPT ![s] = version[t]]
        /\ UNCHANGED version
    BY <1>4, AcceptSends
  <2>2. PICK ok \in BOOLEAN : /\ snapshot(ok) \in Frames
                              /\ down' = Append(Append(down, ack), snapshot(ok))
    BY <1>4, AcceptSends, Zenon
  <2> DEFINE f == snapshot(ok)
  <2>3. f.ver = version[t] /\ f.ticker = t /\ f.seq = 1 /\ f \in Frames BY <2>2
  <2>4. ack \in Frames /\ ~Data(ack) BY <2>1, FramesMade DEF Reply, Data
  <2>5. down' = Append(Append(down, ack), f) BY <2>2
  <2> HIDE DEF f, ack
  <2>6. Carried(down)' = Carried(down) \cup {ack, f} BY <2>3, <2>4, <2>5, NetCarries DEF Carried
  <2>7. Transit' \subseteq Transit \cup {ack, f} BY <1>0, <2>6 DEF Transit, Carried
  <2>8. f.ver <= version'[f.ticker] BY <1>0, <2>1, <2>3
  <2>9. \A r \in Sids : active'[r] # Nobody =>
            sent'[r] <= version'[active'[r]] \/ (active'[r] = active[r] /\ sent'[r] = sent[r])
    BY <1>0, <2>1
  <2>10. \A g \in Transit' : Data(g) =>
             g \in Transit \/ (g.ver <= version'[g.ticker] /\ (g.type = "snapshot" => g.seq = 1))
    BY <2>3, <2>4, <2>7, <2>8
  <2> HIDE DEF s, t
  <2> QED BY <1>0, <2>1, <2>9, <2>10, NotAheadKept
<1>5. CASE RejectSubscribe \/ AnswerUnsubscribe \/ \E s \in Sids : Reap(s)
  <2>1. PICK f \in Frames : ~Data(f) /\ down' = Append(down, f)
    <3>1. CASE RejectSubscribe
      <4>1. up # <<>> /\ down' = Append(down, Reply("error", Head(up).id, NoSid))
        BY <3>1 DEF RejectSubscribe
      <4>2. Head(up).id \in Nat /\ NoSid \in 0..MaxSid
        <5>1. Head(up) \in Commands BY <4>1 DEF TypeOK, NetType
        <5> QED BY <5>1, FeedAssumption DEF Commands, NoSid
      <4>3. Reply("error", Head(up).id, NoSid) \in Frames BY <4>2, FramesMade
      <4> QED BY <4>1, <4>3 DEF Reply, Data
    <3>2. CASE AnswerUnsubscribe
      <4> DEFINE u == Head(up)
      <4>1. /\ up # <<>> /\ u.cmd = "unsubscribe"
            /\ \/ down' = Append(down, Reply("error", u.id, u.sid))
               \/ down' = Append(down, Reply("unsubscribed", u.id, u.sid))
        BY <3>2 DEF AnswerUnsubscribe
      <4>2. u.id \in Nat /\ u.sid \in Sids /\ u.sid \in 0..MaxSid
        <5>1. u \in Commands BY <4>1 DEF TypeOK, NetType
        <5> QED BY <4>1, <5>1, FeedAssumption DEF Commands, Sids
      <4>3. Reply("error", u.id, u.sid) \in Frames /\ Reply("unsubscribed", u.id, u.sid) \in Frames
        BY <4>2, FramesMade
      <4> QED BY <4>1, <4>3 DEF Reply, Data
    <3>3. ASSUME NEW s \in Sids, Reap(s)
          PROVE  \E f \in Frames : ~Data(f) /\ down' = Append(down, f)
      <4>1. down' = Append(down, Reply("unsubscribed", 0, s)) BY <3>3 DEF Reap
      <4>2. Reply("unsubscribed", 0, s) \in Frames BY FramesMade
      <4> QED BY <4>1, <4>2 DEF Reply, Data
    <3> QED BY <1>5, <3>1, <3>2, <3>3
  <2>2. UNCHANGED <<version, sent>> /\ \A s \in Sids : active'[s] \in {active[s], Nobody}
    BY <1>0, <1>5 DEF RejectSubscribe, AnswerUnsubscribe, Reap, server
  <2>3. Carried(down)' = Carried(down) \cup {f} BY <2>1, NetCarries DEF Carried
  <2>4. Transit' \subseteq Transit \cup {f} BY <1>0, <2>3 DEF Transit, Carried
  <2> QED BY <1>0, <2>1, <2>2, <2>4, NotAheadKept
<1>6. CASE Drop
  <2>1. UNCHANGED <<version, sent>> /\ (\A s \in Sids : active'[s] = Nobody)
        /\ \E k \in 0..Len(down) : down' = SubSeq(down, 1, k)
    BY <1>6 DEF Drop
  <2>2. Carried(down)' \subseteq Carried(down) BY <2>1, NetCarries DEF Carried
  <2>3. Transit' \subseteq Transit BY <1>0, <2>2 DEF Transit, Carried
  <2> QED BY <1>0, <2>1, <2>3, NotAheadKept
<1> QED BY <1>1, <1>2, <1>3, <1>4, <1>5, <1>6, Zenon DEF Environment

\* Nothing runs ahead of its market.
LEMMA NotAheadAlways == Spec => []NotAhead
<1>1. Init => NotAhead
  <2> SUFFICES ASSUME Init PROVE NotAhead OBVIOUS
  <2>1. /\ version = [t \in Tickers |-> 0] /\ sent = [s \in Sids |-> 0]
        /\ active \in [Sids -> Tickers \cup {Nobody}]
        /\ down = <<>> /\ stash = <<>> /\ drain = <<>>
    BY InitType DEF Init, TypeOK, ServerType
  <2>2. Transit = {} BY <2>1 DEF Transit, Carried
  <2>3. \A s \in Sids : active[s] # Nobody => active[s] \in Tickers BY <2>1
  <2> QED BY <2>1, <2>2, <2>3 DEF NotAhead
<1>2. ServeInv /\ NotAhead /\ [Next]_vars => NotAhead'
  <2> SUFFICES ASSUME ServeInv, NotAhead, [Next]_vars PROVE NotAhead' OBVIOUS
  <2>0. TypeOK /\ version \in [Tickers -> Nat] BY DEF ServeInv, TypeOK, ServerType
  <2>1. CASE Environment BY <2>0, <2>1, EnvironmentNotAhead
  <2>2. CASE ClientStep \/ \E c \in Clients : Subscribe(c) \/ Unsubscribe(c)
    <3>1. UNCHANGED <<version, active, sent>> /\ Transit' \subseteq Transit
      BY <2>0, <2>2, ClientEffects
    <3> QED BY <2>0, <3>1, NotAheadKept
  <2>3. CASE UNCHANGED vars
    <3>1. UNCHANGED <<version, active, sent, down, stash, drain>>
      BY <2>3 DEF vars, server, control
    <3>2. Transit' \subseteq Transit BY <3>1 DEF Transit, Carried
    <3> QED BY <2>0, <3>1, <3>2, NotAheadKept
  <2> QED BY <2>1, <2>2, <2>3, Zenon DEF Next
<1> QED BY <1>1, <1>2, ServeAlways, PTL DEF Spec

\* Dropping books, in any number, is giving them up.
LEMMA GivenUp ==
    ASSUME UNCHANGED version, \A t \in Tickers : book'[t] \in {book[t], NoBook}
    PROVE  Mirror!GiveUp
<1> DEFINE S == {t \in Tickers : book'[t].sid = NoSid}
<1>1. S \in SUBSET Tickers OBVIOUS
<1>2. ASSUME NEW t \in Tickers
      PROVE  Shown'[t] = IF t \in S THEN -1 ELSE Shown[t]
  <2>1. CASE t \in S BY <2>1 DEF Shown
  <2>2. CASE t \notin S
    <3>1. book'[t] = book[t] BY <2>2 DEF NoBook
    <3> QED BY <2>2, <3>1 DEF Shown
  <2> QED BY <2>1, <2>2
<1>3. Shown' = [t \in Tickers |-> Shown'[t]] BY DEF Shown
<1> HIDE DEF S
<1>4. Shown' = [t \in Tickers |-> IF t \in S THEN -1 ELSE Shown[t]] BY <1>2, <1>3
<1> QED BY <1>1, <1>4 DEF Mirror!GiveUp, Mirror!Absent

\* A frame that is applied advances one book, loads one, or shows nothing.
LEMMA MirrorApplies ==
    ASSUME ServeInv, BookInv, NotAhead, OwnMarkets, UNCHANGED server,
           NEW f \in Transit, Apply(f), pc = "recv"
    PROVE  UNCHANGED Shown \/ \E t \in Tickers : Mirror!Advance(t) \/ Mirror!Load(t)
<1> DEFINE c == clientOf[f.sid]
           t == f.ticker
<1>0. TypeOK /\ ToldOrServed /\ RightMarket /\ RightNumbers /\ RightBooks
  BY DEF ServeInv, BookInv, Labels
<1>1. f \in Frames BY <1>0, TransitFrames
<1>2. /\ Data(f) /\ c # Nobody /\ InOrder(f)
      /\ book' = [book EXCEPT ![t] = Fold(book[t], f)]
  BY DEF Apply, Routed, Data
<1>3. f.sid \in Sids /\ f.seq \in Nat /\ f.ver \in Nat /\ t \in Tickers
      /\ f.type \in {"snapshot", "delta"}
  BY <1>1, <1>2, FrameKinds DEF Data
<1>4. c \in Clients /\ sidOf[c] = f.sid /\ t = TickerOf[c]
  BY <1>0, <1>2, <1>3 DEF TypeOK, SubsType, ToldOrServed, RightMarket
<1>5. f.ver <= version[t] /\ (f.type = "snapshot" => f.seq = 1) /\ version[t] \in Nat
  BY <1>0, <1>2, <1>3 DEF NotAhead, TypeOK, ServerType
<1>6. book[t] \in Books /\ watermark[f.sid] \in Nat
  BY <1>0, <1>3 DEF TypeOK, LocalType
<1>7. UNCHANGED version BY DEF server
<1>8. Shown' = [Shown EXCEPT ![t] = Shown'[t]]
  <2>1. ASSUME NEW u \in Tickers, u # t PROVE Shown'[u] = Shown[u]
    <3>1. book'[u] = book[u] BY <1>0, <1>2, <2>1 DEF TypeOK, LocalType
    <3> QED BY <3>1 DEF Shown
  <2>2. /\ Shown = [u \in Tickers |-> Shown[u]]
        /\ Shown' = [u \in Tickers |-> Shown'[u]]
    BY DEF Shown
  <2> QED BY <2>1, <2>2
<1>9. book'[t] = Fold(book[t], f) BY <1>0, <1>2, <1>3 DEF TypeOK, LocalType
<1>10. RightBooks' BY <1>0, ApplyBooks
<1>11. CASE book[t].sid = NoSid /\ f.type = "delta"
  <2>1. book'[t] = book[t] BY <1>9, <1>11 DEF Fold
  <2>2. Shown'[t] = Shown[t] BY <1>3, <2>1 DEF Shown
  <2>3. Shown = [u \in Tickers |-> Shown[u]] BY DEF Shown
  <2> QED BY <1>3, <1>8, <2>2, <2>3
<1>12. CASE book[t].sid # NoSid
  <2>1. book[t].sid \in Sids BY <1>6, <1>12 DEF Books, Sids, NoSid
  <2>2. clientOf[book[t].sid] # Nobody /\ TickerOf[clientOf[book[t].sid]] = t
        /\ watermark[book[t].sid] > 0 /\ book[t].val = book[t].ver
    BY <1>0, <1>3, <1>12 DEF RightBooks
  <2>3. clientOf[book[t].sid] \in Clients BY <1>0, <2>1, <2>2 DEF TypeOK, SubsType
  <2>4. clientOf[book[t].sid] = c BY <1>4, <2>2, <2>3 DEF OwnMarkets
  <2>5. book[t].sid = f.sid
    <3>1. sidOf[clientOf[book[t].sid]] = book[t].sid BY <1>0, <2>1, <2>2 DEF ToldOrServed
    <3> QED BY <1>4, <2>4, <3>1
  <2>6. f.seq = watermark[f.sid] + 1
    BY <1>2, <1>3, <1>6, <2>2, <2>5 DEF InOrder
  <2>7. f.type = "delta" BY <1>3, <1>5, <1>6, <2>2, <2>5, <2>6
  <2>8. book'[t] = [book[t] EXCEPT !.val = book[t].val + 1, !.ver = f.ver]
    BY <1>9, <1>12, <2>7 DEF Fold
  <2>9. book'[t].sid = book[t].sid /\ book'[t].val = book[t].val + 1 /\ book'[t].ver = f.ver
    BY <1>6, <2>8 DEF Books
  <2>10. book'[t].val = book'[t].ver
    BY <1>3, <1>10, <1>12, <2>9 DEF RightBooks
  <2>11. book[t].val \in Nat BY <1>6 DEF Books
  <2>12. Shown[t] = book[t].val /\ Shown'[t] = book[t].val + 1
    BY <1>3, <1>12, <2>2, <2>9, <2>10 DEF Shown
  <2>13. Shown[t] # -1 /\ Shown[t] < version[t] BY <1>5, <2>9, <2>10, <2>11, <2>12
  <2>14. Shown' = [Shown EXCEPT ![t] = Shown[t] + 1] BY <1>8, <2>12
  <2>15. Mirror!Advance(t) BY <1>7, <2>13, <2>14 DEF Mirror!Advance, Mirror!Absent
  <2> QED BY <1>3, <2>15
<1>13. CASE book[t].sid = NoSid /\ f.type = "snapshot"
  <2>1. book'[t].sid = f.sid /\ book'[t].val = f.ver /\ book'[t].ver = f.ver
    BY <1>9, <1>13 DEF Fold
  <2>2. f.sid # NoSid BY <1>3 DEF Sids, NoSid
  <2>3. Shown[t] = -1 /\ Shown'[t] = f.ver BY <1>3, <1>13, <2>1, <2>2 DEF Shown
  <2>4. f.ver \in 0..version[t] BY <1>3, <1>5
  <2>5. Mirror!Load(t) BY <1>7, <1>8, <2>3, <2>4 DEF Mirror!Load, Mirror!Absent
  <2> QED BY <1>3, <2>5
<1> HIDE DEF c, t
<1> QED BY <1>3, <1>11, <1>12, <1>13

(* The local books refine MirroredBook: where no sid is numbered afresh and   *)
(* no two subscriptions share a market, _process_frame shows a market's       *)
(* states one after the other, never twice and never back, and what recovers  *)
(* from a gap, a reconnect or an end on the server drops the book before      *)
(* another state is loaded, which is one the market has been in.              *)
THEOREM BooksMirror ==
    ASSUME NoResets, OwnMarkets
    PROVE  Spec => MirrorSpec
<1>1. Init => Mirror!Init
  <2> SUFFICES ASSUME Init PROVE Mirror!Init OBVIOUS
  <2>1. version = [t \in Tickers |-> 0] BY DEF Init
  <2>2. ASSUME NEW t \in Tickers PROVE Shown[t] \in {-1, 0}
    <3>1. book[t] = NoBook \/ \E c \in Early : book[t] = FirstBook(c) BY DEF Init
    <3>2. CASE book[t] = NoBook BY <3>2 DEF Shown, NoBook
    <3>3. CASE book[t] # NoBook
      <4>1. PICK c \in Early : book[t] = FirstBook(c) BY <3>1, <3>3
      <4>2. book[t].val = 0 /\ book[t].ver = 0 BY <4>1 DEF FirstBook
      <4> QED BY <4>2 DEF Shown
    <3> QED BY <3>2, <3>3
  <2>3. Shown = [t \in Tickers |-> Shown[t]] BY DEF Shown
  <2>4. Shown \in [Tickers -> {-1, 0}] BY <2>2, <2>3
  <2> QED BY <2>1, <2>4 DEF Mirror!Init, Mirror!Absent
<1>2. ServeInv /\ BookInv /\ NotAhead /\ [Next]_vars => [Mirror!Next]_<<version, Shown>>
  <2> SUFFICES ASSUME ServeInv, BookInv, NotAhead, [Next]_vars
               PROVE  Mirror!Next \/ UNCHANGED <<version, Shown>>
    OBVIOUS
  <2>0. TypeOK BY DEF ServeInv
  <2>1. CASE Environment
    <3>1. UNCHANGED book
      BY <2>1 DEF Environment, Change, Emit, Redeliver, Reap, AcceptSubscribe, RejectSubscribe,
                  AnswerUnsubscribe, Drop, local
    <3>2. UNCHANGED Shown BY <3>1 DEF Shown
    <3>3. CASE \E t \in Tickers : Change(t)
      <4>1. PICK t \in Tickers : Change(t) BY <3>3
      <4>2. version' = [version EXCEPT ![t] = version[t] + 1] BY <4>1 DEF Change
      <4>3. Mirror!Change(t) BY <3>2, <4>2 DEF Mirror!Change
      <4> QED BY <4>3 DEF Mirror!Next
    <3>4. CASE ~\E t \in Tickers : Change(t)
      <4>1. UNCHANGED version
        BY <2>1, <3>4 DEF Environment, Emit, Redeliver, Reap, AcceptSubscribe,
                          RejectSubscribe, AnswerUnsubscribe, Drop, server
      <4> QED BY <3>2, <4>1
    <3> QED BY <3>3, <3>4
  <2>2. CASE ClientStep \/ \E c \in Clients : Subscribe(c) \/ Unsubscribe(c)
    <3>1. /\ UNCHANGED version
          /\ \/ UNCHANGED book
             \/ \E s : book' = BooksWithout(s)
             \/ book' = [t \in Tickers |-> NoBook]
             \/ pc = "recv" /\ UNCHANGED server /\ \E f \in Transit : Apply(f)
      BY <2>0, <2>2, ClientEffects
    <3>2. UNCHANGED version BY <3>1
    <3>3. CASE UNCHANGED book
      <4>1. UNCHANGED Shown BY <3>3 DEF Shown
      <4> QED BY <3>2, <4>1
    <3>4. CASE (\E s : book' = BooksWithout(s)) \/ book' = [t \in Tickers |-> NoBook]
      <4>1. \A t \in Tickers : book'[t] \in {book[t], NoBook} BY <3>4 DEF BooksWithout
      <4>2. Mirror!GiveUp BY <3>2, <4>1, GivenUp
      <4> QED BY <4>2 DEF Mirror!Next
    <3>5. CASE pc = "recv" /\ UNCHANGED server /\ \E f \in Transit : Apply(f)
      <4>1. UNCHANGED Shown \/ \E t \in Tickers : Mirror!Advance(t) \/ Mirror!Load(t)
        BY <3>1, <3>5, MirrorApplies
      <4> QED BY <3>2, <4>1 DEF Mirror!Next
    <3> QED BY <3>1, <3>3, <3>4, <3>5
  <2>3. CASE UNCHANGED vars
    <3>1. UNCHANGED <<version, book>> BY <2>3 DEF vars, server, local
    <3>2. UNCHANGED Shown BY <3>1 DEF Shown
    <3> QED BY <3>1, <3>2
  <2> QED BY <2>1, <2>2, <2>3, Zenon DEF Next
<1> QED
  BY <1>1, <1>2, ServeAlways, BooksAlways, NotAheadAlways, PTL DEF Spec, MirrorSpec, Mirror!Spec

-----------------------------------------------------------------------------
\* What the theorem on agreement asks of the constants: the subscriptions are made
\* before the trouble begins and are not given up, and no reply is refused or too late.
Settled == Late = {} /\ Leavers = {} /\ Faults \cap {"timeout", "reject"} = {}

\* The answer to a command, as opposed to what the server says on its own.
Answering(f) ==
    f.type \in {"subscribed", "error"} \/ (f.type = "unsubscribed" /\ f.id # 0)

\* Frames that a resubscription keeps.
Lasting(f) == f.type \in {"snapshot", "delta", "unsubscribed"}

\* Two frames of which the second cannot follow the first: a second answer to one
\* command, or anything on a sid that has ended.
Clash(e, f) ==
    \/ Answering(e) /\ Answering(f)
    \/ e.type = "unsubscribed" /\ Lasting(f) /\ e.sid = f.sid

Orderly(q) == \A i, j \in DOMAIN q : i < j => ~Clash(q[i], q[j])

\* The server's word on a sid, before the client has heard it.
Acked(s) == \E f \in Carried(down) : f.type = "subscribed" /\ f.sid = s
EndTold(s) == \E f \in Transit : f.type = "unsubscribed" /\ f.sid = s

\* Nobody subscribes or unsubscribes, and ids are not those of what the server says.
Placed ==
    /\ pc \notin {"subscribe", "leave"} /\ orphans = {} /\ msgId >= 1
    /\ call # NoCall => call.id >= 1
    /\ \A c \in Clients : outcome[c] # "idle"

\* One command at a time is on its way, or its answer is.
OneAsk ==
    /\ Len(up) <= 1
    /\ \A u \in Carried(up) :
          /\ call # NoCall /\ u.id = call.id
          /\ pc = "unsub" => u.cmd = "unsubscribe" /\ u.sid = sidOf[call.client]
          /\ pc \in {"resub", "reall"} => u.cmd = "subscribe"
    /\ \A f \in Carried(down) : Answering(f) =>
          /\ up = <<>> /\ call # NoCall /\ f.id = call.id
          /\ pc = "unsub" => /\ f.type # "subscribed" /\ f.sid = sidOf[call.client]
                             /\ active[f.sid] = Nobody
          /\ pc \in {"resub", "reall"} => f.type = "subscribed"

\* A sid that has ended is not used again on its connection, and nothing comes on it.
Ended ==
    /\ \A s \in Sids : active[s] # Nobody => s < nextSid
    /\ \A f \in Transit : f.type = "unsubscribed" => active[f.sid] = Nobody /\ f.sid < nextSid
    /\ Orderly(down)
    /\ \A e \in Carried(stash), f \in Carried(down) :
          e.type = "unsubscribed" /\ Lasting(f) => f.sid # e.sid

\* The loop reads on only after it has taken what was stashed.
StashTaken == pc = "recv" /\ connected => stash = <<>>

\* Where the two sides differ, the client is about to hear why; the one sid that it
\* is giving up itself is excepted.
Agreed ==
    connected => \A s \in Sids :
        /\ active[s] # Nobody /\ clientOf[s] = Nobody => Acked(s)
        /\ /\ clientOf[s] # Nobody \/ Acked(s)
           /\ active[s] = Nobody
           /\ ~(pc = "unsub" /\ s = sidOf[call.client])
           => EndTold(s)

\* The inductive invariant of ServerAgrees, with ServeInv.
AgreeInv == Placed /\ OneAsk /\ Ended /\ StashTaken /\ Agreed

\* Adding to a sequence and taking from it, in their order.
LEMMA OrderlyOps ==
    ASSUME NEW T, NEW q \in Seq(T), Orderly(q)
    PROVE  /\ \A f \in T : (\A e \in Carried(q) : ~Clash(e, f)) => Orderly(Append(q, f))
           /\ \A k \in 0..Len(q) : Orderly(SubSeq(q, 1, k))
           /\ q # <<>> => /\ Orderly(Tail(q))
                          /\ Carried(q) = {Head(q)} \cup Carried(Tail(q))
                          /\ \A f \in Carried(Tail(q)) : ~Clash(Head(q), f)
<1>1. ASSUME NEW f \in T, \A e \in Carried(q) : ~Clash(e, f)
      PROVE  Orderly(Append(q, f))
  <2> DEFINE r == Append(q, f)
  <2>1. /\ Len(r) = Len(q) + 1 /\ DOMAIN r = 1..(Len(q) + 1)
        /\ \A i \in 1..Len(q) : r[i] = q[i]
        /\ r[Len(q) + 1] = f
    OBVIOUS
  <2> HIDE DEF r
  <2>2. ASSUME NEW i \in DOMAIN r, NEW j \in DOMAIN r, i < j
        PROVE  ~Clash(r[i], r[j])
    <3>1. i \in 1..Len(q) /\ i \in DOMAIN q /\ r[i] = q[i] BY <2>1, <2>2
    <3>2. CASE j = Len(q) + 1
      <4>1. r[j] = f /\ q[i] \in Carried(q) BY <2>1, <3>1, <3>2 DEF Carried
      <4> QED BY <1>1, <3>1, <4>1
    <3>3. CASE j # Len(q) + 1
      <4>1. j \in DOMAIN q /\ r[j] = q[j] BY <2>1, <3>3
      <4> QED BY <2>2, <3>1, <4>1 DEF Orderly
    <3> QED BY <3>2, <3>3
  <2> QED BY <2>2 DEF Orderly, r
<1>2. ASSUME NEW k \in 0..Len(q) PROVE Orderly(SubSeq(q, 1, k))
  <2> DEFINE r == SubSeq(q, 1, k)
  <2>1. DOMAIN r = 1..k /\ \A i \in 1..k : r[i] = q[i] /\ i \in DOMAIN q OBVIOUS
  <2> HIDE DEF r
  <2> QED BY <2>1 DEF Orderly, r
<1>3. ASSUME q # <<>>
      PROVE  /\ Orderly(Tail(q))
             /\ Carried(q) = {Head(q)} \cup Carried(Tail(q))
             /\ \A f \in Carried(Tail(q)) : ~Clash(Head(q), f)
  <2> DEFINE r == Tail(q)
  <2>1. /\ Len(q) >= 1 /\ Len(q) \in Nat /\ DOMAIN q = 1..Len(q) /\ Head(q) = q[1]
        /\ Len(r) = Len(q) - 1 /\ DOMAIN r = 1..(Len(q) - 1)
        /\ \A i \in 1..(Len(q) - 1) : r[i] = q[i + 1]
    BY <1>3
  <2> HIDE DEF r
  <2>2. \A i \in DOMAIN r : i + 1 \in DOMAIN q /\ r[i] = q[i + 1] /\ i \in Nat BY <2>1
  <2>3. ASSUME NEW i \in DOMAIN r, NEW j \in DOMAIN r, i < j
        PROVE  ~Clash(r[i], r[j])
    <3>1. i + 1 < j + 1 BY <2>2, <2>3
    <3> QED BY <2>2, <3>1 DEF Orderly
  <2>4. ASSUME NEW i \in DOMAIN q PROVE q[i] \in {Head(q)} \cup Carried(r)
    <3>1. CASE i = 1 BY <2>1, <3>1
    <3>2. CASE i # 1
      <4>1. i - 1 \in DOMAIN r /\ r[i - 1] = q[i] BY <2>1, <3>2
      <4> QED BY <4>1 DEF Carried
    <3> QED BY <3>1, <3>2
  <2>5. Carried(r) \subseteq Carried(q) /\ Head(q) \in Carried(q)
    BY <2>1, <2>2 DEF Carried
  <2>6. ASSUME NEW i \in DOMAIN r PROVE ~Clash(Head(q), r[i])
    <3>1. 1 \in DOMAIN q /\ 1 < i + 1 BY <2>1, <2>2
    <3> QED BY <2>1, <2>2, <3>1 DEF Orderly
  <2>7. Carried(q) \subseteq {Head(q)} \cup Carried(r) BY <2>4 DEF Carried
  <2> QED BY <2>3, <2>5, <2>6, <2>7 DEF Orderly, Carried, r
<1> QED BY <1>1, <1>2, <1>3

\* Stashing a frame loses none of another sid, and not the frame itself.
LEMMA StashedKeeps ==
    ASSUME NEW T, stash \in Seq(T), NEW f \in T
    PROVE  /\ f \in Carried(Stashed(f))
           /\ \A e \in Carried(stash) : e.sid # f.sid => e \in Carried(Stashed(f))
<1> DEFINE mine == {i \in DOMAIN stash : stash[i].sid = f.sid}
           first == CHOOSE i \in mine : \A j \in mine : i <= j
           last == CHOOSE i \in mine : \A j \in mine : j <= i
           before == SubSeq(stash, 1, first - 1)
           bucket == SubSeq(stash, first, last)
           kept == IF Cardinality(mine) = StashMax THEN Tail(bucket) ELSE bucket
           after == SubSeq(stash, last + 1, Len(stash))
<1>1. CASE mine = {}
  <2>1. Stashed(f) = Append(stash, f) BY <1>1, Zenon DEF Stashed
  <2>2. Carried(Append(stash, f)) = Carried(stash) \cup {f}
    <3>1. 0 \in 0..Len(stash) OBVIOUS
    <3> QED BY <3>1, CarriedOps
  <2> QED BY <2>1, <2>2
<1>2. CASE mine # {}
  <2>1. first \in 1..Len(stash) /\ last \in 1..Len(stash) /\ first <= last
        /\ first \in mine /\ last \in mine
        /\ (\A j \in mine : first <= j) /\ (\A j \in mine : j <= last)
    <3>1. mine \in SUBSET (1..Len(stash)) /\ Len(stash) \in Nat OBVIOUS
    <3>2. \E i \in mine : \A j \in mine : i <= j BY <3>1, <1>2, FirstAndLast, Zenon
    <3>3. \E i \in mine : \A j \in mine : j <= i BY <3>1, <1>2, FirstAndLast, Zenon
    <3>4. first \in mine /\ \A j \in mine : first <= j BY <3>2, Zenon
    <3>5. last \in mine /\ \A j \in mine : j <= last BY <3>3, Zenon
    <3> QED BY <3>1, <3>4, <3>5
  <2> HIDE DEF first, last, mine
  <2>4. Stashed(f) = before \o kept \o <<f>> \o after
    BY <1>2, Zenon DEF Stashed, mine, first, last
  <2>5. before \in Seq(T) /\ bucket \in Seq(T) /\ after \in Seq(T) /\ kept \in Seq(T)
    <3>1. before \in Seq(T) /\ bucket \in Seq(T) /\ after \in Seq(T) BY <2>1
    <3>2. bucket # <<>>
      <4>1. Len(bucket) = last - first + 1 BY <2>1
      <4> QED BY <4>1, <2>1
    <3> QED BY <3>1, <3>2
  <2>6. Carried(Stashed(f)) = Carried(before) \cup Carried(kept) \cup {f} \cup Carried(after)
    <3> HIDE DEF before, kept, after
    <3>2. Carried(before \o kept) = Carried(before) \cup Carried(kept) /\ before \o kept \in Seq(T)
      <4>1. 0 \in 0..Len(before) BY <2>5
      <4> QED BY <2>5, <4>1, CarriedOps
    <3>3. <<f>> \in Seq(T) /\ Carried(<<f>>) = {f} BY DEF Carried
    <3> DEFINE r == before \o kept
    <3>4. r \in Seq(T) /\ Carried(r) = Carried(before) \cup Carried(kept) BY <3>2
    <3>5. Stashed(f) = r \o <<f>> \o after BY <2>4
    <3> HIDE DEF r
    <3>6. Carried(r \o <<f>>) = Carried(r) \cup {f} /\ r \o <<f>> \in Seq(T)
      <4> DEFINE one == <<f>>
      <4>1. 0 \in 0..Len(r) /\ one \in Seq(T) /\ Carried(one) = {f} BY <3>3, <3>4
      <4> HIDE DEF one
      <4>2. Carried(r \o one) = Carried(r) \cup Carried(one) /\ r \o one \in Seq(T)
        BY <3>4, <4>1, CarriedOps
      <4> QED BY <4>1, <4>2 DEF one
    <3> DEFINE t == r \o <<f>>
    <3>7. t \in Seq(T) /\ Carried(t) = Carried(r) \cup {f} BY <3>6
    <3>8. Stashed(f) = t \o after BY <3>5
    <3> HIDE DEF t
    <3>9. Carried(t \o after) = Carried(t) \cup Carried(after)
      <4>1. 0 \in 0..Len(t) BY <3>7
      <4> QED BY <2>5, <3>7, <4>1, CarriedOps
    <3> QED BY <3>4, <3>7, <3>8, <3>9
  <2>7. ASSUME NEW i \in DOMAIN stash, stash[i].sid # f.sid
        PROVE  stash[i] \in Carried(Stashed(f))
    <3>1. stash[first].sid = f.sid BY <2>1 DEF mine
    <3>2. i # first BY <2>7, <3>1
    <3>3. CASE i < first
      <4>1. i \in DOMAIN before /\ before[i] = stash[i] BY <2>1, <3>3
      <4> QED BY <2>6, <4>1 DEF Carried
    <3>4. CASE first < i /\ i <= last
      <4>1. /\ Len(bucket) = last - first + 1
            /\ i - first + 1 \in 1..Len(bucket) /\ bucket[i - first + 1] = stash[i]
        BY <2>1, <3>4
      <4>3. stash[i] \in Carried(bucket) /\ stash[i] \in Carried(Tail(bucket))
        <5> DEFINE b == bucket
        <5>1. /\ b \in Seq(T) /\ Len(b) = last - first + 1
              /\ i - first + 1 \in 1..Len(b) /\ b[i - first + 1] = stash[i]
          BY <2>5, <4>1
        <5> HIDE DEF b
        <5>2. b # <<>> /\ Len(b) \in Nat BY <5>1
        <5>3. i - first \in DOMAIN Tail(b) /\ Tail(b)[i - first] = b[i - first + 1]
          BY <2>1, <3>4, <5>1, <5>2
        <5>4. stash[i] \in Carried(b) /\ stash[i] \in Carried(Tail(b))
          BY <5>1, <5>3 DEF Carried
        <5> QED BY <5>4 DEF b
      <4>4. stash[i] \in Carried(kept)
        <5>1. kept = bucket \/ kept = Tail(bucket) OBVIOUS
        <5> HIDE DEF kept, bucket
        <5> QED BY <4>3, <5>1
      <4> QED BY <2>6, <4>4
    <3>5. CASE i > last
      <4>1. i - last \in DOMAIN after /\ after[i - last] = stash[i] BY <2>1, <3>5
      <4> QED BY <2>6, <4>1 DEF Carried
    <3> QED BY <2>1, <3>2, <3>3, <3>4, <3>5
  <2> QED BY <2>6, <2>7 DEF Carried
<1> QED BY <1>1, <1>2

\* A frame sent.
LEMMA FrameSent ==
    ASSUME TypeOK, Orderly(down), NEW f \in Frames, \A e \in Carried(down) : ~Clash(e, f)
    PROVE  /\ Orderly(Append(down, f)) /\ Append(down, f) \in Seq(Frames)
           /\ Carried(Append(down, f)) = Carried(down) \cup {f}
<1>1. down \in Seq(Frames) BY DEF TypeOK, NetType
<1>2. Orderly(Append(down, f)) BY <1>1, OrderlyOps
<1>3. Carried(Append(down, f)) = Carried(down) \cup {f} BY NetCarries
<1> QED BY <1>1, <1>2, <1>3

\* A frame taken.
LEMMA FrameTaken ==
    ASSUME TypeOK, Orderly(down), down # <<>>, down' = Tail(down)
    PROVE  /\ Orderly(down)' /\ Carried(down)' \subseteq Carried(down)
           /\ Carried(down) \subseteq Carried(down)' \cup {Head(down)}
           /\ Head(down) \in Carried(down) /\ Head(down) \in Frames
           /\ \A f \in Carried(down)' : ~Clash(Head(down), f)
<1>1. down \in Seq(Frames) BY DEF TypeOK, NetType
<1>2. Carried(down)' = Carried(Tail(down)) BY DEF Carried
<1>3. Orderly(down)' <=> Orderly(Tail(down)) BY DEF Orderly
<1>4. /\ Orderly(Tail(down)) /\ Carried(down) = {Head(down)} \cup Carried(Tail(down))
      /\ \A f \in Carried(Tail(down)) : ~Clash(Head(down), f)
  BY <1>1, OrderlyOps
<1>5. Head(down) \in Frames BY <1>1
<1> QED BY <1>2, <1>3, <1>4, <1>5

\* What is known while no command is under way, and of the answer to one.
LEMMA OneAnswer ==
    ASSUME ServeInv, AgreeInv
    PROVE  /\ call = NoCall => /\ up = <<>>
                               /\ \A f \in Carried(down) : ~Answering(f)
                               /\ \A s \in Sids : ~Acked(s)
           /\ call # NoCall => \A f \in Carried(down) : Answers(f) <=> Answering(f)
           /\ pc \in {"unsub", "resub"} => call # NoCall
           /\ call # NoCall => pc \in {"unsub", "resub", "reall"}
<1>0. /\ TypeOK /\ Waiting /\ Placed /\ OneAsk /\ Nobody \notin Clients
  BY FeedAssumption DEF ServeInv, AgreeInv
<1>1. call = NoCall => up = <<>> BY <1>0, NetCarries DEF OneAsk
<1>2. call = NoCall => \A f \in Carried(down) : ~Answering(f) BY <1>0 DEF OneAsk
<1>3. call = NoCall => \A s \in Sids : ~Acked(s) BY <1>2 DEF Acked, Answering
<1>4. ASSUME call # NoCall, NEW f \in Carried(down) PROVE Answers(f) <=> Answering(f)
  <2>1. call.id # 0 BY <1>0, <1>4 DEF Placed
  <2>2. Answering(f) => f.id = call.id BY <1>0, <1>4 DEF OneAsk
  <2>3. Answering(f) => f.type \in {"subscribed", "unsubscribed", "error"} BY DEF Answering
  <2> QED BY <2>1, <2>2, <2>3 DEF Answers, Answering
<1>5. pc \in {"unsub", "resub"} => call # NoCall
  BY <1>0 DEF Waiting, Awaiting, NoCall
<1>6. call # NoCall => pc \in {"unsub", "resub", "reall"}
  BY <1>0 DEF Waiting, Placed, Awaiting, TypeOK, ControlType
<1> QED BY <1>1, <1>2, <1>3, <1>4, <1>5, <1>6

\* Taking frames ends no sid twice.
LEMMA EndedKept ==
    ASSUME Ended, UNCHANGED server, Transit' \subseteq Transit, Orderly(down)',
           \A e \in Carried(stash)', f \in Carried(down)' :
               e.type = "unsubscribed" /\ Lasting(f) => f.sid # e.sid
    PROVE  Ended'
<1>1. UNCHANGED <<active, nextSid>> BY DEF server
<1>2. \A f \in Transit' : f.type = "unsubscribed" => active'[f.sid] = Nobody /\ f.sid < nextSid'
  BY <1>1 DEF Ended
<1>3. \A s \in Sids : active'[s] # Nobody => s < nextSid' BY <1>1 DEF Ended
<1> QED BY <1>2, <1>3 DEF Ended, Lasting

\* One command sent on a connection that carries none.
LEMMA OneSent ==
    ASSUME TypeOK, up = <<>>, NEW cmd, Send(cmd)
    PROVE  /\ Len(up') <= 1 /\ Carried(up)' \subseteq {cmd}
           /\ msgId' = msgId + 1 /\ msgId' >= 1
           /\ ~connected => up' = <<>>
<1>1. msgId' = msgId + 1 /\ msgId \in Nat /\ (~connected => up' = <<>>)
      /\ (up' = <<>> \/ up' = <<cmd>>)
  BY DEF Send, TypeOK, NetType
<1>2. CASE up' = <<>> BY <1>1, <1>2 DEF Carried
<1>3. CASE up' = <<cmd>> BY <1>1, <1>3 DEF Carried
<1> QED BY <1>1, <1>2, <1>3

\* Agreement, through the handling of one frame.
LEMMA ProcessAgrees ==
    ASSUME ServeInv, AgreeInv, pc = "recv", UNCHANGED server, UNCHANGED <<connected, stash>>,
           NEW f \in Frames, f \in Transit, Lasting(f),
           NEW r \in BOOLEAN,
           \/ Process(f, r)
           \/ clientOf[f.sid] = Nobody /\ Idle /\ UNCHANGED <<local, subs, orphans, pc, call>>,
           Orderly(down)', Carried(down)' \subseteq Carried(down),
           Transit' \subseteq Transit, Transit \subseteq Transit' \cup {f}
    PROVE  AgreeInv'
<1>0. /\ TypeOK /\ Waiting /\ ToldOrServed /\ Placed /\ OneAsk /\ Ended /\ StashTaken
      /\ Agreed /\ Nobody \notin Clients
  BY FeedAssumption DEF ServeInv, AgreeInv
<1>1. /\ call = NoCall /\ up = <<>> /\ \A g \in Carried(down) : ~Answering(g)
      /\ \A s \in Sids : ~Acked(s)
  BY <1>0, OneAnswer DEF Waiting
<1>2. \A g \in Carried(down)' : ~Answering(g) BY <1>1
<1>3. \A s \in Sids : ~Acked(s)' BY <1>2 DEF Acked, Answering
<1>4. f.sid \in Sids /\ f.type \in {"snapshot", "delta", "unsubscribed"}
  BY FrameKinds DEF Lasting
<1>5. UNCHANGED <<active, nextSid>> BY DEF server
<1>6. Ended'
  <2>1. Carried(stash)' = Carried(stash) BY DEF Carried
  <2>2. \A e \in Carried(stash)', g \in Carried(down)' :
            e.type = "unsubscribed" /\ Lasting(g) => g.sid # e.sid
    BY <1>0, <2>1 DEF Ended
  <2> QED BY <1>0, <2>2, EndedKept
<1>7. \A s \in Sids : EndTold(s) /\ (f.type = "unsubscribed" => s # f.sid) => EndTold(s)'
  BY DEF EndTold
<1>8. connected => \A s \in Sids :
          /\ active[s] # Nobody => clientOf[s] # Nobody
          /\ clientOf[s] # Nobody /\ active[s] = Nobody => EndTold(s)
  BY <1>0, <1>1 DEF Agreed
<1>9. CASE UNCHANGED <<up, msgId>> /\ UNCHANGED subs /\ UNCHANGED orphans
           /\ UNCHANGED <<pc, call>> /\ (f.type = "unsubscribed" => clientOf[f.sid] = Nobody)
  <2>1. Placed' BY <1>0, <1>9 DEF Placed, subs
  <2>3. OneAsk' BY <1>0, <1>1, <1>2, <1>9 DEF OneAsk, Carried, Answering
  <2>4. StashTaken' BY <1>0, <1>9 DEF StashTaken
  <2>5. Agreed'
    BY <1>3, <1>5, <1>7, <1>8, <1>9 DEF Agreed, subs
  <2> QED BY <1>6, <2>1, <2>3, <2>4, <2>5 DEF AgreeInv
<1>10. CASE Ignore(f)
  <2>1. f.type # "unsubscribed" BY <1>4, <1>10 DEF Ignore, Routed
  <2> QED BY <1>9, <1>10, <2>1 DEF Ignore, Idle
<1>11. CASE Apply(f)
  <2>1. f.type # "unsubscribed" BY <1>11 DEF Apply, Routed
  <2> QED BY <1>9, <1>11, <2>1 DEF Apply, Idle
<1>12. CASE Gap(f, r)
  <2>1. /\ f.type # "unsubscribed" /\ clientOf[f.sid] # Nobody
        /\ Send(UnsubscribeCommand(f.sid)) /\ pc' = "unsub"
        /\ call' = [client |-> clientOf[f.sid], id |-> msgId, replay |-> r]
        /\ UNCHANGED subs /\ UNCHANGED orphans
    BY <1>12 DEF Gap, Routed
  <2>2. /\ clientOf[f.sid] \in Clients /\ sidOf'[call'.client] = f.sid /\ call'.id = msgId
        /\ call'.client \in Clients /\ call' # NoCall /\ msgId \in Nat /\ msgId >= 1
    BY <1>0, <1>4, <2>1 DEF ToldOrServed, TypeOK, SubsType, NetType, Placed, subs, NoCall
  <2>3. /\ Len(up') <= 1 /\ Carried(up)' \subseteq {UnsubscribeCommand(f.sid)}
        /\ msgId' = msgId + 1 /\ (~connected => up' = <<>>)
    BY <1>0, <1>1, <2>1, OneSent
  <2>4. Placed' BY <1>0, <2>1, <2>2, <2>3 DEF Placed, subs
  <2>6. OneAsk'
    <3>3. \A u \in Carried(up)' : /\ call' # NoCall /\ u.id = call'.id
                                  /\ u.cmd = "unsubscribe" /\ u.sid = sidOf'[call'.client]
      BY <2>2, <2>3 DEF UnsubscribeCommand
    <3> QED BY <1>2, <2>1, <2>3, <3>3 DEF OneAsk, Answering
  <2>7. StashTaken' BY <2>1 DEF StashTaken
  <2>8. Agreed' BY <1>3, <1>5, <1>7, <1>8, <2>1 DEF Agreed, subs
  <2> QED BY <1>6, <2>4, <2>6, <2>7, <2>8 DEF AgreeInv
<1>13. CASE Unsubscribed(f)
  <2>1. /\ f.type = "unsubscribed" /\ clientOf' = [clientOf EXCEPT ![f.sid] = Nobody]
        /\ outcome' = [c \in Clients |->
                          IF c = clientOf[f.sid] THEN "stopped" ELSE outcome[c]]
        /\ UNCHANGED <<up, msgId>> /\ UNCHANGED <<pc, call>> /\ UNCHANGED <<sidOf, orphans>>
    BY <1>0, <1>13 DEF Unsubscribed, Placed, Idle
  <2>2. Placed' BY <1>0, <2>1 DEF Placed
  <2>4. OneAsk' BY <1>0, <1>1, <1>2, <2>1 DEF OneAsk, Carried, Answering
  <2>5. StashTaken' BY <1>0, <2>1 DEF StashTaken
  <2>6. active[f.sid] = Nobody BY <1>0, <2>1 DEF Ended
  <2>7. \A s \in Sids : clientOf'[s] = IF s = f.sid THEN Nobody ELSE clientOf[s]
    BY <1>0, <1>4, <2>1 DEF TypeOK, SubsType
  <2>8. Agreed' BY <1>3, <1>5, <1>7, <1>8, <2>6, <2>7 DEF Agreed
  <2> QED BY <1>6, <2>2, <2>4, <2>5, <2>8 DEF AgreeInv
<1>14. ~OrphanSubscribed(f) BY <1>4 DEF OrphanSubscribed
<1>15. CASE clientOf[f.sid] = Nobody /\ Idle /\ UNCHANGED <<local, subs, orphans, pc, call>>
  BY <1>9, <1>15 DEF Idle
<1> QED BY <1>10, <1>11, <1>12, <1>13, <1>14, <1>15 DEF Process
\* Taking the first of a sequence loses only that one.
LEMMA TailCarries ==
    ASSUME NEW T, NEW q \in Seq(T), q # <<>>
    PROVE  Carried(q) \subseteq {Head(q)} \cup Carried(Tail(q))
<1> DEFINE r == Tail(q)
<1>1. /\ Len(q) >= 1 /\ Len(q) \in Nat /\ DOMAIN q = 1..Len(q) /\ Head(q) = q[1]
      /\ DOMAIN r = 1..(Len(q) - 1) /\ \A i \in 1..(Len(q) - 1) : r[i] = q[i + 1]
  OBVIOUS
<1> HIDE DEF r
<1>2. ASSUME NEW i \in DOMAIN q PROVE q[i] \in {Head(q)} \cup Carried(r)
  <2>1. CASE i = 1 BY <1>1, <2>1
  <2>2. CASE i # 1
    <3>1. i - 1 \in DOMAIN r /\ r[i - 1] = q[i] BY <1>1, <2>2
    <3> QED BY <3>1 DEF Carried
  <2> QED BY <2>1, <2>2
<1> QED BY <1>2 DEF Carried, r

\* What is handed over for replay.
LEMMA StashMoves ==
    ASSUME TypeOK, TakeStash
    PROVE  Carried(stash)' = {} /\ Carried(drain)' = Carried(stash) \cup Carried(drain)
<1>1. stash \in Seq(Stashable) /\ drain \in Seq(Stashable) BY DEF TypeOK, ControlType
<1>2. Carried(drain)' = Carried(stash \o drain) /\ Carried(stash)' = {}
  BY DEF TakeStash, Carried
<1>3. CASE stash = <<>>
  <2>1. stash \o drain = drain /\ Carried(stash) = {} BY <1>1, <1>3 DEF Carried
  <2> QED BY <1>2, <2>1
<1>4. CASE stash # <<>>
  <2>1. Head(stash) \in Stashable /\ 0 \in 0..Len(stash) BY <1>1, <1>4
  <2>2. Carried(stash \o drain) = Carried(stash) \cup Carried(drain)
    BY <1>1, <2>1, CarriedOps
  <2> QED BY <1>2, <2>2
<1> QED BY <1>3, <1>4

\* Agreement, through the frames read, replayed and overheard.
LEMMA ReadingAgrees ==
    ASSUME ServeInv, AgreeInv, Read \/ Replay \/ Overhear
    PROVE  AgreeInv'
<1>0. /\ TypeOK /\ Waiting /\ Placed /\ OneAsk /\ Ended /\ StashTaken /\ Agreed
      /\ Orderly(down) /\ stash \in Seq(Stashable) /\ drain \in Seq(Stashable)
  BY DEF ServeInv, AgreeInv, Ended, TypeOK, ControlType
<1>1. CASE Read
  <2>1. /\ Process(Head(down), FALSE) /\ pc = "recv" /\ down # <<>> /\ down' = Tail(down)
        /\ UNCHANGED server /\ UNCHANGED <<connected, stash>> /\ drain' = drain
    BY <1>1 DEF Read
  <2>2. /\ Orderly(down)' /\ Carried(down)' \subseteq Carried(down)
        /\ Carried(down) \subseteq Carried(down)' \cup {Head(down)}
        /\ Head(down) \in Carried(down) /\ Head(down) \in Frames
    BY <1>0, <2>1, FrameTaken
  <2>3. Carried(stash)' = Carried(stash) /\ Carried(drain)' = Carried(drain)
    BY <2>1 DEF Carried
  <2>4. /\ Transit' \subseteq Transit /\ Transit \subseteq Transit' \cup {Head(down)}
        /\ Head(down) \in Transit
    BY <2>2, <2>3 DEF Transit
  <2>5. Lasting(Head(down))
    <3>1. ~Answering(Head(down)) BY <1>0, <2>1, <2>2, OneAnswer DEF Waiting
    <3> QED BY <2>2, <3>1, FrameKinds DEF Answering, Lasting
  <2>6. FALSE \in BOOLEAN OBVIOUS
  <2> QED BY <2>1, <2>2, <2>4, <2>5, <2>6, ProcessAgrees, Zenon
<1>2. CASE Replay
  <2>1. /\ pc = "recv" /\ drain # <<>> /\ drain' = Tail(drain)
        /\ UNCHANGED server /\ UNCHANGED <<connected, stash>> /\ UNCHANGED down
    BY <1>2 DEF Replay
  <2>2. \/ Process(Head(drain), TRUE)
        \/ /\ clientOf[Head(drain).sid] = Nobody /\ Idle
           /\ UNCHANGED <<local, subs, orphans, pc, call>>
    BY <1>2, Zenon DEF Replay
  <2>3. Head(drain) \in Stashable BY <1>0, <2>1
  <2>4. Head(drain) \in Frames /\ Lasting(Head(drain)) BY <2>3, StashableKinds DEF Lasting
  <2>5. Carried(drain)' = Carried(Tail(drain)) /\ Carried(stash)' = Carried(stash)
        /\ Carried(down)' = Carried(down) /\ (Orderly(down) => Orderly(down)')
    BY <2>1 DEF Carried, Orderly
  <2>6. Carried(drain) \subseteq {Head(drain)} \cup Carried(Tail(drain))
    BY <1>0, <2>1, TailCarries
  <2>7. Transit' \subseteq Transit /\ Head(drain) \in Transit BY <1>0, <2>1, TransitLess
  <2>8. Transit \subseteq Transit' \cup {Head(drain)} BY <2>5, <2>6 DEF Transit
  <2>9. TRUE \in BOOLEAN /\ Carried(down)' \subseteq Carried(down) /\ Orderly(down)'
    BY <1>0, <2>5
  <2> QED BY <2>1, <2>2, <2>4, <2>7, <2>8, <2>9, ProcessAgrees, Zenon
<1>3. CASE Overhear
  <2> DEFINE g == Head(down)
  <2>1. /\ down # <<>> /\ down' = Tail(down) /\ ~Answers(Head(down)) /\ call # NoCall
        /\ UNCHANGED server /\ UNCHANGED <<up, msgId, connected>> /\ UNCHANGED subs
        /\ UNCHANGED <<orphans, pc, call, drain>>
    BY <1>3 DEF Overhear
  <2>2. /\ Orderly(down)' /\ Carried(down)' \subseteq Carried(down)
        /\ Carried(down) \subseteq Carried(down)' \cup {Head(down)}
        /\ Head(down) \in Carried(down) /\ Head(down) \in Frames
        /\ \A f \in Carried(down)' : ~Clash(Head(down), f)
    BY <1>0, <2>1, FrameTaken
  <2>3. ~Answering(g) BY <2>1, <2>2, OneAnswer
  <2>4. Lasting(g) BY <2>2, <2>3, FrameKinds DEF Answering, Lasting
  <2>5. g \in Stashable BY <2>2, <2>4, FrameKinds DEF Lasting
  <2>6. stash' = Stashed(g) BY <1>0, <1>3, <2>4 DEF Overhear, Placed, Lasting
  <2> HIDE DEF g
  <2>7. Carried(stash)' = Carried(Stashed(g)) /\ Carried(drain)' = Carried(drain)
    BY <2>1, <2>6 DEF Carried
  <2>8. /\ Carried(stash)' \subseteq Carried(stash) \cup {g} /\ g \in Carried(stash)'
        /\ \A e \in Carried(stash) : e.sid # g.sid => e \in Carried(stash)'
    BY <1>0, <2>5, <2>7, StashedSeq, StashedKeeps
  <2>9. Transit' \subseteq Transit BY <2>2, <2>7, <2>8 DEF Transit, g
  <2>10. \A e \in Transit : e.type = "unsubscribed" => e \in Transit'
    <3>1. \A e \in Carried(stash) : e.type = "unsubscribed" => e.sid # g.sid
      BY <1>0, <2>2, <2>4 DEF Ended, g
    <3> QED BY <2>2, <2>7, <2>8, <3>1 DEF Transit, g
  <2>11. \A s \in Sids : (EndTold(s) => EndTold(s)') /\ (Acked(s)' <=> Acked(s))
    <3>1. g.type # "subscribed" BY <2>4 DEF Lasting
    <3> QED BY <2>2, <2>10, <3>1 DEF EndTold, Acked, g
  <2>12. Ended'
    <3>1. ASSUME NEW e \in Carried(stash)', NEW f \in Carried(down)', e.type = "unsubscribed",
                 Lasting(f)
          PROVE  f.sid # e.sid
      <4>1. CASE e = g BY <2>2, <3>1, <4>1 DEF Clash, g
      <4>2. CASE e # g BY <1>0, <2>2, <2>8, <3>1, <4>2 DEF Ended
      <4> QED BY <4>1, <4>2
    <3> QED BY <1>0, <2>1, <2>2, <2>9, <3>1, EndedKept
  <2>13. UNCHANGED <<active, nextSid, clientOf, sidOf, outcome>> BY <2>1 DEF server, subs
  <2>14. Placed' BY <1>0, <2>1, <2>13 DEF Placed
  <2>16. OneAsk'
    <3>1. Carried(up)' = Carried(up) BY <2>1 DEF Carried
    <3> QED BY <1>0, <2>1, <2>2, <2>13, <3>1 DEF OneAsk, Answering
  <2>17. StashTaken' BY <2>1, OneAnswer DEF StashTaken
  <2>18. Agreed' BY <1>0, <2>1, <2>11, <2>13 DEF Agreed
  <2> QED BY <2>12, <2>14, <2>16, <2>17, <2>18 DEF AgreeInv
<1> QED BY <1>1, <1>2, <1>3

\* Agreement, through the answer that carries a new sid.
LEMMA RegisterAgrees ==
    ASSUME ServeInv, AgreeInv, UNCHANGED server, UNCHANGED <<connected, orphans, outcome>>, Idle,
           call # NoCall, call.client \in Clients, call' = NoCall, pc \in {"resub", "reall"},
           Answered({"subscribed"}), Register(call.client, Head(down).sid),
           \/ pc' = "reall" /\ UNCHANGED <<stash, drain>>
           \/ pc' = "recv" /\ TakeStash
    PROVE  AgreeInv'
<1> DEFINE c == call.client
           s == Head(down).sid
<1>0. /\ TypeOK /\ Placed /\ OneAsk /\ Ended /\ StashTaken /\ Agreed
      /\ Orderly(down) /\ Nobody \notin Clients
  BY FeedAssumption DEF ServeInv, AgreeInv, Ended
<1>1. /\ down # <<>> /\ down' = Tail(down) /\ Head(down).type = "subscribed" /\ s \in Sids
  BY <1>0, WaitEnds
<1>2. /\ Orderly(down)' /\ Carried(down)' \subseteq Carried(down)
      /\ Carried(down) \subseteq Carried(down)' \cup {Head(down)}
      /\ Head(down) \in Carried(down)
      /\ \A f \in Carried(down)' : ~Clash(Head(down), f)
  BY <1>0, <1>1, FrameTaken
<1>3. up = <<>> /\ Answering(Head(down)) BY <1>0, <1>1, <1>2 DEF OneAsk, Answering
<1>4. \A f \in Carried(down)' : ~Answering(f) BY <1>2, <1>3 DEF Clash
<1>5. \A r \in Sids : ~Acked(r)' BY <1>4 DEF Acked, Answering
<1>6. \A r \in Sids : Acked(r) <=> r = s
  <2>1. ASSUME NEW r \in Sids, Acked(r) PROVE r = s
    <3>1. PICK f \in Carried(down) : f.type = "subscribed" /\ f.sid = r BY <2>1 DEF Acked
    <3>2. Answering(f) BY <3>1 DEF Answering
    <3>3. f = Head(down) BY <1>2, <1>4, <3>1, <3>2
    <3> QED BY <3>1, <3>3
  <2>2. Acked(s) BY <1>1, <1>2 DEF Acked
  <2> QED BY <2>1, <2>2
<1>7. /\ Carried(stash)' \cup Carried(drain)' = Carried(stash) \cup Carried(drain)
      /\ Carried(stash)' \subseteq Carried(stash)
  <2>1. CASE UNCHANGED <<stash, drain>> BY <2>1 DEF Carried
  <2>2. CASE TakeStash BY <1>0, <2>2, StashMoves
  <2> QED BY <2>1, <2>2
<1>8. Transit' \subseteq Transit /\ Transit \subseteq Transit' \cup {Head(down)}
  BY <1>2, <1>7 DEF Transit
<1>9. \A r \in Sids : EndTold(r) => EndTold(r)' BY <1>1, <1>8 DEF EndTold
<1>10. Ended'
  <2>1. \A e \in Carried(stash)', f \in Carried(down)' :
            e.type = "unsubscribed" /\ Lasting(f) => f.sid # e.sid
    BY <1>0, <1>2, <1>7 DEF Ended
  <2> QED BY <1>0, <1>2, <1>8, <2>1, EndedKept
<1>11. /\ UNCHANGED <<active, nextSid, up, msgId>>
       /\ \A r \in Sids : clientOf'[r] = IF r = s THEN c ELSE clientOf[r]
  BY <1>0, <1>1 DEF Register, server, Idle, TypeOK, SubsType
<1>12. Placed' BY <1>0, <1>11 DEF Placed
<1>14. OneAsk'
  <2>1. Len(up') <= 1 /\ Carried(up)' = {} BY <1>3, <1>11 DEF Carried
  <2> QED BY <1>4, <2>1 DEF OneAsk, Answering
<1>15. StashTaken' BY DEF StashTaken, TakeStash
<1>16. Agreed'
  <2> SUFFICES ASSUME connected, NEW r \in Sids
               PROVE  /\ ~(active[r] # Nobody /\ clientOf'[r] = Nobody)
                      /\ clientOf'[r] # Nobody /\ active[r] = Nobody => EndTold(r)'
    BY <1>5, <1>11 DEF Agreed
  <2>1. /\ active[r] # Nobody /\ clientOf[r] = Nobody => Acked(r)
        /\ (clientOf[r] # Nobody \/ Acked(r)) /\ active[r] = Nobody => EndTold(r)
    BY <1>0 DEF Agreed
  <2> QED BY <1>0, <1>6, <1>9, <1>11, <2>1
<1> QED BY <1>10, <1>12, <1>14, <1>15, <1>16 DEF AgreeInv

\* Agreement, through the recovery of a gap.
LEMMA RecoveryAgrees ==
    ASSUME ServeInv, AgreeInv, Settled,
           Unsubscribing \/ Resubscribed \/ ResubscribeRefused \/ GapLost
    PROVE  AgreeInv'
<1>0. /\ TypeOK /\ Waiting /\ Placed /\ OneAsk /\ Ended /\ StashTaken /\ Agreed
      /\ Orderly(down) /\ Nobody \notin Clients /\ ~TimedOut
  BY FeedAssumption DEF ServeInv, AgreeInv, Ended, Settled, TimedOut, Fault
<1>1. CASE Unsubscribing
  <2> DEFINE c == call.client
             s == sidOf[call.client]
  <2>1. /\ pc = "unsub" /\ pc' = "resub" /\ Answered({"unsubscribed", "error"})
        /\ clientOf' = [clientOf EXCEPT ![s] = Nobody]
        /\ call' = [call EXCEPT !.id = msgId] /\ Send(SubscribeCommand(c))
        /\ UNCHANGED server /\ UNCHANGED <<connected, outcome, orphans, stash, drain>>
    BY <1>0, <1>1 DEF Unsubscribing
  <2>2. /\ down # <<>> /\ down' = Tail(down) /\ Answers(Head(down))
        /\ Head(down).type \in {"unsubscribed", "error"}
    BY <1>0, <2>1, WaitEnds
  <2>3. /\ Orderly(down)' /\ Carried(down)' \subseteq Carried(down)
        /\ Carried(down) \subseteq Carried(down)' \cup {Head(down)}
        /\ Head(down) \in Carried(down)
        /\ \A f \in Carried(down)' : ~Clash(Head(down), f)
    BY <1>0, <2>2, FrameTaken
  <2>4. Answering(Head(down)) BY <2>1, <2>2, <2>3, OneAnswer
  <2>5. /\ up = <<>> /\ Head(down).sid = s /\ active[s] = Nobody
        /\ \A f \in Carried(down)' : ~Answering(f)
    BY <1>0, <2>1, <2>3, <2>4 DEF OneAsk, Clash
  <2>6. \A r \in Sids : ~Acked(r)' BY <2>5 DEF Acked, Answering
  <2>7. \A r \in Sids : ~Acked(r)
    BY <1>0, <2>1 DEF Acked, OneAsk, Answering
  <2>8. Carried(stash)' = Carried(stash) /\ Carried(drain)' = Carried(drain)
    BY <2>1 DEF Carried
  <2>9. Transit' \subseteq Transit /\ Transit \subseteq Transit' \cup {Head(down)}
    BY <2>3, <2>8 DEF Transit
  <2>10. \A r \in Sids : r # s /\ EndTold(r) => EndTold(r)' BY <2>5, <2>9 DEF EndTold
  <2>11. Ended'
    <3>1. \A e \in Carried(stash)', f \in Carried(down)' :
              e.type = "unsubscribed" /\ Lasting(f) => f.sid # e.sid
      BY <1>0, <2>3, <2>8 DEF Ended
    <3> QED BY <1>0, <2>1, <2>3, <2>9, <3>1, EndedKept
  <2>12. /\ c \in Clients /\ s \in Sids /\ msgId \in Nat /\ call \in Calls
    BY <1>0, <2>1, CallTypes DEF Waiting, TypeOK, NetType, ControlType, Calls
  <2>13. call'.id = msgId /\ call'.client = c BY <2>1, <2>12 DEF Calls
  <2>14. call' # NoCall BY <1>0, <2>12, <2>13 DEF NoCall
  <2>15. /\ UNCHANGED <<active, nextSid>>
         /\ \A r \in Sids : clientOf'[r] = IF r = s THEN Nobody ELSE clientOf[r]
    BY <1>0, <2>1 DEF server, TypeOK, SubsType
  <2>16. /\ Len(up') <= 1 /\ Carried(up)' \subseteq {SubscribeCommand(c)}
         /\ msgId' >= 1 /\ (~connected => up' = <<>>)
    BY <1>0, <2>1, <2>5, OneSent
  <2>17. Placed' BY <1>0, <2>1, <2>13, <2>16 DEF Placed
  <2>19. OneAsk'
    <3>1. \A u \in Carried(up)' : call' # NoCall /\ u.id = call'.id /\ u.cmd = "subscribe"
      BY <2>13, <2>14, <2>16 DEF SubscribeCommand
    <3> QED BY <2>1, <2>5, <2>16, <3>1 DEF OneAsk, Answering
  <2>20. StashTaken' BY <2>1 DEF StashTaken
  <2>21. Agreed'
    <3> SUFFICES ASSUME connected, NEW r \in Sids
                 PROVE  /\ ~(active[r] # Nobody /\ clientOf'[r] = Nobody)
                        /\ clientOf'[r] # Nobody /\ active[r] = Nobody => EndTold(r)'
      BY <2>1, <2>6, <2>15 DEF Agreed
    <3>1. CASE r = s BY <2>5, <2>15, <3>1
    <3>2. CASE r # s
      <4>1. /\ ~(active[r] # Nobody /\ clientOf[r] = Nobody)
            /\ clientOf[r] # Nobody /\ active[r] = Nobody => EndTold(r)
        BY <1>0, <2>7, <3>2 DEF Agreed
      <4> QED BY <2>10, <2>15, <3>2, <4>1
    <3> QED BY <3>1, <3>2
  <2> QED BY <2>11, <2>17, <2>19, <2>20, <2>21 DEF AgreeInv
<1>2. CASE Resubscribed
  <2>1. /\ pc = "resub" /\ call.client \in Clients /\ call # NoCall
    BY <1>0, <1>2, OneAnswer DEF Resubscribed, Waiting, Awaiting
  <2> QED BY <1>2, <2>1, RegisterAgrees DEF Resubscribed
<1>3. CASE ResubscribeRefused
  <2>1. pc = "resub" /\ Answered({"error"}) BY <1>0, <1>3 DEF ResubscribeRefused
  <2>2. down # <<>> /\ Head(down).type = "error" BY <1>0, <2>1, WaitEnds
  <2>3. Head(down) \in Carried(down)
    <3>1. down \in Seq(Frames) /\ Head(down) \in Frames /\ 0 \in 0..Len(down)
      BY <1>0, <2>2 DEF TypeOK, NetType
    <3> QED BY <2>2, <3>1, CarriedOps
  <2> QED BY <1>0, <2>1, <2>2, <2>3 DEF OneAsk, Answering
<1>4. CASE GapLost
  <2>1. /\ ~connected /\ down = <<>> /\ down' = down /\ UNCHANGED <<connected, stash, drain>>
        /\ UNCHANGED server /\ Idle /\ UNCHANGED orphans
        /\ call' = NoCall /\ pc' \in {"recv", "crashed"}
        /\ \A c \in Clients : outcome'[c] \in {outcome[c], "halted"}
    BY <1>4 DEF GapLost, Lost, StopAll
  <2>2. UNCHANGED <<active, nextSid, up, msgId>> BY <2>1 DEF server, Idle
  <2>3. Carried(down)' = {} /\ Orderly(down)' BY <2>1 DEF Carried, Orderly
  <2>4. Carried(up)' = {} /\ Len(up') = 0 BY <1>0, <2>1, <2>2 DEF ServeInv, Cut, Carried
  <2>5. Transit' \subseteq Transit BY <2>1 DEF Transit, Carried
  <2>6. Placed' BY <1>0, <2>1, <2>2 DEF Placed
  <2>8. OneAsk' BY <2>3, <2>4 DEF OneAsk
  <2>9. Ended' BY <1>0, <2>1, <2>3, <2>5, EndedKept
  <2>10. StashTaken' /\ Agreed' BY <2>1 DEF StashTaken, Agreed
  <2> QED BY <2>6, <2>8, <2>9, <2>10 DEF AgreeInv
<1> QED BY <1>1, <1>2, <1>3, <1>4

\* Agreement, through a reconnect.
LEMMA ReconnectAgrees ==
    ASSUME ServeInv, AgreeInv, Settled,
           Reconnect \/ ReconnectFailed \/ ResubscribedNext \/ ResubscribedAll
    PROVE  AgreeInv'
<1>0. /\ TypeOK /\ Waiting /\ Placed /\ OneAsk /\ Ended /\ StashTaken /\ Agreed
      /\ Orderly(down) /\ Nobody \notin Clients /\ ~TimedOut
  BY FeedAssumption DEF ServeInv, AgreeInv, Ended, Settled, TimedOut, Fault
<1>1. CASE Reconnect
  <2>1. /\ ~connected /\ down = <<>> /\ down' = <<>> /\ drain = <<>> /\ drain' = <<>>
        /\ stash' = <<>> /\ UNCHANGED <<outcome, orphans, call>>
        /\ pc' = "reall" /\ clientOf' = [s \in Sids |-> Nobody]
    BY <1>1 DEF Reconnect, Lost
  <2>2. UNCHANGED <<active, up, msgId>> BY <1>1 DEF Reconnect, Idle
  <2>3. Carried(down)' = {} /\ Carried(stash)' = {} /\ Carried(drain)' = {} /\ Orderly(down)'
    BY <2>1 DEF Carried, Orderly
  <2>4. Transit' = {} BY <2>3 DEF Transit
  <2>5. up' = <<>> /\ (\A s \in Sids : active'[s] = Nobody) /\ connected' = TRUE
    BY <1>0, <1>1, <2>1, <2>2 DEF ServeInv, Cut, Reconnect
  <2>6. Placed' BY <1>0, <2>1, <2>2 DEF Placed
  <2>8. OneAsk'
    <3>1. Carried(up)' = {} /\ Len(up') = 0 BY <2>5 DEF Carried
    <3> QED BY <2>3, <3>1 DEF OneAsk
  <2>9. Ended' BY <2>3, <2>4, <2>5 DEF Ended
  <2>10. StashTaken' BY <2>1 DEF StashTaken
  <2>11. \A s \in Sids : ~Acked(s)' BY <2>3 DEF Acked
  <2>12. Agreed' BY <2>1, <2>5, <2>11 DEF Agreed
  <2> QED BY <2>6, <2>8, <2>9, <2>10, <2>12 DEF AgreeInv
<1>2. CASE ReconnectFailed
  <2>1. /\ ~connected /\ UNCHANGED <<server, up, down, connected, orphans, call, stash, drain>>
        /\ UNCHANGED msgId /\ pc' = "dead" /\ pc = "recv"
        /\ \A c \in Clients : outcome'[c] \in {outcome[c], "halted"}
    BY <1>2 DEF ReconnectFailed, StopAll
  <2>2. UNCHANGED <<active, nextSid>> /\ UNCHANGED server BY <2>1 DEF server
  <2>3. /\ Carried(down)' = Carried(down) /\ Orderly(down)' /\ Carried(stash)' = Carried(stash)
        /\ Carried(up)' = Carried(up) /\ Transit' = Transit
    BY <1>0, <2>1 DEF Carried, Orderly, Transit
  <2>4. call = NoCall /\ up = <<>> /\ \A f \in Carried(down) : ~Answering(f)
    BY <1>0, <2>1, OneAnswer DEF Waiting
  <2>5. Placed' BY <1>0, <2>1 DEF Placed
  <2>7. OneAsk' BY <1>0, <2>1, <2>3, <2>4 DEF OneAsk, Answering
  <2>8. Ended'
    <3>1. \A e \in Carried(stash)', f \in Carried(down)' :
              e.type = "unsubscribed" /\ Lasting(f) => f.sid # e.sid
      BY <1>0, <2>3 DEF Ended
    <3> QED BY <1>0, <2>2, <2>3, <3>1, EndedKept
  <2>9. StashTaken' /\ Agreed' BY <2>1 DEF StashTaken, Agreed
  <2> QED BY <2>5, <2>7, <2>8, <2>9 DEF AgreeInv
<1>3. CASE ResubscribedNext
  <2>1. /\ pc = "reall" /\ pc' = "reall" /\ call # NoCall /\ call' = NoCall
        /\ UNCHANGED server /\ UNCHANGED <<connected, orphans>> /\ Idle
        /\ UNCHANGED <<stash, drain>>
    BY <1>3 DEF ResubscribedNext
  <2>2. call.client \in Clients BY <1>0, <2>1, CallTypes
  <2>3. \/ Answered({"subscribed"}) /\ Register(call.client, Head(down).sid)
           /\ UNCHANGED outcome
        \/ Answered({"error"})
        \/ Lost /\ Remove(call.client, "stopped")
    BY <1>0, <1>3 DEF ResubscribedNext
  <2>4. CASE Answered({"subscribed"}) /\ Register(call.client, Head(down).sid)
             /\ UNCHANGED outcome
    BY <2>1, <2>2, <2>4, RegisterAgrees
  <2>5. CASE Answered({"error"})
    <3>1. down # <<>> /\ Head(down).type = "error" BY <1>0, <2>5, WaitEnds
    <3>2. Head(down) \in Carried(down)
      <4>1. down \in Seq(Frames) /\ Head(down) \in Frames /\ 0 \in 0..Len(down)
        BY <1>0, <3>1 DEF TypeOK, NetType
      <4> QED BY <3>1, <4>1, CarriedOps
    <3> QED BY <1>0, <2>1, <3>1, <3>2 DEF OneAsk, Answering
  <2>6. CASE Lost /\ Remove(call.client, "stopped")
    <3>1. /\ ~connected /\ down = <<>> /\ down' = down
          /\ \A c \in Clients : outcome'[c] \in {outcome[c], "stopped"}
      BY <1>0, <2>2, <2>6 DEF Lost, Remove, Told, TypeOK, SubsType
    <3>2. UNCHANGED <<active, nextSid, up, msgId>> BY <2>1 DEF server, Idle
    <3>3. Carried(down)' = {} /\ Orderly(down)' BY <3>1 DEF Carried, Orderly
    <3>4. Carried(up)' = {} /\ Len(up') = 0 BY <1>0, <3>1, <3>2 DEF ServeInv, Cut, Carried
    <3>5. Transit' \subseteq Transit BY <2>1, <3>1 DEF Transit, Carried
    <3>6. Placed' BY <1>0, <2>1, <3>1, <3>2 DEF Placed
    <3>8. OneAsk' BY <3>3, <3>4 DEF OneAsk
    <3>9. Ended' BY <1>0, <2>1, <3>3, <3>5, EndedKept
    <3>10. StashTaken' /\ Agreed' BY <2>1, <3>1 DEF StashTaken, Agreed
    <3> QED BY <3>6, <3>8, <3>9, <3>10 DEF AgreeInv
  <2> QED BY <2>3, <2>4, <2>5, <2>6
<1>4. CASE ResubscribedAll
  <2>1. /\ pc = "reall" /\ todo = {} /\ pc' = "recv" /\ TakeStash
        /\ UNCHANGED <<server, up, down, connected, subs, orphans, call, msgId>>
    BY <1>4 DEF ResubscribedAll
  <2>2. UNCHANGED <<active, nextSid>> /\ UNCHANGED server /\ UNCHANGED <<clientOf, outcome>>
    BY <2>1 DEF server, subs
  <2>3. Carried(stash)' = {} /\ Carried(drain)' = Carried(stash) \cup Carried(drain)
    BY <1>0, <2>1, StashMoves
  <2>4. Carried(down)' = Carried(down) /\ Orderly(down)' /\ Carried(up)' = Carried(up)
    BY <1>0, <2>1 DEF Carried, Orderly
  <2>5. Transit' = Transit BY <2>3, <2>4 DEF Transit
  <2>6. /\ call = NoCall /\ up = <<>> /\ \A f \in Carried(down) : ~Answering(f)
        /\ \A s \in Sids : ~Acked(s)
    BY <1>0, <2>1, OneAnswer DEF Waiting
  <2>7. \A s \in Sids : ~Acked(s)' BY <2>4, <2>6 DEF Acked, Answering
  <2>8. Placed' BY <1>0, <2>1, <2>2 DEF Placed
  <2>10. OneAsk' BY <1>0, <2>1, <2>4, <2>6 DEF OneAsk, Answering
  <2>11. Ended' BY <1>0, <2>2, <2>3, <2>4, <2>5, EndedKept
  <2>12. StashTaken' BY <2>1 DEF StashTaken, TakeStash
  <2>13. \A s \in Sids : EndTold(s) => EndTold(s)' BY <2>5 DEF EndTold
  <2>14. Agreed' BY <1>0, <2>1, <2>2, <2>6, <2>7, <2>13 DEF Agreed
  <2> QED BY <2>8, <2>10, <2>11, <2>12, <2>14 DEF AgreeInv
<1> QED BY <1>1, <1>2, <1>3, <1>4

\* Agreement, through the commands the client sends.
LEMMA AskingAgrees ==
    ASSUME ServeInv, AgreeInv, Settled,
           \E c \in Clients : Subscribe(c) \/ Unsubscribe(c) \/ ResubscribeNext(c)
    PROVE  AgreeInv'
<1>0. /\ TypeOK /\ Waiting /\ Placed /\ OneAsk /\ Ended /\ StashTaken /\ Agreed
      /\ Orderly(down) /\ Nobody \notin Clients
  BY FeedAssumption DEF ServeInv, AgreeInv, Ended
<1>1. PICK c \in Clients : ResubscribeNext(c)
  BY <1>0 DEF Subscribe, Unsubscribe, Placed, Settled
<1>2. /\ pc = "reall" /\ pc' = "reall" /\ call = NoCall /\ Send(SubscribeCommand(c))
      /\ call' = [client |-> c, id |-> msgId, replay |-> FALSE]
      /\ UNCHANGED server /\ UNCHANGED <<down, connected, stash, drain>>
      /\ UNCHANGED <<clientOf, outcome, orphans>>
  BY <1>1 DEF ResubscribeNext
<1>3. /\ up = <<>> /\ \A f \in Carried(down) : ~Answering(f)
      /\ \A s \in Sids : ~Acked(s)
  BY <1>2, OneAnswer
<1>4. UNCHANGED <<active, nextSid>> /\ msgId \in Nat /\ msgId >= 1
  BY <1>0, <1>2 DEF server, TypeOK, NetType, Placed
<1>5. /\ Carried(down)' = Carried(down) /\ Orderly(down)' /\ Carried(stash)' = Carried(stash)
      /\ Transit' = Transit
  BY <1>0, <1>2 DEF Carried, Orderly, Transit
<1>6. /\ Len(up') <= 1 /\ Carried(up)' \subseteq {SubscribeCommand(c)}
      /\ msgId' >= 1 /\ (~connected => up' = <<>>)
  BY <1>0, <1>2, <1>3, OneSent
<1>7. call' # NoCall /\ call'.id = msgId BY <1>0, <1>2 DEF NoCall
<1>8. Placed' BY <1>0, <1>2, <1>4, <1>6, <1>7 DEF Placed
<1>10. OneAsk'
  <2>1. \A u \in Carried(up)' : call' # NoCall /\ u.id = call'.id /\ u.cmd = "subscribe"
    BY <1>6, <1>7 DEF SubscribeCommand
  <2> QED BY <1>2, <1>3, <1>5, <1>6, <2>1 DEF OneAsk, Answering
<1>11. Ended'
  <2>1. \A e \in Carried(stash)', f \in Carried(down)' :
            e.type = "unsubscribed" /\ Lasting(f) => f.sid # e.sid
    BY <1>0, <1>5 DEF Ended
  <2> QED BY <1>0, <1>2, <1>5, <2>1, EndedKept
<1>12. StashTaken' BY <1>2 DEF StashTaken
<1>13. \A s \in Sids : ~Acked(s)' /\ (EndTold(s) => EndTold(s)')
  BY <1>3, <1>5 DEF Acked, Answering, EndTold
<1>14. Agreed' BY <1>0, <1>2, <1>3, <1>4, <1>13 DEF Agreed
<1> QED BY <1>8, <1>10, <1>11, <1>12, <1>14 DEF AgreeInv
-----------------------------------------------------------------------------
\* Agreement is about these variables only.
LEMMA AgreeStays ==
    ASSUME AgreeInv, UNCHANGED <<active, nextSid, up, down, connected, clientOf, sidOf>>,
           UNCHANGED <<outcome, orphans, pc, call, stash, drain, msgId>>
    PROVE  AgreeInv'
<1>1. Placed' BY DEF AgreeInv, Placed
<1>2. /\ Carried(up)' = Carried(up) /\ Carried(down)' = Carried(down)
      /\ Carried(stash)' = Carried(stash) /\ Transit' = Transit
      /\ Orderly(down)' <=> Orderly(down)
  BY DEF Carried, Transit, Orderly
<1>3. OneAsk' BY <1>2 DEF AgreeInv, OneAsk, Answering
<1>4. Ended' BY <1>2 DEF AgreeInv, Ended, Lasting
<1>5. StashTaken' BY DEF AgreeInv, StashTaken
<1>6. \A s \in Sids : (Acked(s)' <=> Acked(s)) /\ (EndTold(s)' <=> EndTold(s))
  BY <1>2 DEF Acked, EndTold
<1>7. Agreed' BY <1>6 DEF AgreeInv, Agreed
<1> QED BY <1>1, <1>3, <1>4, <1>5, <1>7 DEF AgreeInv

\* One data frame of a live sid.
LEMMA DataAgrees ==
    ASSUME ServeInv, AgreeInv, UNCHANGED <<subs, orphans, control, msgId>>,
           UNCHANGED <<active, nextSid, up, connected>>,
           NEW f \in Frames, Data(f), active[f.sid] # Nobody,
           \/ down' = Append(down, f)
           \/ down' = Append(Append(down, f), f)
           \/ down' = down
    PROVE  AgreeInv'
<1>0. /\ TypeOK /\ Placed /\ OneAsk /\ Ended /\ StashTaken /\ Agreed /\ Orderly(down)
      /\ UNCHANGED <<clientOf, sidOf, outcome, pc, call, stash, drain>>
  BY DEF ServeInv, AgreeInv, Ended, subs, control
<1>1. ~Answering(f) /\ f.type \notin {"subscribed", "unsubscribed", "error"}
  BY DEF Data, Answering
<1>2. \A e \in Carried(down) : ~Clash(e, f)
  BY <1>0, <1>1 DEF Ended, Clash, Transit
<1>3. ~Clash(f, f) BY <1>1 DEF Clash
<1>4. /\ Orderly(Append(down, f)) /\ Append(down, f) \in Seq(Frames)
      /\ Carried(Append(down, f)) = Carried(down) \cup {f}
  BY <1>0, <1>2, FrameSent
<1>5. Orderly(down)' /\ Carried(down)' \subseteq Carried(down) \cup {f}
      /\ Carried(down) \subseteq Carried(down)'
  <2>1. CASE down' = Append(down, f)
    <3>1. (Orderly(down)' <=> Orderly(Append(down, f)))
          /\ Carried(down)' = Carried(Append(down, f))
      BY <2>1 DEF Orderly, Carried
    <3> QED BY <1>4, <3>1
  <2>2. CASE down' = Append(Append(down, f), f)
    <3> DEFINE q == Append(down, f)
    <3>1. /\ q \in Seq(Frames) /\ Orderly(q) /\ Carried(q) = Carried(down) \cup {f}
          /\ down' = Append(q, f)
      BY <1>4, <2>2
    <3> HIDE DEF q
    <3>2. \A e \in Carried(q) : ~Clash(e, f) BY <1>2, <1>3, <3>1
    <3>3. Orderly(Append(q, f)) BY <3>1, <3>2, OrderlyOps
    <3>4. Carried(Append(q, f)) = Carried(q) \cup {f}
      <4>1. 0 \in 0..Len(q) BY <3>1
      <4> QED BY <3>1, <4>1, CarriedOps
    <3>5. (Orderly(down)' <=> Orderly(Append(q, f))) /\ Carried(down)' = Carried(Append(q, f))
      BY <3>1 DEF Orderly, Carried
    <3> QED BY <3>1, <3>3, <3>4, <3>5
  <2>3. CASE down' = down BY <1>0, <2>3 DEF Orderly, Carried
  <2> QED BY <2>1, <2>2, <2>3
<1>6. Carried(stash)' = Carried(stash) /\ Carried(up)' = Carried(up)
      /\ Carried(drain)' = Carried(drain)
  BY <1>0 DEF Carried
<1>7. Transit' \subseteq Transit \cup {f} /\ Transit \subseteq Transit'
  BY <1>5, <1>6 DEF Transit
<1>8. Placed' /\ StashTaken' BY <1>0 DEF Placed, StashTaken
<1>9. OneAsk' BY <1>0, <1>1, <1>5, <1>6 DEF OneAsk, Answering
<1>10. Ended'
  <2>1. \A g \in Transit' : g.type = "unsubscribed" => active'[g.sid] = Nobody /\ g.sid < nextSid'
    BY <1>0, <1>1, <1>7 DEF Ended
  <2>2. \A e \in Carried(stash)', g \in Carried(down)' :
            e.type = "unsubscribed" /\ Lasting(g) => g.sid # e.sid
    <3>1. \A e \in Carried(stash) : e.type = "unsubscribed" => f.sid # e.sid
      BY <1>0 DEF Ended, Transit
    <3> QED BY <1>0, <1>5, <1>6, <3>1 DEF Ended
  <2> QED BY <1>0, <1>5, <2>1, <2>2 DEF Ended, Lasting
<1>11. \A s \in Sids : (Acked(s)' <=> Acked(s)) /\ (EndTold(s) => EndTold(s)')
  BY <1>1, <1>5, <1>7 DEF Acked, EndTold
<1>12. Agreed' BY <1>0, <1>11 DEF Agreed
<1> QED BY <1>8, <1>9, <1>10, <1>12 DEF AgreeInv

\* The end of a sid, told in a frame that answers nothing or the command in hand.
LEMMA EndAgrees ==
    ASSUME ServeInv, AgreeInv, UNCHANGED <<subs, orphans, control, msgId>>,
           UNCHANGED <<nextSid, connected>>, NEW s \in Sids,
           active' = [active EXCEPT ![s] = Nobody],
           NEW f \in Frames, f.sid = s, f.type \in {"unsubscribed", "error"},
           f.type = "unsubscribed" => active[s] # Nobody,
           down' = Append(down, f),
           \/ up' = up /\ ~Answering(f) /\ f.type = "unsubscribed"
           \/ /\ pc = "unsub" /\ s = sidOf[call.client] /\ up' = <<>>
              /\ Answering(f) /\ f.id = call.id /\ call # NoCall
              /\ \A e \in Carried(down) : ~Answering(e)
    PROVE  AgreeInv'
<1>0. /\ TypeOK /\ Placed /\ OneAsk /\ Ended /\ StashTaken /\ Agreed /\ Orderly(down)
      /\ UNCHANGED <<clientOf, sidOf, outcome, pc, call, stash, drain>>
      /\ active \in [Sids -> Tickers \cup {Nobody}]
  BY DEF ServeInv, AgreeInv, Ended, subs, control, TypeOK, ServerType
<1>1. \A r \in Sids : active'[r] = IF r = s THEN Nobody ELSE active[r] BY <1>0
<1>2. \A e \in Carried(down) : ~Clash(e, f)
  BY <1>0 DEF Ended, Clash, Transit, Lasting
<1>3. /\ Orderly(Append(down, f))
      /\ Carried(Append(down, f)) = Carried(down) \cup {f}
  BY <1>0, <1>2, FrameSent
<1>4. Orderly(down)' /\ Carried(down)' = Carried(down) \cup {f}
  BY <1>3 DEF Orderly, Carried
<1>5. Carried(stash)' = Carried(stash) /\ Carried(drain)' = Carried(drain)
  BY <1>0 DEF Carried
<1>6. Transit' = Transit \cup {f} BY <1>4, <1>5 DEF Transit
<1>7. \A g \in Transit : g.type # "error" => g.sid \in Sids
  BY <1>0, TransitFrames, FrameKinds
<1>8. Placed' /\ StashTaken' BY <1>0 DEF Placed, StashTaken
<1>10. OneAsk'
  <2>1. CASE up' = up /\ ~Answering(f) /\ f.type = "unsubscribed"
    <3>1. Carried(up)' = Carried(up) BY <2>1 DEF Carried
    <3>2. \A g \in Carried(down) : Answering(g) =>
              (pc = "unsub" => active'[g.sid] = Nobody)
      <4>1. \A g \in Carried(down) : Answering(g) /\ pc = "unsub" =>
                active[g.sid] = Nobody
        BY <1>0 DEF OneAsk
      <4> QED BY <1>0, <4>1
    <3> QED BY <1>0, <1>4, <2>1, <3>1, <3>2 DEF OneAsk, Answering
  <2>2. CASE /\ pc = "unsub" /\ s = sidOf[call.client] /\ up' = <<>>
             /\ Answering(f) /\ f.id = call.id /\ call # NoCall
             /\ \A e \in Carried(down) : ~Answering(e)
    <3>1. Carried(up)' = {} /\ Len(up') = 0 BY <2>2 DEF Carried
    <3> QED BY <1>0, <1>1, <1>4, <2>2, <3>1 DEF OneAsk, Answering
  <2> QED BY <2>1, <2>2
<1>11. Ended'
  <2>1. \A g \in Transit' : g.type = "unsubscribed" => active'[g.sid] = Nobody /\ g.sid < nextSid'
    BY <1>0, <1>1, <1>6, <1>7 DEF Ended
  <2>2. \A e \in Carried(stash)', g \in Carried(down)' :
            e.type = "unsubscribed" /\ Lasting(g) => g.sid # e.sid
    <3>1. \A e \in Carried(stash) : e.type = "unsubscribed" /\ Lasting(f) => f.sid # e.sid
      BY <1>0 DEF Ended, Transit, Lasting
    <3> QED BY <1>0, <1>4, <1>5, <3>1 DEF Ended
  <2>3. \A r \in Sids : active'[r] # Nobody => r < nextSid' BY <1>0, <1>1 DEF Ended
  <2> QED BY <1>4, <2>1, <2>2, <2>3 DEF Ended, Lasting
<1>12. \A r \in Sids : (Acked(r)' <=> Acked(r)) /\ (EndTold(r) => EndTold(r)')
  BY <1>4, <1>6 DEF Acked, EndTold
<1>13. f.type = "unsubscribed" => EndTold(s)' BY <1>6 DEF EndTold
<1>14. Agreed' BY <1>0, <1>1, <1>12, <1>13 DEF Agreed
<1> QED BY <1>8, <1>10, <1>11, <1>14 DEF AgreeInv

\* The one command on its way, taken by the server.
LEMMA LastCommand ==
    ASSUME TypeOK, Len(up) <= 1, up # <<>>
    PROVE  Tail(up) = <<>>
<1>1. up \in Seq(Commands) /\ Len(up) \in Nat BY DEF TypeOK, NetType
<1>2. Len(up) # 0 BY <1>1, EmptySeq
<1>3. Len(up) = 1
  <2> DEFINE n == Len(up)
  <2>1. n \in Nat /\ n # 0 /\ n <= 1 BY <1>1, <1>2
  <2> HIDE DEF n
  <2>2. n = 1 BY <2>1
  <2> QED BY <2>2 DEF n
<1>4. Tail(up) \in Seq(Commands) /\ Len(Tail(up)) = 0 BY <1>1, <1>3
<1> QED BY <1>4, EmptySeq

\* The acknowledgement and the snapshot of a sid nobody has heard of.
LEMMA AcceptAgrees ==
    ASSUME ServeInv, AgreeInv, AcceptSubscribe
    PROVE  AgreeInv'
<1>0. /\ TypeOK /\ Placed /\ OneAsk /\ Ended /\ StashTaken /\ Agreed /\ Orderly(down)
      /\ UNCHANGED <<clientOf, sidOf, outcome, pc, call, stash, drain>>
      /\ UNCHANGED <<connected, orphans, msgId>>
      /\ active \in [Sids -> Tickers \cup {Nobody}] /\ nextSid \in Nat /\ up \in Seq(Commands)
  BY DEF ServeInv, AgreeInv, Ended, AcceptSubscribe, subs, control, TypeOK, ServerType, NetType
<1> PICK s \in Sids : s = nextSid BY <1>0, AcceptSends
<1> DEFINE ack == Reply("subscribed", Head(up).id, s)
<1>1. /\ up # <<>> /\ Head(up) \in Commands /\ Head(up).cmd = "subscribe"
      /\ s = nextSid /\ Head(up).id \in Nat /\ Head(up).ticker \in Tickers
      /\ active' = [active EXCEPT ![s] = Head(up).ticker]
      /\ nextSid' = s + 1
  BY <1>0, AcceptSends
<1>2. PICK snapshot \in Frames :
          /\ snapshot.type = "snapshot" /\ snapshot.sid = s
          /\ down' = Append(Append(down, ack), snapshot)
  <2>1. PICK ok \in BOOLEAN :
            LET snapshot == [type |-> "snapshot", sid |-> s, seq |-> 1, ticker |-> Head(up).ticker,
                             ver |-> version[Head(up).ticker], ok |-> ok]
            IN  snapshot \in Frames /\ down' = Append(Append(down, ack), snapshot)
    BY <1>0, AcceptSends, Zenon
  <2> QED BY <2>1
<1>3. up' = <<>> /\ Head(up) \in Carried(up)
  <2>1. up' = Tail(up) BY DEF AcceptSubscribe
  <2>2. Len(up) <= 1 BY <1>0 DEF OneAsk
  <2>3. up' = <<>> BY <1>0, <1>1, <2>1, <2>2, LastCommand
  <2>4. Head(up) \in Carried(up) BY <1>0, <1>1, NetCarries
  <2> QED BY <2>3, <2>4
<1>4. /\ call # NoCall /\ Head(up).id = call.id /\ pc \in {"resub", "reall"}
      /\ \A e \in Carried(down) : ~Answering(e)
  <2>1. call # NoCall /\ Head(up).id = call.id /\ pc # "unsub"
    BY <1>0, <1>1, <1>3 DEF OneAsk
  <2> QED BY <1>0, <1>1, <2>1, OneAnswer DEF OneAsk
<1>5. /\ ack \in Frames /\ ack.type = "subscribed" /\ ack.sid = s /\ ack.id = call.id
      /\ Answering(ack)
  <2>1. ack \in Frames BY <1>0, <1>1, FramesMade
  <2> QED BY <1>4, <2>1 DEF Reply, Answering
<1> HIDE DEF ack
<1>6. ~Answering(snapshot) BY <1>2 DEF Answering
<1> DEFINE q == Append(down, ack)
<1>7. q \in Seq(Frames) /\ Orderly(q) /\ Carried(q) = Carried(down) \cup {ack}
  <2>1. \A e \in Carried(down) : ~Clash(e, ack) BY <1>4, <1>5 DEF Clash, Lasting
  <2> QED BY <1>0, <1>5, <2>1, FrameSent
<1> HIDE DEF q
<1>8. \A e \in Transit : e.type = "unsubscribed" => e.sid # s
  <2>1. \A e \in Transit : e.type = "unsubscribed" => e.sid < s /\ e.sid \in Nat
    BY <1>0, TransitFrames, FrameKinds DEF Ended, Sids
  <2> QED BY <1>0, <2>1
<1>9. Orderly(Append(q, snapshot)) /\ Carried(Append(q, snapshot)) = Carried(q) \cup {snapshot}
  <2>1. \A e \in Carried(q) : ~Clash(e, snapshot)
    BY <1>2, <1>5, <1>6, <1>7, <1>8 DEF Clash, Transit
  <2>2. 0 \in 0..Len(q) BY <1>7
  <2>3. Orderly(Append(q, snapshot)) BY <1>2, <1>7, <2>1, OrderlyOps
  <2>4. Carried(Append(q, snapshot)) = Carried(q) \cup {snapshot}
    BY <1>2, <1>7, <2>2, CarriedOps
  <2> QED BY <2>3, <2>4
<1>10. Orderly(down)' /\ Carried(down)' = Carried(down) \cup {ack, snapshot}
  <2>1. down' = Append(q, snapshot) BY <1>2 DEF q
  <2>2. (Orderly(down)' <=> Orderly(Append(q, snapshot)))
        /\ Carried(down)' = Carried(Append(q, snapshot))
    BY <2>1 DEF Orderly, Carried
  <2> QED BY <1>7, <1>9, <2>2
<1>11. Carried(stash)' = Carried(stash) /\ Carried(drain)' = Carried(drain)
       /\ Carried(up)' = {} /\ Len(up') = 0
  BY <1>0, <1>3 DEF Carried
<1>12. Transit' = Transit \cup {ack, snapshot} BY <1>10, <1>11 DEF Transit
<1>13. /\ \A r \in Sids : r # s => active'[r] = active[r]
       /\ active'[s] # Nobody
  BY <1>0, <1>1, FeedAssumption DEF Tickers
<1>14. Placed' /\ StashTaken' BY <1>0 DEF Placed, StashTaken
<1>16. OneAsk' BY <1>0, <1>4, <1>5, <1>6, <1>10, <1>11 DEF OneAsk, Answering
<1>17. Ended'
  <2>1. \A g \in Transit' : g.type = "unsubscribed" => active'[g.sid] = Nobody /\ g.sid < nextSid'
    <3>1. \A g \in Transit : g.type = "unsubscribed" => g.sid \in Sids /\ g.sid # s
      BY <1>0, <1>8, TransitFrames, FrameKinds
    <3>2. \A g \in Transit' : g.type = "unsubscribed" => g \in Transit
      BY <1>2, <1>5, <1>12
    <3>3. \A g \in Transit : g.type = "unsubscribed" => active[g.sid] = Nobody /\ g.sid < s
      BY <1>0 DEF Ended
    <3> QED BY <1>1, <1>13, <3>1, <3>2, <3>3 DEF Sids
  <2>2. \A e \in Carried(stash)', g \in Carried(down)' :
            e.type = "unsubscribed" /\ Lasting(g) => g.sid # e.sid
    <3>1. \A e \in Carried(stash) : e.type = "unsubscribed" => e.sid # s
      BY <1>8 DEF Transit
    <3> QED BY <1>0, <1>2, <1>5, <1>10, <1>11, <3>1 DEF Ended
  <2>3. \A r \in Sids : active'[r] # Nobody => r < nextSid'
    BY <1>0, <1>1, <1>13 DEF Ended, Sids
  <2> QED BY <1>10, <2>1, <2>2, <2>3 DEF Ended, Lasting
<1>18. /\ \A r \in Sids : r # s => (Acked(r)' <=> Acked(r))
       /\ \A r \in Sids : EndTold(r) => EndTold(r)'
       /\ Acked(s)'
  <2>1. \A r \in Sids : r # s => (Acked(r)' <=> Acked(r))
    BY <1>2, <1>5, <1>10 DEF Acked
  <2>2. \A r \in Sids : EndTold(r) => EndTold(r)' BY <1>12 DEF EndTold
  <2>3. Acked(s)' BY <1>5, <1>10 DEF Acked
  <2> QED BY <2>1, <2>2, <2>3
<1>19. Agreed'
  <2> SUFFICES ASSUME connected, NEW r \in Sids
               PROVE  /\ active'[r] # Nobody /\ clientOf[r] = Nobody => Acked(r)'
                      /\ (clientOf[r] # Nobody \/ Acked(r)') /\ active'[r] = Nobody => EndTold(r)'
    BY <1>0 DEF Agreed
  <2>1. CASE r = s BY <1>13, <1>18, <2>1
  <2>2. CASE r # s BY <1>0, <1>4, <1>13, <1>18, <2>2 DEF Agreed
  <2> QED BY <2>1, <2>2
<1> QED BY <1>14, <1>16, <1>17, <1>19 DEF AgreeInv
\* Agreement, through the steps of the server and the network.
LEMMA EnvironmentAgrees ==
    ASSUME ServeInv, AgreeInv, Settled, Environment
    PROVE  AgreeInv'
<1>0. /\ TypeOK /\ Placed /\ OneAsk /\ Ended /\ Orderly(down)
      /\ UNCHANGED <<subs, local, orphans, control, msgId>>
      /\ down \in Seq(Frames) /\ up \in Seq(Commands)
  BY EnvironmentKeeps DEF ServeInv, AgreeInv, Ended, TypeOK, NetType
<1>1. ASSUME NEW t \in Tickers, Change(t) PROVE AgreeInv'
  <2>1. UNCHANGED <<active, nextSid, up, down, connected>> BY <1>1 DEF Change
  <2> QED BY <1>0, <2>1, AgreeStays DEF subs, control
<1>2. ASSUME NEW s \in Sids, Emit(s) PROVE AgreeInv'
  <2>0. /\ seq[s] \in Nat /\ sent[s] \in Nat /\ UNCHANGED <<active, nextSid, up, connected>>
        /\ (seq' = [seq EXCEPT ![s] = seq[s] + 1] \/ seq' = [seq EXCEPT ![s] = 1])
    BY <1>0, <1>2, EmitSends
  <2>1. active[s] # Nobody /\ UNCHANGED <<active, nextSid, up, connected>>
        /\ seq'[s] \in Nat /\ sent[s] \in Nat
    BY <1>0, <1>2, <2>0 DEF Emit, TypeOK, ServerType
  <2>2. PICK ok \in BOOLEAN :
            \/ down' = Append(down, Delta(s, seq'[s], sent[s] + 1, ok))
            \/ down' = Append(Append(down, Delta(s, seq'[s], sent[s] + 1, ok)),
                              Delta(s, seq'[s], sent[s] + 1, ok))
            \/ down' = down
    BY <1>0, <1>2, EmitSends, Zenon
  <2> DEFINE f == Delta(s, seq'[s], sent[s] + 1, ok)
  <2>3. f \in Frames
    <3>1. sent[s] + 1 \in Nat BY <2>1
    <3> QED BY <1>0, <2>1, <3>1, FramesMade, Zenon
  <2>4. Data(f) /\ f.sid = s BY DEF Delta, Data
  <2>5. down' = Append(down, f) \/ down' = Append(Append(down, f), f) \/ down' = down
    BY <2>2, Zenon
  <2> HIDE DEF f
  <2>6. active[f.sid] # Nobody BY <2>1, <2>4
  <2> QED BY <1>0, <2>1, <2>3, <2>4, <2>5, <2>6, DataAgrees
<1>3. ASSUME NEW s \in Sids, Redeliver(s) PROVE AgreeInv'
  <2> DEFINE f == Delta(s, seq[s] - 1, sent[s] - 1, TRUE)
  <2>1. /\ active[s] # Nobody /\ UNCHANGED server /\ UNCHANGED <<up, connected>>
        /\ seq[s] > 2 /\ sent[s] > 1
        /\ down' = Append(down, f)
    BY <1>3 DEF Redeliver
  <2>2. UNCHANGED <<active, nextSid>> BY <2>1 DEF server
  <2>3. seq[s] - 1 \in Nat /\ sent[s] - 1 \in Nat /\ TRUE \in BOOLEAN
    BY <1>0, <2>1 DEF TypeOK, ServerType
  <2>4. f \in Frames BY <1>0, <2>1, <2>3, FramesMade, Zenon
  <2>5. Data(f) /\ f.sid = s BY DEF Delta, Data
  <2> HIDE DEF f
  <2>6. active[f.sid] # Nobody BY <2>1, <2>5
  <2> QED BY <1>0, <2>1, <2>2, <2>4, <2>5, <2>6, DataAgrees
<1>4. ASSUME NEW s \in Sids, Reap(s) PROVE AgreeInv'
  <2> DEFINE f == Reply("unsubscribed", 0, s)
  <2>1. /\ active[s] # Nobody /\ active' = [active EXCEPT ![s] = Nobody]
        /\ down' = Append(down, f) /\ UNCHANGED <<nextSid, up, connected>>
    BY <1>4 DEF Reap
  <2>2. f \in Frames BY <1>0, FramesMade
  <2>3. f.sid = s /\ f.type = "unsubscribed" /\ ~Answering(f) BY DEF Reply, Answering
  <2> HIDE DEF f
  <2> QED BY <1>0, <2>1, <2>2, <2>3, EndAgrees
<1>5. CASE AcceptSubscribe BY <1>5, AcceptAgrees
<1>6. ~RejectSubscribe BY DEF RejectSubscribe, Fault, Settled
<1>7. CASE AnswerUnsubscribe
  <2> DEFINE u == Head(up)
             t == IF active[u.sid] = Nobody THEN "error" ELSE "unsubscribed"
             f == Reply(t, u.id, u.sid)
  <2>1. /\ up # <<>> /\ u.cmd = "unsubscribe" /\ up' = Tail(up)
        /\ active' = [active EXCEPT ![u.sid] = Nobody]
        /\ down' = Append(down, f) /\ UNCHANGED <<nextSid, connected>>
    BY <1>7 DEF AnswerUnsubscribe
  <2>2. u \in Commands /\ u \in Carried(up) BY <1>0, <2>1, NetCarries
  <2>3. u.sid \in Sids /\ u.id \in Nat BY <2>1, <2>2 DEF Commands
  <2>4. call # NoCall /\ u.id = call.id BY <1>0, <2>2 DEF OneAsk
  <2>5. pc = "unsub" /\ u.sid = sidOf[call.client] /\ call.id >= 1
    <3>1. pc \in {"unsub", "resub", "reall"} BY <2>4, OneAnswer
    <3> QED BY <1>0, <2>1, <2>2, <2>4, <3>1 DEF OneAsk, Placed
  <2>6. up' = <<>>
    <3>1. Len(up) <= 1 BY <1>0 DEF OneAsk
    <3> QED BY <1>0, <2>1, <3>1, LastCommand
  <2>7. \A e \in Carried(down) : ~Answering(e) BY <1>0, <2>1 DEF OneAsk
  <2>8. /\ f.type \in {"unsubscribed", "error"} /\ f.sid = u.sid /\ f.id = call.id
        /\ f.type = "unsubscribed" => active[u.sid] # Nobody
        /\ Answering(f)
    BY <1>0, <2>4, <2>5 DEF Reply, Answering
  <2>9. f \in Frames
    <3>1. u.sid \in 0..MaxSid BY <2>3 DEF Sids
    <3>2. Reply("unsubscribed", u.id, u.sid) \in Frames /\ Reply("error", u.id, u.sid) \in Frames
      BY <1>0, <2>3, <3>1, FramesMade, Zenon
    <3>3. t = "unsubscribed" \/ t = "error" OBVIOUS
    <3> QED BY <3>2, <3>3
  <2> HIDE DEF f
  <2>10. PICK s \in Sids : s = u.sid BY <2>3
  <2> HIDE DEF u
  <2> QED BY <1>0, <2>1, <2>4, <2>5, <2>6, <2>7, <2>8, <2>9, <2>10, EndAgrees
<1>8. CASE Drop
  <2>1. /\ connected' = FALSE /\ up' = <<>> /\ (\A s \in Sids : active'[s] = Nobody)
        /\ UNCHANGED nextSid /\ \E k \in 0..Len(down) : down' = SubSeq(down, 1, k)
    BY <1>8 DEF Drop, server
  <2>2. PICK k \in 0..Len(down) : down' = SubSeq(down, 1, k) BY <2>1
  <2>3. Orderly(down)' /\ Carried(down)' \subseteq Carried(down)
    <3>1. Orderly(SubSeq(down, 1, k)) BY <1>0, OrderlyOps
    <3>2. Carried(SubSeq(down, 1, k)) \subseteq Carried(down) BY <1>0, NetCarries
    <3> QED BY <2>2, <3>1, <3>2 DEF Orderly, Carried
  <2>4. /\ UNCHANGED <<outcome, pc, call, stash, drain, sidOf, orphans, msgId>>
    BY <1>0 DEF subs, control
  <2>5. Carried(stash)' = Carried(stash) /\ Carried(drain)' = Carried(drain)
        /\ Carried(up)' = {} /\ Len(up') = 0
    BY <2>1, <2>4 DEF Carried
  <2>6. Transit' \subseteq Transit BY <2>3, <2>5 DEF Transit
  <2>7. Placed' BY <1>0, <2>4 DEF Placed
  <2>9. OneAsk'
    <3>1. \A f \in Carried(down) : Answering(f) => f.sid \in Sids \/ f.type = "error"
      <4>1. \A f \in Carried(down) : f \in Frames BY <1>0, CarriedSeq
      <4> QED BY <4>1, FrameKinds
    <3>2. \A f \in Carried(down) : Answering(f) /\ pc = "unsub" => f.sid \in Sids
      <4>1. \A f \in Carried(down) : Answering(f) /\ pc = "unsub" => f.sid = sidOf[call.client]
        BY <1>0 DEF OneAsk
      <4>2. pc = "unsub" => sidOf[call.client] \in Sids BY DEF ServeInv, Waiting
      <4> QED BY <4>1, <4>2
    <3> QED BY <1>0, <2>1, <2>3, <2>4, <2>5, <3>2 DEF OneAsk, Answering
  <2>10. Ended'
    <3>1. \A f \in Transit : f.type = "unsubscribed" => f.sid \in Sids
      BY <1>0, TransitFrames, FrameKinds
    <3>2. \A f \in Transit' : f.type = "unsubscribed" => active'[f.sid] = Nobody /\ f.sid < nextSid'
      BY <1>0, <2>1, <2>6, <3>1 DEF Ended
    <3>3. \A e \in Carried(stash)', f \in Carried(down)' :
              e.type = "unsubscribed" /\ Lasting(f) => f.sid # e.sid
      BY <1>0, <2>3, <2>5 DEF Ended
    <3> QED BY <2>1, <2>3, <3>2, <3>3 DEF Ended, Lasting
  <2>11. StashTaken' /\ Agreed' BY <2>1 DEF StashTaken, Agreed
  <2> QED BY <2>7, <2>9, <2>10, <2>11 DEF AgreeInv
<1> QED BY <1>1, <1>2, <1>3, <1>4, <1>5, <1>6, <1>7, <1>8, Zenon DEF Environment

\* At the start the two sides agree.
LEMMA InitAgrees == Init /\ Settled => AgreeInv
<1> SUFFICES ASSUME Init, Settled PROVE AgreeInv OBVIOUS
<1>1. /\ Early = Clients /\ Cardinality(Early) \in Nat
      /\ \A s \in Sids : ClientOn(s) # Nobody => s <= Cardinality(Early)
      /\ \A s \in Sids : ClientOn(s) = Nobody \/ ClientOn(s) \in Clients
  BY FirstSids, OnFirst DEF Settled, Early
<1>2. /\ active = [s \in Sids |->
                      IF ClientOn(s) = Nobody THEN Nobody ELSE TickerOf[ClientOn(s)]]
      /\ nextSid = Cardinality(Early) + 1
      /\ up = <<>> /\ down = <<>> /\ connected = TRUE /\ stash = <<>> /\ drain = <<>>
      /\ clientOf = [s \in Sids |-> ClientOn(s)]
      /\ outcome = [c \in Clients |-> IF c \in Early THEN "open" ELSE "idle"]
      /\ orphans = {} /\ pc = "recv" /\ call = NoCall /\ msgId = Cardinality(Early) + 1
  BY DEF Init
<1>3. Carried(up) = {} /\ Carried(down) = {} /\ Carried(stash) = {} /\ Carried(drain) = {}
      /\ Orderly(down) /\ Len(up) = 0
  BY <1>2 DEF Carried, Orderly
<1>4. Transit = {} BY <1>3 DEF Transit
<1>5. \A s \in Sids : active[s] # Nobody <=> clientOf[s] # Nobody
  BY <1>1, <1>2, FeedAssumption
<1>6. \A s \in Sids : ~Acked(s) BY <1>3 DEF Acked
<1>7. Placed BY <1>1, <1>2 DEF Placed
<1>9. OneAsk BY <1>3 DEF OneAsk
<1>10. Ended
  <2>1. \A s \in Sids : active[s] # Nobody => s < nextSid BY <1>1, <1>2 DEF Sids
  <2> QED BY <1>3, <1>4, <2>1 DEF Ended
<1>11. StashTaken BY <1>2 DEF StashTaken
<1>12. Agreed BY <1>5, <1>6 DEF Agreed
<1> QED BY <1>7, <1>9, <1>10, <1>11, <1>12 DEF AgreeInv

\* Every step keeps the agreement.
LEMMA AgreeStep == Settled /\ ServeInv /\ AgreeInv /\ [Next]_vars => AgreeInv'
<1> SUFFICES ASSUME Settled, ServeInv, AgreeInv, [Next]_vars PROVE AgreeInv' OBVIOUS
<1>1. CASE Environment BY <1>1, EnvironmentAgrees
<1>2. CASE Read \/ Replay \/ Overhear BY <1>2, ReadingAgrees
<1>3. ASSUME NEW c \in Clients, Subscribe(c) \/ Unsubscribe(c) \/ ResubscribeNext(c)
      PROVE  AgreeInv'
  BY <1>3, AskingAgrees, Zenon
<1>4. ~SubscribeDone /\ ~UnsubscribeDone
  BY DEF AgreeInv, Placed, SubscribeDone, UnsubscribeDone
<1>5. CASE Unsubscribing \/ Resubscribed \/ ResubscribeRefused \/ GapLost
  BY <1>5, RecoveryAgrees
<1>6. CASE Reconnect \/ ReconnectFailed \/ ResubscribedNext \/ ResubscribedAll
  BY <1>6, ReconnectAgrees
<1>7. CASE UNCHANGED vars
  <2>1. /\ UNCHANGED <<active, nextSid, up, down, connected, clientOf, sidOf>>
        /\ UNCHANGED <<outcome, orphans, pc, call, stash, drain, msgId>>
    BY <1>7 DEF vars, server, subs, control
  <2> QED BY <2>1, AgreeStays
<1> QED BY <1>1, <1>2, <1>3, <1>4, <1>5, <1>6, <1>7, Zenon DEF Next, ClientStep

(* Once nothing is on its way, client and server agree on every sid: through   *)
(* gaps, repeats, restarts and late frames, sids the server ends on its own     *)
(* (dispatch.py 108), recoveries that overhear such an end (channels.py 229),   *)
(* lost connections and reconnects, for any number of subscriptions. The        *)
(* subscriptions are those made before, and no reply is refused or late.        *)
THEOREM BothSidesAgree ==
    ASSUME Late = {}, Leavers = {}, Faults \cap {"timeout", "reject"} = {}
    PROVE  Spec => []ServerAgrees
<1>0. Settled BY DEF Settled
<1>1. Init => AgreeInv BY <1>0, InitAgrees
<1>2. ServeInv /\ AgreeInv /\ [Next]_vars => AgreeInv' BY <1>0, AgreeStep
<1>3. AgreeInv => ServerAgrees
  <2> SUFFICES ASSUME AgreeInv, Quiet, NEW s \in Sids
               PROVE  active[s] # Nobody <=> clientOf[s] # Nobody
    BY DEF ServerAgrees
  <2>1. pc = "recv" /\ connected /\ down = <<>> /\ drain = <<>> /\ stash = <<>>
    BY DEF Quiet, AgreeInv, StashTaken
  <2>2. Carried(down) = {} /\ Carried(stash) = {} /\ Carried(drain) = {} BY <2>1 DEF Carried
  <2>3. ~Acked(s) /\ ~EndTold(s) BY <2>2 DEF Acked, EndTold, Transit
  <2> QED BY <2>1, <2>3 DEF AgreeInv, Agreed
<1> QED BY <1>1, <1>2, <1>3, ServeAlways, PTL DEF Spec
=============================================================================
