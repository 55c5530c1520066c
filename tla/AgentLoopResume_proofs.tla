----------------------- MODULE AgentLoopResume_proofs -----------------------
(***************************************************************************)
(* The proof that a resumed response misses nothing of the conversation:   *)
(* what the endpoint has before a response, beside the items, the rows and *)
(* the conversation of the session, the cursor and the stored response id. *)
(***************************************************************************)
EXTENDS AgentLoop_proofs

-----------------------------------------------------------------------------
(* What a sequence of items has, and how often *)

IsEssential(x) == x.k \in {"user", "file", "text", "call", "output"}
In(s, x) == \E y \in ToSet(s) : Same(y, x)
Distinct(s) == \A i, j \in DOMAIN s : IsEssential(s[i]) /\ Same(s[i], s[j]) => i = j

LEMMA SetNone ==
  ToSet(<< >>) = {} /\ Distinct(<< >>) /\ \A x : ~ In(<< >>, x)
<1>1. DOMAIN << >> = {}
  OBVIOUS
<1> QED
  BY <1>1 DEF ToSet, Distinct, In

LEMMA SetJoined ==
  ASSUME NEW q \in Seq(Items), NEW r \in Seq(Items)
  PROVE  /\ Joined(q, r) \in Seq(Items)
         /\ ToSet(Joined(q, r)) = ToSet(q) \cup ToSet(r)
<1> DEFINE s == q \o r
<1>1. /\ s \in Seq(Items) /\ Len(q) \in Nat /\ Len(r) \in Nat
      /\ DOMAIN q = 1 .. Len(q) /\ DOMAIN r = 1 .. Len(r) /\ DOMAIN s = 1 .. Len(q) + Len(r)
      /\ \A i \in 1 .. Len(q) : s[i] = q[i]
      /\ \A i \in 1 .. Len(r) : s[Len(q) + i] = r[i]
      /\ \A i \in Len(q) + 1 .. Len(q) + Len(r) : s[i] = r[i - Len(q)]
  BY ConcatFacts
<1> HIDE DEF s
<1>2. ASSUME NEW i \in DOMAIN s
      PROVE  s[i] \in ToSet(q) \cup ToSet(r)
  <2>1. CASE i \in 1 .. Len(q)
    BY <1>1, <2>1 DEF ToSet
  <2>2. CASE i \in Len(q) + 1 .. Len(q) + Len(r)
    <3>1. i - Len(q) \in 1 .. Len(r)
      BY <1>1, <2>2
    <3> QED
      BY <1>1, <2>2, <3>1 DEF ToSet
  <2> QED
    BY <1>1, <2>1, <2>2
<1>3. ASSUME NEW i \in DOMAIN q
      PROVE  q[i] \in ToSet(s)
  <2>1. i \in DOMAIN s
    BY <1>1
  <2> QED
    BY <1>1, <2>1 DEF ToSet
<1>4. ASSUME NEW i \in DOMAIN r
      PROVE  r[i] \in ToSet(s)
  <2>1. Len(q) + i \in DOMAIN s
    BY <1>1
  <2> QED
    BY <1>1, <2>1 DEF ToSet
<1>5. ToSet(s) = ToSet(q) \cup ToSet(r)
  BY <1>2, <1>3, <1>4 DEF ToSet
<1> QED
  BY <1>1, <1>5 DEF s, Joined

LEMMA SetAppended ==
  ASSUME NEW q \in Seq(Items), NEW x \in Items
  PROVE  /\ Append(q, x) \in Seq(Items)
         /\ ToSet(Append(q, x)) = ToSet(q) \cup {x}
         /\ Append(q, x) = Joined(q, <<x>>) /\ <<x>> \in Seq(Items) /\ ToSet(<<x>>) = {x}
<1>1. <<x>> \in Seq(Items) /\ DOMAIN <<x>> = {1}
  OBVIOUS
<1>2. ToSet(<<x>>) = {x}
  BY <1>1 DEF ToSet
<1>3. Append(q, x) = Joined(q, <<x>>)
  BY AppendIsConcat DEF Joined
<1> QED
  BY <1>1, <1>2, <1>3, SetJoined, ZenonT(60)

LEMMA SetFrom ==
  ASSUME NEW q \in Seq(Items), NEW b \in 0 .. Len(q)
  PROVE  From(q, b) \in Seq(Items) /\ ToSet(From(q, b)) \subseteq ToSet(q)
<1>1. /\ From(q, b) \in Seq(Items) /\ Len(q) \in Nat /\ DOMAIN From(q, b) = 1 .. Len(q) - b
      /\ \A i \in 1 .. Len(q) - b : From(q, b)[i] = q[b + i]
  BY FromFacts
<1>2. DOMAIN q = 1 .. Len(q)
  BY LenProperties
<1>3. \A i \in 1 .. Len(q) - b : b + i \in DOMAIN q
  BY <1>1, <1>2
<1> QED
  BY <1>1, <1>3 DEF ToSet

LEMMA SetKept ==
  ASSUME NEW s \in Seq(Items), NEW P
  PROVE  /\ Kept(s, P) \in Seq(Items) /\ ToSet(Kept(s, P)) \subseteq ToSet(s)
         /\ \A x \in ToSet(Kept(s, P)) : \E i \in DOMAIN s : i \in P /\ s[i] = x
         /\ \A i \in DOMAIN s : i \in P => s[i] \in ToSet(Kept(s, P))
         /\ Distinct(s) => Distinct(Kept(s, P))
<1> DEFINE k == Kept(s, P)
<1>1. k \in Seq(Items) /\ \E idx : Positions(idx, s, P, k)
  BY KeptPositions
<1> HIDE DEF k
<1>2. PICK idx : Positions(idx, s, P, k)
  BY <1>1
<1>3. Len(k) \in Nat /\ DOMAIN k = 1 .. Len(k) /\ Len(s) \in Nat /\ DOMAIN s = 1 .. Len(s)
  BY <1>1, LenProperties
<1>4. \A i \in DOMAIN k : k[i] = s[idx[i]] /\ idx[i] \in P /\ idx[i] \in DOMAIN s
  <2>1. DOMAIN idx = 1 .. Len(idx) /\ \A i \in 1 .. Len(idx) : idx[i] \in 1 .. Len(s)
    <3>1. idx \in Seq(1 .. Len(s))
      BY <1>2 DEF Positions
    <3> QED
      BY <3>1, LenProperties, ElementOfSeq
  <2> QED
    BY <1>2, <1>3, <2>1 DEF Positions
<1>5. \A i \in DOMAIN s : i \in P => \E m \in DOMAIN k : idx[m] = i
  BY <1>2, <1>3 DEF Positions
<1>6. ASSUME NEW i \in DOMAIN k, NEW j \in DOMAIN k, idx[i] = idx[j]
      PROVE  i = j
  <2>1. ~ (i < j) /\ ~ (j < i)
    <3>1. idx[i] \in Nat /\ idx[j] \in Nat
      BY <1>3, <1>4
    <3> QED
      BY <1>2, <1>3, <1>6, <3>1 DEF Positions
  <2> QED
    BY <1>3, <2>1
<1>7. Distinct(s) => Distinct(k)
  BY <1>4, <1>6 DEF Distinct
<1>8. /\ ToSet(k) \subseteq ToSet(s)
      /\ \A x \in ToSet(k) : \E i \in DOMAIN s : i \in P /\ s[i] = x
  BY <1>4 DEF ToSet
<1>9. \A i \in DOMAIN s : i \in P => s[i] \in ToSet(k)
  BY <1>4, <1>5 DEF ToSet
<1> QED
  BY <1>1, <1>7, <1>8, <1>9 DEF k

LEMMA InJoined ==
  ASSUME NEW q \in Seq(Items), NEW r \in Seq(Items), NEW x
  PROVE  In(Joined(q, r), x) <=> In(q, x) \/ In(r, x)
BY SetJoined DEF In

LEMMA InMore ==
  ASSUME NEW q, NEW r, ToSet(q) \subseteq ToSet(r), NEW x, In(q, x)
  PROVE  In(r, x)
BY DEF In

LEMMA InItself ==
  ASSUME NEW q, NEW x \in ToSet(q)
  PROVE  In(q, x)
BY DEF In, Same

LEMMA DistinctJoined ==
  ASSUME NEW q \in Seq(Items), NEW r \in Seq(Items), Distinct(q), Distinct(r),
         \A x \in ToSet(r) : IsEssential(x) => ~ In(q, x)
  PROVE  Distinct(Joined(q, r))
<1> DEFINE s == q \o r
<1>1. /\ s \in Seq(Items) /\ Len(q) \in Nat /\ Len(r) \in Nat
      /\ DOMAIN q = 1 .. Len(q) /\ DOMAIN r = 1 .. Len(r) /\ DOMAIN s = 1 .. Len(q) + Len(r)
      /\ \A i \in 1 .. Len(q) : s[i] = q[i]
      /\ \A i \in Len(q) + 1 .. Len(q) + Len(r) : s[i] = r[i - Len(q)]
  BY ConcatFacts
<1> HIDE DEF s
<1>2. \A i \in DOMAIN s : \/ i \in DOMAIN q /\ s[i] = q[i]
                          \/ i - Len(q) \in DOMAIN r /\ s[i] = r[i - Len(q)] /\ i > Len(q)
  BY <1>1
<1>3. ASSUME NEW i \in DOMAIN q, NEW j \in DOMAIN r, IsEssential(q[i]) \/ IsEssential(r[j])
      PROVE  ~ Same(q[i], r[j]) /\ ~ Same(r[j], q[i])
  <2>1. q[i] \in ToSet(q) /\ r[j] \in ToSet(r)
    BY DEF ToSet
  <2>2. Same(q[i], r[j]) \/ Same(r[j], q[i]) => /\ IsEssential(q[i]) <=> IsEssential(r[j])
                                                /\ Same(q[i], r[j])
    BY DEF Same, IsEssential
  <2> QED
    BY <1>3, <2>1, <2>2 DEF In
<1>4. ASSUME NEW i \in DOMAIN s, NEW j \in DOMAIN s, IsEssential(s[i]), Same(s[i], s[j])
      PROVE  i = j
  <2>1. CASE i \in DOMAIN q /\ s[i] = q[i]
    <3>1. j \in DOMAIN q /\ s[j] = q[j]
      BY <1>2, <1>3, <1>4, <2>1
    <3> QED
      BY <1>4, <2>1, <3>1 DEF Distinct
  <2>2. CASE i - Len(q) \in DOMAIN r /\ s[i] = r[i - Len(q)] /\ i > Len(q)
    <3>1. j - Len(q) \in DOMAIN r /\ s[j] = r[j - Len(q)]
      BY <1>2, <1>3, <1>4, <2>2
    <3>2. i - Len(q) = j - Len(q)
      BY <1>4, <2>2, <3>1 DEF Distinct
    <3> QED
      BY <1>1, <3>2
  <2> QED
    BY <1>2, <2>1, <2>2
<1>5. Distinct(s)
  BY <1>4 DEF Distinct
<1> QED
  BY <1>5 DEF s, Joined

LEMMA DistinctFrom ==
  ASSUME NEW q \in Seq(Items), NEW b \in 0 .. Len(q), Distinct(q)
  PROVE  Distinct(From(q, b))
<1>1. /\ Len(q) \in Nat /\ DOMAIN From(q, b) = 1 .. Len(q) - b
      /\ \A i \in 1 .. Len(q) - b : From(q, b)[i] = q[b + i]
  BY FromFacts
<1>2. DOMAIN q = 1 .. Len(q)
  BY LenProperties
<1>3. \A i \in 1 .. Len(q) - b : b + i \in DOMAIN q
  BY <1>1, <1>2
<1> QED
  <2> SUFFICES ASSUME NEW i \in 1 .. Len(q) - b, NEW j \in 1 .. Len(q) - b,
                      IsEssential(q[b + i]), Same(q[b + i], q[b + j])
               PROVE  i = j
    BY <1>1 DEF Distinct
  <2>1. b + i = b + j
    BY <1>3 DEF Distinct
  <2> QED
    BY <1>1, <2>1

\* Nothing essential is twice in a sequence of items that are not, or of one.
LEMMA DistinctPlain ==
  ASSUME NEW r, \A x \in ToSet(r) : ~ IsEssential(x)
  PROVE  Distinct(r)
BY DEF Distinct, ToSet

LEMMA DistinctOne ==
  ASSUME NEW x
  PROVE  Distinct(<<x>>)
<1>1. DOMAIN <<x>> = {1}
  OBVIOUS
<1> QED
  BY <1>1 DEF Distinct

\* An item is added that was not there.
LEMMA DistinctAppended ==
  ASSUME NEW q \in Seq(Items), Distinct(q), NEW x \in Items, IsEssential(x) => ~ In(q, x)
  PROVE  Distinct(Append(q, x))
<1>1. Append(q, x) = Joined(q, <<x>>) /\ <<x>> \in Seq(Items) /\ ToSet(<<x>>) = {x}
  BY SetAppended
<1> QED
  BY <1>1, DistinctOne, DistinctJoined

\* How often x is there.
LEMMA OnceIn ==
  ASSUME NEW s, Distinct(s), NEW x, IsEssential(x), In(s, x)
  PROVE  Cardinality({j \in DOMAIN s : Same(s[j], x)}) = 1
<1>1. PICK i \in DOMAIN s : Same(s[i], x)
  BY DEF In, ToSet
<1>2. ASSUME NEW j \in DOMAIN s, Same(s[j], x)
      PROVE  j = i
  <2>1. IsEssential(s[j]) /\ Same(s[j], s[i])
    BY <1>1, <1>2 DEF Same, IsEssential
  <2> QED
    BY <2>1 DEF Distinct
<1>3. {j \in DOMAIN s : Same(s[j], x)} = {i}
  BY <1>1, <1>2
<1> QED
  BY <1>3, FS_Singleton

-----------------------------------------------------------------------------
(* What is sent *)

\* All that matters of items is in a body.
LEMMA BodyFacts ==
  ASSUME NEW s \in Seq(Items)
  PROVE  /\ Body(s) \in Seq(Items) /\ ToSet(Body(s)) \subseteq ToSet(s)
         /\ Distinct(s) => Distinct(Body(s))
         /\ \A x \in ToSet(s) : IsEssential(x) => x \in ToSet(Body(s))
<1> DEFINE P == IF Chat THEN {j \in DOMAIN s : ChatSends(s[j])}
                ELSE {j \in DOMAIN s : ResponsesSends(s[j])}
<1>1. Body(s) = Kept(s, P)
  BY Zenon DEF Body
<1>2. \A i \in DOMAIN s : IsEssential(s[i]) => i \in P
  BY DEF IsEssential, ChatSends, ResponsesSends
<1> HIDE DEF P
<1>3. /\ Kept(s, P) \in Seq(Items) /\ ToSet(Kept(s, P)) \subseteq ToSet(s)
      /\ \A i \in DOMAIN s : i \in P => s[i] \in ToSet(Kept(s, P))
      /\ Distinct(s) => Distinct(Kept(s, P))
  BY SetKept
<1>4. \A x \in ToSet(s) : \E i \in DOMAIN s : s[i] = x
  BY DEF ToSet
<1> QED
  BY <1>1, <1>2, <1>3, <1>4

\* A call among them has its output, an output its call.
Partners(S, x) ==
  /\ x.k = "call" => \E y \in S : y.k = "output" /\ SameCall(y, x)
  /\ x.k = "output" => \E y \in S : y.k = "call" /\ SameCall(y, x)

\* A replay has exactly the items whose other half is there too.
LEMMA ReplayFacts ==
  ASSUME NEW s \in Seq(Items), Orderly(s)
  PROVE  /\ ReplaySafe(s) \in Seq(Items) /\ ToSet(ReplaySafe(s)) \subseteq ToSet(s)
         /\ Distinct(s) => Distinct(ReplaySafe(s))
         /\ \A x \in ToSet(s) : Partners(ToSet(s), x) <=> x \in ToSet(ReplaySafe(s))
<1> DEFINE P == {n \in DOMAIN s : /\ s[n].k = "call" => Answered(s, n)
                                  /\ s[n].k = "output" => Asked(s, n)}
<1>1. ReplaySafe(s) = Kept(s, P)
  BY Zenon DEF ReplaySafe
<1>2. ASSUME NEW n \in DOMAIN s
      PROVE  n \in P <=> Partners(ToSet(s), s[n])
  <2>1. Len(s) \in Nat /\ DOMAIN s = 1 .. Len(s)
    BY LenProperties
  <2>2. s[n].k = "call" => (Answered(s, n) <=> Partners(ToSet(s), s[n]))
    BY DEF Answered, Partners, ToSet
  <2>3. ASSUME s[n].k = "output"
        PROVE  Asked(s, n) <=> Partners(ToSet(s), s[n])
    <3>1. ASSUME Asked(s, n)
          PROVE  Partners(ToSet(s), s[n])
      <4>1. PICK m \in 1 .. n - 1 : s[m].k = "call" /\ SameCall(s[m], s[n])
        BY <3>1 DEF Asked
      <4>2. m \in DOMAIN s
        BY <2>1, <4>1
      <4> QED
        BY <2>3, <4>1, <4>2 DEF Partners, ToSet
    <3>2. ASSUME Partners(ToSet(s), s[n])
          PROVE  Asked(s, n)
      <4>1. PICK m \in DOMAIN s : s[m].k = "call" /\ SameCall(s[m], s[n])
        BY <2>3, <3>2 DEF Partners, ToSet
      <4>2. m < n
        BY <2>3, <4>1 DEF Orderly
      <4>3. m \in 1 .. n - 1
        BY <2>1, <4>2
      <4> QED
        BY <4>1, <4>3 DEF Asked
    <3> QED
      BY <3>1, <3>2
  <2>4. s[n].k \notin {"call", "output"} => n \in P /\ Partners(ToSet(s), s[n])
    BY DEF Partners
  <2> QED
    BY <2>2, <2>3, <2>4
<1> HIDE DEF P
<1>3. /\ Kept(s, P) \in Seq(Items) /\ ToSet(Kept(s, P)) \subseteq ToSet(s)
      /\ \A x \in ToSet(Kept(s, P)) : \E i \in DOMAIN s : i \in P /\ s[i] = x
      /\ \A i \in DOMAIN s : i \in P => s[i] \in ToSet(Kept(s, P))
      /\ Distinct(s) => Distinct(Kept(s, P))
  BY SetKept
<1>4. \A x \in ToSet(s) : \E i \in DOMAIN s : s[i] = x
  BY DEF ToSet
<1> QED
  BY <1>1, <1>2, <1>3, <1>4

-----------------------------------------------------------------------------
(* What the endpoint knows, as it goes on *)

\* A response goes on from what it was.
Goes(a, b) ==
  /\ b.context = a.context /\ b.run = a.run
  /\ b.out = a.out \/ \E x \in Items : b.out = Append(a.out, x)

LEMMA ServerMoves ==
  ASSUME ClientInv, ServerInv, [Next]_vars
  PROVE  \A r \in DOMAIN server : /\ r \in DOMAIN server' /\ Goes(server[r], server'[r])
                                  /\ r # current \/ net # "open" => server'[r].out = server[r].out
<1>1. CASE server' = server
  BY <1>1 DEF Goes
<1>2. CASE Beginning
  <2>1. PICK x : server' = Append(server, x)
    BY <1>2 DEF Beginning
  <2>2. PICK s : s = server' /\ s = Append(server, x)
    BY <2>1
  <2>3. /\ DOMAIN server = 1 .. Len(server) /\ DOMAIN s = 1 .. Len(server) + 1
        /\ Len(server) \in Nat /\ \A i \in 1 .. Len(server) : s[i] = server[i]
    BY <2>2, Grown DEF ServerInv
  <2>4. \A r \in DOMAIN server : r \in DOMAIN s /\ s[r] = server[r]
    BY <2>3
  <2> QED
    BY <2>2, <2>4 DEF Goes
<1>3. ASSUME NEW payload, Sending(payload)
      PROVE  \A r \in DOMAIN server : /\ r \in DOMAIN server' /\ Goes(server[r], server'[r])
                                      /\ r # current \/ net # "open" => server'[r].out = server[r].out
  <2>1. /\ current \in DOMAIN server /\ payload \in Payloads /\ profile \in Profiles
        /\ DOMAIN server' = DOMAIN server /\ server'[current] = Sent(payload)
        /\ \A r \in DOMAIN server : r # current => server'[r] = server[r]
    BY <1>3, SendingFacts
  <2>2. Adds(payload, server[current], Sent(payload))
    BY <2>1, SaidFacts
  <2>3. PICK a, b : a = server[current] /\ b = Sent(payload)
    OBVIOUS
  <2>4. Goes(a, b)
    BY <2>2, <2>3 DEF Adds, Goes
  <2>5. net = "open"
    BY <1>3 DEF Sending
  <2>6. \A r \in DOMAIN server : r # current => Goes(server[r], server'[r])
    BY <2>1 DEF Goes
  <2> QED
    BY <2>1, <2>3, <2>4, <2>5, <2>6
<1>4. ASSUME NEW k, Completing(k)
      PROVE  \A r \in DOMAIN server : /\ r \in DOMAIN server' /\ Goes(server[r], server'[r])
                                      /\ r # current \/ net # "open" => server'[r].out = server[r].out
  BY <1>4, CompletingMore DEF Goes
<1> QED
  BY <1>1, <1>2, <1>3, <1>4, ServerSteps

\* A response begins with all the endpoint has in front of it.
LEMMA NewResponse ==
  ASSUME ClientInv, ServerInv, [Next]_vars, NEW r \in DOMAIN server', r \notin DOMAIN server
  PROVE  /\ r = Len(server) + 1 /\ current' = r /\ net = "sent" /\ phase = "stream"
         /\ current = 0 /\ server'[r] = Begun(request, Context(request))
         /\ ProviderStep
<1>1. CASE server' = server
  BY <1>1
<1>2. ASSUME NEW payload, Sending(payload)
      PROVE  DOMAIN server' = DOMAIN server
  BY <1>2, SendingFacts
<1>3. ASSUME NEW k, Completing(k)
      PROVE  DOMAIN server' = DOMAIN server
  BY <1>3, CompletingMore
<1>4. Beginning
  BY <1>1, <1>2, <1>3, ServerSteps
<1>5. net = "sent" /\ net' = "open" /\ current' = Len(server) + 1
  BY <1>4 DEF Beginning
<1>6. phase = "stream" /\ current = 0
  BY <1>5 DEF ClientInv
<1>7. ProviderStep
  <2>1. ~ Quiet /\ ~ Closing /\ ~ Opening
    BY <1>5 DEF Quiet, Closing, Opening, streamVars, CloseStream, OpenStream, Restart
  <2>2. ~ Consume
    BY <1>5 DEF Consume
  <2> QED
    BY <2>1, <2>2, StreamSteps
<1>8. Respond(request)
  <2>1. ~ ReceiveFrame /\ ~ ReceiveBytes /\ ~ HandleFrame /\ ~ EndOfBody /\ ~ BreakOff
    BY <1>5 DEF ReceiveFrame, ReceiveBytes, HandleFrame, EndOfBody, BreakOff
  <2>2. ~ \E k \in DOMAIN server : FinishUnheard(k)
    BY <1>5 DEF FinishUnheard, streamVars
  <2> QED
    BY <1>7, <2>1, <2>2, Zenon DEF ProviderStep
<1>9. server' = Append(server, Begun(request, Context(request)))
  <2>1. \A error, room : ~ AttemptFailed(error, room)
    BY <1>5 DEF AttemptFailed
  <2>2. ~ \E kind \in {"retryable", "status", "overflow"} : AttemptFailed(kind, TRUE)
    BY <2>1, Zenon
  <2>3. ~ AttemptFailed("status", TRUE)
    BY <2>1, Zenon
  <2> QED
    BY <1>8, <2>2, <2>3, Zenon DEF Respond
<1>10. PICK x : x = Begun(request, Context(request))
  OBVIOUS
<1>11. PICK s : s = server' /\ s = Append(server, x)
  BY <1>9, <1>10
<1>12. /\ DOMAIN server = 1 .. Len(server) /\ DOMAIN s = 1 .. Len(server) + 1
       /\ Len(server) \in Nat /\ s[Len(server) + 1] = x
  BY <1>11, Grown DEF ServerInv
<1>13. r = Len(server) + 1
  BY <1>11, <1>12
<1> QED
  BY <1>5, <1>6, <1>7, <1>10, <1>11, <1>12, <1>13

LEMMA BegunMore ==
  ASSUME NEW context
  PROVE  LET a == Begun(request, context)
         IN  a.context = context /\ a.run = request.run /\ a.out = << >> /\ a.said = 0
             /\ a.announced = Chat
BY DEF Begun

\* What a response has before it, and what it said.
Knows(r) == Joined(server[r].context, server[r].out)

LEMMA KnowsMore ==
  ASSUME ClientInv, ServerInv, [Next]_vars, NEW r \in DOMAIN server,
         server[r].context \in Seq(Items)
  PROVE  /\ Knows(r) \in Seq(Items) /\ Knows(r)' \in Seq(Items)
         /\ ToSet(Knows(r)) \subseteq ToSet(Knows(r)')
         /\ r # current \/ net # "open" => Knows(r)' = Knows(r)
         /\ \A x : In(Knows(r), x) => In(Knows(r)', x)
<1>1. /\ Goes(server[r], server'[r])
      /\ r # current \/ net # "open" => server'[r].out = server[r].out
  BY ServerMoves
<1>2. PICK a, b : a = server[r] /\ b = server'[r]
  OBVIOUS
<1>3. a.out \in Seq(Items) /\ a.context \in Seq(Items)
  BY <1>2 DEF ServerInv, IsResponse
<1>4. b.context = a.context /\ (b.out = a.out \/ \E x \in Items : b.out = Append(a.out, x))
  BY <1>1, <1>2 DEF Goes
<1>5. b.out \in Seq(Items) /\ ToSet(a.out) \subseteq ToSet(b.out)
  <2>1. CASE b.out = a.out
    BY <1>3, <2>1
  <2>2. ASSUME NEW x \in Items, b.out = Append(a.out, x)
        PROVE  b.out \in Seq(Items) /\ ToSet(a.out) \subseteq ToSet(b.out)
    <3>1. PICK q : q = a.out
      OBVIOUS
    <3>2. Append(q, x) \in Seq(Items) /\ ToSet(Append(q, x)) = ToSet(q) \cup {x}
      BY <1>3, <3>1, SetAppended
    <3> QED
      BY <2>2, <3>1, <3>2
  <2> QED
    BY <1>4, <2>1, <2>2
<1>6. /\ Joined(a.context, a.out) \in Seq(Items) /\ Joined(b.context, b.out) \in Seq(Items)
      /\ ToSet(Joined(a.context, a.out)) \subseteq ToSet(Joined(b.context, b.out))
  BY <1>3, <1>4, <1>5, SetJoined
<1>7. Knows(r) = Joined(a.context, a.out) /\ Knows(r)' = Joined(b.context, b.out)
  BY <1>2 DEF Knows
<1>8. PICK p, q : p = Knows(r) /\ q = Knows(r)'
  OBVIOUS
<1>9. p \in Seq(Items) /\ q \in Seq(Items) /\ ToSet(p) \subseteq ToSet(q)
  BY <1>6, <1>7, <1>8
<1>10. \A x : In(p, x) => In(q, x)
  BY <1>9, InMore
<1>11. r # current \/ net # "open" => q = p
  BY <1>1, <1>2, <1>4, <1>7, <1>8
<1> QED
  BY <1>8, <1>9, <1>10, <1>11

-----------------------------------------------------------------------------
(* Items of runs that were answered and that nothing took away *)

IsKnown(x) == OfResponse(x) => x.of \in DOMAIN server
Old(x) == IsEssential(x) /\ RunOf(x) \notin unanswered /\ ~ WasCut(x)
Lasting(x) == IsEssential(x) /\ x \notin cut /\ RunOf(x) \notin unanswered

LEMMA HistoryGrows ==
  ASSUME [Next]_vars
  PROVE  unanswered \subseteq unanswered' /\ cut \subseteq cut'
<1>1. UNCHANGED vars => unanswered' = unanswered /\ cut' = cut
  BY DEF vars, historyVars
<1>2. Submit \/ SwitchMode \/ FinishShell \/ SendRequest \/ Consume \/ ReplayInstead =>
        unanswered' = unanswered /\ cut' = cut
  BY DEF Submit, SwitchMode, FinishShell, SendRequest, Consume, ReplayInstead, historyVars
<1>3. Cancel \/ Crash \/ ConsumeTooMuch \/ GiveUp \/ Malformed \/ Complete \/ LoseApproval =>
        unanswered \subseteq unanswered' /\ cut' = cut
  BY DEF Cancel, Crash, ConsumeTooMuch, GiveUp, Malformed, Complete, LoseApproval, FailRun,
         NoAnswerCame
<1>4. (\E id : Shrink(id)) => cut \subseteq cut'
  BY DEF Shrink
<1>5. Begin => unanswered' = unanswered /\ cut \subseteq cut'
  BY <1>4 DEF Begin
<1>6. RecoverOverflow => unanswered' = unanswered /\ cut \subseteq cut'
  BY <1>4 DEF RecoverOverflow
<1>7. AcceptCalls \/ AnswerDuplicate \/ Refuse \/ Consider \/ StartTool \/ FinishTool
        \/ FinishChild \/ NextRound \/ Approve \/ Reject \/ ProviderStep =>
        unanswered' = unanswered /\ cut' = cut
  BY DEF AcceptCalls, AnswerDuplicate, Refuse, Consider, StartTool, FinishTool, FinishChild,
         NextRound, Approve, Reject, ProviderStep, historyVars
<1> QED
  BY <1>1, <1>2, <1>3, <1>5, <1>6, <1>7, Zenon DEF Next, RunnerStep, UserAnswers

LEMMA OldStays ==
  ASSUME ClientInv, ServerInv, [Next]_vars, NEW x, IsKnown(x)
  PROVE  /\ IsKnown(x)' /\ RunOf(x)' = RunOf(x)
         /\ Old(x)' => Old(x)
         /\ Lasting(x)' => Lasting(x)
<1>1. OfResponse(x) => x.of \in DOMAIN server' /\ server'[x.of].run = server[x.of].run
  BY ServerMoves DEF IsKnown, Goes
<1>2. RunOf(x)' = RunOf(x)
  BY <1>1 DEF RunOf, OfResponse
<1>3. unanswered \subseteq unanswered' /\ cut \subseteq cut'
  BY HistoryGrows
<1>4. WasCut(x) => WasCut(x)'
  BY <1>3 DEF WasCut
<1>5. IsKnown(x)'
  BY <1>1 DEF IsKnown
<1> QED
  BY <1>2, <1>3, <1>4, <1>5 DEF Old, Lasting

\* What is old is lasting, and so is the other half of its pair.
LEMMA OldLasts ==
  ASSUME NEW x, Old(x)
  PROVE  /\ Lasting(x)
         /\ \A y : /\ {x.k, y.k} = {"call", "output"} /\ SameCall(y, x)
                   => Lasting(y) /\ RunOf(y) = RunOf(x)
<1>1. x \notin cut
  BY DEF Old, WasCut
<1>2. Lasting(x)
  BY <1>1 DEF Old, Lasting
<1>3. ASSUME NEW y, {x.k, y.k} = {"call", "output"}, SameCall(y, x)
      PROVE  Lasting(y) /\ RunOf(y) = RunOf(x)
  <2>1. x.k \in {"call", "output"} /\ y.k \in {"call", "output"} /\ SameCall(x, y)
    BY <1>3 DEF SameCall
  <2>2. RunOf(y) = RunOf(x)
    BY <1>3, <2>1 DEF RunOf, SameCall
  <2>3. y \notin cut
    BY <2>1 DEF Old, WasCut
  <2> QED
    BY <2>1, <2>2, <2>3 DEF Old, Lasting, IsEssential
<1> QED
  BY <1>2, <1>3

\* Everything in the conversation, the rows and the items is known, and nothing
\* of it is of the response that is being streamed.
LEMMA AllKnown ==
  ASSUME ServerInv, ItemInv
  PROVE  \A x \in ToSet(conversation) \cup ToSet(rows) \cup ToSet(items) :
           IsKnown(x) /\ (OfResponse(x) => x.of # current)
<1>1. DOMAIN server = 1 .. Len(server)
  BY LenProperties DEF ServerInv
<1>2. ASSUME NEW s, Sound(s, Len(server), current), NEW x \in ToSet(s)
      PROVE  IsKnown(x) /\ (OfResponse(x) => x.of # current)
  BY <1>1, <1>2 DEF Sound, KnownTo, IsKnown, ToSet
<1> QED
  BY <1>2 DEF ItemInv

-----------------------------------------------------------------------------
(* What a step does to the conversation, the items and the rows *)

sessionItems == <<conversation, rows, items>>
runHistory == <<run, unanswered, cut>>

\* Nothing is added and nothing taken away, ...
Resting ==
  /\ UNCHANGED <<sessionItems, runHistory>>
  /\ phase = "idle" <=> phase' = "idle"
  /\ phase' = "begin" => phase = "begin"

\* ... the user's message is added, ...
Message(m, n) ==
  LET user == Item("user", n, 0, "none")
      file == Item("file", n, 0, "none")
  IN  m = <<user>> \/ m = Joined(<<user>>, <<file>>)

Submitting(m) ==
  /\ phase = "idle" /\ phase' = "begin" /\ run' = run + 1 /\ Message(m, run')
  /\ conversation' = Joined(conversation, m) /\ rows' = Joined(rows, m)
  /\ items' = conversation'
  /\ UNCHANGED <<storedId, unanswered, cut>>

\* ... the run ends without an answer, ...
Losing ==
  /\ phase # "idle" /\ phase' = "idle" /\ items' = << >>
  /\ unanswered' = unanswered \cup {run} /\ storedId' \in {0, storedId}
  /\ UNCHANGED <<conversation, rows, run, cut>>

\* ... with the process ...
Reloading ==
  /\ phase' = "idle" /\ items' = << >> /\ conversation' = rows
  /\ phase # "idle" => unanswered' = unanswered \cup {run}
  /\ UNCHANGED <<rows, run, cut, storedId>>

\* ... or with one; ...
Concluding ==
  /\ phase = "stream" /\ phase' = "idle" /\ items' = << >>
  /\ Drained /\ outcome = "ok" /\ collector.partials = {} /\ collector.calls = << >>
  /\ conversation' = Joined(items, Answer) /\ rows' = Joined(rows, Answer)
  /\ Answer = << >> => unanswered' = unanswered \cup {run}
  /\ UNCHANGED <<run, cut, storedId, server>>

\* ... the history is made shorter, ...
Shortened(x, b) ==
  /\ x \in Items /\ x.k \in {"summary", "note"}
  /\ b \in 0 .. Len(items) /\ items' = Joined(<<x>>, From(items, b))
  /\ \/ rows' = rows
     \/ storedId' = 0 /\ \E c \in 0 .. Len(rows) : rows' = Joined(From(rows, c), <<x>>)
  /\ cut' = cut \cup (ToSet(items) \ ToSet(items'))

Shrinking ==
  /\ phase \in {"begin", "stream"} /\ phase' = "request"
  /\ \E x, b : Shortened(x, b)
  /\ UNCHANGED <<conversation, run, unanswered>>

\* ... something is added that does not matter here, ...
Noting ==
  /\ phase = "stream" /\ phase' = "stream"
  /\ \E m, n \in Seq(Items) : /\ \A x \in ToSet(m) \cup ToSet(n) : ~ IsEssential(x)
                              /\ items' = Joined(items, m) /\ rows' = Joined(rows, n)
  /\ UNCHANGED <<conversation, runHistory>>

\* ... beside a run or between two, ...
Recording ==
  /\ \E m \in Seq(Items) : /\ \A x \in ToSet(m) : ~ IsEssential(x)
                           /\ conversation' = Joined(conversation, m)
                           /\ rows' = Joined(rows, m)
  /\ UNCHANGED <<items, phase, storedId, runHistory>>

\* ... an answer that asks for tools ...
Accepting(next) ==
  /\ phase = "stream" /\ phase' = "calls" /\ Drained /\ outcome = "ok"
  /\ next \in FinishedCalls /\ next # << >> /\ pending' = next
  /\ items' = Joined(items, AddedBy(next)) /\ rows' = Joined(rows, AddedBy(next))
  /\ cursor' = Len(items')
  /\ UNCHANGED <<conversation, runHistory, storedId, prev, spawned, server>>

\* ... or the output of one of its calls is.
OutputOf(c) == Item("output", c.of, c.n, c.tool)

Replying(c) ==
  /\ c \in Waiting /\ c \in CallEvents /\ Waiting' \subseteq Waiting
  /\ phase \in {"calls", "approval", "executing"} /\ phase' = "calls"
  /\ items' = Append(items, OutputOf(c)) /\ rows' = Append(rows, OutputOf(c))
  /\ UNCHANGED <<conversation, runHistory, storedId, prev, cursor, server>>

LEMMA ShortenedBy ==
  ASSUME items \in Seq(Items), rows \in Seq(Items), run \in Nat, NEW id, Shrink(id)
  PROVE  \E x, b : Shortened(x, b)
<1>1. /\ Len(items) \in Nat /\ DOMAIN items = 1 .. Len(items)
      /\ Len(rows) \in Nat
  BY LenProperties
<1>2. cut' = cut \cup (ToSet(items) \ ToSet(items'))
  BY DEF Shrink
<1>3. ASSUME storedId' = 0, NEW c \in Boundaries(items), Summarised(c)
      PROVE  \E x, b : Shortened(x, b)
  <2> DEFINE x == Summary
             keep == Larger(Len(items) - c, 1)
             b == Minus(Len(rows), keep)
  <2>1. c \in 0 .. Len(items)
    BY <1>1 DEF Boundaries
  <2>2. keep \in Nat
    BY <1>1, <2>1 DEF Larger
  <2>3. b \in 0 .. Len(rows)
    <3> HIDE DEF keep
    <3> QED
      BY <1>1, <2>2 DEF Minus
  <2>4. items' = Joined(<<x>>, From(items, c)) /\ rows' = Joined(From(rows, b), <<x>>)
    BY <1>3, Zenon DEF Summarised, From, Joined
  <2>5. x \in Items /\ x.k = "summary"
    BY DEF Summary, Item, Items, Kinds, Nothing
  <2> HIDE DEF x, keep, b
  <2>6. Shortened(x, c)
    BY <1>2, <1>3, <2>1, <2>3, <2>4, <2>5 DEF Shortened
  <2> QED
    BY <2>6
<1>4. ASSUME NEW k \in DOMAIN items, Trimmed(k)
      PROVE  \E x, b : Shortened(x, b)
  <2> DEFINE x == Item("note", run, 0, "none")
             rest == From(items, k)
             tail == {j \in DOMAIN rest : rest[j].k # "output"}
             kept == IF tail = {} THEN << >> ELSE SubSeq(rest, Min(tail), Len(rest))
  <2>1. k \in 0 .. Len(items)
    BY <1>1
  <2>2. items' = Joined(<<x>>, kept) /\ rows' = rows
    BY <1>4, Zenon DEF Trimmed, From, Joined
  <2>3. x \in Items /\ x.k = "note"
    BY DEF Item, Items, Kinds, Nothing
  <2> HIDE DEF x
  <2>4. rest \in Seq(Items) /\ Len(rest) = Len(items) - k
    BY <2>1, FromFacts
  <2>5. \E b \in 0 .. Len(items) : kept = From(items, b)
    <3>1. CASE tail = {}
      <4>1. From(items, Len(items)) = << >>
        <5>1. Len(items) < Len(items) + 1 /\ Len(items) + 1 \in Int /\ Len(items) \in Int
          BY <1>1
        <5> QED
          BY <5>1, SubSeqEmpty DEF From
      <4> QED
        BY <1>1, <3>1, <4>1
    <3>2. CASE tail # {}
      <4> DEFINE m == Min(tail)
                 b == m - 1
      <4>1. Len(rest) \in Nat /\ DOMAIN rest = 1 .. Len(rest)
        BY <2>4, LenProperties
      <4>2. tail \subseteq Nat
        BY <4>1
      <4>3. m \in tail
        <5> HIDE DEF tail
        <5> QED
          BY <3>2, <4>2, MinFacts
      <4>4. m \in 1 .. Len(rest)
        BY <4>1, <4>3
      <4> HIDE DEF m
      <4>5. b \in 0 .. Len(rest) /\ b + 1 = m
        BY <4>1, <4>4
      <4>6. kept = From(rest, b)
        <5>1. kept = SubSeq(rest, m, Len(rest))
          BY <3>2 DEF m
        <5> QED
          BY <4>5, <5>1 DEF From
      <4> HIDE DEF b, kept
      <4>7. b \in 0 .. Len(items) - k
        BY <2>4, <4>5
      <4>8. From(rest, b) = From(items, k + b)
        BY <2>1, <4>7, FromFrom
      <4>9. k + b \in 0 .. Len(items)
        BY <1>1, <2>1, <4>7
      <4> QED
        BY <4>6, <4>8, <4>9
    <3> QED
      BY <3>1, <3>2
  <2> HIDE DEF kept
  <2>6. PICK b \in 0 .. Len(items) : kept = From(items, b)
    BY <2>5
  <2>7. Shortened(x, b)
    BY <1>2, <2>2, <2>3, <2>6 DEF Shortened
  <2> QED
    BY <2>7
<1> QED
  BY <1>3, <1>4 DEF Shrink

LEMMA RepliedBy ==
  ASSUME CallInv, NEW c, Output(c), phase \in {"calls", "approval", "executing"}, phase' = "calls",
         \/ pending # << >> /\ c = Call /\ pending' = Tail(pending) /\ spawned' = spawned
         \/ pending = << >> /\ c \in spawned /\ spawned' = spawned \ {c} /\ pending' = pending,
         UNCHANGED <<conversation, runHistory, storedId, prev, cursor, server>>
  PROVE  Replying(c)
<1>1. c \in Waiting /\ c \in CallEvents
  BY AnsweredFacts
<1>2. items' = Append(items, OutputOf(c)) /\ rows' = Append(rows, OutputOf(c))
  BY Zenon DEF Output, OutputOf
<1>3. Waiting' \subseteq Waiting
  <2>1. CASE pending # << >> /\ c = Call /\ pending' = Tail(pending) /\ spawned' = spawned
    <3> DEFINE left == spawned \cup ToSet(Tail(pending))
    <3>1. left \subseteq Waiting
      BY <2>1, AnsweredFacts
    <3>2. Waiting' = left
      BY <2>1 DEF Waiting
    <3> QED
      BY <3>1, <3>2
  <2>2. CASE pending = << >> /\ c \in spawned /\ spawned' = spawned \ {c} /\ pending' = pending
    BY <2>2 DEF Waiting
  <2> QED
    BY <2>1, <2>2
<1> QED
  BY <1>1, <1>2, <1>3 DEF Replying

LEMMA AcceptMoves ==
  ASSUME AcceptCalls
  PROVE  \E next : Accepting(next)
<1>1. PICK next \in FinishedCalls :
        /\ next # << >> /\ pending' = next
        /\ items' = Joined(items, AddedBy(next)) /\ rows' = Joined(rows, AddedBy(next))
  BY Zenon DEF AcceptCalls, AddedBy, Joined
<1>2. /\ phase = "stream" /\ phase' = "calls" /\ Drained /\ outcome = "ok"
      /\ cursor' = Len(items')
      /\ UNCHANGED <<conversation, runHistory, storedId, prev, spawned, server>>
  BY DEF AcceptCalls, Drained, historyVars, runHistory, endpointVars
<1> QED
  BY <1>1, <1>2 DEF Accepting

LEMMA ReplyMoves ==
  ASSUME CallInv, AnswerDuplicate \/ Refuse \/ Reject \/ FinishTool \/ FinishChild
  PROVE  \E c : Replying(c)
<1>1. ASSUME AnswerDuplicate \/ Refuse \/ Reject \/ FinishTool
      PROVE  \E c : Replying(c)
  <2>1. /\ phase \in {"calls", "approval", "executing"} /\ phase' = "calls"
        /\ Output(Call) /\ pending' = Tail(pending) /\ spawned' = spawned
        /\ UNCHANGED <<conversation, runHistory, storedId, prev, cursor, server>>
    BY <1>1 DEF AnswerDuplicate, Refuse, Reject, FinishTool, runHistory, historyVars,
           providerVars, endpointVars
  <2>2. pending # << >>
    BY <1>1 DEF AnswerDuplicate, Refuse, Reject, FinishTool, CallInv
  <2> QED
    BY <2>1, <2>2, RepliedBy
<1>2. ASSUME FinishChild
      PROVE  \E c : Replying(c)
  <2>1. PICK c \in spawned : Output(c) /\ spawned' = spawned \ {c}
    BY <1>2 DEF FinishChild
  <2>2. /\ phase = "calls" /\ phase' = "calls" /\ pending = << >> /\ pending' = pending
        /\ UNCHANGED <<conversation, runHistory, storedId, prev, cursor, server>>
    BY <1>2 DEF FinishChild, runHistory, historyVars, providerVars, endpointVars
  <2> QED
    BY <2>1, <2>2, RepliedBy
<1> QED
  BY <1>1, <1>2

\* These are all the steps.
LEMMA Moves ==
  ASSUME ClientInv, ServerInv, EventInv, CallInv, ItemInv, RestInv, [Next]_vars
  PROVE  \/ Resting \/ Losing \/ Reloading \/ Concluding \/ Shrinking \/ Noting \/ Recording
         \/ \E m : Submitting(m)
         \/ \E next : Accepting(next)
         \/ \E c : Replying(c)
<1>1. items \in Seq(Items) /\ rows \in Seq(Items) /\ run \in Nat
  BY ProviderAssumption DEF ItemInv, Sound, RestInv, ClientInv
<1>2. Submit => \E m : Submitting(m)
  <2> SUFFICES ASSUME Submit
               PROVE  \E m : Submitting(m)
    OBVIOUS
  <2> DEFINE user == <<Item("user", run + 1, 0, "none")>>
             file == <<Item("file", run + 1, 0, "none")>>
  <2>1. PICK attach \in BOOLEAN :
          LET files == IF attach THEN file ELSE << >>
          IN  conversation' = conversation \o user \o files /\ rows' = rows \o user \o files
    BY Zenon DEF Submit
  <2>2. /\ phase = "idle" /\ phase' = "begin" /\ run' = run + 1 /\ items' = conversation'
        /\ UNCHANGED <<storedId, unanswered, cut>>
    BY DEF Submit
  <2>3. Item("user", run + 1, 0, "none") \in Items /\ Item("file", run + 1, 0, "none") \in Items
    BY <1>1 DEF Item, Items, Kinds, Nothing
  <2>4. user \in Seq(Items) /\ file \in Seq(Items)
    BY <2>3
  <2> HIDE DEF user, file
  <2>5. PICK c, r : c = conversation /\ r = rows
    OBVIOUS
  <2>6. c \in Seq(Items) /\ r \in Seq(Items)
    BY <2>5 DEF ItemInv, Sound
  <2>7. CASE attach
    <3> DEFINE m == Joined(user, file)
    <3>1. conversation' = Joined(c, m)
      <4>1. (c \o user) \o file = c \o (user \o file)
        BY <2>4, <2>6, ConcatAssociative, SMTT(40)
      <4> QED
        BY <2>1, <2>5, <2>7, <4>1 DEF Joined
    <3>2. rows' = Joined(r, m)
      <4>1. (r \o user) \o file = r \o (user \o file)
        BY <2>4, <2>6, ConcatAssociative, SMTT(40)
      <4> QED
        BY <2>1, <2>5, <2>7, <4>1 DEF Joined
    <3>3. Message(m, run')
      BY <2>2 DEF Message, user, file
    <3> QED
      BY <2>2, <2>5, <3>1, <3>2, <3>3 DEF Submitting
  <2>8. CASE ~ attach
    <3>1. conversation' = Joined(c, user)
      <4>1. (c \o user) \o << >> = c \o user
        BY <2>4, <2>6, ConcatProperties, ConcatEmptySeq
      <4> QED
        BY <2>1, <2>5, <2>8, <4>1 DEF Joined
    <3>2. rows' = Joined(r, user)
      <4>1. (r \o user) \o << >> = r \o user
        BY <2>4, <2>6, ConcatProperties, ConcatEmptySeq
      <4> QED
        BY <2>1, <2>5, <2>8, <4>1 DEF Joined
    <3>3. Message(user, run')
      BY <2>2 DEF Message, user
    <3> QED
      BY <2>2, <2>5, <3>1, <3>2, <3>3 DEF Submitting
  <2> QED
    BY <2>7, <2>8
<1>3. Cancel \/ ConsumeTooMuch \/ GiveUp \/ Malformed \/ LoseApproval => Losing
  <2>1. \A text, of : SavePartial(text, of) => storedId' \in {0, storedId}
    BY DEF SavePartial
  <2>2. FailRun /\ phase = "stream" => Losing
    BY <2>1 DEF FailRun, Finish, NoAnswerCame, Losing
  <2>3. ConsumeTooMuch \/ GiveUp => FailRun /\ phase = "stream"
    BY Zenon DEF ConsumeTooMuch, GiveUp, Drained
  <2>4. Cancel => Losing
    <3>1. \A shown : SaveShown(shown) => storedId' \in {0, storedId}
      BY DEF SaveShown
    <3>2. Cancel => storedId' \in {0, storedId}
      BY <3>1, Zenon DEF Cancel
    <3> QED
      BY <3>2 DEF Cancel, Finish, NoAnswerCame, Losing
  <2>5. Malformed \/ LoseApproval => Losing
    BY DEF Malformed, LoseApproval, Drained, Finish, NoAnswerCame, Losing
  <2> QED
    BY <2>2, <2>3, <2>4, <2>5
<1>4. Crash => Reloading
  BY DEF Crash, Finish, NoAnswerCame, Reloading
<1>5. Complete => Concluding
  BY DEF Complete, Finish, NoAnswerCame, Drained, Concluding, Joined, endpointVars
<1>6. Begin => Shrinking \/ Resting
  <2>1. ASSUME Begin, Shrink(storedId)
        PROVE  Shrinking
    <3>1. \E x, b : Shortened(x, b)
      BY <1>1, <2>1, ShortenedBy
    <3> QED
      BY <2>1, <3>1 DEF Begin, Shrinking
  <2>2. ASSUME Begin, UNCHANGED <<items, rows, storedId, faults, base, cut>>
        PROVE  Resting
    BY <2>2 DEF Begin, Resting, sessionItems, runHistory
  <2> QED
    BY <2>1, <2>2 DEF Begin
<1>7. RecoverOverflow => Shrinking
  <2>1. ASSUME RecoverOverflow
        PROVE  Shrinking
    <3>1. \E x, b : Shortened(x, b)
      BY <1>1, <2>1, ShortenedBy DEF RecoverOverflow
    <3> QED
      BY <2>1, <3>1 DEF RecoverOverflow, ReplayNext, Drained, Shrinking
  <2> QED
    BY <2>1
<1>8. Consume => Noting
  <2> SUFFICES ASSUME Consume
               PROVE  Noting
    OBVIOUS
  <2> DEFINE e == Head(chan)
             x == Item(e.type, e.of, 0, "none")
             m == IF e.type \in {"search", "reasoning"} THEN <<x>> ELSE << >>
             n == IF e.type = "search" THEN <<x>> ELSE << >>
  <2>1. /\ phase = "stream" /\ phase' = phase /\ chan # << >>
        /\ items' = IF e.type \in {"search", "reasoning"} THEN Append(items, x) ELSE items
        /\ rows' = IF e.type = "search" THEN Append(rows, x) ELSE rows
        /\ UNCHANGED <<conversation, runHistory>>
    BY DEF Consume, historyVars, runHistory
  <2>2. e \in Events
    BY <2>1, TailFacts DEF EventInv
  <2>3. e.type \in {"search", "reasoning"} => x \in Items /\ ~ IsEssential(x)
    BY <2>2 DEF Events, Item, Items, Kinds, Nothing, IsEssential
  <2> HIDE DEF x, e
  <2>4. \A y \in Items : <<y>> \in Seq(Items) /\ ToSet(<<y>>) = {y}
    BY <1>1, SetAppended
  <2>5. << >> \in Seq(Items) /\ ToSet(<< >>) = {}
    BY SetNone
  <2>6. m \in Seq(Items) /\ n \in Seq(Items) /\ ToSet(m) \subseteq {x} /\ ToSet(n) \subseteq {x}
    BY <2>3, <2>4, <2>5
  <2>7. \A y \in ToSet(m) \cup ToSet(n) : ~ IsEssential(y)
    BY <2>3, <2>5, <2>6
  <2>8. /\ \A s \in Seq(Items) : s = Joined(s, << >>)
        /\ \A s \in Seq(Items) : \A y \in Items : Append(s, y) = Joined(s, <<y>>)
    BY SetAppended, ConcatEmptySeq DEF Joined
  <2>9. items' = Joined(items, m) /\ rows' = Joined(rows, n)
    BY <1>1, <2>1, <2>3, <2>8
  <2> QED
    BY <2>1, <2>6, <2>7, <2>9 DEF Noting
<1>9. AcceptCalls => \E next : Accepting(next)
  BY AcceptMoves
<1>10. AnswerDuplicate \/ Refuse \/ Reject \/ FinishTool \/ FinishChild => \E c : Replying(c)
  BY ReplyMoves
<1>12. StartTool \/ SendRequest \/ ReplayInstead \/ Consider \/ Approve \/ NextRound => Resting
  BY DEF StartTool, SendRequest, ReplayInstead, ReplayNext, Drained, Consider, Approve,
         NextRound, sessionVars, historyVars, Resting, sessionItems, runHistory
<1>13. UNCHANGED vars \/ SwitchMode \/ ProviderStep => Resting
  BY DEF vars, SwitchMode, ProviderStep, runVars, sessionVars, historyVars, Resting,
         sessionItems, runHistory
<1>14. FinishShell => Recording
  <2> SUFFICES ASSUME FinishShell
               PROVE  Recording
    OBVIOUS
  <2>1. PICK x : x = Item("shell", run, 0, "none")
    OBVIOUS
  <2>2. x \in Items /\ ~ IsEssential(x)
    BY <1>1, <2>1 DEF Item, Items, Kinds, Nothing, IsEssential
  <2>3. /\ conversation' = Append(conversation, x) /\ rows' = Append(rows, x)
        /\ UNCHANGED <<items, phase, storedId, runHistory>>
    BY <2>1 DEF FinishShell, runVars, historyVars, runHistory
  <2>4. conversation \in Seq(Items)
    BY DEF ItemInv, Sound
  <2>5. PICK m : m = <<x>>
    OBVIOUS
  <2>6. /\ m \in Seq(Items) /\ ToSet(m) = {x}
        /\ Append(conversation, x) = Joined(conversation, m) /\ Append(rows, x) = Joined(rows, m)
    BY <1>1, <2>2, <2>4, <2>5, SetAppended
  <2> QED
    BY <2>2, <2>3, <2>6 DEF Recording
<1> QED
  BY <1>2, <1>3, <1>4, <1>5, <1>6, <1>7, <1>8, <1>9, <1>10, <1>12, <1>13, <1>14, Zenon
     DEF Next, RunnerStep, UserAnswers

LEMMA RecordedSets ==
  ASSUME conversation \in Seq(Items), rows \in Seq(Items), Recording
  PROVE  \E M : /\ \A x \in M : ~ IsEssential(x)
                /\ ToSet(conversation') = ToSet(conversation) \cup M
                /\ ToSet(rows') = ToSet(rows) \cup M
<1>1. PICK m \in Seq(Items) : /\ \A x \in ToSet(m) : ~ IsEssential(x)
                              /\ conversation' = Joined(conversation, m)
                              /\ rows' = Joined(rows, m)
  BY DEF Recording
<1>2. /\ ToSet(Joined(conversation, m)) = ToSet(conversation) \cup ToSet(m)
      /\ ToSet(Joined(rows, m)) = ToSet(rows) \cup ToSet(m)
  BY SetJoined
<1> QED
  BY <1>1, <1>2

\* While a stream goes on its request stays, and it begins with a request.
LEMMA StreamGoesOn ==
  ASSUME [Next]_vars, phase' = "stream"
  PROVE  \/ phase = "stream" /\ UNCHANGED <<request, run>>
         \/ SendRequest
<1>1. UNCHANGED vars \/ SwitchMode \/ FinishShell \/ ProviderStep => UNCHANGED <<phase, request, run>>
  BY DEF vars, SwitchMode, FinishShell, ProviderStep, runVars, roundVars
<1>2. Consume => UNCHANGED <<phase, request, run>>
  BY DEF Consume
<1>3. Submit \/ Begin \/ AcceptCalls \/ NextRound => phase' # "stream"
  BY DEF Submit, Begin, AcceptCalls, NextRound
<1>4. RecoverOverflow \/ ReplayInstead => phase' # "stream"
  BY DEF RecoverOverflow, ReplayInstead, ReplayNext
<1>5. AnswerDuplicate \/ Refuse \/ Reject \/ FinishTool \/ FinishChild \/ Consider \/ StartTool
        \/ Approve => phase' # "stream"
  BY DEF AnswerDuplicate, Refuse, Reject, FinishTool, FinishChild, Consider, StartTool, Approve
<1>6. Cancel \/ Crash \/ ConsumeTooMuch \/ GiveUp \/ Malformed \/ Complete \/ LoseApproval =>
        phase' # "stream"
  BY DEF Cancel, Crash, ConsumeTooMuch, GiveUp, Malformed, Complete, LoseApproval, FailRun, Finish
<1> QED
  BY <1>1, <1>2, <1>3, <1>4, <1>5, <1>6, Zenon DEF Next, RunnerStep, UserAnswers

-----------------------------------------------------------------------------
(* The name of a response comes before what it says *)

\* What happens to the events on their way, and to what has been collected.
Signal(es) == \A i \in DOMAIN es : es[i].type \in {"retrying", "done"}
ParsedOf(es) == Delivering /\ es = Parsed(Head(frames))

LEMMA ChanMoves ==
  ASSUME ClientInv, ServerInv, FrameInv, EventInv, [Next]_vars
  PROVE  \/ chan' = << >> /\ collector' = NoAnswer
         \/ Consume
         \/ /\ collector' = collector
            /\ \E es \in Seq(Events) : chan' = Joined(chan, es) /\ (Signal(es) \/ ParsedOf(es))
<1> DEFINE Grows == \E es \in Seq(Events) : chan' = Joined(chan, es) /\ (Signal(es) \/ ParsedOf(es))
<1>1. chan \in Seq(Events) /\ emitted \in BOOLEAN /\ current \in Nat
  <2>1. Len(server) \in Nat
    BY LenProperties DEF ServerInv
  <2> QED
    BY <2>1 DEF EventInv, ClientInv
<1>2. chan' = chan => Grows
  <2>1. << >> \in Seq(Events) /\ Signal(<< >>)
    BY DEF Signal
  <2>2. chan = Joined(chan, << >>)
    BY <1>1, ConcatEmptySeq DEF Joined
  <2> QED
    BY <2>1, <2>2
<1>3. ASSUME NEW type \in {"retrying", "done"}, chan' = Append(chan, Plain(type))
      PROVE  Grows
  <2> DEFINE e == Plain(type)
  <2>1. e \in Events /\ e.type = type
    BY <1>1 DEF Plain, Event, Events, EventTypes, Nothing
  <2>2. chan' = Append(chan, e)
    BY <1>3
  <2> HIDE DEF e
  <2>3. <<e>> \in Seq(Events) /\ Signal(<<e>>)
    BY <2>1 DEF Signal
  <2>4. Append(chan, e) = Joined(chan, <<e>>)
    BY <1>1, <2>1, AppendIsConcat DEF Joined
  <2> QED
    BY <2>2, <2>3, <2>4
<1>4. Delivering => Grows
  <2> SUFFICES ASSUME Delivering
               PROVE  Grows
    OBVIOUS
  <2>1. PICK es : es = Parsed(Head(frames))
    OBVIOUS
  <2>2. net = "open" /\ frames # << >> /\ chan' = Joined(chan, es)
    BY <2>1 DEF Delivering, Joined
  <2>3. es \in Seq(Events)
    BY <2>1, <2>2, ParsedFacts
  <2>4. ParsedOf(es)
    BY <2>1 DEF ParsedOf
  <2> QED
    BY <2>2, <2>3, <2>4
<1> HIDE DEF Grows
<1>5. Quiet => chan' = chan /\ collector' = collector
  BY DEF Quiet, streamVars
<1>6. Closing \/ Opening => chan' = << >> /\ collector' = NoAnswer
  BY DEF Closing, Opening, CloseStream, OpenStream, Restart
<1>7. ProviderStep => collector' = collector /\ Grows
  <2>1. Beginning \/ Failing => chan' = chan
    BY DEF Beginning, Failing
  <2>2. Repeating => Grows
    BY <1>3 DEF Repeating
  <2>3. Ending => Grows
    BY <1>2, <1>3 DEF Ending
  <2>4. \A payload : Sending(payload) => chan' = chan
    BY DEF Sending
  <2>5. \A n : \A chunk : Feeding(chunk) => chan' = chan
    BY DEF Feeding, Push
  <2>6. \A r : Completing(r) => chan' = chan
    BY DEF Completing, streamVars
  <2> QED
    BY <1>1, <1>2, <1>4, <2>1, <2>2, <2>3, <2>4, <2>5, <2>6, ProviderSteps, Zenon
<1> QED
  BY <1>2, <1>5, <1>6, <1>7, StreamSteps, Zenon DEF Grows

\* An event is taken.
LEMMA ConsumeMoves ==
  ASSUME EventInv, Consume
  PROVE  LET e == Head(chan)
         IN  /\ chan # << >> /\ e \in Events /\ e = chan[1] /\ 1 \in DOMAIN chan
             /\ chan' = Tail(chan) /\ chan' \in Seq(Events)
             /\ collector' = Collected(e)
             /\ e.type # "retrying" => e.of = current /\ current # 0
             /\ IF e.type = "id" /\ Has("ids") THEN prev' = e.of /\ storedId' = e.of
                ELSE UNCHANGED <<prev, storedId>>
             /\ UNCHANGED <<profile, frames, net, current, server, phase>>
<1> DEFINE e == Head(chan)
<1>1. chan # << >> /\ ~ Exceeds(e) /\ chan' = Tail(chan)
  BY DEF Consume
<1>2. /\ IF e.type = "id" /\ Has("ids") THEN prev' = e.of /\ storedId' = e.of
         ELSE UNCHANGED <<prev, storedId>>
      /\ UNCHANGED <<profile, frames, net, current, server, phase>>
  BY DEF Consume, endpointVars
<1>3. collector' = IF e.type = "text" /\ collector.text = MaxText THEN collector ELSE Collected(e)
  BY Zenon DEF Consume
<1>4. chan \in Seq(Events) /\ Belong(chan, collector, current)
  BY DEF EventInv
<1>5. e = chan[1] /\ e \in Events /\ 1 \in DOMAIN chan /\ Tail(chan) \in Seq(Events)
  BY <1>1, <1>4, TailFacts
<1>6. e.type # "retrying" => e.of = current /\ current # 0
  BY <1>4, <1>5 DEF Belong
<1>7. collector' = Collected(e)
  BY <1>1, <1>3, Zenon DEF Exceeds
<1> HIDE DEF e
<1>8. chan' \in Seq(Events)
  BY <1>1, <1>5
<1> QED
  BY <1>1, <1>2, <1>5, <1>6, <1>7, <1>8 DEF e

\* What an event leaves of an answer that has nothing in it.
Blank(c) == c.text = 0 /\ ~ c.thought /\ c.partials = {} /\ c.calls = << >>
Saying == Contents \cup {"delta", "call"}

LEMMA CollectedRest ==
  ASSUME EventInv, Consume
  PROVE  LET e == Head(chan)
             c == collector'
         IN  /\ c.calls = IF e.type = "call" THEN Append(collector.calls, e) ELSE collector.calls
             /\ c.partials = IF e.type = "delta" THEN collector.partials \cup {e}
                             ELSE IF e.type = "call" THEN {p \in collector.partials : ~ SameCall(p, e)}
                             ELSE collector.partials
             /\ c.thought <=> collector.thought \/ e.type = "thinking"
             /\ e.type \notin Saying /\ Blank(collector) => Blank(c)
<1> DEFINE e == Head(chan)
           t == IF e.type = "text" THEN collector.text + 1 ELSE collector.text
           ps == IF e.type = "delta" THEN collector.partials \cup {e}
                 ELSE IF e.type = "call" THEN {p \in collector.partials : ~ SameCall(p, e)}
                 ELSE collector.partials
           cs == IF e.type = "call" THEN Append(collector.calls, e) ELSE collector.calls
           F == {"text", "thought", "partials", "calls", "done"}
<1>1. PICK th \in BOOLEAN : th = (collector.thought \/ e.type = "thinking")
  <2>1. (collector.thought \/ e.type = "thinking") \in BOOLEAN
    OBVIOUS
  <2> QED
    BY <2>1, Zenon
<1>2. PICK d : d = (collector.done \/ e.type = "done")
  OBVIOUS
<1>3. collector' = Collected(e)
  BY ConsumeMoves
<1>4. Collected(e) = CollectedAs(collector, t, th, ps, cs, d)
  BY <1>1, <1>2, Zenon DEF Collected, CollectedAs
<1>5. collector = [f \in F |-> collector[f]]
  BY DEF EventInv, IsAnswer
<1>6. PICK c : c = collector'
  OBVIOUS
<1> HIDE DEF t, ps, cs
<1>7. c.text = t /\ c.thought = th /\ c.partials = ps /\ c.calls = cs
  BY <1>3, <1>4, <1>5, <1>6 DEF CollectedAs
<1>8. c.thought <=> collector.thought \/ e.type = "thinking"
  BY <1>1, <1>7, Zenon
<1>9. e.type \notin Saying /\ Blank(collector) => Blank(c)
  <2> SUFFICES ASSUME e.type \notin Saying, Blank(collector)
               PROVE  Blank(c)
    OBVIOUS
  <2>1. e.type \notin {"text", "thinking", "delta", "call"}
    BY DEF Saying, Contents
  <2>2. ~ c.thought
    BY <1>8, <2>1 DEF Blank
  <2>3. t = collector.text /\ ps = collector.partials /\ cs = collector.calls
    BY <2>1 DEF t, ps, cs
  <2> QED
    BY <1>7, <2>2, <2>3 DEF Blank
<1> QED
  BY <1>6, <1>7, <1>8, <1>9, Zenon DEF ps, cs

\* What a frame's events are about.
LEMMA ParsedNames ==
  ASSUME ClientInv, ServerInv, FrameInv, net = "open", frames # << >>
  PROVE  LET es == Parsed(Head(frames))
             x == frames[1][1]
         IN  /\ Chat \/ x = "text" => \A i \in DOMAIN es : es[i].type # "id"
             /\ ~ Chat /\ x = "created" => es = <<Plain("id")>>
             /\ ~ Chat /\ x = "failed" => es = <<Plain("failed")>>
             /\ \A i \in DOMAIN es : IsCall(es[i]) => es[i].n # 0
<1> DEFINE es == Parsed(Head(frames))
           x == frames[1][1]
<1>1. Tools \cap (Contents \cup Markers) = {}
  BY ProviderAssumption
<1>2. frames \in Seq(Seq(Symbols) \ {<< >>}) /\ Fits(frames, server[current], profile.with)
      /\ current \in DOMAIN server
  <2>1. Len(server) \in Nat /\ DOMAIN server = 1 .. Len(server)
    BY LenProperties DEF ServerInv
  <2> QED
    BY <2>1 DEF ClientInv, FrameInv
<1>3. Head(frames) = frames[1] /\ frames[1] \in Seq(Symbols) \ {<< >>} /\ 1 \in DOMAIN frames
  BY <1>2, TailFacts
<1>4. x \in Symbols
  <2> DEFINE f == frames[1]
  <2>1. f \in Seq(Symbols) /\ f # << >>
    BY <1>3
  <2> HIDE DEF f
  <2>2. f[1] \in Symbols
    BY <2>1, TailFacts
  <2> QED
    BY <2>2 DEF f
<1>5. es = IF Chat THEN ParsedChat(x) ELSE ParsedResponses(x)
  BY <1>3, Zenon DEF Parsed
<1>6. \A i \in DOMAIN es : IsCall(es[i]) => es[i].n # 0
  <2>1. /\ DOMAIN es = 1 .. Len(es)
        /\ \/ \A i \in DOMAIN es : ~ IsCall(es[i])
           \/ Len(es) = 1 /\ es[1].n = CallsOf(current) /\ x \in Tools \cup {"close"}
    BY ParsedFacts, Zenon
  <2>2. x \in Tools \cup {"close"} => CallsOf(current) # 0
    <3> SUFFICES ASSUME x \in Tools \cup {"close"}
                 PROVE  CallsOf(current) # 0
      OBVIOUS
    <3>1. PICK q : q = server[current].out
      OBVIOUS
    <3>2. q \in Seq(Items) /\ q # << >> /\ Last(q).k = "call"
      BY <1>2, <1>3, <3>1 DEF Fits, CallAtEnd, ServerInv, IsResponse
    <3>3. Len(q) \in DOMAIN q /\ q[Len(q)].k = "call"
      <4>1. Len(q) \in Nat \ {0} /\ DOMAIN q = 1 .. Len(q)
        BY <3>2, TailFacts
      <4> QED
        BY <3>2, <4>1 DEF Last
    <3> DEFINE C == {j \in DOMAIN q : q[j].k = "call"}
    <3>4. IsFiniteSet(C)
      BY <3>2, CallsCounted
    <3>5. Cardinality(C) # 0
      BY <3>3, <3>4, FS_EmptySet, ZenonT(60)
    <3>6. CallsOf(current) = Cardinality(C)
      BY <3>1, Zenon DEF CallsOf
    <3> QED
      BY <3>5, <3>6
  <2> HIDE DEF es, x
  <2>3. ASSUME NEW i \in DOMAIN es, IsCall(es[i])
        PROVE  es[i].n # 0
    <3>1. Len(es) = 1 /\ es[1].n = CallsOf(current) /\ x \in Tools \cup {"close"}
      BY <2>1, <2>3
    <3>2. i = 1
      BY <2>1, <3>1
    <3> QED
      BY <2>2, <3>1, <3>2
  <2> QED
    BY <2>3
<1> HIDE DEF es, x
<1>7. x \notin Tools => x # "id"
  BY <1>4 DEF Symbols, Contents, Markers
<1>8. ASSUME Chat
      PROVE  \A i \in DOMAIN es : es[i].type # "id"
  <2>1. CASE x \in Tools
    <3>1. es = <<Event("delta", current, CallsOf(current), x)>>
      BY <1>5, <1>8, <2>1, Zenon DEF ParsedChat, CallEvent
    <3> QED
      BY <3>1 DEF Event
  <2>2. CASE x \notin Tools
    <3>1. es = <<Plain(x)>>
      BY <1>5, <1>8, <2>2, Zenon DEF ParsedChat
    <3> QED
      BY <1>7, <2>2, <3>1 DEF Plain, Event
  <2> QED
    BY <2>1, <2>2
<1>9. ASSUME x \in {"text", "failed", "created"}, ~ Chat
      PROVE  es = IF x = "created" THEN <<Plain("id")>> ELSE <<Plain(x)>>
  <2>1. x \notin Tools
    BY <1>1, <1>9 DEF Contents, Markers
  <2>2. x # "close" /\ x # "completed"
    BY <1>9
  <2> QED
    BY <1>5, <1>9, <2>1, <2>2, Zenon DEF ParsedResponses
<1>10. ASSUME x = "text", ~ Chat
       PROVE  \A i \in DOMAIN es : es[i].type # "id"
  <2>1. es = <<Plain("text")>>
    BY <1>9, <1>10
  <2> QED
    BY <2>1 DEF Plain, Event
<1>11. /\ ~ Chat /\ x = "created" => es = <<Plain("id")>>
       /\ ~ Chat /\ x = "failed" => es = <<Plain("failed")>>
  BY <1>9
<1> QED
  BY <1>6, <1>8, <1>10, <1>11 DEF es, x

-----------------------------------------------------------------------------

\* The calls are numbered from 1.
NumInv ==
  /\ \A i \in DOMAIN chan : IsCall(chan[i]) => chan[i].n # 0
  /\ \A i \in DOMAIN collector.calls : collector.calls[i].n # 0
  /\ \A p \in collector.partials : p.n # 0

LEMMA TypesJoined ==
  ASSUME NEW q \in Seq(Events), NEW r \in Seq(Events)
  PROVE  \A i \in DOMAIN Joined(q, r) :
           \/ i \in DOMAIN q /\ Joined(q, r)[i] = q[i]
           \/ \E j \in DOMAIN r : Joined(q, r)[i] = r[j]
<1> DEFINE s == q \o r
<1>1. /\ Len(q) \in Nat /\ Len(r) \in Nat
      /\ DOMAIN q = 1 .. Len(q) /\ DOMAIN r = 1 .. Len(r) /\ DOMAIN s = 1 .. Len(q) + Len(r)
      /\ \A i \in 1 .. Len(q) : s[i] = q[i]
      /\ \A i \in Len(q) + 1 .. Len(q) + Len(r) : s[i] = r[i - Len(q)]
  BY ConcatFacts
<1> HIDE DEF s
<1>2. \A i \in DOMAIN s : \/ i \in DOMAIN q /\ s[i] = q[i]
                          \/ i - Len(q) \in DOMAIN r /\ s[i] = r[i - Len(q)]
  BY <1>1
<1> QED
  BY <1>2 DEF s, Joined

LEMMA NumStep ==
  ASSUME ClientInv, ServerInv, FrameInv, EventInv, NumInv, [Next]_vars
  PROVE  NumInv'
<1>1. /\ chan \in Seq(Events) /\ collector.calls \in Seq(CallEvents)
      /\ collector.partials \subseteq CallEvents
  BY DEF EventInv, IsAnswer
<1>2. ASSUME chan' = << >>, collector' = NoAnswer
      PROVE  NumInv'
  <2>1. DOMAIN << >> = {} /\ NoAnswer.calls = << >> /\ NoAnswer.partials = {}
    BY DEF NoAnswer
  <2> QED
    BY <1>2, <2>1 DEF NumInv
<1>3. ASSUME collector' = collector, NEW es \in Seq(Events), chan' = Joined(chan, es),
             Signal(es) \/ ParsedOf(es)
      PROVE  NumInv'
  <2>1. \A i \in DOMAIN es : IsCall(es[i]) => es[i].n # 0
    <3>1. CASE Signal(es)
      BY <3>1 DEF Signal, IsCall
    <3>2. CASE ParsedOf(es)
      <4>1. net = "open" /\ frames # << >> /\ es = Parsed(Head(frames))
        BY <3>2 DEF ParsedOf, Delivering
      <4> QED
        BY <4>1, ParsedNames
    <3> QED
      BY <1>3, <3>1, <3>2
  <2>2. PICK s : s = Joined(chan, es) /\ chan' = s
    BY <1>3
  <2>3. \A i \in DOMAIN s : \/ i \in DOMAIN chan /\ s[i] = chan[i]
                            \/ \E j \in DOMAIN es : s[i] = es[j]
    BY <1>1, <2>2, TypesJoined
  <2>4. \A i \in DOMAIN s : IsCall(s[i]) => s[i].n # 0
    BY <2>1, <2>3 DEF NumInv
  <2> QED
    BY <1>3, <2>2, <2>4 DEF NumInv
<1>4. ASSUME Consume
      PROVE  NumInv'
  <2> DEFINE e == Head(chan)
  <2>1. /\ chan # << >> /\ e \in Events /\ e = chan[1] /\ 1 \in DOMAIN chan /\ chan' = Tail(chan)
    BY <1>4, ConsumeMoves
  <2>2. PICK c : c = collector'
    OBVIOUS
  <2>3. /\ c.calls = IF e.type = "call" THEN Append(collector.calls, e) ELSE collector.calls
        /\ c.partials = IF e.type = "delta" THEN collector.partials \cup {e}
                        ELSE IF e.type = "call" THEN {p \in collector.partials : ~ SameCall(p, e)}
                        ELSE collector.partials
    BY <1>4, <2>2, CollectedRest
  <2>4. e.type \in {"call", "delta"} => e.n # 0
    BY <2>1 DEF NumInv, IsCall
  <2>5. \A i \in DOMAIN chan' : IsCall(chan'[i]) => chan'[i].n # 0
    <3>1. PICK t : t = Tail(chan) /\ chan' = t
      BY <2>1
    <3>2. /\ Len(chan) \in Nat /\ DOMAIN chan = 1 .. Len(chan) /\ DOMAIN t = 1 .. Len(chan) - 1
          /\ \A i \in 1 .. Len(chan) - 1 : t[i] = chan[i + 1]
      BY <1>1, <2>1, <3>1, TailFacts
    <3>3. \A i \in DOMAIN t : i + 1 \in DOMAIN chan /\ t[i] = chan[i + 1]
      BY <3>2
    <3> QED
      BY <3>1, <3>3 DEF NumInv
  <2>6. \A p \in c.partials : p.n # 0
    BY <2>3, <2>4 DEF NumInv
  <2>7. \A i \in DOMAIN c.calls : c.calls[i].n # 0
    <3>1. CASE e.type # "call"
      BY <2>3, <3>1 DEF NumInv
    <3>2. ASSUME e.type = "call"
          PROVE  \A i \in DOMAIN c.calls : c.calls[i].n # 0
      <4>1. PICK q : q = collector.calls
        OBVIOUS
      <4>2. e.tool \in Tools
        BY <2>1, <3>2 DEF EventInv, Belong, IsCall
      <4>3. e \in CallEvents
        BY <2>1, <3>2, <4>2 DEF Events, CallEvents
      <4> HIDE DEF e
      <4>4. PICK r : r = Append(q, e)
        OBVIOUS
      <4>5. /\ DOMAIN r = 1 .. Len(q) + 1 /\ DOMAIN q = 1 .. Len(q) /\ Len(q) \in Nat
            /\ r[Len(q) + 1] = e /\ \A k \in 1 .. Len(q) : r[k] = q[k]
        BY <1>1, <4>1, <4>3, <4>4, OneMore
      <4>6. c.calls = r
        BY <2>3, <3>2, <4>1, <4>4
      <4>7. \A i \in DOMAIN q : q[i].n # 0
        BY <4>1 DEF NumInv
      <4>8. \A i \in DOMAIN r : r[i].n # 0
        BY <2>4, <3>2, <4>5, <4>7
      <4> QED
        BY <4>6, <4>8
    <3> QED
      BY <3>1, <3>2
  <2> QED
    BY <2>2, <2>5, <2>6, <2>7 DEF NumInv
<1> QED
  BY <1>2, <1>3, <1>4, ChanMoves, Zenon

-----------------------------------------------------------------------------

Naming == Has("ids") /\ ~ Chat /\ ~ Has("wire")
NoIds(q) == \A i \in DOMAIN q : q[i].type # "id"

\* Responses are named only by an endpoint that keeps them, ...
IdInv ==
  /\ ~ Naming => storedId = 0 /\ prev = 0
  /\ Chat \/ Has("wire") => NoIds(chan)
  /\ Has("wire") => \A k \in DOMAIN frames : frames[k][1] = "text"
  /\ current = 0 => ~ collector.thought

\* ... and before anything of them is collected: the name is known, it is on
\* its way with nothing before it, or not announced yet.
Silence(q) == \A i \in DOMAIN q : q[i].type \notin Saying
IdAhead(q) == \E i \in DOMAIN q : q[i].type = "id" /\ \A j \in 1 .. i - 1 : q[j].type \notin Saying
Announced(id, stored, response) == id = response /\ stored \in {0, response}
Announcing(c, q) == Blank(c) /\ IdAhead(q)
Unannounced(c, q, r, fs, state) ==
  /\ Blank(c) /\ Silence(q)
  /\ state = "open" => \/ fs = <<<<"created">>>>
                       \/ ~ r.announced /\ ~ r.open /\ fs \in {<< >>, <<<<"failed">>>>}
NamedInv ==
  Naming /\ phase = "stream" /\ current # 0 =>
    \/ Announced(prev, storedId, current)
    \/ Announcing(collector, chan)
    \/ Unannounced(collector, chan, server[current], frames, net)

LEMMA IdSteps ==
  ASSUME [Next]_vars
  PROVE  \/ Consume
         \/ /\ storedId' \in {0, storedId}
            /\ \/ prev' = prev
               \/ prev' = 0 /\ phase' # "stream"
               \/ phase = "begin" /\ phase' = "request" /\ prev' \in {0, storedId'}
<1>1. UNCHANGED vars \/ SwitchMode \/ FinishShell \/ Submit \/ ProviderStep =>
        storedId' \in {0, storedId} /\ prev' = prev
  BY DEF vars, SwitchMode, FinishShell, Submit, ProviderStep, runVars, sessionVars
<1>2. \A text, of : SavePartial(text, of) => storedId' \in {0, storedId}
  BY DEF SavePartial
<1>3. ASSUME Cancel
      PROVE  storedId' \in {0, storedId} /\ prev' = 0 /\ phase' # "stream"
  <2>1. \A shown : SaveShown(shown) => storedId' \in {0, storedId}
    BY DEF SaveShown
  <2> QED
    BY <1>3, <2>1, Zenon DEF Cancel, Finish
<1>4. ConsumeTooMuch \/ GiveUp => storedId' \in {0, storedId} /\ prev' = 0 /\ phase' # "stream"
  BY <1>2, Zenon DEF ConsumeTooMuch, GiveUp, FailRun, Finish
<1>5. Crash \/ Malformed \/ Complete \/ LoseApproval =>
        storedId' \in {0, storedId} /\ prev' = 0 /\ phase' # "stream"
  BY DEF Crash, Malformed, Complete, LoseApproval, Finish
<1>6. \A id : Shrink(id) => storedId' \in {0, id}
  BY DEF Shrink
<1>7. ASSUME Begin
      PROVE  /\ storedId' \in {0, storedId} /\ phase = "begin" /\ phase' = "request"
             /\ prev' \in {0, storedId'}
  <2>1. storedId' \in {0, storedId}
    BY <1>6, <1>7, SMTT(40) DEF Begin
  <2> QED
    BY <1>7, <2>1 DEF Begin
<1>8. RecoverOverflow \/ ReplayInstead => storedId' \in {0, storedId} /\ prev' = 0 /\ phase' # "stream"
  BY <1>6 DEF RecoverOverflow, ReplayInstead, ReplayNext, Forget
<1>9. SendRequest \/ AcceptCalls \/ NextRound \/ Consider \/ StartTool \/ Approve =>
        storedId' \in {0, storedId} /\ prev' = prev
  BY DEF SendRequest, AcceptCalls, NextRound, Consider, StartTool, Approve, sessionVars
<1>10. AnswerDuplicate \/ Refuse \/ Reject \/ FinishTool \/ FinishChild =>
         storedId' \in {0, storedId} /\ prev' = prev
  BY DEF AnswerDuplicate, Refuse, Reject, FinishTool, FinishChild
<1> QED
  BY <1>1, <1>3, <1>4, <1>5, <1>7, <1>8, <1>9, <1>10, Zenon DEF Next, RunnerStep, UserAnswers

LEMMA IdInvStep ==
  ASSUME ClientInv, ServerInv, DecoderInv, FrameInv, EventInv, IdInv, [Next]_vars
  PROVE  IdInv'
<1>1. profile' = profile /\ (Has("wire")' <=> Has("wire")) /\ (Chat' <=> Chat)
      /\ (Naming' <=> Naming)
  BY ProfileKept DEF Has, Chat, Naming
<1>2. chan \in Seq(Events) /\ emitted \in BOOLEAN
  BY DEF EventInv, ClientInv
<1>3. ~ Naming' => storedId' = 0 /\ prev' = 0
  <2> SUFFICES ASSUME ~ Naming
               PROVE  storedId' = 0 /\ prev' = 0
    BY <1>1
  <2>1. storedId = 0 /\ prev = 0
    BY DEF IdInv
  <2>2. CASE Consume
    <3>1. /\ Head(chan) = chan[1] /\ 1 \in DOMAIN chan
          /\ IF Head(chan).type = "id" /\ Has("ids")
               THEN prev' = Head(chan).of /\ storedId' = Head(chan).of
               ELSE UNCHANGED <<prev, storedId>>
      BY <2>2, ConsumeMoves
    <3>2. ~ (Head(chan).type = "id" /\ Has("ids"))
      BY <3>1 DEF Naming, IdInv, NoIds
    <3> QED
      BY <2>1, <3>1, <3>2
  <2> QED
    BY <2>1, <2>2, IdSteps
<1>4. Chat \/ Has("wire") => NoIds(chan')
  <2> SUFFICES ASSUME Chat \/ Has("wire")
               PROVE  NoIds(chan')
    OBVIOUS
  <2>1. NoIds(chan)
    BY DEF IdInv
  <2>2. CASE chan' = << >>
    BY <2>2 DEF NoIds
  <2>3. CASE Consume
    <3>1. chan # << >> /\ chan' = Tail(chan)
      BY <2>3, ConsumeMoves
    <3>2. PICK t : t = Tail(chan) /\ chan' = t
      BY <3>1
    <3>3. /\ Len(chan) \in Nat /\ DOMAIN chan = 1 .. Len(chan) /\ DOMAIN t = 1 .. Len(chan) - 1
          /\ \A i \in 1 .. Len(chan) - 1 : t[i] = chan[i + 1]
      BY <1>2, <3>1, <3>2, TailFacts
    <3>4. \A i \in DOMAIN t : i + 1 \in DOMAIN chan /\ t[i] = chan[i + 1]
      BY <3>3
    <3> QED
      BY <2>1, <3>2, <3>4 DEF NoIds
  <2>4. ASSUME NEW es \in Seq(Events), chan' = Joined(chan, es), Signal(es) \/ ParsedOf(es)
        PROVE  NoIds(chan')
    <3>1. NoIds(es)
      <4>1. CASE Signal(es)
        BY <4>1 DEF Signal, NoIds
      <4>2. ASSUME ParsedOf(es)
            PROVE  NoIds(es)
        <5>1. net = "open" /\ frames # << >> /\ es = Parsed(Head(frames))
          BY <4>2 DEF ParsedOf, Delivering
        <5>2. Chat \/ frames[1][1] = "text"
          <6>1. 1 \in DOMAIN frames
            <7>1. frames \in Seq(Seq(Symbols) \ {<< >>})
              BY DEF FrameInv
            <7>2. Len(frames) \in Nat \ {0} /\ DOMAIN frames = 1 .. Len(frames)
              BY <5>1, <7>1, TailFacts
            <7> QED
              BY <7>2
          <6> QED
            BY <6>1 DEF IdInv
        <5> QED
          BY <5>1, <5>2, ParsedNames DEF NoIds
      <4> QED
        BY <2>4, <4>1, <4>2
    <3>2. PICK s : s = Joined(chan, es) /\ chan' = s
      BY <2>4
    <3>3. \A i \in DOMAIN s : \/ i \in DOMAIN chan /\ s[i] = chan[i]
                              \/ \E j \in DOMAIN es : s[i] = es[j]
      BY <1>2, <3>2, TypesJoined
    <3>4. NoIds(s)
      BY <2>1, <3>1, <3>3 DEF NoIds
    <3> QED
      BY <3>2, <3>4
  <2> QED
    BY <2>2, <2>3, <2>4, ChanMoves, Zenon
<1>5. Has("wire") => \A k \in DOMAIN frames' : frames'[k][1] = "text"
  <2> SUFFICES ASSUME Has("wire")
               PROVE  \A k \in DOMAIN frames' : frames'[k][1] = "text"
    OBVIOUS
  <2>1. \A k \in DOMAIN frames : frames[k][1] = "text"
    BY DEF IdInv
  <2>2. CASE frames' = frames
    BY <2>1, <2>2
  <2>3. CASE frames' = << >>
    BY <2>3
  <2>4. Quiet \/ Consume => frames' = frames
    BY DEF Quiet, Consume, streamVars
  <2>5. Closing \/ Opening => frames' = << >>
    BY DEF Closing, Opening, CloseStream, OpenStream, Restart
  <2>6. Beginning \/ Repeating \/ Failing \/ Ending => frames' \in {frames, << >>}
    BY DEF Beginning, Repeating, Failing, Ending
  <2>7. ASSUME Delivering
        PROVE  \A k \in DOMAIN frames' : frames'[k][1] = "text"
    <3>1. frames # << >> /\ frames' \in {<< >>, Tail(frames)}
      BY <2>7 DEF Delivering
    <3>2. CASE frames' = Tail(frames)
      <4>1. PICK t : t = Tail(frames) /\ frames' = t
        BY <3>2
      <4>2. frames \in Seq(Seq(Symbols) \ {<< >>})
        BY DEF FrameInv
      <4>3. /\ Len(frames) \in Nat /\ DOMAIN frames = 1 .. Len(frames)
            /\ DOMAIN t = 1 .. Len(frames) - 1
            /\ \A i \in 1 .. Len(frames) - 1 : t[i] = frames[i + 1]
        BY <3>1, <4>1, <4>2, TailFacts
      <4>4. \A i \in DOMAIN t : i + 1 \in DOMAIN frames /\ t[i] = frames[i + 1]
        BY <4>3
      <4> QED
        BY <2>1, <4>1, <4>4
    <3> QED
      BY <2>3, <3>1, <3>2
  <2>8. ASSUME NEW n \in Nat, NEW chunk \in [1 .. n -> Bytes], Feeding(chunk)
        PROVE  \A k \in DOMAIN frames' : frames'[k][1] = "text"
    <3>1. CASE TryPush(decoder, chunk).error
      BY <2>2, <2>8, <3>1 DEF Feeding, Push
    <3>2. CASE ~ TryPush(decoder, chunk).error
      <4>1. frames' = TryPush(decoder, chunk).events
        BY <2>8, <3>2 DEF Feeding, Push
      <4>2. TryPush(decoder, chunk).events \in Seq(Seq({"text"}) \ {<< >>})
        BY <3>2, PushFacts
      <4>3. PICK f : f = frames' /\ f \in Seq(Seq({"text"}) \ {<< >>})
        BY <4>1, <4>2
      <4>4. \A k \in DOMAIN f : f[k] \in Seq({"text"}) /\ f[k] # << >>
        BY <4>3, LenProperties, ElementOfSeq
      <4>5. \A k \in DOMAIN f : f[k][1] = "text"
        <5> SUFFICES ASSUME NEW k \in DOMAIN f
                     PROVE  f[k][1] = "text"
          OBVIOUS
        <5>1. PICK g : g = f[k]
          OBVIOUS
        <5>2. g[1] \in {"text"}
          BY <4>4, <5>1, TailFacts
        <5> QED
          BY <5>1, <5>2
      <4> QED
        BY <4>3, <4>5
    <3> QED
      BY <3>1, <3>2
  <2>9. \A r : Completing(r) => frames' = frames
    BY DEF Completing, streamVars
  <2>10. ASSUME ProviderStep
         PROVE  \A k \in DOMAIN frames' : frames'[k][1] = "text"
    <3>1. ~ ReceiveFrame
      BY DEF ReceiveFrame
    <3>2. ReceiveBytes => \E n \in Nat : \E chunk \in [1 .. n -> Bytes] : Feeding(chunk)
      <4> SUFFICES ASSUME ReceiveBytes
                   PROVE  \E n \in Nat : \E chunk \in [1 .. n -> Bytes] : Feeding(chunk)
        OBVIOUS
      <4>1. PICK n \in 1 .. profile.body - Len(body) : \E chunk \in [1 .. n -> Bytes] : Push(chunk)
        BY DEF ReceiveBytes, Bytes
      <4>2. n \in Nat
        BY <4>1
      <4>3. net = "open" /\ frames = << >> /\ UNCHANGED server
        BY DEF ReceiveBytes, endpointVars
      <4> QED
        BY <4>1, <4>2, <4>3, Zenon DEF Feeding
    <3>3. (\E r \in DOMAIN server : FinishUnheard(r)) => \E r : Completing(r)
      BY Zenon DEF FinishUnheard, Completing
    <3>4. \/ Respond(request) \/ ReceiveFrame \/ ReceiveBytes \/ HandleFrame \/ EndOfBody
          \/ BreakOff \/ \E r \in DOMAIN server : FinishUnheard(r)
      BY <2>10, Zenon DEF ProviderStep
    <3>5. frames' \in {frames, << >>} => \A k \in DOMAIN frames' : frames'[k][1] = "text"
      BY <2>2, <2>3
    <3> QED
      BY <1>2, <2>2, <2>6, <2>7, <2>8, <2>9, <3>1, <3>2, <3>3, <3>4, <3>5, RespondSteps,
         BodySteps, Zenon
  <2> QED
    BY <2>2, <2>3, <2>4, <2>5, <2>10, StreamSteps, Zenon
<1>6. current' = 0 => ~ collector'.thought
  <2>1. ASSUME collector' = collector, current' = 0 => current = 0
        PROVE  current' = 0 => ~ collector'.thought
    BY <2>1 DEF IdInv
  <2>2. Quiet => collector' = collector /\ current' = current
    BY DEF Quiet, streamVars
  <2>3. Closing \/ Opening => ~ collector'.thought
    BY DEF Closing, Opening, NoAnswer
  <2>4. ASSUME Consume
        PROVE  current' = 0 => ~ collector'.thought
    <3>1. /\ Head(chan).type # "retrying" => current # 0
          /\ current' = current
      BY <2>4, ConsumeMoves
    <3>2. collector'.thought <=> collector.thought \/ Head(chan).type = "thinking"
      BY <2>4, CollectedRest
    <3> QED
      BY <3>1, <3>2 DEF IdInv
  <2>5. ASSUME ProviderStep
        PROVE  collector' = collector /\ (current' = 0 => current = 0)
    <3>1. collector' = collector
      BY <1>2, <2>5, ProviderSteps
    <3>2. Failing \/ Ending \/ Delivering => current' = current
      BY DEF Failing, Ending, Delivering
    <3>3. Beginning \/ Repeating => current = 0
      BY DEF Beginning, Repeating, ClientInv
    <3>4. \A payload : Sending(payload) => current' = current
      BY DEF Sending
    <3>5. \A n : \A chunk : Feeding(chunk) => current' = current
      BY DEF Feeding, Push
    <3>6. \A r : Completing(r) => current' = current
      BY DEF Completing, streamVars
    <3> QED
      BY <1>2, <2>5, <3>1, <3>2, <3>3, <3>4, <3>5, <3>6, ProviderSteps, Zenon
  <2> QED
    BY <2>1, <2>2, <2>3, <2>4, <2>5, StreamSteps, Zenon
<1> QED
  BY <1>1, <1>3, <1>4, <1>5, <1>6 DEF IdInv

LEMMA SilenceJoined ==
  ASSUME NEW q \in Seq(Events), NEW r \in Seq(Events)
  PROVE  /\ Silence(q) /\ Silence(r) => Silence(Joined(q, r))
         /\ IdAhead(q) => IdAhead(Joined(q, r))
         /\ Silence(q) /\ r # << >> /\ r[1].type = "id" => IdAhead(Joined(q, r))
<1> DEFINE s == q \o r
<1>1. /\ Len(q) \in Nat /\ Len(r) \in Nat
      /\ DOMAIN q = 1 .. Len(q) /\ DOMAIN r = 1 .. Len(r) /\ DOMAIN s = 1 .. Len(q) + Len(r)
      /\ \A i \in 1 .. Len(q) : s[i] = q[i]
      /\ \A i \in 1 .. Len(r) : s[Len(q) + i] = r[i]
  BY ConcatFacts
<1>2. \A i \in DOMAIN s : \/ i \in DOMAIN q /\ s[i] = q[i]
                          \/ \E j \in DOMAIN r : s[i] = r[j]
  BY TypesJoined DEF Joined
<1> HIDE DEF s
<1>3. Silence(q) /\ Silence(r) => Silence(s)
  BY <1>2 DEF Silence
<1>4. ASSUME IdAhead(q)
      PROVE  IdAhead(s)
  <2>1. PICK i \in DOMAIN q : q[i].type = "id" /\ \A j \in 1 .. i - 1 : q[j].type \notin Saying
    BY <1>4 DEF IdAhead
  <2>2. i \in DOMAIN s /\ s[i] = q[i]
    BY <1>1
  <2>3. \A j \in 1 .. i - 1 : s[j] = q[j]
    BY <1>1
  <2> QED
    BY <2>1, <2>2, <2>3 DEF IdAhead
<1>5. ASSUME Silence(q), r # << >>, r[1].type = "id"
      PROVE  IdAhead(s)
  <2>1. Len(r) # 0
    BY <1>5, EmptySeq
  <2>2. Len(q) + 1 \in DOMAIN s /\ s[Len(q) + 1] = r[1]
    BY <1>1, <2>1
  <2>3. \A j \in 1 .. (Len(q) + 1) - 1 : j \in DOMAIN q /\ s[j] = q[j]
    BY <1>1
  <2>4. \A j \in 1 .. (Len(q) + 1) - 1 : s[j].type \notin Saying
    BY <1>5, <2>3 DEF Silence
  <2> QED
    BY <1>5, <2>2, <2>4 DEF IdAhead
<1> QED
  BY <1>3, <1>4, <1>5 DEF s, Joined

LEMMA SilenceTaken ==
  ASSUME NEW q \in Seq(Events), q # << >>
  PROVE  /\ Silence(q) => q[1].type \notin Saying /\ Silence(Tail(q))
         /\ IdAhead(q) => \/ q[1].type = "id"
                          \/ q[1].type \notin Saying /\ IdAhead(Tail(q))
<1>1. PICK t : t = Tail(q)
  OBVIOUS
<1>2. /\ Len(q) \in Nat \ {0} /\ DOMAIN q = 1 .. Len(q) /\ DOMAIN t = 1 .. Len(q) - 1
      /\ \A i \in 1 .. Len(q) - 1 : t[i] = q[i + 1]
  BY <1>1, TailFacts
<1>3. 1 \in DOMAIN q /\ \A i \in DOMAIN t : i + 1 \in DOMAIN q /\ t[i] = q[i + 1]
  BY <1>2
<1>4. Silence(q) => q[1].type \notin Saying /\ Silence(t)
  BY <1>3 DEF Silence
<1>5. ASSUME IdAhead(q), q[1].type # "id"
      PROVE  q[1].type \notin Saying /\ IdAhead(t)
  <2>1. PICK i \in DOMAIN q : q[i].type = "id" /\ \A j \in 1 .. i - 1 : q[j].type \notin Saying
    BY <1>5 DEF IdAhead
  <2>2. i # 1 /\ i \in 1 .. Len(q)
    BY <1>2, <1>5, <2>1
  <2>3. 1 \in 1 .. i - 1
    BY <1>2, <2>2
  <2>4. i - 1 \in DOMAIN t /\ (i - 1) + 1 = i
    BY <1>2, <2>2
  <2>5. t[i - 1] = q[i]
    BY <1>3, <2>4
  <2>6. ASSUME NEW j \in 1 .. (i - 1) - 1
        PROVE  t[j].type \notin Saying
    <3>1. j \in DOMAIN t /\ j + 1 \in 1 .. i - 1
      BY <1>2, <2>2
    <3> QED
      BY <1>3, <2>1, <3>1
  <2> QED
    BY <2>1, <2>3, <2>4, <2>5, <2>6 DEF IdAhead
<1> QED
  BY <1>1, <1>4, <1>5

LEMMA SentRest ==
  ASSUME ServerInv, current \in DOMAIN server, NEW payload \in {"created", "failed"}, profile \in Profiles
  PROVE  /\ payload = "failed" => Sent(payload).announced = server[current].announced
         /\ Sent(payload).open <=> server[current].open
<1> DEFINE r == server[current]
           F == {"context", "run", "out", "said", "announced", "open", "complete"}
<1>1. payload \notin Tools /\ payload # "close"
  BY ProviderAssumption DEF Markers
<1>2. IsResponse(r)
  BY DEF ServerInv
<1>3. r = [f \in F |-> r[f]] /\ r.open \in BOOLEAN /\ r.announced \in BOOLEAN
  BY <1>2 DEF IsResponse
<1>4. PICK a, n, q, o, c :
        /\ a = (r.announced \/ payload = "created")
        /\ n = IF payload = "text" THEN r.said + 1 ELSE r.said
        /\ q = r.out \o Begins(payload)
        /\ o = IF payload \in Tools THEN Has("added") ELSE r.open /\ payload # "close"
        /\ c = (r.complete \/ payload \in {"completed", "[DONE]"})
  OBVIOUS
<1>5. Sent(payload) = Edited(r, a, n, q, o, c)
  BY <1>4, Zenon DEF Sent, Edited
<1>6. PICK u : u = r
  OBVIOUS
<1>7. PICK e : e = Edited(u, a, n, q, o, c)
  OBVIOUS
<1>8. e.announced = a /\ e.open = o
  BY <1>3, <1>6, <1>7 DEF Edited
<1>9. o <=> r.open
  BY <1>1, <1>4
<1>10. payload = "failed" => a = r.announced
  BY <1>3, <1>4
<1>11. Sent(payload) = e
  BY <1>5, <1>6, <1>7, Zenon
<1> QED
  BY <1>8, <1>9, <1>10, <1>11

LEMMA CompletingRest ==
  ASSUME ServerInv, NEW k, Completing(k)
  PROVE  \A r \in DOMAIN server : server'[r].announced = server[r].announced
<1>1. k \in DOMAIN server /\ server' = [server EXCEPT ![k].complete = TRUE]
  BY DEF Completing
<1>2. PICK q : q = TRUE
  OBVIOUS
<1>3. ASSUME NEW r \in DOMAIN server
      PROVE  server'[r].announced = server[r].announced
  <2>1. PICK a, x : a = server[r] /\ x = server[k]
    OBVIOUS
  <2>2. IsResponse(a) /\ IsResponse(x)
    BY <1>1, <2>1 DEF ServerInv
  <2>3. CASE r = k
    <3>1. server'[r] = [x EXCEPT !.complete = TRUE]
      BY <1>1, <2>1, <2>3
    <3>2. PICK b : b = [x EXCEPT !.complete = q]
      OBVIOUS
    <3>3. b.announced = x.announced
      BY <2>2, <3>2 DEF IsResponse
    <3>4. server'[r] = b
      BY <1>2, <3>1, <3>2
    <3> QED
      BY <2>1, <2>3, <3>3, <3>4
  <2>4. CASE r # k
    BY <1>1, <2>4
  <2> QED
    BY <2>3, <2>4
<1> QED
  BY <1>3

LEMMA NamedStep ==
  ASSUME ClientInv, ServerInv, FrameInv, EventInv, IdInv, NamedInv, [Next]_vars
  PROVE  NamedInv'
<1>1. profile' = profile /\ (Naming' <=> Naming)
  BY ProfileKept DEF Has, Chat, Naming
<1>2. /\ chan \in Seq(Events) /\ emitted \in BOOLEAN /\ profile \in Profiles
      /\ frames \in Seq(Seq(Symbols) \ {<< >>})
      /\ Len(server) \in Nat /\ DOMAIN server = 1 .. Len(server)
      /\ current # 0 => current \in DOMAIN server
  BY LenProperties DEF EventInv, ClientInv, FrameInv, ServerInv
<1> SUFFICES ASSUME Naming, phase' = "stream", current' # 0
             PROVE  \/ Announced(prev, storedId, current)'
                    \/ Announcing(collector, chan)'
                    \/ Unannounced(collector, chan, server[current], frames, net)'
  BY <1>1 DEF NamedInv
<1>3. ~ Chat /\ ~ Has("wire") /\ Has("ids")
  BY DEF Naming
<1> DEFINE Goal == \/ Announced(prev, storedId, current)'
                   \/ Announcing(collector, chan)'
                   \/ Unannounced(collector, chan, server[current], frames, net)'
<1>4. CASE Consume
  <2> DEFINE e == Head(chan)
  <2>1. /\ chan # << >> /\ e = chan[1] /\ chan' = Tail(chan)
        /\ e.type # "retrying" => e.of = current /\ current # 0
        /\ IF e.type = "id" THEN prev' = e.of /\ storedId' = e.of
           ELSE UNCHANGED <<prev, storedId>>
        /\ UNCHANGED <<frames, net, current, server, phase>>
    BY <1>3, <1>4, ConsumeMoves
  <2>2. e.type \notin Saying /\ Blank(collector) => Blank(collector')
    BY <1>4, CollectedRest
  <2>3. phase = "stream" /\ current # 0
    BY <2>1
  <2>4. PICK t : t = Tail(chan) /\ chan' = t
    BY <2>1
  <2> HIDE DEF e
  <2>5. CASE e.type = "id"
    BY <2>1, <2>3, <2>5 DEF Announced
  <2>6. CASE Announced(prev, storedId, current) /\ e.type # "id"
    BY <2>1, <2>6 DEF Announced
  <2>7. CASE Announcing(collector, chan) /\ e.type # "id"
    <3>1. e.type \notin Saying /\ IdAhead(t)
      BY <1>2, <2>1, <2>4, <2>7, SilenceTaken DEF Announcing
    <3> QED
      BY <2>2, <2>4, <2>7, <3>1 DEF Announcing
  <2>8. CASE Unannounced(collector, chan, server[current], frames, net) /\ e.type # "id"
    <3>1. e.type \notin Saying /\ Silence(t)
      BY <1>2, <2>1, <2>4, <2>8, SilenceTaken DEF Unannounced
    <3>2. PICK c : c = collector'
      OBVIOUS
    <3>3. Blank(c)
      BY <2>2, <2>8, <3>1, <3>2 DEF Unannounced
    <3>4. Unannounced(c, t, server[current], frames, net)
      BY <2>8, <3>1, <3>3 DEF Unannounced
    <3> QED
      BY <2>1, <2>4, <3>2, <3>4
  <2> QED
    BY <2>3, <2>5, <2>6, <2>7, <2>8 DEF NamedInv
<1>5. ASSUME ~ Consume, phase = "stream"
      PROVE  prev' = prev /\ storedId' \in {0, storedId}
  BY <1>5, IdSteps
<1>6. CASE Quiet
  <2>1. /\ UNCHANGED <<chan, collector, frames, net, current, server>> /\ phase = "stream"
    BY <1>6 DEF Quiet, streamVars
  <2>2. CASE Announced(prev, storedId, current)
    BY <1>4, <1>5, <2>1, <2>2 DEF Announced
  <2>3. Announcing(collector, chan) => Announcing(collector, chan)'
    BY <2>1
  <2>4. Unannounced(collector, chan, server[current], frames, net)
          => Unannounced(collector, chan, server[current], frames, net)'
    BY <2>1
  <2> QED
    BY <2>1, <2>2, <2>3, <2>4 DEF NamedInv
<1>7. CASE Closing \/ Opening
  BY <1>7 DEF Closing, Opening, CloseStream, OpenStream, Restart
<1>8. CASE ProviderStep
  <2>1. UNCHANGED <<phase, collector, prev, storedId>>
    BY <1>8 DEF ProviderStep, runVars, roundVars, sessionVars
  <2>2. CASE Beginning
    <3>1. /\ current = 0 /\ net' = "open" /\ current' = Len(server) + 1 /\ chan' = chan
          /\ frames' = frames /\ frames = << >>
      BY <2>2 DEF Beginning, ClientInv
    <3>2. Blank(collector)
      BY <3>1 DEF EventInv, Belong, IdInv, Blank
    <3>3. Silence(chan)
      BY <3>1 DEF EventInv, Belong, Silence, Saying, Contents
    <3>4. PICK context : server' = Append(server, Begun(request, context))
      BY <2>2 DEF Beginning
    <3>5. PICK x : x = Begun(request, context)
      OBVIOUS
    <3>6. PICK s : s = server' /\ s = Append(server, x)
      BY <3>4, <3>5
    <3>7. s[Len(server) + 1] = x
      BY <3>6, Grown DEF ServerInv
    <3>8. ~ x.announced /\ ~ x.open
      BY <1>3, <3>5 DEF Begun
    <3>9. Unannounced(collector, chan, x, frames, "open")
      BY <3>1, <3>2, <3>3, <3>8 DEF Unannounced
    <3> QED
      BY <2>1, <3>1, <3>6, <3>7, <3>9
  <2>3. CASE Repeating
    BY <2>3 DEF Repeating
  \* The response goes on.
  <2>4. ASSUME current' = current, NEW es \in Seq(Events), chan' = Joined(chan, es),
               Announced(prev, storedId, current) \/ Announcing(collector, chan)
        PROVE  Goal
    <3>1. CASE Announced(prev, storedId, current)
      BY <2>1, <2>4, <3>1
    <3>2. CASE Announcing(collector, chan)
      <4>1. IdAhead(Joined(chan, es))
        BY <1>2, <3>2, SilenceJoined DEF Announcing
      <4>2. Announcing(collector, Joined(chan, es))
        BY <3>2, <4>1 DEF Announcing
      <4> QED
        BY <2>1, <2>4, <4>2
    <3> QED
      BY <2>4, <3>1, <3>2
  <2>5. << >> \in Seq(Events) /\ Silence(<< >>) /\ chan = Joined(chan, << >>)
    BY <1>2, ConcatEmptySeq DEF Silence, Joined
  <2>6. ASSUME current' = current, current # 0,
               Unannounced(collector, chan, server[current], frames, net) => Goal,
               \E es \in Seq(Events) : chan' = Joined(chan, es)
        PROVE  Goal
    <3> HIDE DEF Goal
    <3>1. phase = "stream"
      BY <2>1, SMTT(40)
    <3> QED
      BY <2>4, <2>6, <3>1, SMTT(40) DEF NamedInv
  <2>7. ASSUME current' = current, chan' = chan,
               Unannounced(collector, chan, server[current], frames, net)
                 => Unannounced(collector, chan, server[current], frames, net)'
        PROVE  Goal
    <3>1. \E es \in Seq(Events) : chan' = Joined(chan, es)
      BY <2>5, <2>7
    <3> QED
      BY <2>6, <2>7, <3>1
  <2>8. ASSUME current' = current, chan' = chan, net' # "open"
        PROVE  Goal
    <3>1. Unannounced(collector, chan, server[current], frames, net)
            => Unannounced(collector, chan, server[current], frames, net)'
      BY <2>1, <2>8 DEF Unannounced
    <3> QED
      BY <2>7, <2>8, <3>1
  <2>9. Failing => Goal
    <3> SUFFICES ASSUME Failing
                 PROVE  Goal
      OBVIOUS
    <3>1. current' = current /\ chan' = chan /\ net' # "open"
      BY DEF Failing
    <3> QED
      BY <2>8, <3>1, Zenon
  <2>10. ASSUME Ending
         PROVE  Goal
    <3>1. current' = current /\ net' = "done"
      BY <2>10 DEF Ending
    <3>2. CASE chan' = chan
      BY <2>8, <3>1, <3>2
    <3>3. CASE chan' = Append(chan, Plain("done"))
      <4> DEFINE e == Plain("done")
      <4>1. e \in Events /\ e.type = "done"
        BY <1>2 DEF Plain, Event, Events, EventTypes, Nothing
      <4>2. chan' = Append(chan, e)
        BY <3>3
      <4> HIDE DEF e
      <4>3. <<e>> \in Seq(Events) /\ Silence(<<e>>)
        BY <4>1 DEF Silence, Saying, Contents
      <4>4. chan' = Joined(chan, <<e>>)
        BY <1>2, <4>1, <4>2, AppendIsConcat DEF Joined
      <4>5. Unannounced(collector, chan, server[current], frames, net)
              => Unannounced(collector, chan, server[current], frames, net)'
        <5> SUFFICES ASSUME Unannounced(collector, chan, server[current], frames, net)
                     PROVE  Unannounced(collector, chan, server[current], frames, net)'
          OBVIOUS
        <5>1. Silence(Joined(chan, <<e>>))
          BY <1>2, <4>3, SilenceJoined DEF Unannounced
        <5>2. PICK s : s = Joined(chan, <<e>>) /\ chan' = s
          BY <4>4
        <5>3. Silence(s)
          BY <5>1, <5>2
        <5> QED
          BY <2>1, <3>1, <5>2, <5>3 DEF Unannounced
      <4>6. \E es \in Seq(Events) : chan' = Joined(chan, es)
        BY <4>3, <4>4
      <4>7. Unannounced(collector, chan, server[current], frames, net) => Goal
        BY <4>5
      <4> HIDE DEF Goal
      <4> QED
        BY <2>6, <3>1, <4>6, <4>7
    <3> QED
      BY <2>10, <3>2, <3>3 DEF Ending
  <2>11. ASSUME Delivering
         PROVE  Goal
    <3>1. PICK es : es = Parsed(Head(frames))
      OBVIOUS
    <3>2. /\ net = "open" /\ frames # << >> /\ chan' = Joined(chan, es) /\ current' = current
          /\ server' = server /\ (net' = "open" => frames' = Tail(frames))
      BY <2>11, <3>1 DEF Delivering, Joined
    <3>3. es \in Seq(Events)
      BY <3>1, <3>2, ParsedFacts
    <3>4. Unannounced(collector, chan, server[current], frames, net) => Goal
      <4> SUFFICES ASSUME Unannounced(collector, chan, server[current], frames, net)
                   PROVE  Goal
        OBVIOUS
      <4>1. CASE frames = <<<<"created">>>>
        <5>1. es = <<Plain("id")>>
          <6>1. frames[1][1] = "created"
            BY <4>1
          <6> QED
            BY <1>3, <3>1, <3>2, <6>1, ParsedNames
        <5>2. es # << >> /\ es[1].type = "id"
          BY <5>1 DEF Plain, Event
        <5>3. IdAhead(Joined(chan, es))
          BY <1>2, <3>3, <5>2, SilenceJoined DEF Unannounced
        <5>4. Announcing(collector, Joined(chan, es))
          BY <5>3 DEF Announcing, Unannounced
        <5> QED
          BY <2>1, <3>2, <5>4
      <4>2. CASE frames = <<<<"failed">>>> /\ ~ server[current].announced /\ ~ server[current].open
        <5>1. es = <<Plain("failed")>>
          <6>1. frames[1][1] = "failed"
            BY <4>2
          <6> QED
            BY <1>3, <3>1, <3>2, <6>1, ParsedNames
        <5>2. Silence(es)
          BY <5>1 DEF Plain, Event, Silence, Saying, Contents
        <5>3. Silence(Joined(chan, es))
          BY <1>2, <3>3, <5>2, SilenceJoined DEF Unannounced
        <5>4. Tail(frames) = << >>
          BY <4>2
        <5>5. PICK s, fs : s = Joined(chan, es) /\ s = chan' /\ fs = frames'
          BY <3>2
        <5>6. Unannounced(collector, s, server[current], fs, net')
          BY <3>2, <4>2, <5>3, <5>4, <5>5 DEF Unannounced
        <5> QED
          BY <2>1, <3>2, <5>5, <5>6
      <4> QED
        BY <3>2, <4>1, <4>2 DEF Unannounced
    <3>5. current # 0
      BY <3>2 DEF ClientInv
    <3> HIDE DEF Goal
    <3> QED
      BY <2>6, <3>2, <3>3, <3>4, <3>5
  <2>12. ASSUME NEW payload, Sending(payload)
         PROVE  Goal
    <3>1. /\ net = "open" /\ frames = << >> /\ frames' = <<<<payload>>>> /\ net' = net
          /\ current' = current /\ chan' = chan /\ payload \in Payloads
      BY <2>12 DEF Sending
    <3>2. server'[current] = Sent(payload)
      BY <2>12, SendingFacts
    <3>3. Unannounced(collector, chan, server[current], frames, net)
            => Unannounced(collector, chan, server[current], frames, net)'
      <4> SUFFICES ASSUME Unannounced(collector, chan, server[current], frames, net)
                   PROVE  Unannounced(collector, chan, server[current], frames, net)'
        OBVIOUS
      <4>1. ~ server[current].announced /\ ~ server[current].open
        BY <3>1 DEF Unannounced
      <4>2. payload \in {"created", "failed"}
        BY <3>1, <4>1 DEF Payloads
      <4>3. payload = "failed" => ~ Sent(payload).announced /\ ~ Sent(payload).open
        <5>1. current \in DOMAIN server
          BY <1>2, <3>1 DEF ClientInv
        <5> QED
          BY <1>2, <4>1, <4>2, <5>1, SentRest
      <4>4. PICK b : b = server'[current]
        OBVIOUS
      <4>5. Unannounced(collector, chan, b, <<<<payload>>>>, net)
        <5>1. CASE payload = "created"
          BY <5>1 DEF Unannounced
        <5>2. CASE payload = "failed"
          BY <3>2, <4>3, <4>4, <5>2 DEF Unannounced
        <5> QED
          BY <4>2, <5>1, <5>2
      <4> QED
        BY <2>1, <3>1, <4>4, <4>5
    <3> QED
      BY <2>7, <3>1, <3>3
  <2>13. ASSUME NEW k, Completing(k)
         PROVE  Goal
    <3>1. UNCHANGED <<chan, frames, net, current>>
      BY <2>13 DEF Completing, streamVars
    <3>2. CASE current = 0
      BY <3>1, <3>2
    <3>3. ASSUME current # 0
          PROVE  Goal
      <4>1. current \in DOMAIN server
        BY <1>2, <3>3
      <4>2. PICK a, b : a = server[current] /\ b = server'[current]
        OBVIOUS
      <4>3. b.announced = a.announced
        BY <2>13, <4>1, <4>2, CompletingRest
      <4>4. b.open = a.open
        BY <2>13, <4>1, <4>2, CompletingFacts
      <4>5. Unannounced(collector, chan, a, frames, net) => Unannounced(collector, chan, b, frames, net)
        BY <4>3, <4>4 DEF Unannounced
      <4>6. Unannounced(collector, chan, server[current], frames, net)
              => Unannounced(collector, chan, server[current], frames, net)'
        BY <2>1, <3>1, <4>2, <4>5
      <4> QED
        BY <2>7, <3>1, <4>6
    <3> QED
      BY <3>2, <3>3
  <2> HIDE DEF Goal
  <2>14. Goal
    BY <1>2, <1>3, <1>8, <2>2, <2>3, <2>9, <2>10, <2>11, <2>12, <2>13, FrameSteps, Zenon DEF Goal
  <2> QED
    BY <2>14 DEF Goal
<1> QED
  BY <1>4, <1>6, <1>7, <1>8, StreamSteps, Zenon

-----------------------------------------------------------------------------
(* What an answer has in it, once each *)

\* A payload begins an item, unless it goes on with one.
Begets(payload, r, s) ==
  \/ s.out = r.out /\ (payload = "text" => r.said # 0)
  \/ \E x \in Items :
       /\ s.out = Append(r.out, x) /\ x.of = current
       /\ x.k \notin {"user", "file", "output"} /\ (payload = "text" => x.k = "text")
       /\ x.k = "text" => r.said = 0
       /\ x.k = "call" => x.n = CallsOf(current) + 1

LEMMA BegunItem ==
  ASSUME ServerInv, current \in DOMAIN server, NEW payload \in Payloads, profile \in Profiles
  PROVE  Begets(payload, server[current], Sent(payload))
<1> DEFINE r == server[current]
           s == Sent(payload)
           b == Begins(payload)
           item == Item(payload, current, 0, "none")
           call == Item("call", current, CallsOf(current) + 1, payload)
<1>1. IsResponse(r) /\ current \in Nat
  BY LenProperties DEF ServerInv
<1>2. r.out \in Seq(Items)
  BY <1>1 DEF IsResponse
<1>3. CallsOf(current) \in Nat
  BY <1>2, CallsCounted DEF CallsOf
<1>4. payload \in Tools \cup Contents \cup Markers
  <2>1. profile.says \subseteq Tools \cup Contents
    BY ProviderAssumption
  <2> QED
    BY <2>1 DEF Payloads, Markers
<1>5. Tools \cap {"text"} = {}
  BY ProviderAssumption DEF Contents
<1>6. s.out = r.out \o b
  <2>1. PICK a, n, q, o, c :
          /\ a = (r.announced \/ payload = "created")
          /\ n = IF payload = "text" THEN r.said + 1 ELSE r.said
          /\ q = r.out \o b
          /\ o = IF payload \in Tools THEN Has("added") ELSE r.open /\ payload # "close"
          /\ c = (r.complete \/ payload \in {"completed", "[DONE]"})
    OBVIOUS
  <2>2. s = Edited(r, a, n, q, o, c)
    BY <2>1, Zenon DEF Sent, Edited
  <2>3. PICK u : u = r
    OBVIOUS
  <2>4. IsResponse(u) /\ s = Edited(u, a, n, q, o, c)
    BY <1>1, <2>2, <2>3
  <2> HIDE DEF s
  <2>5. s.out = q
    BY <2>4, EditsMore
  <2> QED
    BY <2>1, <2>5
<1> DEFINE P(x) == /\ x.of = current
                   /\ x.k \notin {"user", "file", "output"} /\ (payload = "text" => x.k = "text")
                   /\ x.k = "text" => r.said = 0
                   /\ x.k = "call" => x.n = CallsOf(current) + 1
<1>7. \/ b = << >> /\ (payload = "text" => r.said # 0)
      \/ \E x \in Items : b = <<x>> /\ P(x)
  <2>1. CASE payload \in Tools
    <3>1. b = <<call>>
      BY <2>1 DEF Begins
    <3>2. /\ call \in Items /\ call.of = current /\ call.k = "call"
          /\ call.n = CallsOf(current) + 1
      BY <1>1, <1>3, <2>1 DEF Item, Items, Kinds, Nothing
    <3>3. P(call)
      BY <1>5, <2>1, <3>2
    <3> QED
      BY <3>1, <3>2, <3>3
  <2>2. CASE payload \in Contents /\ payload \notin Tools
    <3>1. /\ item \in Items /\ item.of = current /\ item.k = payload
          /\ item.k \notin {"call", "user", "file", "output"}
      BY <1>1, <2>2 DEF Item, Items, Kinds, Nothing, Contents
    <3>2. CASE payload # "text"
      <4>1. b = <<item>>
        BY <2>2, <3>2 DEF Begins
      <4>2. P(item)
        BY <3>1, <3>2
      <4> QED
        BY <3>1, <4>1, <4>2
    <3>3. CASE payload = "text" /\ r.said = 0
      <4>1. b = <<item>>
        BY <2>2, <3>3 DEF Begins
      <4>2. P(item)
        BY <3>1, <3>3
      <4> QED
        BY <3>1, <4>1, <4>2
    <3>4. CASE payload = "text" /\ r.said # 0
      <4>1. b = << >>
        BY <2>2, <3>4 DEF Begins
      <4> QED
        BY <3>4, <4>1
    <3> QED
      BY <3>2, <3>3, <3>4
  <2>3. CASE payload \in Markers /\ payload \notin Tools \cup Contents
    BY <2>3 DEF Begins, Contents
  <2> QED
    BY <1>4, <2>1, <2>2, <2>3
<1> HIDE DEF r, s, b
<1>8. r.out \o << >> = r.out /\ \A x \in Items : r.out \o <<x>> = Append(r.out, x)
  BY <1>2, ConcatEmptySeq, AppendIsConcat
<1>9. CASE b = << >> /\ (payload = "text" => r.said # 0)
  <2>1. s.out = r.out
    BY <1>6, <1>8, <1>9
  <2> QED
    BY <1>9, <2>1 DEF Begets, r, s
<1>10. ASSUME NEW x \in Items, b = <<x>>, P(x)
       PROVE  Begets(payload, server[current], Sent(payload))
  <2>1. s.out = Append(r.out, x)
    BY <1>6, <1>8, <1>10
  <2> QED
    BY <1>10, <2>1 DEF Begets, r, s
<1> QED
  BY <1>7, <1>9, <1>10

\* Everything it says is there once: its text, if it said any, and its calls.
Speaks(a) ==
  /\ Distinct(a.out) /\ \A x \in ToSet(a.out) : x.k \notin {"user", "file", "output"}
  /\ a.said # 0 => \E x \in ToSet(a.out) : x.k = "text"
  /\ \A n \in 1 .. CallsIn(a.out) : \E x \in ToSet(a.out) : x.k = "call" /\ x.n = n
SpeaksInv == \A r \in DOMAIN server : Speaks(server[r])

LEMMA SpeaksNothing ==
  ASSUME NEW a, a.out = << >>, a.said = 0
  PROVE  Speaks(a)
<1>1. CallsIn(<< >>) = 0
  <2>1. {j \in DOMAIN << >> : << >>[j].k = "call"} = {}
    OBVIOUS
  <2> QED
    BY <2>1, FS_EmptySet DEF CallsIn
<1>2. Distinct(<< >>) /\ ToSet(<< >>) = {}
  BY SetNone
<1> QED
  BY <1>1, <1>2 DEF Speaks

LEMMA SpeaksMore ==
  ASSUME NEW a, IsResponse(a), NEW r \in Nat, Says(a, r), Speaks(a), NEW b,
         NEW x \in Items, b.out = Append(a.out, x), x.of = r,
         x.k \notin {"user", "file", "output"},
         x.k = "text" => a.said = 0,
         x.k = "call" => x.n = CallsIn(a.out) + 1,
         b.said # 0 => a.said # 0 \/ x.k = "text"
  PROVE  Speaks(b)
<1>1. PICK q, d : q = a.out /\ d = b.out
  OBVIOUS
<1>2. q \in Seq(Items) /\ d = Append(q, x)
  BY <1>1 DEF IsResponse
<1>3. d \in Seq(Items) /\ ToSet(d) = ToSet(q) \cup {x}
  BY <1>2, SetAppended
<1>4. CallsIn(q) \in Nat /\ CallsIn(d) = CallsIn(q) + (IF x.k = "call" THEN 1 ELSE 0)
  BY <1>2, CallsCounted DEF CallsIn
<1>5. /\ Distinct(q) /\ \A y \in ToSet(q) : y.k \notin {"user", "file", "output"}
      /\ a.said # 0 => \E y \in ToSet(q) : y.k = "text"
      /\ \A n \in 1 .. CallsIn(q) : \E y \in ToSet(q) : y.k = "call" /\ y.n = n
  BY <1>1 DEF Speaks
<1>6. /\ \A y \in ToSet(q) : y.k = "call" => y.n \in 1 .. CallsIn(q)
      /\ \A y \in ToSet(q) : y.k = "text" => a.said # 0
  BY <1>1 DEF Says, ToSet
<1>7. IsEssential(x) => ~ In(q, x)
  <2> SUFFICES ASSUME IsEssential(x), NEW y \in ToSet(q), Same(y, x)
               PROVE  FALSE
    BY DEF In
  <2>1. y.k = x.k
    BY DEF Same
  <2>2. CASE x.k = "text"
    BY <1>6, <2>1, <2>2
  <2>3. CASE x.k = "call"
    <3>1. y.n = CallsIn(q) + 1
      BY <1>1, <2>1, <2>3 DEF Same
    <3>2. y.n \in 1 .. CallsIn(q)
      BY <1>6, <2>1, <2>3
    <3> QED
      BY <1>4, <3>1, <3>2
  <2> QED
    BY <2>2, <2>3 DEF IsEssential
<1>8. Distinct(d)
  BY <1>2, <1>5, <1>7, DistinctAppended
<1>9. \A y \in ToSet(d) : y.k \notin {"user", "file", "output"}
  BY <1>3, <1>5
<1>10. b.said # 0 => \E y \in ToSet(d) : y.k = "text"
  BY <1>3, <1>5
<1>11. ASSUME NEW n \in 1 .. CallsIn(d)
       PROVE  \E y \in ToSet(d) : y.k = "call" /\ y.n = n
  <2>1. CASE n \in 1 .. CallsIn(q)
    BY <1>3, <1>5, <2>1
  <2>2. CASE n \notin 1 .. CallsIn(q)
    <3>1. x.k = "call" /\ n = CallsIn(q) + 1
      BY <1>4, <2>2
    <3>2. x.n = n
      BY <1>1, <3>1
    <3> QED
      BY <1>3, <3>1, <3>2
  <2> QED
    BY <2>1, <2>2
<1> QED
  BY <1>1, <1>8, <1>9, <1>10, <1>11 DEF Speaks

LEMMA SpeaksStep ==
  ASSUME ClientInv, ServerInv, OutInv, SpeaksInv, [Next]_vars
  PROVE  SpeaksInv'
<1>1. DOMAIN server \subseteq Nat
  BY LenProperties DEF ServerInv
<1>2. CASE server' = server
  BY <1>2 DEF SpeaksInv
<1>3. CASE Beginning
  <2>1. PICK context : server' = Append(server, Begun(request, context))
    BY <1>3 DEF Beginning
  <2> DEFINE x == Begun(request, context)
  <2>2. x.out = << >> /\ x.said = 0
    BY DEF Begun
  <2> HIDE DEF x
  <2>3. PICK s : s = server' /\ s = Append(server, x)
    BY <2>1 DEF x
  <2>4. /\ Len(server) \in Nat /\ DOMAIN server = 1 .. Len(server)
        /\ DOMAIN s = 1 .. Len(server) + 1
        /\ s[Len(server) + 1] = x /\ \A i \in 1 .. Len(server) : s[i] = server[i]
    BY <2>3, Grown DEF ServerInv
  <2>5. Speaks(x)
    BY <2>2, SpeaksNothing
  <2>6. ASSUME NEW r \in DOMAIN s
        PROVE  Speaks(s[r])
    <3>1. CASE r \in DOMAIN server
      BY <2>4, <3>1 DEF SpeaksInv
    <3>2. CASE r \notin DOMAIN server
      BY <2>4, <2>5, <3>2
    <3> QED
      BY <3>1, <3>2
  <2> QED
    BY <2>3, <2>6 DEF SpeaksInv
<1>4. ASSUME ~ Has("wire"), NEW payload, Sending(payload)
      PROVE  SpeaksInv'
  <2>1. /\ current \in DOMAIN server /\ payload \in Payloads /\ profile \in Profiles
        /\ DOMAIN server' = DOMAIN server /\ server'[current] = Sent(payload)
        /\ \A r \in DOMAIN server : r # current => server'[r] = server[r]
    BY <1>4, SendingFacts
  <2>2. PICK a, b : a = server[current] /\ b = Sent(payload)
    OBVIOUS
  <2>3. Adds(payload, a, b) /\ Begets(payload, a, b)
    BY <2>1, <2>2, SaidFacts, BegunItem
  <2>4. /\ IsResponse(a) /\ Says(a, current) /\ Speaks(a) /\ current \in Nat
        /\ CallsIn(a.out) = CallsOf(current)
    BY <1>1, <2>1, <2>2 DEF ServerInv, OutInv, SpeaksInv, CallsIn, CallsOf
  <2>5. b.said = a.said + OneIf(payload = "text") /\ a.said \in Nat
    BY <2>3, <2>4 DEF Adds, IsResponse
  <2>6. payload # "text" => b.said = a.said
    BY <2>5 DEF OneIf
  <2>7. Speaks(b)
    <3>1. CASE b.out = a.out /\ (payload = "text" => a.said # 0)
      <4>1. b.said # 0 => a.said # 0
        BY <2>6, <3>1
      <4> QED
        BY <2>4, <3>1, <4>1 DEF Speaks
    <3>2. ASSUME NEW x \in Items, b.out = Append(a.out, x), x.of = current,
                 x.k \notin {"user", "file", "output"}, payload = "text" => x.k = "text",
                 x.k = "text" => a.said = 0, x.k = "call" => x.n = CallsOf(current) + 1
          PROVE  Speaks(b)
      <4>1. b.said # 0 => a.said # 0 \/ x.k = "text"
        BY <2>6, <3>2
      <4> QED
        BY <2>4, <3>2, <4>1, SpeaksMore
    <3> QED
      BY <2>3, <3>1, <3>2 DEF Begets
  <2>8. \A r \in DOMAIN server : Speaks(server'[r])
    BY <2>1, <2>2, <2>7 DEF SpeaksInv
  <2> QED
    BY <2>1, <2>8 DEF SpeaksInv
<1>5. ASSUME NEW k, Completing(k)
      PROVE  SpeaksInv'
  <2>1. /\ DOMAIN server' = DOMAIN server
        /\ \A r \in DOMAIN server : /\ server'[r].out = server[r].out
                                    /\ server'[r].said = server[r].said
    BY <1>5, CompletingMore
  <2>2. ASSUME NEW r \in DOMAIN server
        PROVE  Speaks(server'[r])
    <3>1. Speaks(server[r])
      BY DEF SpeaksInv
    <3> QED
      BY <2>1, <3>1 DEF Speaks
  <2> QED
    BY <2>1, <2>2 DEF SpeaksInv
<1> QED
  BY <1>2, <1>3, <1>4, <1>5, ServerSteps, Zenon

-----------------------------------------------------------------------------
(* What an answer adds, once each *)

LEMMA AnswerOnce ==
  ASSUME IsAnswer(collector), current \in Nat
  PROVE  /\ Answer \in Seq(Items) /\ Distinct(Answer)
         /\ \A x \in ToSet(Answer) : x.k \in {"thinking", "text"} /\ x.of = current
         /\ \A x \in ToSet(Answer) : x.k = "text" => collector.text # 0
         /\ Answer = << >> => collector.text = 0
<1> DEFINE x == Item("thinking", current, 0, "none")
           y == Item("text", current, collector.text, "none")
           a == IF collector.thought THEN <<x>> ELSE << >>
           b == IF collector.text = 0 THEN << >> ELSE <<y>>
<1>1. collector.text \in 0 .. MaxText /\ MaxText \in Nat
  BY ProviderAssumption DEF IsAnswer
<1>2. /\ x \in Items /\ x.k = "thinking" /\ x.of = current
      /\ y \in Items /\ y.k = "text" /\ y.of = current
  BY <1>1 DEF Item, Items, Kinds, Nothing
<1>3. /\ a = << >> \/ a = <<x>>
      /\ b = << >> \/ (b = <<y>> /\ collector.text # 0)
      /\ collector.text # 0 => b = <<y>>
  OBVIOUS
<1>4. Answer = Joined(a, b)
  BY Zenon DEF Answer, Joined
<1> HIDE DEF a, b, x, y
<1>5. ASSUME NEW z \in Items, NEW q, q = << >> \/ q = <<z>>
      PROVE  q \in Seq(Items) /\ ToSet(q) \subseteq {z} /\ Distinct(q)
  <2>1. CASE q = << >>
    BY <2>1, SetNone
  <2>2. CASE q = <<z>>
    <3>1. <<z>> \in Seq(Items) /\ ToSet(<<z>>) = {z}
      <4>1. << >> \in Seq(Items)
        OBVIOUS
      <4> QED
        BY <4>1, SetAppended
    <3> QED
      BY <2>2, <3>1, DistinctOne
  <2> QED
    BY <1>5, <2>1, <2>2
<1>6. a \in Seq(Items) /\ ToSet(a) \subseteq {x} /\ Distinct(a)
  BY <1>2, <1>3, <1>5
<1>7. b \in Seq(Items) /\ ToSet(b) \subseteq {y} /\ Distinct(b)
  BY <1>2, <1>3, <1>5
<1>8. \A z \in ToSet(b) : ~ In(a, z)
  BY <1>2, <1>6, <1>7 DEF In, Same
<1>9. Joined(a, b) \in Seq(Items) /\ ToSet(Joined(a, b)) = ToSet(a) \cup ToSet(b)
  BY <1>6, <1>7, SetJoined
<1>10. Distinct(Joined(a, b))
  BY <1>6, <1>7, <1>8, DistinctJoined
<1>11. \A z \in ToSet(Joined(a, b)) : z.k \in {"thinking", "text"} /\ z.of = current
  BY <1>2, <1>6, <1>7, <1>9
<1>12. ASSUME NEW z \in ToSet(Joined(a, b)), z.k = "text"
       PROVE  collector.text # 0
  <2>1. z \in ToSet(b)
    BY <1>2, <1>6, <1>9, <1>12
  <2>2. b # << >>
    BY <2>1, SetNone
  <2> QED
    BY <1>3, <2>2
<1>13. ASSUME Joined(a, b) = << >>, collector.text # 0
       PROVE  FALSE
  <2>1. b = <<y>> /\ ToSet(<<y>>) = {y}
    <3>1. << >> \in Seq(Items)
      OBVIOUS
    <3> QED
      BY <1>2, <1>3, <1>13, <3>1, SetAppended
  <2>2. y \in ToSet(Joined(a, b))
    BY <1>9, <2>1
  <2> QED
    BY <1>13, <2>2, SetNone
<1> QED
  BY <1>4, <1>9, <1>10, <1>11, <1>12, <1>13

LEMMA AddedOnce ==
  ASSUME IsAnswer(collector), current \in Nat, NEW next \in Seq(CallEvents),
         ToldApart(next, {}), \A j \in DOMAIN next : next[j].of = current
  PROVE  /\ AddedBy(next) \in Seq(Items) /\ Distinct(AddedBy(next))
         /\ \A x \in ToSet(AddedBy(next)) : x.k \in {"thinking", "text", "call"} /\ x.of = current
         /\ \A x \in ToSet(AddedBy(next)) : x.k = "text" => collector.text # 0
         /\ \A x \in ToSet(AddedBy(next)) : x.k = "call" => \E j \in DOMAIN next : next[j].n = x.n
<1> DEFINE r == [j \in DOMAIN next |-> Item("call", next[j].of, next[j].n, next[j].tool)]
<1>1. /\ Answer \in Seq(Items) /\ Distinct(Answer)
      /\ \A x \in ToSet(Answer) : x.k \in {"thinking", "text"} /\ x.of = current
      /\ \A x \in ToSet(Answer) : x.k = "text" => collector.text # 0
  BY AnswerOnce
<1>2. /\ Len(next) \in Nat /\ DOMAIN next = 1 .. Len(next)
      /\ \A j \in DOMAIN next : next[j] \in CallEvents
  BY LenProperties, ElementOfSeq
<1>3. DOMAIN r = DOMAIN next /\ \A j \in DOMAIN next :
        /\ r[j] \in Items /\ r[j].k = "call" /\ r[j].of = current /\ r[j].n = next[j].n
  BY <1>2 DEF Item, Items, Kinds, CallEvents, Nothing
<1>4. r = [j \in 1 .. Len(next) |-> r[j]]
  BY <1>2
<1>5. AddedBy(next) = Joined(Answer, r)
  BY Zenon DEF AddedBy, Joined
<1> HIDE DEF r
<1>6. r \in Seq(Items)
  <2>1. r \in [1 .. Len(next) -> Items]
    BY <1>2, <1>3, <1>4
  <2> QED
    BY <1>2, <2>1, FunctionIsSeq
<1>7. Distinct(r)
  BY <1>3 DEF Distinct, Same, ToldApart
<1>8. \A x \in ToSet(r) : x.k = "call" /\ x.of = current /\ \E j \in DOMAIN next : next[j].n = x.n
  BY <1>3 DEF ToSet
<1>9. \A x \in ToSet(r) : ~ In(Answer, x)
  BY <1>1, <1>8 DEF In, Same
<1>10. Joined(Answer, r) \in Seq(Items) /\ ToSet(Joined(Answer, r)) = ToSet(Answer) \cup ToSet(r)
  BY <1>1, <1>6, SetJoined
<1>11. Distinct(Joined(Answer, r))
  BY <1>1, <1>6, <1>7, <1>9, DistinctJoined
<1>12. \A x \in ToSet(Joined(Answer, r)) :
         /\ x.k \in {"thinking", "text", "call"} /\ x.of = current
         /\ x.k = "text" => collector.text # 0
         /\ x.k = "call" => \E j \in DOMAIN next : next[j].n = x.n
  BY <1>1, <1>8, <1>10
<1> QED
  BY <1>5, <1>10, <1>11, <1>12

\* The calls of an answer are those the collector has.
LEMMA FinishedOf ==
  ASSUME EventInv, NEW next \in FinishedCalls
  PROVE  /\ \A j \in DOMAIN next : \/ next[j] \in collector.partials
                                   \/ \E i \in DOMAIN collector.calls : next[j] = collector.calls[i]
         /\ Blank(collector) => next = << >>
<1>1. /\ collector.calls \in Seq(CallEvents) /\ collector.partials \subseteq CallEvents
      /\ IsFiniteSet(collector.partials)
  BY DEF EventInv, IsAnswer
<1>2. PICK q, ps : q = collector.calls /\ ps = collector.partials
  OBVIOUS
<1>3. PICK s \in SetToSeqs(ps) : next = q \o s
  BY <1>2 DEF FinishedCalls
<1>4. Cardinality(ps) \in Nat /\ s \in [1 .. Cardinality(ps) -> ps]
  BY <1>1, <1>2, <1>3, FS_CardinalityType DEF SetToSeqs
<1>5. s \in Seq(CallEvents) /\ Len(s) = Cardinality(ps) /\ \A i \in DOMAIN s : s[i] \in ps
  <2>1. s \in [1 .. Cardinality(ps) -> CallEvents]
    BY <1>1, <1>2, <1>4
  <2> QED
    BY <1>4, <2>1, FunctionIsSeq
<1> DEFINE r == q \o s
<1>6. /\ r \in Seq(CallEvents) /\ Len(q) \in Nat /\ Len(s) \in Nat /\ DOMAIN r = 1 .. Len(q) + Len(s)
      /\ DOMAIN q = 1 .. Len(q) /\ DOMAIN s = 1 .. Len(s) /\ Len(r) = Len(q) + Len(s)
      /\ \A i \in 1 .. Len(q) : r[i] = q[i]
      /\ \A i \in Len(q) + 1 .. Len(q) + Len(s) : r[i] = s[i - Len(q)]
  <2>1. q \in Seq(CallEvents) /\ s \in Seq(CallEvents)
    BY <1>1, <1>2, <1>5
  <2>2. /\ q \o s \in Seq(CallEvents) /\ Len(q) \in Nat /\ Len(s) \in Nat
        /\ DOMAIN (q \o s) = 1 .. Len(q) + Len(s)
        /\ DOMAIN q = 1 .. Len(q) /\ DOMAIN s = 1 .. Len(s) /\ Len(q \o s) = Len(q) + Len(s)
    BY <2>1, ConcatFacts
  <2>3. /\ \A i \in 1 .. Len(q) : (q \o s)[i] = q[i]
        /\ \A i \in Len(q) + 1 .. Len(q) + Len(s) : (q \o s)[i] = s[i - Len(q)]
    BY <2>1, ConcatFacts
  <2> QED
    BY <2>2, <2>3
<1> HIDE DEF r
<1>7. ASSUME NEW j \in DOMAIN r
      PROVE  r[j] \in ps \/ \E i \in DOMAIN q : r[j] = q[i]
  <2>1. CASE j \in 1 .. Len(q)
    BY <1>6, <2>1
  <2>2. CASE j \in Len(q) + 1 .. Len(q) + Len(s)
    <3>1. j - Len(q) \in DOMAIN s
      BY <1>6, <2>2
    <3> QED
      BY <1>5, <1>6, <2>2, <3>1
  <2> QED
    BY <1>6, <2>1, <2>2
<1>8. ASSUME Blank(collector)
      PROVE  r = << >>
  <2>1. q = << >> /\ ps = {}
    BY <1>2, <1>8 DEF Blank
  <2>2. Len(q) = 0 /\ Len(s) = 0
    BY <1>5, <2>1, FS_EmptySet
  <2>3. Len(r) = 0
    BY <1>6, <2>2
  <2> QED
    BY <1>6, <2>3, EmptySeq
<1> QED
  BY <1>2, <1>3, <1>7, <1>8 DEF r

\* The response an answer is taken from, and its calls.
LEMMA AcceptedFacts ==
  ASSUME ClientInv, ServerInv, EventInv, NumberInv, IdInv, NamedInv, NEW next, Accepting(next)
  PROVE  /\ current \in DOMAIN server /\ current \in Nat \ {0}
         /\ prev # 0 => prev = current
         /\ next \in Seq(CallEvents) /\ ToldApart(next, {})
         /\ \A j \in DOMAIN next : next[j].of = current
         /\ IsAnswer(collector)
<1>1. next \in FinishedCalls /\ next # << >> /\ phase = "stream" /\ outcome = "ok"
  BY DEF Accepting
<1>2. /\ next \in Seq(CallEvents) /\ ToldApart(next, {})
      /\ \A j \in DOMAIN next : next[j].of = current
      /\ current # 0
  BY <1>1, FinishedFacts
<1>3. current \in DOMAIN server /\ current \in Nat \ {0}
  <2>1. Len(server) \in Nat /\ DOMAIN server = 1 .. Len(server)
    BY LenProperties DEF ServerInv
  <2> QED
    BY <1>2, <2>1 DEF ClientInv
<1>4. ~ Blank(collector)
  BY <1>1, FinishedOf
<1>5. ASSUME prev # 0
      PROVE  prev = current
  <2>1. Naming
    BY <1>5 DEF IdInv
  <2> QED
    BY <1>1, <1>2, <1>4, <2>1 DEF NamedInv, Announced, Announcing, Unannounced
<1> QED
  BY <1>2, <1>3, <1>5 DEF EventInv

-----------------------------------------------------------------------------
(* Which run asked for it *)

AskedBy(s, n) == \A x \in ToSet(s) : x.k \in {"user", "file"} => x.of \in 1 .. n

AskedInv ==
  /\ AskedBy(conversation, run) /\ AskedBy(rows, run) /\ AskedBy(items, run)
  /\ \A r \in DOMAIN server : server[r].run \in 1 .. run
  /\ phase = "stream" => request.run = run /\ (current # 0 => server[current].run = run)
  /\ \A c \in Waiting : server[c.of].run = run /\ (prev # 0 => c.of = prev)

LEMMA AskedJoined ==
  ASSUME NEW q \in Seq(Items), NEW r \in Seq(Items), NEW n, AskedBy(q, n), AskedBy(r, n)
  PROVE  AskedBy(Joined(q, r), n)
BY SetJoined DEF AskedBy

LEMMA AskedFrom ==
  ASSUME NEW q \in Seq(Items), NEW b \in 0 .. Len(q), NEW n, AskedBy(q, n)
  PROVE  AskedBy(From(q, b), n)
<1>1. ToSet(From(q, b)) \subseteq ToSet(q)
  BY SetFrom
<1> QED
  BY <1>1 DEF AskedBy

LEMMA AskedLater ==
  ASSUME NEW q, NEW n \in Nat, AskedBy(q, n)
  PROVE  AskedBy(q, n + 1)
<1>1. 1 .. n \subseteq 1 .. n + 1
  OBVIOUS
<1> QED
  BY <1>1 DEF AskedBy

LEMMA AskedPlain ==
  ASSUME NEW q, \A x \in ToSet(q) : x.k \notin {"user", "file"}, NEW n
  PROVE  AskedBy(q, n)
BY DEF AskedBy

\* The message of the user, and the files.
LEMMA MessageFacts ==
  ASSUME NEW n \in Nat, NEW m, Message(m, n)
  PROVE  /\ m \in Seq(Items) /\ Distinct(m)
         /\ \A x \in ToSet(m) : x.k \in {"user", "file"} /\ x.of = n
<1> DEFINE x == Item("user", n, 0, "none")
           y == Item("file", n, 0, "none")
<1>1. /\ x \in Items /\ y \in Items
      /\ x.k = "user" /\ x.of = n /\ y.k = "file" /\ y.of = n
  BY DEF Item, Items, Kinds, Nothing
<1>2. m = <<x>> \/ m = Joined(<<x>>, <<y>>)
  BY DEF Message
<1> HIDE DEF x, y
<1>3. /\ <<x>> \in Seq(Items) /\ ToSet(<<x>>) = {x}
      /\ <<y>> \in Seq(Items) /\ ToSet(<<y>>) = {y}
  <2>1. << >> \in Seq(Items)
    OBVIOUS
  <2> QED
    BY <1>1, <2>1, SetAppended
<1>4. Distinct(<<x>>) /\ Distinct(<<y>>)
  BY DistinctOne
<1>5. ~ In(<<x>>, y)
  BY <1>1, <1>3 DEF In, Same
<1>6. PICK p, q : p = <<x>> /\ q = <<y>>
  OBVIOUS
<1>7. Joined(p, q) \in Seq(Items) /\ ToSet(Joined(p, q)) = {x, y}
  <2>1. p \in Seq(Items) /\ q \in Seq(Items) /\ ToSet(p) = {x} /\ ToSet(q) = {y}
    BY <1>3, <1>6
  <2>2. Joined(p, q) \in Seq(Items) /\ ToSet(Joined(p, q)) = ToSet(p) \cup ToSet(q)
    BY <2>1, SetJoined
  <2> QED
    BY <2>1, <2>2
<1>8. Distinct(Joined(p, q))
  BY <1>3, <1>4, <1>5, <1>6, DistinctJoined
<1> QED
  BY <1>1, <1>2, <1>3, <1>4, <1>6, <1>7, <1>8

LEMMA RunGrows ==
  ASSUME ClientInv, ServerInv, EventInv, CallInv, ItemInv, RestInv, [Next]_vars
  PROVE  \/ run' = run /\ run \in Nat
         \/ run' = run + 1 /\ run \in Nat /\ phase = "idle" /\ phase' = "begin"
<1>1. run \in Nat
  BY ProviderAssumption DEF RestInv, ClientInv
<1>2. \A m : Submitting(m) => run' = run + 1 /\ phase = "idle" /\ phase' = "begin"
  BY DEF Submitting
<1>3. \A next : Accepting(next) => run' = run
  BY DEF Accepting, runHistory
<1>4. \A c : Replying(c) => run' = run
  BY DEF Replying, runHistory
<1>5. Resting \/ Losing \/ Reloading \/ Concluding \/ Shrinking \/ Noting \/ Recording => run' = run
  BY DEF Resting, Losing, Reloading, Concluding, Shrinking, Noting, Recording, runHistory
<1> QED
  BY <1>1, <1>2, <1>3, <1>4, <1>5, Moves, Zenon

\* The calls that wait for an output come with an answer and go one by one.
LEMMA WaitingMoves ==
  ASSUME ClientInv, ServerInv, EventInv, CallInv, ItemInv, RestInv, CallInv', [Next]_vars
  PROVE  Waiting' \subseteq Waiting \/ \E next : Accepting(next)
<1>1. phase' \in {"idle", "begin", "request", "stream"} => Waiting' = {}
  <2>1. phase' \in {"idle", "begin", "request", "stream"} => pending' = << >> /\ spawned' = {}
    BY DEF CallInv
  <2> QED
    BY <2>1, SetNone DEF Waiting
<1>2. UNCHANGED <<pending, spawned>> => Waiting' = Waiting
  BY DEF Waiting
<1>3. UNCHANGED vars \/ SwitchMode \/ FinishShell \/ ProviderStep \/ Consider \/ Approve \/ NextRound =>
        UNCHANGED <<pending, spawned>>
  BY DEF vars, SwitchMode, FinishShell, ProviderStep, Consider, Approve, NextRound, runVars, roundVars
<1>4. Submit \/ Begin \/ SendRequest \/ RecoverOverflow \/ ReplayInstead =>
        phase' \in {"idle", "begin", "request", "stream"}
  BY DEF Submit, Begin, SendRequest, RecoverOverflow, ReplayInstead, ReplayNext
<1>5. Consume => UNCHANGED <<pending, spawned>>
  BY DEF Consume
<1>6. Cancel \/ Crash \/ ConsumeTooMuch \/ GiveUp \/ Malformed \/ Complete \/ LoseApproval =>
        phase' = "idle"
  BY DEF Cancel, Crash, ConsumeTooMuch, GiveUp, Malformed, Complete, LoseApproval, FailRun, Finish
<1>7. AcceptCalls => \E next : Accepting(next)
  BY AcceptMoves
<1>8. AnswerDuplicate \/ Refuse \/ Reject \/ FinishTool \/ FinishChild => Waiting' \subseteq Waiting
  <2>1. AnswerDuplicate \/ Refuse \/ Reject \/ FinishTool =>
          pending # << >> /\ pending' = Tail(pending) /\ spawned' = spawned
    BY DEF AnswerDuplicate, Refuse, Reject, FinishTool, CallInv
  <2>2. ASSUME pending # << >>, pending' = Tail(pending), spawned' = spawned
        PROVE  Waiting' \subseteq Waiting
    <3> DEFINE left == spawned \cup ToSet(Tail(pending))
    <3>1. left \subseteq Waiting
      BY <2>2, AnsweredFacts
    <3>2. Waiting' = left
      BY <2>2 DEF Waiting
    <3> QED
      BY <3>1, <3>2
  <2>3. FinishChild => Waiting' \subseteq Waiting
    BY DEF FinishChild, Waiting
  <2> QED
    BY <2>1, <2>2, <2>3
<1>9. ASSUME StartTool
      PROVE  Waiting' \subseteq Waiting
  <2>1. pending # << >>
    BY <1>9 DEF StartTool, CallInv
  <2>2. CASE UNCHANGED <<spawned, pending>>
    BY <2>2 DEF Waiting
  <2>3. CASE spawned' = spawned \cup {Call} /\ pending' = Tail(pending)
    <3> DEFINE left == spawned \cup ToSet(Tail(pending))
    <3>1. left \subseteq Waiting /\ Call \in Waiting
      BY <2>1, AnsweredFacts
    <3>2. Waiting' = left \cup {Call}
      BY <2>3 DEF Waiting
    <3> QED
      BY <3>1, <3>2
  <2> QED
    BY <1>9, <2>2, <2>3 DEF StartTool
<1> QED
  BY <1>1, <1>2, <1>3, <1>4, <1>5, <1>6, <1>7, <1>8, <1>9, Zenon DEF Next, RunnerStep, UserAnswers

\* What is known by now.
Ground ==
  IInv /\ OutInv /\ DoneInv /\ TallyInv /\ NumInv /\ IdInv /\ NamedInv /\ SpeaksInv

LEMMA GroundFacts ==
  ASSUME Ground
  PROVE  /\ conversation \in Seq(Items) /\ rows \in Seq(Items) /\ items \in Seq(Items)
         /\ run \in Nat /\ current \in Nat /\ IsAnswer(collector)
         /\ DOMAIN server = 1 .. Len(server) /\ Len(server) \in Nat
         /\ Orderly(conversation) /\ Orderly(rows) /\ Orderly(items)
         /\ phase # "idle" => run # 0
         /\ phase = "idle" => items = << >>
<1>1. /\ conversation \in Seq(Items) /\ rows \in Seq(Items) /\ items \in Seq(Items)
      /\ Orderly(conversation) /\ Orderly(rows) /\ Orderly(items)
  BY DEF Ground, IInv, ItemInv, Sound
<1>2. run \in Nat /\ (phase # "idle" => run # 0) /\ (phase = "idle" => items = << >>)
  BY ProviderAssumption DEF Ground, IInv, RestInv, ClientInv
<1>3. DOMAIN server = 1 .. Len(server) /\ Len(server) \in Nat
  BY LenProperties DEF Ground, IInv, ServerInv
<1>4. current \in Nat /\ IsAnswer(collector)
  BY <1>3 DEF Ground, IInv, ClientInv, EventInv
<1> QED
  BY <1>1, <1>2, <1>3, <1>4

\* What has been asked stays with the run that asked.
LEMMA AskedItems ==
  ASSUME Ground, AskedInv, [Next]_vars
  PROVE  AskedBy(conversation', run') /\ AskedBy(rows', run') /\ AskedBy(items', run')
<1>1. /\ ClientInv /\ ServerInv /\ EventInv /\ NumberInv /\ CallInv /\ ItemInv /\ RestInv
      /\ IdInv /\ NamedInv
  BY DEF Ground, IInv
<1>2. /\ conversation \in Seq(Items) /\ rows \in Seq(Items) /\ items \in Seq(Items)
      /\ run \in Nat /\ current \in Nat /\ IsAnswer(collector)
  BY GroundFacts
<1>3. AskedBy(conversation, run) /\ AskedBy(rows, run) /\ AskedBy(items, run)
  BY DEF AskedInv
<1>4. \A n : AskedBy(<< >>, n)
  BY SetNone DEF AskedBy
<1>5. CASE Resting
  BY <1>3, <1>5 DEF Resting, sessionItems, runHistory
<1>6. CASE Losing
  BY <1>3, <1>4, <1>6 DEF Losing
<1>7. CASE Reloading
  BY <1>3, <1>4, <1>7 DEF Reloading
<1>8. CASE Concluding
  <2>1. /\ conversation' = Joined(items, Answer) /\ rows' = Joined(rows, Answer) /\ items' = << >>
        /\ run' = run
    BY <1>8 DEF Concluding
  <2>2. /\ Answer \in Seq(Items)
        /\ \A x \in ToSet(Answer) : x.k \notin {"user", "file"}
    BY <1>2, AnswerOnce
  <2>3. AskedBy(Answer, run)
    BY <2>2, AskedPlain
  <2>4. AskedBy(Joined(items, Answer), run) /\ AskedBy(Joined(rows, Answer), run)
    BY <1>2, <1>3, <2>2, <2>3, AskedJoined
  <2> QED
    BY <1>4, <2>1, <2>4
<1>9. CASE Shrinking
  <2>1. PICK x, b : Shortened(x, b)
    BY <1>9 DEF Shrinking
  <2>2. /\ x \in Items /\ x.k \in {"summary", "note"}
        /\ b \in 0 .. Len(items) /\ items' = Joined(<<x>>, From(items, b))
        /\ rows' = rows \/ \E c \in 0 .. Len(rows) : rows' = Joined(From(rows, c), <<x>>)
    BY <2>1 DEF Shortened
  <2>3. conversation' = conversation /\ run' = run
    BY <1>9 DEF Shrinking
  <2>4. PICK q : q = <<x>>
    OBVIOUS
  <2>5. q \in Seq(Items) /\ ToSet(q) = {x}
    BY <1>2, <2>2, <2>4, SetAppended
  <2>6. AskedBy(q, run)
    BY <2>2, <2>5, AskedPlain
  <2>7. From(items, b) \in Seq(Items) /\ AskedBy(From(items, b), run)
    BY <1>2, <1>3, <2>2, SetFrom, AskedFrom
  <2>8. AskedBy(Joined(q, From(items, b)), run)
    BY <2>5, <2>6, <2>7, AskedJoined
  <2>9. ASSUME NEW c \in 0 .. Len(rows), rows' = Joined(From(rows, c), q)
        PROVE  AskedBy(rows', run)
    <3>1. From(rows, c) \in Seq(Items) /\ AskedBy(From(rows, c), run)
      BY <1>2, <1>3, SetFrom, AskedFrom
    <3> QED
      BY <2>5, <2>6, <2>9, <3>1, AskedJoined
  <2> QED
    BY <1>3, <2>2, <2>3, <2>4, <2>8, <2>9
<1>10. CASE Noting
  <2>1. PICK m, n \in Seq(Items) :
          /\ \A x \in ToSet(m) \cup ToSet(n) : ~ IsEssential(x)
          /\ items' = Joined(items, m) /\ rows' = Joined(rows, n)
    BY <1>10 DEF Noting
  <2>2. conversation' = conversation /\ run' = run
    BY <1>10 DEF Noting, runHistory
  <2>3. AskedBy(m, run) /\ AskedBy(n, run)
    BY <2>1, AskedPlain DEF IsEssential
  <2>4. AskedBy(Joined(items, m), run) /\ AskedBy(Joined(rows, n), run)
    BY <1>2, <1>3, <2>3, AskedJoined
  <2> QED
    BY <1>3, <2>1, <2>2, <2>4
<1>11. ASSUME NEW m, Submitting(m)
       PROVE  AskedBy(conversation', run') /\ AskedBy(rows', run') /\ AskedBy(items', run')
  <2>1. /\ conversation' = Joined(conversation, m) /\ rows' = Joined(rows, m)
        /\ items' = conversation' /\ run' = run + 1 /\ Message(m, run')
    BY <1>11 DEF Submitting
  <2>2. Message(m, run + 1) /\ run + 1 \in Nat
    BY <1>2, <2>1
  <2>3. /\ m \in Seq(Items)
        /\ \A x \in ToSet(m) : x.k \in {"user", "file"} /\ x.of = run + 1
    BY <2>2, MessageFacts
  <2>4. run + 1 \in 1 .. run + 1
    BY <1>2
  <2>5. AskedBy(m, run + 1)
    BY <2>3, <2>4 DEF AskedBy
  <2>6. AskedBy(conversation, run + 1) /\ AskedBy(rows, run + 1)
    BY <1>2, <1>3, AskedLater
  <2>7. AskedBy(Joined(conversation, m), run + 1) /\ AskedBy(Joined(rows, m), run + 1)
    BY <1>2, <2>3, <2>5, <2>6, AskedJoined
  <2> QED
    BY <2>1, <2>7
<1>12. ASSUME NEW next, Accepting(next)
       PROVE  AskedBy(conversation', run') /\ AskedBy(rows', run') /\ AskedBy(items', run')
  <2>1. /\ items' = Joined(items, AddedBy(next)) /\ rows' = Joined(rows, AddedBy(next))
        /\ conversation' = conversation /\ run' = run
    BY <1>12 DEF Accepting, runHistory
  <2>2. /\ next \in Seq(CallEvents) /\ ToldApart(next, {})
        /\ \A j \in DOMAIN next : next[j].of = current
    BY <1>1, <1>12, AcceptedFacts
  <2>3. /\ AddedBy(next) \in Seq(Items)
        /\ \A x \in ToSet(AddedBy(next)) : x.k \notin {"user", "file"}
    BY <1>2, <2>2, AddedOnce
  <2>4. AskedBy(AddedBy(next), run)
    BY <2>3, AskedPlain
  <2>5. AskedBy(Joined(items, AddedBy(next)), run) /\ AskedBy(Joined(rows, AddedBy(next)), run)
    BY <1>2, <1>3, <2>3, <2>4, AskedJoined
  <2> QED
    BY <1>3, <2>1, <2>5
<1>13. ASSUME NEW c, Replying(c)
       PROVE  AskedBy(conversation', run') /\ AskedBy(rows', run') /\ AskedBy(items', run')
  <2>1. /\ items' = Append(items, OutputOf(c)) /\ rows' = Append(rows, OutputOf(c))
        /\ conversation' = conversation /\ run' = run /\ c \in CallEvents
    BY <1>13 DEF Replying, runHistory
  <2>2. PICK x : x = OutputOf(c)
    OBVIOUS
  <2>3. x \in Items /\ x.k = "output"
    BY <2>1, <2>2 DEF OutputOf, Item, Items, Kinds, CallEvents
  <2>4. ToSet(Append(items, x)) = ToSet(items) \cup {x} /\ ToSet(Append(rows, x)) = ToSet(rows) \cup {x}
    BY <1>2, <2>3, SetAppended
  <2>5. AskedBy(Append(items, x), run) /\ AskedBy(Append(rows, x), run)
    BY <1>3, <2>3, <2>4 DEF AskedBy
  <2> QED
    BY <1>3, <2>1, <2>2, <2>5
<1>14. CASE Recording
  <2>1. PICK M : /\ \A x \in M : ~ IsEssential(x)
                 /\ ToSet(conversation') = ToSet(conversation) \cup M
                 /\ ToSet(rows') = ToSet(rows) \cup M
    BY <1>2, <1>14, RecordedSets
  <2>2. items' = items /\ run' = run
    BY <1>14 DEF Recording, runHistory
  <2> QED
    BY <1>3, <2>1, <2>2 DEF AskedBy, IsEssential
<1> QED
  BY <1>1, <1>5, <1>6, <1>7, <1>8, <1>9, <1>10, <1>11, <1>12, <1>13, <1>14, Moves, Zenon

LEMMA AskedStep ==
  ASSUME Ground, IInv', AskedInv, [Next]_vars
  PROVE  AskedInv'
<1>1. /\ ClientInv /\ ServerInv /\ EventInv /\ NumberInv /\ CallInv /\ ItemInv /\ RestInv
      /\ IdInv /\ NamedInv
  BY DEF Ground, IInv
<1>2. /\ run \in Nat /\ current \in Nat /\ (phase # "idle" => run # 0)
      /\ DOMAIN server = 1 .. Len(server) /\ Len(server) \in Nat
  BY GroundFacts
<1>3. AskedBy(conversation', run') /\ AskedBy(rows', run') /\ AskedBy(items', run')
  BY AskedItems
<1>4. 1 .. run \subseteq 1 .. run' /\ run \in Nat /\ run' \in Nat
  <2>1. run' \in Nat /\ run <= run'
    BY <1>1, RunGrows
  <2> QED
    BY <1>2, <2>1
<1>5. \A r \in DOMAIN server : r \in DOMAIN server' /\ server'[r].run = server[r].run
  BY <1>1, ServerMoves DEF Goes
<1>6. \A r \in DOMAIN server : server[r].run \in 1 .. run
  BY DEF AskedInv
<1>7. ASSUME NEW r \in DOMAIN server', r \notin DOMAIN server
      PROVE  server'[r].run = run /\ run \in 1 .. run /\ phase = "stream"
  <2>1. phase = "stream" /\ server'[r] = Begun(request, Context(request))
    BY <1>1, <1>7, NewResponse
  <2>2. server'[r].run = request.run
    BY <2>1, BegunMore
  <2> QED
    BY <1>2, <2>1, <2>2 DEF AskedInv
<1>8. ASSUME NEW r \in DOMAIN server'
      PROVE  server'[r].run \in 1 .. run'
  BY <1>4, <1>5, <1>6, <1>7
<1>9. ASSUME phase' = "stream"
      PROVE  request'.run = run' /\ (current' # 0 => server'[current'].run = run')
  <2>1. CASE SendRequest
    <3>1. request'.run = run /\ run' = run /\ current' = 0
      BY <2>1 DEF SendRequest, OpenStream, Restart
    <3> QED
      BY <3>1
  <2>2. CASE phase = "stream" /\ UNCHANGED <<request, run>>
    <3>1. request.run = run /\ (current # 0 => server[current].run = run)
      BY <2>2 DEF AskedInv
    <3>2. ASSUME current' # 0
          PROVE  server'[current'].run = run
      <4>1. current' = current \/ current' = Len(server) + 1
        BY <1>1, <3>2, StreamMoves
      <4>2. current' \in DOMAIN server'
        <5>1. current' = Len(server') /\ Len(server') \in Nat
          <6>1. ClientInv' /\ ServerInv'
            BY DEF IInv
          <6> QED
            BY <1>1, <3>2, <6>1, StreamMoves DEF ClientInv
        <5>2. DOMAIN server' = 1 .. Len(server')
          <6>1. PICK s : s = server' /\ s \in Seq(ToSet(s))
            BY DEF IInv, ServerInv
          <6>2. DOMAIN s = 1 .. Len(s)
            BY <6>1, LenProperties
          <6> QED
            BY <6>1, <6>2
        <5> QED
          BY <3>2, <5>1, <5>2
      <4>3. CASE current' = current
        <5>1. current \in DOMAIN server
          BY <1>1, <1>2, <3>2, <4>3 DEF ClientInv
        <5> QED
          BY <1>5, <3>1, <3>2, <4>3, <5>1
      <4>4. CASE current' = Len(server) + 1
        <5>1. current' \notin DOMAIN server
          BY <1>2, <4>4
        <5> QED
          BY <1>7, <4>2, <5>1
      <4> QED
        BY <4>1, <4>3, <4>4
    <3> QED
      BY <2>2, <3>1, <3>2
  <2> QED
    BY <1>9, <2>1, <2>2, StreamGoesOn
<1>10. ASSUME NEW c \in Waiting'
       PROVE  server'[c.of].run = run' /\ (prev' # 0 => c.of = prev')
  <2>1. phase' \notin {"idle", "begin", "request", "stream"}
    <3>1. CallInv'
      BY DEF IInv
    <3>2. phase' \in {"idle", "begin", "request", "stream"} => Waiting' = {}
      <4>1. phase' \in {"idle", "begin", "request", "stream"} => pending' = << >> /\ spawned' = {}
        BY <3>1 DEF CallInv
      <4> QED
        BY <4>1, SetNone DEF Waiting
    <3> QED
      BY <1>10, <3>2
  <2>2. run' = run
    BY <1>1, <2>1, RunGrows
  <2>3. prev' \in {0, prev}
    <3>1. ~ Consume
      <4>1. Consume => phase' = "stream"
        BY DEF Consume
      <4> QED
        BY <2>1, <4>1
    <3> QED
      BY <2>1, <3>1, IdSteps
  <2>4. CASE Waiting' \subseteq Waiting
    <3>1. c \in Waiting
      BY <1>10, <2>4
    <3>2. server[c.of].run = run /\ (prev # 0 => c.of = prev)
      BY <3>1 DEF AskedInv
    <3>3. c.of \in DOMAIN server
      BY <1>1, <1>2, <3>1 DEF ItemInv
    <3> QED
      BY <1>5, <2>2, <2>3, <3>2, <3>3
  <2>5. ASSUME NEW next, Accepting(next)
        PROVE  server'[c.of].run = run' /\ (prev' # 0 => c.of = prev')
    <3>1. /\ current \in DOMAIN server /\ current \in Nat \ {0}
          /\ prev # 0 => prev = current
          /\ \A j \in DOMAIN next : next[j].of = current
      BY <1>1, <2>5, AcceptedFacts
    <3>2. /\ phase = "stream" /\ pending' = next /\ spawned' = spawned /\ server' = server
          /\ prev' = prev
      BY <2>5 DEF Accepting
    <3>3. spawned = {}
      BY <1>1, <3>2 DEF CallInv
    <3>4. Waiting' = ToSet(next)
      BY <3>2, <3>3 DEF Waiting
    <3>5. c.of = current
      BY <1>10, <3>1, <3>4 DEF ToSet
    <3>6. server[current].run = run
      BY <3>1, <3>2 DEF AskedInv
    <3> QED
      BY <2>2, <3>1, <3>2, <3>5, <3>6
  <2>6. CallInv'
    BY DEF IInv
  <2> QED
    BY <1>1, <2>4, <2>5, <2>6, WaitingMoves
<1> QED
  BY <1>3, <1>8, <1>9, <1>10 DEF AskedInv

\* Nothing that matters is twice in the conversation, the rows or the items.
DistinctInv == Distinct(conversation) /\ Distinct(rows) /\ Distinct(items)

\* What an answer adds is of the response that was streamed, and so is new.
LEMMA AddedIsNew ==
  ASSUME Ground, NEW s, s \in {conversation, rows, items}, NEW x, OfResponse(x), x.of = current
  PROVE  ~ In(s, x)
<1>1. ServerInv /\ ItemInv
  BY DEF Ground, IInv
<1>2. \A y \in ToSet(s) : OfResponse(y) => y.of # current
  BY <1>1, AllKnown
<1> QED
  BY <1>2 DEF In, Same, OfResponse

LEMMA DistinctStep ==
  ASSUME Ground, AskedInv, DistinctInv, [Next]_vars
  PROVE  DistinctInv'
<1>1. /\ ClientInv /\ ServerInv /\ EventInv /\ NumberInv /\ CallInv /\ ItemInv /\ RestInv
      /\ IdInv /\ NamedInv
  BY DEF Ground, IInv
<1>2. /\ conversation \in Seq(Items) /\ rows \in Seq(Items) /\ items \in Seq(Items)
      /\ run \in Nat /\ current \in Nat /\ IsAnswer(collector)
  BY GroundFacts
<1>3. Distinct(conversation) /\ Distinct(rows) /\ Distinct(items) /\ Distinct(<< >>)
  BY SetNone DEF DistinctInv
<1> DEFINE Goal == Distinct(conversation') /\ Distinct(rows') /\ Distinct(items')
<1> SUFFICES Goal
  BY DEF DistinctInv
<1>4. CASE Resting
  BY <1>3, <1>4 DEF Resting, sessionItems
<1>5. CASE Losing
  BY <1>3, <1>5 DEF Losing
<1>6. CASE Reloading
  BY <1>3, <1>6 DEF Reloading
<1>7. CASE Concluding
  <2>1. /\ conversation' = Joined(items, Answer) /\ rows' = Joined(rows, Answer) /\ items' = << >>
    BY <1>7 DEF Concluding
  <2>2. /\ Answer \in Seq(Items) /\ Distinct(Answer)
        /\ \A x \in ToSet(Answer) : x.k \in {"thinking", "text"} /\ x.of = current
    BY <1>2, AnswerOnce
  <2>3. \A x \in ToSet(Answer) : IsEssential(x) => ~ In(items, x) /\ ~ In(rows, x)
    <3>1. \A x \in ToSet(Answer) : IsEssential(x) => OfResponse(x) /\ x.of = current
      BY <2>2 DEF IsEssential, OfResponse
    <3> QED
      BY <3>1, AddedIsNew
  <2>4. Distinct(Joined(items, Answer)) /\ Distinct(Joined(rows, Answer))
    BY <1>2, <1>3, <2>2, <2>3, DistinctJoined
  <2> QED
    BY <1>3, <2>1, <2>4
<1>8. CASE Shrinking
  <2>1. PICK x, b : Shortened(x, b)
    BY <1>8 DEF Shrinking
  <2>2. /\ x \in Items /\ x.k \in {"summary", "note"}
        /\ b \in 0 .. Len(items) /\ items' = Joined(<<x>>, From(items, b))
        /\ rows' = rows \/ \E c \in 0 .. Len(rows) : rows' = Joined(From(rows, c), <<x>>)
    BY <2>1 DEF Shortened
  <2>3. conversation' = conversation
    BY <1>8 DEF Shrinking
  <2>4. PICK q : q = <<x>>
    OBVIOUS
  <2>5. q \in Seq(Items) /\ ToSet(q) = {x} /\ Distinct(q)
    BY <1>2, <2>2, <2>4, SetAppended, DistinctOne
  <2>6. \A y : IsEssential(y) => ~ In(q, y)
    BY <2>2, <2>5 DEF In, Same, IsEssential
  <2>7. From(items, b) \in Seq(Items) /\ Distinct(From(items, b))
    BY <1>2, <1>3, <2>2, SetFrom, DistinctFrom
  <2>8. Distinct(Joined(q, From(items, b)))
    BY <2>5, <2>6, <2>7, DistinctJoined
  <2>9. ASSUME NEW c \in 0 .. Len(rows), rows' = Joined(From(rows, c), q)
        PROVE  Distinct(rows')
    <3>1. From(rows, c) \in Seq(Items) /\ Distinct(From(rows, c))
      BY <1>2, <1>3, SetFrom, DistinctFrom
    <3>2. \A y \in ToSet(q) : ~ IsEssential(y)
      BY <2>2, <2>5 DEF IsEssential
    <3> QED
      BY <2>5, <2>9, <3>1, <3>2, DistinctJoined
  <2> QED
    BY <1>3, <2>2, <2>3, <2>4, <2>8, <2>9
<1>9. CASE Noting
  <2>1. PICK m, n \in Seq(Items) :
          /\ \A x \in ToSet(m) \cup ToSet(n) : ~ IsEssential(x)
          /\ items' = Joined(items, m) /\ rows' = Joined(rows, n)
    BY <1>9 DEF Noting
  <2>2. conversation' = conversation
    BY <1>9 DEF Noting
  <2>3. Distinct(m) /\ Distinct(n)
    BY <2>1, DistinctPlain
  <2>4. Distinct(Joined(items, m)) /\ Distinct(Joined(rows, n))
    BY <1>2, <1>3, <2>1, <2>3, DistinctJoined
  <2> QED
    BY <1>3, <2>1, <2>2, <2>4
<1>10. ASSUME NEW m, Submitting(m)
       PROVE  Goal
  <2>1. /\ conversation' = Joined(conversation, m) /\ rows' = Joined(rows, m)
        /\ items' = conversation' /\ run' = run + 1 /\ Message(m, run')
    BY <1>10 DEF Submitting
  <2>2. Message(m, run + 1) /\ run + 1 \in Nat /\ run + 1 \notin 1 .. run
    BY <1>2, <2>1
  <2>3. /\ m \in Seq(Items) /\ Distinct(m)
        /\ \A x \in ToSet(m) : x.k \in {"user", "file"} /\ x.of = run + 1
    BY <2>2, MessageFacts
  <2>4. ASSUME NEW s, AskedBy(s, run), NEW x \in ToSet(m)
        PROVE  ~ In(s, x)
    BY <2>2, <2>3, <2>4 DEF AskedBy, In, Same
  <2>5. \A x \in ToSet(m) : ~ In(conversation, x) /\ ~ In(rows, x)
    BY <2>4 DEF AskedInv
  <2>6. Distinct(Joined(conversation, m)) /\ Distinct(Joined(rows, m))
    BY <1>2, <1>3, <2>3, <2>5, DistinctJoined
  <2> QED
    BY <2>1, <2>6
<1>11. ASSUME NEW next, Accepting(next)
       PROVE  Goal
  <2>1. /\ items' = Joined(items, AddedBy(next)) /\ rows' = Joined(rows, AddedBy(next))
        /\ conversation' = conversation
    BY <1>11 DEF Accepting
  <2>2. /\ next \in Seq(CallEvents) /\ ToldApart(next, {})
        /\ \A j \in DOMAIN next : next[j].of = current
    BY <1>1, <1>11, AcceptedFacts
  <2>3. /\ AddedBy(next) \in Seq(Items) /\ Distinct(AddedBy(next))
        /\ \A x \in ToSet(AddedBy(next)) : x.k \in {"thinking", "text", "call"} /\ x.of = current
    BY <1>2, <2>2, AddedOnce
  <2>4. \A x \in ToSet(AddedBy(next)) : IsEssential(x) => ~ In(items, x) /\ ~ In(rows, x)
    <3>1. \A x \in ToSet(AddedBy(next)) : IsEssential(x) => OfResponse(x) /\ x.of = current
      BY <2>3 DEF IsEssential, OfResponse
    <3> QED
      BY <3>1, AddedIsNew
  <2>5. Distinct(Joined(items, AddedBy(next))) /\ Distinct(Joined(rows, AddedBy(next)))
    BY <1>2, <1>3, <2>3, <2>4, DistinctJoined
  <2> QED
    BY <1>3, <2>1, <2>5
<1>12. ASSUME NEW c, Replying(c)
       PROVE  Goal
  <2>1. /\ items' = Append(items, OutputOf(c)) /\ rows' = Append(rows, OutputOf(c))
        /\ conversation' = conversation /\ c \in CallEvents /\ c \in Waiting
    BY <1>12 DEF Replying
  <2>2. PICK x : x = OutputOf(c)
    OBVIOUS
  <2>3. x \in Items /\ x.k = "output" /\ x.of = c.of /\ x.n = c.n
    BY <2>1, <2>2 DEF OutputOf, Item, Items, Kinds, CallEvents
  <2>4. NoOutput(items, Waiting) /\ NoOutput(rows, Waiting)
    BY <1>1 DEF ItemInv
  <2>5. ~ In(items, x) /\ ~ In(rows, x)
    BY <2>1, <2>3, <2>4 DEF In, Same, NoOutput, SameCall, ToSet
  <2>6. Distinct(Append(items, x)) /\ Distinct(Append(rows, x))
    BY <1>2, <1>3, <2>3, <2>5, DistinctAppended
  <2> QED
    BY <1>3, <2>1, <2>2, <2>6
<1>13. CASE Recording
  <2>1. PICK m \in Seq(Items) :
          /\ \A x \in ToSet(m) : ~ IsEssential(x)
          /\ conversation' = Joined(conversation, m) /\ rows' = Joined(rows, m)
    BY <1>13 DEF Recording
  <2>2. items' = items
    BY <1>13 DEF Recording
  <2>3. Distinct(m)
    BY <2>1, DistinctPlain
  <2>4. Distinct(Joined(conversation, m)) /\ Distinct(Joined(rows, m))
    BY <1>2, <1>3, <2>1, <2>3, DistinctJoined
  <2> QED
    BY <1>3, <2>1, <2>2, <2>4
<1> QED
  BY <1>1, <1>4, <1>5, <1>6, <1>7, <1>8, <1>9, <1>10, <1>11, <1>12, <1>13, Moves, Zenon

-----------------------------------------------------------------------------
(* What a response has before it *)

\* What is before response r has nothing of it and of those behind it, nothing
\* that matters is there twice, and it is of the first n runs.
Earlier(s, r) == \A x \in ToSet(s) : OfResponse(x) => x.of \in 1 .. r - 1
Clean(s, r, n) == s \in Seq(Items) /\ Distinct(s) /\ Earlier(s, r) /\ AskedBy(s, n)

\* The runs whose messages the endpoint can have heard of.
Heard == IF phase = "begin" THEN run - 1 ELSE run

\* What a request puts before its response.
Resumes(p, s) == Joined(IF p = 0 THEN << >> ELSE Knows(p), Body(s))
Ahead == IF current = 0 THEN Resumes(request.prev, request.items) ELSE server[current].context

ContextInv ==
  /\ \A r \in DOMAIN server : Clean(server[r].context, r, Heard)
  /\ phase = "stream" =>
       /\ request.prev \in 0 .. Len(server) /\ (current # 0 => request.prev # current)
       /\ Clean(Ahead, IF current = 0 THEN Len(server) + 1 ELSE current, run)

\* What a resumed response gets is new to it.
NewInv ==
  prev # 0 /\ phase \notin {"idle", "begin", "stream"} =>
    \A x \in ToSet(From(items, cursor)) : IsEssential(x) => ~ In(Knows(prev), x)

\* What a full replay would send, up to now.
LocalInv ==
  phase = "stream" =>
    /\ ToSet(request.local) \subseteq ToSet(items)
    /\ \A x \in ToSet(items) :
         IsEssential(x) /\ Partners(ToSet(items), x) => x \in ToSet(request.local)

LEMMA CleanLater ==
  ASSUME NEW s, NEW r \in Nat, NEW q \in Nat, NEW n \in Nat, NEW m \in Nat,
         r <= q, n <= m, Clean(s, r, n)
  PROVE  Clean(s, q, m)
<1>1. 1 .. r - 1 \subseteq 1 .. q - 1 /\ 1 .. n \subseteq 1 .. m
  OBVIOUS
<1> QED
  BY <1>1 DEF Clean, Earlier, AskedBy

LEMMA CleanJoined ==
  ASSUME NEW q, NEW s, NEW r, NEW n, Clean(q, r, n), Clean(s, r, n),
         \A x \in ToSet(s) : IsEssential(x) => ~ In(q, x)
  PROVE  Clean(Joined(q, s), r, n)
<1>1. q \in Seq(Items) /\ s \in Seq(Items) /\ Distinct(q) /\ Distinct(s)
  BY DEF Clean
<1>2. Joined(q, s) \in Seq(Items) /\ ToSet(Joined(q, s)) = ToSet(q) \cup ToSet(s)
  BY <1>1, SetJoined
<1>3. Distinct(Joined(q, s))
  BY <1>1, DistinctJoined
<1>4. AskedBy(Joined(q, s), n) /\ Earlier(Joined(q, s), r)
  BY <1>2 DEF Clean, AskedBy, Earlier
<1> QED
  BY <1>2, <1>3, <1>4 DEF Clean

LEMMA HeardFacts ==
  ASSUME Ground
  PROVE  Heard \in Nat /\ run \in Nat /\ Heard <= run
<1>1. run \in Nat /\ (phase # "idle" => run # 0)
  BY GroundFacts
<1> QED
  BY <1>1 DEF Heard

\* With what it said itself it is before the responses behind it.
LEMMA KnowsClean ==
  ASSUME Ground, ContextInv, NEW r \in DOMAIN server
  PROVE  Clean(Knows(r), r + 1, Heard) /\ server[r].context \in Seq(Items)
<1>1. PICK c, o : c = server[r].context /\ o = server[r].out
  OBVIOUS
<1>2. r \in Nat \ {0} /\ Heard \in Nat
  BY GroundFacts, HeardFacts
<1>3. Clean(c, r, Heard)
  BY <1>1 DEF ContextInv
<1>4. Clean(c, r + 1, Heard)
  <2>1. r + 1 \in Nat /\ r <= r + 1
    BY <1>2
  <2> QED
    BY <1>2, <1>3, <2>1, CleanLater
<1>5. IsResponse(server[r]) /\ Says(server[r], r) /\ Speaks(server[r])
  BY DEF Ground, IInv, ServerInv, OutInv, SpeaksInv
<1>6. /\ o \in Seq(Items) /\ Distinct(o)
      /\ \A x \in ToSet(o) : x.k \notin {"user", "file", "output"} /\ x.of = r
  BY <1>1, <1>5 DEF IsResponse, Says, Speaks, ToSet
<1>7. Clean(o, r + 1, Heard)
  <2>1. r \in 1 .. (r + 1) - 1
    BY <1>2
  <2> QED
    BY <1>6, <2>1 DEF Clean, Earlier, AskedBy
<1>8. ASSUME NEW x \in ToSet(o), IsEssential(x), In(c, x)
      PROVE  FALSE
  <2>1. OfResponse(x) /\ x.of = r
    BY <1>6, <1>8 DEF IsEssential, OfResponse
  <2>2. PICK y \in ToSet(c) : Same(y, x)
    BY <1>8 DEF In
  <2>3. OfResponse(y) /\ y.of = r
    BY <2>1, <2>2 DEF OfResponse, Same
  <2>4. y.of \in 1 .. r - 1
    BY <1>3, <2>3 DEF Clean, Earlier
  <2> QED
    BY <1>2, <2>3, <2>4
<1>9. Clean(Joined(c, o), r + 1, Heard)
  BY <1>4, <1>7, <1>8, CleanJoined
<1>10. Knows(r) = Joined(c, o)
  BY <1>1 DEF Knows
<1> QED
  BY <1>1, <1>3, <1>9, <1>10 DEF Clean

\* The items of the run are before every response to come.
LEMMA ItemsClean ==
  ASSUME Ground, AskedInv, DistinctInv
  PROVE  Clean(items, Len(server) + 1, run)
<1>1. items \in Seq(Items) /\ Len(server) \in Nat
  BY GroundFacts
<1>2. DOMAIN server = 1 .. Len(server)
  BY GroundFacts
<1>3. ServerInv /\ ItemInv
  BY DEF Ground, IInv
<1>4. \A x \in ToSet(items) : OfResponse(x) => x.of \in 1 .. Len(server)
  BY <1>2, <1>3, AllKnown DEF IsKnown
<1>5. 1 .. Len(server) = 1 .. (Len(server) + 1) - 1
  BY <1>1
<1>6. Earlier(items, Len(server) + 1)
  BY <1>4, <1>5 DEF Earlier
<1> QED
  BY <1>1, <1>6 DEF Clean, AskedInv, DistinctInv

LEMMA CleanLess ==
  ASSUME NEW q, NEW s, NEW r, NEW n, Clean(q, r, n),
         s \in Seq(Items), Distinct(s), ToSet(s) \subseteq ToSet(q)
  PROVE  Clean(s, r, n)
BY DEF Clean, Earlier, AskedBy

\* A request is made.
LEMMA SentAhead ==
  ASSUME SendRequest
  PROVE  /\ Ahead' = IF prev = 0 THEN Joined(<< >>, Body(ReplaySafe(items)))
                     ELSE Joined(Knows(prev), Body(From(items, cursor)))
         /\ current' = 0 /\ request'.prev = prev /\ request'.local = ReplaySafe(items)
         /\ phase = "request" /\ phase' = "stream" /\ run' = run
         /\ UNCHANGED <<server, items, rows, conversation, storedId, prev, unanswered, cut>>
<1>1. /\ current' = 0 /\ phase = "request" /\ phase' = "stream"
      /\ UNCHANGED <<profile, server, items, rows, conversation, storedId, prev, run, unanswered, cut>>
  BY DEF SendRequest, OpenStream, Restart, endpointVars, sessionVars, historyVars
<1>2. PICK q, l, s : q = request' /\ l = ReplaySafe(items)
                     /\ s = IF prev = 0 THEN ReplaySafe(items) ELSE From(items, cursor)
  OBVIOUS
<1>3. q = [prev |-> prev, run |-> run, local |-> l, items |-> s]
  BY <1>2, Zenon DEF SendRequest, NewItems, From
<1>4. q.prev = prev /\ q.local = l /\ q.items = s
  BY <1>3
<1>5. Ahead' = Resumes(request.prev, request.items)'
  BY <1>1 DEF Ahead
<1>6. Body(request.items)' = Body(s)
  BY <1>1, <1>2, <1>4 DEF Body, Chat, Has
<1>7. Resumes(request.prev, request.items)' =
        Joined(IF request'.prev = 0 THEN << >> ELSE Knows(request.prev)', Body(request.items)')
  BY DEF Resumes
<1>8. Knows(request.prev)' = Joined(server[prev].context, server[prev].out)
  BY <1>1, <1>2, <1>4 DEF Knows
<1>9. CASE prev = 0
  <2>1. Resumes(request.prev, request.items)' = Joined(<< >>, Body(s))
    BY <1>2, <1>4, <1>6, <1>7, <1>9
  <2> QED
    BY <1>1, <1>2, <1>4, <1>5, <1>9, <2>1
<1>10. CASE prev # 0
  <2>1. Resumes(request.prev, request.items)' = Joined(Knows(request.prev)', Body(s))
    BY <1>2, <1>4, <1>6, <1>7, <1>10
  <2>2. Knows(prev) = Joined(server[prev].context, server[prev].out)
    BY DEF Knows
  <2> QED
    BY <1>1, <1>2, <1>4, <1>5, <1>8, <1>10, <2>1, <2>2
<1> QED
  BY <1>9, <1>10

LEMMA SentClean ==
  ASSUME Ground, AskedInv, DistinctInv, ContextInv, NewInv, SendRequest
  PROVE  Clean(Ahead', Len(server) + 1, run)
<1>1. phase = "request" /\ current' = 0
  BY SentAhead
<1>2. /\ items \in Seq(Items) /\ Orderly(items) /\ Len(server) \in Nat /\ run \in Nat
      /\ DOMAIN server = 1 .. Len(server)
  BY GroundFacts
<1>3. Clean(items, Len(server) + 1, run)
  BY ItemsClean
<1>4. Clean(<< >>, Len(server) + 1, run)
  BY SetNone DEF Clean, Earlier, AskedBy
<1>5. ASSUME prev = 0
      PROVE  Clean(Joined(<< >>, Body(ReplaySafe(items))), Len(server) + 1, run)
  <2>1. PICK s : s = ReplaySafe(items)
    OBVIOUS
  <2>2. s \in Seq(Items) /\ ToSet(s) \subseteq ToSet(items) /\ Distinct(s)
    BY <1>2, <2>1, ReplayFacts DEF DistinctInv
  <2>3. Body(s) \in Seq(Items) /\ ToSet(Body(s)) \subseteq ToSet(items) /\ Distinct(Body(s))
    BY <2>2, BodyFacts
  <2>4. Clean(Body(s), Len(server) + 1, run)
    BY <1>3, <2>3, CleanLess
  <2>5. \A x : ~ In(<< >>, x)
    BY SetNone
  <2> QED
    BY <1>4, <2>1, <2>4, <2>5, CleanJoined
<1>6. ASSUME prev # 0
      PROVE  Clean(Joined(Knows(prev), Body(From(items, cursor))), Len(server) + 1, run)
  <2>1. cursor \in 0 .. Len(items) /\ prev \in 0 .. Len(server)
    BY DEF Ground, IInv, RestInv
  <2>2. prev \in DOMAIN server
    BY <1>2, <1>6, <2>1
  <2>3. Clean(Knows(prev), prev + 1, Heard)
    BY <2>2, KnowsClean
  <2>4. Clean(Knows(prev), Len(server) + 1, run)
    <3>1. Heard \in Nat /\ Heard <= run
      BY HeardFacts
    <3>2. prev + 1 \in Nat /\ Len(server) + 1 \in Nat /\ prev + 1 <= Len(server) + 1
      BY <1>2, <2>2
    <3> QED
      BY <1>2, <2>3, <3>1, <3>2, CleanLater
  <2>5. PICK s : s = From(items, cursor)
    OBVIOUS
  <2>6. s \in Seq(Items) /\ ToSet(s) \subseteq ToSet(items) /\ Distinct(s)
    BY <1>2, <2>1, <2>5, SetFrom, DistinctFrom DEF DistinctInv
  <2>7. /\ Body(s) \in Seq(Items) /\ ToSet(Body(s)) \subseteq ToSet(items) /\ Distinct(Body(s))
        /\ ToSet(Body(s)) \subseteq ToSet(s)
    BY <2>6, BodyFacts
  <2>8. Clean(Body(s), Len(server) + 1, run)
    BY <1>3, <2>7, CleanLess
  <2>9. \A x \in ToSet(Body(s)) : IsEssential(x) => ~ In(Knows(prev), x)
    BY <1>1, <1>6, <2>5, <2>7 DEF NewInv
  <2> QED
    BY <2>4, <2>5, <2>8, <2>9, CleanJoined
<1> QED
  BY <1>5, <1>6, SentAhead

\* As long as a stream goes on.
LEMMA StreamingMoves ==
  ASSUME ClientInv, ServerInv, [Next]_vars, phase = "stream", phase' = "stream"
  PROVE  current' = current \/ (current = 0 /\ current' = Len(server) + 1)
<1>1. emitted \in BOOLEAN
  BY DEF ClientInv
<1>2. Quiet \/ Consume => current' = current
  BY DEF Quiet, Consume, streamVars
<1>3. ~ Closing /\ ~ SendRequest
  BY DEF Closing, SendRequest
<1>4. Beginning => current = 0 /\ current' = Len(server) + 1
  BY DEF Beginning, ClientInv
<1>5. Repeating => current' = current
  BY DEF Repeating, ClientInv
<1>6. Failing \/ Ending \/ Delivering => current' = current
  BY DEF Failing, Ending, Delivering
<1>7. /\ \A payload : Sending(payload) => current' = current
      /\ \A chunk : Feeding(chunk) => current' = current
      /\ \A r : Completing(r) => current' = current
  BY DEF Sending, Feeding, Push, Completing, streamVars
<1> QED
  BY <1>1, <1>2, <1>3, <1>4, <1>5, <1>6, <1>7, StreamSteps, ProviderSteps, Zenon

LEMMA CurrentIsKnown ==
  ASSUME ClientInv', ServerInv', current' # 0
  PROVE  current' = Len(server') /\ current' \in DOMAIN server'
<1>1. current' = Len(server')
  BY DEF ClientInv
<1>2. PICK s : s = server' /\ s \in Seq(ToSet(s))
  BY DEF ServerInv
<1>3. DOMAIN s = 1 .. Len(s) /\ Len(s) \in Nat
  BY <1>2, LenProperties
<1> QED
  BY <1>1, <1>2, <1>3

LEMMA AheadStays ==
  ASSUME Ground, IInv', ContextInv, [Next]_vars, phase = "stream", phase' = "stream"
  PROVE  Ahead' = Ahead
<1>1. ClientInv /\ ServerInv /\ ClientInv' /\ ServerInv'
  BY DEF Ground, IInv
<1>2. DOMAIN server = 1 .. Len(server) /\ Len(server) \in Nat /\ current \in Nat
  BY GroundFacts
<1>3. request' = request /\ profile' = profile
  <2>1. ~ SendRequest
    BY DEF SendRequest
  <2> QED
    BY <1>1, <2>1, StreamGoesOn, ProfileKept
<1>4. current' = current \/ (current = 0 /\ current' = Len(server) + 1)
  BY <1>1, StreamingMoves
<1>5. CASE current' = current /\ current # 0
  <2>1. current \in DOMAIN server
    BY <1>1, <1>2, <1>5 DEF ClientInv
  <2>2. server'[current].context = server[current].context
    BY <1>1, <2>1, ServerMoves DEF Goes
  <2> QED
    BY <1>5, <2>2 DEF Ahead
<1>6. CASE current' = current /\ current = 0
  <2>1. PICK p, s : p = request.prev /\ s = request.items
    OBVIOUS
  <2>2. p \in 0 .. Len(server)
    BY <2>1 DEF ContextInv
  <2>3. p # 0 => Knows(p)' = Knows(p)
    <3> SUFFICES ASSUME p # 0
                 PROVE  Knows(p)' = Knows(p)
      OBVIOUS
    <3>1. p \in DOMAIN server
      BY <1>2, <2>2
    <3>2. server'[p].context = server[p].context /\ server'[p].out = server[p].out
      BY <1>1, <1>6, <3>1, ServerMoves DEF Goes
    <3> QED
      BY <3>2 DEF Knows
  <2>4. Body(s)' = Body(s)
    BY <1>3 DEF Body, Chat, Has
  <2>5. Resumes(p, s)' = Resumes(p, s)
    BY <2>3, <2>4 DEF Resumes
  <2>6. Ahead = Resumes(p, s)
    BY <1>6, <2>1 DEF Ahead
  <2>7. Ahead' = Resumes(p, s)'
    BY <1>3, <1>6, <2>1 DEF Ahead, Resumes, Body, Chat, Has, Knows
  <2> QED
    BY <2>5, <2>6, <2>7
<1>7. CASE current = 0 /\ current' = Len(server) + 1
  <2>1. current' # 0 /\ current' \notin DOMAIN server
    BY <1>2, <1>7
  <2>2. current' \in DOMAIN server'
    BY <1>1, <2>1, CurrentIsKnown
  <2>3. server'[current'] = Begun(request, Context(request))
    BY <1>1, <2>1, <2>2, NewResponse
  <2>4. server'[current'].context = Context(request)
    BY <2>3, BegunMore
  <2>5. Context(request) = Resumes(request.prev, request.items)
    BY DEF Context, Resumes, Joined, Knows
  <2>6. Ahead' = server'[current'].context
    BY <2>1 DEF Ahead
  <2> QED
    BY <1>7, <2>4, <2>5, <2>6 DEF Ahead
<1> QED
  BY <1>4, <1>5, <1>6, <1>7

LEMMA ContextStep ==
  ASSUME Ground, IInv', AskedInv, DistinctInv, ContextInv, NewInv, [Next]_vars
  PROVE  ContextInv'
<1>1. /\ ClientInv /\ ServerInv /\ EventInv /\ CallInv /\ ItemInv /\ RestInv
      /\ ClientInv' /\ ServerInv'
  BY DEF Ground, IInv
<1>2. /\ DOMAIN server = 1 .. Len(server) /\ Len(server) \in Nat /\ current \in Nat
      /\ run \in Nat /\ (phase # "idle" => run # 0)
  BY GroundFacts
<1>3. Heard \in Nat /\ Heard' \in Nat /\ Heard <= Heard' /\ (phase' # "begin" => Heard' = run')
      /\ (phase' = "stream" => run' = run)
  <2>1. Heard \in Nat /\ Heard <= run
    BY HeardFacts
  <2>2. CASE run' = run /\ phase' # "begin"
    BY <1>2, <2>1, <2>2 DEF Heard
  <2>3. CASE run' = run + 1 /\ phase = "idle" /\ phase' = "begin"
    BY <1>2, <2>1, <2>3 DEF Heard
  <2>4. CASE run' = run /\ phase' = "begin"
    <3>1. phase = "begin"
      <4>1. \A m : Submitting(m) => run' = run + 1
        BY DEF Submitting
      <4>2. \A n : Accepting(n) => phase' # "begin"
        BY DEF Accepting
      <4>3. \A c : Replying(c) => phase' # "begin"
        BY DEF Replying
      <4>4. Losing \/ Reloading \/ Concluding \/ Shrinking \/ Noting => phase' # "begin"
        BY DEF Losing, Reloading, Concluding, Shrinking, Noting
      <4>5. Resting \/ Recording => (phase' = "begin" => phase = "begin")
        BY DEF Resting, Recording
      <4>6. run' # run + 1
        BY <1>2, <2>4
      <4> QED
        BY <1>1, <2>4, <4>1, <4>2, <4>3, <4>4, <4>5, <4>6, Moves, Zenon
    <3> QED
      BY <2>1, <2>4, <3>1 DEF Heard
  <2> QED
    BY <1>1, <2>2, <2>3, <2>4, RunGrows
<1>4. ASSUME NEW r \in DOMAIN server'
      PROVE  Clean(server'[r].context, r, Heard')
  <2>1. CASE r \in DOMAIN server
    <3>1. server'[r].context = server[r].context
      BY <1>1, <2>1, ServerMoves DEF Goes
    <3>2. Clean(server[r].context, r, Heard)
      BY <2>1 DEF ContextInv
    <3>3. r \in Nat /\ r <= r
      BY <1>2, <2>1
    <3> QED
      BY <1>3, <3>1, <3>2, <3>3, CleanLater
  <2>2. CASE r \notin DOMAIN server
    <3>1. /\ r = Len(server) + 1 /\ current' = r /\ phase = "stream" /\ current = 0
          /\ server'[r] = Begun(request, Context(request)) /\ net = "sent"
      BY <1>1, <2>2, NewResponse
    <3>2. server'[r].context = Context(request)
      BY <3>1, BegunMore
    <3>3. Context(request) = Ahead
      BY <3>1 DEF Ahead, Context, Resumes, Joined, Knows
    <3>4. Clean(Ahead, Len(server) + 1, run)
      BY <3>1 DEF ContextInv
    <3>5. phase' = "stream"
      <4>1. r # 0
        BY <1>2, <3>1
      <4> QED
        BY <1>1, <3>1, <4>1 DEF ClientInv
    <3> QED
      BY <1>3, <3>1, <3>2, <3>3, <3>4, <3>5
  <2> QED
    BY <2>1, <2>2
<1>5. ASSUME phase' = "stream"
      PROVE  /\ request'.prev \in 0 .. Len(server') /\ (current' # 0 => request'.prev # current')
             /\ Clean(Ahead', IF current' = 0 THEN Len(server') + 1 ELSE current', run')
  <2>1. Len(server') \in Nat /\ Len(server) <= Len(server')
    BY <1>1, StreamMoves
  <2>2. CASE SendRequest
    <3>1. /\ current' = 0 /\ request'.prev = prev /\ run' = run /\ server' = server
      BY <2>2, SentAhead
    <3>2. Clean(Ahead', Len(server) + 1, run)
      BY <2>2, SentClean
    <3>3. prev \in 0 .. Len(server)
      BY <1>1 DEF RestInv
    <3> QED
      BY <3>1, <3>2, <3>3
  <2>3. CASE phase = "stream" /\ request' = request /\ run' = run
    <3>1. Ahead' = Ahead
      BY <1>5, <2>3, AheadStays
    <3>2. /\ request.prev \in 0 .. Len(server) /\ (current # 0 => request.prev # current)
          /\ Clean(Ahead, IF current = 0 THEN Len(server) + 1 ELSE current, run)
      BY <2>3 DEF ContextInv
    <3>3. request'.prev \in 0 .. Len(server')
      BY <1>2, <2>1, <2>3, <3>2
    <3>4. current' = current \/ (current = 0 /\ current' = Len(server) + 1)
      BY <1>1, <1>5, <2>3, StreamingMoves
    <3>5. current' # 0 => request'.prev # current'
      BY <1>2, <2>3, <3>2, <3>4
    <3>6. CASE current' = current /\ current # 0
      BY <2>3, <3>1, <3>2, <3>3, <3>5, <3>6
    <3>7. CASE current = 0 /\ current' = 0
      <4>1. Clean(Ahead, Len(server) + 1, run)
        BY <3>2, <3>7
      <4>2. Len(server) + 1 \in Nat /\ Len(server') + 1 \in Nat /\ Len(server) + 1 <= Len(server') + 1
        BY <1>2, <2>1
      <4>3. Clean(Ahead, Len(server') + 1, run)
        BY <1>2, <4>1, <4>2, CleanLater
      <4> QED
        BY <2>3, <3>1, <3>3, <3>5, <3>7, <4>3
    <3>8. CASE current = 0 /\ current' = Len(server) + 1
      <4>1. current' # 0
        BY <1>2, <3>8
      <4> QED
        BY <2>3, <3>1, <3>2, <3>3, <3>5, <3>8, <4>1
    <3> QED
      BY <3>4, <3>6, <3>7, <3>8
  <2> QED
    BY <1>5, <2>2, <2>3, StreamGoesOn
<1> QED
  BY <1>4, <1>5 DEF ContextInv

\* During a stream nothing that matters is added to the items.
LEMMA StreamItems ==
  ASSUME Ground, [Next]_vars, phase = "stream", phase' = "stream"
  PROVE  /\ ToSet(items) \subseteq ToSet(items')
         /\ \A x \in ToSet(items') : IsEssential(x) => x \in ToSet(items)
<1>1. /\ ClientInv /\ ServerInv /\ EventInv /\ CallInv /\ ItemInv /\ RestInv
  BY DEF Ground, IInv
<1>2. items \in Seq(Items)
  BY GroundFacts
<1>3. \A m : ~ Submitting(m)
  BY DEF Submitting
<1>4. \A n : ~ Accepting(n)
  BY DEF Accepting
<1>5. \A c : ~ Replying(c)
  BY DEF Replying
<1>6. ~ Losing /\ ~ Reloading /\ ~ Concluding /\ ~ Shrinking
  BY DEF Losing, Reloading, Concluding, Shrinking
<1>7. CASE Resting \/ Recording
  BY <1>7 DEF Resting, Recording, sessionItems
<1>8. CASE Noting
  <2>1. PICK m \in Seq(Items) : /\ \A x \in ToSet(m) : ~ IsEssential(x)
                                /\ items' = Joined(items, m)
    BY <1>8 DEF Noting
  <2>2. ToSet(Joined(items, m)) = ToSet(items) \cup ToSet(m)
    BY <1>2, SetJoined
  <2> QED
    BY <2>1, <2>2
<1> QED
  BY <1>1, <1>3, <1>4, <1>5, <1>6, <1>7, <1>8, Moves, Zenon

LEMMA LocalStep ==
  ASSUME Ground, LocalInv, [Next]_vars
  PROVE  LocalInv'
<1> SUFFICES ASSUME phase' = "stream"
             PROVE  /\ ToSet(request'.local) \subseteq ToSet(items')
                    /\ \A x \in ToSet(items') :
                         IsEssential(x) /\ Partners(ToSet(items'), x) => x \in ToSet(request'.local)
  BY DEF LocalInv
<1>1. CASE SendRequest
  <2>1. request'.local = ReplaySafe(items) /\ items' = items
    BY <1>1, SentAhead
  <2>2. items \in Seq(Items) /\ Orderly(items)
    BY GroundFacts
  <2>3. /\ ToSet(ReplaySafe(items)) \subseteq ToSet(items)
        /\ \A x \in ToSet(items) : Partners(ToSet(items), x) => x \in ToSet(ReplaySafe(items))
    BY <2>2, ReplayFacts
  <2> QED
    BY <2>1, <2>3
<1>2. CASE phase = "stream" /\ request' = request
  <2>1. /\ ToSet(items) \subseteq ToSet(items')
        /\ \A x \in ToSet(items') : IsEssential(x) => x \in ToSet(items)
    BY <1>2, StreamItems
  <2>2. \A x \in ToSet(items') : Partners(ToSet(items'), x) => Partners(ToSet(items), x)
    BY <2>1 DEF Partners, IsEssential
  <2>3. /\ ToSet(request.local) \subseteq ToSet(items)
        /\ \A x \in ToSet(items) :
             IsEssential(x) /\ Partners(ToSet(items), x) => x \in ToSet(request.local)
    BY <1>2 DEF LocalInv
  <2> QED
    BY <1>2, <2>1, <2>2, <2>3
<1> QED
  BY <1>1, <1>2, StreamGoesOn

-----------------------------------------------------------------------------
(* What the conversation, the rows and the items have of each other *)

\* All that matters of the conversation and the rows is in what is worked with,
\* what has been cut off and the runs without an answer excepted; what is
\* worked with is the conversation and what the run added.
WithinInv ==
  /\ \A x \in ToSet(rows) \cup ToSet(conversation) : Lasting(x) => x \in ToSet(Working)
  /\ \A x \in ToSet(rows) :
       Lasting(x) /\ (phase # "idle" => RunOf(x) # run) => x \in ToSet(conversation)
  /\ \A x \in ToSet(Working) : IsEssential(x) => x \in ToSet(conversation) \/ RunOf(x) = run

LEMMA RunOfFacts ==
  ASSUME Ground, AskedInv, NEW x \in ToSet(conversation) \cup ToSet(rows) \cup ToSet(items)
  PROVE  IsKnown(x) /\ (IsEssential(x) => RunOf(x) \in 1 .. run)
<1>1. ServerInv /\ ItemInv
  BY DEF Ground, IInv
<1>2. IsKnown(x)
  BY <1>1, AllKnown
<1>3. x.k \in {"user", "file"} => x.of \in 1 .. run
  BY DEF AskedInv, AskedBy
<1>4. OfResponse(x) => server[x.of].run \in 1 .. run
  BY <1>2 DEF AskedInv, IsKnown
<1> QED
  BY <1>2, <1>3, <1>4 DEF IsEssential, RunOf, OfResponse

\* The run adds the same to its items and to the rows.
LEMMA WithinAdded ==
  ASSUME Ground, AskedInv, WithinInv, [Next]_vars, phase # "idle", phase' # "idle",
         conversation' = conversation, run' = run,
         NEW M, NEW N, ToSet(items') = ToSet(items) \cup M, ToSet(rows') = ToSet(rows) \cup N,
         \A x \in N : IsEssential(x) => x \in M,
         \A x \in M : IsEssential(x) => RunOf(x)' = run
  PROVE  WithinInv'
<1>1. ClientInv /\ ServerInv
  BY DEF Ground, IInv
<1>2. \A x \in ToSet(conversation) \cup ToSet(rows) \cup ToSet(items) :
        (Lasting(x)' => Lasting(x)) /\ RunOf(x)' = RunOf(x)
  BY <1>1, RunOfFacts, OldStays
<1>3. Working' = items' /\ Working = items
  BY DEF Working
<1>4. ASSUME NEW x \in ToSet(rows') \cup ToSet(conversation'), Lasting(x)'
      PROVE  x \in ToSet(items')
  <2>1. IsEssential(x)
    BY <1>4 DEF Lasting
  <2>2. CASE x \in N
    BY <2>1, <2>2
  <2>3. CASE x \in ToSet(rows) \cup ToSet(conversation)
    <3>1. Lasting(x)
      BY <1>2, <1>4, <2>3
    <3> QED
      BY <1>3, <2>3, <3>1 DEF WithinInv
  <2> QED
    BY <1>4, <2>2, <2>3
<1>5. ASSUME NEW x \in ToSet(rows'), Lasting(x)', RunOf(x)' # run'
      PROVE  x \in ToSet(conversation')
  <2>1. IsEssential(x)
    BY <1>5 DEF Lasting
  <2>2. x \in ToSet(rows)
    BY <1>5, <2>1
  <2>3. Lasting(x) /\ RunOf(x) # run
    BY <1>2, <1>5, <2>2
  <2> QED
    BY <2>2, <2>3 DEF WithinInv
<1>6. ASSUME NEW x \in ToSet(items'), IsEssential(x)
      PROVE  x \in ToSet(conversation') \/ RunOf(x)' = run'
  <2>1. CASE x \in M
    BY <1>6, <2>1
  <2>2. CASE x \in ToSet(items)
    <3>1. x \in ToSet(conversation) \/ RunOf(x) = run
      BY <1>3, <1>6, <2>2 DEF WithinInv
    <3> QED
      BY <1>2, <2>2, <3>1
  <2> QED
    BY <1>6, <2>1, <2>2
<1> QED
  BY <1>3, <1>4, <1>5, <1>6 DEF WithinInv

LEMMA WithinStep ==
  ASSUME Ground, AskedInv, WithinInv, [Next]_vars
  PROVE  WithinInv'
<1>1. /\ ClientInv /\ ServerInv /\ EventInv /\ NumberInv /\ CallInv /\ ItemInv /\ RestInv
      /\ IdInv /\ NamedInv
  BY DEF Ground, IInv
<1>2. /\ conversation \in Seq(Items) /\ rows \in Seq(Items) /\ items \in Seq(Items)
      /\ run \in Nat /\ current \in Nat /\ IsAnswer(collector)
  BY GroundFacts
<1>3. \A x \in ToSet(conversation) \cup ToSet(rows) \cup ToSet(items) :
        /\ Lasting(x)' => Lasting(x)
        /\ RunOf(x)' = RunOf(x)
        /\ IsEssential(x) => RunOf(x) \in 1 .. run
  BY <1>1, RunOfFacts, OldStays
<1>4. \A x \in ToSet(rows) \cup ToSet(conversation) : Lasting(x) => x \in ToSet(Working)
  BY DEF WithinInv
<1>5. \A x \in ToSet(rows) :
        Lasting(x) /\ (phase # "idle" => RunOf(x) # run) => x \in ToSet(conversation)
  BY DEF WithinInv
<1>6. \A x \in ToSet(Working) : IsEssential(x) => x \in ToSet(conversation) \/ RunOf(x) = run
  BY DEF WithinInv
<1>7. \A x : Lasting(x)' => IsEssential(x)
  BY DEF Lasting
<1> DEFINE Goal == WithinInv'
<1> SUFFICES Goal
  OBVIOUS
<1>8. CASE Resting
  <2>1. /\ UNCHANGED <<conversation, rows, items, run>>
        /\ phase = "idle" <=> phase' = "idle"
    BY <1>8 DEF Resting, sessionItems, runHistory
  <2>2. Working' = Working
    BY <2>1 DEF Working
  <2>3. \A x \in ToSet(Working) : x \in ToSet(conversation) \cup ToSet(items)
    BY DEF Working
  <2> QED
    BY <1>3, <1>4, <1>5, <1>6, <2>1, <2>2, <2>3 DEF WithinInv
<1>9. CASE Losing
  <2>1. /\ phase # "idle" /\ phase' = "idle" /\ unanswered' = unanswered \cup {run}
        /\ UNCHANGED <<conversation, rows, run>>
    BY <1>9 DEF Losing
  <2>2. Working' = conversation
    BY <2>1 DEF Working
  <2>3. ASSUME NEW x \in ToSet(rows), Lasting(x)'
        PROVE  x \in ToSet(conversation)
    <3>1. RunOf(x)' # run
      BY <2>1, <2>3 DEF Lasting
    <3> QED
      BY <1>3, <1>5, <2>3, <3>1
  <2> QED
    BY <2>1, <2>2, <2>3 DEF WithinInv
<1>10. CASE Reloading
  <2>1. phase' = "idle" /\ conversation' = rows /\ rows' = rows
    BY <1>10 DEF Reloading
  <2>2. Working' = rows
    BY <2>1 DEF Working
  <2> QED
    BY <2>1, <2>2 DEF WithinInv
<1>11. CASE Concluding
  <2>1. /\ conversation' = Joined(items, Answer) /\ rows' = Joined(rows, Answer)
        /\ phase = "stream" /\ phase' = "idle"
    BY <1>11 DEF Concluding
  <2>2. Answer \in Seq(Items)
    BY <1>2, AnswerOnce
  <2>3. /\ ToSet(conversation') = ToSet(items) \cup ToSet(Answer)
        /\ ToSet(rows') = ToSet(rows) \cup ToSet(Answer)
    BY <1>2, <2>1, <2>2, SetJoined
  <2>4. Working' = conversation' /\ Working = items
    BY <2>1 DEF Working
  <2>5. \A x \in ToSet(rows') : Lasting(x)' => x \in ToSet(conversation')
    BY <1>3, <1>4, <2>3, <2>4
  <2> QED
    BY <2>4, <2>5 DEF WithinInv
<1>12. CASE Shrinking
  <2>1. PICK x, b : Shortened(x, b)
    BY <1>12 DEF Shrinking
  <2>2. /\ x \in Items /\ ~ IsEssential(x)
        /\ b \in 0 .. Len(items) /\ items' = Joined(<<x>>, From(items, b))
        /\ rows' = rows \/ \E c \in 0 .. Len(rows) : rows' = Joined(From(rows, c), <<x>>)
        /\ cut' = cut \cup (ToSet(items) \ ToSet(items'))
    BY <2>1 DEF Shortened, IsEssential
  <2>3. /\ phase # "idle" /\ phase' # "idle"
        /\ conversation' = conversation /\ run' = run
    BY <1>12 DEF Shrinking
  <2>4. PICK q : q = <<x>>
    OBVIOUS
  <2>5. q \in Seq(Items) /\ ToSet(q) = {x}
    BY <1>2, <2>2, <2>4, SetAppended
  <2>6. ToSet(items') \subseteq ToSet(items) \cup {x}
    <3>1. From(items, b) \in Seq(Items) /\ ToSet(From(items, b)) \subseteq ToSet(items)
      BY <1>2, <2>2, SetFrom
    <3>2. ToSet(Joined(q, From(items, b))) = ToSet(q) \cup ToSet(From(items, b))
      BY <2>5, <3>1, SetJoined
    <3> QED
      BY <2>2, <2>4, <2>5, <3>1, <3>2
  <2>7. ToSet(rows') \subseteq ToSet(rows) \cup {x}
    <3>1. ASSUME NEW c \in 0 .. Len(rows), rows' = Joined(From(rows, c), q)
          PROVE  ToSet(rows') \subseteq ToSet(rows) \cup {x}
      <4>1. From(rows, c) \in Seq(Items) /\ ToSet(From(rows, c)) \subseteq ToSet(rows)
        BY <1>2, SetFrom
      <4>2. ToSet(Joined(From(rows, c), q)) = ToSet(From(rows, c)) \cup ToSet(q)
        BY <2>5, <4>1, SetJoined
      <4> QED
        BY <2>5, <3>1, <4>1, <4>2
    <3> QED
      BY <2>2, <2>4, <3>1
  <2>8. Working' = items' /\ Working = items
    BY <2>3 DEF Working
  <2>9. ASSUME NEW y \in ToSet(rows') \cup ToSet(conversation'), Lasting(y)'
        PROVE  y \in ToSet(items')
    <3>1. y \in ToSet(rows) \cup ToSet(conversation)
      BY <1>7, <2>2, <2>3, <2>7, <2>9
    <3>2. y \in ToSet(items)
      BY <1>3, <1>4, <2>8, <2>9, <3>1
    <3>3. y \notin cut'
      BY <2>9 DEF Lasting
    <3> QED
      BY <2>2, <3>2, <3>3
  <2>10. ASSUME NEW y \in ToSet(rows'), Lasting(y)', RunOf(y)' # run'
         PROVE  y \in ToSet(conversation')
    <3>1. y \in ToSet(rows)
      BY <1>7, <2>2, <2>7, <2>10
    <3> QED
      BY <1>3, <1>5, <2>3, <2>10, <3>1
  <2>11. ASSUME NEW y \in ToSet(items'), IsEssential(y)
         PROVE  y \in ToSet(conversation') \/ RunOf(y)' = run'
    <3>1. y \in ToSet(items)
      BY <2>2, <2>6, <2>11
    <3> QED
      BY <1>3, <1>6, <2>3, <2>8, <2>11, <3>1
  <2> QED
    BY <2>3, <2>8, <2>9, <2>10, <2>11 DEF WithinInv
<1>13. CASE Noting
  <2>1. PICK m, n \in Seq(Items) :
          /\ \A x \in ToSet(m) \cup ToSet(n) : ~ IsEssential(x)
          /\ items' = Joined(items, m) /\ rows' = Joined(rows, n)
    BY <1>13 DEF Noting
  <2>2. conversation' = conversation /\ run' = run /\ phase # "idle" /\ phase' # "idle"
    BY <1>13 DEF Noting, runHistory
  <2>3. PICK M, N : M = ToSet(m) /\ N = ToSet(n)
    OBVIOUS
  <2>4. ToSet(items') = ToSet(items) \cup M /\ ToSet(rows') = ToSet(rows) \cup N
    BY <1>2, <2>1, <2>3, SetJoined
  <2>5. (\A x \in N : IsEssential(x) => x \in M) /\ (\A x \in M : IsEssential(x) => RunOf(x)' = run)
    BY <2>1, <2>3
  <2> QED
    BY <2>2, <2>4, <2>5, WithinAdded
<1>14. ASSUME NEW m, Submitting(m)
       PROVE  Goal
  <2>1. /\ conversation' = Joined(conversation, m) /\ rows' = Joined(rows, m)
        /\ items' = conversation' /\ run' = run + 1 /\ Message(m, run')
        /\ phase = "idle" /\ phase' # "idle"
    BY <1>14 DEF Submitting
  <2>2. run' \in Nat
    BY <1>2, <2>1
  <2>3. m \in Seq(Items)
    BY <2>1, <2>2, MessageFacts
  <2>4. /\ ToSet(conversation') = ToSet(conversation) \cup ToSet(m)
        /\ ToSet(rows') = ToSet(rows) \cup ToSet(m)
    BY <1>2, <2>1, <2>3, SetJoined
  <2>5. Working' = conversation' /\ Working = conversation
    BY <2>1 DEF Working
  <2>6. ASSUME NEW x \in ToSet(rows'), Lasting(x)'
        PROVE  x \in ToSet(conversation')
    BY <1>3, <1>4, <2>4, <2>5, <2>6
  <2> QED
    BY <2>5, <2>6 DEF WithinInv
<1>15. ASSUME NEW next, Accepting(next)
       PROVE  Goal
  <2>1. /\ items' = Joined(items, AddedBy(next)) /\ rows' = Joined(rows, AddedBy(next))
        /\ conversation' = conversation /\ run' = run /\ server' = server
        /\ phase = "stream" /\ phase' # "idle" /\ phase # "idle"
    BY <1>15 DEF Accepting, runHistory
  <2>2. /\ next \in Seq(CallEvents) /\ ToldApart(next, {})
        /\ \A j \in DOMAIN next : next[j].of = current
        /\ current \in DOMAIN server /\ current \in Nat \ {0}
    BY <1>1, <1>15, AcceptedFacts
  <2>3. PICK a : a = AddedBy(next)
    OBVIOUS
  <2>4. /\ a \in Seq(Items)
        /\ \A x \in ToSet(a) : x.k \in {"thinking", "text", "call"} /\ x.of = current
    BY <1>2, <2>2, <2>3, AddedOnce
  <2>5. PICK M : M = ToSet(a)
    OBVIOUS
  <2>6. ToSet(items') = ToSet(items) \cup M /\ ToSet(rows') = ToSet(rows) \cup M
    BY <1>2, <2>1, <2>3, <2>4, <2>5, SetJoined
  <2>7. server[current].run = run
    BY <2>1, <2>2 DEF AskedInv
  <2>8. ASSUME NEW x \in M, IsEssential(x)
        PROVE  RunOf(x)' = run
    <3>1. x.k \in {"text", "call"} /\ x.of = current
      BY <2>4, <2>5, <2>8 DEF IsEssential
    <3>2. RunOf(x)' = server'[current].run
      BY <3>1 DEF RunOf
    <3> QED
      BY <2>1, <2>7, <3>2
  <2> QED
    BY <2>1, <2>6, <2>8, WithinAdded
<1>16. ASSUME NEW c, Replying(c)
       PROVE  Goal
  <2>1. /\ items' = Append(items, OutputOf(c)) /\ rows' = Append(rows, OutputOf(c))
        /\ conversation' = conversation /\ run' = run /\ server' = server
        /\ phase # "idle" /\ phase' # "idle" /\ c \in Waiting /\ c \in CallEvents
    BY <1>16 DEF Replying, runHistory
  <2>2. PICK x : x = OutputOf(c)
    OBVIOUS
  <2>3. x \in Items /\ x.k = "output" /\ x.of = c.of
    BY <2>1, <2>2 DEF OutputOf, Item, Items, Kinds, CallEvents
  <2>4. PICK M : M = {x}
    OBVIOUS
  <2>5. ToSet(items') = ToSet(items) \cup M /\ ToSet(rows') = ToSet(rows) \cup M
    BY <1>2, <2>1, <2>2, <2>3, <2>4, SetAppended
  <2>6. server[c.of].run = run
    BY <2>1 DEF AskedInv
  <2>7. RunOf(x)' = run
    <3>1. RunOf(x)' = server'[c.of].run
      BY <2>3 DEF RunOf
    <3> QED
      BY <2>1, <2>6, <3>1
  <2>8. ASSUME NEW y \in M
        PROVE  RunOf(y)' = run
    <3>1. y = x
      BY <2>4
    <3> QED
      BY <2>7, <3>1
  <2> QED
    BY <2>1, <2>5, <2>8, WithinAdded
<1>17. CASE Recording
  <2>1. PICK M : /\ \A x \in M : ~ IsEssential(x)
                 /\ ToSet(conversation') = ToSet(conversation) \cup M
                 /\ ToSet(rows') = ToSet(rows) \cup M
    BY <1>2, <1>17, RecordedSets
  <2>2. items' = items /\ run' = run /\ phase' = phase
    BY <1>17 DEF Recording, runHistory
  <2>3. ToSet(Working) \subseteq ToSet(Working')
    BY <2>1, <2>2 DEF Working
  <2>4. ToSet(Working') \subseteq ToSet(Working) \cup M
    BY <2>1, <2>2 DEF Working
  <2>5. ToSet(Working) \subseteq ToSet(conversation) \cup ToSet(items)
    BY DEF Working
  <2>6. ASSUME NEW x \in ToSet(rows') \cup ToSet(conversation'), Lasting(x)'
        PROVE  x \in ToSet(Working')
    <3>1. x \in ToSet(rows) \cup ToSet(conversation)
      BY <1>7, <2>1, <2>6
    <3> QED
      BY <1>3, <1>4, <2>3, <2>6, <3>1
  <2>7. ASSUME NEW x \in ToSet(rows'), Lasting(x)', phase' # "idle" => RunOf(x)' # run'
        PROVE  x \in ToSet(conversation')
    <3>1. x \in ToSet(rows)
      BY <1>7, <2>1, <2>7
    <3>2. x \in ToSet(conversation)
      BY <1>3, <1>5, <2>2, <2>7, <3>1
    <3> QED
      BY <2>1, <3>2
  <2>8. ASSUME NEW x \in ToSet(Working'), IsEssential(x)
        PROVE  x \in ToSet(conversation') \/ RunOf(x)' = run'
    <3>1. x \in ToSet(Working)
      BY <2>1, <2>4, <2>8
    <3>2. x \in ToSet(conversation) \/ RunOf(x) = run
      BY <1>6, <2>8, <3>1
    <3>3. RunOf(x)' = RunOf(x)
      BY <1>3, <2>5, <3>1
    <3> QED
      BY <2>1, <2>2, <3>2, <3>3
  <2> QED
    BY <2>6, <2>7, <2>8 DEF WithinInv
<1> QED
  BY <1>1, <1>8, <1>9, <1>10, <1>11, <1>12, <1>13, <1>14, <1>15, <1>16, <1>17, Moves, Zenon

-----------------------------------------------------------------------------
(* Where the last message of the user is *)

\* The items end with the message of this run and the files it names.
Asks(s, m) ==
  /\ m \in DOMAIN s /\ s[m].k = "user" /\ Len(s) <= m + 1
  /\ \A i \in DOMAIN s : i < m /\ IsEssential(s[i]) => RunOf(s[i]) # run
  /\ \A i \in DOMAIN s : i >= m => s[i].k \in {"user", "file"} /\ s[i].of = run
  /\ \A i \in DOMAIN s : i > m => s[i].k = "file"
EndsAsking(s) == \E m \in DOMAIN s : Asks(s, m)

BeginInv == phase = "begin" => EndsAsking(items)

\* What is of this run, and nothing else, is behind c.
LatestFrom(s, c) ==
  \A i \in DOMAIN s :
    IsEssential(s[i]) => IF i <= c THEN RunOf(s[i]) # run
                         ELSE s[i].k \in {"user", "file"} /\ s[i].of = run

LEMMA CursorFinds ==
  ASSUME NEW s \in Seq(Items), NEW m \in DOMAIN s, s[m].k = "user",
         \A i \in DOMAIN s : i > m => s[i].k # "user"
  PROVE  IncrementalCursor(s) = m - 1
<1> DEFINE U == IsUser(s)
<1>1. Len(s) \in Nat /\ DOMAIN s = 1 .. Len(s)
  BY LenProperties
<1>2. m \in U /\ U \subseteq 0 .. Len(s) /\ \A i \in U : i <= m
  BY <1>1 DEF IsUser
<1>3. IncrementalCursor(s) = IF U = {} THEN Minus(Len(s), 1) ELSE Max(U) - 1
  BY DEF IncrementalCursor
<1> HIDE DEF U
<1>4. Max(U) \in U /\ \A i \in U : i <= Max(U)
  BY <1>1, <1>2, MaxFacts
<1>5. PICK p : p = Max(U)
  OBVIOUS
<1>6. p \in Nat /\ p <= m /\ m <= p /\ m \in Nat
  BY <1>1, <1>2, <1>4, <1>5
<1>7. p = m
  BY <1>6
<1> QED
  BY <1>2, <1>3, <1>5, <1>7

LEMMA CursorNone ==
  ASSUME NEW s \in Seq(Items), \A i \in DOMAIN s : s[i].k # "user"
  PROVE  IncrementalCursor(s) = Minus(Len(s), 1)
<1>1. IsUser(s) = {}
  BY DEF IsUser
<1> QED
  BY <1>1 DEF IncrementalCursor

\* incremental_request_cursor finds it, ...
LEMMA AskingFound ==
  ASSUME NEW s \in Seq(Items), EndsAsking(s)
  PROVE  LatestFrom(s, IncrementalCursor(s))
<1>1. PICK m \in DOMAIN s : Asks(s, m)
  BY DEF EndsAsking
<1>2. Len(s) \in Nat /\ DOMAIN s = 1 .. Len(s)
  BY LenProperties
<1>3. IncrementalCursor(s) = m - 1
  <2>1. s[m].k = "user" /\ \A i \in DOMAIN s : i > m => s[i].k # "user"
    BY <1>1 DEF Asks
  <2> QED
    BY <2>1, CursorFinds
<1>4. ASSUME NEW i \in DOMAIN s, IsEssential(s[i])
      PROVE  IF i <= m - 1 THEN RunOf(s[i]) # run
             ELSE s[i].k \in {"user", "file"} /\ s[i].of = run
  <2>1. i <= m - 1 <=> i < m
    BY <1>2
  <2>2. i <= m - 1 \/ i >= m
    BY <1>2
  <2> QED
    BY <1>1, <1>4, <2>1, <2>2 DEF Asks
<1> QED
  BY <1>3, <1>4 DEF LatestFrom

\* ... also when something has been cut off in front of it, or with it.
LEMMA AskingFoundBehind ==
  ASSUME NEW s \in Seq(Items), EndsAsking(s), NEW b \in 0 .. Len(s),
         NEW x \in Items, ~ IsEssential(x), NEW t, t = Joined(<<x>>, From(s, b))
  PROVE  LatestFrom(t, IncrementalCursor(t))
<1>1. PICK m \in DOMAIN s : Asks(s, m)
  BY DEF EndsAsking
<1>2. Len(s) \in Nat /\ DOMAIN s = 1 .. Len(s) /\ b \in Nat /\ m \in Nat /\ m >= 1
  BY LenProperties
<1>3. /\ From(s, b) \in Seq(Items) /\ Len(From(s, b)) = Len(s) - b
      /\ \A i \in 1 .. Len(s) - b : From(s, b)[i] = s[b + i]
  BY FromFacts
<1>4. PICK q, r : q = <<x>> /\ r = From(s, b)
  OBVIOUS
<1>5. q \in Seq(Items) /\ Len(q) = 1 /\ q[1] = x
  BY <1>4
<1>6. /\ t \in Seq(Items) /\ Len(t) = 1 + (Len(s) - b) /\ DOMAIN t = 1 .. 1 + (Len(s) - b)
      /\ t[1] = x /\ \A i \in 1 .. Len(s) - b : t[1 + i] = s[b + i]
  <2>1. /\ q \o r \in Seq(Items) /\ Len(q \o r) = Len(q) + Len(r)
        /\ DOMAIN (q \o r) = 1 .. Len(q) + Len(r)
        /\ \A i \in 1 .. Len(q) : (q \o r)[i] = q[i]
        /\ \A i \in 1 .. Len(r) : (q \o r)[Len(q) + i] = r[i]
    BY <1>3, <1>4, <1>5, ConcatFacts
  <2>2. t = q \o r
    BY <1>4 DEF Joined
  <2>3. Len(r) = Len(s) - b /\ \A i \in 1 .. Len(s) - b : r[i] = s[b + i]
    BY <1>3, <1>4
  <2>4. t[1] = x
    <3>1. 1 \in 1 .. Len(q)
      BY <1>5
    <3> QED
      BY <1>5, <2>1, <2>2, <3>1
  <2>5. t \in Seq(Items) /\ Len(t) = 1 + (Len(s) - b) /\ DOMAIN t = 1 .. 1 + (Len(s) - b)
    BY <1>5, <2>1, <2>2, <2>3
  <2>6. ASSUME NEW i \in 1 .. Len(s) - b
        PROVE  t[1 + i] = s[b + i]
    <3>1. t[Len(q) + i] = r[i] /\ r[i] = s[b + i]
      BY <2>1, <2>2, <2>3
    <3> QED
      BY <1>5, <3>1
  <2> QED
    BY <2>4, <2>5, <2>6
<1>7. ASSUME NEW i \in DOMAIN t, i # 1
      PROVE  b + i - 1 \in DOMAIN s /\ t[i] = s[b + i - 1]
  <2>1. i - 1 \in 1 .. Len(s) - b /\ 1 + (i - 1) = i /\ b + (i - 1) = b + i - 1
    BY <1>2, <1>6, <1>7
  <2>2. b + i - 1 \in 1 .. Len(s)
    BY <1>2, <2>1
  <2> QED
    BY <1>2, <1>6, <2>1, <2>2
<1>8. x.k # "user"
  BY DEF IsEssential
<1>9. CASE b < m
  <2> DEFINE p == 1 + m - b
  <2>1. p \in DOMAIN t /\ p # 1 /\ b + p - 1 = m
    BY <1>1, <1>2, <1>6, <1>9
  <2>2. t[p].k = "user"
    <3>1. t[p] = s[b + p - 1]
      BY <1>7, <2>1
    <3> QED
      BY <1>1, <2>1, <3>1 DEF Asks
  <2>3. ASSUME NEW i \in DOMAIN t, i > p
        PROVE  t[i].k # "user"
    <3>1. i # 1 /\ b + i - 1 > m
      BY <1>2, <1>6, <1>9, <2>3
    <3>2. b + i - 1 \in DOMAIN s /\ t[i] = s[b + i - 1]
      BY <1>7, <3>1
    <3> QED
      BY <1>1, <3>1, <3>2 DEF Asks
  <2>4. IncrementalCursor(t) = m - b
    <3>1. p - 1 = m - b
      BY <1>2
    <3> HIDE DEF p
    <3> QED
      BY <1>6, <2>1, <2>2, <2>3, <3>1, CursorFinds
  <2>5. ASSUME NEW i \in DOMAIN t, IsEssential(t[i])
        PROVE  IF i <= m - b THEN RunOf(t[i]) # run
               ELSE t[i].k \in {"user", "file"} /\ t[i].of = run
    <3>1. i # 1
      BY <1>6, <2>5
    <3>2. b + i - 1 \in DOMAIN s /\ t[i] = s[b + i - 1]
      BY <1>7, <3>1
    <3>3. IF i <= m - b THEN b + i - 1 < m ELSE b + i - 1 >= m
      BY <1>2, <1>6
    <3> QED
      BY <1>1, <2>5, <3>2, <3>3 DEF Asks
  <2> QED
    BY <2>4, <2>5 DEF LatestFrom
<1>10. CASE b >= m
  <2>1. ASSUME NEW i \in DOMAIN t, i # 1
        PROVE  t[i].k = "file" /\ t[i].of = run
    <3>1. b + i - 1 > m /\ b + i - 1 >= m
      BY <1>2, <1>6, <1>10, <2>1
    <3>2. b + i - 1 \in DOMAIN s /\ t[i] = s[b + i - 1]
      BY <1>7, <2>1
    <3> QED
      BY <1>1, <3>1, <3>2 DEF Asks
  <2>2. \A i \in DOMAIN t : t[i].k # "user"
    BY <1>6, <1>8, <2>1
  <2>3. IncrementalCursor(t) = Minus(Len(t), 1)
    BY <1>6, <2>2, CursorNone
  <2>4. Minus(Len(t), 1) = Len(s) - b
    <3>1. PICK k, n : k = Len(t) /\ n = Len(s)
      OBVIOUS
    <3>2. k = 1 + (n - b) /\ n \in Nat /\ b \in 0 .. n
      BY <1>2, <1>6, <3>1
    <3>3. Minus(k, 1) = n - b
      BY <3>2 DEF Minus
    <3> QED
      BY <3>1, <3>3
  <2>5. Len(s) <= b + 1
    <3>1. Len(s) <= m + 1
      BY <1>1 DEF Asks
    <3> QED
      BY <1>2, <1>10, <3>1
  <2>6. ASSUME NEW i \in DOMAIN t, IsEssential(t[i])
        PROVE  IF i <= Len(s) - b THEN RunOf(t[i]) # run
               ELSE t[i].k \in {"user", "file"} /\ t[i].of = run
    <3>1. i # 1
      BY <1>6, <2>6
    <3>2. ~ (i <= Len(s) - b)
      BY <1>2, <1>6, <2>5, <3>1
    <3> QED
      BY <2>1, <3>1, <3>2
  <2> QED
    BY <2>3, <2>4, <2>6 DEF LatestFrom
<1> QED
  BY <1>2, <1>9, <1>10

LEMMA MessageEnds ==
  ASSUME NEW n \in Nat, NEW m, Message(m, n)
  PROVE  /\ m \in Seq(Items) /\ Len(m) \in {1, 2}
         /\ \A i \in DOMAIN m : m[i].of = n /\ m[i].k = IF i = 1 THEN "user" ELSE "file"
<1> DEFINE x == Item("user", n, 0, "none")
           y == Item("file", n, 0, "none")
<1>1. /\ x \in Items /\ y \in Items
      /\ x.k = "user" /\ x.of = n /\ y.k = "file" /\ y.of = n
  BY DEF Item, Items, Kinds, Nothing
<1>2. m = <<x>> \/ m = <<x>> \o <<y>>
  BY DEF Message, Joined
<1> HIDE DEF x, y
<1>3. PICK p, q : p = <<x>> /\ q = <<y>>
  OBVIOUS
<1>4. p \in Seq(Items) /\ q \in Seq(Items) /\ Len(p) = 1 /\ Len(q) = 1 /\ p[1] = x /\ q[1] = y
  BY <1>1, <1>3
<1>5. CASE m = p
  <2>1. DOMAIN p = 1 .. 1
    BY <1>4, LenProperties
  <2> QED
    BY <1>1, <1>4, <1>5, <2>1
<1>6. CASE m = p \o q
  <2>1. /\ m \in Seq(Items) /\ Len(m) = 1 + 1 /\ DOMAIN m = 1 .. 1 + 1
        /\ m[1] = p[1] /\ m[2] = q[1]
    <3>1. /\ p \o q \in Seq(Items) /\ Len(p \o q) = Len(p) + Len(q)
          /\ DOMAIN (p \o q) = 1 .. Len(p) + Len(q)
          /\ \A i \in 1 .. Len(p) : (p \o q)[i] = p[i]
          /\ \A i \in Len(p) + 1 .. Len(p) + Len(q) : (p \o q)[i] = q[i - Len(p)]
      <4>1. p \in Seq(Items) /\ q \in Seq(Items)
        BY <1>4
      <4> QED
        BY <4>1, ConcatFacts
    <3>2. 1 \in 1 .. Len(p) /\ 2 \in Len(p) + 1 .. Len(p) + Len(q) /\ 2 - Len(p) = 1
      BY <1>4
    <3>3. (p \o q)[1] = p[1]
      BY <3>1, <3>2
    <3>4. (p \o q)[2] = q[2 - Len(p)]
      BY <3>1, <3>2
    <3>5. m \in Seq(Items) /\ Len(m) = Len(p) + Len(q) /\ DOMAIN m = 1 .. Len(p) + Len(q)
      BY <1>6, <3>1
    <3> QED
      BY <1>4, <1>6, <3>2, <3>3, <3>4, <3>5
  <2>2. \A i \in DOMAIN m : i = 1 \/ i = 2
    BY <2>1
  <2> QED
    BY <1>1, <1>4, <2>1, <2>2
<1> QED
  BY <1>2, <1>3, <1>5, <1>6

LEMMA BeginStep ==
  ASSUME Ground, AskedInv, BeginInv, [Next]_vars
  PROVE  BeginInv'
<1>1. /\ ClientInv /\ ServerInv /\ EventInv /\ CallInv /\ ItemInv /\ RestInv
  BY DEF Ground, IInv
<1>2. conversation \in Seq(Items) /\ items \in Seq(Items) /\ run \in Nat
  BY GroundFacts
<1>3. \A x \in ToSet(conversation) \cup ToSet(rows) \cup ToSet(items) :
        RunOf(x)' = RunOf(x) /\ (IsEssential(x) => RunOf(x) \in 1 .. run)
  BY <1>1, RunOfFacts, OldStays
<1> SUFFICES ASSUME phase' = "begin"
             PROVE  EndsAsking(items)'
  BY DEF BeginInv
<1>4. CASE Resting \/ Recording
  <2>1. phase = "begin" /\ items' = items /\ run' = run
    BY <1>4 DEF Resting, Recording, sessionItems, runHistory
  <2>2. PICK m \in DOMAIN items : Asks(items, m)
    BY <2>1 DEF BeginInv, EndsAsking
  <2>3. PICK s : s = items
    OBVIOUS
  <2>4. ASSUME NEW i \in DOMAIN s, i < m, IsEssential(s[i])
        PROVE  RunOf(s[i])' # run'
    <3>1. s[i] \in ToSet(items)
      BY <2>3 DEF ToSet
    <3>2. RunOf(s[i])' = RunOf(s[i])
      BY <1>3, <3>1
    <3> QED
      BY <2>1, <2>2, <2>3, <2>4, <3>2 DEF Asks
  <2>5. Asks(s, m)'
    BY <2>1, <2>2, <2>3, <2>4 DEF Asks
  <2>6. Asks(items, m)'
    <3>1. Asks(items, m)' <=> Asks(s, m)'
      BY <2>1, <2>3 DEF Asks, RunOf
    <3> QED
      BY <2>5, <3>1
  <2> QED
    BY <2>1, <2>6 DEF EndsAsking
<1>5. ASSUME NEW a, Submitting(a)
      PROVE  EndsAsking(items)'
  <2>1. PICK s, t : s = conversation /\ t = items'
    OBVIOUS
  <2>2. t = s \o a /\ run' = run + 1 /\ Message(a, run')
    BY <1>5, <2>1 DEF Submitting, Joined
  <2>3. /\ a \in Seq(Items) /\ Len(a) \in {1, 2}
        /\ \A i \in DOMAIN a : a[i].of = run' /\ a[i].k = IF i = 1 THEN "user" ELSE "file"
    BY <1>2, <2>2, MessageEnds
  <2>4. s \in Seq(Items)
    BY <1>2, <2>1
  <2>5. /\ Len(s) \in Nat /\ Len(t) = Len(s) + Len(a) /\ DOMAIN t = 1 .. Len(s) + Len(a)
        /\ DOMAIN s = 1 .. Len(s) /\ DOMAIN a = 1 .. Len(a)
        /\ \A i \in 1 .. Len(s) : t[i] = s[i]
        /\ \A i \in Len(s) + 1 .. Len(s) + Len(a) : t[i] = a[i - Len(s)]
    BY <2>2, <2>3, <2>4, ConcatFacts
  <2> DEFINE m == Len(s) + 1
  <2>6. m \in DOMAIN t /\ Len(t) <= m + 1
    BY <2>3, <2>5
  <2>7. ASSUME NEW i \in DOMAIN t, i < m, IsEssential(t[i])
        PROVE  RunOf(t[i])' # run'
    <3>1. i \in 1 .. Len(s)
      BY <2>5, <2>7
    <3>2. t[i] = s[i] /\ s[i] \in ToSet(conversation)
      BY <2>1, <2>5, <3>1 DEF ToSet
    <3>3. RunOf(s[i])' = RunOf(s[i]) /\ RunOf(s[i]) \in 1 .. run
      BY <1>3, <2>7, <3>2
    <3>4. RunOf(t[i])' = RunOf(s[i])'
      BY <3>2 DEF RunOf
    <3> QED
      BY <1>2, <2>2, <3>3, <3>4
  <2>8. ASSUME NEW i \in DOMAIN t, i >= m
        PROVE  t[i].k = (IF i = m THEN "user" ELSE "file") /\ t[i].of = run'
    <3>1. i \in Len(s) + 1 .. Len(s) + Len(a) /\ i - Len(s) \in DOMAIN a /\ (i - Len(s) = 1 <=> i = m)
      BY <2>3, <2>5, <2>8
    <3> QED
      BY <2>3, <2>5, <3>1
  <2>9. t[m].k = "user" /\ \A i \in DOMAIN t : i > m => t[i].k = "file"
    BY <2>5, <2>6, <2>8
  <2>10. \A i \in DOMAIN t : i >= m => t[i].k \in {"user", "file"} /\ t[i].of = run'
    BY <2>8
  <2> HIDE DEF m
  <2>11. Asks(items, m)'
    <3>1. Asks(t, m)'
      BY <2>6, <2>7, <2>9, <2>10 DEF Asks
    <3>2. Asks(items, m)' <=> Asks(t, m)'
      BY <2>1 DEF Asks, RunOf
    <3> QED
      BY <3>1, <3>2
  <2> QED
    BY <2>1, <2>6, <2>11 DEF EndsAsking
<1>6. \A n : ~ Accepting(n)
  BY DEF Accepting
<1>7. \A c : ~ Replying(c)
  BY DEF Replying
<1>8. ~ Losing /\ ~ Reloading /\ ~ Concluding /\ ~ Shrinking /\ ~ Noting
  BY DEF Losing, Reloading, Concluding, Shrinking, Noting
<1> QED
  BY <1>1, <1>4, <1>5, <1>6, <1>7, <1>8, Moves, Zenon

-----------------------------------------------------------------------------
(* What a resumed response gets *)

\* A response is resumed from where the run begins on, an answer that asks for
\* tools is the next one, and the outputs of its calls are added.
Keeping ==
  /\ phase \notin {"idle", "begin", "stream"}
  /\ UNCHANGED <<items, prev, cursor, runHistory>>
  /\ phase = "request" => phase' = "request"
  /\ phase # "request" /\ phase' = "request" => Waiting = {}

LEMMA PrevMoves ==
  ASSUME CallInv, [Next]_vars, prev' # 0, phase' \notin {"idle", "begin", "stream"}
  PROVE  \/ Begin \/ Keeping
         \/ \E next : Accepting(next)
         \/ \E c : Replying(c)
<1>1. UNCHANGED vars \/ SwitchMode \/ FinishShell \/ ProviderStep => Keeping
  <2>1. UNCHANGED vars \/ SwitchMode \/ FinishShell \/ ProviderStep =>
          UNCHANGED <<phase, items, prev, cursor, runHistory>>
    BY DEF vars, SwitchMode, FinishShell, ProviderStep, runVars, historyVars, runHistory
  <2> QED
    BY <2>1 DEF Keeping
<1>2. Submit \/ SendRequest \/ Consume => phase' \in {"begin", "stream"}
  BY DEF Submit, SendRequest, Consume
<1>3. Cancel \/ Crash \/ ConsumeTooMuch \/ GiveUp \/ Malformed \/ Complete \/ LoseApproval =>
        phase' = "idle"
  BY DEF Cancel, Crash, ConsumeTooMuch, GiveUp, Malformed, Complete, LoseApproval, FailRun, Finish
<1>4. RecoverOverflow \/ ReplayInstead => prev' = 0
  BY DEF RecoverOverflow, ReplayInstead, ReplayNext, Forget
<1>5. AcceptCalls => \E next : Accepting(next)
  BY AcceptMoves
<1>6. AnswerDuplicate \/ Refuse \/ Reject \/ FinishTool \/ FinishChild => \E c : Replying(c)
  BY ReplyMoves
<1>7. Consider \/ Approve \/ StartTool => Keeping
  <2>1. Consider \/ Approve \/ StartTool =>
          /\ phase \in {"calls", "approval", "approved"} /\ phase' # "request"
          /\ UNCHANGED <<items, prev, cursor, runHistory>>
    BY DEF Consider, Approve, StartTool, historyVars, runHistory, sessionVars
  <2> QED
    BY <2>1 DEF Keeping
<1>8. NextRound => Keeping
  <2>1. NextRound => /\ phase = "calls" /\ phase' = "request" /\ pending = << >> /\ spawned = {}
                     /\ UNCHANGED <<items, prev, cursor, runHistory>>
    BY DEF NextRound, historyVars, runHistory
  <2>2. pending = << >> /\ spawned = {} => Waiting = {}
    BY SetNone DEF Waiting
  <2> QED
    BY <2>1, <2>2 DEF Keeping
<1> QED
  BY <1>1, <1>2, <1>3, <1>4, <1>5, <1>6, <1>7, <1>8, Zenon DEF Next, RunnerStep, UserAnswers

\* Where a run begins, what the stored response does not have is behind the
\* cursor: the message of the user, and the files.
LEMMA BegunCursor ==
  ASSUME Ground, BeginInv, Begin, prev' # 0
  PROVE  /\ LatestFrom(items', cursor') /\ cursor' \in Nat
         /\ prev' = storedId' /\ storedId' = storedId
         /\ phase = "begin" /\ phase' = "request"
         /\ UNCHANGED <<server, run, conversation, unanswered>>
<1>1. /\ phase = "begin" /\ phase' = "request" /\ prev' = storedId'
      /\ cursor' = IncrementalCursor(items')
      /\ UNCHANGED <<server, run, conversation, unanswered>>
  BY DEF Begin
<1>2. items \in Seq(Items) /\ rows \in Seq(Items) /\ run \in Nat /\ EndsAsking(items)
  BY <1>1, GroundFacts DEF BeginInv
<1>3. PICK s, t : s = items /\ t = items'
  OBVIOUS
<1>4. LatestFrom(t, IncrementalCursor(t)) /\ t \in Seq(Items)
  <2>1. CASE items' = items
    BY <1>2, <1>3, <2>1, AskingFound
  <2>2. ASSUME Shrink(storedId)
        PROVE  LatestFrom(t, IncrementalCursor(t)) /\ t \in Seq(Items)
    <3>1. PICK x, b : Shortened(x, b)
      BY <1>2, <2>2, ShortenedBy
    <3>2. x \in Items /\ ~ IsEssential(x) /\ b \in 0 .. Len(items) /\ t = Joined(<<x>>, From(items, b))
      BY <1>3, <3>1 DEF Shortened, IsEssential
    <3>3. PICK q : q = <<x>>
      OBVIOUS
    <3>4. q \in Seq(Items) /\ From(items, b) \in Seq(Items)
      BY <1>2, <3>2, <3>3, SetAppended, SetFrom
    <3>5. Joined(q, From(items, b)) \in Seq(Items)
      BY <3>4, SetJoined
    <3> QED
      BY <1>2, <3>2, <3>3, <3>5, AskingFoundBehind
  <2> QED
    BY <2>1, <2>2 DEF Begin
<1>5. IncrementalCursor(t) \in Nat
  <2>1. Len(t) \in Nat /\ DOMAIN t = 1 .. Len(t)
    BY <1>4, LenProperties
  <2>2. CASE IsUser(t) = {}
    <3>1. IncrementalCursor(t) = Minus(Len(t), 1)
      BY <2>2 DEF IncrementalCursor
    <3> QED
      BY <2>1, <3>1 DEF Minus
  <2>3. CASE IsUser(t) # {}
    <3>1. PICK U, m : U = IsUser(t) /\ m = Max(U)
      OBVIOUS
    <3>2. U \subseteq 0 .. Len(t) /\ U \subseteq 1 .. Len(t)
      BY <2>1, <3>1 DEF IsUser
    <3>3. m \in U
      BY <2>1, <2>3, <3>1, <3>2, MaxFacts
    <3>4. m - 1 \in Nat
      BY <2>1, <3>2, <3>3
    <3> QED
      BY <2>3, <3>1, <3>4 DEF IncrementalCursor
  <2> QED
    BY <2>2, <2>3
<1>6. storedId' = storedId
  <2>1. ASSUME Shrink(storedId)
        PROVE  storedId' \in {0, storedId}
    BY <2>1 DEF Shrink
  <2> QED
    BY <1>1, <2>1 DEF Begin
<1> QED
  BY <1>1, <1>3, <1>4, <1>5, <1>6

\* What is behind b.
LEMMA InFrom ==
  ASSUME NEW s \in Seq(Items), NEW b \in 0 .. Len(s)
  PROVE  \A x : x \in ToSet(From(s, b)) <=> \E i \in DOMAIN s : i > b /\ s[i] = x
<1>1. /\ Len(s) \in Nat /\ DOMAIN s = 1 .. Len(s)
      /\ DOMAIN From(s, b) = 1 .. Len(s) - b
      /\ \A i \in 1 .. Len(s) - b : From(s, b)[i] = s[b + i]
  BY LenProperties, FromFacts
<1>2. ASSUME NEW i \in DOMAIN From(s, b)
      PROVE  \E j \in DOMAIN s : j > b /\ s[j] = From(s, b)[i]
  <2>1. b + i \in DOMAIN s /\ b + i > b /\ From(s, b)[i] = s[b + i]
    BY <1>1
  <2> QED
    BY <2>1
<1>3. ASSUME NEW j \in DOMAIN s, j > b
      PROVE  \E i \in DOMAIN From(s, b) : From(s, b)[i] = s[j]
  <2>1. j - b \in DOMAIN From(s, b) /\ b + (j - b) = j
    BY <1>1, <1>3
  <2>2. From(s, b)[j - b] = s[b + (j - b)]
    BY <1>1, <2>1
  <2> QED
    BY <2>1, <2>2
<1> QED
  BY <1>2, <1>3 DEF ToSet

LEMMA NewStep ==
  ASSUME Ground, IInv', AskedInv, BeginInv, ContextInv, NewInv, [Next]_vars
  PROVE  NewInv'
<1>1. /\ ClientInv /\ ServerInv /\ CallInv /\ ItemInv /\ RestInv
  BY DEF Ground, IInv
<1>2. /\ items \in Seq(Items) /\ Len(server) \in Nat /\ DOMAIN server = 1 .. Len(server) /\ run \in Nat
  BY GroundFacts
<1>3. items' \in Seq(Items) /\ cursor' \in 0 .. Len(items')
  BY DEF IInv, ItemInv, Sound, RestInv
<1> DEFINE Goal == \A x \in ToSet(From(items', cursor')) : IsEssential(x) => ~ In(Knows(prev)', x)
<1> SUFFICES ASSUME prev' # 0, phase' \notin {"idle", "begin", "stream"}
             PROVE  Goal
  BY DEF NewInv
<1>4. CASE Begin
  <2>1. /\ LatestFrom(items', cursor') /\ prev' = storedId /\ phase = "begin"
        /\ server' = server
    BY <1>4, BegunCursor
  <2>2. PICK p, t, c : p = prev' /\ t = items' /\ c = cursor'
    OBVIOUS
  <2>3. p \in DOMAIN server
    BY <1>1, <1>2, <2>1, <2>2 DEF RestInv
  <2>4. AskedBy(Knows(p), run - 1)
    BY <2>1, <2>3, KnowsClean DEF Clean, Heard
  <2>5. Knows(prev)' = Knows(p)
    BY <2>1, <2>2 DEF Knows
  <2>6. ASSUME NEW x \in ToSet(From(t, c)), IsEssential(x)
        PROVE  ~ In(Knows(p), x)
    <3>1. PICK i \in DOMAIN t : i > c /\ t[i] = x
      BY <1>3, <2>2, InFrom
    <3>2. x.k \in {"user", "file"} /\ x.of = run
      <4>1. ~ (i <= c)
        <5>1. i \in Nat /\ c \in Nat
          BY <1>3, <2>2, LenProperties
        <5> QED
          BY <3>1, <5>1
      <4> QED
        BY <2>1, <2>2, <2>6, <3>1, <4>1 DEF LatestFrom
    <3>3. run \notin 1 .. run - 1
      BY <1>2
    <3> QED
      BY <2>4, <3>2, <3>3 DEF In, Same, AskedBy
  <2> QED
    BY <2>2, <2>5, <2>6
<1>5. CASE Keeping
  <2>1. /\ phase \notin {"idle", "begin", "stream"} /\ items' = items /\ cursor' = cursor
        /\ prev' = prev
    BY <1>5 DEF Keeping
  <2>2. PICK p : p = prev
    OBVIOUS
  <2>3. p \in DOMAIN server /\ net = "idle"
    BY <1>1, <1>2, <2>1, <2>2 DEF RestInv, ClientInv
  <2>4. server[p].context \in Seq(Items)
    BY <2>3, KnowsClean
  <2>5. Knows(p)' = Knows(p)
    BY <1>1, <2>3, <2>4, KnowsMore
  <2>6. Knows(prev)' = Knows(p)'
    BY <2>1, <2>2 DEF Knows
  <2>7. \A x \in ToSet(From(items, cursor)) : IsEssential(x) => ~ In(Knows(p), x)
    BY <2>1, <2>2 DEF NewInv
  <2> QED
    BY <2>1, <2>5, <2>6, <2>7
<1>6. ASSUME NEW next, Accepting(next)
      PROVE  Goal
  <2>1. cursor' = Len(items')
    BY <1>6 DEF Accepting
  <2>2. PICK t : t = items'
    OBVIOUS
  <2>3. \A x : x \notin ToSet(From(t, Len(t)))
    <3>1. Len(t) \in Nat /\ DOMAIN t = 1 .. Len(t) /\ t \in Seq(Items)
      BY <1>3, <2>2, LenProperties
    <3>2. \A x : x \in ToSet(From(t, Len(t))) <=> \E i \in DOMAIN t : i > Len(t) /\ t[i] = x
      BY <3>1, InFrom
    <3>3. ~ \E i \in DOMAIN t : i > Len(t)
      BY <3>1
    <3> QED
      BY <3>2, <3>3
  <2> QED
    BY <2>1, <2>2, <2>3
<1>7. ASSUME NEW c, Replying(c)
      PROVE  Goal
  <2>1. /\ c \in Waiting /\ c \in CallEvents /\ phase \in {"calls", "approval", "executing"}
        /\ items' = Append(items, OutputOf(c))
        /\ UNCHANGED <<prev, cursor, server>>
    BY <1>7 DEF Replying
  <2>2. PICK p, x : p = prev /\ x = OutputOf(c)
    OBVIOUS
  <2>3. x \in Items /\ x.k = "output" /\ x.of = c.of
    BY <2>1, <2>2 DEF OutputOf, Item, Items, Kinds, CallEvents
  <2>4. p \in DOMAIN server /\ p # 0 /\ x.of = p
    BY <1>1, <1>2, <2>1, <2>2, <2>3 DEF RestInv, AskedInv
  <2>5. Knows(prev)' = Knows(p)
    BY <2>1, <2>2 DEF Knows
  <2>6. ~ In(Knows(p), x)
    <3>1. /\ ToSet(Knows(p)) = ToSet(server[p].context) \cup ToSet(server[p].out)
      <4>1. server[p].context \in Seq(Items)
        BY <2>4, KnowsClean
      <4>2. server[p].out \in Seq(Items)
        BY <1>1, <2>4 DEF ServerInv, IsResponse
      <4> QED
        BY <4>1, <4>2, SetJoined DEF Knows
    <3>2. \A y \in ToSet(server[p].out) : y.k # "output"
      <4>1. Speaks(server[p])
        BY <2>4 DEF Ground, SpeaksInv
      <4> QED
        BY <4>1 DEF Speaks
    <3>3. \A y \in ToSet(server[p].context) : y.k = "output" => y.of \in 1 .. p - 1
      <4>1. Clean(server[p].context, p, Heard)
        BY <2>4 DEF ContextInv
      <4> QED
        BY <4>1 DEF Clean, Earlier, OfResponse
    <3>4. p \notin 1 .. p - 1
      BY <1>2, <2>4
    <3> QED
      BY <2>3, <2>4, <3>1, <3>2, <3>3, <3>4 DEF In, Same
  <2>7. ToSet(From(items', cursor')) = ToSet(From(items, cursor)) \cup {x}
    <3>1. cursor \in 0 .. Len(items) /\ Len(items) \in Nat
      BY <1>1, <1>2, LenProperties DEF RestInv
    <3>2. PICK q : q = <<x>>
      OBVIOUS
    <3>3. Append(items, x) = Joined(items, q) /\ q \in Seq(Items) /\ ToSet(q) = {x}
      BY <1>2, <2>3, <3>2, SetAppended
    <3>4. From(Joined(items, q), cursor) = Joined(From(items, cursor), q)
      BY <1>2, <3>1, <3>3, FromJoined
    <3>5. From(items, cursor) \in Seq(Items)
      BY <1>2, <3>1, SetFrom
    <3>6. ToSet(Joined(From(items, cursor), q)) = ToSet(From(items, cursor)) \cup {x}
      BY <3>3, <3>5, SetJoined
    <3> QED
      BY <2>1, <2>2, <3>3, <3>4, <3>6
  <2>8. \A y \in ToSet(From(items, cursor)) : IsEssential(y) => ~ In(Knows(p), y)
    BY <2>1, <2>2, <2>4 DEF NewInv
  <2> QED
    BY <2>5, <2>6, <2>7, <2>8
<1> QED
  BY <1>1, <1>4, <1>5, <1>6, <1>7, PrevMoves

-----------------------------------------------------------------------------
(* A resumed response misses nothing *)

\* What a full replay would send is before the response.
AheadInv == phase = "stream" => \A x \in ToSet(request.local) : Old(x) => In(Ahead, x)

\* The stored response has all the conversation.
StoredIdInv ==
  storedId # 0 =>
    \A x \in ToSet(conversation) :
      Old(x) /\ Partners(ToSet(conversation), x) /\ (phase # "idle" => RunOf(x) # run)
        => In(Knows(storedId), x)

\* The response that will be resumed has what is not behind the cursor; of the
\* calls it asked for it has those too that wait for their output.
CursorInv ==
  prev # 0 /\ phase \notin {"idle", "begin", "stream"} =>
    \A x \in ToSet(items) :
      Old(x) /\ (Partners(ToSet(items), x) \/ (phase # "request" /\ x.k = "call" /\ x.of = prev))
        => In(Knows(prev), x) \/ x \in ToSet(From(items, cursor))

\* The other half of a pair is of the same run.
LEMMA PartnerFacts ==
  ASSUME NEW S, NEW T, NEW x, Partners(S, x), Old(x),
         \A y \in S : Lasting(y) /\ RunOf(y) = RunOf(x) /\ OfResponse(y) => y \in T
  PROVE  Partners(T, x)
<1>1. \A y : {x.k, y.k} = {"call", "output"} /\ SameCall(y, x) => Lasting(y) /\ RunOf(y) = RunOf(x)
  BY OldLasts
<1>2. ASSUME x.k = "call"
      PROVE  \E y \in T : y.k = "output" /\ SameCall(y, x)
  <2>1. PICK y \in S : y.k = "output" /\ SameCall(y, x)
    BY <1>2 DEF Partners
  <2>2. {x.k, y.k} = {"call", "output"} /\ OfResponse(y)
    BY <1>2, <2>1 DEF OfResponse
  <2> QED
    BY <1>1, <2>1, <2>2
<1>3. ASSUME x.k = "output"
      PROVE  \E y \in T : y.k = "call" /\ SameCall(y, x)
  <2>1. PICK y \in S : y.k = "call" /\ SameCall(y, x)
    BY <1>3 DEF Partners
  <2>2. {x.k, y.k} = {"call", "output"} /\ OfResponse(y)
    BY <1>3, <2>1 DEF OfResponse
  <2> QED
    BY <1>1, <2>1, <2>2
<1> QED
  BY <1>2, <1>3 DEF Partners

\* A response has what is before it, and what it says.
LEMMA KnowsFacts ==
  ASSUME Ground, ContextInv, NEW r \in DOMAIN server
  PROVE  /\ \A x : In(Knows(r), x) <=> In(server[r].context, x) \/ In(server[r].out, x)
         /\ server[r].context \in Seq(Items) /\ server[r].out \in Seq(Items)
<1>1. server[r].context \in Seq(Items)
  BY KnowsClean
<1>2. server[r].out \in Seq(Items)
  BY DEF Ground, IInv, ServerInv, IsResponse
<1> QED
  BY <1>1, <1>2, InJoined DEF Knows

LEMMA AheadCovers ==
  ASSUME Ground, ContextInv, LocalInv, AheadInv, phase = "stream", current # 0,
         NEW x \in ToSet(items), Old(x), Partners(ToSet(items), x)
  PROVE  In(Knows(current), x)
<1>1. current \in DOMAIN server
  <2>1. DOMAIN server = 1 .. Len(server) /\ Len(server) \in Nat /\ current \in Nat
    BY GroundFacts
  <2> QED
    BY <2>1 DEF Ground, IInv, ClientInv
<1>2. x \in ToSet(request.local)
  BY DEF LocalInv, Old
<1>3. In(Ahead, x)
  BY <1>2 DEF AheadInv
<1>4. Ahead = server[current].context
  BY DEF Ahead
<1> QED
  BY <1>1, <1>3, <1>4, KnowsFacts

\* What was collected of a response that is over is what it said.
LEMMA CollectedIsSaid ==
  ASSUME Ground, ContextInv, ~ Has("wire"), Drained, outcome = "ok", NEW x, x.of = current,
         \/ x.k = "text" /\ collector.text # 0
         \/ x.k = "call" /\ \/ \E p \in collector.partials : p.n = x.n
                            \/ \E j \in DOMAIN collector.calls : collector.calls[j].n = x.n
  PROVE  In(Knows(current), x)
<1>1. /\ ClientInv /\ ServerInv /\ EventInv /\ NumberInv /\ OutInv /\ DoneInv /\ TallyInv /\ NumInv
  BY DEF Ground, IInv
<1>2. current \in DOMAIN server /\ collector.text = server[current].said
  BY <1>1, AllIsTold
<1>3. Speaks(server[current]) /\ Says(server[current], current)
  BY <1>2 DEF Ground, SpeaksInv, OutInv
<1>4. \A y \in ToSet(server[current].out) : y.of = current
  BY <1>3 DEF Says, ToSet
<1>5. CASE x.k = "text" /\ collector.text # 0
  <2>1. PICK y \in ToSet(server[current].out) : y.k = "text"
    BY <1>2, <1>3, <1>5 DEF Speaks
  <2>2. Same(y, x)
    BY <1>4, <1>5, <2>1 DEF Same
  <2>3. In(server[current].out, x)
    BY <2>1, <2>2 DEF In
  <2> QED
    BY <1>2, <2>3, KnowsFacts
<1>6. ASSUME x.k = "call",
             \/ \E p \in collector.partials : p.n = x.n
             \/ \E j \in DOMAIN collector.calls : collector.calls[j].n = x.n
      PROVE  In(Knows(current), x)
  <2>1. current # 0 /\ Latest = CallsOf(current) /\ Latest \in Nat
    <3>1. current # 0
      BY <1>2, LenProperties, <1>1 DEF ServerInv
    <3> QED
      BY <1>1, <3>1, LatestFacts
  <2>2. LastEnded <= Latest /\ LastBegun <= Latest /\ LastEnded \in Int /\ LastBegun \in Int
    BY <2>1 DEF LastEnded, LastBegun
  <2>3. x.n \in Nat /\ x.n # 0 /\ (x.n <= LastEnded \/ x.n <= LastBegun)
    <3>1. /\ \A j \in DOMAIN collector.calls :
               /\ collector.calls[j] \in CallEvents /\ collector.calls[j].n # 0
               /\ collector.calls[j].n <= LastEnded
          /\ \A p \in collector.partials : p \in CallEvents /\ p.n # 0 /\ p.n <= LastBegun
      <4>1. collector.calls \in Seq(CallEvents) /\ collector.partials \subseteq CallEvents
        BY <1>1 DEF EventInv, IsAnswer
      <4>2. \A j \in DOMAIN collector.calls : collector.calls[j] \in CallEvents
        BY <4>1, ElementOfSeq, LenProperties
      <4> QED
        BY <1>1, <4>1, <4>2 DEF NumberInv, Numbered, NumInv
    <3> QED
      BY <1>6, <3>1 DEF CallEvents
  <2>4. x.n \in 1 .. CallsOf(current)
    BY <2>1, <2>2, <2>3
  <2>5. CallsOf(current) = CallsIn(server[current].out)
    BY DEF CallsOf, CallsIn
  <2>6. PICK y \in ToSet(server[current].out) : y.k = "call" /\ y.n = x.n
    BY <1>3, <2>4, <2>5 DEF Speaks
  <2>7. Same(y, x)
    BY <1>4, <1>6, <2>6 DEF Same
  <2>8. In(server[current].out, x)
    BY <2>6, <2>7 DEF In
  <2> QED
    BY <1>2, <2>8, KnowsFacts
<1> QED
  BY <1>5, <1>6

LEMMA AheadStep ==
  ASSUME Ground, IInv', ContextInv, LocalInv, AheadInv, CursorInv, [Next]_vars
  PROVE  AheadInv'
<1>1. ClientInv /\ ServerInv /\ ItemInv /\ RestInv
  BY DEF Ground, IInv
<1>2. items \in Seq(Items) /\ Orderly(items)
  BY GroundFacts
<1>3. \A x \in ToSet(items) : Old(x)' => Old(x)
  BY <1>1, AllKnown, OldStays
<1> SUFFICES ASSUME phase' = "stream", NEW x \in ToSet(request'.local), Old(x)'
             PROVE  In(Ahead', x)
  BY DEF AheadInv
<1>4. CASE SendRequest
  <2>1. /\ Ahead' = IF prev = 0 THEN Joined(<< >>, Body(ReplaySafe(items)))
                     ELSE Joined(Knows(prev), Body(From(items, cursor)))
        /\ request'.local = ReplaySafe(items) /\ phase = "request"
    BY <1>4, SentAhead
  <2>2. PICK s : s = ReplaySafe(items)
    OBVIOUS
  <2>3. /\ s \in Seq(Items) /\ x \in ToSet(s) /\ x \in ToSet(items)
        /\ Partners(ToSet(items), x)
    BY <1>2, <2>1, <2>2, ReplayFacts
  <2>4. Old(x) /\ IsEssential(x)
    BY <1>3, <2>3 DEF Old
  <2>5. CASE prev = 0
    <3>1. Body(s) \in Seq(Items) /\ x \in ToSet(Body(s)) /\ << >> \in Seq(Items)
      BY <2>3, <2>4, BodyFacts
    <3>2. In(Body(s), x)
      BY <3>1, InItself
    <3>3. PICK e : e = << >> /\ e \in Seq(Items)
      BY <3>1
    <3>4. In(Joined(e, Body(s)), x)
      BY <3>1, <3>2, <3>3, InJoined
    <3> QED
      BY <2>1, <2>2, <2>5, <3>3, <3>4
  <2>6. CASE prev # 0
    <3>1. cursor \in 0 .. Len(items) /\ prev \in DOMAIN server
      <4>1. DOMAIN server = 1 .. Len(server) /\ Len(server) \in Nat
        BY GroundFacts
      <4> QED
        BY <1>1, <2>6, <4>1 DEF RestInv
    <3>2. PICK f : f = From(items, cursor)
      OBVIOUS
    <3>3. f \in Seq(Items)
      BY <1>2, <3>1, <3>2, SetFrom
    <3>4. Body(f) \in Seq(Items) /\ Knows(prev) \in Seq(Items)
      BY <3>1, <3>3, BodyFacts, KnowsClean DEF Clean
    <3>5. In(Knows(prev), x) \/ x \in ToSet(f)
      BY <2>1, <2>3, <2>4, <2>6, <3>2 DEF CursorInv
    <3>6. In(Knows(prev), x) \/ In(Body(f), x)
      <4>1. x \in ToSet(f) => x \in ToSet(Body(f))
        BY <2>4, <3>3, BodyFacts
      <4> QED
        BY <3>5, <4>1, InItself
    <3>7. In(Joined(Knows(prev), Body(f)), x)
      BY <3>4, <3>6, InJoined
    <3> QED
      BY <2>1, <2>6, <3>2, <3>7
  <2> QED
    BY <2>5, <2>6
<1>5. CASE phase = "stream" /\ request' = request
  <2>1. Ahead' = Ahead
    BY <1>5, AheadStays
  <2>2. x \in ToSet(request.local) /\ x \in ToSet(items)
    BY <1>5 DEF LocalInv
  <2>3. In(Ahead, x)
    BY <1>3, <1>5, <2>2 DEF AheadInv
  <2> QED
    BY <2>1, <2>3
<1> QED
  BY <1>4, <1>5, StreamGoesOn

LEMMA ShortenedItems ==
  ASSUME items \in Seq(Items), NEW x, NEW b, Shortened(x, b)
  PROVE  \A y \in ToSet(items') : IsEssential(y) => y \in ToSet(items)
<1>1. /\ x \in Items /\ ~ IsEssential(x)
      /\ b \in 0 .. Len(items) /\ items' = Joined(<<x>>, From(items, b))
  BY DEF Shortened, IsEssential
<1>2. PICK q : q = <<x>>
  OBVIOUS
<1>3. q \in Seq(Items) /\ ToSet(q) = {x}
  BY <1>1, <1>2, SetAppended
<1>4. From(items, b) \in Seq(Items) /\ ToSet(From(items, b)) \subseteq ToSet(items)
  BY <1>1, SetFrom
<1>5. ToSet(Joined(q, From(items, b))) = {x} \cup ToSet(From(items, b))
  BY <1>3, <1>4, SetJoined
<1> QED
  BY <1>1, <1>2, <1>4, <1>5

LEMMA CursorInvStep ==
  ASSUME Ground, IInv', AskedInv, WithinInv, BeginInv, ContextInv, LocalInv, AheadInv,
         StoredIdInv, CursorInv, [Next]_vars
  PROVE  CursorInv'
<1>1. /\ ClientInv /\ ServerInv /\ EventInv /\ NumberInv /\ CallInv /\ ItemInv /\ RestInv
      /\ IdInv /\ NamedInv
  BY DEF Ground, IInv
<1>2. /\ items \in Seq(Items) /\ Len(server) \in Nat /\ DOMAIN server = 1 .. Len(server)
      /\ run \in Nat /\ current \in Nat /\ IsAnswer(collector)
  BY GroundFacts
<1>3. items' \in Seq(Items) /\ cursor' \in 0 .. Len(items')
  BY DEF IInv, ItemInv, Sound, RestInv
<1>4. \A x \in ToSet(items) : (Old(x)' => Old(x)) /\ (OfResponse(x) => x.of # current)
  BY <1>1, AllKnown, OldStays
<1>5. \A x : Old(x)' => IsEssential(x)
  BY DEF Old
<1> SUFFICES ASSUME prev' # 0, phase' \notin {"idle", "begin", "stream"},
                    NEW x \in ToSet(items'), Old(x)',
                    \/ Partners(ToSet(items'), x)
                    \/ phase' # "request" /\ x.k = "call" /\ x.of = prev'
             PROVE  In(Knows(prev)', x) \/ x \in ToSet(From(items', cursor'))
  BY DEF CursorInv
<1>6. CASE Begin
  <2>1. /\ LatestFrom(items', cursor') /\ prev' = storedId /\ phase = "begin" /\ phase' = "request"
        /\ server' = server
    BY <1>6, BegunCursor
  <2>2. PICK p, t, c : p = prev' /\ t = items' /\ c = cursor'
    OBVIOUS
  <2>3. Knows(prev)' = Knows(p)
    BY <2>1, <2>2 DEF Knows
  <2>4. \A y \in ToSet(t) : IsEssential(y) => y \in ToSet(items)
    <3>1. CASE items' = items
      BY <2>2, <3>1
    <3>2. ASSUME Shrink(storedId)
          PROVE  \A y \in ToSet(t) : IsEssential(y) => y \in ToSet(items)
      <4>1. rows \in Seq(Items)
        BY GroundFacts
      <4>2. PICK y, b : Shortened(y, b)
        BY <1>2, <3>2, <4>1, ShortenedBy
      <4> QED
        BY <1>2, <2>2, <4>2, ShortenedItems
    <3> QED
      BY <1>6, <3>1, <3>2 DEF Begin
  <2>5. x \in ToSet(items) /\ Old(x) /\ IsEssential(x)
    BY <1>4, <1>5, <2>2, <2>4
  <2>6. Partners(ToSet(t), x)
    BY <2>1, <2>2
  <2>7. PICK i \in DOMAIN t : t[i] = x
    BY <2>2 DEF ToSet
  <2>8. CASE i > c
    BY <1>3, <2>2, <2>7, <2>8, InFrom
  <2>9. CASE i <= c
    <3>1. RunOf(x) # run
      BY <2>1, <2>2, <2>5, <2>7, <2>9 DEF LatestFrom
    <3>2. \A y \in ToSet(items) : IsEssential(y) => y \in ToSet(conversation) \/ RunOf(y) = run
      BY <2>1 DEF WithinInv, Working
    <3>3. x \in ToSet(conversation)
      BY <2>5, <3>1, <3>2
    <3>4. \A y \in ToSet(t) : Lasting(y) /\ RunOf(y) = RunOf(x) /\ OfResponse(y)
                              => y \in ToSet(conversation)
      BY <2>4, <3>1, <3>2 DEF Lasting
    <3>5. Partners(ToSet(conversation), x)
      BY <2>5, <2>6, <3>4, PartnerFacts
    <3>6. In(Knows(storedId), x)
      BY <2>1, <2>5, <3>1, <3>3, <3>5 DEF StoredIdInv
    <3> QED
      BY <2>1, <2>2, <2>3, <3>6
  <2>10. i > c \/ i <= c
    <3>1. i \in Int /\ c \in Int
      BY <1>3, <2>2, <2>7, LenProperties
    <3> QED
      BY <3>1
  <2> QED
    BY <2>8, <2>9, <2>10
<1>7. CASE Keeping
  <2>1. /\ phase \notin {"idle", "begin", "stream"} /\ items' = items /\ cursor' = cursor
        /\ prev' = prev /\ (phase = "request" => phase' = "request")
    BY <1>7 DEF Keeping
  <2>2. PICK p : p = prev
    OBVIOUS
  <2>3. p \in DOMAIN server /\ net = "idle"
    <3>1. p \in 0 .. Len(server) /\ p # 0
      BY <1>1, <2>1, <2>2 DEF RestInv
    <3>2. p \in DOMAIN server
      BY <1>2, <3>1
    <3>3. net = "idle"
      BY <1>1, <2>1, SMTT(40) DEF ClientInv
    <3> QED
      BY <3>2, <3>3
  <2>4. server[p].context \in Seq(Items)
    BY <2>3, KnowsClean
  <2>5. Knows(p)' = Knows(p)
    BY <1>1, <2>3, <2>4, KnowsMore
  <2>6. Knows(prev)' = Knows(p)'
    BY <2>1, <2>2 DEF Knows
  <2>7. Old(x) /\ x \in ToSet(items)
    BY <1>4, <2>1
  <2>8. Partners(ToSet(items), x) \/ (phase # "request" /\ x.k = "call" /\ x.of = prev)
    BY <2>1
  <2>9. In(Knows(prev), x) \/ x \in ToSet(From(items, cursor))
    BY <2>1, <2>7, <2>8 DEF CursorInv
  <2> QED
    BY <2>1, <2>2, <2>5, <2>6, <2>9
<1>8. ASSUME NEW next, Accepting(next)
      PROVE  In(Knows(prev)', x)
  <2>1. /\ items' = Joined(items, AddedBy(next)) /\ server' = server /\ prev' = prev
        /\ phase = "stream" /\ Drained /\ outcome = "ok" /\ next \in FinishedCalls
    BY <1>8 DEF Accepting
  <2>2. /\ current \in DOMAIN server /\ current # 0 /\ prev = current
        /\ next \in Seq(CallEvents) /\ ToldApart(next, {})
        /\ \A j \in DOMAIN next : next[j].of = current
    BY <1>1, <1>8, <2>1, AcceptedFacts
  <2>3. ~ Has("wire")
    BY <1>1, <2>1 DEF IdInv, Naming
  <2>4. PICK a : a = AddedBy(next)
    OBVIOUS
  <2>5. /\ a \in Seq(Items)
        /\ \A y \in ToSet(a) : y.k \in {"thinking", "text", "call"} /\ y.of = current
        /\ \A y \in ToSet(a) : y.k = "text" => collector.text # 0
        /\ \A y \in ToSet(a) : y.k = "call" => \E j \in DOMAIN next : next[j].n = y.n
    BY <1>2, <2>2, <2>4, AddedOnce
  <2>6. ToSet(items') = ToSet(items) \cup ToSet(a)
    BY <1>2, <2>1, <2>4, <2>5, SetJoined
  <2>7. Knows(prev)' = Knows(current)
    BY <2>1, <2>2 DEF Knows
  <2>8. CASE x \in ToSet(items)
    <3>1. Old(x) /\ (OfResponse(x) => x.of # current)
      BY <1>4, <2>8
    <3>2. Partners(ToSet(items'), x)
      BY <2>1, <2>2, <3>1 DEF OfResponse
    <3>3. Partners(ToSet(items), x)
      BY <2>5, <2>6, <3>1, <3>2 DEF Partners, SameCall, OfResponse
    <3>4. In(Knows(current), x)
      BY <2>1, <2>2, <2>8, <3>1, <3>3, AheadCovers
    <3> QED
      BY <2>7, <3>4
  <2>9. CASE x \in ToSet(a)
    <3>1. x.k \in {"text", "call"} /\ x.of = current
      BY <1>5, <2>5, <2>9 DEF IsEssential
    <3>2. CASE x.k = "text"
      BY <2>1, <2>3, <2>5, <2>7, <2>9, <3>1, <3>2, CollectedIsSaid, SMTT(40)
    <3>3. CASE x.k = "call"
      <4>1. PICK j \in DOMAIN next : next[j].n = x.n
        BY <2>5, <2>9, <3>3
      <4>2. \/ next[j] \in collector.partials
            \/ \E i \in DOMAIN collector.calls : next[j] = collector.calls[i]
        BY <1>1, <2>1, FinishedOf
      <4>3. \/ \E p \in collector.partials : p.n = x.n
            \/ \E i \in DOMAIN collector.calls : collector.calls[i].n = x.n
        BY <4>1, <4>2
      <4>4. In(Knows(current), x)
        BY <2>1, <2>3, <3>1, <3>3, <4>3, CollectedIsSaid
      <4> QED
        BY <2>7, <4>4
    <3> QED
      BY <3>1, <3>2, <3>3
  <2> QED
    BY <2>6, <2>8, <2>9
<1>9. ASSUME NEW c, Replying(c)
      PROVE  In(Knows(prev)', x) \/ x \in ToSet(From(items', cursor'))
  <2>1. /\ c \in Waiting /\ c \in CallEvents /\ phase \in {"calls", "approval", "executing"}
        /\ items' = Append(items, OutputOf(c))
        /\ UNCHANGED <<prev, cursor, server>>
    BY <1>9 DEF Replying
  <2>2. PICK p, o : p = prev /\ o = OutputOf(c)
    OBVIOUS
  <2>3. o \in Items /\ o.k = "output" /\ o.of = c.of
    BY <2>1, <2>2 DEF OutputOf, Item, Items, Kinds, CallEvents
  <2>4. o.of = p /\ p # 0
    BY <2>1, <2>2, <2>3 DEF AskedInv
  <2>5. Knows(prev)' = Knows(p)
    BY <2>1, <2>2 DEF Knows
  <2>6. /\ ToSet(items') = ToSet(items) \cup {o}
        /\ ToSet(From(items', cursor')) = ToSet(From(items, cursor)) \cup {o}
    <3>1. cursor \in 0 .. Len(items) /\ Len(items) \in Nat
      BY <1>1, <1>2, LenProperties DEF RestInv
    <3>2. PICK q : q = <<o>>
      OBVIOUS
    <3>3. /\ Append(items, o) = Joined(items, q) /\ q \in Seq(Items) /\ ToSet(q) = {o}
          /\ ToSet(Append(items, o)) = ToSet(items) \cup {o}
      BY <1>2, <2>3, <3>2, SetAppended
    <3>4. From(Joined(items, q), cursor) = Joined(From(items, cursor), q)
      BY <1>2, <3>1, <3>3, FromJoined
    <3>5. From(items, cursor) \in Seq(Items)
      BY <1>2, <3>1, SetFrom
    <3>6. ToSet(Joined(From(items, cursor), q)) = ToSet(From(items, cursor)) \cup {o}
      BY <3>3, <3>5, SetJoined
    <3> QED
      BY <2>1, <2>2, <3>3, <3>4, <3>6
  <2>7. CASE x \in ToSet(items)
    <3>1. Old(x)
      BY <1>4, <2>7
    <3>2. Partners(ToSet(items), x) \/ (x.k = "call" /\ x.of = p)
      <4>1. CASE x.k = "call" /\ x.of = prev'
        BY <2>1, <2>2, <4>1
      <4>2. CASE Partners(ToSet(items'), x)
        BY <2>3, <2>4, <2>6, <4>2 DEF Partners, SameCall
      <4> QED
        BY <4>1, <4>2
    <3>3. In(Knows(prev), x) \/ x \in ToSet(From(items, cursor))
      BY <2>1, <2>2, <2>4, <2>7, <3>1, <3>2 DEF CursorInv
    <3> QED
      BY <2>2, <2>5, <2>6, <3>3
  <2> QED
    BY <2>6, <2>7
<1> QED
  BY <1>1, <1>6, <1>7, <1>8, <1>9, PrevMoves

\* Nothing blank is an answer.
LEMMA BlankAnswer ==
  ASSUME Blank(collector)
  PROVE  Answer = << >>
<1>1. collector.text = 0 /\ ~ collector.thought
  BY DEF Blank
<1> QED
  BY <1>1 DEF Answer

\* What the conversation has the response that answers it has too.
LEMMA AnswerStored ==
  ASSUME Ground, WithinInv, ContextInv, LocalInv, AheadInv, phase = "stream", current # 0,
         NEW x \in ToSet(conversation), Old(x), Partners(ToSet(conversation), x)
  PROVE  In(Knows(current), x)
<1>1. Lasting(x)
  BY OldLasts
<1>2. Working = items
  BY DEF Working
<1>3. \A y \in ToSet(conversation) : Lasting(y) => y \in ToSet(items)
  BY <1>2 DEF WithinInv
<1>4. Partners(ToSet(items), x)
  BY <1>3, PartnerFacts
<1> QED
  BY <1>1, <1>3, <1>4, AheadCovers

LEMMA StoredIdStep ==
  ASSUME Ground, IInv', AskedInv, WithinInv, ContextInv, LocalInv, AheadInv, StoredIdInv,
         [Next]_vars
  PROVE  StoredIdInv'
<1>1. /\ ClientInv /\ ServerInv /\ EventInv /\ NumberInv /\ CallInv /\ ItemInv /\ RestInv
      /\ IdInv /\ NamedInv
  BY DEF Ground, IInv
<1>2. /\ conversation \in Seq(Items) /\ rows \in Seq(Items) /\ items \in Seq(Items)
      /\ run \in Nat /\ current \in Nat /\ IsAnswer(collector)
      /\ Len(server) \in Nat /\ DOMAIN server = 1 .. Len(server)
  BY GroundFacts
<1>3. \A x \in ToSet(conversation) \cup ToSet(rows) \cup ToSet(items) :
        /\ Old(x)' => Old(x)
        /\ RunOf(x)' = RunOf(x)
        /\ OfResponse(x) => x.of # current
  BY <1>1, AllKnown, OldStays
<1>4. \A x : Old(x)' => IsEssential(x) /\ RunOf(x)' \notin unanswered'
  BY DEF Old
<1> SUFFICES ASSUME storedId' # 0, NEW x \in ToSet(conversation'), Old(x)',
                    Partners(ToSet(conversation'), x),
                    phase' # "idle" => RunOf(x)' # run'
             PROVE  In(Knows(storedId)', x)
  BY DEF StoredIdInv
<1>5. ASSUME NEW r \in DOMAIN server, storedId' = r, In(Knows(r), x)
      PROVE  In(Knows(storedId)', x)
  <2>1. server[r].context \in Seq(Items)
    BY KnowsClean
  <2>2. In(Knows(r)', x)
    BY <1>1, <1>5, <2>1, KnowsMore
  <2>3. Knows(storedId)' = Knows(r)'
    BY <1>5 DEF Knows
  <2> QED
    BY <2>2, <2>3
<1>6. storedId \in DOMAIN server \/ storedId = 0
  <2>1. storedId \in 0 .. Len(server)
    BY <1>1 DEF RestInv
  <2> QED
    BY <2>1, <1>2
<1>7. current # 0 => current \in DOMAIN server
  BY <1>1, <1>2 DEF ClientInv
<1>8. CASE Consume /\ storedId' # storedId
  <2>1. /\ phase = "stream" /\ conversation' = conversation
        /\ storedId' = Head(chan).of /\ Head(chan).type = "id"
    BY <1>8 DEF Consume
  <2>2. storedId' = current /\ current # 0
    BY <1>1, <1>8, <2>1, ConsumeMoves
  <2>3. In(Knows(current), x)
    BY <1>3, <2>1, <2>2, AnswerStored
  <2> QED
    BY <1>5, <1>7, <2>2, <2>3
<1>9. ASSUME storedId' = storedId
      PROVE  In(Knows(storedId)', x)
  <2> DEFINE Goal == In(Knows(storedId)', x)
  <2> SUFFICES Goal
    OBVIOUS
  <2>1. storedId \in DOMAIN server /\ storedId # 0
    BY <1>6, <1>9
  <2>2. ASSUME x \in ToSet(conversation), Partners(ToSet(conversation), x),
               phase # "idle" => RunOf(x) # run
        PROVE  Goal
    <3>1. Old(x)
      BY <1>3, <2>2
    <3>2. In(Knows(storedId), x)
      BY <2>1, <2>2, <3>1 DEF StoredIdInv
    <3> QED
      BY <1>5, <1>9, <2>1, <3>2
  <2> HIDE DEF Goal
  <2>3. CASE conversation' = conversation /\ run' = run /\ (phase' = "idle" => phase = "idle")
    BY <1>3, <2>2, <2>3
  <2>4. CASE Resting \/ Shrinking \/ Noting
    BY <2>3, <2>4 DEF Resting, Shrinking, Noting, sessionItems, runHistory
  <2>5. ASSUME NEW next, Accepting(next)
        PROVE  Goal
    BY <2>3, <2>5 DEF Accepting, runHistory
  <2>6. ASSUME NEW c, Replying(c)
        PROVE  Goal
    BY <2>3, <2>6 DEF Replying, runHistory
  <2>7. CASE Losing
    <3>1. conversation' = conversation /\ unanswered' = unanswered \cup {run}
      BY <2>7 DEF Losing
    <3>2. RunOf(x) # run
      BY <1>3, <1>4, <3>1
    <3> QED
      BY <2>2, <3>1, <3>2
  <2>8. CASE Reloading
    <3>1. /\ conversation' = rows /\ rows' = rows
          /\ phase # "idle" => unanswered' = unanswered \cup {run}
      BY <2>8 DEF Reloading
    <3>2. x \in ToSet(rows) /\ Old(x) /\ RunOf(x)' = RunOf(x)
      BY <1>3, <3>1
    <3>3. phase # "idle" => RunOf(x) # run
      BY <1>4, <3>1, <3>2
    <3>4. \A y \in ToSet(rows) : Lasting(y) /\ RunOf(y) = RunOf(x) => y \in ToSet(conversation)
      BY <3>3 DEF WithinInv
    <3>5. x \in ToSet(conversation)
      BY <3>2, <3>4, OldLasts
    <3>6. Partners(ToSet(conversation), x)
      BY <3>1, <3>2, <3>4, PartnerFacts
    <3> QED
      BY <2>2, <3>3, <3>5, <3>6
  <2>9. ASSUME NEW m, Submitting(m)
        PROVE  Goal
    <3>1. /\ conversation' = Joined(conversation, m) /\ run' = run + 1 /\ Message(m, run')
          /\ phase = "idle" /\ phase' # "idle"
      BY <2>9 DEF Submitting
    <3>2. run' \in Nat
      BY <1>2, <3>1
    <3>3. m \in Seq(Items) /\ \A y \in ToSet(m) : y.k \in {"user", "file"} /\ y.of = run'
      BY <3>1, <3>2, MessageFacts
    <3>4. ToSet(conversation') = ToSet(conversation) \cup ToSet(m)
      BY <1>2, <3>1, <3>3, SetJoined
    <3>5. x \notin ToSet(m)
      <4>1. RunOf(x)' # run'
        BY <3>1
      <4>2. x.k \in {"user", "file"} => RunOf(x)' = x.of
        BY DEF RunOf
      <4> QED
        BY <3>3, <4>1, <4>2
    <3>6. x \in ToSet(conversation)
      BY <3>4, <3>5
    <3>7. Partners(ToSet(conversation), x)
      BY <3>3, <3>4 DEF Partners
    <3> QED
      BY <2>2, <3>1, <3>6, <3>7
  <2>10. CASE Concluding
    <3>1. /\ phase = "stream" /\ Drained /\ outcome = "ok"
          /\ conversation' = Joined(items, Answer)
          /\ Answer = << >> => unanswered' = unanswered \cup {run}
      BY <2>10 DEF Concluding
    <3>2. /\ Answer \in Seq(Items)
          /\ \A y \in ToSet(Answer) : y.k \in {"thinking", "text"} /\ y.of = current
          /\ \A y \in ToSet(Answer) : y.k = "text" => collector.text # 0
      BY <1>2, AnswerOnce
    <3>3. ToSet(conversation') = ToSet(items) \cup ToSet(Answer)
      BY <1>2, <3>1, <3>2, SetJoined
    <3>4. Partners(ToSet(items), x)
      BY <3>2, <3>3 DEF Partners
    <3>5. CASE Answer = << >>
      <4>1. x \in ToSet(items)
        BY <3>3, <3>5 DEF ToSet
      <4>2. RunOf(x) # run /\ Old(x)
        BY <1>3, <1>4, <3>1, <3>5, <4>1
      <4>3. Working = items
        BY <3>1 DEF Working
      <4>4. \A y \in ToSet(items) : IsEssential(y) /\ RunOf(y) = RunOf(x)
                                    => y \in ToSet(conversation)
        BY <4>2, <4>3 DEF WithinInv
      <4>5. x \in ToSet(conversation)
        BY <1>4, <4>1, <4>4
      <4>6. \A y \in ToSet(items) : Lasting(y) /\ RunOf(y) = RunOf(x) /\ OfResponse(y)
                                    => y \in ToSet(conversation)
        BY <4>4 DEF Lasting
      <4>7. Partners(ToSet(conversation), x)
        BY <3>4, <4>2, <4>6, PartnerFacts
      <4> QED
        BY <2>2, <4>2, <4>5, <4>7
    <3>6. CASE Answer # << >>
      <4>1. Naming
        BY <1>1, <2>1 DEF IdInv
      <4>2. current # 0 /\ current \in DOMAIN server
        BY <1>1, <1>7, <3>1 DEF ClientInv
      <4>3. ~ Blank(collector)
        BY <3>6, BlankAnswer
      <4>4. Announced(prev, storedId, current)
        BY <1>1, <3>1, <4>1, <4>2, <4>3 DEF NamedInv, Announcing, Unannounced
      <4>5. storedId' = current
        BY <1>9, <2>1, <4>4 DEF Announced
      <4>6. CASE x \in ToSet(items)
        <5>1. Old(x)
          BY <1>3, <4>6
        <5>2. In(Knows(current), x)
          BY <3>1, <3>4, <4>2, <4>6, <5>1, AheadCovers
        <5> QED
          BY <1>5, <4>2, <4>5, <5>2 DEF Goal
      <4>7. CASE x \in ToSet(Answer)
        <5>1. x.k = "text" /\ x.of = current /\ collector.text # 0
          BY <1>4, <3>2, <4>7 DEF IsEssential
        <5>2. ~ Has("wire")
          BY <4>1 DEF Naming
        <5>3. In(Knows(current), x)
          BY <3>1, <5>1, <5>2, CollectedIsSaid
        <5> QED
          BY <1>5, <4>2, <4>5, <5>3 DEF Goal
      <4> QED
        BY <3>3, <4>6, <4>7
    <3> QED
      BY <3>5, <3>6
  <2>11. CASE Recording
    <3>1. PICK M : /\ \A y \in M : ~ IsEssential(y)
                   /\ ToSet(conversation') = ToSet(conversation) \cup M
      BY <1>2, <2>11, RecordedSets
    <3>2. phase' = phase /\ run' = run
      BY <2>11 DEF Recording, runHistory
    <3>3. x \in ToSet(conversation)
      BY <1>4, <3>1
    <3>4. Partners(ToSet(conversation), x)
      BY <3>1 DEF Partners, IsEssential
    <3> QED
      BY <1>3, <2>2, <3>2, <3>3, <3>4
  <2> QED
    BY <1>1, <2>4, <2>5, <2>6, <2>7, <2>8, <2>9, <2>10, <2>11, Moves, Zenon
<1> QED
  BY <1>8, <1>9, IdSteps

ResumedInv ==
  /\ Ground /\ AskedInv /\ DistinctInv /\ WithinInv /\ BeginInv
  /\ ContextInv /\ NewInv /\ LocalInv /\ AheadInv /\ StoredIdInv /\ CursorInv

LEMMA ResumedInit ==
  ASSUME Init
  PROVE  ResumedInv
<1>1. /\ server = << >> /\ chan = << >> /\ net = "idle" /\ frames = << >> /\ current = 0
      /\ conversation = << >> /\ rows = << >> /\ items = << >> /\ phase = "idle"
      /\ collector = NoAnswer /\ storedId = 0 /\ prev = 0 /\ run = 0
      /\ pending = << >> /\ spawned = {}
  BY DEF Init, ProviderInit, NoStream
<1>2. collector.calls = << >> /\ collector.partials = {} /\ ~ collector.thought
  BY <1>1 DEF NoAnswer
<1>e. /\ DOMAIN << >> = {} /\ ToSet(<< >>) = {} /\ Distinct(<< >>)
      /\ Working = << >> /\ Waiting = {}
  BY <1>1, SetNone DEF Working, Waiting
<1>3. IInv /\ TalliedInv
  BY InitHolds, TalliedInit
<1>4. NumInv
  BY <1>1, <1>2, <1>e DEF NumInv
<1>5. IdInv
  BY <1>1, <1>2, <1>e DEF IdInv, NoIds
<1>6. NamedInv
  BY <1>1 DEF NamedInv
<1>7. SpeaksInv
  BY <1>1, <1>e DEF SpeaksInv
<1>8. Ground
  BY <1>3, <1>4, <1>5, <1>6, <1>7 DEF Ground, TalliedInv
<1>9. AskedInv
  BY <1>1, <1>e DEF AskedInv, AskedBy
<1>10. DistinctInv
  BY <1>1, <1>e DEF DistinctInv
<1>11. WithinInv
  BY <1>1, <1>e DEF WithinInv
<1>12. BeginInv /\ NewInv /\ LocalInv /\ AheadInv /\ StoredIdInv /\ CursorInv
  BY <1>1 DEF BeginInv, NewInv, LocalInv, AheadInv, StoredIdInv, CursorInv
<1>13. ContextInv
  BY <1>1, <1>e DEF ContextInv
<1> QED
  BY <1>8, <1>9, <1>10, <1>11, <1>12, <1>13 DEF ResumedInv

LEMMA GroundStep ==
  ASSUME TalliedInv, Ground, [Next]_vars
  PROVE  Ground'
<1>1. /\ IInv /\ ClientInv /\ ServerInv /\ DecoderInv /\ FrameInv /\ EventInv
      /\ OutInv /\ NumInv /\ IdInv /\ NamedInv /\ SpeaksInv
  BY DEF Ground, IInv
<1>2. IInv' /\ TalliedInv'
  BY <1>1, StepHolds, TalliedStep
<1>3. NumInv'
  BY <1>1, NumStep
<1>4. IdInv'
  BY <1>1, IdInvStep
<1>5. NamedInv'
  BY <1>1, NamedStep
<1>6. SpeaksInv'
  BY <1>1, SpeaksStep
<1> QED
  BY <1>2, <1>3, <1>4, <1>5, <1>6 DEF Ground, TalliedInv

LEMMA ResumedStep ==
  ASSUME TalliedInv, ResumedInv, [Next]_vars
  PROVE  ResumedInv'
<1>1. /\ Ground /\ AskedInv /\ DistinctInv /\ WithinInv /\ BeginInv
      /\ ContextInv /\ NewInv /\ LocalInv /\ AheadInv /\ StoredIdInv /\ CursorInv
  BY DEF ResumedInv
<1>2. Ground'
  BY <1>1, GroundStep
<1>3. IInv'
  BY <1>2 DEF Ground
<1>4. AskedInv'
  BY <1>1, <1>3, AskedStep
<1>5. DistinctInv'
  BY <1>1, DistinctStep
<1>6. WithinInv'
  BY <1>1, WithinStep
<1>7. BeginInv'
  BY <1>1, BeginStep
<1>8. ContextInv'
  BY <1>1, <1>3, ContextStep
<1>9. NewInv'
  BY <1>1, <1>3, NewStep
<1>10. LocalInv'
  BY <1>1, LocalStep
<1>11. AheadInv'
  BY <1>1, <1>3, AheadStep
<1>12. StoredIdInv'
  BY <1>1, <1>3, StoredIdStep
<1>13. CursorInv'
  BY <1>1, <1>3, CursorInvStep
<1> QED
  BY <1>2, <1>4, <1>5, <1>6, <1>7, <1>8, <1>9, <1>10, <1>11, <1>12, <1>13 DEF ResumedInv

\* A resumed response has before it, once each, all the messages, files, answers,
\* calls and outputs that a full replay would have sent, those of unanswered runs
\* and those that were cut off excepted. The output of a shell command is none of
\* these, and it may miss that. The argument: what is before the cursor the response
\* it resumes has already, what is behind it is new to it
\* (incremental_request_cursor, request_cursor).
THEOREM ResumedLacksNothing == Spec => []ResumeMissesNothing
<1>1. Init => TalliedInv /\ ResumedInv
  BY TalliedInit, ResumedInit
<1>2. TalliedInv /\ ResumedInv /\ [Next]_vars => TalliedInv' /\ ResumedInv'
  <2> SUFFICES ASSUME TalliedInv, ResumedInv, [Next]_vars
               PROVE  TalliedInv' /\ ResumedInv'
    OBVIOUS
  <2>1. IInv
    BY DEF ResumedInv, Ground
  <2> QED
    BY <2>1, TalliedStep, ResumedStep
<1>3. ASSUME ResumedInv
      PROVE  ResumeMissesNothing
  <2> SUFFICES ASSUME Resumed, NEW x \in Essential, RunOf(x) \notin unanswered, ~ WasCut(x)
               PROVE  Seen(x) = 1
    BY DEF ResumeMissesNothing
  <2>1. Ground /\ ContextInv /\ AheadInv /\ ClientInv /\ ServerInv
    BY <1>3 DEF ResumedInv, Ground, IInv
  <2>2. phase = "stream" /\ current # 0
    BY <2>1 DEF Resumed, ClientInv
  <2>3. current \in DOMAIN server
    BY <2>1, <2>2, GroundFacts DEF ClientInv
  <2>4. PICK s : s = server[current].context
    OBVIOUS
  <2>5. x \in ToSet(request.local) /\ IsEssential(x) /\ Old(x)
    BY DEF Essential, IsEssential, Old
  <2>6. In(Ahead, x)
    BY <2>1, <2>2, <2>5 DEF AheadInv
  <2>7. In(s, x)
    BY <2>2, <2>4, <2>6 DEF Ahead
  <2>8. Distinct(s)
    BY <2>1, <2>3, <2>4 DEF ContextInv, Clean
  <2>9. Cardinality({j \in DOMAIN s : Same(s[j], x)}) = 1
    BY <2>5, <2>7, <2>8, OnceIn
  <2> QED
    BY <2>4, <2>9 DEF Seen
<1> QED
  BY <1>1, <1>2, <1>3, PTL DEF Spec

=============================================================================
