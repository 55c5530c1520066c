-------------------------- MODULE AgentLoop_proofs --------------------------
(***************************************************************************)
(* Proofs about the agent of a session and its requests: what AgentLoop    *)
(* promises for every set of tools, every limit and every profile.         *)
(***************************************************************************)
EXTENDS AgentLoop, LeastElements

-----------------------------------------------------------------------------
(* The inductive invariant *)

EventTypes == Contents \cup Markers \cup {"id", "done", "delta", "call", "retrying"}
Events == [type : EventTypes, of : Nat, n : Nat, tool : Tools \cup {Nothing}]
CallEvents == [type : {"call", "delta"}, of : Nat, n : Nat, tool : Tools]
IsCall(e) == e.type \in {"call", "delta"}

\* The symbols of a body, and the bytes of one that is cut anywhere.
Symbols == Tools \cup Contents \cup Markers
Bytes == {"text", CR, LF}

IsResponse(r) ==
  /\ r = [f \in {"context", "run", "out", "said", "announced", "open", "complete"} |-> r[f]]
  /\ r.out \in Seq(Items) /\ r.said \in Nat
  /\ r.announced \in BOOLEAN /\ r.open \in BOOLEAN /\ r.complete \in BOOLEAN

IsAnswer(c) ==
  /\ c = [f \in {"text", "thought", "partials", "calls", "done"} |-> c[f]]
  /\ c.text \in 0 .. MaxText /\ c.thought \in BOOLEAN /\ c.done \in BOOLEAN
  /\ c.calls \in Seq(CallEvents)
  /\ c.partials \subseteq CallEvents /\ IsFiniteSet(c.partials)

\* The request goes through its states; an attempt has spoken only if it got as
\* far as a body, and after that there is no further attempt.
ClientInv ==
  /\ profile \in Profiles /\ faults \in 0 .. profile.faults
  /\ net \in {"idle", "sent", "open", "done"}
  /\ phase = "stream" <=> net # "idle"
  /\ attempt \in 0 .. MaxAttempts /\ (net # "idle" => attempt # 0)
  /\ spoke \subseteq {attempt} /\ emitted \in BOOLEAN
  /\ outcome \in {"none", "ok"} \cup Errors
  /\ net \in {"idle", "sent"} => current = 0 /\ spoke = {}
  /\ net # "open" => frames = << >>
  /\ net = "idle" => chan = << >>
  /\ net = "open" \/ outcome = "ok" => current # 0
  /\ current # 0 => current = Len(server)

\* What the endpoint knows; the call a response has announced is its last item.
CallAtEnd(r) == r.out # << >> /\ Last(r.out).k = "call" /\ Last(r.out).tool \in Tools

ServerInv ==
  /\ server \in Seq(ToSet(server))
  /\ \A r \in DOMAIN server : /\ IsResponse(server[r])
                              /\ server[r].open => CallAtEnd(server[r])

\* What the decoder holds and what it has found.
DecoderInv ==
  /\ decoder \in [buffer : Seq(Bytes), scan : Nat]
  /\ Len(decoder.buffer) <= MaxBuffer /\ decoder.scan <= Len(decoder.buffer)

Fits(fs, r, with) ==
  \A k \in DOMAIN fs :
    fs[k][1] \in Tools \cup {"close"} =>
      /\ Len(fs) = 1 /\ CallAtEnd(r)
      /\ fs[k][1] = "close" \/ "added" \notin with => ~ r.open

FrameInv ==
  /\ frames \in Seq(Seq(Symbols) \ {<< >>})
  /\ Fits(frames, server[current], profile.with)

\* The events on their way and what has been collected of them belong to the
\* response that is being streamed.
Belong(events, answer, response) ==
  /\ \A i \in DOMAIN events :
       /\ events[i].type # "retrying" => events[i].of = response /\ response # 0
       /\ IsCall(events[i]) => events[i].tool \in Tools
  /\ \A j \in DOMAIN answer.calls : answer.calls[j].of = response
  /\ \A p \in answer.partials : p.of = response
  /\ response = 0 => answer.text = 0 /\ answer.calls = << >> /\ answer.partials = {}

EventInv ==
  /\ chan \in Seq(Events) /\ Len(chan) <= Capacity
  /\ IsAnswer(collector) /\ Belong(chan, collector, current)

\* The calls of the response are told apart by their numbers, and the end of a
\* call comes after its beginning.
Pending(type) == frames # << >> /\ frames[1][1] \in type
Latest == IF current = 0 THEN 0 ELSE CallsOf(current)
LastBegun == IF Pending(Tools) THEN Latest - 1 ELSE Latest
LastEnded ==
  IF Pending(Tools \cup {"close"}) \/ (current # 0 /\ server[current].open)
    THEN Latest - 1 ELSE Latest

Numbered(events, calls, partials, begun, ended) ==
  /\ \A i, j \in DOMAIN calls : calls[i].n = calls[j].n => i = j
  /\ \A p, q \in partials : p.n = q.n => p = q
  /\ \A p \in partials : \A j \in DOMAIN calls : p.n # calls[j].n
  /\ \A i, j \in DOMAIN events :
       /\ IsCall(events[i]) /\ events[i].type = events[j].type /\ events[i].n = events[j].n
          => i = j
       /\ events[i].type = "delta" /\ events[j].type = "call" /\ events[i].n = events[j].n
          => i < j
  /\ \A i \in DOMAIN events : \A j \in DOMAIN calls : IsCall(events[i]) => events[i].n # calls[j].n
  /\ \A i \in DOMAIN events : \A p \in partials : events[i].type = "delta" => events[i].n # p.n
  /\ \A j \in DOMAIN calls : calls[j].n <= ended
  /\ \A p \in partials : p.n <= begun
  /\ \A i \in DOMAIN events : /\ events[i].type = "call" => events[i].n <= ended
                              /\ events[i].type = "delta" => events[i].n <= begun

NumberInv == Numbered(chan, collector.calls, collector.partials, LastBegun, LastEnded)

\* The calls of the round that have no output yet are calls of one response.
Waiting == spawned \cup ToSet(pending)

ToldApart(next, started) ==
  /\ \A i, j \in DOMAIN next : /\ next[i].of = next[j].of
                               /\ next[i].n = next[j].n => i = j
  /\ \A c, d \in started : c.of = d.of /\ (c.n = d.n => c = d)
  /\ \A c \in started : /\ c.tool \in Spawns
                         /\ \A j \in DOMAIN next : c.of = next[j].of /\ c.n # next[j].n

CallInv ==
  /\ phase \in {"idle", "begin", "request", "stream", "calls", "approval", "approved",
                "executing"}
  /\ pending \in Seq(CallEvents) /\ spawned \subseteq CallEvents
  /\ phase \in {"idle", "begin", "request", "stream"} => pending = << >> /\ spawned = {}
  /\ phase \in {"approval", "approved", "executing"} =>
       pending # << >> /\ pending[1].tool \notin decided
  /\ ToldApart(pending, spawned)

\* Every verdict of the run is remembered, or its call is being executed.
Verdict(c) == [tool |-> c.tool, of |-> c.of, n |-> c.n]

VerdictInv ==
  /\ decided \subseteq Tools
  /\ verdicts \subseteq [tool : Tools, of : Nat, n : Nat]
  /\ phase # "idle" =>
       \A v \in verdicts : \/ v.tool \in decided
                           \/ phase = "executing" /\ v = Verdict(pending[1])
                           \/ \E c \in spawned : v = Verdict(c)
  /\ OneVerdict

\* A conversation, whether it is kept as items or as rows: calls and outputs are
\* told apart, and an output is behind its call.
Orderly(s) ==
  /\ \A i, j \in DOMAIN s : /\ s[i].k = s[j].k /\ s[i].k \in {"call", "output"}
                            /\ SameCall(s[i], s[j])
                            => i = j
  /\ \A i, j \in DOMAIN s : s[i].k = "call" /\ s[j].k = "output" /\ SameCall(s[i], s[j]) => i < j

OfResponse(x) == x.k \in {"text", "call", "output"}

\* It holds nothing of the response that is being streamed.
KnownTo(s, responses, streamed) ==
  \A i \in DOMAIN s : OfResponse(s[i]) => s[i].of \in 1 .. responses /\ s[i].of # streamed

Sound(s, responses, streamed) ==
  s \in Seq(Items) /\ Orderly(s) /\ KnownTo(s, responses, streamed)

\* It has no output of these calls.
NoOutput(s, calls) == \A c \in calls : \A i \in DOMAIN s : ~ (s[i].k = "output" /\ SameCall(s[i], c))

ItemInv ==
  /\ Sound(conversation, Len(server), current)
  /\ Sound(items, Len(server), current) /\ Sound(rows, Len(server), current)
  /\ NoOutput(items, Waiting) /\ NoOutput(rows, Waiting)
  /\ \A c \in Waiting : c.of \in 1 .. Len(server)

\* A full replay is paired.
RequestInv == PairsReplayed

\* The rows have what the run has added.
From(s, b) == SubSeq(s, b + 1, Len(s))
SameRows(s, t) == Without(s, "reasoning") = Without(t, "shell")

StoredInv ==
  /\ base.items \in Nat /\ base.rows \in Nat /\ base.rewritten \in BOOLEAN
  /\ base = [f \in {"items", "rows", "rewritten"} |-> base[f]]
  /\ phase # "idle" /\ ~ base.rewritten =>
       /\ base.items <= Len(items) /\ base.rows <= Len(rows)
       /\ SameRows(From(items, base.items), From(rows, base.rows))

\* The rest of the state.
RestInv ==
  /\ {storedId, partial, prev} \cup displayed \subseteq 0 .. Len(server)
  /\ run \in 0 .. profile.runs /\ (phase # "idle" => run # 0)
  /\ phase = "idle" => items = << >>
  /\ cursor \in 0 .. Len(items) /\ retries \in 0 .. MaxOverflowRetries
  /\ mode \in {"build", "plan"} /\ allowed \subseteq Tools /\ unanswered \subseteq 1 .. run

IInv ==
  /\ ClientInv /\ ServerInv /\ DecoderInv /\ FrameInv /\ EventInv /\ NumberInv
  /\ CallInv /\ VerdictInv /\ ItemInv /\ RequestInv /\ StoredInv /\ RestInv

-----------------------------------------------------------------------------
(* Sequences *)

\* What is left of a sequence after its first b elements.
LEMMA FromFacts ==
  ASSUME NEW X, NEW q \in Seq(X), NEW b \in 0 .. Len(q)
  PROVE  /\ From(q, b) \in Seq(X) /\ Len(q) \in Nat /\ Len(From(q, b)) = Len(q) - b
         /\ DOMAIN From(q, b) = 1 .. Len(q) - b
         /\ \A i \in 1 .. Len(q) - b : From(q, b)[i] = q[b + i]
<1>1. Len(q) \in Nat /\ \A i \in 1 .. Len(q) : q[i] \in X
  BY LenProperties, ElementOfSeq
<1>2. /\ b + 1 \in Int /\ Len(q) \in Int /\ Len(q) - (b + 1) + 1 = Len(q) - b
      /\ \A i \in b + 1 .. Len(q) : q[i] \in X
      /\ \A i \in Int : (b + 1) + i - 1 = b + i
  BY <1>1
<1> DEFINE r == From(q, b)
<1>3. /\ r \in Seq(X)
      /\ Len(r) = IF b + 1 <= Len(q) THEN Len(q) - (b + 1) + 1 ELSE 0
      /\ \A i \in 1 .. Len(q) - (b + 1) + 1 : r[i] = q[(b + 1) + i - 1]
  BY <1>2, SubSeqProperties DEF From
<1>4. DOMAIN r = 1 .. Len(r)
  BY <1>3, LenProperties
<1> HIDE DEF r
<1>5. Len(r) = Len(q) - b
  BY <1>1, <1>3
<1>6. ASSUME NEW i \in 1 .. Len(q) - b
      PROVE  r[i] = q[b + i]
  <2>1. i \in 1 .. Len(q) - (b + 1) + 1 /\ (b + 1) + i - 1 = b + i
    BY <1>1
  <2> QED
    BY <1>3, <2>1
<1> QED
  BY <1>1, <1>3, <1>4, <1>5, <1>6 DEF r

LEMMA FromConcat ==
  ASSUME NEW X, NEW q \in Seq(X), NEW r \in Seq(X), NEW b \in 0 .. Len(q)
  PROVE  From(q \o r, b) = From(q, b) \o r
<1> DEFINE n == Len(q)
           m == Len(r)
           c == q \o r
           left == From(c, b)
           f == From(q, b)
           right == f \o r
<1>1. /\ c \in Seq(X) /\ n \in Nat /\ m \in Nat /\ Len(c) = n + m
      /\ \A i \in 1 .. n : c[i] = q[i]
      /\ \A i \in n + 1 .. n + m : c[i] = r[i - n]
  BY ConcatFacts
<1>2. b \in 0 .. n /\ b \in 0 .. Len(c)
  BY <1>1
<1>3. f \in Seq(X) /\ Len(f) = n - b /\ \A i \in 1 .. n - b : f[i] = q[b + i]
  BY FromFacts
<1> HIDE DEF c, n, m
<1>4. left \in Seq(X) /\ Len(left) = n + m - b /\ \A i \in 1 .. n + m - b : left[i] = c[b + i]
  <2>1. /\ left \in Seq(X) /\ Len(left) = Len(c) - b
        /\ \A i \in 1 .. Len(c) - b : left[i] = c[b + i]
    <3>1. c \in Seq(X)
      BY <1>1
    <3>2. b \in 0 .. Len(c)
      BY <1>2
    <3> QED
      BY <3>1, <3>2, FromFacts, ZenonT(40)
  <2> HIDE DEF left
  <2> QED
    BY <1>1, <2>1
<1> HIDE DEF f, left
<1>5. /\ right \in Seq(X) /\ Len(right) = (n - b) + m
      /\ \A i \in 1 .. n - b : right[i] = f[i]
      /\ \A i \in (n - b) + 1 .. (n - b) + m : right[i] = r[i - (n - b)]
  <2>1. /\ right \in Seq(X) /\ Len(right) = Len(f) + Len(r)
        /\ \A i \in 1 .. Len(f) : right[i] = f[i]
        /\ \A i \in Len(f) + 1 .. Len(f) + Len(r) : right[i] = r[i - Len(f)]
    <3>1. f \in Seq(X)
      BY <1>3
    <3> QED
      BY <3>1, ConcatFacts, ZenonT(40)
  <2> HIDE DEF right
  <2> QED
    BY <1>3, <2>1 DEF m
<1> HIDE DEF right
<1>6. Len(left) = Len(right)
  BY <1>1, <1>2, <1>4, <1>5
<1>7. ASSUME NEW i \in 1 .. Len(left)
      PROVE  left[i] = right[i]
  <2>1. CASE i <= n - b
    <3>1. i \in 1 .. n - b /\ b + i \in 1 .. n
      BY <1>1, <1>2, <1>4, <2>1
    <3> QED
      BY <1>1, <1>3, <1>4, <1>5, <3>1
  <2>2. CASE ~ (i <= n - b)
    <3>1. /\ i \in (n - b) + 1 .. (n - b) + m /\ b + i \in n + 1 .. n + m
          /\ (b + i) - n = i - (n - b)
      BY <1>1, <1>2, <1>4, <2>2, SMTT(40)
    <3> QED
      BY <1>1, <1>4, <1>5, <3>1
  <2> QED
    BY <2>1, <2>2
<1>8. left = right
  BY <1>4, <1>5, <1>6, <1>7, SeqEqual
<1> QED
  BY <1>8 DEF left, right, c, f

-----------------------------------------------------------------------------
(* Kept: what a sequence has at some of its positions *)

\* What the recursion in Kept says of its function.
Collects(f, s, P) ==
  /\ f[0] = << >>
  /\ \A n \in 1 .. Len(s) : f[n] = IF n \in P THEN Append(f[n - 1], s[n]) ELSE f[n - 1]

\* Its function exists: it grows from each number to the next.
LEMMA CollectorExists ==
  ASSUME NEW s, Len(s) \in Nat, NEW P
  PROVE  \E f : f = [n \in 0 .. Len(s) |->
                       IF n = 0 THEN << >>
                       ELSE IF n \in P THEN Append(f[n - 1], s[n]) ELSE f[n - 1]]
<1> DEFINE L == Len(s)
           Step(f, m) == [n \in 0 .. m |->
                            IF n = 0 THEN << >>
                            ELSE IF n \in P THEN Append(f[n - 1], s[n]) ELSE f[n - 1]]
           T == {m \in Nat : \E f : f = Step(f, m)}
<1>1. 0 \in T
  <2> DEFINE f == [n \in 0 .. 0 |-> << >>]
  <2>1. \A n \in 0 .. 0 : n = 0
    OBVIOUS
  <2>2. f = Step(f, 0)
    BY <2>1
  <2> HIDE DEF f, Step
  <2>3. \E g : g = Step(g, 0)
    BY <2>2
  <2> QED
    BY <2>3
<1>2. ASSUME NEW m \in Nat, m \in T
      PROVE  m + 1 \in T
  <2>1. PICK f : f = Step(f, m)
    <3> HIDE DEF Step
    <3> QED
      BY <1>2
  <2> DEFINE last == IF m + 1 \in P THEN Append(f[m], s[m + 1]) ELSE f[m]
             g == [n \in 0 .. m + 1 |-> IF n = m + 1 THEN last ELSE f[n]]
  <2>2. \A n \in 0 .. m : f[n] = IF n = 0 THEN << >>
                                 ELSE IF n \in P THEN Append(f[n - 1], s[n]) ELSE f[n - 1]
    BY <2>1
  <2> HIDE <2>1
  <2>3. g[m + 1] = last /\ g = [n \in 0 .. m + 1 |-> g[n]]
    OBVIOUS
  <2>4. \A n \in 0 .. m : g[n] = f[n]
    OBVIOUS
  <2> HIDE DEF g
  <2>5. ASSUME NEW n \in 0 .. m + 1
        PROVE  g[n] = IF n = 0 THEN << >>
                      ELSE IF n \in P THEN Append(g[n - 1], s[n]) ELSE g[n - 1]
    <3>1. CASE n = m + 1
      <4>1. n # 0 /\ n - 1 = m /\ g[m] = f[m]
        BY <2>4, <3>1
      <4> QED
        BY <2>3, <3>1, <4>1
    <3>2. CASE n \in 1 .. m
      <4>1. g[n] = f[n] /\ g[n - 1] = f[n - 1] /\ n # 0
        BY <2>4, <3>2
      <4> QED
        BY <2>2, <3>2, <4>1
    <3>3. CASE n = 0
      BY <2>2, <2>4, <3>3
    <3> QED
      BY <3>1, <3>2, <3>3
  <2>6. g = Step(g, m + 1)
    BY <2>3, <2>5
  <2> HIDE DEF Step
  <2> QED
    BY <2>6
<1>3. Nat \subseteq T
  <2> HIDE DEF T
  <2> QED
    BY <1>1, <1>2, SetInduction
<1> HIDE DEF Step
<1>4. \E f : f = Step(f, L)
  BY <1>3
<1> QED
  BY <1>4 DEF Step

LEMMA KeptCollects ==
  ASSUME NEW s, Len(s) \in Nat, NEW P
  PROVE  \E f : Collects(f, s, P) /\ Kept(s, P) = f[Len(s)]
<1> DEFINE Step(f) == [n \in 0 .. Len(s) |->
                         IF n = 0 THEN << >>
                         ELSE IF n \in P THEN Append(f[n - 1], s[n]) ELSE f[n - 1]]
           c == CHOOSE f : f = Step(f)
<1>1. Kept(s, P) = c[Len(s)]
  BY DEF Kept
<1>2. c = Step(c)
  <2>1. \E f : f = Step(f)
    BY CollectorExists
  <2> HIDE DEF Step
  <2> QED
    BY <2>1
<1> HIDE DEF c
<1>3. c[0] = << >>
  <2>1. 0 \in 0 .. Len(s)
    OBVIOUS
  <2> QED
    BY <1>2, <2>1
<1>4. ASSUME NEW n \in 1 .. Len(s)
      PROVE  c[n] = IF n \in P THEN Append(c[n - 1], s[n]) ELSE c[n - 1]
  <2>1. n \in 0 .. Len(s) /\ n # 0
    OBVIOUS
  <2> QED
    BY <1>2, <2>1
<1>5. Collects(c, s, P)
  BY <1>3, <1>4 DEF Collects
<1> QED
  BY <1>1, <1>5

\* Where two sequences agree, so does what is kept of them.
LEMMA CollectsAgree ==
  ASSUME NEW s, NEW t, NEW P, NEW Q, NEW f, NEW g, Collects(f, s, P), Collects(g, t, Q),
         NEW m \in Nat, m <= Len(s), m <= Len(t), Len(s) \in Nat, Len(t) \in Nat,
         \A i \in 1 .. m : s[i] = t[i] /\ (i \in P <=> i \in Q)
  PROVE  f[m] = g[m]
<1> DEFINE T == {n \in Nat : n <= m => f[n] = g[n]}
<1>1. 0 \in T
  BY DEF Collects
<1>2. ASSUME NEW n \in Nat, n \in T
      PROVE  n + 1 \in T
  <2> SUFFICES ASSUME n + 1 <= m
               PROVE  f[n + 1] = g[n + 1]
    OBVIOUS
  <2>1. f[n] = g[n] /\ n + 1 \in 1 .. m /\ n + 1 \in 1 .. Len(s) /\ n + 1 \in 1 .. Len(t)
        /\ (n + 1) - 1 = n
    BY <1>2
  <2>2. /\ f[n + 1] = IF n + 1 \in P THEN Append(f[n], s[n + 1]) ELSE f[n]
        /\ g[n + 1] = IF n + 1 \in Q THEN Append(g[n], t[n + 1]) ELSE g[n]
    BY <2>1 DEF Collects
  <2> QED
    BY <2>1, <2>2
<1>3. Nat \subseteq T
  <2> HIDE DEF T
  <2> QED
    BY <1>1, <1>2, SetInduction
<1> QED
  BY <1>3

\* The positions of what is kept, in order.
Positions(idx, s, P, k) ==
  /\ idx \in Seq(1 .. Len(s)) /\ Len(idx) = Len(k)
  /\ \A i \in 1 .. Len(k) : k[i] = s[idx[i]] /\ idx[i] \in P
  /\ \A i, j \in 1 .. Len(k) : i < j => idx[i] < idx[j]
  /\ \A p \in P : p \in 1 .. Len(s) => \E i \in 1 .. Len(k) : idx[i] = p

LEMMA KeptPositions ==
  ASSUME NEW X, NEW s \in Seq(X), NEW P
  PROVE  Kept(s, P) \in Seq(X) /\ \E idx : Positions(idx, s, P, Kept(s, P))
<1> DEFINE L == Len(s)
           Reached(n, k) ==
             \E idx \in Seq(1 .. L) :
               /\ Len(idx) = Len(k)
               /\ \A i \in 1 .. Len(k) : k[i] = s[idx[i]] /\ idx[i] \in P /\ idx[i] <= n
               /\ \A i, j \in 1 .. Len(k) : i < j => idx[i] < idx[j]
               /\ \A p \in P : p \in 1 .. n => \E i \in 1 .. Len(k) : idx[i] = p
<1>1. L \in Nat /\ \A i \in 1 .. L : s[i] \in X
  BY LenProperties, ElementOfSeq
<1>2. PICK f : Collects(f, s, P) /\ Kept(s, P) = f[L]
  BY <1>1, KeptCollects
<1> DEFINE T == {n \in Nat : n <= L => f[n] \in Seq(X) /\ Reached(n, f[n])}
<1> HIDE DEF L
<1>3. 0 \in T
  <2>1. f[0] = << >> /\ << >> \in Seq(X) /\ Len(<< >>) = 0 /\ << >> \in Seq(1 .. L)
    BY <1>2 DEF Collects
  <2>2. Reached(0, << >>)
    <3>1. \A i \in 1 .. 0 : FALSE
      OBVIOUS
    <3> QED
      BY <2>1, <3>1
  <2> HIDE DEF Reached
  <2> QED
    BY <2>1, <2>2
<1>4. ASSUME NEW n \in Nat, n \in T
      PROVE  n + 1 \in T
  <2> SUFFICES ASSUME n + 1 <= L
               PROVE  f[n + 1] \in Seq(X) /\ Reached(n + 1, f[n + 1])
    BY SMTT(40)
  <2> DEFINE k == f[n]
  <2>1. k \in Seq(X) /\ Reached(n, k)
    BY <1>1, <1>4
  <2>2. n + 1 \in 1 .. L /\ (n + 1) - 1 = n /\ s[n + 1] \in X
    BY <1>1
  <2>3. f[n + 1] = IF n + 1 \in P THEN Append(k, s[n + 1]) ELSE k
    BY <1>2, <2>2 DEF Collects, L
  <2> HIDE DEF k
  <2>4. PICK idx \in Seq(1 .. L) :
          /\ Len(idx) = Len(k)
          /\ \A i \in 1 .. Len(k) : k[i] = s[idx[i]] /\ idx[i] \in P /\ idx[i] <= n
          /\ \A i, j \in 1 .. Len(k) : i < j => idx[i] < idx[j]
          /\ \A p \in P : p \in 1 .. n => \E i \in 1 .. Len(k) : idx[i] = p
    BY <2>1
  <2>5. CASE n + 1 \notin P
    <3>1. f[n + 1] = k
      BY <2>3, <2>5
    <3>2. \A p \in P : p \in 1 .. n + 1 => p \in 1 .. n
      BY <2>5
    <3>3. Len(k) \in Nat /\ \A i \in 1 .. Len(idx) : idx[i] \in 1 .. L
      BY <2>1, <2>4, LenProperties, ElementOfSeq
    <3>4. \A i \in 1 .. Len(k) : k[i] = s[idx[i]] /\ idx[i] \in P /\ idx[i] <= n + 1
      BY <2>4, <3>3
    <3>5. \A p \in P : p \in 1 .. n + 1 => \E i \in 1 .. Len(k) : idx[i] = p
      BY <2>4, <3>2
    <3>6. Reached(n + 1, k)
      BY <2>4, <3>4, <3>5
    <3> HIDE DEF Reached
    <3> QED
      BY <2>1, <3>1, <3>6
  <2>6. CASE n + 1 \in P
    <3> DEFINE a == Append(k, s[n + 1])
               ix == Append(idx, n + 1)
    <3>1. f[n + 1] = a
      BY <2>3, <2>6
    <3>2. /\ a \in Seq(X) /\ Len(a) = Len(k) + 1 /\ a[Len(k) + 1] = s[n + 1]
          /\ \A i \in 1 .. Len(k) : a[i] = k[i]
          /\ Len(k) \in Nat
      BY <2>1, <2>2, OneMore
    <3>3. /\ ix \in Seq(1 .. L) /\ Len(ix) = Len(k) + 1 /\ ix[Len(k) + 1] = n + 1
          /\ \A i \in 1 .. Len(k) : ix[i] = idx[i]
      <4>1. /\ ix \in Seq(1 .. L) /\ Len(ix) = Len(idx) + 1 /\ ix[Len(idx) + 1] = n + 1
            /\ \A i \in 1 .. Len(idx) : ix[i] = idx[i]
        BY <2>2, <2>4, OneMore
      <4> HIDE DEF ix
      <4> QED
        BY <2>4, <4>1
    <3>4. \A i \in 1 .. Len(k) : idx[i] \in 1 .. L
      BY <2>4, LenProperties, ElementOfSeq
    <3> HIDE DEF a, ix
    <3>5. Len(ix) = Len(a)
      BY <3>2, <3>3
    <3>6. ASSUME NEW i \in 1 .. Len(a)
          PROVE  a[i] = s[ix[i]] /\ ix[i] \in P /\ ix[i] <= n + 1
      <4>1. CASE i = Len(k) + 1
        BY <2>6, <3>2, <3>3, <4>1
      <4>2. CASE i \in 1 .. Len(k)
        <5>1. a[i] = k[i] /\ ix[i] = idx[i] /\ idx[i] \in 1 .. L
          BY <3>2, <3>3, <3>4, <4>2
        <5>2. k[i] = s[idx[i]] /\ idx[i] \in P /\ idx[i] <= n
          BY <2>4, <4>2
        <5> QED
          BY <5>1, <5>2
      <4> QED
        BY <3>2, <4>1, <4>2
    <3>7. ASSUME NEW i \in 1 .. Len(a), NEW j \in 1 .. Len(a), i < j
          PROVE  ix[i] < ix[j]
      <4>1. i \in 1 .. Len(k) /\ ix[i] = idx[i] /\ idx[i] \in 1 .. L /\ idx[i] <= n
        BY <2>4, <3>2, <3>3, <3>4, <3>7
      <4>2. CASE j = Len(k) + 1
        BY <3>3, <4>1, <4>2
      <4>3. CASE j \in 1 .. Len(k)
        <5>1. ix[j] = idx[j] /\ idx[i] < idx[j]
          BY <2>4, <3>3, <3>7, <4>1, <4>3
        <5> QED
          BY <4>1, <5>1
      <4> QED
        BY <3>2, <4>2, <4>3
    <3>8. ASSUME NEW p \in P, p \in 1 .. n + 1
          PROVE  \E i \in 1 .. Len(a) : ix[i] = p
      <4>1. CASE p = n + 1
        <5>1. Len(k) + 1 \in 1 .. Len(a)
          BY <3>2
        <5> QED
          BY <3>3, <4>1, <5>1
      <4>2. CASE p \in 1 .. n
        <5>1. PICK i \in 1 .. Len(k) : idx[i] = p
          BY <2>4, <4>2
        <5>2. i \in 1 .. Len(a) /\ ix[i] = p
          BY <3>2, <3>3, <5>1
        <5> QED
          BY <5>2
      <4> QED
        BY <3>8, <4>1, <4>2
    <3>9. Reached(n + 1, a)
      BY <3>3, <3>5, <3>6, <3>7, <3>8
    <3> HIDE DEF Reached
    <3> QED
      BY <3>1, <3>2, <3>9
  <2> QED
    BY <2>5, <2>6
<1>5. Nat \subseteq T
  <2> HIDE DEF T
  <2> QED
    BY <1>3, <1>4, SetInduction
<1>6. f[L] \in Seq(X) /\ Reached(L, f[L])
  <2> HIDE DEF Reached
  <2> QED
    BY <1>1, <1>5
<1> DEFINE k == f[L]
<1>7. k \in Seq(X) /\ Reached(L, k) /\ Kept(s, P) = k
  BY <1>2, <1>6
<1> HIDE DEF k
<1>8. PICK idx \in Seq(1 .. L) :
        /\ Len(idx) = Len(k)
        /\ \A i \in 1 .. Len(k) : k[i] = s[idx[i]] /\ idx[i] \in P /\ idx[i] <= L
        /\ \A i, j \in 1 .. Len(k) : i < j => idx[i] < idx[j]
        /\ \A p \in P : p \in 1 .. L => \E i \in 1 .. Len(k) : idx[i] = p
  BY <1>7
<1>9. Positions(idx, s, P, k)
  BY <1>8 DEF Positions, L
<1> QED
  BY <1>7, <1>9

\* One more at the end is kept or not.
LEMMA KeptOneMore ==
  ASSUME NEW X, NEW s \in Seq(X), NEW x \in X, NEW P, NEW Q,
         \A i \in 1 .. Len(s) : i \in Q <=> i \in P
  PROVE  Kept(Append(s, x), Q) =
           IF Len(s) + 1 \in Q THEN Append(Kept(s, P), x) ELSE Kept(s, P)
<1> DEFINE t == Append(s, x)
           n == Len(s)
<1>1. /\ t \in Seq(X) /\ Len(t) = n + 1 /\ n \in Nat /\ t[n + 1] = x
      /\ \A i \in 1 .. n : t[i] = s[i]
  BY OneMore
<1> HIDE DEF t
<1>2. PICK f : Collects(f, s, P) /\ Kept(s, P) = f[n]
  BY <1>1, KeptCollects
<1>3. PICK g : Collects(g, t, Q) /\ Kept(t, Q) = g[Len(t)]
  BY <1>1, KeptCollects
<1>4. n <= Len(s) /\ n <= Len(t) /\ Len(t) \in Nat
  BY <1>1
<1>5. \A i \in 1 .. n : t[i] = s[i] /\ (i \in Q <=> i \in P)
  BY <1>1
<1>6. g[n] = f[n]
  BY <1>1, <1>2, <1>3, <1>4, <1>5, CollectsAgree
<1>7. g[n + 1] = IF n + 1 \in Q THEN Append(g[n], t[n + 1]) ELSE g[n]
  <2>1. n + 1 \in 1 .. Len(t) /\ (n + 1) - 1 = n
    BY <1>1
  <2> QED
    BY <1>3, <2>1 DEF Collects
<1> QED
  BY <1>1, <1>2, <1>3, <1>6, <1>7 DEF t

Joined(q, r) == q \o r
Longer(q, x) == Append(q, x)

LEMMA LongerBehind ==
  ASSUME NEW X, NEW q \in Seq(X), NEW r \in Seq(X), NEW x \in X
  PROVE  Longer(Joined(q, r), x) = Joined(q, Longer(r, x)) /\ Longer(r, x) \in Seq(X)
<1> DEFINE c == q \o r
           one == <<x>>
<1>1. c \in Seq(X) /\ one \in Seq(X)
  BY ConcatProperties
<1>2. Append(c, x) = c \o one /\ Append(r, x) = r \o one
  BY <1>1, AppendIsConcat
<1> HIDE DEF one
<1>3. c \o one = q \o (r \o one)
  BY <1>1, ConcatAssociative, SMTT(40)
<1>4. Append(r, x) \in Seq(X)
  BY AppendProperties
<1> QED
  BY <1>2, <1>3, <1>4 DEF Longer, Joined

\* The positions Q of two sequences in a row are the positions P and R of each.
Lines(P, R, Q, s, t) ==
  /\ \A i \in 1 .. Len(s) : i \in Q <=> i \in P
  /\ \A i \in 1 .. Len(t) : Len(s) + i \in Q <=> i \in R

\* What is kept of two sequences in a row.
LEMMA KeptJoins ==
  ASSUME NEW X, NEW s \in Seq(X), NEW t \in Seq(X), NEW P, NEW R, NEW Q, Lines(P, R, Q, s, t)
  PROVE  Kept(Joined(s, t), Q) = Joined(Kept(s, P), Kept(t, R))
<1> DEFINE n == Len(s)
           m == Len(t)
           c == s \o t
           k == Kept(s, P)
<1>1. /\ c \in Seq(X) /\ Len(c) = n + m /\ n \in Nat /\ m \in Nat
      /\ \A i \in 1 .. n : c[i] = s[i]
      /\ \A i \in 1 .. m : c[n + i] = t[i] /\ t[i] \in X
  BY ConcatFacts, ElementOfSeq
<1>0. /\ \A i \in 1 .. n : i \in Q <=> i \in P
      /\ \A i \in 1 .. m : n + i \in Q <=> i \in R
  BY DEF Lines
<1>2. k \in Seq(X)
  BY KeptPositions
<1> HIDE DEF c
<1>3. PICK f : Collects(f, s, P) /\ k = f[n]
  BY <1>1, KeptCollects
<1>4. PICK g : Collects(g, t, R) /\ Kept(t, R) = g[m]
  BY <1>1, KeptCollects
<1>5. PICK h : Collects(h, c, Q) /\ Kept(c, Q) = h[n + m]
  <2>1. Len(c) \in Nat
    BY <1>1
  <2> QED
    BY <1>1, <2>1, KeptCollects
<1>6. h[n] = k
  <2>1. n <= Len(s) /\ n <= Len(c) /\ Len(c) \in Nat
    BY <1>1
  <2>2. \A i \in 1 .. n : c[i] = s[i] /\ (i \in Q <=> i \in P)
    BY <1>0, <1>1
  <2>3. n \in Nat /\ Len(s) \in Nat /\ Collects(h, c, Q) /\ Collects(f, s, P)
    BY <1>1, <1>3, <1>5
  <2>4. h[n] = f[n]
    <3> HIDE DEF n, k
    <3> QED
      BY <2>1, <2>2, <2>3, CollectsAgree, SMTT(40)
  <2> QED
    BY <1>3, <2>4
<1> HIDE DEF k
<1> DEFINE T == {i \in Nat : i <= m => g[i] \in Seq(X) /\ h[n + i] = Joined(k, g[i])}
<1>7. 0 \in T
  <2>1. g[0] = << >> /\ n + 0 = n /\ << >> \in Seq(X)
    BY <1>1, <1>4 DEF Collects
  <2>2. k \o << >> = k
    BY <1>2, ConcatEmptySeq
  <2> QED
    BY <1>6, <2>1, <2>2 DEF Joined
<1>8. ASSUME NEW i \in Nat, i \in T
      PROVE  i + 1 \in T
  <2> SUFFICES ASSUME i + 1 <= m
               PROVE  g[i + 1] \in Seq(X) /\ h[n + (i + 1)] = Joined(k, g[i + 1])
    OBVIOUS
  <2>1. /\ g[i] \in Seq(X) /\ h[n + i] = Joined(k, g[i])
        /\ i + 1 \in 1 .. m /\ (i + 1) - 1 = i
        /\ n + (i + 1) \in 1 .. Len(c) /\ (n + (i + 1)) - 1 = n + i
    <3> HIDE DEF n, m
    <3>1. i <= m
      BY <1>1
    <3>2. g[i] \in Seq(X) /\ h[n + i] = Joined(k, g[i])
      BY <1>8, <3>1
    <3> QED
      BY <1>1, <3>2
  <2> DEFINE x == t[i + 1]
  <2>2. x \in X /\ c[n + (i + 1)] = x /\ (n + (i + 1) \in Q <=> i + 1 \in R)
    BY <1>0, <1>1, <2>1
  <2>3. g[i + 1] = IF i + 1 \in R THEN Longer(g[i], x) ELSE g[i]
    BY <1>4, <2>1 DEF Collects, Longer
  <2>4. h[n + (i + 1)] = IF i + 1 \in R THEN Longer(h[n + i], x) ELSE h[n + i]
    BY <1>5, <2>1, <2>2 DEF Collects, Longer
  <2> HIDE DEF x
  <2>5. CASE i + 1 \in R
    <3>1. g[i] \in Seq(X)
      BY <2>1
    <3>2. Longer(g[i], x) \in Seq(X) /\ Longer(Joined(k, g[i]), x) = Joined(k, Longer(g[i], x))
      <4> DEFINE r == g[i]
      <4>1. r \in Seq(X)
        BY <3>1
      <4> HIDE DEF r
      <4>2. Longer(r, x) \in Seq(X) /\ Longer(Joined(k, r), x) = Joined(k, Longer(r, x))
        BY <1>2, <2>2, <4>1, LongerBehind
      <4> QED
        BY <4>2 DEF r
    <3> QED
      BY <2>1, <2>3, <2>4, <2>5, <3>2
  <2>6. CASE i + 1 \notin R
    BY <2>1, <2>3, <2>4, <2>6
  <2> QED
    BY <2>5, <2>6
<1>9. Nat \subseteq T
  <2> HIDE DEF T
  <2> QED
    BY <1>7, <1>8, SetInduction
<1>10. h[n + m] = Joined(k, g[m])
  BY <1>1, <1>9
<1> QED
  BY <1>4, <1>5, <1>10 DEF c, k, Joined
\* What is left of items in a row.
LEMMA WithoutConcat ==
  ASSUME NEW s \in Seq(Items), NEW t \in Seq(Items), NEW kind
  PROVE  Without(Joined(s, t), kind) = Joined(Without(s, kind), Without(t, kind))
<1> DEFINE P(q) == {j \in DOMAIN q : q[j].k # kind}
           c == s \o t
<1>1. /\ Len(s) \in Nat /\ Len(t) \in Nat
      /\ DOMAIN s = 1 .. Len(s) /\ DOMAIN t = 1 .. Len(t) /\ DOMAIN c = 1 .. Len(s) + Len(t)
      /\ \A i \in 1 .. Len(s) : c[i] = s[i]
      /\ \A i \in 1 .. Len(t) : c[Len(s) + i] = t[i]
  BY ConcatFacts
<1> HIDE DEF c
<1>2. \A i \in 1 .. Len(s) : i \in P(c) <=> i \in P(s)
  BY <1>1
<1>3. \A i \in 1 .. Len(t) : Len(s) + i \in P(c) <=> i \in P(t)
  BY <1>1
<1>4. Kept(s \o t, P(c)) = Kept(s, P(s)) \o Kept(t, P(t))
  <2> DEFINE A == P(s)
             B == P(t)
             C == P(c)
  <2>1. Lines(A, B, C, s, t)
    BY <1>2, <1>3 DEF Lines
  <2> HIDE DEF A, B, C
  <2>2. Kept(Joined(s, t), C) = Joined(Kept(s, A), Kept(t, B))
    BY <2>1, KeptJoins
  <2> QED
    BY <2>2 DEF A, B, C, Joined
<1> QED
  BY <1>4 DEF Without, P, c, Joined

\* Items none of which is of the kind are kept as they are.
LEMMA WithoutAll ==
  ASSUME NEW s \in Seq(Items), NEW kind, \A i \in 1 .. Len(s) : s[i].k # kind
  PROVE  Without(s, kind) = s
<1> DEFINE P == {j \in DOMAIN s : s[j].k # kind}
<1>1. Len(s) \in Nat /\ DOMAIN s = 1 .. Len(s)
  BY LenProperties
<1>2. P = 1 .. Len(s)
  BY <1>1
<1> DEFINE k == Kept(s, P)
<1>3. k \in Seq(Items) /\ \E idx : Positions(idx, s, P, k)
  BY KeptPositions
<1>4. k = s
  <2>1. PICK f : Collects(f, s, P) /\ k = f[Len(s)]
    BY <1>1, KeptCollects
  <2> DEFINE Good == {n \in Nat : n <= Len(s) =>
                        /\ f[n] \in Seq(Items) /\ Len(f[n]) = n
                        /\ \A i \in 1 .. n : f[n][i] = s[i]}
  <2> HIDE DEF P, k
  <2>2. 0 \in Good
    <3>1. f[0] = << >> /\ << >> \in Seq(Items) /\ Len(<< >>) = 0 /\ \A i \in 1 .. 0 : FALSE
      BY <2>1 DEF Collects
    <3>2. f[0] \in Seq(Items) /\ Len(f[0]) = 0 /\ \A i \in 1 .. 0 : f[0][i] = s[i]
      BY <3>1
    <3> QED
      BY <3>2
  <2>3. ASSUME NEW n \in Nat, n \in Good
        PROVE  n + 1 \in Good
    <3> SUFFICES ASSUME n + 1 <= Len(s)
                 PROVE  /\ f[n + 1] \in Seq(Items) /\ Len(f[n + 1]) = n + 1
                        /\ \A i \in 1 .. n + 1 : f[n + 1][i] = s[i]
      OBVIOUS
    <3>1. /\ f[n] \in Seq(Items) /\ Len(f[n]) = n /\ \A i \in 1 .. n : f[n][i] = s[i]
          /\ n + 1 \in 1 .. Len(s) /\ (n + 1) - 1 = n
      BY <1>1, <2>3
    <3>2. s[n + 1] \in Items
      BY <3>1, ElementOfSeq
    <3>3. f[n + 1] = Append(f[n], s[n + 1])
      BY <1>2, <2>1, <3>1 DEF Collects
    <3> DEFINE q == f[n]
               x == s[n + 1]
    <3>4. /\ Append(q, x) \in Seq(Items) /\ Len(Append(q, x)) = Len(q) + 1
          /\ Append(q, x)[Len(q) + 1] = x
          /\ \A i \in 1 .. Len(q) : Append(q, x)[i] = q[i]
      BY <3>1, <3>2, OneMore
    <3> HIDE DEF q, x
    <3>5. \A i \in 1 .. n + 1 : Append(q, x)[i] = s[i]
      BY <3>1, <3>4 DEF q, x
    <3> QED
      BY <3>1, <3>3, <3>4, <3>5 DEF q, x
  <2>4. Nat \subseteq Good
    <3> HIDE DEF Good
    <3> QED
      BY <2>2, <2>3, SetInduction
  <2>5. /\ f[Len(s)] \in Seq(Items) /\ Len(f[Len(s)]) = Len(s)
        /\ \A i \in 1 .. Len(s) : f[Len(s)][i] = s[i]
    BY <1>1, <2>4
  <2> QED
    BY <2>1, <2>5, SeqEqual
<1> QED
  BY <1>4 DEF Without

-----------------------------------------------------------------------------
(* Conversations *)

\* What is left out of an orderly conversation for a replay leaves it paired.
LEMMA ReplayIsPaired ==
  ASSUME NEW s \in Seq(Items), Orderly(s)
  PROVE  Paired(ReplaySafe(s))
<1> DEFINE P == {n \in DOMAIN s : /\ s[n].k = "call" => Answered(s, n)
                                  /\ s[n].k = "output" => Asked(s, n)}
           k == ReplaySafe(s)
<1>1. Len(s) \in Nat /\ DOMAIN s = 1 .. Len(s)
  BY LenProperties
<1>2. k \in Seq(Items) /\ \E idx : Positions(idx, s, P, k)
  BY KeptPositions DEF ReplaySafe
<1>3. PICK idx : Positions(idx, s, P, k)
  BY <1>2
<1> HIDE DEF k
<1>4. Len(k) \in Nat /\ DOMAIN k = 1 .. Len(k)
  BY <1>2, LenProperties
<1>5. ASSUME NEW i \in DOMAIN k
      PROVE  /\ idx[i] \in P /\ idx[i] \in 1 .. Len(s) /\ k[i] = s[idx[i]]
  BY <1>1, <1>3, <1>4 DEF Positions
<1>6. ASSUME NEW i \in DOMAIN k, NEW j \in DOMAIN k, idx[i] < idx[j]
      PROVE  i < j
  <2>1. i \in Nat /\ j \in Nat /\ idx[i] \in Nat /\ idx[j] \in Nat
    BY <1>4, <1>5
  <2>2. ~ (j < i)
    BY <1>3, <1>4, <1>6, <2>1 DEF Positions
  <2>3. i # j
    BY <1>6, <2>1
  <2> QED
    BY <2>1, <2>2, <2>3
<1>7. \A p \in P : \E i \in DOMAIN k : idx[i] = p
  BY <1>1, <1>3, <1>4 DEF Positions
<1>8. ASSUME NEW j \in DOMAIN k, k[j].k = "call"
      PROVE  Cardinality({m \in DOMAIN k : k[m].k = "output" /\ SameCall(k[m], k[j])}) = 1
  <2>1. s[idx[j]].k = "call" /\ idx[j] \in P /\ idx[j] \in 1 .. Len(s) /\ k[j] = s[idx[j]]
    BY <1>5, <1>8
  <2>2. PICK m \in 1 .. Len(s) : s[m].k = "output" /\ SameCall(s[m], s[idx[j]])
    BY <1>1, <2>1 DEF Answered
  <2>3. idx[j] < m
    BY <1>1, <2>1, <2>2 DEF Orderly, SameCall
  <2>4. m \in P
    <3>1. idx[j] \in 1 .. m - 1 /\ SameCall(s[idx[j]], s[m])
      BY <1>1, <2>1, <2>2, <2>3 DEF SameCall
    <3> QED
      BY <1>1, <2>1, <2>2, <3>1 DEF Asked
  <2>5. PICK i \in DOMAIN k : idx[i] = m
    BY <1>7, <2>4
  <2>6. k[i] = s[m]
    BY <1>5, <2>5
  <2>7. {n \in DOMAIN k : k[n].k = "output" /\ SameCall(k[n], k[j])} = {i}
    <3>1. k[i].k = "output" /\ SameCall(k[i], k[j])
      BY <2>1, <2>2, <2>6
    <3>2. ASSUME NEW n \in DOMAIN k, k[n].k = "output", SameCall(k[n], k[j])
          PROVE  n = i
      <4>1. /\ s[idx[n]].k = "output" /\ idx[n] \in 1 .. Len(s)
            /\ SameCall(s[idx[n]], s[m])
        BY <1>5, <2>1, <2>2, <3>2 DEF SameCall
      <4>2. idx[n] = m
        BY <1>1, <2>2, <4>1 DEF Orderly
      <4>3. ~ (n < i) /\ ~ (i < n) /\ n \in Nat /\ i \in Nat
        BY <1>1, <1>3, <1>4, <2>5, <4>1, <4>2, SMTT(40) DEF Positions
      <4> QED
        BY <4>3
    <3> QED
      BY <3>1, <3>2
  <2> QED
    BY <2>7, FS_Singleton
<1>9. ASSUME NEW j \in DOMAIN k, k[j].k = "output"
      PROVE  \E m \in 1 .. j - 1 : k[m].k = "call" /\ SameCall(k[m], k[j])
  <2>1. s[idx[j]].k = "output" /\ idx[j] \in P /\ idx[j] \in 1 .. Len(s) /\ k[j] = s[idx[j]]
    BY <1>5, <1>9
  <2>2. PICK m \in 1 .. idx[j] - 1 : s[m].k = "call" /\ SameCall(s[m], s[idx[j]])
    BY <2>1 DEF Asked
  <2>3. m \in 1 .. Len(s) /\ m < idx[j]
    BY <1>1, <2>1, <2>2
  <2>4. Answered(s, m)
    <3>1. SameCall(s[idx[j]], s[m])
      BY <2>2 DEF SameCall
    <3> QED
      BY <1>1, <2>1, <3>1 DEF Answered
  <2>5. m \in P
    BY <1>1, <2>2, <2>3, <2>4
  <2>6. PICK i \in DOMAIN k : idx[i] = m
    BY <1>7, <2>5
  <2>7. i < j /\ i \in 1 .. j - 1
    BY <1>4, <1>6, <2>3, <2>6
  <2>8. k[i] = s[m]
    BY <1>5, <2>6
  <2> QED
    BY <2>1, <2>2, <2>7, <2>8
<1>10. Paired(k)
  BY <1>8, <1>9 DEF Paired
<1> QED
  BY <1>10 DEF k

\* Two conversations whose calls and outputs do not meet in the wrong order.
Apart(q, r) ==
  \A i \in DOMAIN q : \A j \in DOMAIN r :
    /\ q[i].k \in {"call", "output"} /\ q[i].k = r[j].k => ~ SameCall(q[i], r[j])
    /\ q[i].k = "output" /\ r[j].k = "call" => ~ SameCall(q[i], r[j])

HasNoCalls(r) == \A j \in DOMAIN r : r[j].k \notin {"call", "output"}

LEMMA NoCallsFacts ==
  ASSUME NEW q, NEW r, HasNoCalls(r)
  PROVE  /\ Orderly(r) /\ Apart(q, r) /\ Apart(r, q)
         /\ \A calls : NoOutput(r, calls)
BY DEF HasNoCalls, Orderly, Apart, NoOutput

LEMMA OrderlyConcat ==
  ASSUME NEW q \in Seq(Items), NEW r \in Seq(Items), Orderly(q), Orderly(r), Apart(q, r)
  PROVE  Orderly(q \o r)
<1> DEFINE n == Len(q)
           m == Len(r)
           c == q \o r
<1>1. /\ n \in Nat /\ m \in Nat /\ DOMAIN c = 1 .. n + m
      /\ DOMAIN q = 1 .. n /\ DOMAIN r = 1 .. m
      /\ \A i \in 1 .. n : c[i] = q[i]
      /\ \A i \in n + 1 .. n + m : c[i] = r[i - n]
  BY ConcatFacts
<1> HIDE DEF n, m, c
<1>2. ASSUME NEW i \in DOMAIN c
      PROVE  \/ i \in 1 .. n /\ c[i] = q[i]
             \/ i \in n + 1 .. n + m /\ i - n \in 1 .. m /\ c[i] = r[i - n]
  BY <1>1
<1>3. ASSUME NEW i \in DOMAIN c, NEW j \in DOMAIN c,
             c[i].k = c[j].k, c[i].k \in {"call", "output"}, SameCall(c[i], c[j])
      PROVE  i = j
  <2>1. CASE i \in 1 .. n /\ j \in 1 .. n
    BY <1>1, <1>3, <2>1 DEF Orderly
  <2>2. CASE i \in n + 1 .. n + m /\ j \in n + 1 .. n + m
    <3>1. i - n \in 1 .. m /\ j - n \in 1 .. m /\ c[i] = r[i - n] /\ c[j] = r[j - n]
      BY <1>1, <2>2
    <3>2. i - n = j - n
      BY <1>1, <1>3, <3>1 DEF Orderly
    <3> QED
      BY <1>1, <2>2, <3>2
  <2>3. CASE i \in 1 .. n /\ j \in n + 1 .. n + m
    BY <1>1, <1>2, <1>3, <2>3 DEF Apart
  <2>4. CASE i \in n + 1 .. n + m /\ j \in 1 .. n
    <3>1. i - n \in 1 .. m /\ c[i] = r[i - n] /\ c[j] = q[j]
      BY <1>1, <2>4
    <3>2. q[j].k \in {"call", "output"} /\ q[j].k = r[i - n].k /\ SameCall(q[j], r[i - n])
      BY <1>3, <3>1 DEF SameCall
    <3>3. ~ SameCall(q[j], r[i - n])
      BY <1>1, <2>4, <3>1, <3>2 DEF Apart
    <3> QED
      BY <3>2, <3>3
  <2> QED
    BY <1>2, <2>1, <2>2, <2>3, <2>4
<1>4. ASSUME NEW i \in DOMAIN c, NEW j \in DOMAIN c,
             c[i].k = "call", c[j].k = "output", SameCall(c[i], c[j])
      PROVE  i < j
  <2>1. CASE i \in 1 .. n /\ j \in 1 .. n
    BY <1>1, <1>4, <2>1 DEF Orderly
  <2>2. CASE i \in n + 1 .. n + m /\ j \in n + 1 .. n + m
    <3>1. i - n \in 1 .. m /\ j - n \in 1 .. m /\ c[i] = r[i - n] /\ c[j] = r[j - n]
      BY <1>1, <2>2
    <3>2. i - n < j - n
      BY <1>1, <1>4, <3>1 DEF Orderly
    <3> QED
      BY <1>1, <2>2, <3>2
  <2>3. CASE i \in 1 .. n /\ j \in n + 1 .. n + m
    BY <1>1, <2>3
  <2>4. CASE i \in n + 1 .. n + m /\ j \in 1 .. n
    <3>1. i - n \in 1 .. m /\ c[i] = r[i - n] /\ c[j] = q[j]
      BY <1>1, <2>4
    <3>2. q[j].k = "output" /\ r[i - n].k = "call" /\ SameCall(q[j], r[i - n])
      BY <1>4, <3>1 DEF SameCall
    <3>3. ~ SameCall(q[j], r[i - n])
      BY <1>1, <2>4, <3>1, <3>2 DEF Apart
    <3> QED
      BY <3>2, <3>3
  <2> QED
    BY <1>2, <2>1, <2>2, <2>3, <2>4
<1> QED
  BY <1>3, <1>4 DEF Orderly, c

LEMMA KnownConcat ==
  ASSUME NEW q \in Seq(Items), NEW r \in Seq(Items), NEW n, NEW o
  PROVE  /\ KnownTo(q, n, o) /\ KnownTo(r, n, o) => KnownTo(q \o r, n, o)
         /\ \A calls : NoOutput(q, calls) /\ NoOutput(r, calls) => NoOutput(q \o r, calls)
<1> DEFINE c == q \o r
<1>1. /\ Len(q) \in Nat /\ Len(r) \in Nat /\ DOMAIN c = 1 .. Len(q) + Len(r)
      /\ DOMAIN q = 1 .. Len(q) /\ DOMAIN r = 1 .. Len(r)
      /\ \A i \in 1 .. Len(q) : c[i] = q[i]
      /\ \A i \in Len(q) + 1 .. Len(q) + Len(r) : c[i] = r[i - Len(q)]
  BY ConcatFacts
<1> HIDE DEF c
<1>2. ASSUME NEW i \in DOMAIN c
      PROVE  \/ \E j \in DOMAIN q : c[i] = q[j]
             \/ \E j \in DOMAIN r : c[i] = r[j]
  <2>1. CASE i \in 1 .. Len(q)
    BY <1>1, <2>1
  <2>2. CASE i \in Len(q) + 1 .. Len(q) + Len(r)
    <3>1. i - Len(q) \in DOMAIN r
      BY <1>1, <2>2
    <3> QED
      BY <1>1, <2>2, <3>1
  <2> QED
    BY <1>1, <2>1, <2>2
<1>3. KnownTo(q, n, o) /\ KnownTo(r, n, o) => KnownTo(c, n, o)
  BY <1>2 DEF KnownTo
<1>4. \A calls : NoOutput(q, calls) /\ NoOutput(r, calls) => NoOutput(c, calls)
  BY <1>2 DEF NoOutput
<1> QED
  BY <1>3, <1>4 DEF c

\* A part of a conversation is as orderly as the whole.
LEMMA PartFacts ==
  ASSUME NEW s \in Seq(Items), NEW b \in 0 .. Len(s)
  PROVE  /\ From(s, b) \in Seq(Items)
         /\ Orderly(s) => Orderly(From(s, b))
         /\ \A n, o : KnownTo(s, n, o) => KnownTo(From(s, b), n, o)
         /\ \A calls : NoOutput(s, calls) => NoOutput(From(s, b), calls)
<1> DEFINE f == From(s, b)
<1>1. /\ f \in Seq(Items) /\ Len(s) \in Nat /\ DOMAIN f = 1 .. Len(s) - b
      /\ \A i \in 1 .. Len(s) - b : f[i] = s[b + i]
      /\ DOMAIN s = 1 .. Len(s)
  BY FromFacts, LenProperties
<1> HIDE DEF f
<1>2. \A i \in DOMAIN f : b + i \in DOMAIN s /\ f[i] = s[b + i] /\ i \in Nat /\ b \in Nat
  BY <1>1
<1>3. ASSUME Orderly(s)
      PROVE  Orderly(f)
  <2>1. ASSUME NEW i \in DOMAIN f, NEW j \in DOMAIN f,
               f[i].k = f[j].k, f[i].k \in {"call", "output"}, SameCall(f[i], f[j])
        PROVE  i = j
    <3>1. b + i = b + j
      BY <1>2, <1>3, <2>1 DEF Orderly
    <3> QED
      BY <1>2, <3>1
  <2>2. ASSUME NEW i \in DOMAIN f, NEW j \in DOMAIN f,
               f[i].k = "call", f[j].k = "output", SameCall(f[i], f[j])
        PROVE  i < j
    <3>1. b + i < b + j
      BY <1>2, <1>3, <2>2 DEF Orderly
    <3> QED
      BY <1>2, <3>1
  <2> QED
    BY <2>1, <2>2 DEF Orderly
<1>4. \A n, o : KnownTo(s, n, o) => KnownTo(f, n, o)
  BY <1>2 DEF KnownTo
<1>5. \A calls : NoOutput(s, calls) => NoOutput(f, calls)
  BY <1>2 DEF NoOutput
<1> QED
  BY <1>1, <1>3, <1>4, <1>5 DEF f

-----------------------------------------------------------------------------
(* The kinds of steps *)

\* The stream and what is collected of it stay as they are, ...
Quiet ==
  /\ UNCHANGED <<profile, streamVars, server, collector>>
  /\ phase = "stream" <=> phase' = "stream"

\* ... are dropped, or a new stream is opened.
Closing ==
  /\ CloseStream /\ collector' = NoAnswer /\ phase' # "stream"
  /\ UNCHANGED <<profile, server>>

Opening ==
  /\ OpenStream /\ collector' = NoAnswer /\ phase' = "stream"
  /\ UNCHANGED <<profile, server>>

LEMMA StreamSteps ==
  ASSUME [Next]_vars
  PROVE  \/ Quiet
         \/ Closing
         \/ SendRequest /\ Opening
         \/ Consume
         \/ ProviderStep
<1>1. ASSUME UNCHANGED vars
      PROVE  Quiet
  BY <1>1 DEF Quiet, vars, providerVars, streamVars, endpointVars, runVars, roundVars
<1>2. ASSUME Submit \/ SwitchMode \/ FinishShell \/ Begin \/ Consider \/ Approve
      PROVE  Quiet
  BY <1>2 DEF Submit, SwitchMode, FinishShell, Begin, Consider, Approve, Quiet, providerVars, streamVars,
              endpointVars, runVars, roundVars
<1>3. ASSUME AnswerDuplicate \/ Refuse \/ Reject \/ StartTool
      PROVE  Quiet
  BY <1>3 DEF AnswerDuplicate, Refuse, Reject, StartTool, Quiet, providerVars, streamVars,
              endpointVars
<1>4. ASSUME FinishTool \/ FinishChild \/ NextRound
      PROVE  Quiet
  BY <1>4 DEF FinishTool, FinishChild, NextRound, Quiet, providerVars, streamVars,
              endpointVars, roundVars
<1>5. ASSUME Cancel \/ Crash \/ ConsumeTooMuch \/ LoseApproval
      PROVE  Closing
  BY <1>5 DEF Cancel, Crash, ConsumeTooMuch, LoseApproval, FailRun, Finish, Closing,
              endpointVars
<1>6. ASSUME GiveUp \/ Malformed \/ Complete
      PROVE  Closing
  BY <1>6 DEF GiveUp, Malformed, Complete, FailRun, Finish, Closing, endpointVars
<1>7. ASSUME RecoverOverflow \/ ReplayInstead
      PROVE  Closing
  BY <1>7 DEF RecoverOverflow, ReplayInstead, ReplayNext, Closing, endpointVars
<1>8. ASSUME AcceptCalls
      PROVE  Closing
  BY <1>8 DEF AcceptCalls, Closing, endpointVars
<1>9. ASSUME SendRequest
      PROVE  Opening
  BY <1>9 DEF SendRequest, Opening, endpointVars
<1>10. \/ UNCHANGED vars
       \/ Submit \/ SwitchMode \/ FinishShell \/ Begin \/ Consider \/ Approve
       \/ AnswerDuplicate \/ Refuse \/ Reject \/ StartTool
       \/ FinishTool \/ FinishChild \/ NextRound
       \/ Cancel \/ Crash \/ ConsumeTooMuch \/ LoseApproval
       \/ GiveUp \/ Malformed \/ Complete \/ RecoverOverflow \/ ReplayInstead
       \/ AcceptCalls \/ SendRequest \/ Consume \/ ProviderStep
  BY Zenon DEF Next, RunnerStep, UserAnswers
<1> QED
  <2>1. CASE \/ UNCHANGED vars
             \/ Submit \/ SwitchMode \/ FinishShell \/ Begin \/ Consider \/ Approve
             \/ AnswerDuplicate \/ Refuse \/ Reject \/ StartTool
             \/ FinishTool \/ FinishChild \/ NextRound
    BY <1>1, <1>2, <1>3, <1>4, <2>1, Zenon
  <2>2. CASE \/ Cancel \/ Crash \/ ConsumeTooMuch \/ LoseApproval
             \/ GiveUp \/ Malformed \/ Complete \/ RecoverOverflow \/ ReplayInstead
             \/ AcceptCalls
    BY <1>5, <1>6, <1>7, <1>8, <2>2, Zenon
  <2>3. CASE SendRequest
    BY <1>9, <2>3, Zenon
  <2> QED
    BY <1>10, <2>1, <2>2, <2>3, Zenon

\* A step uses up at most one of the faults of the profile.
LEMMA FaultSteps ==
  ASSUME faults \in 0 .. profile.faults, profile \in Profiles, [Next]_vars
  PROVE  profile' = profile /\ faults' \in 0 .. profile.faults
<1>0. profile.faults \in Nat
  BY ProviderAssumption
<1>1. profile' = profile
  <2>1. ProviderStep => profile' = profile
    BY DEF ProviderStep, Respond, ReceiveFrame, ReceiveBytes, Push, HandleFrame, EndOfBody,
           BreakOff, FinishUnheard
  <2> QED
    BY <2>1, StreamSteps DEF Quiet, Closing, Opening, Consume
<1>2. \A kind : Fault(kind) => faults' \in 0 .. profile.faults
  BY <1>0 DEF Fault
<1> HIDE DEF Fault
<1>3. faults' = faults \/ \E kind : Fault(kind)
  <2>1. CASE ProviderStep
    <3>1. CASE Respond(request)
      BY <3>1 DEF Respond
    <3>2. CASE ReceiveFrame
      BY <3>2 DEF ReceiveFrame
    <3>3. CASE ReceiveBytes \/ HandleFrame
      BY <3>3 DEF ReceiveBytes, HandleFrame, endpointVars
    <3>4. CASE EndOfBody \/ BreakOff
      BY <3>4 DEF EndOfBody, BreakOff
    <3>5. CASE \E r \in DOMAIN server : FinishUnheard(r)
      BY <3>5 DEF FinishUnheard
    <3> QED
      BY <2>1, <3>1, <3>2, <3>3, <3>4, <3>5 DEF ProviderStep
  <2>2. CASE UNCHANGED vars
    BY <2>2 DEF vars, providerVars, endpointVars
  <2>3. CASE Submit \/ SwitchMode \/ Consider \/ Approve
    BY <2>3 DEF Submit, SwitchMode, Consider, Approve, providerVars, endpointVars
  <2>4. CASE Begin \/ RecoverOverflow \/ FinishShell
    BY <2>4 DEF Begin, RecoverOverflow, Shrink, FinishShell
  <2>5. CASE AnswerDuplicate \/ Refuse \/ Reject \/ StartTool
    BY <2>5 DEF AnswerDuplicate, Refuse, Reject, StartTool, providerVars, endpointVars
  <2>6. CASE FinishTool \/ FinishChild \/ NextRound
    BY <2>6 DEF FinishTool, FinishChild, NextRound, providerVars, endpointVars
  <2>7. CASE Cancel \/ Crash \/ ConsumeTooMuch \/ LoseApproval
    BY <2>7 DEF Cancel, Crash, ConsumeTooMuch, LoseApproval, endpointVars
  <2>8. CASE GiveUp \/ Malformed \/ Complete
    BY <2>8 DEF GiveUp, Malformed, Complete, endpointVars
  <2>9. CASE ReplayInstead \/ AcceptCalls \/ SendRequest \/ Consume
    BY <2>9 DEF ReplayInstead, AcceptCalls, SendRequest, Consume, endpointVars
  <2> QED
    BY <2>1, <2>2, <2>3, <2>4, <2>5, <2>6, <2>7, <2>8, <2>9 DEF Next, RunnerStep, UserAnswers
<1> QED
  BY <1>1, <1>2, <1>3

\* A sequence with one more element, or another one in its place.
LEMMA Grown ==
  ASSUME NEW q, q \in Seq(ToSet(q)), NEW x
  PROVE  LET r == Append(q, x)
         IN  /\ r \in Seq(ToSet(r)) /\ Len(q) \in Nat /\ Len(r) = Len(q) + 1
             /\ DOMAIN q = 1 .. Len(q) /\ DOMAIN r = 1 .. Len(q) + 1
             /\ r[Len(q) + 1] = x /\ \A i \in 1 .. Len(q) : r[i] = q[i]
<1> DEFINE X == ToSet(q) \cup {x}
           r == Append(q, x)
<1>1. q \in Seq(X)
  BY SeqMonotonic
<1>2. x \in X
  OBVIOUS
<1> HIDE DEF X
<1>3. /\ r \in Seq(X) /\ Len(r) = Len(q) + 1 /\ DOMAIN r = 1 .. Len(q) + 1
      /\ DOMAIN q = 1 .. Len(q) /\ r[Len(q) + 1] = x
      /\ \A i \in 1 .. Len(q) : r[i] = q[i]
      /\ Len(q) \in Nat
  BY <1>1, <1>2, OneMore
<1> HIDE DEF r
<1>4. r \in [1 .. Len(r) -> X]
  BY <1>3, LenProperties
<1>5. r \in [1 .. Len(r) -> ToSet(r)]
  BY <1>3, <1>4 DEF ToSet
<1>6. r \in Seq(ToSet(r))
  BY <1>3, <1>5, SeqDef
<1> QED
  BY <1>3, <1>6 DEF r

LEMMA Changed ==
  ASSUME NEW q, q \in Seq(ToSet(q)), NEW k \in DOMAIN q, NEW x,
         NEW r, r = [q EXCEPT ![k] = x]
  PROVE  /\ r \in Seq(ToSet(r)) /\ Len(q) \in Nat /\ Len(r) = Len(q)
         /\ DOMAIN q = 1 .. Len(q) /\ DOMAIN r = DOMAIN q
         /\ r[k] = x /\ \A i \in DOMAIN q : i # k => r[i] = q[i]
<1> DEFINE X == ToSet(q) \cup {x}
           n == Len(q)
<1>1. q \in [1 .. n -> ToSet(q)] /\ n \in Nat /\ DOMAIN q = 1 .. n
  BY LenProperties
<1> HIDE DEF n
<1>2. /\ DOMAIN r = 1 .. n /\ r[k] = x /\ \A i \in 1 .. n : i # k => r[i] = q[i]
      /\ r = [i \in 1 .. n |-> r[i]]
  BY <1>1
<1>3. \A i \in 1 .. n : r[i] \in ToSet(r)
  BY <1>2 DEF ToSet
<1>4. r \in [1 .. n -> ToSet(r)]
  BY <1>2, <1>3
<1>5. r \in Seq(ToSet(r)) /\ Len(r) = n
  BY <1>1, <1>4, FunctionIsSeq
<1> QED
  BY <1>1, <1>2, <1>5 DEF n

\* A step of the provider: a response begins, ...
Beginning ==
  /\ net = "sent" /\ net' = "open" /\ current' = Len(server) + 1
  /\ \E context : server' = Append(server, Begun(request, context))
  /\ UNCHANGED <<attempt, emitted, spoke, decoder, frames, outcome, chan>>

\* ... the request is sent again, ...
Repeating ==
  /\ net = "sent" /\ net' = "sent" /\ attempt < MaxAttempts /\ attempt' = attempt + 1
  /\ Len(chan) < Capacity /\ chan' = Append(chan, Plain("retrying"))
  /\ decoder' = Fresh /\ frames' = << >> /\ outcome' = "none" /\ current' = 0
  /\ UNCHANGED <<emitted, spoke, server>>

\* ... or it fails; ...
Failing ==
  /\ net \in {"sent", "open"} /\ net' = "done" /\ outcome' \in Errors /\ frames' = << >>
  /\ emitted' \in BOOLEAN
  /\ UNCHANGED <<attempt, spoke, decoder, chan, current, server>>

\* ... the body ends, with an event or without, ...
Ending ==
  /\ net = "open" /\ net' = "done" /\ outcome' = "ok" /\ frames' = << >>
  /\ frames = << >> \/ Head(frames)[1] = "[DONE]"
  /\ \/ UNCHANGED chan
     \/ Len(chan) < Capacity /\ chan' = Append(chan, Plain("done"))
  /\ UNCHANGED <<attempt, emitted, spoke, decoder, current, server>>

\* ... or the events of a frame are delivered; ...
Delivering ==
  /\ net = "open" /\ frames # << >>
  /\ Len(chan) + Len(Parsed(Head(frames))) <= Capacity
  /\ chan' = chan \o Parsed(Head(frames))
  /\ spoke' = spoke \cup {attempt}
  /\ \/ net' = "done" /\ outcome' = "ok" /\ frames' = << >>
     \/ /\ frames' = Tail(frames) /\ UNCHANGED <<net, outcome>>
        /\ Last(Parsed(Head(frames))).type # "done"
  /\ UNCHANGED <<attempt, emitted, decoder, current, server>>

\* ... a payload is sent, ...
Sending(payload) ==
  /\ net = "open" /\ frames = << >> /\ frames' = <<<<payload>>>>
  /\ payload \in Payloads
  /\ server' = [server EXCEPT ![current] = Sent(payload)]
  /\ UNCHANGED <<net, attempt, emitted, spoke, decoder, outcome, chan, current>>

\* ... some bytes of a body that is cut anywhere arrive, ...
Feeding(chunk) ==
  /\ net = "open" /\ frames = << >> /\ Push(chunk)
  /\ UNCHANGED server

\* ... or the endpoint completes a response nobody listens to.
Completing(r) ==
  /\ r \in DOMAIN server /\ server' = [server EXCEPT ![r].complete = TRUE]
  /\ UNCHANGED streamVars

LEMMA RespondSteps ==
  ASSUME emitted \in BOOLEAN, Respond(request)
  PROVE  Beginning \/ Repeating \/ Failing
<1> USE DEF Errors
<1>1. ASSUME NEW kind \in {"retryable", "status", "overflow"}, net = "sent",
             AttemptFailed(kind, TRUE), UNCHANGED <<emitted, server>>
      PROVE  Repeating \/ Failing
  <2>1. CASE MayRetry(kind)
    BY <1>1, <2>1 DEF AttemptFailed, MayRetry, Repeating
  <2>2. CASE ~ MayRetry(kind)
    <3>1. net' = "done" /\ outcome' = kind /\ frames' = << >>
          /\ UNCHANGED <<attempt, chan, decoder, current, spoke>>
      BY <1>1, <2>2 DEF AttemptFailed
    <3>2. emitted' \in BOOLEAN
      BY <1>1
    <3> QED
      BY <1>1, <3>1, <3>2 DEF Failing
  <2> QED
    BY <2>1, <2>2
<1>2. net = "sent"
  BY DEF Respond
<1>3. CASE \E kind \in {"retryable", "status", "overflow"} :
             AttemptFailed(kind, TRUE) /\ UNCHANGED <<emitted, server>>
  BY <1>1, <1>2, <1>3
<1>4. CASE /\ net' = "open" /\ current' = Len(server) + 1
           /\ server' = Append(server, Begun(request, Context(request)))
           /\ UNCHANGED <<attempt, emitted, spoke, decoder, frames, body, heard, outcome,
                          chan, faults>>
  BY <1>2, <1>4 DEF Beginning
<1> QED
  <2> HIDE DEF Errors
  <2>1. CASE AttemptFailed("status", TRUE) /\ UNCHANGED <<emitted, server>>
    BY <1>3, <2>1
  <2> QED
    BY <1>3, <1>4, <2>1 DEF Respond

LEMMA BodySteps ==
  ASSUME HandleFrame \/ EndOfBody \/ BreakOff
  PROVE  Failing \/ Ending \/ Delivering
<1> USE DEF Errors, endpointVars
<1>1. CASE EndOfBody
  <2>1. Ending
    BY <1>1 DEF EndOfBody, Ending
  <2> QED
    BY <2>1
<1>2. CASE BreakOff
  <2>1. ~ MayRetry("http")
    BY DEF MayRetry
  <2>2. /\ net = "open" /\ net' = "done" /\ outcome' = "http" /\ frames' = << >>
        /\ UNCHANGED <<attempt, chan, decoder, current, spoke, server>>
    BY <1>2, <2>1 DEF BreakOff, AttemptFailed
  <2>3. emitted' \in BOOLEAN
    BY <1>2 DEF BreakOff
  <2>4. Failing
    BY <2>2, <2>3 DEF Failing
  <2> QED
    BY <2>4
<1>3. CASE HandleFrame
  <2> DEFINE data == Head(frames)
             events == Parsed(data)
  <2>0. net = "open" /\ frames # << >>
        /\ UNCHANGED <<profile, attempt, decoder, body, heard, current, endpointVars>>
    BY <1>3 DEF HandleFrame
  <2>1. CASE Len(data) > 1 \/ data[1] = "failed"
    <3>1. /\ emitted' = TRUE /\ net' = "done" /\ outcome' = "protocol" /\ frames' = << >>
          /\ UNCHANGED <<spoke, chan>>
      BY <1>3, <2>1 DEF HandleFrame
    <3>2. emitted' \in BOOLEAN
      BY <3>1
    <3>3. Failing
      BY <2>0, <3>1, <3>2 DEF Failing
    <3> QED
      BY <3>3
  <2>2. CASE ~ (Len(data) > 1 \/ data[1] = "failed") /\ data[1] = "[DONE]"
    <3>1. /\ Len(chan) < Capacity
          /\ chan' = IF Chat THEN Append(chan, Plain("done")) ELSE chan
          /\ net' = "done" /\ outcome' = "ok" /\ frames' = << >>
          /\ UNCHANGED <<emitted, spoke>>
      BY <1>3, <2>2 DEF HandleFrame
    <3>2. \/ chan' = chan
          \/ Len(chan) < Capacity /\ chan' = Append(chan, Plain("done"))
      BY <3>1, Zenon
    <3>3. Ending
      <4> HIDE <3>2
      <4>1. /\ net = "open" /\ net' = "done" /\ outcome' = "ok" /\ frames' = << >>
            /\ Head(frames)[1] = "[DONE]"
            /\ UNCHANGED <<attempt, emitted, spoke, decoder, current, server>>
        BY <2>0, <2>2, <3>1
      <4> QED
        BY <3>2, <4>1, Zenon DEF Ending
    <3> QED
      BY <3>3
  <2>3. CASE ~ (Len(data) > 1 \/ data[1] = "failed") /\ data[1] # "[DONE]"
    <3> HIDE DEF data
    <3>1. /\ Len(chan) + Len(events) <= Capacity
          /\ chan' = chan \o events
          /\ spoke' = spoke \cup {attempt}
          /\ IF Last(events).type = "done"
               THEN net' = "done" /\ outcome' = "ok" /\ frames' = << >>
               ELSE frames' = Tail(frames) /\ UNCHANGED <<net, outcome>>
          /\ UNCHANGED emitted
      BY <1>3, <2>3, Zenon DEF HandleFrame, data
    <3>2. Delivering
      <4> HIDE DEF events
      <4>1. \/ net' = "done" /\ outcome' = "ok" /\ frames' = << >>
            \/ /\ frames' = Tail(frames) /\ UNCHANGED <<net, outcome>>
               /\ Last(events).type # "done"
        BY <3>1
      <4>2. /\ Len(chan) + Len(events) <= Capacity /\ chan' = chan \o events
            /\ spoke' = spoke \cup {attempt} /\ UNCHANGED <<emitted, attempt, decoder, current, server>>
        BY <2>0, <3>1
      <4> QED
        BY <2>0, <4>1, <4>2, Zenon DEF Delivering, events, data
    <3> QED
      BY <3>2
  <2> QED
    BY <2>1, <2>2, <2>3, Zenon
<1> QED
  BY <1>1, <1>2, <1>3, Zenon

LEMMA ProviderSteps ==
  ASSUME emitted \in BOOLEAN, ProviderStep
  PROVE  /\ UNCHANGED <<profile, phase, collector>>
         /\ \/ Beginning \/ Repeating \/ Failing \/ Ending \/ Delivering
            \/ \E payload : Sending(payload)
            \/ \E n \in Nat : \E chunk \in [1 .. n -> Bytes] : Feeding(chunk)
            \/ \E r : Completing(r)
<1>1. UNCHANGED <<phase, collector>>
  BY DEF ProviderStep, runVars, roundVars
<1>2. profile' = profile
  BY DEF ProviderStep, Respond, ReceiveFrame, ReceiveBytes, Push, HandleFrame, EndOfBody,
         BreakOff, FinishUnheard
<1>3. ASSUME ReceiveFrame
      PROVE  \E payload : Sending(payload)
  BY <1>3, Zenon DEF ReceiveFrame, Sending
<1>4. ASSUME ReceiveBytes
      PROVE  \E n \in Nat : \E chunk \in [1 .. n -> Bytes] : Feeding(chunk)
  <2>1. PICK n \in 1 .. profile.body - Len(body) : \E chunk \in [1 .. n -> Bytes] : Push(chunk)
    BY <1>4 DEF ReceiveBytes, Bytes
  <2>2. n \in Nat
    BY <2>1
  <2>3. net = "open" /\ frames = << >> /\ UNCHANGED server
    BY <1>4 DEF ReceiveBytes, endpointVars
  <2> QED
    BY <2>1, <2>2, <2>3, Zenon DEF Feeding
<1>5. ASSUME NEW r, FinishUnheard(r)
      PROVE  Completing(r)
  BY <1>5, Zenon DEF FinishUnheard, Completing
<1>6. \/ Respond(request) \/ ReceiveFrame \/ ReceiveBytes \/ HandleFrame \/ EndOfBody
      \/ BreakOff \/ \E r \in DOMAIN server : FinishUnheard(r)
  BY Zenon DEF ProviderStep
<1> QED
  BY <1>1, <1>2, <1>3, <1>4, <1>5, <1>6, RespondSteps, BodySteps, Zenon

-----------------------------------------------------------------------------
(* The request *)

LEMMA ServerGrows ==
  ASSUME ClientInv, server \in Seq(ToSet(server)), [Next]_vars
  PROVE  /\ server' \in Seq(ToSet(server)') /\ Len(server) \in Nat /\ Len(server') \in Nat
         /\ DOMAIN server = 1 .. Len(server) /\ DOMAIN server' = 1 .. Len(server')
         /\ Len(server') = Len(server) \/ Len(server') = Len(server) + 1
<1>0. Len(server) \in Nat /\ DOMAIN server = 1 .. Len(server) /\ emitted \in BOOLEAN
  BY LenProperties DEF ClientInv
<1>1. CASE server' = server
  BY <1>0, <1>1
<1>2. CASE Beginning
  <2>1. PICK context : server' = Append(server, Begun(request, context))
    BY <1>2 DEF Beginning
  <2> DEFINE x == Begun(request, context)
             r == Append(server, x)
  <2>2. r \in Seq(ToSet(r)) /\ Len(r) = Len(server) + 1 /\ DOMAIN r = 1 .. Len(server) + 1
    BY Grown
  <2> QED
    BY <1>0, <2>1, <2>2
<1>3. ASSUME NEW k \in DOMAIN server, NEW x, server' = [server EXCEPT ![k] = x]
      PROVE  server' \in Seq(ToSet(server)') /\ Len(server') = Len(server)
             /\ DOMAIN server' = DOMAIN server
  <2>1. /\ server' \in Seq(ToSet(server')) /\ Len(server') = Len(server)
        /\ DOMAIN server' = DOMAIN server
    <3>1. PICK r : r = server'
      OBVIOUS
    <3>2. r = [server EXCEPT ![k] = x]
      BY <1>3, <3>1
    <3>3. Len(r) = Len(server) /\ DOMAIN r = DOMAIN server
      BY <3>2, Changed
    <3>4. r \in Seq(ToSet(r))
      BY <3>2, Changed
    <3> QED
      BY <3>1, <3>3, <3>4, Zenon
  <2> QED
    BY <2>1
<1>4. ASSUME NEW payload, Sending(payload)
      PROVE  \E k \in DOMAIN server : \E x : server' = [server EXCEPT ![k] = x]
  <2>1. current \in DOMAIN server
    BY <1>0, <1>4 DEF Sending, ClientInv
  <2>2. server' = [server EXCEPT ![current] = Sent(payload)]
    BY <1>4 DEF Sending
  <2> QED
    BY <2>1, <2>2, Zenon
<1>5. ASSUME NEW r, Completing(r)
      PROVE  \E k \in DOMAIN server : \E x : server' = [server EXCEPT ![k] = x]
  <2>1. r \in DOMAIN server /\ server' = [server EXCEPT ![r] = [server[r] EXCEPT !.complete = TRUE]]
    BY <1>5 DEF Completing
  <2> QED
    BY <2>1, Zenon
<1>6. \/ server' = server \/ Beginning
      \/ \E payload : Sending(payload)
      \/ \E r : Completing(r)
  <2>1. Quiet \/ Closing \/ Opening \/ Consume => server' = server
    BY DEF Quiet, Closing, Opening, Consume, endpointVars
  <2>2. Repeating \/ Failing \/ Ending \/ Delivering => server' = server
    BY DEF Repeating, Failing, Ending, Delivering
  <2>3. \A n \in Nat : \A chunk \in [1 .. n -> Bytes] : Feeding(chunk) => server' = server
    BY DEF Feeding
  <2> QED
    BY <1>0, <2>1, <2>2, <2>3, StreamSteps, ProviderSteps, Zenon
<1> QED
  BY <1>0, <1>1, <1>2, <1>3, <1>4, <1>5, <1>6

\* What becomes of the request.
ClientRest ==
  /\ net \in {"idle", "sent", "open", "done"}
  /\ phase = "stream" <=> net # "idle"
  /\ attempt \in 0 .. MaxAttempts /\ (net # "idle" => attempt # 0)
  /\ spoke \subseteq {attempt} /\ emitted \in BOOLEAN
  /\ outcome \in {"none", "ok"} \cup Errors
  /\ net \in {"idle", "sent"} => current = 0 /\ spoke = {}
  /\ net # "open" => frames = << >>
  /\ net = "idle" => chan = << >>
  /\ net = "open" \/ outcome = "ok" => current # 0
  /\ current # 0 => current = Len(server)

LEMMA ClientStep ==
  ASSUME ClientInv, server \in Seq(ToSet(server)), [Next]_vars
  PROVE  ClientInv'
<1>1. profile' \in Profiles /\ faults' \in 0 .. profile'.faults
  BY FaultSteps DEF ClientInv
<1>2. ClientRest /\ emitted \in BOOLEAN
  BY DEF ClientInv, ClientRest
<1>3. /\ Len(server) \in Nat /\ MaxAttempts \in Nat \ {0}
      /\ Len(server') = Len(server) \/ Len(server') = Len(server) + 1
  BY ServerGrows, ProviderAssumption
<1> HIDE DEF Has
<1> SUFFICES ClientRest'
  BY <1>1 DEF ClientInv, ClientRest
<1>4. CASE Quiet
  BY <1>2, <1>4 DEF Quiet, ClientRest, streamVars
<1>5. CASE Closing
  <2>1. /\ net' = "idle" /\ attempt' = 0 /\ spoke' = {} /\ frames' = << >> /\ chan' = << >>
        /\ outcome' = "none" /\ current' = 0 /\ phase' # "stream"
    BY <1>5 DEF Closing, CloseStream, Restart
  <2>2. emitted' \in BOOLEAN
    BY <1>5 DEF Closing, CloseStream, Restart
  <2> QED
    BY <1>3, <2>1, <2>2 DEF ClientRest
<1>6. CASE Opening
  <2>1. /\ net' = "sent" /\ attempt' = 1 /\ spoke' = {} /\ frames' = << >> /\ chan' = << >>
        /\ outcome' = "none" /\ current' = 0 /\ phase' = "stream"
    BY <1>6 DEF Opening, OpenStream, Restart
  <2>2. emitted' \in BOOLEAN
    BY <1>6 DEF Opening, OpenStream, Restart
  <2> QED
    BY <1>3, <2>1, <2>2 DEF ClientRest
<1>7. CASE Consume
  <2>1. /\ UNCHANGED <<net, attempt, emitted, spoke, frames, outcome, current, server, phase>>
        /\ net # "idle"
    BY <1>2, <1>7 DEF Consume, endpointVars, ClientRest
  <2> QED
    BY <1>2, <2>1 DEF ClientRest
<1>8. CASE ProviderStep
  <2>0. phase' = phase
    BY <1>2, <1>8, ProviderSteps
  <2>1. CASE Beginning
    <3>1. Len(server') = Len(server) + 1
      <4>1. PICK context : server' = Append(server, Begun(request, context))
        BY <2>1 DEF Beginning
      <4> DEFINE x == Begun(request, context)
      <4>2. Len(Append(server, x)) = Len(server) + 1
        BY Grown
      <4> QED
        BY <4>1, <4>2
    <3> QED
      BY <1>2, <1>3, <2>0, <2>1, <3>1 DEF Beginning, ClientRest
  <2>2. CASE Repeating
    BY <1>2, <1>3, <2>0, <2>2 DEF Repeating, ClientRest
  <2>3. CASE Failing
    BY <1>2, <1>3, <2>0, <2>3 DEF Failing, ClientRest, Errors
  <2>4. CASE Ending
    BY <1>2, <1>3, <2>0, <2>4 DEF Ending, ClientRest
  <2>5. CASE Delivering
    <3>1. spoke' \subseteq {attempt'} /\ net' \in {"open", "done"} /\ attempt' = attempt
          /\ (net' # "open" => frames' = << >>)
          /\ (outcome' = "ok" \/ outcome' = outcome) /\ current' = current /\ emitted' = emitted
          /\ net = "open" /\ server' = server
      BY <1>2, <2>5 DEF Delivering, ClientRest
    <3> QED
      BY <1>2, <1>3, <2>0, <3>1 DEF ClientRest
  <2>6. CASE \E payload : Sending(payload)
    <3>1. PICK payload : Sending(payload)
      BY <2>6
    <3>2. current \in DOMAIN server
      BY <1>2, <1>3, <3>1, ServerGrows DEF Sending, ClientRest
    <3>3. Len(server') = Len(server)
      <4> DEFINE x == Sent(payload)
      <4>1. server' = [server EXCEPT ![current] = x]
        BY <3>1 DEF Sending
      <4> HIDE DEF x
      <4> QED
        BY <3>2, <4>1, Changed
    <3> QED
      BY <1>2, <1>3, <2>0, <3>1, <3>3 DEF Sending, ClientRest
  <2>7. CASE \E n \in Nat : \E chunk \in [1 .. n -> Bytes] : Feeding(chunk)
    <3>1. PICK chunk : Feeding(chunk)
      BY <2>7
    <3>2. /\ net = "open" /\ frames = << >> /\ UNCHANGED <<attempt, spoke, chan, current, server>>
          /\ \/ net' = "done" /\ outcome' = "protocol" /\ frames' = frames
             \/ UNCHANGED <<net, outcome>>
      BY <3>1 DEF Feeding, Push
    <3>3. emitted' \in BOOLEAN
      BY <3>1, SMTT(40) DEF Feeding, Push
    <3> QED
      BY <1>2, <1>3, <2>0, <3>2, <3>3 DEF ClientRest, Errors
  <2>8. CASE \E r : Completing(r)
    <3>1. PICK r : Completing(r)
      BY <2>8
    <3>2. Len(server') = Len(server)
      <4> DEFINE x == [server[r] EXCEPT !.complete = TRUE]
      <4>1. r \in DOMAIN server /\ server' = [server EXCEPT ![r] = x]
        BY <3>1 DEF Completing
      <4> HIDE DEF x
      <4> QED
        BY <4>1, Changed
    <3> QED
      BY <1>2, <1>3, <2>0, <3>1, <3>2 DEF Completing, ClientRest, streamVars
  <2> QED
    BY <1>2, <1>8, <2>1, <2>2, <2>3, <2>4, <2>5, <2>6, <2>7, <2>8, ProviderSteps, Zenon
<1> QED
  BY <1>4, <1>5, <1>6, <1>7, <1>8, StreamSteps, Zenon

-----------------------------------------------------------------------------
(* The endpoint *)

Edited(r, a, n, q, o, c) ==
  [r EXCEPT !.announced = a, !.said = n, !.out = q, !.open = o, !.complete = c]

LEMMA Edits ==
  ASSUME NEW r, IsResponse(r), NEW a \in BOOLEAN, NEW n \in Nat, NEW q \in Seq(Items),
         NEW o \in BOOLEAN, NEW c \in BOOLEAN
  PROVE  LET s == Edited(r, a, n, q, o, c)
         IN  IsResponse(s) /\ s.out = q /\ s.open = o
<1> DEFINE s == Edited(r, a, n, q, o, c)
           F == {"context", "run", "out", "said", "announced", "open", "complete"}
<1>1. r = [f \in F |-> r[f]]
  BY DEF IsResponse
<1>2. /\ s.out = q /\ s.open = o /\ s.said = n /\ s.announced = a /\ s.complete = c
      /\ s = [f \in F |-> s[f]]
  BY <1>1 DEF Edited
<1> HIDE DEF s
<1> QED
  BY <1>2 DEF IsResponse, s

LEMMA Completed ==
  ASSUME NEW r, IsResponse(r), NEW c \in BOOLEAN, NEW s, s = [r EXCEPT !.complete = c]
  PROVE  IsResponse(s) /\ s.out = r.out /\ s.open = r.open
<1> DEFINE F == {"context", "run", "out", "said", "announced", "open", "complete"}
<1>1. r = [f \in F |-> r[f]] /\ IsResponse(r)
  BY DEF IsResponse
<1>2. /\ s.out = r.out /\ s.open = r.open /\ s.said = r.said /\ s.announced = r.announced
      /\ s.complete = c /\ s = [f \in F |-> s[f]]
  BY <1>1
<1> QED
  BY <1>1, <1>2 DEF IsResponse

LEMMA BegunFacts ==
  ASSUME NEW context
  PROVE  /\ IsResponse(Begun(request, context))
         /\ Begun(request, context).out = << >> /\ ~ Begun(request, context).open
<1> DEFINE b == Begun(request, context)
<1>1. PICK chat \in BOOLEAN : chat = Chat
  <2>1. Chat \in BOOLEAN
    BY DEF Chat, Has
  <2> QED
    BY <2>1, Zenon
<1>2. PICK no \in BOOLEAN : no = FALSE
  OBVIOUS
<1>3. b = [context |-> context, run |-> request.run, out |-> << >>, said |-> 0,
           announced |-> chat, open |-> no, complete |-> no]
  BY <1>1, <1>2, Zenon DEF Begun
<1> HIDE DEF b
<1>4. << >> \in Seq(Items)
  OBVIOUS
<1>5. IsResponse(b) /\ b.out = << >> /\ b.open = no
  BY <1>3, <1>4 DEF IsResponse
<1> QED
  BY <1>2, <1>5 DEF b

\* The calls of a response are counted.
LEMMA CallsCounted ==
  ASSUME NEW q \in Seq(Items)
  PROVE  LET C(s) == {j \in DOMAIN s : s[j].k = "call"}
         IN  /\ IsFiniteSet(C(q)) /\ Cardinality(C(q)) \in Nat
             /\ \A x \in Items : Cardinality(C(Append(q, x))) =
                  Cardinality(C(q)) + (IF x.k = "call" THEN 1 ELSE 0)
<1> DEFINE C(s) == {j \in DOMAIN s : s[j].k = "call"}
<1>1. Len(q) \in Nat /\ DOMAIN q = 1 .. Len(q) /\ IsFiniteSet(1 .. Len(q))
  BY LenProperties, FS_Interval
<1>2. IsFiniteSet(C(q))
  BY <1>1, FS_Subset
<1>3. Cardinality(C(q)) \in Nat
  BY <1>2, FS_CardinalityType
<1>4. ASSUME NEW x \in Items
      PROVE  Cardinality(C(Append(q, x))) = Cardinality(C(q)) + (IF x.k = "call" THEN 1 ELSE 0)
  <2> DEFINE r == Append(q, x)
             n == Len(q) + 1
  <2>1. /\ Len(q) \in Nat /\ DOMAIN r = 1 .. Len(q) + 1 /\ DOMAIN q = 1 .. Len(q)
        /\ r[Len(q) + 1] = x /\ \A i \in 1 .. Len(q) : r[i] = q[i]
    BY OneMore
  <2> HIDE DEF r
  <2>2. CASE x.k = "call"
    <3>1. C(r) = C(q) \cup {n} /\ n \notin C(q)
      BY <2>1, <2>2
    <3>2. Cardinality(C(q) \cup {n}) = Cardinality(C(q)) + 1
      <4> HIDE DEF C, n
      <4> QED
        BY <1>2, <3>1, FS_AddElement
    <3> QED
      BY <2>2, <3>1, <3>2 DEF r
  <2>3. CASE x.k # "call"
    <3>1. C(r) = C(q)
      BY <2>1, <2>3
    <3> HIDE DEF C
    <3> QED
      BY <1>3, <2>3, <3>1 DEF r
  <2> QED
    BY <2>2, <2>3
<1> QED
  BY <1>2, <1>3, <1>4

\* What the endpoint knows of the response once it has sent a payload.
LEMMA SentFacts ==
  ASSUME ServerInv, current \in DOMAIN server, NEW payload \in Payloads, profile \in Profiles
  PROVE  LET r == server[current]
             s == Sent(payload)
         IN  /\ IsResponse(r) /\ IsResponse(s) /\ payload \in Symbols
             /\ payload \in Tools =>
                  /\ ~ r.open /\ (s.open <=> Has("added"))
                  /\ s.out = Append(r.out, Item("call", current, CallsOf(current) + 1, payload))
             /\ payload = "close" => r.open /\ ~ s.open /\ s.out = r.out
             /\ payload \notin Tools \cup {"close"} =>
                  /\ s.open <=> r.open
                  /\ \/ s.out = r.out
                     \/ ~ r.open /\ \E x \in Items : x.k # "call" /\ s.out = Append(r.out, x)
<1> DEFINE r == server[current]
           s == Sent(payload)
           b == Begins(payload)
           item == Item(payload, current, 0, "none")
           call == Item("call", current, CallsOf(current) + 1, payload)
<1>1. IsResponse(r) /\ current \in Nat
  BY LenProperties DEF ServerInv
<1>2. r.out \in Seq(Items) /\ r.said \in Nat /\ r.open \in BOOLEAN
  BY <1>1 DEF IsResponse
<1>3. CallsOf(current) \in Nat
  BY <1>2, CallsCounted DEF CallsOf
<1>4. /\ payload \in Tools \cup Contents \cup Markers
      /\ r.open => payload \in {"close", "failed"}
      /\ payload = "close" => r.open \/ payload \in Tools
  <2>1. profile.says \subseteq Tools \cup Contents
    BY ProviderAssumption
  <2>2. payload \in Tools \cup Contents \cup Markers
    BY <2>1 DEF Payloads, Markers
  <2>3. r.open => payload \in {"close", "failed"}
    BY DEF Payloads
  <2>4. payload = "close" => r.open \/ payload \in Tools
    BY <2>1 DEF Payloads, Contents
  <2> QED
    BY <2>2, <2>3, <2>4
<1>5. /\ Tools \cap {"text", "thinking", "reasoning", "search"} = {}
      /\ Tools \cap {"created", "close", "failed", "completed", "[DONE]"} = {}
  BY ProviderAssumption DEF Contents, Markers
<1>6. PICK a \in BOOLEAN : a = (r.announced \/ payload = "created")
  <2>1. (r.announced \/ payload = "created") \in BOOLEAN
    OBVIOUS
  <2> QED
    BY <2>1, Zenon
<1>7. PICK n \in Nat : n = IF payload = "text" THEN r.said + 1 ELSE r.said
  BY <1>2
<1>8. PICK o \in BOOLEAN :
        o = IF payload \in Tools THEN Has("added") ELSE r.open /\ payload # "close"
  <2>1. (IF payload \in Tools THEN Has("added") ELSE r.open /\ payload # "close") \in BOOLEAN
    <3>1. Has("added") \in BOOLEAN
      BY DEF Has
    <3>2. (r.open /\ payload # "close") \in BOOLEAN
      OBVIOUS
    <3> QED
      BY <3>1, <3>2, Zenon
  <2> QED
    BY <2>1, Zenon
<1>9. PICK c \in BOOLEAN : c = (r.complete \/ payload \in {"completed", "[DONE]"})
  <2>1. (r.complete \/ payload \in {"completed", "[DONE]"}) \in BOOLEAN
    OBVIOUS
  <2> QED
    BY <2>1, Zenon
<1>10. /\ payload \in Tools => call \in Items /\ call.k = "call"
       /\ payload \in Contents => item \in Items /\ item.k # "call"
  <2>1. payload \in Tools => call \in Items /\ call.k = "call"
    BY <1>1, <1>3 DEF Item, Items, Kinds, Nothing
  <2>2. payload \in Contents => item \in Items /\ item.k # "call"
    BY <1>1 DEF Item, Items, Kinds, Nothing, Contents
  <2> QED
    BY <2>1, <2>2
<1>11. ASSUME NEW x \in Items, b = <<x>>
       PROVE  r.out \o b = Append(r.out, x) /\ r.out \o b \in Seq(Items)
  <2> DEFINE w == r.out
  <2>1. w \in Seq(Items)
    BY <1>2
  <2> HIDE DEF w
  <2>2. Append(w, x) = w \o <<x>> /\ Append(w, x) \in Seq(Items)
    BY <2>1, AppendIsConcat, AppendProperties
  <2> QED
    BY <1>11, <2>2 DEF w
<1>12. ASSUME b = << >>
       PROVE  r.out \o b = r.out
  BY <1>2, <1>12, ConcatEmptySeq
<1>13. /\ payload \in Tools => b = <<call>>
       /\ payload \in Contents /\ payload # "text" => b = <<item>>
       /\ payload = "text" => b \in {<<item>>, << >>}
       /\ payload \in Markers => b = << >>
  <2> HIDE DEF call, item
  <2>1. payload \in Tools => b = <<call>>
    BY DEF Begins, call
  <2>2. payload \in Contents /\ payload # "text" => b = <<item>>
    BY <1>5 DEF Begins, item, Contents
  <2>3. payload = "text" => b \in {<<item>>, << >>}
    BY <1>5 DEF Begins, item
  <2>4. payload \in Markers => b = << >>
    BY <1>5 DEF Begins, Contents, Markers
  <2> QED
    BY <2>1, <2>2, <2>3, <2>4
<1> DEFINE q == r.out \o b
<1>14. q \in Seq(Items)
  <2> HIDE DEF b, call, item, r
  <2>1. \/ payload \in Tools /\ b = <<call>>
        \/ payload \in Contents /\ b = <<item>>
        \/ b = << >>
    BY <1>4, <1>13 DEF Contents
  <2> HIDE DEF q
  <2>2. CASE payload \in Tools /\ b = <<call>>
    BY <1>10, <1>11, <2>2 DEF q
  <2>3. CASE payload \in Contents /\ b = <<item>>
    BY <1>10, <1>11, <2>3 DEF q
  <2>4. CASE b = << >>
    BY <1>2, <1>12, <2>4 DEF q
  <2> QED
    BY <2>1, <2>2, <2>3, <2>4
<1>15. s = Edited(r, a, n, q, o, c)
  BY <1>6, <1>7, <1>8, <1>9, Zenon DEF Sent, Edited
<1> HIDE DEF q, s, b
<1>16. IsResponse(s) /\ s.out = q /\ s.open = o
  <2>1. PICK u : u = r
    OBVIOUS
  <2>2. IsResponse(u) /\ s = Edited(u, a, n, q, o, c)
    BY <1>1, <1>15, <2>1
  <2> HIDE <2>1 DEF r
  <2> QED
    BY <1>14, <2>2, Edits, SMTT(40)
<1>17. ASSUME payload \in Tools
       PROVE  /\ ~ r.open /\ (s.open <=> Has("added"))
              /\ s.out = Append(r.out, call)
  <2>1. ~ r.open
    BY <1>4, <1>5, <1>17
  <2>2. s.open <=> Has("added")
    BY <1>8, <1>16, <1>17, Zenon
  <2>3. s.out = Append(r.out, call)
    <3> HIDE DEF call
    <3> QED
      BY <1>10, <1>11, <1>13, <1>16, <1>17 DEF q
  <2> QED
    BY <2>1, <2>2, <2>3
<1>18. ASSUME payload = "close"
       PROVE  r.open /\ ~ s.open /\ s.out = r.out
  <2>1. payload \notin Tools
    BY <1>5, <1>18
  <2>2. r.open
    BY <1>4, <1>18, <2>1
  <2>3. ~ s.open
    BY <1>8, <1>16, <1>18, <2>1, Zenon
  <2>4. s.out = r.out
    BY <1>12, <1>13, <1>16, <1>18 DEF Markers, q
  <2> QED
    BY <2>2, <2>3, <2>4
<1>19. ASSUME payload \notin Tools, payload # "close"
       PROVE  /\ s.open <=> r.open
              /\ \/ s.out = r.out
                 \/ ~ r.open /\ \E x \in Items : x.k # "call" /\ s.out = Append(r.out, x)
  <2>1. s.open <=> r.open
    BY <1>8, <1>16, <1>19, Zenon
  <2>2. CASE payload \in Contents
    <3>1. ~ r.open
      BY <1>4, <2>2 DEF Contents
    <3>2. b = <<item>> \/ b = << >>
      BY <1>13, <2>2
    <3>3. item \in Items /\ item.k # "call"
      BY <1>10, <2>2
    <3> HIDE DEF item
    <3>4. s.out = r.out \/ s.out = Append(r.out, item)
      BY <1>11, <1>12, <1>16, <3>2, <3>3 DEF q
    <3> QED
      BY <2>1, <3>1, <3>3, <3>4
  <2>3. CASE payload \in Markers
    <3>1. s.out = r.out
      BY <1>12, <1>13, <1>16, <2>3 DEF q
    <3> QED
      BY <2>1, <3>1
  <2> QED
    BY <1>4, <1>19, <2>2, <2>3
<1>20. payload \in Symbols
  BY <1>4 DEF Symbols
<1> HIDE DEF r, call
<1> QED
  BY <1>1, <1>16, <1>17, <1>18, <1>19, <1>20, Zenon DEF r, s, call

-----------------------------------------------------------------------------
(* The decoder *)

\* The first delimiter from p on, and the cut it makes.
Found(b, p) == {q \in p .. Len(b) : Delimiter(b, q) > 0}
At(b, p) == Min(Found(b, p))
End(b, p) == At(b, p) + Delimiter(b, At(b, p))
Cut(b, p) == [at |-> At(b, p), end |-> End(b, p)]

LEMMA Delimiters ==
  ASSUME NEW X, NEW b \in Seq(X), NEW p \in 0 .. Len(b)
  PROVE  /\ Len(b) \in Nat
         /\ Delimiter(b, p) > 0 => p + Delimiter(b, p) \in p + 1 .. Len(b)
<1> DEFINE s == From(b, p)
<1>1. Len(b) \in Nat /\ Len(s) = Len(b) - p
  BY FromFacts
<1>2. Len(<<CR, LF, CR, LF>>) = 4 /\ Len(<<LF, LF>>) = 2
  OBVIOUS
<1>3. IsPrefix(<<CR, LF, CR, LF>>, s) => 4 <= Len(s)
  BY <1>2 DEF IsPrefix
<1>4. IsPrefix(<<LF, LF>>, s) => 2 <= Len(s)
  BY <1>2 DEF IsPrefix
<1>5. \/ Delimiter(b, p) = 4 /\ IsPrefix(<<CR, LF, CR, LF>>, s)
      \/ Delimiter(b, p) = 2 /\ IsPrefix(<<LF, LF>>, s)
      \/ Delimiter(b, p) = 0
  BY DEF Delimiter, From
<1> QED
  BY <1>1, <1>3, <1>4, <1>5

LEMMA CutFacts ==
  ASSUME NEW X, NEW b \in Seq(X), NEW p \in 0 .. Len(b), Found(b, p) # {}
  PROVE  At(b, p) \in 0 .. Len(b) /\ End(b, p) \in p + 1 .. Len(b)
<1> DEFINE F == Found(b, p)
           a == At(b, p)
<1>1. Len(b) \in Nat
  BY LenProperties
<1>2. F \subseteq Nat /\ \A q \in F : q \in p .. Len(b) /\ Delimiter(b, q) > 0
  BY <1>1 DEF Found
<1>3. a \in F
  <2> HIDE DEF F
  <2> QED
    BY <1>2, MinFacts DEF At, F
<1> HIDE DEF a, F
<1>4. a \in p .. Len(b) /\ Delimiter(b, a) > 0
  BY <1>2, <1>3
<1>5. a + Delimiter(b, a) \in a + 1 .. Len(b)
  <2>1. a \in 0 .. Len(b)
    BY <1>1, <1>4
  <2> QED
    BY <1>4, <2>1, Delimiters
<1>6. End(b, p) = a + Delimiter(b, a)
  BY DEF End, a
<1>7. End(b, p) \in p + 1 .. Len(b)
  BY <1>1, <1>4, <1>5, <1>6
<1> QED
  BY <1>1, <1>4, <1>7 DEF a

LEMMA CutsExist ==
  ASSUME NEW X, NEW b \in Seq(X)
  PROVE  \E f : f = [p \in 0 .. Len(b) |->
                       IF Found(b, p) = {} THEN << >> ELSE <<Cut(b, p)>> \o f[End(b, p)]]
<1> DEFINE L == Len(b)
           Step(f, n) == [p \in L - n .. L |->
                            IF Found(b, p) = {} THEN << >> ELSE <<Cut(b, p)>> \o f[End(b, p)]]
           T == {n \in Nat : n <= L => \E f : f = Step(f, n)}
<1>1. L \in Nat
  BY LenProperties
<1>2. \A p \in 0 .. L : Found(b, p) # {} => End(b, p) \in p + 1 .. L
  BY CutFacts
<1> HIDE DEF L
<1>3. 0 \in T
  <2> DEFINE f == [p \in L - 0 .. L |-> << >>]
  <2>1. \A p \in L - 0 .. L : Found(b, p) = {}
    BY <1>1, <1>2
  <2>2. f = Step(f, 0)
    BY <2>1
  <2> HIDE DEF f, Step
  <2>3. \E g : g = Step(g, 0)
    BY <2>2
  <2> QED
    BY <2>3
<1>4. ASSUME NEW n \in Nat, n \in T
      PROVE  n + 1 \in T
  <2>1. CASE n + 1 <= L
    <3>1. PICK f : f = Step(f, n)
      <4>1. n <= L
        BY <1>1, <2>1
      <4> HIDE DEF Step
      <4> QED
        BY <1>4, <4>1
    <3> DEFINE k == L - (n + 1)
               g == [p \in k .. L |->
                       IF p = k
                       THEN IF Found(b, p) = {} THEN << >> ELSE <<Cut(b, p)>> \o f[End(b, p)]
                       ELSE f[p]]
    <3>2. k \in Nat /\ L - n = k + 1 /\ k + 1 <= L
      BY <1>1, <2>1
    <3>3. \A p \in k + 1 .. L : f[p] = IF Found(b, p) = {} THEN << >>
                                       ELSE <<Cut(b, p)>> \o f[End(b, p)]
      BY <3>1, <3>2
    <3> HIDE <3>1 DEF k
    <3>4. \A p \in k + 1 .. L : g[p] = f[p]
      BY <1>1, <3>2
    <3>5. \A p \in k .. L : Found(b, p) # {} => End(b, p) \in k + 1 .. L
      BY <1>1, <1>2, <3>2
    <3>6. g[k] = IF Found(b, k) = {} THEN << >> ELSE <<Cut(b, k)>> \o f[End(b, k)]
      BY <1>1, <3>2
    <3>7. g = [p \in k .. L |-> g[p]]
      OBVIOUS
    <3> HIDE DEF g
    <3>8. \A p \in k .. L : g[p] = IF Found(b, p) = {} THEN << >>
                                   ELSE <<Cut(b, p)>> \o g[End(b, p)]
      <4> SUFFICES ASSUME NEW p \in k .. L
                   PROVE  g[p] = IF Found(b, p) = {} THEN << >>
                                 ELSE <<Cut(b, p)>> \o g[End(b, p)]
        OBVIOUS
      <4>1. Found(b, p) # {} => g[End(b, p)] = f[End(b, p)]
        BY <3>4, <3>5
      <4>2. g[p] = IF Found(b, p) = {} THEN << >> ELSE <<Cut(b, p)>> \o f[End(b, p)]
        <5>1. CASE p = k
          BY <3>6, <5>1
        <5>2. CASE p # k
          <6>1. p \in k + 1 .. L
            BY <1>1, <3>2, <5>2
          <6> QED
            BY <3>3, <3>4, <6>1
        <5> QED
          BY <5>1, <5>2
      <4> QED
        BY <4>1, <4>2
    <3>9. g = Step(g, n + 1)
      BY <3>7, <3>8 DEF k
    <3> HIDE DEF Step
    <3>10. \E h : h = Step(h, n + 1)
      BY <3>9
    <3> QED
      BY <3>10
  <2>2. CASE ~ (n + 1 <= L)
    BY <2>2
  <2> QED
    BY <2>1, <2>2
<1>5. Nat \subseteq T
  <2> HIDE DEF T
  <2> QED
    BY <1>3, <1>4, SetInduction
<1>6. \E f : f = Step(f, L)
  <2> HIDE DEF Step
  <2> QED
    BY <1>1, <1>5
<1>7. L - L = 0
  BY <1>1
<1> QED
  BY <1>6, <1>7 DEF L

\* The cuts are places of the buffer.
LEMMA CutsInside ==
  ASSUME NEW X, NEW b \in Seq(X), NEW start \in 0 .. Len(b)
  PROVE  Cuts(b, start) \in Seq([at : 0 .. Len(b), end : 0 .. Len(b)])
<1> DEFINE L == Len(b)
           Places == [at : 0 .. L, end : 0 .. L]
           Step(f) == [p \in 0 .. L |->
                         IF Found(b, p) = {} THEN << >> ELSE <<Cut(b, p)>> \o f[End(b, p)]]
           c == CHOOSE f : f = Step(f)
<1>1. Cuts(b, start) = c[start]
  BY DEF Cuts, Found, Cut, End, At
<1>2. c = Step(c)
  <2>1. \E f : f = Step(f)
    BY CutsExist
  <2> HIDE DEF Step
  <2> QED
    BY <2>1
<1> HIDE DEF c
<1>3. L \in Nat
  BY LenProperties
<1> DEFINE T == {m \in Nat : m <= L => c[L - m] \in Seq(Places)}
<1>4. ASSUME NEW m \in Nat, \A k \in 0 .. m - 1 : k \in T
      PROVE  m \in T
  <2> SUFFICES ASSUME m <= L
               PROVE  c[L - m] \in Seq(Places)
    OBVIOUS
  <2> DEFINE p == L - m
             e == End(b, p)
             x == Cut(b, p)
  <2>1. p \in 0 .. L
    BY <1>3
  <2>2. c[p] = IF Found(b, p) = {} THEN << >> ELSE <<x>> \o c[e]
    BY <1>2, <2>1
  <2>3. CASE Found(b, p) = {}
    <3>1. c[p] = << >> /\ << >> \in Seq(Places)
      BY <2>2, <2>3
    <3> QED
      BY <3>1
  <2>4. CASE Found(b, p) # {}
    <3>1. At(b, p) \in 0 .. L /\ e \in p + 1 .. L
      BY <2>1, <2>4, CutFacts
    <3>2. x \in Places
      <4>1. e \in 0 .. L
        BY <1>3, <2>1, <3>1
      <4> QED
        BY <3>1, <4>1 DEF Cut
    <3> HIDE DEF e, x
    <3>3. L - e \in 0 .. m - 1 /\ L - (L - e) = e /\ L - e <= L
      BY <1>3, <3>1
    <3>4. c[e] \in Seq(Places)
      BY <1>4, <3>3
    <3> DEFINE one == <<x>>
               rest == c[e]
    <3>5. one \in Seq(Places) /\ rest \in Seq(Places)
      <4> HIDE DEF Places
      <4> QED
        BY <3>2, <3>4
    <3>6. one \o rest \in Seq(Places)
      <4> HIDE DEF one, rest, Places
      <4> QED
        BY <3>5, ConcatProperties
    <3> HIDE DEF Places, p
    <3> QED
      BY <2>2, <2>4, <3>6 DEF p
  <2> QED
    BY <2>3, <2>4
<1>5. Nat \subseteq T
  <2> HIDE DEF T
  <2> QED
    BY <1>4, StrongInduction
<1>6. L - start \in Nat /\ L - start <= L /\ L - (L - start) = start
  BY <1>3
<1>7. c[start] \in Seq(Places)
  <2> HIDE DEF Places
  <2> QED
    BY <1>5, <1>6
<1> QED
  BY <1>1, <1>7

\* What is kept has what the positions allow.
LEMMA KeptWithin ==
  ASSUME NEW X, NEW s \in Seq(X), NEW P, NEW Y, \A j \in 1 .. Len(s) : j \in P => s[j] \in Y
  PROVE  Kept(s, P) \in Seq(Y)
<1> DEFINE k == Kept(s, P)
<1>1. k \in Seq(X)
  BY KeptPositions
<1>2. PICK idx : Positions(idx, s, P, k)
  BY KeptPositions
<1> HIDE DEF k
<1>3. Len(k) \in Nat /\ k \in [1 .. Len(k) -> X]
  BY <1>1, LenProperties
<1>4. ASSUME NEW i \in 1 .. Len(k)
      PROVE  k[i] \in Y
  <2>1. k[i] = s[idx[i]] /\ idx[i] \in P /\ idx \in Seq(1 .. Len(s)) /\ i \in 1 .. Len(idx)
    BY <1>2 DEF Positions
  <2>2. idx[i] \in 1 .. Len(s)
    BY <2>1, ElementOfSeq
  <2> QED
    BY <2>1, <2>2
<1>5. k \in [1 .. Len(k) -> Y]
  BY <1>3, <1>4
<1>6. k \in Seq(Y)
  BY <1>3, <1>5, FunctionIsSeq
<1> QED
  BY <1>6 DEF k

\* The frames between the cuts, and the events they are.
LEMMA DecodedFacts ==
  ASSUME NEW b \in Seq(Bytes),
         NEW cuts \in Seq([at : 0 .. Len(b), end : 0 .. Len(b)])
  PROVE  Decoded(Split(b, cuts)) \in Seq(Seq({"text"}) \ {<< >>})
<1> DEFINE n == Len(cuts)
           fs == Split(b, cuts)
           data == [k \in DOMAIN fs |-> Payload(fs[k])]
           P == {k \in DOMAIN data : data[k] # << >>}
<1>1. n \in Nat /\ DOMAIN cuts = 1 .. n /\ Len(b) \in Nat
  BY LenProperties
<1>2. ASSUME NEW k \in 1 .. n
      PROVE  fs[k] \in Seq(Bytes)
  <2> DEFINE lo == IF k = 1 THEN 1 ELSE cuts[k - 1].end + 1
             hi == cuts[k].at
  <2>1. cuts[k] \in [at : 0 .. Len(b), end : 0 .. Len(b)]
    BY ElementOfSeq
  <2>2. k # 1 => cuts[k - 1] \in [at : 0 .. Len(b), end : 0 .. Len(b)]
    <3>1. k # 1 => k - 1 \in 1 .. n
      BY <1>1
    <3> QED
      BY <3>1, ElementOfSeq
  <2>3. lo \in Nat \ {0} /\ hi \in 0 .. Len(b)
    <3>1. hi \in 0 .. Len(b)
      BY <2>1
    <3>2. k # 1 => cuts[k - 1].end \in 0 .. Len(b)
      BY <2>2
    <3> DEFINE e == cuts[k - 1].end
    <3>3. lo = IF k = 1 THEN 1 ELSE e + 1
      BY Zenon
    <3>4. k # 1 => e \in 0 .. Len(b)
      BY <3>2
    <3> HIDE DEF hi, lo, e
    <3>5. k # 1 => e + 1 \in Nat \ {0}
      BY <1>1, <3>4
    <3> QED
      BY <3>1, <3>3, <3>5
  <2>4. fs[k] = SubSeq(b, lo, hi)
    <3>1. fs = [j \in 1 .. n |->
                  SubSeq(b, IF j = 1 THEN 1 ELSE cuts[j - 1].end + 1, cuts[j].at)]
      BY <1>1 DEF Split
    <3> HIDE DEF fs
    <3> QED
      BY <3>1
  <2> HIDE DEF lo, hi
  <2>5. \A i \in lo .. hi : b[i] \in Bytes
    <3>1. \A i \in lo .. hi : i \in 1 .. Len(b)
      BY <1>1, <2>3
    <3> QED
      BY <3>1, ElementOfSeq
  <2>6. lo \in Int /\ hi \in Int
    BY <1>1, <2>3
  <2> QED
    BY <2>4, <2>5, <2>6, SubSeqProperties
<1>3. DOMAIN fs = 1 .. n
  BY <1>1 DEF Split
<1> HIDE DEF fs
<1>4. ASSUME NEW k \in 1 .. n
      PROVE  Payload(fs[k]) \in Seq({"text"})
  <2> DEFINE f == fs[k]
             Q == {j \in DOMAIN f : f[j] \notin {CR, LF}}
  <2>1. f \in Seq(Bytes)
    BY <1>2
  <2>2. \A j \in 1 .. Len(f) : j \in Q => f[j] \in {"text"}
    <3>1. \A j \in 1 .. Len(f) : f[j] \in Bytes
      BY <2>1, ElementOfSeq
    <3> QED
      BY <3>1 DEF Bytes
  <2>3. Kept(f, Q) \in Seq({"text"})
    <3> HIDE DEF f, Q
    <3> QED
      BY <2>1, <2>2, KeptWithin
  <2> QED
    BY <2>3 DEF Payload
<1>5. DOMAIN data = 1 .. n /\ \A k \in 1 .. n : data[k] \in Seq({"text"})
  BY <1>3, <1>4
<1>6. data \in Seq(Seq({"text"})) /\ Len(data) = n
  <2>1. data \in [1 .. n -> Seq({"text"})]
    BY <1>3, <1>4
  <2> HIDE DEF data
  <2> QED
    BY <1>1, <2>1, FunctionIsSeq
<1> HIDE DEF data
<1>7. \A k \in 1 .. Len(data) : k \in P => data[k] \in Seq({"text"}) \ {<< >>}
  BY <1>5, <1>6
<1> HIDE DEF P
<1>8. Kept(data, P) \in Seq(Seq({"text"}) \ {<< >>})
  BY <1>6, <1>7, KeptWithin
<1> QED
  BY <1>8 DEF Decoded, data, P, fs

\* What a decoder holds stays within its limit, and its search begins inside.
LEMMA PushFacts ==
  ASSUME DecoderInv, NEW n \in Nat, NEW chunk \in [1 .. n -> Bytes],
         ~ TryPush(decoder, chunk).error
  PROVE  LET d == TryPush(decoder, chunk).decoder
         IN  /\ d \in [buffer : Seq(Bytes), scan : Nat]
             /\ Len(d.buffer) <= MaxBuffer /\ d.scan <= Len(d.buffer)
             /\ TryPush(decoder, chunk).events \in Seq(Seq({"text"}) \ {<< >>})
<1> DEFINE old == decoder.buffer
           b == old \o chunk
           start == decoder.scan
           cuts == Cuts(b, start)
           consumed == IF cuts = << >> THEN 0 ELSE Last(cuts).end
           scan == Larger(consumed, Minus(Len(b), Overlap))
           rest == From(b, consumed)
           toolong == \/ Len(b) > MaxBuffer
                      \/ \E k \in DOMAIN Split(b, cuts) : Len(Split(b, cuts)[k]) > MaxFrame
<1>1. old \in Seq(Bytes) /\ start \in Nat /\ start <= Len(old)
  BY DEF DecoderInv
<1>2. chunk \in Seq(Bytes)
  BY SeqDef
<1> HIDE DEF old, start
<1>3. b \in Seq(Bytes) /\ Len(b) \in Nat /\ Len(old) \in Nat /\ Len(old) <= Len(b)
  BY <1>1, <1>2, ConcatFacts
<1> HIDE DEF b
<1>4. start \in 0 .. Len(b)
  BY <1>1, <1>3
<1>5. cuts \in Seq([at : 0 .. Len(b), end : 0 .. Len(b)])
  BY <1>3, <1>4, CutsInside
<1> HIDE DEF cuts
<1>6. consumed \in 0 .. Len(b)
  <2>1. CASE cuts = << >>
    BY <1>3, <2>1
  <2>2. CASE cuts # << >>
    <3>1. Len(cuts) \in 1 .. Len(cuts) /\ Last(cuts) = cuts[Len(cuts)]
      BY <1>5, <2>2, LenProperties, EmptySeq DEF Last
    <3>2. Last(cuts) \in [at : 0 .. Len(b), end : 0 .. Len(b)]
      <4> DEFINE Places == [at : 0 .. Len(b), end : 0 .. Len(b)]
      <4>1. cuts \in Seq(Places)
        BY <1>5
      <4> HIDE DEF Places
      <4>2. PICK m \in 1 .. Len(cuts) : Last(cuts) = cuts[m]
        BY <3>1
      <4>3. cuts[m] \in Places
        BY <4>1, ElementOfSeq
      <4> QED
        BY <4>2, <4>3 DEF Places
    <3> QED
      BY <2>2, <3>2
  <2> QED
    BY <2>1, <2>2
<1> HIDE DEF consumed
<1>7. rest \in Seq(Bytes) /\ Len(rest) = Len(b) - consumed
  BY <1>3, <1>6, FromFacts
<1>8. scan \in consumed .. Len(b)
  BY <1>3, <1>6 DEF Larger, Minus, Overlap
<1> HIDE DEF scan
<1>9. TryPush(decoder, chunk) =
        IF toolong THEN [decoder |-> decoder, events |-> << >>, error |-> TRUE]
        ELSE [decoder |-> [buffer |-> rest, scan |-> scan - consumed],
              events |-> Decoded(Split(b, cuts)), error |-> FALSE]
  BY Zenon DEF TryPush, old, b, start, cuts, consumed, scan, rest, From
<1>10. ~ toolong
  <2> HIDE DEF toolong
  <2> QED
    BY <1>9
<1>11. Len(b) <= MaxBuffer
  BY <1>3, <1>10, SseAssumption
<1>12. /\ TryPush(decoder, chunk).decoder = [buffer |-> rest, scan |-> scan - consumed]
       /\ TryPush(decoder, chunk).events = Decoded(Split(b, cuts))
  <2> HIDE DEF toolong, rest
  <2> QED
    BY <1>9, <1>10
<1>13. Decoded(Split(b, cuts)) \in Seq(Seq({"text"}) \ {<< >>})
  BY <1>3, <1>5, DecodedFacts
<1> HIDE DEF rest
<1>14. scan - consumed \in Nat /\ scan - consumed <= Len(rest) /\ Len(rest) <= MaxBuffer
  BY <1>3, <1>6, <1>7, <1>8, <1>11, SseAssumption
<1> QED
  BY <1>7, <1>12, <1>13, <1>14

-----------------------------------------------------------------------------
(* The endpoint, the decoder and the frames, step by step *)

LEMMA SendingFacts ==
  ASSUME ClientInv, ServerInv, NEW payload, Sending(payload)
  PROVE  /\ current \in DOMAIN server /\ payload \in Payloads /\ profile \in Profiles
         /\ DOMAIN server' = DOMAIN server /\ server'[current] = Sent(payload)
         /\ \A r \in DOMAIN server : r # current => server'[r] = server[r]
<1>1. server \in Seq(ToSet(server)) /\ Len(server) \in Nat /\ DOMAIN server = 1 .. Len(server)
  BY LenProperties DEF ServerInv
<1>2. current \in DOMAIN server /\ payload \in Payloads /\ profile \in Profiles
  BY <1>1 DEF ClientInv, Sending
<1> DEFINE x == Sent(payload)
<1>3. server' = [server EXCEPT ![current] = x]
  BY DEF Sending
<1> HIDE DEF x
<1>4. DOMAIN server' = DOMAIN server /\ server'[current] = x
      /\ \A r \in DOMAIN server : r # current => server'[r] = server[r]
  BY <1>2, <1>3
<1> QED
  BY <1>2, <1>4 DEF x

LEMMA CompletingFacts ==
  ASSUME ServerInv, NEW k, Completing(k)
  PROVE  /\ DOMAIN server' = DOMAIN server
         /\ \A r \in DOMAIN server : /\ IsResponse(server'[r])
                                     /\ server'[r].out = server[r].out
                                     /\ server'[r].open = server[r].open
<1>1. PICK yes \in BOOLEAN : yes = TRUE
  OBVIOUS
<1> DEFINE old == server[k]
           x == [old EXCEPT !.complete = yes]
<1>2. server' = [server EXCEPT ![k] = x] /\ k \in DOMAIN server
  BY <1>1, Zenon DEF Completing
<1>3. IsResponse(old)
  BY <1>2 DEF ServerInv
<1>4. IsResponse(x) /\ x.out = old.out /\ x.open = old.open
  <2> HIDE DEF old
  <2> QED
    BY <1>3, Completed
<1> HIDE DEF x
<1>5. /\ DOMAIN server' = DOMAIN server
      /\ \A r \in DOMAIN server : server'[r] = IF r = k THEN x ELSE server[r]
  BY <1>2
<1> QED
  BY <1>4, <1>5 DEF ServerInv

\* The last of the items of a response that has just announced a call.
LEMMA AtEnd ==
  ASSUME NEW q \in Seq(Items), NEW x \in Items, NEW r, r.out = Append(q, x),
         x.k = "call", x.tool \in Tools
  PROVE  CallAtEnd(r)
<1> DEFINE t == Append(q, x)
<1>1. t \in Seq(Items) /\ Len(t) = Len(q) + 1 /\ t[Len(q) + 1] = x /\ Len(q) \in Nat
  BY OneMore
<1> HIDE DEF t
<1>2. Last(t) = x /\ t # << >>
  BY <1>1, EmptySeq DEF Last
<1>3. r.out = t
  BY DEF t
<1> QED
  BY <1>2, <1>3 DEF CallAtEnd

LEMMA ServerStep ==
  ASSUME ClientInv, ServerInv, [Next]_vars
  PROVE  ServerInv'
<1>1. /\ server' \in Seq(ToSet(server)') /\ Len(server) \in Nat /\ DOMAIN server = 1 .. Len(server)
      /\ \A r \in DOMAIN server : /\ IsResponse(server[r])
                                  /\ server[r].open => CallAtEnd(server[r])
  BY ServerGrows DEF ServerInv
<1> SUFFICES \A r \in DOMAIN server' : /\ IsResponse(server'[r])
                                       /\ server'[r].open => CallAtEnd(server'[r])
  BY <1>1 DEF ServerInv
<1>2. CASE server' = server
  BY <1>1, <1>2
<1>3. CASE Beginning
  <2>1. PICK context : server' = Append(server, Begun(request, context))
    BY <1>3 DEF Beginning
  <2> DEFINE x == Begun(request, context)
             s == Append(server, x)
  <2>2. /\ DOMAIN s = 1 .. Len(server) + 1 /\ s[Len(server) + 1] = x
        /\ \A i \in 1 .. Len(server) : s[i] = server[i]
    BY Grown DEF ServerInv
  <2>3. IsResponse(x) /\ ~ x.open
    BY BegunFacts
  <2>4. server' = s
    BY <2>1
  <2> HIDE DEF x, s
  <2> QED
    BY <1>1, <2>2, <2>3, <2>4
<1>4. ASSUME NEW payload, Sending(payload)
      PROVE  \A r \in DOMAIN server' : /\ IsResponse(server'[r])
                                       /\ server'[r].open => CallAtEnd(server'[r])
  <2>1. /\ current \in DOMAIN server /\ payload \in Payloads /\ profile \in Profiles
        /\ DOMAIN server' = DOMAIN server /\ server'[current] = Sent(payload)
        /\ \A r \in DOMAIN server : r # current => server'[r] = server[r]
    BY <1>4, SendingFacts
  <2> DEFINE old == server[current]
             x == Sent(payload)
             call == Item("call", current, CallsOf(current) + 1, payload)
  <2>2. /\ IsResponse(old) /\ IsResponse(x)
        /\ payload \in Tools => ~ old.open /\ x.out = Append(old.out, call)
        /\ payload = "close" => ~ x.open
        /\ payload \notin Tools \cup {"close"} =>
             /\ x.open <=> old.open
             /\ \/ x.out = old.out
                \/ ~ old.open /\ \E y \in Items : y.k # "call" /\ x.out = Append(old.out, y)
    <3> HIDE DEF call
    <3> QED
      BY <2>1, SentFacts, Zenon DEF call
  <2>3. old.open => CallAtEnd(old)
    BY <1>1, <2>1
  <2> HIDE DEF old, x
  <2>4. x.open => CallAtEnd(x)
    <3>1. CASE payload \in Tools
      <4>1. call \in Items /\ call.k = "call" /\ call.tool = payload
        <5>1. current \in Nat /\ CallsOf(current) \in Nat
          <6> DEFINE q == server[current].out
          <6>1. q \in Seq(Items)
            BY <2>2 DEF old, IsResponse
          <6>2. CallsOf(current) \in Nat
            BY <6>1, CallsCounted DEF CallsOf
          <6>3. current \in Nat
            BY <1>1, <2>1
          <6> QED
            BY <6>2, <6>3
        <5> QED
          BY <3>1, <5>1 DEF Item, Items, Kinds, Nothing
      <4> HIDE DEF call
      <4>2. old.out \in Seq(Items)
        BY <2>2 DEF IsResponse
      <4> QED
        BY <2>2, <3>1, <4>1, <4>2, AtEnd
    <3>2. CASE payload \notin Tools \cup {"close"}
      BY <2>2, <2>3, <3>2 DEF CallAtEnd
    <3> QED
      BY <2>2, <3>1, <3>2
  <2> QED
    BY <1>1, <2>1, <2>2, <2>4 DEF x
<1>5. ASSUME NEW k, Completing(k)
      PROVE  \A r \in DOMAIN server' : /\ IsResponse(server'[r])
                                       /\ server'[r].open => CallAtEnd(server'[r])
  BY <1>1, <1>5, CompletingFacts DEF CallAtEnd
<1>6. \/ server' = server \/ Beginning
      \/ \E payload : Sending(payload)
      \/ \E r : Completing(r)
  <2>1. Quiet \/ Closing \/ Opening \/ Consume => server' = server
    BY DEF Quiet, Closing, Opening, Consume, endpointVars
  <2>2. Repeating \/ Failing \/ Ending \/ Delivering => server' = server
    BY DEF Repeating, Failing, Ending, Delivering
  <2>3. \A n \in Nat : \A chunk \in [1 .. n -> Bytes] : Feeding(chunk) => server' = server
    BY DEF Feeding
  <2>4. emitted \in BOOLEAN
    BY DEF ClientInv
  <2> QED
    BY <2>1, <2>2, <2>3, <2>4, StreamSteps, ProviderSteps, Zenon
<1> QED
  BY <1>2, <1>3, <1>4, <1>5, <1>6, Zenon

LEMMA DecoderStep ==
  ASSUME ClientInv, DecoderInv, [Next]_vars
  PROVE  DecoderInv'
<1>1. ASSUME decoder' = Fresh
      PROVE  DecoderInv'
  <2>1. << >> \in Seq(Bytes) /\ Len(<< >>) = 0
    OBVIOUS
  <2> QED
    BY <1>1, <2>1, SseAssumption DEF DecoderInv, Fresh
<1>2. ASSUME decoder' = decoder
      PROVE  DecoderInv'
  BY <1>2 DEF DecoderInv
<1>3. ASSUME NEW n \in Nat, NEW chunk \in [1 .. n -> Bytes], Feeding(chunk)
      PROVE  DecoderInv'
  <2>1. \/ ~ TryPush(decoder, chunk).error /\ decoder' = TryPush(decoder, chunk).decoder
        \/ decoder' = decoder
    BY <1>3 DEF Feeding, Push
  <2>2. CASE ~ TryPush(decoder, chunk).error /\ decoder' = TryPush(decoder, chunk).decoder
    BY <2>2, PushFacts DEF DecoderInv
  <2> QED
    BY <1>2, <2>1, <2>2
<1>4. \/ decoder' = Fresh
      \/ decoder' = decoder
      \/ \E n \in Nat : \E chunk \in [1 .. n -> Bytes] : Feeding(chunk)
  <2>1. Quiet \/ Consume => decoder' = decoder
    BY DEF Quiet, Consume, streamVars
  <2>2. Closing \/ Opening \/ Repeating => decoder' = Fresh
    BY DEF Closing, Opening, Repeating, CloseStream, OpenStream, Restart
  <2>3. Beginning \/ Failing \/ Ending \/ Delivering => decoder' = decoder
    BY DEF Beginning, Failing, Ending, Delivering
  <2>4. \A payload : Sending(payload) => decoder' = decoder
    BY DEF Sending
  <2>5. \A r : Completing(r) => decoder' = decoder
    BY DEF Completing, streamVars
  <2>6. emitted \in BOOLEAN
    BY DEF ClientInv
  <2> QED
    BY <2>1, <2>2, <2>3, <2>4, <2>5, <2>6, StreamSteps, ProviderSteps, Zenon
<1> QED
  BY <1>1, <1>2, <1>3, <1>4

LEMMA FrameStep ==
  ASSUME ClientInv, ServerInv, DecoderInv, FrameInv, [Next]_vars
  PROVE  FrameInv'
<1>1. /\ frames \in Seq(Seq(Symbols) \ {<< >>}) /\ Fits(frames, server[current], profile.with)
      /\ (net # "open" => frames = << >>) /\ emitted \in BOOLEAN
      /\ net = "open" => current \in DOMAIN server
  <2>1. Len(server) \in Nat /\ DOMAIN server = 1 .. Len(server)
    BY LenProperties DEF ServerInv
  <2> QED
    BY <2>1 DEF ClientInv, FrameInv
<1>2. profile' = profile
  BY FaultSteps DEF ClientInv
<1>3. Tools \cap {"created", "close", "failed", "completed", "[DONE]", "text"} = {}
  BY ProviderAssumption DEF Contents, Markers
<1>4. ASSUME frames' = << >>
      PROVE  FrameInv'
  <2>1. DOMAIN frames' = {} /\ frames' \in Seq(Seq(Symbols) \ {<< >>})
    BY <1>4
  <2> QED
    BY <2>1 DEF FrameInv, Fits
<1>5. ASSUME frames' = frames, server' = server, current' = current
      PROVE  FrameInv'
  BY <1>1, <1>2, <1>5 DEF FrameInv
<1>6. ASSUME Delivering
      PROVE  FrameInv'
  <2>1. CASE frames' = << >>
    BY <1>4, <2>1
  <2>2. CASE frames' = Tail(frames)
    <3>1. frames # << >> /\ server' = server /\ current' = current
      BY <1>6 DEF Delivering
    <3> DEFINE t == Tail(frames)
    <3>2. /\ t \in Seq(Seq(Symbols) \ {<< >>}) /\ DOMAIN t = 1 .. Len(frames) - 1
          /\ Len(frames) \in Nat \ {0} /\ DOMAIN frames = 1 .. Len(frames)
          /\ \A i \in 1 .. Len(frames) - 1 : t[i] = frames[i + 1]
      BY <1>1, <3>1, TailFacts
    <3> HIDE DEF t
    <3>3. ASSUME NEW k \in DOMAIN t, t[k][1] \in Tools \cup {"close"}
          PROVE  FALSE
      <4>1. k + 1 \in DOMAIN frames /\ t[k] = frames[k + 1] /\ Len(frames) # 1
        BY <3>2
      <4> QED
        BY <1>1, <3>3, <4>1 DEF Fits
    <3>4. Fits(t, server[current], profile.with)
      BY <3>3 DEF Fits
    <3> QED
      BY <1>2, <2>2, <3>1, <3>2, <3>4 DEF FrameInv, t
  <2> QED
    BY <1>6, <2>1, <2>2 DEF Delivering
<1>7. ASSUME NEW payload, Sending(payload)
      PROVE  FrameInv'
  <2>1. /\ current \in DOMAIN server /\ payload \in Payloads /\ profile \in Profiles
        /\ server'[current] = Sent(payload)
    BY <1>7, SendingFacts
  <2> DEFINE one == <<payload>>
             f == <<one>>
             old == server[current]
             x == Sent(payload)
             call == Item("call", current, CallsOf(current) + 1, payload)
  <2>2. frames' = f /\ current' = current
    BY <1>7 DEF Sending
  <2>3. /\ IsResponse(old) /\ payload \in Symbols
        /\ payload \in Tools =>
             /\ ~ old.open /\ (x.open <=> Has("added")) /\ x.out = Append(old.out, call)
        /\ payload = "close" => old.open /\ ~ x.open /\ x.out = old.out
    <3> HIDE DEF call
    <3> QED
      BY <2>1, SentFacts, Zenon DEF call
  <2>4. one \in Seq(Symbols) \ {<< >>} /\ one[1] = payload
    BY <2>3
  <2>5. old.open => CallAtEnd(old)
    BY <2>1 DEF ServerInv
  <2> HIDE DEF old, x
  <2>6. payload \in Tools => CallAtEnd(x)
    <3> SUFFICES ASSUME payload \in Tools
                 PROVE  CallAtEnd(x)
      OBVIOUS
    <3>1. current \in Nat
      BY <2>1, LenProperties DEF ServerInv
    <3>2. old.out \in Seq(Items)
      BY <2>3 DEF IsResponse
    <3>3. CallsOf(current) \in Nat
      BY <3>2, CallsCounted DEF CallsOf, old
    <3>4. call \in Items /\ call.k = "call" /\ call.tool = payload
      BY <3>1, <3>3 DEF Item, Items, Kinds, Nothing
    <3> HIDE DEF call
    <3> QED
      BY <2>3, <3>2, <3>4, AtEnd
  <2>7. payload = "close" => CallAtEnd(x)
    BY <2>3, <2>5 DEF CallAtEnd
  <2>8. /\ f \in Seq(Seq(Symbols) \ {<< >>}) /\ DOMAIN f = 1 .. 1 /\ Len(f) = 1 /\ f[1] = one
    <3> HIDE DEF one
    <3> QED
      BY <2>4
  <2> HIDE DEF f, one
  <2>9. "added" \notin profile.with <=> ~ Has("added")
    BY DEF Has
  <2>10. Fits(f, x, profile.with)
    BY <1>3, <2>3, <2>4, <2>6, <2>7, <2>8, <2>9 DEF Fits
  <2> QED
    BY <1>2, <2>1, <2>2, <2>8, <2>10 DEF FrameInv, x
<1>8. ASSUME NEW n \in Nat, NEW chunk \in [1 .. n -> Bytes], Feeding(chunk)
      PROVE  FrameInv'
  <2> DEFINE events == TryPush(decoder, chunk).events
  <2>1. CASE ~ TryPush(decoder, chunk).error /\ frames' = events
    <3>1. events \in Seq(Seq({"text"}) \ {<< >>})
      BY <2>1, PushFacts
    <3> HIDE DEF events
    <3>2. DOMAIN events = 1 .. Len(events)
      BY <3>1, LenProperties
    <3>3. \A k \in DOMAIN events : events[k] \in Seq({"text"}) \ {<< >>}
      BY <3>1, <3>2, ElementOfSeq
    <3>4. ASSUME NEW k \in DOMAIN events
          PROVE  events[k][1] = "text"
      <4> DEFINE e == events[k]
      <4>1. e \in Seq({"text"}) /\ e # << >>
        BY <3>3
      <4> HIDE DEF e
      <4>2. e[1] = "text"
        BY <4>1, TailFacts
      <4> QED
        BY <4>2 DEF e
    <3>5. Fits(events, server[current], profile.with)
      BY <1>3, <3>4 DEF Fits
    <3>6. events \in Seq(Seq(Symbols) \ {<< >>})
      <4>1. Seq({"text"}) \subseteq Seq(Symbols)
        BY DEF Symbols, Contents
      <4>2. \A k \in 1 .. Len(events) : events[k] \in Seq(Symbols) \ {<< >>}
        BY <3>2, <3>3, <4>1
      <4>3. Len(events) \in Nat /\ events \in [1 .. Len(events) -> Seq({"text"}) \ {<< >>}]
        BY <3>1, LenProperties
      <4>4. events \in [1 .. Len(events) -> Seq(Symbols) \ {<< >>}]
        BY <4>2, <4>3
      <4> QED
        BY <4>3, <4>4, FunctionIsSeq
    <3>7. server' = server /\ current' = current
      BY <1>8 DEF Feeding, Push
    <3> QED
      BY <1>2, <2>1, <3>5, <3>6, <3>7 DEF FrameInv
  <2>2. CASE frames' = frames
    <3>1. server' = server /\ current' = current
      BY <1>8 DEF Feeding, Push
    <3> QED
      BY <1>5, <2>2, <3>1
  <2> QED
    BY <1>8, <2>1, <2>2 DEF Feeding, Push
<1>9. ASSUME NEW r, Completing(r)
      PROVE  FrameInv'
  <2>1. frames' = frames /\ current' = current
    BY <1>9 DEF Completing, streamVars
  <2>2. CASE net = "open"
    <3>1. server'[current].out = server[current].out /\ server'[current].open = server[current].open
      BY <1>1, <1>9, <2>2, CompletingFacts
    <3>2. Fits(frames, server'[current], profile.with)
      BY <1>1, <3>1 DEF Fits, CallAtEnd
    <3> QED
      BY <1>1, <1>2, <2>1, <3>2 DEF FrameInv
  <2>3. CASE net # "open"
    BY <1>1, <1>4, <2>1, <2>3
  <2> QED
    BY <2>2, <2>3
<1>10. Quiet \/ Consume => frames' = frames /\ server' = server /\ current' = current
  BY DEF Quiet, Consume, streamVars, endpointVars
<1>11. Closing \/ Opening \/ Repeating \/ Failing \/ Ending => frames' = << >>
  BY DEF Closing, Opening, Repeating, Failing, Ending, CloseStream, OpenStream, Restart
<1>12. Beginning => frames' = << >>
  BY <1>1 DEF Beginning
<1> QED
  BY <1>1, <1>4, <1>5, <1>6, <1>7, <1>8, <1>9, <1>10, <1>11, <1>12, StreamSteps,
     ProviderSteps, Zenon

-----------------------------------------------------------------------------
(* The events on their way, and what is collected of them *)

LEMMA NoAnswerFacts ==
  IsAnswer(NoAnswer) /\ NoAnswer.text = 0 /\ NoAnswer.calls = << >> /\ NoAnswer.partials = {}
<1>1. PICK no \in BOOLEAN : no = FALSE
  OBVIOUS
<1>2. NoAnswer = [text |-> 0, thought |-> no, partials |-> {}, calls |-> << >>, done |-> no]
  BY <1>1, Zenon DEF NoAnswer
<1>3. IsFiniteSet({}) /\ << >> \in Seq(CallEvents) /\ 0 \in 0 .. MaxText
  BY FS_EmptySet, ProviderAssumption
<1> QED
  BY <1>2, <1>3 DEF IsAnswer

CollectedAs(c, t, th, ps, cs, d) ==
  [c EXCEPT !.text = t, !.thought = th, !.partials = ps, !.calls = cs, !.done = d]

LEMMA AnswerEdits ==
  ASSUME NEW c, IsAnswer(c), NEW t \in 0 .. MaxText, NEW th \in BOOLEAN, NEW d \in BOOLEAN,
         NEW ps, ps \subseteq CallEvents, IsFiniteSet(ps), NEW cs \in Seq(CallEvents)
  PROVE  LET s == CollectedAs(c, t, th, ps, cs, d)
         IN  IsAnswer(s) /\ s.text = t /\ s.partials = ps /\ s.calls = cs
<1> DEFINE s == CollectedAs(c, t, th, ps, cs, d)
           F == {"text", "thought", "partials", "calls", "done"}
<1>1. c = [f \in F |-> c[f]]
  BY DEF IsAnswer
<1>2. /\ s.text = t /\ s.thought = th /\ s.partials = ps /\ s.calls = cs /\ s.done = d
      /\ s = [f \in F |-> s[f]]
  BY <1>1 DEF CollectedAs
<1> HIDE DEF s
<1>3. IsAnswer(s)
  BY <1>2 DEF IsAnswer
<1> QED
  BY <1>2, <1>3 DEF s

\* What the collector keeps of an event.
LEMMA CollectedFacts ==
  ASSUME IsAnswer(collector), NEW e \in Events, IsCall(e) => e.tool \in Tools,
         e.type = "text" => collector.text # MaxText
  PROVE  LET c == Collected(e)
         IN  /\ IsAnswer(c)
             /\ c.calls = IF e.type = "call" THEN Append(collector.calls, e) ELSE collector.calls
             /\ c.partials = IF e.type = "delta" THEN collector.partials \cup {e}
                             ELSE IF e.type = "call"
                               THEN {p \in collector.partials : ~ SameCall(p, e)}
                               ELSE collector.partials
             /\ c.text = IF e.type = "text" THEN collector.text + 1 ELSE collector.text
<1> DEFINE old == collector
           t == IF e.type = "text" THEN collector.text + 1 ELSE collector.text
           ps == IF e.type = "delta" THEN collector.partials \cup {e}
                 ELSE IF e.type = "call" THEN {p \in collector.partials : ~ SameCall(p, e)}
                 ELSE collector.partials
           cs == IF e.type = "call" THEN Append(collector.calls, e) ELSE collector.calls
<1>1. /\ old.text \in 0 .. MaxText /\ old.thought \in BOOLEAN /\ old.done \in BOOLEAN
      /\ old.calls \in Seq(CallEvents)
      /\ old.partials \subseteq CallEvents /\ IsFiniteSet(old.partials)
  BY DEF IsAnswer
<1>2. PICK th \in BOOLEAN : th = (collector.thought \/ e.type = "thinking")
  <2>1. (collector.thought \/ e.type = "thinking") \in BOOLEAN
    OBVIOUS
  <2> QED
    BY <2>1, Zenon
<1>3. PICK d \in BOOLEAN : d = (collector.done \/ e.type = "done")
  <2>1. (collector.done \/ e.type = "done") \in BOOLEAN
    OBVIOUS
  <2> QED
    BY <2>1, Zenon
<1>4. t \in 0 .. MaxText
  BY <1>1, ProviderAssumption
<1>5. e.type \in {"call", "delta"} => e \in CallEvents
  BY DEF Events, CallEvents, IsCall
<1>6. ps \subseteq CallEvents /\ IsFiniteSet(ps)
  <2>1. CASE e.type = "delta"
    BY <1>1, <1>5, <2>1, FS_AddElement
  <2>2. CASE e.type = "call"
    BY <1>1, <2>2, FS_Subset
  <2>3. CASE e.type \notin {"call", "delta"}
    BY <1>1, <2>3
  <2> QED
    BY <2>1, <2>2, <2>3
<1>7. cs \in Seq(CallEvents)
  <2>1. CASE e.type = "call"
    <3> DEFINE q == collector.calls
    <3>1. q \in Seq(CallEvents) /\ e \in CallEvents
      BY <1>1, <1>5, <2>1
    <3> HIDE DEF q
    <3>2. Append(q, e) \in Seq(CallEvents)
      BY <3>1, AppendProperties
    <3> QED
      BY <2>1, <3>2 DEF q
  <2>2. CASE e.type # "call"
    BY <1>1, <2>2
  <2> QED
    BY <2>1, <2>2
<1>8. Collected(e) = CollectedAs(collector, t, th, ps, cs, d)
  BY <1>2, <1>3, Zenon DEF Collected, CollectedAs
<1> HIDE DEF t, ps, cs
<1>9. /\ IsAnswer(Collected(e)) /\ Collected(e).text = t /\ Collected(e).partials = ps
      /\ Collected(e).calls = cs
  <2>1. LET s == CollectedAs(collector, t, th, ps, cs, d)
        IN  IsAnswer(s) /\ s.text = t /\ s.partials = ps /\ s.calls = cs
    BY <1>4, <1>6, <1>7, AnswerEdits
  <2> QED
    BY <1>8, <2>1, Zenon
<1> QED
  BY <1>9, Zenon DEF t, ps, cs

\* The events of a frame belong to the response that is being streamed; at most
\* one is about a call, the latest.
LEMMA ParsedFacts ==
  ASSUME ClientInv, ServerInv, FrameInv, net = "open", frames # << >>
  PROVE  LET es == Parsed(Head(frames))
             x == frames[1][1]
             e == es[1]
         IN  /\ es \in Seq(Events) /\ Len(es) \in {1, 2} /\ DOMAIN es = 1 .. Len(es)
             /\ \A i \in DOMAIN es : es[i].of = current
             /\ \/ \A i \in DOMAIN es : ~ IsCall(es[i])
                \/ /\ Len(es) = 1 /\ e.tool \in Tools /\ e.n = CallsOf(current)
                   /\ \/ e.type = "delta" /\ x \in Tools
                      \/ /\ e.type = "call" /\ x \in Tools \cup {"close"}
                         /\ ~ server[current].open
<1> DEFINE es == Parsed(Head(frames))
           x == frames[1][1]
           r == server[current]
<1>1. Tools \cap (Contents \cup Markers) = {}
  BY ProviderAssumption
<1>2. /\ frames \in Seq(Seq(Symbols) \ {<< >>}) /\ Fits(frames, r, profile.with)
      /\ current \in DOMAIN server
  <2>1. Len(server) \in Nat /\ DOMAIN server = 1 .. Len(server)
    BY LenProperties DEF ServerInv
  <2> QED
    BY <2>1 DEF ClientInv, FrameInv
<1>3. /\ Head(frames) = frames[1] /\ frames[1] \in Seq(Symbols) \ {<< >>}
      /\ 1 \in DOMAIN frames
  BY <1>2, TailFacts
<1>4. x \in Symbols
  <2> DEFINE f == frames[1]
  <2>1. f \in Seq(Symbols) /\ f # << >>
    BY <1>3
  <2> HIDE DEF f
  <2>2. f[1] \in Symbols
    BY <2>1, TailFacts
  <2> QED
    BY <2>2 DEF f
<1>5. x \in Tools \cup {"close"} =>
        CallAtEnd(r) /\ (x = "close" \/ "added" \notin profile.with => ~ r.open)
  BY <1>2, <1>3 DEF Fits
<1>6. IsResponse(r) /\ current \in Nat
  BY <1>2, LenProperties DEF ServerInv
<1>7. CallsOf(current) \in Nat
  <2>1. r.out \in Seq(Items)
    BY <1>6 DEF IsResponse
  <2> QED
    BY <2>1, CallsCounted DEF CallsOf
<1> HIDE DEF r
<1>8. es = IF Chat THEN ParsedChat(x) ELSE ParsedResponses(x)
  BY <1>3, Zenon DEF Parsed
<1> HIDE DEF es, x
<1>9. ASSUME NEW type \in EventTypes, type \notin {"call", "delta"}
      PROVE  /\ Plain(type) \in Events /\ Plain(type).of = current /\ ~ IsCall(Plain(type))
  BY <1>6, <1>9 DEF Plain, Event, Events, IsCall, Nothing
<1>10. x \notin Tools => x \in EventTypes /\ x \notin {"call", "delta"}
  BY <1>4 DEF Symbols, EventTypes, Contents, Markers
<1>11. ASSUME NEW type \in {"call", "delta"}, NEW tool \in Tools, es = CallEvent(type, tool)
       PROVE  /\ es \in Seq(Events) /\ Len(es) = 1 /\ DOMAIN es = {1} /\ es[1].of = current
              /\ es[1].tool \in Tools /\ es[1].n = CallsOf(current) /\ es[1].type = type
  <2> DEFINE e == Event(type, current, CallsOf(current), tool)
  <2>1. e \in Events /\ e.of = current /\ e.tool \in Tools /\ e.n = CallsOf(current)
        /\ e.type = type
    BY <1>6, <1>7 DEF Event, Events, EventTypes
  <2>2. es = <<e>>
    BY <1>11 DEF CallEvent
  <2> HIDE DEF e
  <2> QED
    BY <2>1, <2>2
<1>12. ASSUME es = <<Plain(x)>>, x \notin Tools
       PROVE  /\ es \in Seq(Events) /\ Len(es) = 1 /\ DOMAIN es = {1}
              /\ es[1].of = current /\ ~ IsCall(es[1])
  <2> DEFINE e == Plain(x)
  <2>1. e \in Events /\ e.of = current /\ ~ IsCall(e)
    BY <1>9, <1>10, <1>12
  <2>2. es = <<e>>
    BY <1>12
  <2> HIDE DEF e
  <2> QED
    BY <2>1, <2>2
<1>13. CASE Chat
  <2>1. CASE x \in Tools
    <3>1. es = CallEvent("delta", x)
      BY <1>8, <1>13, <2>1, Zenon DEF ParsedChat
    <3> QED
      BY <1>11, <2>1, <3>1 DEF es, x
  <2>2. CASE x \notin Tools
    <3>1. es = <<Plain(x)>>
      BY <1>8, <1>13, <2>2, Zenon DEF ParsedChat
    <3> QED
      BY <1>12, <2>2, <3>1 DEF es, x
  <2> QED
    BY <2>1, <2>2
<1>14. CASE ~ Chat
  <2>0. es = ParsedResponses(x)
    BY <1>8, <1>14
  <2>1. CASE x = "created"
    <3> DEFINE e == Plain("id")
    <3>1. es = <<e>>
      BY <1>1, <2>0, <2>1, Zenon DEF ParsedResponses, Markers
    <3>2. e \in Events /\ e.of = current /\ ~ IsCall(e)
      BY <1>9 DEF EventTypes
    <3> HIDE DEF e
    <3>3. /\ es \in Seq(Events) /\ Len(es) = 1 /\ DOMAIN es = 1 .. 1
          /\ \A i \in 1 .. 1 : es[i].of = current /\ ~ IsCall(es[i])
      BY <3>1, <3>2
    <3> QED
      BY <3>3 DEF es
  <2>2. CASE x = "completed"
    <3> DEFINE e == Plain("id")
               d == Plain("done")
    <3>0. x \notin Tools
      BY <1>1, <2>2 DEF Markers
    <3>1. es = <<e, d>>
      BY <2>0, <2>2, <3>0, "completed" # "created", "completed" # "close", Zenon
         DEF ParsedResponses
    <3>2. /\ e \in Events /\ e.of = current /\ ~ IsCall(e)
          /\ d \in Events /\ d.of = current /\ ~ IsCall(d)
      BY <1>9 DEF EventTypes
    <3> HIDE DEF e, d
    <3>3. /\ es \in Seq(Events) /\ Len(es) = 2 /\ DOMAIN es = 1 .. 2
          /\ \A i \in 1 .. 2 : es[i].of = current /\ ~ IsCall(es[i])
      BY <3>1, <3>2
    <3> QED
      BY <3>3 DEF es
  <2>3. CASE x \in Tools
    <3>2. CASE Has("added")
      <4>1. es = CallEvent("delta", x)
        BY <2>0, <2>3, <3>2, Zenon DEF ParsedResponses
      <4> QED
        BY <1>11, <2>3, <4>1 DEF es, x
    <3>3. CASE ~ Has("added")
      <4>1. es = CallEvent("call", x)
        BY <2>0, <2>3, <3>3, Zenon DEF ParsedResponses
      <4>2. ~ r.open
        BY <1>5, <2>3, <3>3 DEF Has
      <4> QED
        BY <1>11, <2>3, <4>1, <4>2 DEF es, x, r
    <3> QED
      BY <3>2, <3>3
  <2>4. CASE x = "close"
    <3>0. x \notin Tools
      BY <1>1, <2>4 DEF Markers
    <3> DEFINE tool == Last(r.out).tool
    <3>1. es = CallEvent("call", tool)
      BY <2>0, <2>4, <3>0, Zenon DEF ParsedResponses, r
    <3>2. tool \in Tools /\ ~ r.open
      BY <1>5, <2>4 DEF CallAtEnd
    <3> HIDE DEF tool
    <3> QED
      BY <1>11, <2>4, <3>1, <3>2 DEF es, x, r
  <2>5. CASE x \notin Tools \cup {"created", "completed", "close"}
    <3>0. x \notin Tools /\ x # "created" /\ x # "completed" /\ x # "close"
      BY <2>5
    <3>1. es = <<Plain(x)>>
      BY <2>0, <3>0, Zenon DEF ParsedResponses
    <3> QED
      BY <1>12, <2>5, <3>1 DEF es, x
  <2> QED
    BY <2>1, <2>2, <2>3, <2>4, <2>5
<1> QED
  BY <1>13, <1>14

LEMMA BelongConcat ==
  ASSUME NEW q \in Seq(Events), NEW es \in Seq(Events), NEW c, NEW o, Belong(q, c, o),
         \A i \in DOMAIN es : /\ es[i].type # "retrying" => es[i].of = o /\ o # 0
                              /\ IsCall(es[i]) => es[i].tool \in Tools
  PROVE  Belong(q \o es, c, o)
<1> DEFINE s == q \o es
<1>1. /\ Len(q) \in Nat /\ Len(es) \in Nat /\ DOMAIN s = 1 .. Len(q) + Len(es)
      /\ DOMAIN q = 1 .. Len(q) /\ DOMAIN es = 1 .. Len(es)
      /\ \A i \in 1 .. Len(q) : s[i] = q[i]
      /\ \A i \in Len(q) + 1 .. Len(q) + Len(es) : s[i] = es[i - Len(q)]
  BY ConcatFacts
<1> HIDE DEF s
<1>2. ASSUME NEW i \in DOMAIN s
      PROVE  \/ \E j \in DOMAIN q : s[i] = q[j]
             \/ \E j \in DOMAIN es : s[i] = es[j]
  <2>1. CASE i \in 1 .. Len(q)
    BY <1>1, <2>1
  <2>2. CASE i \in Len(q) + 1 .. Len(q) + Len(es)
    <3>1. i - Len(q) \in DOMAIN es
      BY <1>1, <2>2
    <3> QED
      BY <1>1, <2>2, <3>1
  <2> QED
    BY <1>1, <2>1, <2>2
<1>3. Belong(s, c, o)
  BY <1>2 DEF Belong
<1> QED
  BY <1>3 DEF s

LEMMA EventStep ==
  ASSUME ClientInv, ServerInv, FrameInv, EventInv, [Next]_vars
  PROVE  EventInv'
<1>1. /\ chan \in Seq(Events) /\ Len(chan) <= Capacity /\ Len(chan) \in Nat /\ Capacity \in Nat
      /\ DOMAIN chan = 1 .. Len(chan)
      /\ IsAnswer(collector) /\ Belong(chan, collector, current)
      /\ current \in Nat /\ emitted \in BOOLEAN
      /\ (net = "sent" => current = 0) /\ (net = "open" => current # 0)
  <2>1. Len(server) \in Nat
    BY LenProperties DEF ServerInv
  <2> QED
    BY <2>1, LenProperties, ProviderAssumption DEF EventInv, ClientInv
<1>2. ASSUME chan' = chan, collector' = collector, current' = current
      PROVE  EventInv'
  BY <1>1, <1>2 DEF EventInv
<1>3. ASSUME chan' = << >>, collector' = NoAnswer
      PROVE  EventInv'
  <2> HIDE DEF NoAnswer
  <2>1. /\ IsAnswer(NoAnswer) /\ NoAnswer.text = 0 /\ NoAnswer.calls = << >>
        /\ NoAnswer.partials = {}
    BY NoAnswerFacts
  <2>2. << >> \in Seq(Events) /\ Len(<< >>) = 0 /\ DOMAIN << >> = {}
    OBVIOUS
  <2>3. Belong(<< >>, NoAnswer, current')
    BY <2>1, <2>2 DEF Belong
  <2> QED
    BY <1>1, <1>3, <2>1, <2>2, <2>3 DEF EventInv
<1>4. ASSUME NEW es \in Seq(Events), chan' = chan \o es, Len(chan) + Len(es) <= Capacity,
             collector' = collector, current' = current,
             \A i \in DOMAIN es : /\ es[i].type # "retrying" => es[i].of = current /\ current # 0
                                  /\ IsCall(es[i]) => es[i].tool \in Tools
      PROVE  EventInv'
  <2> DEFINE s == chan \o es
  <2>1. s \in Seq(Events) /\ Len(s) = Len(chan) + Len(es)
    BY <1>1, ConcatProperties
  <2>2. Belong(s, collector, current)
    BY <1>1, <1>4, BelongConcat
  <2>3. chan' = s
    BY <1>4
  <2> HIDE DEF s
  <2> QED
    BY <1>1, <1>4, <2>1, <2>2, <2>3 DEF EventInv
<1>5. ASSUME NEW type \in EventTypes, type \notin {"call", "delta"}, chan' = Append(chan, Plain(type)),
             Len(chan) < Capacity, collector' = collector, current' = current,
             type = "retrying" \/ current # 0
      PROVE  EventInv'
  <2> DEFINE e == Plain(type)
             es == <<e>>
  <2>1. e \in Events /\ e.type = type /\ e.of = current /\ ~ IsCall(e)
    BY <1>1, <1>5 DEF Plain, Event, Events, IsCall, Nothing
  <2>2. chan' = Append(chan, e)
    BY <1>5
  <2> HIDE DEF e
  <2>3. /\ es \in Seq(Events) /\ Len(es) = 1 /\ DOMAIN es = {1} /\ es[1] = e
    BY <2>1
  <2>4. Append(chan, e) = chan \o es
    BY <1>1, <2>1, AppendIsConcat
  <2>5. chan' = chan \o es
    BY <2>2, <2>4, Zenon
  <2>6. \A i \in DOMAIN es : /\ es[i].type # "retrying" => es[i].of = current /\ current # 0
                             /\ IsCall(es[i]) => es[i].tool \in Tools
    BY <1>5, <2>1, <2>3
  <2>7. Len(chan) + Len(es) <= Capacity
    BY <1>1, <1>5, <2>3
  <2> HIDE DEF es
  <2> QED
    BY <1>4, <1>5, <2>3, <2>5, <2>6, <2>7
<1>6. ASSUME Consume
      PROVE  EventInv'
  <2> DEFINE e == Head(chan)
             t == Tail(chan)
  <2>1. /\ chan # << >> /\ ~ Exceeds(e) /\ chan' = t /\ current' = current
    BY <1>6 DEF Consume
  <2>2. /\ t \in Seq(Events) /\ Len(t) = Len(chan) - 1 /\ DOMAIN t = 1 .. Len(chan) - 1
        /\ e = chan[1] /\ e \in Events /\ Len(chan) \in Nat \ {0}
        /\ \A i \in 1 .. Len(chan) - 1 : t[i] = chan[i + 1]
    BY <1>1, <2>1, TailFacts
  <2>3. /\ e.type # "retrying" => e.of = current /\ current # 0
        /\ IsCall(e) => e.tool \in Tools
    BY <1>1, <2>2 DEF Belong
  <2>4. e.type = "text" => collector.text # MaxText
    BY <2>1 DEF Exceeds
  <2>5. collector' = Collected(e)
    <3>1. collector' = IF e.type = "text" /\ collector.text = MaxText THEN collector
                       ELSE Collected(e)
      BY <1>6, Zenon DEF Consume
    <3> QED
      BY <2>4, <3>1, Zenon
  <2> HIDE DEF e, t
  <2> DEFINE c == Collected(e)
  <2>6. /\ IsAnswer(c)
        /\ c.calls = IF e.type = "call" THEN Append(collector.calls, e) ELSE collector.calls
        /\ c.partials = IF e.type = "delta" THEN collector.partials \cup {e}
                        ELSE IF e.type = "call"
                          THEN {p \in collector.partials : ~ SameCall(p, e)}
                          ELSE collector.partials
        /\ c.text = IF e.type = "text" THEN collector.text + 1 ELSE collector.text
    BY <1>1, <2>2, <2>3, <2>4, CollectedFacts, ZenonT(40)
  <2> HIDE DEF c
  <2>7. Belong(t, c, current)
    <3>1. \A i \in DOMAIN t : i + 1 \in DOMAIN chan /\ t[i] = chan[i + 1]
      BY <1>1, <2>2
    <3>2. \A i \in DOMAIN t : /\ t[i].type # "retrying" => t[i].of = current /\ current # 0
                              /\ IsCall(t[i]) => t[i].tool \in Tools
      BY <1>1, <3>1 DEF Belong
    <3>3. \A j \in DOMAIN c.calls : c.calls[j].of = current
      <4>1. CASE e.type = "call"
        <5> DEFINE q == collector.calls
                   r == Append(q, e)
        <5>1. q \in Seq(CallEvents) /\ e \in CallEvents
          BY <1>1, <2>2, <2>3, <4>1 DEF IsAnswer, Events, CallEvents, IsCall
        <5>2. \A j \in DOMAIN q : q[j].of = current
          BY <1>1 DEF Belong
        <5> HIDE DEF q
        <5>3. /\ DOMAIN r = 1 .. Len(q) + 1 /\ DOMAIN q = 1 .. Len(q) /\ Len(q) \in Nat
              /\ r[Len(q) + 1] = e /\ \A k \in 1 .. Len(q) : r[k] = q[k]
          BY <5>1, OneMore
        <5>4. c.calls = r
          BY <2>6, <4>1, Zenon DEF q
        <5> HIDE DEF r
        <5>5. \A j \in DOMAIN r : r[j].of = current
          BY <2>3, <4>1, <5>2, <5>3
        <5> QED
          BY <5>4, <5>5
      <4>2. CASE e.type # "call"
        BY <1>1, <2>6, <4>2 DEF Belong
      <4> QED
        BY <4>1, <4>2
    <3>4. \A p \in c.partials : p.of = current
      BY <1>1, <2>3, <2>6 DEF Belong
    <3>5. current = 0 => c.text = 0 /\ c.calls = << >> /\ c.partials = {}
      BY <1>1, <2>3, <2>6 DEF Belong
    <3> QED
      BY <3>2, <3>3, <3>4, <3>5 DEF Belong
  <2> QED
    BY <1>1, <2>1, <2>2, <2>5, <2>6, <2>7 DEF EventInv, c
<1>7. ASSUME Beginning, collector' = collector
      PROVE  EventInv'
  <2>1. current = 0 /\ chan' = chan
    BY <1>1, <1>7 DEF Beginning
  <2>2. Belong(chan, collector, current')
    <3>1. /\ \A i \in DOMAIN chan : chan[i].type = "retrying"
          /\ collector.calls = << >> /\ collector.partials = {}
      BY <1>1, <2>1 DEF Belong
    <3>2. DOMAIN collector.calls = {}
      BY <3>1
    <3>3. current' # 0
      <4>1. Len(server) \in Nat
        BY LenProperties DEF ServerInv
      <4> QED
        BY <1>7, <4>1 DEF Beginning
    <3> QED
      BY <3>1, <3>2, <3>3 DEF Belong, IsCall
  <2> QED
    BY <1>1, <1>7, <2>1, <2>2 DEF EventInv
<1>8. ASSUME Repeating, collector' = collector
      PROVE  EventInv'
  <2>1. /\ current = 0 /\ current' = current /\ chan' = Append(chan, Plain("retrying"))
        /\ Len(chan) < Capacity
    BY <1>1, <1>8 DEF Repeating
  <2>2. "retrying" \in EventTypes /\ "retrying" \notin {"call", "delta"}
    BY DEF EventTypes
  <2> QED
    BY <1>5, <1>8, <2>1, <2>2
<1>9. ASSUME Ending, collector' = collector
      PROVE  EventInv'
  <2>1. /\ current' = current /\ current # 0
        /\ \/ chan' = chan
           \/ Len(chan) < Capacity /\ chan' = Append(chan, Plain("done"))
    BY <1>1, <1>9 DEF Ending
  <2>2. "done" \in EventTypes /\ "done" \notin {"call", "delta"}
    BY DEF EventTypes
  <2> QED
    BY <1>2, <1>5, <1>9, <2>1, <2>2
<1>10. ASSUME Delivering, collector' = collector
       PROVE  EventInv'
  <2> DEFINE es == Parsed(Head(frames))
  <2>1. /\ net = "open" /\ frames # << >> /\ chan' = chan \o es /\ current' = current
        /\ Len(chan) + Len(es) <= Capacity
    BY <1>10 DEF Delivering
  <2>2. /\ es \in Seq(Events) /\ Len(es) \in {1, 2} /\ DOMAIN es = 1 .. Len(es)
        /\ \A i \in DOMAIN es : es[i].of = current
        /\ \/ \A i \in DOMAIN es : ~ IsCall(es[i])
           \/ Len(es) = 1 /\ es[1].tool \in Tools
    BY <2>1, ParsedFacts
  <2> HIDE DEF es
  <2>3. \A i \in DOMAIN es : IsCall(es[i]) => es[i].tool \in Tools
    BY <2>2
  <2> QED
    BY <1>1, <1>4, <1>10, <2>1, <2>2, <2>3
<1>11. Quiet => EventInv'
  BY <1>2 DEF Quiet, streamVars
<1>12. Closing \/ Opening => EventInv'
  BY <1>3, Zenon DEF Closing, Opening, CloseStream, OpenStream, Restart
<1>13. ASSUME NEW payload, Sending(payload), collector' = collector
       PROVE  EventInv'
  BY <1>2, <1>13 DEF Sending
<1>14. ASSUME NEW n, NEW chunk, Feeding(chunk), collector' = collector
       PROVE  EventInv'
  BY <1>2, <1>14 DEF Feeding, Push
<1>15. ASSUME NEW r, Completing(r), collector' = collector
       PROVE  EventInv'
  BY <1>2, <1>15 DEF Completing, streamVars
<1>16. ASSUME Failing, collector' = collector
       PROVE  EventInv'
  BY <1>2, <1>16 DEF Failing
<1>17. ASSUME ProviderStep
       PROVE  EventInv'
  <2>1. collector' = collector
    BY <1>1, <1>17, ProviderSteps
  <2> QED
    BY <1>1, <1>7, <1>8, <1>9, <1>10, <1>13, <1>14, <1>15, <1>16, <1>17, <2>1,
       ProviderSteps, Zenon
<1> QED
  BY <1>6, <1>11, <1>12, <1>17, StreamSteps, Zenon

-----------------------------------------------------------------------------
(* The numbers of the calls *)

LEMMA NumbersNone ==
  ASSUME NEW q, \A i \in DOMAIN q : ~ IsCall(q[i]), NEW b, NEW e
  PROVE  Numbered(q, << >>, {}, b, e)
<1>1. DOMAIN << >> = {}
  OBVIOUS
<1> QED
  BY <1>1 DEF Numbered, IsCall

\* Events behind the others, at most one of them about a call: a later one.
OneBehind(q, s, k, x) ==
  /\ \A i \in DOMAIN q : i < k
  /\ \A i \in DOMAIN s :
       \/ i \in DOMAIN q /\ s[i] = q[i]
       \/ ~ IsCall(s[i])
       \/ i = k /\ s[i] = x

LEMMA NumbersLonger ==
  ASSUME NEW q \in Seq(Events), NEW s, NEW calls \in Seq(CallEvents), NEW partials,
         partials \subseteq CallEvents, NEW b \in Int, NEW e \in Int, NEW c \in Int, NEW d \in Int,
         b <= c, e <= d, Numbered(q, calls, partials, b, e),
         NEW k \in Nat, NEW x, x.n \in Int, OneBehind(q, s, k, x),
         \/ x.type = "delta" /\ b < x.n /\ x.n <= c /\ e < x.n
         \/ x.type = "call" /\ e < x.n /\ x.n <= d
  PROVE  Numbered(s, calls, partials, c, d)
<1>1. /\ DOMAIN q \subseteq Nat /\ \A i \in DOMAIN q : q[i].n \in Nat
      /\ \A j \in DOMAIN calls : calls[j].n \in Nat
      /\ \A p \in partials : p.n \in Nat
  <2>1. \A i \in DOMAIN q : q[i] \in Events
    BY LenProperties, ElementOfSeq
  <2>2. \A i \in DOMAIN calls : calls[i] \in CallEvents
    BY LenProperties, ElementOfSeq
  <2>3. DOMAIN q \subseteq Nat
    BY LenProperties
  <2> QED
    BY <2>1, <2>2, <2>3 DEF Events, CallEvents
<1>2. /\ \A i, j \in DOMAIN calls : calls[i].n = calls[j].n => i = j
      /\ \A p, r \in partials : p.n = r.n => p = r
      /\ \A p \in partials : \A j \in DOMAIN calls : p.n # calls[j].n
  BY DEF Numbered
<1> USE DEF OneBehind
<1>3. ASSUME NEW i \in DOMAIN s, NEW j \in DOMAIN s
      PROVE  /\ IsCall(s[i]) /\ s[i].type = s[j].type /\ s[i].n = s[j].n => i = j
             /\ s[i].type = "delta" /\ s[j].type = "call" /\ s[i].n = s[j].n => i < j
  <2>1. CASE i \in DOMAIN q /\ s[i] = q[i] /\ j \in DOMAIN q /\ s[j] = q[j]
    BY <2>1 DEF Numbered
  <2>2. CASE ~ IsCall(s[i]) \/ ~ IsCall(s[j])
    BY <2>2 DEF IsCall
  <2>3. CASE i = k /\ j = k
    BY <2>3
  <2>4. CASE i \in DOMAIN q /\ s[i] = q[i] /\ j = k /\ s[j] = x
    <3>1. (q[i].type = "call" => q[i].n <= e) /\ (q[i].type = "delta" => q[i].n <= b)
      BY <2>4 DEF Numbered
    <3> QED
      BY <1>1, <2>4, <3>1 DEF IsCall
  <2>5. CASE j \in DOMAIN q /\ s[j] = q[j] /\ i = k /\ s[i] = x
    <3>1. (q[j].type = "call" => q[j].n <= e) /\ (q[j].type = "delta" => q[j].n <= b)
      BY <2>5 DEF Numbered
    <3> QED
      BY <1>1, <2>5, <3>1 DEF IsCall
  <2> QED
    BY <2>1, <2>2, <2>3, <2>4, <2>5
<1>4. ASSUME NEW i \in DOMAIN s
      PROVE  /\ \A j \in DOMAIN calls : IsCall(s[i]) => s[i].n # calls[j].n
             /\ \A p \in partials : s[i].type = "delta" => s[i].n # p.n
             /\ s[i].type = "call" => s[i].n <= d
             /\ s[i].type = "delta" => s[i].n <= c
  <2>1. CASE i \in DOMAIN q /\ s[i] = q[i]
    <3>1. /\ \A j \in DOMAIN calls : IsCall(q[i]) => q[i].n # calls[j].n
          /\ \A p \in partials : q[i].type = "delta" => q[i].n # p.n
          /\ q[i].type = "call" => q[i].n <= e
          /\ q[i].type = "delta" => q[i].n <= b
      BY <2>1 DEF Numbered
    <3> QED
      BY <1>1, <2>1, <3>1
  <2>2. CASE ~ IsCall(s[i])
    BY <2>2 DEF IsCall
  <2>3. CASE s[i] = x
    <3>1. /\ \A j \in DOMAIN calls : calls[j].n <= e
          /\ \A p \in partials : p.n <= b
      BY DEF Numbered
    <3> QED
      BY <1>1, <2>3, <3>1
  <2> QED
    BY <2>1, <2>2, <2>3
<1>5. /\ \A j \in DOMAIN calls : calls[j].n <= d
      /\ \A p \in partials : p.n <= c
  <2>1. /\ \A j \in DOMAIN calls : calls[j].n <= e
        /\ \A p \in partials : p.n <= b
    BY DEF Numbered
  <2> QED
    BY <1>1, <2>1
<1> QED
  BY <1>2, <1>3, <1>4, <1>5 DEF Numbered

\* Nothing but events that are not about calls is added.
LEMMA NumbersKept ==
  ASSUME NEW q \in Seq(Events), NEW s, NEW calls \in Seq(CallEvents), NEW partials,
         partials \subseteq CallEvents, NEW b \in Int, NEW e \in Int, NEW c \in Int, NEW d \in Int,
         b <= c, e <= d, Numbered(q, calls, partials, b, e),
         \A i \in DOMAIN s : \/ i \in DOMAIN q /\ s[i] = q[i]
                             \/ ~ IsCall(s[i])
  PROVE  Numbered(s, calls, partials, c, d)
<1>1. /\ \A i \in DOMAIN q : q[i] \in Events
      /\ \A i \in DOMAIN calls : calls[i] \in CallEvents
  BY LenProperties, ElementOfSeq
<1>2. /\ \A i \in DOMAIN q : q[i].n \in Nat
      /\ \A j \in DOMAIN calls : calls[j].n \in Nat
      /\ \A p \in partials : p.n \in Nat
  BY <1>1 DEF Events, CallEvents
<1>3. /\ \A i, j \in DOMAIN calls : calls[i].n = calls[j].n => i = j
      /\ \A p, r \in partials : p.n = r.n => p = r
      /\ \A p \in partials : \A j \in DOMAIN calls : p.n # calls[j].n
  BY DEF Numbered
<1>4. ASSUME NEW i \in DOMAIN s, NEW j \in DOMAIN s
      PROVE  /\ IsCall(s[i]) /\ s[i].type = s[j].type /\ s[i].n = s[j].n => i = j
             /\ s[i].type = "delta" /\ s[j].type = "call" /\ s[i].n = s[j].n => i < j
  <2>1. CASE ~ IsCall(s[i]) \/ ~ IsCall(s[j])
    BY <2>1 DEF IsCall
  <2>2. CASE i \in DOMAIN q /\ s[i] = q[i] /\ j \in DOMAIN q /\ s[j] = q[j]
    BY <2>2 DEF Numbered
  <2> QED
    BY <2>1, <2>2
<1>5. ASSUME NEW i \in DOMAIN s
      PROVE  /\ \A j \in DOMAIN calls : IsCall(s[i]) => s[i].n # calls[j].n
             /\ \A p \in partials : s[i].type = "delta" => s[i].n # p.n
             /\ s[i].type = "call" => s[i].n <= d
             /\ s[i].type = "delta" => s[i].n <= c
  <2>1. CASE i \in DOMAIN q /\ s[i] = q[i]
    <3>1. /\ \A j \in DOMAIN calls : IsCall(q[i]) => q[i].n # calls[j].n
          /\ \A p \in partials : q[i].type = "delta" => q[i].n # p.n
          /\ q[i].type = "call" => q[i].n <= e
          /\ q[i].type = "delta" => q[i].n <= b
      BY <2>1 DEF Numbered
    <3> QED
      BY <1>2, <2>1, <3>1
  <2>2. CASE ~ IsCall(s[i])
    BY <2>2 DEF IsCall
  <2> QED
    BY <2>1, <2>2
<1>6. /\ \A j \in DOMAIN calls : calls[j].n <= d
      /\ \A p \in partials : p.n <= c
  <2>1. /\ \A j \in DOMAIN calls : calls[j].n <= e
        /\ \A p \in partials : p.n <= b
    BY DEF Numbered
  <2> QED
    BY <1>2, <2>1
<1> QED
  BY <1>3, <1>4, <1>5, <1>6 DEF Numbered

\* The first event is collected.
LEMMA NumbersTaken ==
  ASSUME NEW q \in Seq(Events), q # << >>, NEW calls \in Seq(CallEvents), NEW partials,
         partials \subseteq CallEvents, NEW b, NEW e, Numbered(q, calls, partials, b, e),
         NEW x, x = q[1], NEW o, IsCall(x) => x.of = o /\ x \in CallEvents,
         \A p \in partials : p.of = o,
         NEW t, t = Tail(q),
         NEW cs, cs = IF x.type = "call" THEN Append(calls, x) ELSE calls,
         NEW ps, ps = IF x.type = "delta" THEN partials \cup {x}
                      ELSE IF x.type = "call" THEN {p \in partials : ~ SameCall(p, x)}
                      ELSE partials
  PROVE  Numbered(t, cs, ps, b, e)
<1>1. /\ DOMAIN q = 1 .. Len(q) /\ Len(q) \in Nat \ {0} /\ DOMAIN t = 1 .. Len(q) - 1
      /\ \A i \in 1 .. Len(q) - 1 : t[i] = q[i + 1]
  BY TailFacts
<1>2. \A i \in DOMAIN t : /\ i + 1 \in DOMAIN q /\ t[i] = q[i + 1] /\ i + 1 # 1 /\ i \in Int
                          /\ ~ (i + 1 < 1)
  BY <1>1
<1>3. 1 \in DOMAIN q /\ q[1] = x
  BY <1>1
<1>4. \A i, j \in DOMAIN q :
       /\ IsCall(q[i]) /\ q[i].type = q[j].type /\ q[i].n = q[j].n => i = j
       /\ q[i].type = "delta" /\ q[j].type = "call" /\ q[i].n = q[j].n => i < j
  BY DEF Numbered
<1>5. /\ \A i \in DOMAIN q : \A j \in DOMAIN calls : IsCall(q[i]) => q[i].n # calls[j].n
      /\ \A i \in DOMAIN q : \A p \in partials : q[i].type = "delta" => q[i].n # p.n
      /\ \A j \in DOMAIN calls : calls[j].n <= e
      /\ \A p \in partials : p.n <= b
      /\ \A i \in DOMAIN q : /\ q[i].type = "call" => q[i].n <= e
                             /\ q[i].type = "delta" => q[i].n <= b
  BY DEF Numbered
<1>6. /\ \A i, j \in DOMAIN calls : calls[i].n = calls[j].n => i = j
      /\ \A p, r \in partials : p.n = r.n => p = r
      /\ \A p \in partials : \A j \in DOMAIN calls : p.n # calls[j].n
  BY DEF Numbered
<1>7. \A i, j \in DOMAIN t :
       /\ IsCall(t[i]) /\ t[i].type = t[j].type /\ t[i].n = t[j].n => i = j
       /\ t[i].type = "delta" /\ t[j].type = "call" /\ t[i].n = t[j].n => i < j
  <2> SUFFICES ASSUME NEW i \in DOMAIN t, NEW j \in DOMAIN t
               PROVE  /\ IsCall(t[i]) /\ t[i].type = t[j].type /\ t[i].n = t[j].n => i = j
                      /\ t[i].type = "delta" /\ t[j].type = "call" /\ t[i].n = t[j].n => i < j
    OBVIOUS
  <2>1. i + 1 = j + 1 <=> i = j
    BY <1>2
  <2>2. i + 1 < j + 1 <=> i < j
    BY <1>2
  <2> QED
    BY <1>2, <1>4, <2>1, <2>2
<1>8. CASE x.type = "delta"
  <2>1. cs = calls /\ ps = partials \cup {x} /\ IsCall(x)
    BY <1>8 DEF IsCall
  <2>2. \A i \in DOMAIN t : t[i].type = "delta" => t[i].n # x.n
    BY <1>2, <1>3, <1>4, <1>8 DEF IsCall
  <2>3. \A i \in DOMAIN t : \A j \in DOMAIN cs : IsCall(t[i]) => t[i].n # cs[j].n
    BY <1>2, <1>5, <2>1
  <2>4. \A i \in DOMAIN t : \A p \in ps : t[i].type = "delta" => t[i].n # p.n
    BY <1>2, <1>5, <2>1, <2>2
  <2>5. \A p \in partials : p.n # x.n
    BY <1>3, <1>5, <1>8
  <2>6. \A j \in DOMAIN calls : x.n # calls[j].n
    BY <1>3, <1>5, <2>1
  <2>7. \A p, r \in ps : p.n = r.n => p = r
    BY <1>6, <2>1, <2>5
  <2>8. \A p \in ps : p.n <= b
    BY <1>3, <1>5, <1>8, <2>1
  <2>9. \A p \in ps : \A j \in DOMAIN cs : p.n # cs[j].n
    BY <1>6, <2>1, <2>6
  <2>10. /\ \A j \in DOMAIN cs : cs[j].n <= e
         /\ \A i, j \in DOMAIN cs : cs[i].n = cs[j].n => i = j
         /\ \A i \in DOMAIN t : /\ t[i].type = "call" => t[i].n <= e
                                /\ t[i].type = "delta" => t[i].n <= b
    BY <1>2, <1>5, <1>6, <2>1
  <2> QED
    BY <1>7, <2>3, <2>4, <2>7, <2>8, <2>9, <2>10 DEF Numbered
<1>9. CASE x.type = "call"
  <2>1. cs = Append(calls, x) /\ ps = {p \in partials : ~ SameCall(p, x)} /\ IsCall(x)
    BY <1>9 DEF IsCall
  <2>2. x \in CallEvents /\ x.of = o
    BY <2>1
  <2>3. /\ Len(calls) \in Nat /\ DOMAIN calls = 1 .. Len(calls) /\ DOMAIN cs = 1 .. Len(calls) + 1
        /\ cs[Len(calls) + 1] = x /\ \A k \in 1 .. Len(calls) : cs[k] = calls[k]
    BY <2>1, <2>2, OneMore
  <2> HIDE <2>1
  <2>4. \A k \in DOMAIN cs : \/ k \in DOMAIN calls /\ cs[k] = calls[k]
                             \/ k = Len(calls) + 1 /\ cs[k] = x
    BY <2>3
  <2>5. IsCall(x) /\ ps = {p \in partials : ~ SameCall(p, x)}
    BY <2>1
  <2>6. ps \subseteq partials /\ \A p \in ps : p.n # x.n
    BY <2>2, <2>5 DEF SameCall
  <2>7. \A i \in DOMAIN t : IsCall(t[i]) => t[i].n # x.n
    <3> SUFFICES ASSUME NEW i \in DOMAIN t, IsCall(t[i]), t[i].n = x.n
                 PROVE  FALSE
      OBVIOUS
    <3>1. CASE t[i].type = "call"
      BY <1>2, <1>3, <1>4, <1>9, <3>1 DEF IsCall
    <3>2. CASE t[i].type = "delta"
      BY <1>2, <1>3, <1>4, <1>9, <3>2
    <3> QED
      BY <3>1, <3>2 DEF IsCall
  <2>8. \A i \in DOMAIN t : \A j \in DOMAIN cs : IsCall(t[i]) => t[i].n # cs[j].n
    BY <1>2, <1>5, <2>4, <2>7
  <2>9. \A i \in DOMAIN t : \A p \in ps : t[i].type = "delta" => t[i].n # p.n
    BY <1>2, <1>5, <2>6
  <2>10. \A j \in DOMAIN calls : x.n # calls[j].n
    BY <1>3, <1>5, <2>5
  <2>11. \A i, j \in DOMAIN cs : cs[i].n = cs[j].n => i = j
    BY <1>6, <2>4, <2>10
  <2>12. /\ \A j \in DOMAIN cs : cs[j].n <= e
         /\ \A p \in ps : p.n <= b
    BY <1>3, <1>5, <1>9, <2>4, <2>6
  <2>13. \A p \in ps : \A j \in DOMAIN cs : p.n # cs[j].n
    BY <1>6, <2>4, <2>6
  <2>14. /\ \A p, r \in ps : p.n = r.n => p = r
         /\ \A i \in DOMAIN t : /\ t[i].type = "call" => t[i].n <= e
                                /\ t[i].type = "delta" => t[i].n <= b
    BY <1>2, <1>5, <1>6, <2>6
  <2> QED
    BY <1>7, <2>8, <2>9, <2>11, <2>12, <2>13, <2>14 DEF Numbered
<1>10. CASE x.type \notin {"call", "delta"}
  <2>1. cs = calls /\ ps = partials
    BY <1>10
  <2>2. /\ \A i \in DOMAIN t : \A j \in DOMAIN cs : IsCall(t[i]) => t[i].n # cs[j].n
        /\ \A i \in DOMAIN t : \A p \in ps : t[i].type = "delta" => t[i].n # p.n
        /\ \A i \in DOMAIN t : /\ t[i].type = "call" => t[i].n <= e
                               /\ t[i].type = "delta" => t[i].n <= b
    BY <1>2, <1>5, <2>1
  <2> QED
    BY <1>5, <1>6, <1>7, <2>1, <2>2 DEF Numbered
<1> QED
  BY <1>8, <1>9, <1>10

LEMMA LatestFacts ==
  ASSUME ClientInv, ServerInv
  PROVE  /\ Latest \in Nat
         /\ current # 0 => /\ current \in DOMAIN server /\ Latest = CallsOf(current)
                           /\ IsResponse(server[current])
<1>1. CASE current = 0
  BY <1>1 DEF Latest
<1>2. CASE current # 0
  <2>1. Len(server) \in Nat /\ DOMAIN server = 1 .. Len(server)
    BY LenProperties DEF ServerInv
  <2>2. current \in DOMAIN server
    BY <1>2, <2>1 DEF ClientInv
  <2>3. IsResponse(server[current])
    BY <2>2 DEF ServerInv
  <2> DEFINE q == server[current].out
  <2>4. q \in Seq(Items)
    BY <2>3 DEF IsResponse
  <2>5. CallsOf(current) \in Nat
    BY <2>4, CallsCounted DEF CallsOf
  <2> QED
    BY <1>2, <2>2, <2>3, <2>5 DEF Latest
<1> QED
  BY <1>1, <1>2

\* A payload is sent: a call it begins is the latest.
LEMMA LatestSent ==
  ASSUME ClientInv, ServerInv, NEW payload, Sending(payload)
  PROVE  /\ LastBegun' = LastBegun /\ LastEnded' = LastEnded
<1>1. /\ current \in DOMAIN server /\ payload \in Payloads /\ profile \in Profiles
      /\ server'[current] = Sent(payload)
  BY SendingFacts
<1>2. current # 0 /\ current' = current /\ current \in Nat
  <2>1. current \in Nat /\ current # 0
    BY <1>1, LenProperties DEF ServerInv
  <2> QED
    BY <2>1 DEF Sending
<1> DEFINE old == server[current]
           x == Sent(payload)
           call == Item("call", current, CallsOf(current) + 1, payload)
<1>3. /\ IsResponse(old)
      /\ payload \in Tools => ~ old.open /\ x.out = Append(old.out, call)
      /\ payload = "close" => old.open /\ ~ x.open /\ x.out = old.out
      /\ payload \notin Tools \cup {"close"} =>
           /\ x.open <=> old.open
           /\ \/ x.out = old.out
              \/ \E y \in Items : y.k # "call" /\ x.out = Append(old.out, y)
  <2> HIDE DEF call
  <2> QED
    BY <1>1, SentFacts, Zenon DEF call
<1>4. Latest \in Nat /\ Latest = CallsOf(current)
  BY <1>2, LatestFacts
<1>5. server'[current] = x
  BY <1>1
<1> HIDE DEF x, old
<1> DEFINE C(s) == {j \in DOMAIN s : s[j].k = "call"}
<1>6. Latest = Cardinality(C(old.out)) /\ Latest' = Cardinality(C(x.out))
  BY <1>2, <1>4, <1>5, Zenon DEF Latest, CallsOf, old
<1>7. old.out \in Seq(Items)
  BY <1>3 DEF IsResponse
<1>8. \A y \in Items : Cardinality(C(Append(old.out, y))) =
                         Cardinality(C(old.out)) + (IF y.k = "call" THEN 1 ELSE 0)
  BY <1>7, CallsCounted
<1>9. payload \in Tools => call \in Items /\ call.k = "call"
  BY <1>2, <1>4 DEF Item, Items, Kinds, Nothing
<1> HIDE DEF C, call
<1>10. /\ payload \in Tools => Latest' = Latest + 1
       /\ payload \notin Tools => Latest' = Latest
  <2>1. payload \in Tools => Latest' = Latest + 1
    BY <1>3, <1>6, <1>8, <1>9
  <2>2. payload = "close" => Latest' = Latest
    BY <1>3, <1>6
  <2>3. ASSUME payload \notin Tools \cup {"close"}
        PROVE  Latest' = Latest
    <3>1. CASE x.out = old.out
      BY <1>6, <3>1
    <3>2. ASSUME NEW y \in Items, y.k # "call", x.out = Append(old.out, y)
          PROVE  Latest' = Latest
      <4>1. Cardinality(C(Append(old.out, y))) = Cardinality(C(old.out)) + 0
        BY <1>8, <3>2, Zenon
      <4>2. Latest' = Latest + 0
        BY <1>6, <3>2, <4>1, Zenon
      <4> QED
        BY <1>4, <4>2
    <3> QED
      BY <1>3, <2>3, <3>1, <3>2, Zenon
  <2> QED
    BY <2>1, <2>2, <2>3
<1>11. Tools \cap {"close"} = {}
  BY ProviderAssumption DEF Markers
<1>12. /\ ~ Pending(Tools) /\ ~ Pending(Tools \cup {"close"})
       /\ Pending(Tools)' <=> payload \in Tools
       /\ Pending(Tools \cup {"close"})' <=> payload \in Tools \cup {"close"}
  <2>1. frames = << >> /\ frames' = <<<<payload>>>>
    BY DEF Sending
  <2> QED
    BY <2>1 DEF Pending
<1>13. /\ LastBegun = Latest /\ LastEnded = IF old.open THEN Latest - 1 ELSE Latest
       /\ LastBegun' = IF payload \in Tools THEN Latest' - 1 ELSE Latest'
       /\ LastEnded' = IF payload \in Tools \cup {"close"} \/ x.open THEN Latest' - 1 ELSE Latest'
  BY <1>2, <1>5, <1>12, Zenon DEF LastBegun, LastEnded, old
<1> HIDE DEF Latest
<1>14. CASE payload \in Tools
  BY <1>3, <1>4, <1>10, <1>11, <1>13, <1>14
<1>15. CASE payload = "close"
  BY <1>3, <1>4, <1>10, <1>11, <1>13, <1>15
<1>16. CASE payload \notin Tools \cup {"close"}
  BY <1>3, <1>4, <1>10, <1>13, <1>16
<1> QED
  BY <1>14, <1>15, <1>16

LEMMA NumberStep ==
  ASSUME ClientInv, ServerInv, DecoderInv, FrameInv, EventInv, NumberInv, [Next]_vars
  PROVE  NumberInv'
<1> DEFINE calls == collector.calls
           partials == collector.partials
<1>1. /\ chan \in Seq(Events) /\ calls \in Seq(CallEvents) /\ partials \subseteq CallEvents
      /\ DOMAIN chan = 1 .. Len(chan) /\ Len(chan) \in Nat
  BY LenProperties DEF EventInv, IsAnswer
<1>2. /\ Latest \in Nat /\ LastBegun \in Int /\ LastEnded \in Int
      /\ LastBegun <= Latest /\ LastEnded <= Latest
      /\ current # 0 => /\ current \in DOMAIN server /\ Latest = CallsOf(current)
                        /\ IsResponse(server[current])
  <2>1. /\ Latest \in Nat
        /\ current # 0 => /\ current \in DOMAIN server /\ Latest = CallsOf(current)
                          /\ IsResponse(server[current])
    BY LatestFacts
  <2> HIDE DEF Latest
  <2> QED
    BY <2>1 DEF LastBegun, LastEnded
<1>3. Numbered(chan, calls, partials, LastBegun, LastEnded)
  BY DEF NumberInv
<1>4. /\ emitted \in BOOLEAN /\ (net = "sent" => current = 0) /\ (net = "open" => current # 0)
      /\ (net # "open" => frames = << >>)
  BY DEF ClientInv
<1> DEFINE open == current # 0 /\ server[current].open
<1>5. frames = << >> => LastBegun = Latest /\ LastEnded = IF open THEN Latest - 1 ELSE Latest
  BY Zenon DEF LastBegun, LastEnded, Pending
<1>6. ASSUME frames' = << >>, current' = current, server' = server
      PROVE  LastBegun' = Latest /\ LastEnded' = IF open THEN Latest - 1 ELSE Latest
  BY <1>6, Zenon DEF LastBegun, LastEnded, Pending, Latest, CallsOf
<1>7. LastBegun <= Latest /\ LastEnded <= (IF open THEN Latest - 1 ELSE Latest)
  <2>1. LastEnded = IF Pending(Tools \cup {"close"}) \/ open THEN Latest - 1 ELSE Latest
    BY DEF LastEnded
  <2> HIDE DEF open
  <2> QED
    BY <1>2, <2>1
<1> DEFINE after == IF open THEN Latest - 1 ELSE Latest
<1>8. ASSUME collector' = collector, LastBegun' \in Int, LastEnded' \in Int,
             LastBegun <= LastBegun', LastEnded <= LastEnded',
             \A i \in DOMAIN chan' : \/ i \in DOMAIN chan /\ chan'[i] = chan[i]
                                     \/ ~ IsCall(chan'[i])
      PROVE  NumberInv'
  <2> HIDE DEF calls, partials
  <2>1. PICK s, c, d : s = chan' /\ c = LastBegun' /\ d = LastEnded'
    OBVIOUS
  <2>2. /\ c \in Int /\ d \in Int /\ LastBegun <= c /\ LastEnded <= d
        /\ \A i \in DOMAIN s : \/ i \in DOMAIN chan /\ s[i] = chan[i]
                               \/ ~ IsCall(s[i])
    BY <1>8, <2>1
  <2> HIDE DEF LastBegun, LastEnded
  <2>3. Numbered(s, calls, partials, c, d)
    BY <1>1, <1>2, <1>3, <2>2, NumbersKept
  <2>4. collector'.calls = calls /\ collector'.partials = partials
    BY <1>8 DEF calls, partials
  <2> QED
    BY <2>1, <2>3, <2>4 DEF NumberInv
<1>9. ASSUME collector' = collector, chan' = chan, LastBegun' = LastBegun, LastEnded' = LastEnded
      PROVE  NumberInv'
  BY <1>3, <1>9 DEF NumberInv
<1>10. ASSUME collector'.calls = << >>, collector'.partials = {},
              \A i \in DOMAIN chan' : ~ IsCall(chan'[i])
       PROVE  NumberInv'
  <2>1. PICK s : s = chan'
    OBVIOUS
  <2>2. \A i \in DOMAIN s : ~ IsCall(s[i])
    BY <1>10, <2>1
  <2>3. Numbered(s, << >>, {}, LastBegun', LastEnded')
    BY <2>2, NumbersNone
  <2> QED
    BY <1>10, <2>1, <2>3 DEF NumberInv
<1>11. current = 0 => /\ calls = << >> /\ partials = {}
                      /\ \A i \in DOMAIN chan : chan[i].type = "retrying"
  BY DEF EventInv, Belong
<1>12. ASSUME NEW type, type \notin {"call", "delta"}, chan' = Append(chan, Plain(type))
       PROVE  \A i \in DOMAIN chan' : \/ i \in DOMAIN chan /\ chan'[i] = chan[i]
                                      \/ ~ IsCall(chan'[i])
  <2> DEFINE e == Plain(type)
  <2>1. ~ IsCall(e)
    BY <1>12 DEF Plain, Event, IsCall
  <2>2. chan \in Seq(ToSet(chan))
    BY <1>1, LenProperties DEF ToSet
  <2>3. chan' = Append(chan, e)
    BY <1>12
  <2> HIDE DEF e
  <2> DEFINE s == Append(chan, e)
  <2>4. /\ DOMAIN s = 1 .. Len(chan) + 1 /\ s[Len(chan) + 1] = e
        /\ \A i \in 1 .. Len(chan) : s[i] = chan[i]
    BY <2>2, Grown
  <2>5. chan' = s
    BY <2>3
  <2> HIDE DEF s
  <2> QED
    BY <1>1, <2>1, <2>4, <2>5
<1>13. Quiet => NumberInv'
  <2> SUFFICES ASSUME Quiet
               PROVE  NumberInv'
    OBVIOUS
  <2>1. UNCHANGED <<chan, collector, frames, current, server>>
    BY DEF Quiet, streamVars
  <2>2. LastBegun' = LastBegun /\ LastEnded' = LastEnded
    BY <2>1 DEF LastBegun, LastEnded, Pending, Latest, CallsOf
  <2> QED
    BY <1>9, <2>1, <2>2
<1>14. ASSUME Closing \/ Opening
       PROVE  NumberInv'
  <2>1. chan' = << >> /\ collector' = NoAnswer
    BY <1>14 DEF Closing, Opening, CloseStream, OpenStream, Restart
  <2>2. collector'.calls = << >> /\ collector'.partials = {} /\ DOMAIN chan' = {}
    BY <2>1, NoAnswerFacts
  <2> QED
    BY <1>10, <2>2
<1>15. ASSUME Consume
       PROVE  NumberInv'
  <2> DEFINE e == Head(chan)
             t == Tail(chan)
             c == Collected(e)
  <2>1. /\ chan # << >> /\ ~ Exceeds(e) /\ chan' = t
        /\ UNCHANGED <<frames, current, server>>
    BY <1>15 DEF Consume, endpointVars
  <2>2. e = chan[1] /\ e \in Events /\ 1 \in DOMAIN chan
    BY <1>1, <2>1, TailFacts
  <2>3. /\ e.type # "retrying" => e.of = current
        /\ IsCall(e) => e.tool \in Tools
        /\ \A p \in partials : p.of = current
    BY <2>2 DEF EventInv, Belong
  <2>4. e.type = "text" => collector.text # MaxText
    BY <2>1 DEF Exceeds
  <2>5. collector' = c
    <3>1. collector' = IF e.type = "text" /\ collector.text = MaxText THEN collector ELSE c
      BY <1>15, Zenon DEF Consume
    <3> QED
      BY <2>4, <3>1, Zenon
  <2>6. LastBegun' = LastBegun /\ LastEnded' = LastEnded
    BY <2>1 DEF LastBegun, LastEnded, Pending, Latest, CallsOf
  <2> HIDE DEF e, t
  <2>7. /\ c.calls = IF e.type = "call" THEN Append(calls, e) ELSE calls
        /\ c.partials = IF e.type = "delta" THEN partials \cup {e}
                        ELSE IF e.type = "call" THEN {p \in partials : ~ SameCall(p, e)}
                        ELSE partials
    <3>1. IsAnswer(collector)
      BY DEF EventInv
    <3> QED
      BY <2>2, <2>3, <2>4, <3>1, CollectedFacts, ZenonT(40)
  <2>8. IsCall(e) => e.of = current /\ e \in CallEvents
    BY <2>2, <2>3 DEF IsCall, Events, CallEvents
  <2> HIDE DEF c, calls, partials, LastBegun, LastEnded
  <2>9. PICK cs, ps : cs = c.calls /\ ps = c.partials
    OBVIOUS
  <2>10. Numbered(t, cs, ps, LastBegun, LastEnded)
    <3>1. cs = IF e.type = "call" THEN Append(calls, e) ELSE calls
      BY <2>7, <2>9, Zenon
    <3>2. ps = IF e.type = "delta" THEN partials \cup {e}
               ELSE IF e.type = "call" THEN {p \in partials : ~ SameCall(p, e)}
               ELSE partials
      BY <2>7, <2>9, Zenon
    <3>3. t = Tail(chan)
      BY DEF t
    <3> HIDE <2>9
    <3> QED
      BY <1>1, <1>3, <2>1, <2>2, <2>3, <2>8, <3>1, <3>2, <3>3, NumbersTaken, ZenonT(40)
  <2>11. collector'.calls = cs /\ collector'.partials = ps
    BY <2>5, <2>9
  <2> QED
    BY <2>1, <2>6, <2>10, <2>11, Zenon DEF NumberInv
<1>16. ASSUME collector' = collector, Beginning
       PROVE  NumberInv'
  <2>1. current = 0 /\ chan' = chan
    BY <1>4, <1>16 DEF Beginning
  <2> QED
    BY <1>10, <1>11, <1>16, <2>1 DEF IsCall
<1>17. ASSUME collector' = collector, Repeating
       PROVE  NumberInv'
  <2>1. current = 0 /\ chan' = Append(chan, Plain("retrying"))
    BY <1>4, <1>17 DEF Repeating
  <2>2. \A i \in DOMAIN chan' : \/ i \in DOMAIN chan /\ chan'[i] = chan[i]
                                \/ ~ IsCall(chan'[i])
    BY <1>12, <2>1
  <2>3. \A i \in DOMAIN chan' : ~ IsCall(chan'[i])
    BY <1>11, <2>1, <2>2 DEF IsCall
  <2> QED
    BY <1>10, <1>11, <1>17, <2>1, <2>3
<1>18. ASSUME collector' = collector, Failing \/ Ending
       PROVE  NumberInv'
  <2>1. /\ frames' = << >> /\ current' = current /\ server' = server
        /\ \/ chan' = chan
           \/ chan' = Append(chan, Plain("done"))
    BY <1>18 DEF Failing, Ending
  <2>2. \A i \in DOMAIN chan' : \/ i \in DOMAIN chan /\ chan'[i] = chan[i]
                                \/ ~ IsCall(chan'[i])
    BY <1>12, <2>1
  <2>3. LastBegun' = Latest /\ LastEnded' = after
    BY <1>6, <2>1
  <2>4. after \in Int
    BY <1>2
  <2>5. LastBegun <= Latest /\ LastEnded <= after
    BY <1>7
  <2> HIDE DEF after, LastBegun, LastEnded, Latest
  <2> QED
    BY <1>2, <1>8, <1>18, <2>2, <2>3, <2>4, <2>5
<1>19. ASSUME collector' = collector, NEW payload, Sending(payload)
       PROVE  NumberInv'
  BY <1>9, <1>19, LatestSent DEF Sending
<1>20. ASSUME collector' = collector, NEW n \in Nat, NEW chunk \in [1 .. n -> Bytes], Feeding(chunk)
       PROVE  NumberInv'
  <2>1. /\ UNCHANGED <<chan, current, server>> /\ frames = << >>
        /\ \/ frames' = frames
           \/ ~ TryPush(decoder, chunk).error /\ frames' = TryPush(decoder, chunk).events
    BY <1>20 DEF Feeding, Push
  <2>2. ~ Pending(Tools \cup {"close"})'
    <3>1. CASE frames' = frames
      BY <2>1, <3>1 DEF Pending
    <3>2. CASE ~ TryPush(decoder, chunk).error /\ frames' = TryPush(decoder, chunk).events
      <4>1. PICK f : f = frames'
        OBVIOUS
      <4>2. f \in Seq(Seq({"text"}) \ {<< >>})
        BY <3>2, <4>1, PushFacts DEF DecoderInv
      <4>3. f # << >> => f[1] \in Seq({"text"}) \ {<< >>}
        BY <4>2, TailFacts
      <4>4. f # << >> => f[1][1] = "text"
        <5> SUFFICES ASSUME f # << >>
                     PROVE  f[1][1] = "text"
          OBVIOUS
        <5> DEFINE g == f[1]
        <5>1. g \in Seq({"text"}) /\ g # << >>
          BY <4>3
        <5> HIDE DEF g
        <5>2. g[1] = "text"
          BY <5>1, TailFacts
        <5> QED
          BY <5>2 DEF g
      <4>5. "text" \notin Tools
        BY ProviderAssumption DEF Contents
      <4> QED
        BY <4>1, <4>4, <4>5 DEF Pending
    <3> QED
      BY <2>1, <3>1, <3>2
  <2>3. ~ Pending(Tools)' /\ ~ Pending(Tools) /\ ~ Pending(Tools \cup {"close"})
    BY <2>1, <2>2 DEF Pending
  <2>4. LastBegun' = LastBegun /\ LastEnded' = LastEnded
    BY <2>1, <2>2, <2>3, Zenon DEF LastBegun, LastEnded, Latest, CallsOf
  <2> QED
    BY <1>9, <1>20, <2>1, <2>4
<1>21. ASSUME collector' = collector, NEW k, Completing(k)
       PROVE  NumberInv'
  <2>1. UNCHANGED <<chan, current, frames>>
    BY <1>21 DEF Completing, streamVars
  <2>2. current # 0 => /\ server'[current].out = server[current].out
                       /\ server'[current].open = server[current].open
    BY <1>2, <1>21, CompletingFacts
  <2>3. Latest' = Latest
    BY <2>1, <2>2, Zenon DEF Latest, CallsOf
  <2>4. (current # 0 /\ server'[current].open) <=> (current # 0 /\ server[current].open)
    BY <2>2
  <2>5. LastBegun' = LastBegun /\ LastEnded' = LastEnded
    <3> HIDE DEF Latest
    <3> QED
      BY <2>1, <2>3, <2>4, Zenon DEF LastBegun, LastEnded, Pending
  <2> QED
    BY <1>9, <1>21, <2>1, <2>5
<1>22. ASSUME collector' = collector, Delivering
       PROVE  NumberInv'
  <2> DEFINE es == Parsed(Head(frames))
             x == frames[1][1]
             e == es[1]
             s == chan \o es
  <2>1. /\ net = "open" /\ frames # << >> /\ chan' = s
        /\ frames' = << >> \/ frames' = Tail(frames)
        /\ UNCHANGED <<current, server>>
    BY <1>22 DEF Delivering
  <2>2. ~ Pending(Tools \cup {"close"})' /\ ~ Pending(Tools)'
    <3> DEFINE f == Tail(frames)
    <3>1. /\ Len(frames) \in Nat \ {0} /\ DOMAIN frames = 1 .. Len(frames)
          /\ DOMAIN f = 1 .. Len(frames) - 1 /\ f \in Seq(Seq(Symbols) \ {<< >>})
          /\ \A i \in 1 .. Len(frames) - 1 : f[i] = frames[i + 1]
      BY <2>1, TailFacts DEF FrameInv
    <3> HIDE DEF f
    <3>2. f # << >> => 1 \in DOMAIN f
      BY <3>1, TailFacts
    <3>3. f # << >> => f[1][1] \notin Tools \cup {"close"}
      <4> SUFFICES ASSUME f # << >>, f[1][1] \in Tools \cup {"close"}
                   PROVE  FALSE
        OBVIOUS
      <4>1. 2 \in DOMAIN frames /\ f[1] = frames[2] /\ Len(frames) # 1
        BY <3>1, <3>2
      <4> QED
        BY <4>1 DEF FrameInv, Fits
    <3> QED
      BY <2>1, <3>3 DEF Pending, f
  <2>3. LastBegun' = Latest /\ LastEnded' = after
    BY <2>1, <2>2, Zenon DEF LastBegun, LastEnded, Latest, CallsOf
  <2>4. /\ es \in Seq(Events) /\ Len(es) \in {1, 2} /\ DOMAIN es = 1 .. Len(es)
        /\ \/ \A i \in DOMAIN es : ~ IsCall(es[i])
           \/ /\ Len(es) = 1 /\ e.tool \in Tools /\ e.n = CallsOf(current)
              /\ \/ e.type = "delta" /\ x \in Tools
                 \/ e.type = "call" /\ x \in Tools \cup {"close"} /\ ~ server[current].open
    BY <2>1, ParsedFacts
  <2>5. Latest = CallsOf(current)
    BY <1>2, <1>4, <2>1
  <2>6. /\ x \in Tools => LastBegun = Latest - 1
        /\ x \in Tools \cup {"close"} => LastEnded = Latest - 1
    BY <2>1 DEF LastBegun, LastEnded, Pending
  <2>7. ~ server[current].open => after = Latest
    OBVIOUS
  <2>8. after \in Int /\ LastBegun <= Latest /\ LastEnded <= after
    BY <1>2, <1>7
  <2> HIDE DEF es, x
  <2>9. /\ DOMAIN s = 1 .. Len(chan) + Len(es) /\ Len(es) \in Nat
        /\ \A i \in 1 .. Len(chan) : s[i] = chan[i]
        /\ \A i \in Len(chan) + 1 .. Len(chan) + Len(es) : s[i] = es[i - Len(chan)]
    BY <1>1, <2>4, ConcatFacts
  <2> HIDE DEF s, after
  <2>10. CASE \A i \in DOMAIN es : ~ IsCall(es[i])
    <3>1. ASSUME NEW i \in DOMAIN s
          PROVE  \/ i \in DOMAIN chan /\ s[i] = chan[i]
                 \/ ~ IsCall(s[i])
      <4>1. CASE i \in 1 .. Len(chan)
        BY <1>1, <2>9, <4>1
      <4>2. CASE i \in Len(chan) + 1 .. Len(chan) + Len(es)
        <5>1. i - Len(chan) \in DOMAIN es
          BY <1>1, <2>4, <2>9, <4>2
        <5> QED
          BY <2>9, <2>10, <4>2, <5>1
      <4> QED
        BY <1>1, <2>9, <4>1, <4>2
    <3> HIDE DEF LastBegun, LastEnded, Latest
    <3> QED
      BY <1>2, <1>8, <1>22, <2>1, <2>3, <2>8, <3>1
  <2>11. CASE ~ \A i \in DOMAIN es : ~ IsCall(es[i])
    <3>1. /\ Len(es) = 1 /\ e.n = Latest
          /\ \/ e.type = "delta" /\ x \in Tools
             \/ e.type = "call" /\ x \in Tools \cup {"close"} /\ ~ server[current].open
      BY <2>4, <2>5, <2>11
    <3> DEFINE k == Len(chan) + 1
    <3>2. \A i \in DOMAIN s : \/ i \in DOMAIN chan /\ s[i] = chan[i]
                              \/ i = k /\ s[i] = e
      BY <1>1, <2>9, <3>1
    <3>3. k \in Nat /\ \A i \in DOMAIN chan : i < k
      BY <1>1
    <3> HIDE DEF e, k, LastBegun, LastEnded, Latest, calls, partials
    <3>4. \/ e.type = "delta" /\ LastBegun < e.n /\ e.n <= Latest /\ LastEnded < e.n
          \/ e.type = "call" /\ LastEnded < e.n /\ e.n <= after
      BY <1>2, <2>6, <2>7, <3>1
    <3>5. e.n \in Int /\ Latest \in Int
      BY <1>2, <3>1
    <3>6. Numbered(s, calls, partials, Latest, after)
      <4>1. \A i \in DOMAIN s : \/ i \in DOMAIN chan /\ s[i] = chan[i]
                                \/ ~ IsCall(s[i])
                                \/ i = k /\ s[i] = e
        BY <3>2
      <4>2. LastBegun <= Latest /\ LastEnded <= after
        BY <2>8
      <4>3. OneBehind(chan, s, k, e)
        BY <3>3, <4>1 DEF OneBehind
      <4> QED
        BY <1>1, <1>2, <1>3, <2>8, <3>3, <3>4, <3>5, <4>2, <4>3, NumbersLonger
    <3>7. collector'.calls = calls /\ collector'.partials = partials
      BY <1>22 DEF calls, partials
    <3> QED
      BY <2>1, <2>3, <3>6, <3>7, Zenon DEF NumberInv
  <2> QED
    BY <2>10, <2>11
<1>23. ASSUME ProviderStep
       PROVE  NumberInv'
  <2>1. collector' = collector
    BY <1>4, <1>23, ProviderSteps
  <2> QED
    BY <1>4, <1>16, <1>17, <1>18, <1>19, <1>20, <1>21, <1>22, <1>23, <2>1,
       ProviderSteps, Zenon
<1> QED
  BY <1>13, <1>14, <1>15, <1>23, StreamSteps, Zenon

-----------------------------------------------------------------------------
(* The calls of a round *)

LEMMA FirstCall ==
  ASSUME NEW next \in Seq(CallEvents), next # << >>, NEW started, ToldApart(next, started)
  PROVE  LET c == next[1]
             t == Tail(next)
         IN  /\ c \in CallEvents /\ c \in ToSet(next) /\ Head(next) = c
             /\ t \in Seq(CallEvents) /\ ToSet(t) \subseteq ToSet(next)
             /\ ToldApart(t, started)
             /\ c.tool \in Spawns => ToldApart(t, started \cup {c})
             /\ \A d \in started \cup ToSet(t) : d.of = c.of /\ d.n # c.n
<1> DEFINE c == next[1]
           t == Tail(next)
<1>1. /\ t \in Seq(CallEvents) /\ Len(next) \in Nat \ {0} /\ DOMAIN next = 1 .. Len(next)
      /\ DOMAIN t = 1 .. Len(next) - 1 /\ Head(next) = c /\ c \in CallEvents
      /\ \A i \in 1 .. Len(next) - 1 : t[i] = next[i + 1]
  BY TailFacts
<1>2. 1 \in DOMAIN next
  BY <1>1
<1> DEFINE first == 1
<1>3. c = next[first] /\ first \in DOMAIN next
  BY <1>2
<1> HIDE DEF t, c
<1>4. \A i \in DOMAIN t : i + 1 \in DOMAIN next /\ t[i] = next[i + 1] /\ i + 1 # first /\ i \in Nat
  BY <1>1
<1> HIDE DEF first
<1>5. \A i, j \in DOMAIN next : next[i].of = next[j].of /\ (next[i].n = next[j].n => i = j)
  BY DEF ToldApart
<1>6. /\ \A a, d \in started : a.of = d.of /\ (a.n = d.n => a = d)
      /\ \A a \in started : /\ a.tool \in Spawns
                            /\ \A j \in DOMAIN next : a.of = next[j].of /\ a.n # next[j].n
  BY DEF ToldApart
<1>7. \A i, j \in DOMAIN t : t[i].of = t[j].of /\ (t[i].n = t[j].n => i = j)
  <2> SUFFICES ASSUME NEW i \in DOMAIN t, NEW j \in DOMAIN t
               PROVE  t[i].of = t[j].of /\ (t[i].n = t[j].n => i = j)
    OBVIOUS
  <2>1. i + 1 = j + 1 => i = j
    BY <1>4
  <2> QED
    BY <1>4, <1>5, <2>1
<1>8. ToldApart(t, started)
  BY <1>4, <1>6, <1>7 DEF ToldApart
<1>9. \A j \in DOMAIN t : t[j].of = c.of /\ t[j].n # c.n
  BY <1>3, <1>4, <1>5
<1>10. \A d \in started : d.of = c.of /\ d.n # c.n
  BY <1>3, <1>6
<1>11. c.tool \in Spawns => ToldApart(t, started \cup {c})
  BY <1>4, <1>6, <1>7, <1>9, <1>10 DEF ToldApart
<1>12. ToSet(t) \subseteq ToSet(next) /\ c \in ToSet(next)
  BY <1>3, <1>4 DEF ToSet
<1>13. \A d \in ToSet(t) : d.of = c.of /\ d.n # c.n
  BY <1>9 DEF ToSet
<1> QED
  BY <1>1, <1>8, <1>10, <1>11, <1>12, <1>13 DEF c, t

\* finish_partials: the calls of the answer, those without an end behind the others.
LEMMA FinishedFacts ==
  ASSUME EventInv, NumberInv, NEW next \in FinishedCalls
  PROVE  /\ next \in Seq(CallEvents) /\ ToldApart(next, {})
         /\ \A j \in DOMAIN next : next[j].of = current
         /\ next # << >> => current # 0
<1> DEFINE calls == collector.calls
           partials == collector.partials
<1>1. /\ calls \in Seq(CallEvents) /\ partials \subseteq CallEvents /\ IsFiniteSet(partials)
      /\ \A j \in DOMAIN calls : calls[j].of = current
      /\ \A p \in partials : p.of = current
      /\ current = 0 => calls = << >> /\ partials = {}
  BY DEF EventInv, IsAnswer, Belong
<1>2. /\ \A i, j \in DOMAIN calls : calls[i].n = calls[j].n => i = j
      /\ \A p, q \in partials : p.n = q.n => p = q
      /\ \A p \in partials : \A j \in DOMAIN calls : p.n # calls[j].n
  BY DEF NumberInv, Numbered
<1>3. PICK s \in SetToSeqs(partials) : next = calls \o s
  BY DEF FinishedCalls
<1> HIDE DEF calls, partials
<1>4. /\ Cardinality(partials) \in Nat
      /\ s \in [1 .. Cardinality(partials) -> partials]
      /\ \A i, j \in 1 .. Cardinality(partials) : i # j => s[i] # s[j]
  BY <1>1, <1>3, FS_CardinalityType DEF SetToSeqs
<1>5. s \in Seq(CallEvents) /\ Len(s) = Cardinality(partials)
  <2>1. s \in [1 .. Cardinality(partials) -> CallEvents]
    BY <1>1, <1>4
  <2> QED
    BY <1>4, <2>1, FunctionIsSeq
<1> DEFINE m == Len(s)
           n == Len(calls)
<1>6. /\ \A i \in 1 .. m : s[i] \in partials
      /\ \A i, j \in 1 .. m : s[i] = s[j] => i = j
  BY <1>4, <1>5
<1> DEFINE r == calls \o s
<1>7. /\ r \in Seq(CallEvents) /\ n \in Nat /\ m \in Nat /\ DOMAIN r = 1 .. n + m
      /\ DOMAIN calls = 1 .. n
      /\ \A i \in 1 .. n : r[i] = calls[i]
      /\ \A i \in n + 1 .. n + m : r[i] = s[i - n]
  <2>1. calls \in Seq(CallEvents) /\ s \in Seq(CallEvents)
    BY <1>1, <1>5
  <2>2. PICK q : q = calls
    OBVIOUS
  <2>3. /\ q \o s \in Seq(CallEvents) /\ Len(q) \in Nat /\ Len(s) \in Nat
        /\ DOMAIN q = 1 .. Len(q) /\ DOMAIN (q \o s) = 1 .. Len(q) + Len(s)
    BY <2>1, <2>2, ConcatFacts
  <2>4. /\ \A i \in 1 .. Len(q) : (q \o s)[i] = q[i]
        /\ \A i \in Len(q) + 1 .. Len(q) + Len(s) : (q \o s)[i] = s[i - Len(q)]
    BY <2>1, <2>2, ConcatFacts
  <2> QED
    BY <2>2, <2>3, <2>4, Zenon
<1> HIDE DEF r, n, m
<1>8. ASSUME NEW i \in DOMAIN r
      PROVE  \/ i \in DOMAIN calls /\ r[i] = calls[i]
             \/ i \notin DOMAIN calls /\ i - n \in 1 .. m /\ r[i] = s[i - n] /\ r[i] \in partials
  <2>1. CASE i \in 1 .. n
    BY <1>7, <2>1
  <2>2. CASE i \notin 1 .. n
    <3>1. i \in n + 1 .. n + m /\ i - n \in 1 .. m
      BY <1>7, <2>2
    <3> QED
      BY <1>6, <1>7, <2>2, <3>1
  <2> QED
    BY <2>1, <2>2
<1>9. \A i \in DOMAIN r : r[i].of = current
  BY <1>1, <1>8
<1>10. ASSUME NEW i \in DOMAIN r, NEW j \in DOMAIN r, r[i].n = r[j].n
       PROVE  i = j
  <2>1. CASE i \in DOMAIN calls /\ j \in DOMAIN calls
    BY <1>2, <1>8, <1>10, <2>1
  <2>2. CASE i \notin DOMAIN calls /\ j \notin DOMAIN calls
    <3>1. /\ i - n \in 1 .. m /\ r[i] = s[i - n] /\ r[i] \in partials
          /\ j - n \in 1 .. m /\ r[j] = s[j - n] /\ r[j] \in partials
      BY <1>8, <2>2
    <3>2. r[i] = r[j]
      BY <1>2, <1>10, <3>1
    <3>3. i - n = j - n
      BY <1>6, <3>1, <3>2
    <3> QED
      BY <1>7, <3>3
  <2>3. CASE i \in DOMAIN calls /\ j \notin DOMAIN calls
    BY <1>2, <1>8, <1>10, <2>3
  <2>4. CASE i \notin DOMAIN calls /\ j \in DOMAIN calls
    BY <1>2, <1>8, <1>10, <2>4
  <2> QED
    BY <2>1, <2>2, <2>3, <2>4
<1>11. ToldApart(r, {})
  BY <1>9, <1>10 DEF ToldApart
<1>12. current = 0 => r = << >>
  <2> SUFFICES ASSUME current = 0
               PROVE  r = << >>
    OBVIOUS
  <2>1. calls = << >> /\ partials = {}
    BY <1>1
  <2>2. n = 0 /\ m = 0
    BY <1>5, <2>1, FS_EmptySet DEF n, m
  <2>3. Len(r) = 0
    BY <1>7, <2>2, LenProperties
  <2> QED
    BY <1>7, <2>3, EmptySeq
<1>13. next = r
  BY <1>3 DEF r
<1> QED
  BY <1>7, <1>9, <1>11, <1>12, <1>13

\* The steps that end a run, ...
Finishing ==
  Cancel \/ Crash \/ ConsumeTooMuch \/ GiveUp \/ Malformed \/ Complete \/ LoseApproval

\* ... those before its calls are looked at, ...
Asking ==
  Submit \/ Begin \/ SendRequest \/ Consume \/ RecoverOverflow \/ ReplayInstead

\* ... and those after which a call has its output.
Answering == AnswerDuplicate \/ Refuse \/ Reject \/ FinishTool

LEMMA CallStep ==
  ASSUME EventInv, NumberInv, CallInv, [Next]_vars
  PROVE  CallInv'
<1> DEFINE P == {"idle", "begin", "request", "stream"}
<1>1. /\ pending \in Seq(CallEvents) /\ spawned \subseteq CallEvents
      /\ phase \in P => pending = << >> /\ spawned = {}
      /\ ToldApart(pending, spawned)
  BY DEF CallInv
<1>2. ASSUME phase' \in P, pending' = << >>, spawned' = {}
      PROVE  CallInv'
  <2>1. DOMAIN << >> = {} /\ << >> \in Seq(CallEvents)
    OBVIOUS
  <2>2. ToldApart(<< >>, {})
    BY <2>1 DEF ToldApart
  <2> QED
    BY <1>2, <2>1, <2>2 DEF CallInv
<1>3. ASSUME Finishing
      PROVE  CallInv'
  <2>1. phase' = "idle" /\ pending' = << >> /\ spawned' = {}
    BY <1>3 DEF Finishing, Cancel, Crash, ConsumeTooMuch, GiveUp, Malformed, Complete,
                LoseApproval, FailRun, Finish
  <2> QED
    BY <1>2, <2>1
<1>4. ASSUME Asking
      PROVE  CallInv'
  <2>1. phase \in P /\ phase' \in P /\ pending' = pending /\ spawned' = spawned
    <3>1. Submit \/ Begin \/ SendRequest \/ Consume =>
            phase \in P /\ phase' \in P /\ pending' = pending /\ spawned' = spawned
      BY DEF Submit, Begin, SendRequest, Consume, roundVars
    <3>2. RecoverOverflow \/ ReplayInstead =>
            phase \in P /\ phase' \in P /\ pending' = pending /\ spawned' = spawned
      BY DEF RecoverOverflow, ReplayInstead, Drained, ReplayNext
    <3> QED
      BY <1>4, <3>1, <3>2 DEF Asking
  <2> QED
    BY <1>1, <1>2, <2>1
<1>5. ASSUME NextRound
      PROVE  CallInv'
  BY <1>2, <1>5 DEF NextRound, roundVars
<1>6. ASSUME UNCHANGED <<phase, pending, spawned, decided>>
      PROVE  CallInv'
  BY <1>6 DEF CallInv
<1>7. ASSUME Answering
      PROVE  CallInv'
  <2>1. phase' = "calls" /\ pending # << >> /\ pending' = Tail(pending) /\ spawned' = spawned
    BY <1>7 DEF Answering, AnswerDuplicate, Refuse, Reject, FinishTool, CallInv
  <2> DEFINE t == Tail(pending)
  <2>2. t \in Seq(CallEvents) /\ ToldApart(t, spawned)
    BY <1>1, <2>1, FirstCall
  <2>3. pending' = t
    BY <2>1
  <2> HIDE DEF t
  <2> QED
    BY <1>1, <2>1, <2>2, <2>3 DEF CallInv
<1>8. ASSUME Consider
      PROVE  CallInv'
  <2>1. /\ phase' \in {"approval", "approved"} /\ pending # << >>
        /\ UNCHANGED <<pending, spawned, decided>>
    BY <1>8 DEF Consider, roundVars
  <2>2. pending[1].tool \notin decided
    BY <1>1, <1>8, TailFacts DEF Consider, Call
  <2> QED
    BY <1>1, <2>1, <2>2 DEF CallInv
<1>9. ASSUME Approve
      PROVE  CallInv'
  BY <1>9 DEF Approve, CallInv, roundVars
<1>10. ASSUME StartTool
       PROVE  CallInv'
  <2> DEFINE c == pending[1]
             t == Tail(pending)
  <2>1. pending # << >> /\ c.tool \notin decided /\ decided' = decided
    BY <1>10 DEF StartTool, CallInv
  <2>2. /\ c \in CallEvents /\ t \in Seq(CallEvents) /\ Call = c
        /\ c.tool \in Spawns => ToldApart(t, spawned \cup {c})
    BY <1>1, <2>1, FirstCall DEF Call
  <2>3. CASE Call.tool \in Spawns
    <3>1. spawned' = spawned \cup {c} /\ pending' = t /\ phase' = "calls"
      BY <1>10, <2>2, <2>3 DEF StartTool
    <3>2. ToldApart(t, spawned \cup {c})
      BY <2>2, <2>3
    <3> HIDE DEF c, t
    <3> QED
      BY <1>1, <2>2, <3>1, <3>2 DEF CallInv
  <2>4. CASE Call.tool \notin Spawns
    BY <1>1, <1>10, <2>1, <2>4 DEF StartTool, CallInv
  <2> QED
    BY <2>3, <2>4
<1>11. ASSUME FinishChild
       PROVE  CallInv'
  <2>1. /\ phase' = "calls" /\ pending' = pending /\ spawned' \subseteq spawned
    BY <1>11 DEF FinishChild
  <2> QED
    BY <1>1, <2>1 DEF CallInv, ToldApart
<1>12. ASSUME AcceptCalls
       PROVE  CallInv'
  <2>1. PICK next \in FinishedCalls : pending' = next
    BY <1>12 DEF AcceptCalls
  <2>2. next \in Seq(CallEvents) /\ ToldApart(next, {})
    BY FinishedFacts
  <2>3. phase = "stream" /\ phase' = "calls" /\ spawned' = spawned
    BY <1>12 DEF AcceptCalls, Drained
  <2>4. spawned' = {}
    BY <1>1, <2>3
  <2> QED
    BY <2>1, <2>2, <2>3, <2>4 DEF CallInv
<1>13. UNCHANGED vars \/ SwitchMode \/ FinishShell \/ ProviderStep => CallInv'
  <2>1. UNCHANGED vars \/ SwitchMode \/ FinishShell \/ ProviderStep =>
          UNCHANGED <<phase, pending, spawned, decided>>
    BY DEF vars, SwitchMode, FinishShell, ProviderStep, runVars, roundVars
  <2> QED
    BY <1>6, <2>1
<1> QED
  BY <1>3, <1>4, <1>5, <1>7, <1>8, <1>9, <1>10, <1>11, <1>12, <1>13, Zenon
     DEF Next, RunnerStep, UserAnswers, Finishing, Asking, Answering

-----------------------------------------------------------------------------
(* The verdicts of a run *)

\* A call whose signature is new is judged.
LEMMA OneMoreVerdict ==
  ASSUME VerdictInv, NEW c \in CallEvents, c.tool \notin decided, phase \notin {"idle", "executing"},
         \A d \in spawned : d.of = c.of /\ d.tool \in Spawns,
         NEW w, w = verdicts \cup {Verdict(c)}
  PROVE  /\ w \subseteq [tool : Tools, of : Nat, n : Nat]
         /\ \A a, b \in w : a.tool = b.tool => a = b \/ (a.tool \in Spawns /\ a.of = b.of)
<1>1. /\ verdicts \subseteq [tool : Tools, of : Nat, n : Nat]
      /\ \A a, b \in verdicts : a.tool = b.tool => a = b \/ (a.tool \in Spawns /\ a.of = b.of)
      /\ \A v \in verdicts : v.tool \in decided \/ \E d \in spawned : v = Verdict(d)
  BY DEF VerdictInv, OneVerdict
<1> DEFINE x == Verdict(c)
<1>2. x \in [tool : Tools, of : Nat, n : Nat] /\ x.tool = c.tool /\ x.of = c.of
  BY DEF Verdict, CallEvents
<1>3. \A v \in verdicts : v.tool = x.tool => v.tool \in Spawns /\ v.of = x.of
  <2> SUFFICES ASSUME NEW v \in verdicts, v.tool = x.tool
               PROVE  v.tool \in Spawns /\ v.of = x.of
    OBVIOUS
  <2>1. PICK d \in spawned : v = Verdict(d)
    BY <1>1, <1>2
  <2>2. v.tool = d.tool /\ v.of = d.of
    BY <2>1 DEF Verdict
  <2>3. d.of = c.of /\ d.tool \in Spawns
    OBVIOUS
  <2> HIDE DEF x
  <2> QED
    BY <1>2, <2>2, <2>3
<1> HIDE DEF x
<1>4. w = verdicts \cup {x}
  BY DEF x
<1> QED
  BY <1>1, <1>2, <1>3, <1>4

LEMMA VerdictStep ==
  ASSUME CallInv, VerdictInv, [Next]_vars
  PROVE  VerdictInv'
<1>1. /\ decided \subseteq Tools /\ verdicts \subseteq [tool : Tools, of : Nat, n : Nat]
      /\ OneVerdict
      /\ phase # "idle" =>
           \A v \in verdicts : \/ v.tool \in decided
                               \/ phase = "executing" /\ v = Verdict(pending[1])
                               \/ \E c \in spawned : v = Verdict(c)
  BY DEF VerdictInv
<1>2. /\ pending \in Seq(CallEvents) /\ spawned \subseteq CallEvents
      /\ phase \in {"idle", "begin", "request", "stream"} => pending = << >> /\ spawned = {}
      /\ phase \in {"approval", "approved", "executing"} =>
           pending # << >> /\ pending[1].tool \notin decided
      /\ ToldApart(pending, spawned)
  BY DEF CallInv
<1>3. pending # << >> => /\ Call = pending[1] /\ Call \in CallEvents /\ Call.tool \in Tools
                         /\ \A d \in spawned : d.of = Call.of /\ d.tool \in Spawns
  <2> SUFFICES ASSUME pending # << >>
               PROVE  /\ Call = pending[1] /\ Call \in CallEvents /\ Call.tool \in Tools
                      /\ \A d \in spawned : d.of = Call.of /\ d.tool \in Spawns
    OBVIOUS
  <2>1. Call = pending[1] /\ Call \in CallEvents /\ 1 \in DOMAIN pending
    BY <1>2, TailFacts DEF Call
  <2> QED
    BY <1>2, <2>1 DEF ToldApart, CallEvents
<1>4. ASSUME phase' = "idle", decided' = {}, verdicts' = verdicts
      PROVE  VerdictInv'
  BY <1>1, <1>4 DEF VerdictInv, OneVerdict
<1>5. ASSUME Finishing
      PROVE  VerdictInv'
  <2>1. phase' = "idle" /\ decided' = {} /\ verdicts' = verdicts
    BY <1>5 DEF Finishing, Cancel, Crash, ConsumeTooMuch, GiveUp, Malformed, Complete,
                LoseApproval, FailRun, Finish, historyVars
  <2> QED
    BY <1>4, <2>1
<1>6. ASSUME Submit
      PROVE  VerdictInv'
  <2>1. verdicts' = {} /\ decided' = decided
    BY <1>6 DEF Submit
  <2> QED
    BY <1>1, <2>1 DEF VerdictInv, OneVerdict
<1>7. ASSUME UNCHANGED <<decided, verdicts, spawned>>, phase \notin {"idle", "executing"}
      PROVE  VerdictInv'
  BY <1>1, <1>7 DEF VerdictInv, OneVerdict
<1>8. ASSUME UNCHANGED <<decided, verdicts, spawned, phase, pending>>
      PROVE  VerdictInv'
  BY <1>1, <1>8 DEF VerdictInv, OneVerdict
<1>9. Begin \/ SendRequest \/ Consume \/ RecoverOverflow \/ ReplayInstead => VerdictInv'
  <2>1. Begin \/ SendRequest \/ Consume =>
          UNCHANGED <<decided, verdicts, spawned>> /\ phase \notin {"idle", "executing"}
    BY DEF Begin, SendRequest, Consume, roundVars, historyVars
  <2>2. RecoverOverflow \/ ReplayInstead =>
          UNCHANGED <<decided, verdicts, spawned>> /\ phase \notin {"idle", "executing"}
    BY DEF RecoverOverflow, ReplayInstead, ReplayNext, Drained, historyVars
  <2> QED
    BY <1>7, <2>1, <2>2
<1>10. AcceptCalls \/ AnswerDuplicate \/ Consider \/ Approve \/ NextRound => VerdictInv'
  <2>1. AcceptCalls \/ AnswerDuplicate \/ Consider \/ Approve \/ NextRound =>
          UNCHANGED <<decided, verdicts, spawned>> /\ phase \notin {"idle", "executing"}
    BY DEF AcceptCalls, AnswerDuplicate, Consider, Approve, NextRound, Drained, roundVars,
           historyVars
  <2> QED
    BY <1>7, <2>1
<1>11. ASSUME Refuse \/ Reject
       PROVE  VerdictInv'
  <2>1. /\ pending # << >> /\ Call.tool \notin decided /\ phase \notin {"idle", "executing"}
        /\ decided' = decided \cup {Call.tool} /\ verdicts' = verdicts \cup {Verdict(Call)}
        /\ spawned' = spawned
    BY <1>2, <1>3, <1>11 DEF Refuse, Reject, Remember, Judge, Verdict
  <2>2. PICK w : w = verdicts'
    OBVIOUS
  <2>3. /\ w \subseteq [tool : Tools, of : Nat, n : Nat]
        /\ \A a, b \in w : a.tool = b.tool => a = b \/ (a.tool \in Spawns /\ a.of = b.of)
    <3>1. PICK c : c = Call
      OBVIOUS
    <3>2. /\ c \in CallEvents /\ c.tool \notin decided
          /\ \A d \in spawned : d.of = c.of /\ d.tool \in Spawns
      BY <1>3, <2>1, <3>1
    <3>3. w = verdicts \cup {Verdict(c)} /\ phase \notin {"idle", "executing"}
      BY <2>1, <2>2, <3>1
    <3> HIDE <3>1
    <3> QED
      BY <3>2, <3>3, OneMoreVerdict, SMTT(30)
  <2>4. Verdict(Call).tool = Call.tool
    BY DEF Verdict
  <2>5. \A v \in w : v.tool \in decided' \/ \E c \in spawned' : v = Verdict(c)
    BY <1>1, <2>1, <2>2, <2>4
  <2> QED
    BY <1>1, <1>3, <2>1, <2>2, <2>3, <2>5 DEF VerdictInv, OneVerdict
<1>12. ASSUME StartTool
       PROVE  VerdictInv'
  <2>1. /\ pending # << >> /\ Call.tool \notin decided /\ phase = "approved"
        /\ decided' = decided /\ verdicts' = verdicts \cup {Verdict(Call)}
        /\ \/ spawned' = spawned \cup {Call}
           \/ phase' = "executing" /\ UNCHANGED <<spawned, pending>>
    BY <1>2, <1>3, <1>12 DEF StartTool, Judge, Verdict
  <2>2. PICK w : w = verdicts'
    OBVIOUS
  <2>3. /\ w \subseteq [tool : Tools, of : Nat, n : Nat]
        /\ \A a, b \in w : a.tool = b.tool => a = b \/ (a.tool \in Spawns /\ a.of = b.of)
    <3>1. PICK c : c = Call
      OBVIOUS
    <3>2. /\ c \in CallEvents /\ c.tool \notin decided
          /\ \A d \in spawned : d.of = c.of /\ d.tool \in Spawns
      BY <1>3, <2>1, <3>1
    <3>3. w = verdicts \cup {Verdict(c)} /\ phase \notin {"idle", "executing"}
      BY <2>1, <2>2, <3>1
    <3> HIDE <3>1
    <3> QED
      BY <3>2, <3>3, OneMoreVerdict, SMTT(30)
  <2>4. \A v \in w : \/ v.tool \in decided'
                     \/ phase' = "executing" /\ v = Verdict(pending[1])'
                     \/ \E c \in spawned' : v = Verdict(c)
    <3>1. ASSUME NEW v \in verdicts
          PROVE  v.tool \in decided' \/ \E c \in spawned' : v = Verdict(c)
      BY <1>1, <2>1, <3>1
    <3>2. \/ phase' = "executing" /\ Verdict(Call) = Verdict(pending[1])'
          \/ \E c \in spawned' : Verdict(Call) = Verdict(c)
      <4>1. CASE spawned' = spawned \cup {Call}
        BY <4>1
      <4>2. CASE phase' = "executing" /\ UNCHANGED <<spawned, pending>>
        BY <1>3, <2>1, <4>2
      <4> QED
        BY <2>1, <4>1, <4>2
    <3> QED
      BY <2>1, <2>2, <3>1, <3>2
  <2> QED
    BY <1>1, <2>1, <2>2, <2>3, <2>4 DEF VerdictInv, OneVerdict
<1>13. ASSUME FinishTool
       PROVE  VerdictInv'
  <2>1. /\ pending # << >> /\ decided' = decided \cup {Call.tool}
        /\ phase # "idle" /\ UNCHANGED <<verdicts, spawned>>
    BY <1>2, <1>13 DEF FinishTool, Remember, historyVars
  <2>2. Verdict(pending[1]).tool = Call.tool
    BY <1>3, <2>1 DEF Verdict
  <2>3. \A v \in verdicts : v.tool \in decided' \/ \E c \in spawned : v = Verdict(c)
    BY <1>1, <2>1, <2>2
  <2> QED
    BY <1>1, <1>3, <2>1, <2>3 DEF VerdictInv, OneVerdict
<1>14. ASSUME FinishChild
       PROVE  VerdictInv'
  <2>1. PICK c \in spawned : decided' = decided \cup {c.tool} /\ spawned' = spawned \ {c}
    BY <1>14 DEF FinishChild, Remember
  <2>2. phase = "calls" /\ verdicts' = verdicts
    BY <1>14 DEF FinishChild, historyVars
  <2>3. Verdict(c).tool = c.tool /\ c.tool \in Tools
    BY <1>2 DEF Verdict, CallEvents
  <2>4. \A v \in verdicts : v.tool \in decided' \/ \E d \in spawned' : v = Verdict(d)
    BY <1>1, <2>1, <2>2, <2>3
  <2> QED
    BY <1>1, <2>1, <2>2, <2>3, <2>4 DEF VerdictInv, OneVerdict
<1>15. UNCHANGED vars \/ SwitchMode \/ FinishShell \/ ProviderStep => VerdictInv'
  <2>1. UNCHANGED vars \/ SwitchMode \/ FinishShell \/ ProviderStep =>
          UNCHANGED <<decided, verdicts, spawned, phase, pending>>
    BY DEF vars, SwitchMode, FinishShell, ProviderStep, runVars, roundVars, historyVars
  <2> QED
    BY <1>8, <2>1
<1> QED
  BY <1>5, <1>6, <1>9, <1>10, <1>11, <1>12, <1>13, <1>14, <1>15, Zenon
     DEF Next, RunnerStep, UserAnswers, Finishing

-----------------------------------------------------------------------------
(* What is added to a conversation, and what is taken from it *)

LEMMA SoundEmpty ==
  ASSUME NEW n, NEW o
  PROVE  Sound(<< >>, n, o) /\ \A calls : NoOutput(<< >>, calls)
<1>1. DOMAIN << >> = {} /\ << >> \in Seq(Items)
  OBVIOUS
<1> QED
  BY <1>1 DEF Sound, Orderly, KnownTo, NoOutput

LEMMA SoundPlain ==
  ASSUME NEW s, NEW n, NEW o, Sound(s, n, o), NEW r \in Seq(Items),
         \A i \in DOMAIN r : ~ OfResponse(r[i])
  PROVE  /\ Sound(s \o r, n, o) /\ Sound(r \o s, n, o)
         /\ \A calls : NoOutput(s, calls) => NoOutput(s \o r, calls) /\ NoOutput(r \o s, calls)
<1>1. s \in Seq(Items) /\ Orderly(s) /\ KnownTo(s, n, o)
  BY DEF Sound
<1>2. HasNoCalls(r)
  BY DEF HasNoCalls, OfResponse
<1>3. Orderly(r) /\ Apart(s, r) /\ Apart(r, s) /\ \A calls : NoOutput(r, calls)
  BY <1>2, NoCallsFacts
<1>4. KnownTo(r, n, o)
  BY DEF KnownTo
<1>5. Orderly(s \o r) /\ s \o r \in Seq(Items) /\ KnownTo(s \o r, n, o)
  BY <1>1, <1>3, <1>4, OrderlyConcat, KnownConcat, ConcatProperties
<1>6. Orderly(r \o s) /\ r \o s \in Seq(Items) /\ KnownTo(r \o s, n, o)
  BY <1>1, <1>3, <1>4, OrderlyConcat, KnownConcat, ConcatProperties
<1>7. ASSUME NEW calls, NoOutput(s, calls)
      PROVE  NoOutput(s \o r, calls) /\ NoOutput(r \o s, calls)
  BY <1>1, <1>3, <1>7, KnownConcat
<1> QED
  BY <1>5, <1>6, <1>7, Zenon DEF Sound

LEMMA SoundOne ==
  ASSUME NEW s, NEW n, NEW o, Sound(s, n, o), NEW x \in Items, ~ OfResponse(x)
  PROVE  /\ Sound(Append(s, x), n, o)
         /\ \A calls : NoOutput(s, calls) => NoOutput(Append(s, x), calls)
<1> DEFINE r == <<x>>
<1>1. r \in Seq(Items) /\ \A i \in DOMAIN r : ~ OfResponse(r[i])
  OBVIOUS
<1>2. Append(s, x) = s \o r
  BY AppendIsConcat DEF Sound
<1> HIDE DEF r
<1>3. /\ Sound(s \o r, n, o)
      /\ \A calls : NoOutput(s, calls) => NoOutput(s \o r, calls)
  BY <1>1, SoundPlain
<1> QED
  BY <1>2, <1>3, Zenon

LEMMA SoundFrom ==
  ASSUME NEW s, NEW n, NEW o, Sound(s, n, o), NEW b \in 0 .. Len(s)
  PROVE  /\ Sound(From(s, b), n, o)
         /\ \A calls : NoOutput(s, calls) => NoOutput(From(s, b), calls)
BY PartFacts DEF Sound

\* The output of a call that has none.
LEMMA SoundOutput ==
  ASSUME NEW s, NEW n \in Nat, Sound(s, n, 0), NEW c \in CallEvents, c.of \in 1 .. n,
         NEW calls, c \in calls, NoOutput(s, calls),
         NEW rest, rest \subseteq calls, \A d \in rest : d.n # c.n,
         NEW x, x = Item("output", c.of, c.n, c.tool)
  PROVE  /\ x \in Items /\ x.k = "output"
         /\ Sound(Append(s, x), n, 0) /\ NoOutput(Append(s, x), rest)
<1>1. x \in Items /\ x.k = "output" /\ x.of = c.of /\ x.n = c.n
  BY DEF Item, Items, Kinds, CallEvents, Nothing
<1>2. s \in Seq(Items) /\ Orderly(s) /\ KnownTo(s, n, 0)
  BY DEF Sound
<1> DEFINE r == <<x>>
<1>3. r \in Seq(Items) /\ DOMAIN r = {1} /\ r[1] = x
  BY <1>1
<1>4. Append(s, x) = s \o r
  BY <1>1, <1>2, AppendIsConcat
<1> HIDE DEF r
<1>5. Orderly(r)
  BY <1>1, <1>3 DEF Orderly
<1>6. Apart(s, r)
  <2>1. \A i \in DOMAIN s : ~ (s[i].k = "output" /\ SameCall(s[i], x))
    BY <1>1 DEF NoOutput, SameCall
  <2> QED
    BY <1>1, <1>3, <2>1 DEF Apart
<1>7. KnownTo(r, n, 0)
  BY <1>1, <1>3 DEF KnownTo
<1>8. NoOutput(r, rest)
  BY <1>1, <1>3 DEF NoOutput, SameCall
<1>9. NoOutput(s, rest)
  BY DEF NoOutput
<1>10. Orderly(s \o r) /\ s \o r \in Seq(Items)
  BY <1>2, <1>3, <1>5, <1>6, OrderlyConcat, ConcatProperties
<1>11. KnownTo(s \o r, n, 0) /\ NoOutput(s \o r, rest)
  BY <1>2, <1>3, <1>7, <1>8, <1>9, KnownConcat
<1> QED
  BY <1>1, <1>4, <1>10, <1>11, Zenon DEF Sound

\* The text and the calls of a response nothing of which is known yet.
OfAnswer(r, o) == \A i \in DOMAIN r : r[i].k \in {"thinking", "text", "call"} /\ r[i].of = o

LEMMA SoundAnswer ==
  ASSUME NEW s, NEW n \in Nat, NEW o \in 1 .. n, Sound(s, n, o),
         NEW r \in Seq(Items), Orderly(r), OfAnswer(r, o)
  PROVE  /\ Sound(s \o r, n, 0)
         /\ \A calls : (\A c \in calls : c.of = o) => NoOutput(s \o r, calls)
<1>1. s \in Seq(Items) /\ Orderly(s) /\ KnownTo(s, n, o)
  BY DEF Sound
<1>2. Apart(s, r)
  BY <1>1 DEF Apart, KnownTo, OfResponse, OfAnswer, SameCall
<1>3. KnownTo(r, n, 0) /\ KnownTo(s, n, 0)
  BY <1>1 DEF KnownTo, OfAnswer
<1>4. ASSUME NEW calls, \A c \in calls : c.of = o
      PROVE  NoOutput(s, calls) /\ NoOutput(r, calls)
  BY <1>1, <1>4 DEF NoOutput, SameCall, KnownTo, OfResponse, OfAnswer
<1>5. Orderly(s \o r) /\ s \o r \in Seq(Items) /\ KnownTo(s \o r, n, 0)
  BY <1>1, <1>2, <1>3, OrderlyConcat, KnownConcat, ConcatProperties
<1>6. ASSUME NEW calls, \A c \in calls : c.of = o
      PROVE  NoOutput(s \o r, calls)
  BY <1>1, <1>4, <1>6, KnownConcat
<1> QED
  BY <1>5, <1>6, Zenon DEF Sound

\* Another response is streamed, or none.
LEMMA SoundLater ==
  ASSUME NEW s, NEW n \in Nat, NEW o, Sound(s, n, o), NEW m \in Nat, n <= m, NEW p,
         p = o \/ p = 0 \/ p = n + 1
  PROVE  Sound(s, m, p)
<1>1. s \in Seq(Items) /\ Orderly(s) /\ KnownTo(s, n, o)
  BY DEF Sound
<1>2. KnownTo(s, m, p)
  BY <1>1 DEF KnownTo
<1> QED
  BY <1>1, <1>2 DEF Sound

LEMMA StreamMoves ==
  ASSUME ClientInv, ServerInv, [Next]_vars
  PROVE  /\ Len(server) \in Nat /\ Len(server') \in Nat /\ Len(server) <= Len(server')
         /\ current' = current \/ current' = 0 \/ current' = Len(server) + 1
         /\ current \in 0 .. Len(server)
<1>1. /\ Len(server) \in Nat /\ Len(server') \in Nat
      /\ Len(server') = Len(server) \/ Len(server') = Len(server) + 1
  BY ServerGrows DEF ServerInv
<1>2. emitted \in BOOLEAN /\ (net = "sent" => current = 0) /\ current \in 0 .. Len(server)
  BY <1>1 DEF ClientInv
<1>3. Quiet \/ Consume => current' = current
  BY DEF Quiet, Consume, streamVars
<1>4. Closing \/ Opening \/ Repeating => current' = 0
  BY DEF Closing, Opening, Repeating, CloseStream, OpenStream, Restart
<1>5. Beginning => current' = Len(server) + 1
  BY DEF Beginning
<1>6. Failing \/ Ending \/ Delivering => current' = current
  BY DEF Failing, Ending, Delivering
<1>7. /\ \A payload : Sending(payload) => current' = current
      /\ \A chunk : Feeding(chunk) => current' = current
      /\ \A r : Completing(r) => current' = current
  BY DEF Sending, Feeding, Push, Completing, streamVars
<1>8. current' = current \/ current' = 0 \/ current' = Len(server) + 1
  BY <1>2, <1>3, <1>4, <1>5, <1>6, <1>7, StreamSteps, ProviderSteps, Zenon
<1> QED
  BY <1>1, <1>2, <1>8

\* What an answer adds before its calls.
LEMMA AnswerFacts ==
  ASSUME IsAnswer(collector), current \in Nat
  PROVE  /\ Answer \in Seq(Items) /\ HasNoCalls(Answer) /\ OfAnswer(Answer, current)
         /\ collector.text = 0 \/ collector.text \in 1 .. MaxText
<1> DEFINE x == Item("thinking", current, 0, "none")
           y == Item("text", current, collector.text, "none")
           a == IF collector.thought THEN <<x>> ELSE << >>
           b == IF collector.text = 0 THEN << >> ELSE <<y>>
<1>1. collector.text \in 0 .. MaxText /\ MaxText \in Nat
  BY ProviderAssumption DEF IsAnswer
<1>2. /\ x \in Items /\ x.k = "thinking" /\ x.of = current
      /\ y \in Items /\ y.k = "text" /\ y.of = current
  BY <1>1 DEF Item, Items, Kinds, Nothing
<1>3. (a = << >> \/ a = <<x>>) /\ (b = << >> \/ b = <<y>>)
  OBVIOUS
<1>4. Answer = a \o b
  BY Zenon DEF Answer
<1> HIDE DEF a, b, x, y
<1>5. /\ a \in Seq(Items) /\ \A i \in DOMAIN a : a[i] = x
      /\ b \in Seq(Items) /\ \A i \in DOMAIN b : b[i] = y
  <2>1. ASSUME NEW z \in Items, NEW q, q = << >> \/ q = <<z>>
        PROVE  q \in Seq(Items) /\ \A i \in DOMAIN q : q[i] = z
    <3>1. CASE q = << >>
      BY <3>1
    <3>2. CASE q = <<z>>
      BY <3>2
    <3> QED
      BY <2>1, <3>1, <3>2
  <2> QED
    BY <1>2, <1>3, <2>1, Zenon
<1> DEFINE c == a \o b
<1>6. /\ c \in Seq(Items) /\ Len(a) \in Nat /\ Len(b) \in Nat /\ DOMAIN c = 1 .. Len(a) + Len(b)
      /\ DOMAIN a = 1 .. Len(a) /\ DOMAIN b = 1 .. Len(b)
      /\ \A i \in 1 .. Len(a) : c[i] = a[i]
      /\ \A i \in Len(a) + 1 .. Len(a) + Len(b) : c[i] = b[i - Len(a)]
  BY <1>5, ConcatFacts
<1> HIDE DEF c
<1>7. \A i \in DOMAIN c : c[i] = x \/ c[i] = y
  <2> SUFFICES ASSUME NEW i \in DOMAIN c
               PROVE  c[i] = x \/ c[i] = y
    OBVIOUS
  <2>1. CASE i \in 1 .. Len(a)
    BY <1>5, <1>6, <2>1
  <2>2. CASE i \in Len(a) + 1 .. Len(a) + Len(b)
    <3>1. i - Len(a) \in DOMAIN b
      BY <1>6, <2>2
    <3> QED
      BY <1>5, <1>6, <2>2, <3>1
  <2> QED
    BY <1>6, <2>1, <2>2
<1>8. HasNoCalls(c) /\ OfAnswer(c, current)
  BY <1>2, <1>7 DEF HasNoCalls, OfAnswer
<1>9. collector.text = 0 \/ collector.text \in 1 .. MaxText
  BY <1>1
<1> QED
  BY <1>4, <1>6, <1>8, <1>9 DEF c

\* What an answer that asks for tools adds.
AddedBy(next) ==
  Answer \o [j \in DOMAIN next |-> Item("call", next[j].of, next[j].n, next[j].tool)]

LEMMA AddedFacts ==
  ASSUME IsAnswer(collector), current \in Nat, NEW next \in Seq(CallEvents),
         ToldApart(next, {}), \A j \in DOMAIN next : next[j].of = current
  PROVE  /\ AddedBy(next) \in Seq(Items) /\ Orderly(AddedBy(next))
         /\ OfAnswer(AddedBy(next), current)
<1> DEFINE a == Answer
           r == [j \in DOMAIN next |-> Item("call", next[j].of, next[j].n, next[j].tool)]
<1>1. a \in Seq(Items) /\ HasNoCalls(a) /\ OfAnswer(a, current)
  BY AnswerFacts
<1>2. /\ Len(next) \in Nat /\ DOMAIN next = 1 .. Len(next)
      /\ \A j \in DOMAIN next : next[j] \in CallEvents
  BY LenProperties, ElementOfSeq
<1>3. DOMAIN r = DOMAIN next /\ \A j \in DOMAIN next :
        /\ r[j] \in Items /\ r[j].k = "call" /\ r[j].of = current /\ r[j].n = next[j].n
  BY <1>2 DEF Item, Items, Kinds, CallEvents, Nothing
<1>4. r = [j \in 1 .. Len(next) |-> r[j]]
  BY <1>2
<1> HIDE DEF a, r
<1>5. r \in [1 .. Len(next) -> Items]
  BY <1>2, <1>3, <1>4
<1>6. r \in Seq(Items)
  BY <1>2, <1>5, FunctionIsSeq
<1>7. Orderly(r) /\ OfAnswer(r, current)
  BY <1>3 DEF Orderly, OfAnswer, SameCall, ToldApart
<1>8. Orderly(a) /\ Apart(a, r)
  BY <1>1, NoCallsFacts
<1> DEFINE c == a \o r
<1>9. c \in Seq(Items) /\ Orderly(c)
  BY <1>1, <1>6, <1>7, <1>8, OrderlyConcat, ConcatProperties
<1>10. /\ Len(a) \in Nat /\ Len(r) \in Nat /\ DOMAIN c = 1 .. Len(a) + Len(r)
       /\ DOMAIN a = 1 .. Len(a) /\ DOMAIN r = 1 .. Len(r)
       /\ \A i \in 1 .. Len(a) : c[i] = a[i]
       /\ \A i \in Len(a) + 1 .. Len(a) + Len(r) : c[i] = r[i - Len(a)]
  BY <1>1, <1>6, ConcatFacts
<1> HIDE DEF c
<1>11. ASSUME NEW i \in DOMAIN c
       PROVE  c[i].k \in {"thinking", "text", "call"} /\ c[i].of = current
  <2>1. CASE i \in 1 .. Len(a)
    BY <1>1, <1>10, <2>1 DEF OfAnswer
  <2>2. CASE i \in Len(a) + 1 .. Len(a) + Len(r)
    <3>1. i - Len(a) \in DOMAIN r
      BY <1>10, <2>2
    <3> QED
      BY <1>7, <1>10, <2>2, <3>1 DEF OfAnswer
  <2> QED
    BY <1>10, <2>1, <2>2
<1>12. OfAnswer(c, current)
  BY <1>11 DEF OfAnswer
<1>13. AddedBy(next) = c
  BY Zenon DEF AddedBy, a, r, c
<1> QED
  BY <1>9, <1>12, <1>13, Zenon

\* Compacted or trimmed.
LEMMA ShrinkFacts ==
  ASSUME NEW n, NEW o, Sound(items, n, o), Sound(rows, n, o), run \in Nat, NEW id, Shrink(id)
  PROVE  /\ Sound(items', n, o) /\ Sound(rows', n, o)
         /\ \A calls : /\ NoOutput(items, calls) => NoOutput(items', calls)
                       /\ NoOutput(rows, calls) => NoOutput(rows', calls)
<1>1. /\ items \in Seq(Items) /\ Len(items) \in Nat /\ DOMAIN items = 1 .. Len(items)
      /\ rows \in Seq(Items) /\ Len(rows) \in Nat
  BY LenProperties DEF Sound
<1>2. ASSUME NEW c \in Boundaries(items), Summarised(c)
      PROVE  /\ Sound(items', n, o) /\ Sound(rows', n, o)
             /\ \A calls : /\ NoOutput(items, calls) => NoOutput(items', calls)
                           /\ NoOutput(rows, calls) => NoOutput(rows', calls)
  <2> DEFINE x == Summary
             r == <<x>>
             keep == Larger(Len(items) - c, 1)
             b == Minus(Len(rows), keep)
             f == From(items, c)
             g == From(rows, b)
  <2>1. c \in 0 .. Len(items)
    BY <1>1 DEF Boundaries
  <2>2. keep \in Nat
    BY <1>1, <2>1 DEF Larger
  <2>3. b \in 0 .. Len(rows)
    <3> HIDE DEF keep
    <3> QED
      BY <1>1, <2>2 DEF Minus
  <2>4. items' = r \o f /\ rows' = g \o r
    BY <1>2, Zenon DEF Summarised, From
  <2>5. x \in Items /\ ~ OfResponse(x)
    BY DEF Summary, Item, Items, Kinds, Nothing, OfResponse
  <2> HIDE DEF x
  <2>6. r \in Seq(Items) /\ \A i \in DOMAIN r : ~ OfResponse(r[i])
    BY <2>5
  <2> HIDE DEF r, b
  <2>7. /\ Sound(f, n, o) /\ \A calls : NoOutput(items, calls) => NoOutput(f, calls)
        /\ Sound(g, n, o) /\ \A calls : NoOutput(rows, calls) => NoOutput(g, calls)
    BY <2>1, <2>3, SoundFrom
  <2> HIDE DEF f, g
  <2>8. /\ Sound(r \o f, n, o) /\ \A calls : NoOutput(f, calls) => NoOutput(r \o f, calls)
        /\ Sound(g \o r, n, o) /\ \A calls : NoOutput(g, calls) => NoOutput(g \o r, calls)
    BY <2>6, <2>7, SoundPlain
  <2> QED
    BY <2>4, <2>7, <2>8, Zenon
<1>3. ASSUME NEW k \in DOMAIN items, Trimmed(k)
      PROVE  /\ Sound(items', n, o) /\ Sound(rows', n, o)
             /\ \A calls : /\ NoOutput(items, calls) => NoOutput(items', calls)
                           /\ NoOutput(rows, calls) => NoOutput(rows', calls)
  <2> DEFINE x == Item("note", run, 0, "none")
             r == <<x>>
             rest == From(items, k)
             tail == {j \in DOMAIN rest : rest[j].k # "output"}
             kept == IF tail = {} THEN << >> ELSE SubSeq(rest, Min(tail), Len(rest))
  <2>1. k \in 0 .. Len(items)
    BY <1>1
  <2>2. items' = r \o kept /\ rows' = rows
    BY <1>3, Zenon DEF Trimmed, From
  <2>3. x \in Items /\ ~ OfResponse(x)
    BY DEF Item, Items, Kinds, Nothing, OfResponse
  <2> HIDE DEF x
  <2>4. r \in Seq(Items) /\ \A i \in DOMAIN r : ~ OfResponse(r[i])
    BY <2>3
  <2> HIDE DEF r
  <2>5. Sound(rest, n, o) /\ \A calls : NoOutput(items, calls) => NoOutput(rest, calls)
    BY <2>1, SoundFrom
  <2> HIDE DEF rest
  <2>6. /\ Sound(kept, n, o)
        /\ \A calls : NoOutput(rest, calls) => NoOutput(kept, calls)
    <3>1. CASE tail = {}
      BY <3>1, SoundEmpty
    <3>2. CASE tail # {}
      <4> DEFINE m == Min(tail)
                 b == m - 1
      <4>1. Len(rest) \in Nat /\ DOMAIN rest = 1 .. Len(rest)
        BY <2>5, LenProperties DEF Sound
      <4>2. tail \subseteq Nat
        BY <4>1
      <4>3. m \in tail
        <5> HIDE DEF tail
        <5> QED
          BY <3>2, <4>2, MinFacts
      <4>4. m \in 1 .. Len(rest)
        BY <4>1, <4>3
      <4> HIDE DEF m
      <4>5. b \in 0 .. Len(rest) /\ b + 1 = m
        BY <4>1, <4>4
      <4>6. kept = From(rest, b)
        <5>1. kept = SubSeq(rest, m, Len(rest))
          BY <3>2 DEF m
        <5> QED
          BY <4>5, <5>1 DEF From
      <4> HIDE DEF b, kept
      <4> QED
        BY <2>5, <4>5, <4>6, SoundFrom
    <3> QED
      BY <3>1, <3>2
  <2> HIDE DEF kept
  <2>7. /\ Sound(r \o kept, n, o)
        /\ \A calls : NoOutput(kept, calls) => NoOutput(r \o kept, calls)
    BY <2>4, <2>6, SoundPlain
  <2> QED
    BY <2>2, <2>5, <2>6, <2>7, Zenon
<1>4. \/ \E c \in Boundaries(items) : Summarised(c)
      \/ \E k \in DOMAIN items : Trimmed(k)
  BY DEF Shrink
<1> QED
  BY <1>2, <1>3, <1>4, Zenon

-----------------------------------------------------------------------------
(* The conversation, the run's items and the rows *)

LEMMA WaitingFacts ==
  ASSUME CallInv
  PROVE  /\ pending \in Seq(CallEvents) /\ spawned \subseteq CallEvents
         /\ Waiting \subseteq CallEvents
         /\ phase \in {"idle", "begin", "request", "stream"} => Waiting = {}
         /\ pending = << >> => Waiting = spawned
<1>1. /\ pending \in Seq(CallEvents) /\ spawned \subseteq CallEvents
      /\ phase \in {"idle", "begin", "request", "stream"} => pending = << >> /\ spawned = {}
  BY DEF CallInv
<1>2. ToSet(pending) \subseteq CallEvents
  BY <1>1, LenProperties, ElementOfSeq DEF ToSet
<1>3. pending = << >> => ToSet(pending) = {}
  <2>1. DOMAIN << >> = {}
    OBVIOUS
  <2> QED
    BY <2>1 DEF ToSet
<1> QED
  BY <1>1, <1>2, <1>3 DEF Waiting

\* The first call of the round gets its output, or a child agent's does.
LEMMA AnsweredFacts ==
  ASSUME CallInv, NEW c, NEW left,
         \/ pending # << >> /\ c = Call /\ left = spawned \cup ToSet(Tail(pending))
         \/ pending = << >> /\ c \in spawned /\ left = spawned \ {c}
  PROVE  c \in Waiting /\ c \in CallEvents /\ left \subseteq Waiting /\ \A d \in left : d.n # c.n
<1>1. /\ pending \in Seq(CallEvents) /\ ToldApart(pending, spawned) /\ spawned \subseteq CallEvents
      /\ pending = << >> => Waiting = spawned
  BY WaitingFacts DEF CallInv
<1>2. CASE pending # << >> /\ c = Call /\ left = spawned \cup ToSet(Tail(pending))
  <2> DEFINE f == pending[1]
             t == Tail(pending)
  <2>1. /\ f \in CallEvents /\ f \in ToSet(pending) /\ Head(pending) = f
        /\ ToSet(t) \subseteq ToSet(pending)
        /\ \A d \in spawned \cup ToSet(t) : d.of = f.of /\ d.n # f.n
    BY <1>1, <1>2, FirstCall
  <2>2. c = f /\ left = spawned \cup ToSet(t)
    BY <1>2, <2>1 DEF Call
  <2> HIDE DEF f, t
  <2> QED
    BY <2>1, <2>2 DEF Waiting
<1>3. CASE pending = << >> /\ c \in spawned /\ left = spawned \ {c}
  BY <1>1, <1>3 DEF ToldApart
<1> QED
  BY <1>2, <1>3

LEMMA ItemStep ==
  ASSUME ClientInv, ServerInv, EventInv, NumberInv, CallInv, ItemInv, RestInv, [Next]_vars
  PROVE  ItemInv'
<1>a. PICK n, m, o, p :
        n = Len(server) /\ m = Len(server') /\ o = current /\ p = current'
  OBVIOUS
<1>1. /\ n \in Nat /\ m \in Nat /\ n <= m /\ o \in 0 .. n
      /\ p = o \/ p = 0 \/ p = n + 1
  BY <1>a, StreamMoves
<1>2. /\ Sound(conversation, n, o) /\ Sound(items, n, o) /\ Sound(rows, n, o)
      /\ NoOutput(items, Waiting) /\ NoOutput(rows, Waiting)
      /\ \A c \in Waiting : c.of \in 1 .. n
  BY <1>a DEF ItemInv
<1>3. /\ pending \in Seq(CallEvents) /\ spawned \subseteq CallEvents
      /\ phase \in {"idle", "begin", "request", "stream"} => Waiting = {}
  BY WaitingFacts
<1>4. run \in Nat /\ IsAnswer(collector)
  BY ProviderAssumption DEF RestInv, ClientInv, EventInv
<1>5. phase # "stream" => o = 0
  BY <1>a DEF ClientInv
<1> DEFINE Later(s) == Sound(s, m, p)
<1>6. ASSUME NEW s, Sound(s, n, o)
      PROVE  Later(s)
  BY <1>1, <1>6, SoundLater
<1>7. ASSUME NEW s, Sound(s, n, o), NEW r \in Seq(Items), \A i \in DOMAIN r : ~ OfResponse(r[i])
      PROVE  Later(s \o r)
  <2>1. Sound(s \o r, n, o)
    BY <1>7, SoundPlain
  <2> QED
    BY <1>6, <2>1
<1> DEFINE Told == Sound(conversation', m, p) /\ Sound(items', m, p) /\ Sound(rows', m, p)
<1>8. ASSUME Told, pending' = << >>, spawned' = {}
      PROVE  ItemInv'
  <2>1. DOMAIN << >> = {}
    OBVIOUS
  <2>2. Waiting' = {}
    BY <1>8, <2>1 DEF Waiting, ToSet
  <2> QED
    BY <1>a, <1>8, <2>2 DEF ItemInv, NoOutput
<1>9. ASSUME Told, phase \in {"idle", "begin", "request", "stream"},
             UNCHANGED <<pending, spawned>>
      PROVE  ItemInv'
  BY <1>8, <1>9 DEF CallInv
<1>10. ASSUME UNCHANGED <<conversation, items, rows, pending, spawned>>
       PROVE  ItemInv'
  <2>1. Told
    BY <1>2, <1>6, <1>10
  <2>2. Waiting' = Waiting
    BY <1>10 DEF Waiting
  <2>3. \A c \in Waiting : c.of \in 1 .. m
    <3>1. \A k \in 1 .. n : k \in 1 .. m
      BY <1>1
    <3> HIDE DEF Waiting
    <3> QED
      BY <1>2, <3>1
  <2> HIDE DEF Waiting
  <2> QED
    BY <1>a, <1>2, <1>10, <2>1, <2>2, <2>3 DEF ItemInv
<1>11. ASSUME Finishing
       PROVE  ItemInv'
  <2>1. /\ items' = << >> /\ pending' = << >> /\ spawned' = {} /\ p = 0
        /\ m = n
    BY <1>a, <1>11 DEF Finishing, Cancel, Crash, ConsumeTooMuch, GiveUp, Malformed, Complete,
                 LoseApproval, FailRun, Finish, CloseStream, Restart, endpointVars
  <2>2. Later(<< >>)
    BY SoundEmpty
  <2>3. CASE Cancel \/ Crash \/ ConsumeTooMuch \/ GiveUp \/ Malformed \/ LoseApproval
    <3>1. (conversation' = conversation \/ conversation' = rows) /\ rows' = rows
      BY <2>3 DEF Cancel, Crash, ConsumeTooMuch, GiveUp, Malformed, LoseApproval, FailRun,
                  Finish, sessionVars
    <3> QED
      BY <1>2, <1>6, <1>8, <2>1, <2>2, <3>1
  <2>4. CASE Complete
    <3> DEFINE a == Answer
    <3>1. conversation' = items \o a /\ rows' = rows \o a /\ outcome = "ok"
      BY <2>4 DEF Complete, Finish
    <3>2. a \in Seq(Items) /\ HasNoCalls(a) /\ OfAnswer(a, o)
      BY <1>a, <1>1, <1>4, AnswerFacts
    <3>3. o \in 1 .. n
      BY <1>a, <1>1, <3>1 DEF ClientInv
    <3> HIDE DEF a
    <3>4. Orderly(a)
      BY <3>2, NoCallsFacts
    <3> DEFINE c == items \o a
               r == rows \o a
    <3>5. Sound(c, n, 0) /\ Sound(r, n, 0)
      <4>1. PICK s, t : s = items /\ t = rows
        OBVIOUS
      <4>2. Sound(s \o a, n, 0)
        BY <1>1, <1>2, <3>2, <3>3, <3>4, <4>1, SoundAnswer
      <4>3. Sound(t \o a, n, 0)
        BY <1>1, <1>2, <3>2, <3>3, <3>4, <4>1, SoundAnswer
      <4> QED
        BY <4>1, <4>2, <4>3
    <3>6. conversation' = c /\ rows' = r /\ m = n
      BY <2>1, <3>1
    <3> HIDE DEF c, r
    <3>7. Told
      BY <2>1, <2>2, <3>5, <3>6
    <3> QED
      BY <1>8, <2>1, <3>7
  <2> QED
    BY <1>11, <2>3, <2>4 DEF Finishing
<1>12. ASSUME Submit
       PROVE  ItemInv'
  <2> DEFINE x == Item("user", run + 1, 0, "none")
             y == Item("file", run + 1, 0, "none")
             one == <<x>>
  <2>1. PICK two \in {<<y>>, << >>} :
          conversation' = conversation \o one \o two /\ rows' = rows \o one \o two
    <3>1. PICK attach \in BOOLEAN :
            LET message == <<Item("user", run + 1, 0, "none")>>
                files == IF attach THEN <<Item("file", run + 1, 0, "none")>> ELSE << >>
            IN  /\ attach => Has("files")
                /\ conversation' = conversation \o message \o files
                /\ rows' = rows \o message \o files
      BY <1>12 DEF Submit
    <3> QED
      BY <3>1
  <2>2. /\ items' = conversation' /\ phase = "idle" /\ UNCHANGED <<pending, spawned>>
    BY <1>12 DEF Submit, roundVars
  <2>3. x \in Items /\ ~ OfResponse(x) /\ y \in Items /\ ~ OfResponse(y)
    BY <1>4 DEF Item, Items, Kinds, Nothing, OfResponse
  <2> HIDE DEF x, y
  <2>4. /\ one \in Seq(Items) /\ \A i \in DOMAIN one : ~ OfResponse(one[i])
        /\ two \in Seq(Items) /\ \A i \in DOMAIN two : ~ OfResponse(two[i])
    <3>1. ASSUME NEW z \in Items, ~ OfResponse(z), NEW q, q = << >> \/ q = <<z>>
          PROVE  q \in Seq(Items) /\ \A i \in DOMAIN q : ~ OfResponse(q[i])
      <4>1. CASE q = << >>
        BY <4>1
      <4>2. CASE q = <<z>>
        BY <3>1, <4>2
      <4> QED
        BY <3>1, <4>1, <4>2
    <3>2. (one = << >> \/ one = <<x>>) /\ (two = << >> \/ two = <<y>>)
      OBVIOUS
    <3> QED
      BY <2>3, <3>1, <3>2, Zenon
  <2> HIDE DEF one
  <2>5. Sound(conversation \o one, n, o) /\ Sound(rows \o one, n, o)
    BY <1>2, <2>4, SoundPlain
  <2>6. Later(conversation \o one \o two) /\ Later(rows \o one \o two)
    <3> DEFINE c == conversation \o one
               r == rows \o one
    <3>1. Sound(c, n, o) /\ Sound(r, n, o)
      BY <2>5
    <3> HIDE DEF c, r, Later
    <3>2. Later(c \o two) /\ Later(r \o two)
      BY <1>7, <2>4, <3>1
    <3> QED
      BY <3>2 DEF c, r
  <2>7. Told
    BY <2>1, <2>2, <2>6, Zenon
  <2> QED
    BY <1>9, <2>2, <2>7
<1>13. ASSUME Begin \/ RecoverOverflow
       PROVE  ItemInv'
  <2>1. /\ phase \in {"idle", "begin", "request", "stream"} /\ UNCHANGED <<pending, spawned>>
        /\ conversation' = conversation
        /\ (\E id : Shrink(id)) \/ UNCHANGED <<items, rows>>
    <3>1. CASE Begin
      BY <3>1 DEF Begin, roundVars
    <3>2. CASE RecoverOverflow
      BY <3>2 DEF RecoverOverflow, ReplayNext, Drained
    <3> QED
      BY <1>13, <3>1, <3>2
  <2>2. CASE \E id : Shrink(id)
    <3>1. PICK id : Shrink(id)
      BY <2>2
    <3>2. PICK s, r : s = items' /\ r = rows'
      OBVIOUS
    <3>3. Sound(s, n, o) /\ Sound(r, n, o)
      BY <1>2, <1>4, <3>1, <3>2, ShrinkFacts
    <3>4. Told
      BY <1>2, <1>6, <2>1, <3>2, <3>3
    <3> QED
      BY <1>9, <2>1, <3>4
  <2>3. CASE UNCHANGED <<items, rows>>
    BY <1>10, <2>1, <2>3
  <2> QED
    BY <2>1, <2>2, <2>3
<1>14. ASSUME Consume
       PROVE  ItemInv'
  <2> DEFINE e == Head(chan)
             x == Item(e.type, e.of, 0, "none")
  <2>1. /\ phase = "stream" /\ UNCHANGED <<pending, spawned, conversation>> /\ chan # << >>
        /\ items' = IF e.type \in {"search", "reasoning"} THEN Append(items, x) ELSE items
        /\ rows' = IF e.type = "search" THEN Append(rows, x) ELSE rows
    BY <1>14 DEF Consume
  <2>2. e \in Events
    BY <2>1, TailFacts DEF EventInv
  <2>3. e.type \in {"search", "reasoning"} => x \in Items /\ ~ OfResponse(x)
    BY <2>2 DEF Events, Item, Items, Kinds, Nothing, OfResponse
  <2> HIDE DEF x, e
  <2>4. e.type \in {"search", "reasoning"} =>
          Sound(Append(items, x), n, o) /\ Sound(Append(rows, x), n, o)
    BY <1>2, <2>3, SoundOne
  <2>5. Told
    <3> DEFINE s == Append(items, x)
               r == Append(rows, x)
    <3>1. /\ items' = s \/ items' = items
          /\ rows' = r \/ rows' = rows
          /\ items' = s \/ rows' = r => e.type \in {"search", "reasoning"}
             \/ (items' = items /\ rows' = rows)
      BY <2>1
    <3>2. e.type \in {"search", "reasoning"} => Sound(s, n, o) /\ Sound(r, n, o)
      BY <2>4
    <3> HIDE DEF s, r, Later
    <3>3. Later(conversation) /\ Later(items) /\ Later(rows)
      BY <1>2, <1>6
    <3>4. e.type \in {"search", "reasoning"} => Later(s) /\ Later(r)
      BY <1>6, <3>2
    <3> QED
      BY <2>1, <3>1, <3>3, <3>4 DEF Later
  <2> QED
    BY <1>9, <2>1, <2>5
<1>15. ASSUME AcceptCalls
       PROVE  ItemInv'
  <2>1. PICK next \in FinishedCalls :
          /\ next # << >> /\ items' = items \o AddedBy(next) /\ rows' = rows \o AddedBy(next)
          /\ pending' = next
    BY <1>15, Zenon DEF AcceptCalls, AddedBy
  <2>2. /\ next \in Seq(CallEvents) /\ ToldApart(next, {})
        /\ \A j \in DOMAIN next : next[j].of = o
        /\ o # 0
    BY <1>a, <2>1, FinishedFacts
  <2>3. /\ phase = "stream" /\ spawned' = spawned /\ conversation' = conversation /\ p = 0
        /\ m = n
    BY <1>a, <1>15 DEF AcceptCalls, Drained, CloseStream, Restart, endpointVars
  <2> DEFINE a == AddedBy(next)
  <2>4. a \in Seq(Items) /\ Orderly(a) /\ OfAnswer(a, o)
    BY <1>a, <1>1, <1>4, <2>2, AddedFacts
  <2> HIDE DEF a
  <2>5. o \in 1 .. n
    BY <1>1, <2>2
  <2> DEFINE s == items \o a
             r == rows \o a
             W == ToSet(next)
  <2>6. /\ Sound(s, n, 0) /\ Sound(r, n, 0)
        /\ \A calls : (\A c \in calls : c.of = o) => NoOutput(s, calls) /\ NoOutput(r, calls)
    <3>1. PICK u, v : u = items /\ v = rows
      OBVIOUS
    <3>2. Sound(u \o a, n, 0) /\ \A calls : (\A c \in calls : c.of = o) => NoOutput(u \o a, calls)
      BY <1>1, <1>2, <2>4, <2>5, <3>1, SoundAnswer
    <3>3. Sound(v \o a, n, 0) /\ \A calls : (\A c \in calls : c.of = o) => NoOutput(v \o a, calls)
      BY <1>1, <1>2, <2>4, <2>5, <3>1, SoundAnswer
    <3> QED
      BY <3>1, <3>2, <3>3
  <2>7. items' = s /\ rows' = r /\ m = n
    BY <2>1, <2>3 DEF a
  <2> HIDE DEF s, r
  <2>8. \A c \in W : c.of = o
    BY <2>2 DEF ToSet
  <2>9. Waiting' = W
    <3>1. spawned' = {}
      BY <2>3 DEF CallInv
    <3> QED
      BY <2>1, <3>1 DEF Waiting
  <2> HIDE DEF W
  <2>10. NoOutput(s, W) /\ NoOutput(r, W)
    BY <2>6, <2>8
  <2>11. Told
    BY <1>2, <1>6, <2>3, <2>6, <2>7
  <2>12. \A c \in W : c.of \in 1 .. m
    BY <2>5, <2>7, <2>8
  <2> QED
    BY <2>7, <2>9, <2>10, <2>11, <2>12, <1>a DEF ItemInv
<1>16. ASSUME NEW c \in CallEvents, NEW left, Output(c), c \in Waiting, left \subseteq Waiting,
              \A d \in left : d.n # c.n, Waiting' = left, phase # "stream",
              conversation' = conversation, m = n, p = o
       PROVE  ItemInv'
  <2>1. o = 0 /\ m = n
    BY <1>5, <1>16
  <2>2. c.of \in 1 .. n
    BY <1>2, <1>16
  <2> DEFINE x == Item("output", c.of, c.n, c.tool)
             s == Append(items, x)
             r == Append(rows, x)
  <2>3. items' = s /\ rows' = r
    BY <1>16, Zenon DEF Output
  <2> HIDE DEF Waiting
  <2>9. PICK u, v, W : u = items /\ v = rows /\ W = Waiting
    OBVIOUS
  <2>10. /\ Sound(u, n, 0) /\ Sound(v, n, 0) /\ NoOutput(u, W) /\ NoOutput(v, W)
         /\ c \in W /\ left \subseteq W
    BY <1>2, <1>16, <2>1, <2>9
  <2>4. Sound(s, n, 0) /\ NoOutput(s, left)
    <3>1. Sound(Append(u, x), n, 0) /\ NoOutput(Append(u, x), left)
      BY <1>1, <1>16, <2>2, <2>10, SoundOutput
    <3> QED
      BY <2>9, <3>1
  <2>5. Sound(r, n, 0) /\ NoOutput(r, left)
    <3>1. Sound(Append(v, x), n, 0) /\ NoOutput(Append(v, x), left)
      BY <1>1, <1>16, <2>2, <2>10, SoundOutput
    <3> QED
      BY <2>9, <3>1
  <2> HIDE DEF s, r
  <2>6. Told
    BY <1>2, <1>16, <2>1, <2>3, <2>4, <2>5
  <2>7. \A d \in left : d.of \in 1 .. m
    BY <1>2, <1>16, <2>1
  <2> QED
    BY <1>a, <1>16, <2>3, <2>4, <2>5, <2>6, <2>7 DEF ItemInv
<1>17. ASSUME Answering
       PROVE  ItemInv'
  <2> DEFINE left == spawned \cup ToSet(Tail(pending))
             c == Call
  <2>1. /\ pending # << >> /\ Output(c) /\ pending' = Tail(pending) /\ spawned' = spawned
        /\ phase # "stream" /\ conversation' = conversation /\ m = n /\ p = o
    BY <1>a, <1>17 DEF Answering, AnswerDuplicate, Refuse, Reject, FinishTool, CallInv, providerVars,
                 endpointVars, streamVars
  <2>2. Waiting' = left
    BY <2>1 DEF Waiting
  <2>3. c \in Waiting /\ c \in CallEvents /\ left \subseteq Waiting /\ \A d \in left : d.n # c.n
    BY <2>1, AnsweredFacts
  <2> HIDE DEF left, c
  <2> QED
    BY <1>16, <2>1, <2>2, <2>3
<1>18. ASSUME FinishChild
       PROVE  ItemInv'
  <2>1. PICK c \in spawned : Output(c) /\ spawned' = spawned \ {c}
    BY <1>18 DEF FinishChild
  <2> DEFINE left == spawned \ {c}
  <2>2. /\ pending = << >> /\ pending' = pending
        /\ phase # "stream" /\ conversation' = conversation /\ m = n /\ p = o
    BY <1>a, <1>18 DEF FinishChild, providerVars, endpointVars, streamVars
  <2>3. Waiting' = left
    <3>1. ToSet(pending') = {}
      <4>1. DOMAIN << >> = {}
        OBVIOUS
      <4> QED
        BY <2>2, <4>1 DEF ToSet
    <3> QED
      BY <2>1, <3>1 DEF Waiting
  <2>4. c \in Waiting /\ c \in CallEvents /\ left \subseteq Waiting /\ \A d \in left : d.n # c.n
    BY <2>2, AnsweredFacts
  <2> HIDE DEF left
  <2> QED
    BY <1>16, <2>1, <2>2, <2>3, <2>4
<1>19. ASSUME StartTool
       PROVE  ItemInv'
  <2>1. /\ pending # << >> /\ UNCHANGED <<conversation, items, rows, server, current>>
        /\ \/ spawned' = spawned \cup {Call} /\ pending' = Tail(pending)
           \/ UNCHANGED <<spawned, pending>>
    BY <1>19 DEF StartTool, CallInv, providerVars, endpointVars, streamVars, sessionVars
  <2>2. CASE spawned' = spawned \cup {Call} /\ pending' = Tail(pending)
    <3> DEFINE f == pending[1]
               t == Tail(pending)
    <3>1. /\ f \in ToSet(pending) /\ Head(pending) = f /\ ToSet(t) \subseteq ToSet(pending)
      BY <1>3, <2>1, FirstCall DEF CallInv
    <3>2. spawned' = spawned \cup {f} /\ pending' = t
      BY <2>2, <3>1 DEF Call
    <3> HIDE DEF f, t
    <3>3. Waiting' \subseteq Waiting
      BY <3>1, <3>2 DEF Waiting
    <3>4. NoOutput(items, Waiting') /\ NoOutput(rows, Waiting') /\ \A c \in Waiting' : c.of \in 1 .. n
      BY <1>2, <3>3 DEF NoOutput
    <3> HIDE DEF Waiting
    <3> QED
      BY <1>a, <1>2, <2>1, <3>4 DEF ItemInv
  <2>3. CASE UNCHANGED <<spawned, pending>>
    BY <1>10, <2>1, <2>3
  <2> QED
    BY <2>1, <2>2, <2>3
<1>20. SendRequest \/ ReplayInstead \/ Consider \/ Approve \/ NextRound => ItemInv'
  <2>1. SendRequest \/ ReplayInstead \/ Consider \/ Approve \/ NextRound =>
          UNCHANGED <<conversation, items, rows, pending, spawned>>
    BY DEF SendRequest, ReplayInstead, ReplayNext, Consider, Approve, NextRound, sessionVars,
           roundVars
  <2> QED
    BY <1>10, <2>1
<1>21. UNCHANGED vars \/ SwitchMode \/ ProviderStep => ItemInv'
  <2>1. UNCHANGED vars \/ SwitchMode \/ ProviderStep =>
          UNCHANGED <<conversation, items, rows, pending, spawned>>
    BY DEF vars, SwitchMode, ProviderStep, runVars, roundVars, sessionVars
  <2> QED
    BY <1>10, <2>1
<1>22. ASSUME FinishShell
       PROVE  ItemInv'
  <2> DEFINE x == Item("shell", run, 0, "none")
  <2>1. /\ conversation' = Append(conversation, x) /\ rows' = Append(rows, x)
        /\ UNCHANGED <<items, pending, spawned>>
    BY <1>22 DEF FinishShell, runVars, roundVars
  <2>2. x \in Items /\ ~ OfResponse(x)
    BY <1>4 DEF Item, Items, Kinds, Nothing, OfResponse
  <2> HIDE DEF x
  <2>3. /\ Sound(Append(conversation, x), n, o) /\ Sound(Append(rows, x), n, o)
        /\ NoOutput(Append(rows, x), Waiting)
    <3>1. PICK c, r : c = conversation /\ r = rows
      OBVIOUS
    <3>2. Sound(Append(c, x), n, o)
      BY <1>2, <2>2, <3>1, SoundOne
    <3>3. Sound(Append(r, x), n, o) /\ NoOutput(Append(r, x), Waiting)
      BY <1>2, <2>2, <3>1, SoundOne
    <3> QED
      BY <3>1, <3>2, <3>3
  <2>4. Told
    <3>1. Later(Append(conversation, x)) /\ Later(Append(rows, x)) /\ Later(items)
      BY <1>2, <1>6, <2>3
    <3> QED
      BY <2>1, <3>1
  <2>5. NoOutput(items', Waiting') /\ NoOutput(rows', Waiting') /\ Waiting' = Waiting
    BY <1>2, <2>1, <2>3 DEF Waiting
  <2>6. \A c \in Waiting : c.of \in 1 .. m
    <3>1. \A k \in 1 .. n : k \in 1 .. m
      BY <1>1
    <3> HIDE DEF Waiting
    <3> QED
      BY <1>2, <3>1
  <2> HIDE DEF Waiting
  <2> QED
    BY <1>a, <2>4, <2>5, <2>6 DEF ItemInv
<1> QED
  BY <1>11, <1>12, <1>13, <1>14, <1>15, <1>17, <1>18, <1>19, <1>20, <1>21, <1>22, Zenon
     DEF Next, RunnerStep, UserAnswers, Finishing, Answering

-----------------------------------------------------------------------------
(* What a run adds to its items it adds to the rows *)

LEMMA NoneLeft ==
  ASSUME NEW x \in Items
  PROVE  Without(<<x>>, x.k) = << >>
<1> DEFINE s == <<x>>
           P == {j \in DOMAIN s : s[j].k # x.k}
<1>1. s \in Seq(Items) /\ Len(s) = 1 /\ Len(s) \in Nat /\ 1 \notin P
  OBVIOUS
<1> DEFINE k == Kept(s, P)
<1> HIDE DEF s, P
<1>2. PICK f : Collects(f, s, P) /\ k = f[Len(s)]
  BY <1>1, KeptCollects
<1>3. f[0] = << >> /\ f[1] = f[1 - 1]
  BY <1>1, <1>2 DEF Collects
<1>4. k = << >>
  BY <1>1, <1>2, <1>3
<1> QED
  BY <1>4 DEF Without, s, P

LEMMA NothingLeft ==
  ASSUME NEW kind
  PROVE  Without(<< >>, kind) = << >>
<1> DEFINE e == << >>
<1>1. e \in Seq(Items) /\ Len(e) = 0
  OBVIOUS
<1> HIDE DEF e
<1>2. \A i \in 1 .. Len(e) : e[i].k # kind
  BY <1>1
<1>3. Without(e, kind) = e
  BY <1>1, <1>2, WithoutAll
<1> QED
  BY <1>3 DEF e

\* What is both an item and a row.
LEMMA BothAlike ==
  ASSUME NEW s \in Seq(Items), \A i \in 1 .. Len(s) : s[i].k \notin {"reasoning", "shell"}
  PROVE  SameRows(s, s)
<1>1. Without(s, "reasoning") = s
  BY WithoutAll
<1>2. Without(s, "shell") = s
  BY WithoutAll
<1> QED
  BY <1>1, <1>2 DEF SameRows

\* What is only the one or the other.
LEMMA OneAlone ==
  ASSUME NEW x \in Items
  PROVE  /\ x.k = "reasoning" => SameRows(<<x>>, << >>)
         /\ x.k = "shell" => SameRows(<< >>, <<x>>)
<1>1. Without(<<x>>, x.k) = << >>
  BY NoneLeft
<1>2. Without(<< >>, "reasoning") = << >> /\ Without(<< >>, "shell") = << >>
  BY NothingLeft
<1> QED
  BY <1>1, <1>2 DEF SameRows

LEMMA StoredGrows ==
  ASSUME NEW s \in Seq(Items), NEW t \in Seq(Items), NEW m \in 0 .. Len(s),
         NEW n \in 0 .. Len(t), SameRows(From(s, m), From(t, n)),
         NEW a \in Seq(Items), NEW b \in Seq(Items), SameRows(a, b)
  PROVE  /\ SameRows(From(s \o a, m), From(t \o b, n))
         /\ m <= Len(s \o a) /\ n <= Len(t \o b)
<1> DEFINE f == From(s, m)
           g == From(t, n)
           c == s \o a
           d == t \o b
<1>1. f \in Seq(Items) /\ g \in Seq(Items)
  <2>1. f \in Seq(Items)
    BY PartFacts
  <2>2. g \in Seq(Items)
    BY PartFacts
  <2> QED
    BY <2>1, <2>2
<1>2. /\ Len(c) = Len(s) + Len(a) /\ Len(d) = Len(t) + Len(b)
      /\ Len(s) \in Nat /\ Len(a) \in Nat /\ Len(t) \in Nat /\ Len(b) \in Nat
  BY ConcatFacts
<1>3. From(c, m) = f \o a /\ From(d, n) = g \o b
  BY FromConcat
<1>4. SameRows(f, g)
  OBVIOUS
<1> HIDE DEF f, g
<1>5. Without(Joined(f, a), "reasoning") = Joined(Without(f, "reasoning"), Without(a, "reasoning"))
  BY <1>1, WithoutConcat
<1>8. Without(Joined(g, b), "shell") = Joined(Without(g, "shell"), Without(b, "shell"))
  BY <1>1, WithoutConcat
<1>6. SameRows(From(c, m), From(d, n))
  <2>1. Without(Joined(f, a), "reasoning") = Without(Joined(g, b), "shell")
    BY <1>4, <1>5, <1>8, Zenon DEF SameRows
  <2> QED
    BY <1>3, <2>1, Zenon DEF SameRows, Joined
<1> HIDE DEF c, d
<1>7. m <= Len(c) /\ n <= Len(d)
  BY <1>2
<1> QED
  BY <1>6, <1>7 DEF c, d

\* Nothing has been added.
LEMMA StoredNothing ==
  ASSUME NEW s \in Seq(Items), NEW t \in Seq(Items)
  PROVE  /\ SameRows(From(s, Len(s)), From(t, Len(t)))
         /\ Len(s) \in Nat /\ Len(t) \in Nat
<1>1. ASSUME NEW q \in Seq(Items)
      PROVE  From(q, Len(q)) = << >> /\ Len(q) \in Nat
  <2>1. Len(q) \in Nat /\ Len(q) \in 0 .. Len(q) /\ Len(q) - Len(q) = 0
    BY <1>1, LenProperties
  <2> DEFINE f == From(q, Len(q))
  <2>2. f \in Seq(Items) /\ Len(f) = Len(q) - Len(q)
    BY <1>1, <2>1, FromFacts
  <2> HIDE DEF f
  <2>3. f = << >>
    BY <2>1, <2>2, EmptySeq
  <2> QED
    BY <2>1, <2>3 DEF f
<1>2. SameRows(<< >>, << >>)
  BY NothingLeft DEF SameRows
<1> QED
  BY <1>1, <1>2, Zenon

IsBase(b) ==
  /\ b.items \in Nat /\ b.rows \in Nat /\ b.rewritten \in BOOLEAN
  /\ b = [f \in {"items", "rows", "rewritten"} |-> b[f]]

LEMMA BaseEdited ==
  ASSUME NEW b, IsBase(b), NEW q \in BOOLEAN, NEW c, c = [b EXCEPT !.rewritten = q]
  PROVE  IsBase(c) /\ c.rewritten = q
<1>1. b = [f \in {"items", "rows", "rewritten"} |-> b[f]]
  BY DEF IsBase
<1>2. /\ c.items = b.items /\ c.rows = b.rows /\ c.rewritten = q
      /\ c = [f \in {"items", "rows", "rewritten"} |-> c[f]]
  BY <1>1
<1> QED
  BY <1>2 DEF IsBase

LEMMA BaseMade ==
  ASSUME NEW m \in Nat, NEW n \in Nat, NEW q \in BOOLEAN, NEW c,
         c = [items |-> m, rows |-> n, rewritten |-> q]
  PROVE  IsBase(c) /\ c.items = m /\ c.rows = n /\ c.rewritten = q
<1>1. c.items = m /\ c.rows = n /\ c.rewritten = q
  OBVIOUS
<1>2. c = [f \in {"items", "rows", "rewritten"} |-> c[f]]
  OBVIOUS
<1> QED
  BY <1>1, <1>2 DEF IsBase

LEMMA StoredStep ==
  ASSUME ClientInv, ServerInv, EventInv, NumberInv, CallInv, ItemInv, StoredInv, RestInv,
         [Next]_vars
  PROVE  StoredInv'
<1> DEFINE Rows(s, t, b) == /\ b.items <= Len(s) /\ b.rows <= Len(t)
                            /\ SameRows(From(s, b.items), From(t, b.rows))
<1>1. /\ IsBase(base)
      /\ phase # "idle" /\ ~ base.rewritten => Rows(items, rows, base)
  BY DEF StoredInv, IsBase
<1>2. items \in Seq(Items) /\ rows \in Seq(Items) /\ conversation \in Seq(Items)
  BY DEF ItemInv, Sound
<1>3. IsAnswer(collector) /\ current \in Nat /\ run \in Nat
  <2>1. current \in 0 .. Len(server) /\ Len(server) \in Nat
    BY StreamMoves
  <2> QED
    BY <2>1, ProviderAssumption DEF EventInv, ClientInv, RestInv
<1>4. ASSUME IsBase(base'), phase' = "idle" \/ base'.rewritten = TRUE
      PROVE  StoredInv'
  BY <1>4 DEF StoredInv, IsBase
<1>5. ASSUME base' = base, NEW a \in Seq(Items), NEW b \in Seq(Items), SameRows(a, b),
             items' = items \o a, rows' = rows \o b, phase # "idle"
      PROVE  StoredInv'
  <2>1. PICK s, t, m, n : s = items /\ t = rows /\ m = base.items /\ n = base.rows
    OBVIOUS
  <2>2. s \in Seq(Items) /\ t \in Seq(Items)
    BY <1>2, <2>1
  <2>3. ASSUME ~ base.rewritten
        PROVE  Rows(s \o a, t \o b, base)
    <3>1. /\ m <= Len(s) /\ n <= Len(t) /\ SameRows(From(s, m), From(t, n))
          /\ m \in Nat /\ n \in Nat
      BY <1>1, <1>5, <2>1, <2>3 DEF IsBase
    <3>2. m \in 0 .. Len(s) /\ n \in 0 .. Len(t)
      BY <2>2, <3>1, LenProperties
    <3>3. /\ SameRows(From(s \o a, m), From(t \o b, n))
          /\ m <= Len(s \o a) /\ n <= Len(t \o b)
      BY <1>5, <2>2, <3>1, <3>2, StoredGrows
    <3> QED
      BY <2>1, <3>3
  <2>4. PICK u, v, c : u = items' /\ v = rows' /\ c = base
    OBVIOUS
  <2>5. u = s \o a /\ v = t \o b
    BY <1>5, <2>1, <2>4
  <2>6. ~ c.rewritten => Rows(u, v, c)
    BY <2>3, <2>4, <2>5, Zenon
  <2>7. IsBase(c) /\ items' = u /\ rows' = v /\ base' = c
    BY <1>1, <1>5, <2>4
  <2> QED
    BY <2>6, <2>7 DEF StoredInv, IsBase
<1>6. ASSUME UNCHANGED <<base, items, rows>>, phase # "idle" \/ phase' = "idle"
      PROVE  StoredInv'
  BY <1>1, <1>6 DEF StoredInv, IsBase
<1>7. ASSUME Finishing
      PROVE  StoredInv'
  <2>1. phase' = "idle"
    BY <1>7 DEF Finishing, Cancel, Crash, ConsumeTooMuch, GiveUp, Malformed, Complete,
                LoseApproval, FailRun, Finish
  <2>2. CASE Crash
    <3>1. PICK q \in BOOLEAN : q = TRUE
      OBVIOUS
    <3>2. base' = [base EXCEPT !.rewritten = q]
      BY <2>2, <3>1, Zenon DEF Crash
    <3>3. PICK b, c : b = base /\ c = base'
      OBVIOUS
    <3>4. IsBase(c)
      BY <1>1, <3>2, <3>3, BaseEdited
    <3>5. IsBase(base')
      BY <3>3, <3>4
    <3> QED
      BY <1>4, <2>1, <3>5
  <2>3. CASE ~ Crash
    <3>1. base' = base
      BY <1>7, <2>3 DEF Finishing, Cancel, ConsumeTooMuch, GiveUp, Malformed, Complete,
                        LoseApproval, FailRun, historyVars
    <3>2. IsBase(base')
      BY <1>1, <3>1
    <3> QED
      BY <1>4, <2>1, <3>2
  <2> QED
    BY <2>2, <2>3
<1>8. ASSUME Submit
      PROVE  StoredInv'
  <2>1. base' = [items |-> Len(items'), rows |-> Len(rows'), rewritten |-> FALSE]
    BY <1>8 DEF Submit
  <2>2. PICK s, t, c, q : s = items' /\ t = rows' /\ c = base' /\ q = FALSE
    OBVIOUS
  <2>3. s \in Seq(Items) /\ t \in Seq(Items)
    <3>1. ItemInv'
      BY ItemStep
    <3> QED
      BY <2>2, <3>1 DEF ItemInv, Sound
  <2>4. /\ SameRows(From(s, Len(s)), From(t, Len(t)))
        /\ Len(s) \in Nat /\ Len(t) \in Nat
    BY <2>3, StoredNothing
  <2>5. PICK m, n : m = Len(s) /\ n = Len(t)
    OBVIOUS
  <2>6. c = [items |-> m, rows |-> n, rewritten |-> q]
    BY <2>1, <2>2, <2>5, Zenon
  <2>7. m \in Nat /\ n \in Nat /\ q \in BOOLEAN
    BY <2>2, <2>4, <2>5
  <2> HIDE <2>1
  <2>8. IsBase(c) /\ c.items = m /\ c.rows = n
    BY <2>6, <2>7, BaseMade
  <2>9. Rows(s, t, c)
    BY <2>4, <2>5, <2>7, <2>8
  <2>10. base' = c /\ items' = s /\ rows' = t
    BY <2>2
  <2> QED
    BY <2>8, <2>9, <2>10 DEF StoredInv, IsBase
<1>9. ASSUME Begin \/ RecoverOverflow
      PROVE  StoredInv'
  <2>1. CASE \E id : Shrink(id)
    <3>1. PICK q \in BOOLEAN : q = TRUE
      OBVIOUS
    <3>2. base' = [base EXCEPT !.rewritten = q]
      BY <2>1, <3>1, Zenon DEF Shrink
    <3>3. PICK b, c : b = base /\ c = base'
      OBVIOUS
    <3>4. IsBase(c) /\ c.rewritten = q
      BY <1>1, <3>2, <3>3, BaseEdited
    <3>5. IsBase(base') /\ base'.rewritten = TRUE
      BY <3>1, <3>3, <3>4
    <3> QED
      BY <1>4, <3>5
  <2>2. CASE UNCHANGED <<items, rows, base>> /\ phase # "idle"
    BY <1>6, <2>2
  <2>3. CASE Begin
    BY <2>1, <2>2, <2>3 DEF Begin
  <2>4. CASE RecoverOverflow
    BY <2>1, <2>4 DEF RecoverOverflow
  <2> QED
    BY <1>9, <2>3, <2>4
\* One item is added, or is not.
<1>10. ASSUME base' = base, NEW x \in Items, phase # "idle",
              items' = Append(items, x),
              \/ x.k \notin {"reasoning", "shell"} /\ rows' = Append(rows, x)
              \/ x.k = "reasoning" /\ rows' = rows
       PROVE  StoredInv'
  <2> DEFINE one == <<x>>
             e == << >>
  <2>1. one \in Seq(Items) /\ e \in Seq(Items) /\ Len(one) = 1 /\ one[1] = x
    OBVIOUS
  <2>2. Append(items, x) = items \o one /\ Append(rows, x) = rows \o one /\ rows = rows \o e
    BY <1>2, AppendIsConcat, ConcatEmptySeq
  <2>3. x.k = "reasoning" => SameRows(one, e)
    BY OneAlone
  <2> HIDE DEF one, e
  <2>4. CASE x.k \notin {"reasoning", "shell"} /\ rows' = Append(rows, x)
    <3>1. items' = items \o one /\ rows' = rows \o one
      BY <1>10, <2>2, <2>4
    <3>2. \A i \in 1 .. Len(one) : one[i].k \notin {"reasoning", "shell"}
      BY <2>1, <2>4
    <3>3. SameRows(one, one)
      BY <2>1, <3>2, BothAlike
    <3> QED
      BY <1>5, <1>10, <2>1, <3>1, <3>3
  <2>5. CASE x.k = "reasoning" /\ rows' = rows
    <3>1. items' = items \o one /\ rows' = rows \o e
      BY <1>10, <2>2, <2>5
    <3> QED
      BY <1>5, <1>10, <2>1, <2>3, <2>5, <3>1
  <2> QED
    BY <1>10, <2>4, <2>5
<1>11. ASSUME Consume
       PROVE  StoredInv'
  <2> DEFINE e == Head(chan)
             x == Item(e.type, e.of, 0, "none")
  <2>1. /\ phase = "stream" /\ base' = base /\ chan # << >>
        /\ items' = IF e.type \in {"search", "reasoning"} THEN Append(items, x) ELSE items
        /\ rows' = IF e.type = "search" THEN Append(rows, x) ELSE rows
    BY <1>11 DEF Consume, historyVars
  <2>2. e \in Events
    BY <2>1, TailFacts DEF EventInv
  <2>3. x.k = e.type /\ (e.type \in {"search", "reasoning"} => x \in Items)
    BY <2>2 DEF Events, Item, Items, Kinds, Nothing
  <2> HIDE DEF x, e
  <2>4. CASE e.type \in {"search", "reasoning"}
    BY <1>10, <2>1, <2>3, <2>4
  <2>5. CASE e.type \notin {"search", "reasoning"}
    BY <1>6, <2>1, <2>5
  <2> QED
    BY <2>4, <2>5
<1>12. ASSUME AcceptCalls
       PROVE  StoredInv'
  <2>1. PICK next \in FinishedCalls :
          items' = items \o AddedBy(next) /\ rows' = rows \o AddedBy(next)
    BY <1>12, Zenon DEF AcceptCalls, AddedBy
  <2>2. /\ next \in Seq(CallEvents) /\ ToldApart(next, {})
        /\ \A j \in DOMAIN next : next[j].of = current
    BY <2>1, FinishedFacts
  <2> DEFINE a == AddedBy(next)
  <2>3. a \in Seq(Items) /\ OfAnswer(a, current)
    BY <1>3, <2>2, AddedFacts
  <2>4. phase # "idle" /\ base' = base
    BY <1>12 DEF AcceptCalls, Drained, historyVars
  <2> HIDE DEF a
  <2>5. SameRows(a, a)
    <3>1. DOMAIN a = 1 .. Len(a)
      BY <2>3, LenProperties
    <3>2. \A i \in 1 .. Len(a) : a[i].k \notin {"reasoning", "shell"}
      BY <2>3, <3>1 DEF OfAnswer
    <3> QED
      BY <2>3, <3>2, BothAlike
  <2>6. items' = items \o a /\ rows' = rows \o a
    BY <2>1 DEF a
  <2> QED
    BY <1>5, <2>3, <2>4, <2>5, <2>6
<1>13. ASSUME NEW c \in CallEvents, Output(c), base' = base, phase # "idle"
       PROVE  StoredInv'
  <2> DEFINE x == Item("output", c.of, c.n, c.tool)
  <2>1. x \in Items /\ x.k = "output"
    BY DEF Item, Items, Kinds, CallEvents, Nothing
  <2>2. items' = Append(items, x) /\ rows' = Append(rows, x)
    BY <1>13, Zenon DEF Output
  <2> HIDE DEF x
  <2> QED
    BY <1>10, <1>13, <2>1, <2>2
<1>14. ASSUME Answering
       PROVE  StoredInv'
  <2>1. /\ pending # << >> /\ Output(Call) /\ base' = base /\ phase # "idle"
    BY <1>14 DEF Answering, AnswerDuplicate, Refuse, Reject, FinishTool, CallInv, historyVars
  <2>2. Call \in CallEvents
    BY <2>1, AnsweredFacts
  <2> QED
    BY <1>13, <2>1, <2>2
<1>15. ASSUME FinishChild
       PROVE  StoredInv'
  <2>1. PICK c \in spawned : Output(c)
    BY <1>15 DEF FinishChild
  <2>2. phase # "idle" /\ base' = base /\ c \in CallEvents
    BY <1>15 DEF FinishChild, CallInv, historyVars
  <2> QED
    BY <1>13, <2>1, <2>2
<1>16. StartTool \/ SendRequest \/ ReplayInstead \/ Consider \/ Approve \/ NextRound => StoredInv'
  <2>1. StartTool \/ SendRequest \/ ReplayInstead \/ Consider \/ Approve \/ NextRound =>
          UNCHANGED <<base, items, rows>> /\ phase # "idle"
    BY DEF StartTool, SendRequest, ReplayInstead, ReplayNext, Drained, Consider, Approve,
           NextRound, sessionVars, historyVars
  <2> QED
    BY <1>6, <2>1
<1>17. UNCHANGED vars \/ SwitchMode \/ ProviderStep => StoredInv'
  <2>1. UNCHANGED vars \/ SwitchMode \/ ProviderStep =>
          UNCHANGED <<base, items, rows, phase>>
    BY DEF vars, SwitchMode, ProviderStep, runVars, sessionVars, historyVars
  <2> QED
    BY <1>6, <2>1
<1>18. ASSUME FinishShell
       PROVE  StoredInv'
  <2> DEFINE x == Item("shell", run, 0, "none")
  <2>1. /\ x \in Items /\ x.k = "shell"
        /\ rows' = Append(rows, x) /\ items' = items /\ base' = base /\ phase' = phase
    BY <1>3, <1>18 DEF FinishShell, Item, Items, Kinds, Nothing, runVars, historyVars
  <2> DEFINE one == <<x>>
             e == << >>
  <2> HIDE DEF x
  <2>2. one \in Seq(Items) /\ e \in Seq(Items)
    BY <2>1
  <2>3. Append(rows, x) = rows \o one /\ items = items \o e
    BY <1>2, <2>1, AppendIsConcat, ConcatEmptySeq
  <2>4. SameRows(e, one)
    BY <2>1, OneAlone
  <2> HIDE DEF one, e
  <2>5. items' = items \o e /\ rows' = rows \o one
    BY <2>1, <2>3
  <2>6. CASE phase # "idle"
    BY <1>5, <2>1, <2>2, <2>4, <2>5, <2>6
  <2>7. CASE phase = "idle"
    <3>1. phase' = "idle" /\ IsBase(base')
      BY <1>1, <2>1, <2>7
    <3> QED
      BY <1>4, <3>1
  <2> QED
    BY <2>6, <2>7
<1> QED
  BY <1>7, <1>8, <1>9, <1>11, <1>12, <1>14, <1>15, <1>16, <1>17, <1>18, Zenon
     DEF Next, RunnerStep, UserAnswers, Finishing, Answering

-----------------------------------------------------------------------------
(* Response ids, counters and settings *)

\* What names a response names one the endpoint knows.
Known == {storedId, partial, prev} \cup displayed \subseteq 0 .. Len(server)

\* A response, or none, is on screen or was said to be.
LEMMA ShownFacts ==
  ASSUME NEW S, current \in S, displayed \subseteq S, NEW text
  PROVE  /\ Shown(text) \subseteq S
         /\ Interrupted(Shown(text)) => displayed' \subseteq S
         /\ Interrupted(displayed) => displayed' \subseteq S
         /\ SaveShown(Shown(text)) =>
              (partial' \in S \/ partial' = partial) /\ storedId' \in {0, storedId}
BY DEF Shown, Interrupted, SaveShown

LEMMA TextsKnown ==
  ASSUME NEW s, NEW n \in Nat, NEW o, Sound(s, n, o)
  PROVE  EntriesOf(s) \subseteq 0 .. n
<1>1. \A x \in ToSet(s) : x.k = "text" => x.of \in 1 .. n
  BY DEF Sound, KnownTo, OfResponse, ToSet
<1> QED
  BY <1>1 DEF EntriesOf

LEMMA IdStep ==
  ASSUME ClientInv, ServerInv, EventInv, NumberInv, CallInv, ItemInv, RestInv, [Next]_vars
  PROVE  Known'
<1>a. PICK n, m : n = Len(server) /\ m = Len(server')
  OBVIOUS
<1>1. n \in Nat /\ m \in Nat /\ n <= m /\ current \in 0 .. n
  BY <1>a, StreamMoves
<1>2. /\ storedId \in 0 .. n /\ partial \in 0 .. n /\ displayed \subseteq 0 .. n /\ prev \in 0 .. n
      /\ 0 \in 0 .. n
  BY <1>a, <1>1 DEF RestInv
<1>3. 0 .. n \subseteq 0 .. m
  BY <1>1
<1>4. ASSUME /\ storedId' \in 0 .. n /\ partial' \in 0 .. n
             /\ displayed' \subseteq 0 .. n /\ prev' \in 0 .. n
      PROVE  Known'
  BY <1>a, <1>3, <1>4 DEF Known
<1>5. ASSUME Cancel
      PROVE  Known'
  <2>1. PICK seen : SaveShown(Shown(seen)) /\ Interrupted(Shown(seen))
    BY <1>5 DEF Cancel
  <2>2. prev' = 0
    BY <1>5 DEF Cancel, Finish
  <2> QED
    BY <1>1, <1>2, <1>4, <2>1, <2>2, ShownFacts
<1>6. ASSUME Crash
      PROVE  Known'
  <2>1. displayed' = EntriesOf(rows) /\ prev' = 0 /\ storedId' = storedId /\ partial' = partial
    BY <1>6 DEF Crash, Finish
  <2>2. EntriesOf(rows) \subseteq 0 .. n
    BY <1>a, <1>1, TextsKnown DEF ItemInv
  <2> QED
    BY <1>2, <1>4, <2>1, <2>2
<1>7. ASSUME ConsumeTooMuch \/ GiveUp \/ Malformed \/ LoseApproval
      PROVE  Known'
  <2>1. /\ prev' = 0 /\ partial' \in {partial, 0, current} /\ storedId' \in {storedId, 0}
        /\ Interrupted(displayed) \/ \E text : Interrupted(Shown(text))
    BY <1>7 DEF ConsumeTooMuch, GiveUp, Malformed, LoseApproval, FailRun, Finish, SavePartial
  <2>2. displayed' \subseteq 0 .. n
    BY <1>1, <1>2, <2>1, ShownFacts
  <2> QED
    BY <1>1, <1>2, <1>4, <2>1, <2>2
<1>7a. ASSUME Complete
       PROVE  Known'
  <2>1. /\ prev' = 0 /\ partial' \in {partial, 0} /\ storedId' \in {storedId, 0}
        /\ displayed' = EntriesOf(conversation') \/ displayed' = Shown(collector.text)
    BY <1>7a DEF Complete, Finish
  <2>2. CASE displayed' = Shown(collector.text)
    BY <1>1, <1>2, <1>4, <2>1, <2>2, ShownFacts
  <2>3. CASE displayed' = EntriesOf(conversation')
    <3>1. ItemInv'
      BY ItemStep
    <3>2. PICK c : c = conversation'
      OBVIOUS
    <3>3. Sound(c, m, current')
      BY <1>a, <3>1, <3>2 DEF ItemInv
    <3>4. EntriesOf(c) \subseteq 0 .. m
      BY <1>1, <3>3, TextsKnown
    <3>5. displayed' \subseteq 0 .. m
      BY <2>3, <3>2, <3>4
    <3> QED
      BY <1>a, <1>2, <1>3, <2>1, <3>5 DEF Known
  <2> QED
    BY <2>1, <2>2, <2>3
<1>8. ASSUME Submit \/ SwitchMode \/ SendRequest \/ ReplayInstead \/ AcceptCalls
      PROVE  Known'
  <2>1. /\ prev' \in {prev, 0} /\ displayed' \in {displayed, displayed \cup {current}}
        /\ partial' \in {partial, 0} /\ storedId' \in {storedId, 0}
    BY <1>8 DEF Submit, SwitchMode, SendRequest, ReplayInstead, ReplayNext, Forget,
                AcceptCalls, Shown, sessionVars, runVars
  <2> QED
    BY <1>1, <1>2, <1>4, <2>1
<1>9. ASSUME Begin \/ RecoverOverflow
      PROVE  Known'
  <2>1. /\ storedId' \in {storedId, 0} /\ prev' \in {storedId', 0}
        /\ displayed' = displayed /\ partial' = partial
    BY <1>9 DEF Begin, RecoverOverflow, Shrink, ReplayNext, Forget
  <2> QED
    BY <1>2, <1>4, <2>1
<1>10. ASSUME Consume
       PROVE  Known'
  <2> DEFINE e == Head(chan)
  <2>1. /\ chan # << >> /\ displayed' = displayed /\ partial' = partial
        /\ \/ e.type = "id" /\ prev' = e.of /\ storedId' = e.of
           \/ UNCHANGED <<prev, storedId>>
    BY <1>10 DEF Consume
  <2>2. e.type = "id" => e.of = current
    <3>1. e = chan[1] /\ 1 \in DOMAIN chan
      BY <2>1, TailFacts DEF EventInv
    <3> HIDE DEF e
    <3> QED
      BY <3>1 DEF EventInv, Belong
  <2> HIDE DEF e
  <2> QED
    BY <1>1, <1>2, <1>4, <2>1, <2>2
<1>11. ASSUME \/ UNCHANGED vars \/ ProviderStep \/ FinishShell \/ AnswerDuplicate \/ Refuse \/ Consider
              \/ Approve \/ Reject \/ StartTool \/ FinishTool \/ FinishChild \/ NextRound
       PROVE  Known'
  <2>1. UNCHANGED <<storedId, partial, displayed, prev>>
    BY <1>11 DEF vars, ProviderStep, FinishShell, AnswerDuplicate, Refuse, Consider, Approve, Reject,
                 StartTool, FinishTool, FinishChild, NextRound, sessionVars, runVars
  <2> QED
    BY <1>2, <1>4, <2>1
<1> QED
  BY <1>5, <1>6, <1>7, <1>7a, <1>8, <1>9, <1>10, <1>11, Zenon DEF Next, RunnerStep, UserAnswers

LEMMA ProfileKept ==
  ASSUME ClientInv, [Next]_vars
  PROVE  profile' = profile
<1>1. ProviderStep => profile' = profile
  BY ProviderSteps DEF ClientInv
<1> QED
  BY <1>1, StreamSteps DEF Quiet, Closing, Opening, Consume

Counted(r, state, retried, m, always, dead) ==
  /\ r \in 0 .. profile.runs /\ (state # "idle" => r # 0)
  /\ retried \in 0 .. MaxOverflowRetries
  /\ m \in {"build", "plan"} /\ always \subseteq Tools /\ dead \subseteq 1 .. r

LEMMA CountStep ==
  ASSUME ClientInv, CallInv, RestInv, [Next]_vars
  PROVE  Counted(run, phase, retries, mode, allowed, unanswered)'
<1>1. /\ run \in 0 .. profile.runs /\ (phase # "idle" => run # 0)
      /\ retries \in 0 .. MaxOverflowRetries
      /\ mode \in {"build", "plan"} /\ allowed \subseteq Tools /\ unanswered \subseteq 1 .. run
  BY DEF RestInv
<1>2. profile.runs \in Nat /\ MaxOverflowRetries \in Nat
  BY ProviderAssumption, AgentAssumption DEF ClientInv
<1>3. profile' = profile
  BY ProfileKept
<1>4. ASSUME Finishing
      PROVE  Counted(run, phase, retries, mode, allowed, unanswered)'
  <2>1. /\ run' = run /\ phase' = "idle" /\ retries' = 0 /\ mode' = mode
        /\ allowed' \in {allowed, {}}
        /\ unanswered' = unanswered \/ (phase # "idle" /\ unanswered' = unanswered \cup {run})
    BY <1>4 DEF Finishing, Cancel, Crash, ConsumeTooMuch, GiveUp, Malformed, Complete,
                LoseApproval, FailRun, Finish, NoAnswerCame, Drained, policyVars
  <2>2. phase # "idle" => run \in 1 .. run
    BY <1>1, <1>2
  <2>3. 0 \in 0 .. MaxOverflowRetries
    BY <1>2
  <2>4. unanswered' \subseteq 1 .. run
    <3>1. CASE unanswered' = unanswered
      BY <1>1, <3>1
    <3>2. CASE phase # "idle" /\ unanswered' = unanswered \cup {run}
      BY <1>1, <2>2, <3>2
    <3> QED
      BY <2>1, <3>1, <3>2
  <2> QED
    BY <1>1, <1>3, <2>1, <2>3, <2>4 DEF Counted
<1>5. ASSUME Submit
      PROVE  Counted(run, phase, retries, mode, allowed, unanswered)'
  <2>1. run < profile.runs /\ run' = run + 1 /\ UNCHANGED <<retries, mode, allowed, unanswered>>
    BY <1>5 DEF Submit, policyVars
  <2>2. run + 1 \in 0 .. profile.runs /\ run + 1 # 0 /\ 1 .. run \subseteq 1 .. run + 1
    BY <1>1, <1>2, <2>1
  <2> QED
    BY <1>1, <1>3, <2>1, <2>2 DEF Counted
<1>6. ASSUME SwitchMode
      PROVE  Counted(run, phase, retries, mode, allowed, unanswered)'
  <2>1. mode' \in {"build", "plan"} /\ UNCHANGED <<run, phase, retries, allowed, unanswered>>
    BY <1>6 DEF SwitchMode, runVars, historyVars
  <2> QED
    BY <1>1, <1>3, <2>1 DEF Counted
<1>7. ASSUME RecoverOverflow
      PROVE  Counted(run, phase, retries, mode, allowed, unanswered)'
  <2>1. /\ retries < MaxOverflowRetries /\ retries' = retries + 1 /\ phase # "idle"
        /\ UNCHANGED <<run, mode, allowed, unanswered>>
    BY <1>7 DEF RecoverOverflow, ReplayNext, Drained, policyVars
  <2>2. retries + 1 \in 0 .. MaxOverflowRetries
    BY <1>1, <1>2, <2>1
  <2> QED
    BY <1>1, <1>3, <2>1, <2>2 DEF Counted
<1>8. ASSUME Approve
      PROVE  Counted(run, phase, retries, mode, allowed, unanswered)'
  <2>1. /\ phase = "approval" /\ UNCHANGED <<run, retries, mode, unanswered>>
        /\ allowed' = allowed \/ allowed' = allowed \cup {Call.tool}
    BY <1>8 DEF Approve, historyVars
  <2>2. Call.tool \in Tools
    <3>1. pending # << >> /\ pending \in Seq(CallEvents)
      BY <2>1 DEF CallInv
    <3>2. Call \in CallEvents
      BY <3>1, TailFacts DEF Call
    <3> QED
      BY <3>2 DEF CallEvents
  <2> QED
    BY <1>1, <1>3, <2>1, <2>2 DEF Counted
<1>9. ASSUME UNCHANGED <<run, retries, mode, allowed, unanswered>>,
             phase # "idle" \/ phase' = phase
      PROVE  Counted(run, phase, retries, mode, allowed, unanswered)'
  BY <1>1, <1>3, <1>9, SMTT(40) DEF Counted
<1>10. Begin \/ SendRequest \/ Consume \/ ReplayInstead \/ AcceptCalls =>
         Counted(run, phase, retries, mode, allowed, unanswered)'
  <2>1. Begin \/ SendRequest \/ Consume \/ ReplayInstead \/ AcceptCalls =>
          UNCHANGED <<run, retries, mode, allowed, unanswered>> /\ phase # "idle"
    BY DEF Begin, SendRequest, Consume, ReplayInstead, ReplayNext, Drained, AcceptCalls,
           policyVars, historyVars
  <2> QED
    BY <1>9, <2>1
<1>11. ASSUME Answering \/ Consider \/ StartTool \/ FinishChild \/ NextRound
       PROVE  Counted(run, phase, retries, mode, allowed, unanswered)'
  <2>1. UNCHANGED <<run, retries, mode, allowed, unanswered>> /\ phase # "idle"
    BY <1>11 DEF Answering, AnswerDuplicate, Refuse, Consider, Reject, StartTool, FinishTool, FinishChild,
           NextRound, policyVars, historyVars
  <2> QED
    BY <1>9, <2>1
<1>12. UNCHANGED vars \/ FinishShell \/ ProviderStep =>
         Counted(run, phase, retries, mode, allowed, unanswered)'
  <2>1. UNCHANGED vars \/ FinishShell \/ ProviderStep =>
          UNCHANGED <<run, retries, mode, allowed, unanswered, phase>>
    BY DEF vars, FinishShell, ProviderStep, runVars, policyVars, historyVars
  <2> QED
    BY <1>9, <2>1
<1> QED
  BY <1>4, <1>5, <1>6, <1>7, <1>8, <1>10, <1>11, <1>12, Zenon
     DEF Next, RunnerStep, UserAnswers, Finishing, Answering


\* The items the response already has are items of the run.
LEMMA CursorStep ==
  ASSUME ClientInv, ServerInv, EventInv, NumberInv, CallInv, ItemInv, RestInv, [Next]_vars
  PROVE  cursor' \in 0 .. Len(items') /\ (phase' = "idle" => items' = << >>)
<1>a. PICK s, t, n, c : s = items /\ t = items' /\ n = Len(items) /\ c = cursor
  OBVIOUS
<1>1. /\ s \in Seq(Items) /\ n \in Nat /\ c \in 0 .. n /\ n = Len(s)
      /\ phase = "idle" => s = << >>
  BY <1>a, LenProperties DEF ItemInv, Sound, RestInv
<1>2. t \in Seq(Items) /\ Len(t) \in Nat
  <2>1. ItemInv'
    BY ItemStep
  <2>2. t \in Seq(Items)
    BY <1>a, <2>1 DEF ItemInv, Sound
  <2> QED
    BY <2>2, LenProperties
<1>3. ASSUME cursor' \in 0 .. Len(t), phase' # "idle"
      PROVE  cursor' \in 0 .. Len(items') /\ (phase' = "idle" => items' = << >>)
  BY <1>a, <1>3
<1>4. ASSUME cursor' = 0, phase' # "idle"
      PROVE  cursor' \in 0 .. Len(items') /\ (phase' = "idle" => items' = << >>)
  BY <1>2, <1>3, <1>4
<1>5. ASSUME cursor' = cursor, phase' # "idle", NEW x, items' = Append(items, x)
      PROVE  cursor' \in 0 .. Len(items') /\ (phase' = "idle" => items' = << >>)
  <2>1. t = Append(s, x)
    BY <1>a, <1>5
  <2> DEFINE u == Append(s, x)
  <2>2. Len(u) = n + 1
    BY <1>1, AppendProperties
  <2> HIDE DEF u
  <2>3. c \in 0 .. Len(t)
    BY <1>1, <2>1, <2>2 DEF u
  <2> QED
    BY <1>a, <1>3, <1>5, <2>3
<1>6. ASSUME cursor' = cursor, items' = items, phase' # "idle" \/ phase' = phase
      PROVE  cursor' \in 0 .. Len(items') /\ (phase' = "idle" => items' = << >>)
  BY <1>a, <1>1, <1>6
<1>7. ASSUME Finishing
      PROVE  cursor' \in 0 .. Len(items') /\ (phase' = "idle" => items' = << >>)
  <2>1. cursor' = 0 /\ items' = << >>
    BY <1>7 DEF Finishing, Cancel, Crash, ConsumeTooMuch, GiveUp, Malformed, Complete,
                LoseApproval, FailRun, Finish
  <2> QED
    BY <2>1
<1>8. ASSUME Submit
      PROVE  cursor' \in 0 .. Len(items') /\ (phase' = "idle" => items' = << >>)
  <2>1. phase = "idle" /\ cursor' = cursor /\ phase' = "begin"
    BY <1>8 DEF Submit
  <2>2. c = 0
    BY <1>1, <2>1
  <2> QED
    BY <1>a, <1>4, <2>1, <2>2
<1>9. ASSUME Begin
      PROVE  cursor' \in 0 .. Len(items') /\ (phase' = "idle" => items' = << >>)
  <2>1. (cursor' = 0 \/ cursor' = IncrementalCursor(t)) /\ phase' = "request"
    BY <1>a, <1>9 DEF Begin
  <2>2. IncrementalCursor(t) \in 0 .. Len(t)
    <3> DEFINE U == IsUser(t)
    <3>1. U \subseteq 1 .. Len(t)
      BY <1>2, LenProperties DEF IsUser
    <3>2. Minus(Len(t), 1) \in 0 .. Len(t)
      BY <1>2 DEF Minus
    <3>3. U # {} => Max(U) - 1 \in 0 .. Len(t)
      <4>1. ASSUME U # {}
            PROVE  Max(U) \in U
        <5> HIDE DEF U
        <5>1. U \subseteq 0 .. Len(t)
          BY <1>2, <3>1
        <5> QED
          BY <1>2, <4>1, <5>1, MaxFacts
      <4> DEFINE j == Max(U)
      <4>2. U # {} => j \in 1 .. Len(t)
        BY <3>1, <4>1
      <4> HIDE DEF j
      <4>3. U # {} => j - 1 \in 0 .. Len(t)
        BY <1>2, <4>2
      <4> QED
        BY <4>3 DEF j
    <3> QED
      BY <3>2, <3>3 DEF IncrementalCursor
  <2> QED
    BY <1>3, <1>4, <2>1, <2>2
<1>10. ASSUME RecoverOverflow \/ ReplayInstead
       PROVE  cursor' \in 0 .. Len(items') /\ (phase' = "idle" => items' = << >>)
  <2>1. cursor' = 0 /\ phase' # "idle"
    BY <1>10 DEF RecoverOverflow, ReplayInstead, ReplayNext, Forget
  <2> QED
    BY <1>4, <2>1
<1>11. ASSUME Consume
       PROVE  cursor' \in 0 .. Len(items') /\ (phase' = "idle" => items' = << >>)
  <2>1. /\ cursor' = cursor /\ phase' # "idle"
        /\ items' = items \/ \E x : items' = Append(items, x)
    BY <1>11 DEF Consume
  <2> QED
    BY <1>5, <1>6, <2>1
<1>12. ASSUME AcceptCalls
       PROVE  cursor' \in 0 .. Len(items') /\ (phase' = "idle" => items' = << >>)
  <2>1. cursor' = Len(t) /\ phase' # "idle"
    BY <1>a, <1>12 DEF AcceptCalls
  <2> QED
    BY <1>2, <1>3, <2>1
<1>13. ASSUME Answering \/ FinishChild
       PROVE  cursor' \in 0 .. Len(items') /\ (phase' = "idle" => items' = << >>)
  <2>1. cursor' = cursor /\ phase' # "idle" /\ \E x : items' = Append(items, x)
    BY <1>13 DEF Answering, AnswerDuplicate, Refuse, Reject, FinishTool, FinishChild, Output
  <2> QED
    BY <1>5, <2>1
<1>14. ASSUME SendRequest \/ Consider \/ Approve \/ StartTool \/ NextRound
       PROVE  cursor' \in 0 .. Len(items') /\ (phase' = "idle" => items' = << >>)
  <2>1. UNCHANGED <<cursor, items>> /\ phase' # "idle"
    BY <1>14 DEF SendRequest, Consider, Approve, StartTool, NextRound
  <2> QED
    BY <1>6, <2>1
<1>15. ASSUME UNCHANGED vars \/ SwitchMode \/ FinishShell \/ ProviderStep
       PROVE  cursor' \in 0 .. Len(items') /\ (phase' = "idle" => items' = << >>)
  <2>1. UNCHANGED <<cursor, items, phase>>
    BY <1>15 DEF vars, SwitchMode, FinishShell, ProviderStep, runVars
  <2> QED
    BY <1>6, <2>1
<1> QED
  BY <1>7, <1>8, <1>9, <1>10, <1>11, <1>12, <1>13, <1>14, <1>15, Zenon
     DEF Next, RunnerStep, UserAnswers, Finishing, Answering

LEMMA RestStep ==
  ASSUME ClientInv, ServerInv, EventInv, NumberInv, CallInv, ItemInv, RestInv, [Next]_vars
  PROVE  RestInv'
<1>1. Known'
  BY IdStep
<1>2. Counted(run, phase, retries, mode, allowed, unanswered)'
  BY CountStep
<1>3. cursor' \in 0 .. Len(items') /\ (phase' = "idle" => items' = << >>)
  BY CursorStep
<1> QED
  BY <1>1, <1>2, <1>3 DEF RestInv, Counted, Known

-----------------------------------------------------------------------------
(* The request *)

LEMMA RequestStep ==
  ASSUME CallInv, ItemInv, RequestInv, [Next]_vars
  PROVE  RequestInv'
<1>1. ASSUME SendRequest
      PROVE  RequestInv'
  <2>1. PICK q, s : q = request' /\ s = ReplaySafe(items)
    OBVIOUS
  <2>2. Paired(s)
    <3>1. PICK t : t = items
      OBVIOUS
    <3>2. t \in Seq(Items) /\ Orderly(t)
      BY <3>1 DEF ItemInv, Sound
    <3>3. Paired(ReplaySafe(t))
      BY <3>2, ReplayIsPaired
    <3> QED
      BY <2>1, <3>1, <3>3
  <2>3. q.prev = 0 => q.items = s
    <3>1. q = [prev |-> prev, run |-> run, local |-> s, items |-> IF prev = 0 THEN s ELSE NewItems]
      BY <1>1, <2>1 DEF SendRequest
    <3> QED
      BY <3>1
  <2>4. q.prev = 0 => Paired(q.items)
    BY <2>2, <2>3
  <2> QED
    BY <2>1, <2>4 DEF RequestInv, PairsReplayed
<1>2. ASSUME phase' # "stream" \/ UNCHANGED <<phase, request>>
      PROVE  RequestInv'
  BY <1>2, SMTT(40) DEF RequestInv, PairsReplayed
<1>3. ASSUME Finishing \/ Submit \/ Begin \/ RecoverOverflow \/ ReplayInstead \/ AcceptCalls
      PROVE  RequestInv'
  <2>1. phase' # "stream"
    BY <1>3 DEF Finishing, Cancel, Crash, ConsumeTooMuch, GiveUp, Malformed, Complete,
                LoseApproval, FailRun, Finish, Submit, Begin, RecoverOverflow, ReplayInstead,
                ReplayNext, AcceptCalls
  <2> QED
    BY <1>2, <2>1, Zenon
<1>4. ASSUME \/ Answering \/ Consider \/ Approve \/ StartTool \/ FinishChild \/ NextRound
      PROVE  RequestInv'
  <2>1. phase' # "stream"
    BY <1>4 DEF Answering, AnswerDuplicate, Refuse, Reject, FinishTool, Consider, Approve,
                StartTool, FinishChild, NextRound
  <2> QED
    BY <1>2, <2>1, Zenon
<1>5. ASSUME UNCHANGED vars \/ SwitchMode \/ FinishShell \/ ProviderStep \/ Consume
      PROVE  RequestInv'
  <2>1. UNCHANGED <<phase, request>>
    BY <1>5 DEF vars, SwitchMode, FinishShell, ProviderStep, Consume, runVars, roundVars
  <2> QED
    BY <1>2, <2>1, Zenon
<1> QED
  BY <1>1, <1>3, <1>4, <1>5, Zenon DEF Next, RunnerStep, UserAnswers, Finishing, Answering

-----------------------------------------------------------------------------
(* The inductive invariant and what follows from it *)

LEMMA InitHolds ==
  ASSUME Init
  PROVE  IInv
<1>1. /\ profile \in Profiles /\ faults = 0 /\ server = << >> /\ current = 0
      /\ net = "idle" /\ attempt = 0 /\ emitted = FALSE /\ spoke = {}
      /\ decoder = [buffer |-> << >>, scan |-> 0] /\ frames = << >> /\ outcome = "none"
      /\ chan = << >>
  BY DEF Init, ProviderInit, NoStream, Fresh
<1>2. /\ phase = "idle" /\ collector = NoAnswer /\ pending = << >> /\ spawned = {}
      /\ decided = {} /\ verdicts = {} /\ conversation = << >> /\ items = << >> /\ rows = << >>
  BY DEF Init
<1>3. profile.faults \in Nat /\ profile.runs \in Nat /\ MaxOverflowRetries \in Nat
  BY <1>1, ProviderAssumption, AgentAssumption
<1>e. Len(<< >>) = 0 /\ DOMAIN << >> = {} /\ \A X : << >> \in Seq(X)
  OBVIOUS
<1>4. ClientInv
  <2>1. 0 \in 0 .. MaxAttempts /\ 0 \in 0 .. profile.faults
    BY <1>3, ProviderAssumption
  <2> QED
    BY <1>1, <1>2, <2>1 DEF ClientInv
<1>5. ServerInv
  BY <1>1, <1>e DEF ServerInv
<1>6. DecoderInv
  BY <1>1, <1>e, SseAssumption DEF DecoderInv
<1>7. FrameInv
  BY <1>1, <1>e DEF FrameInv, Fits
<1>8. IsAnswer(collector) /\ collector = NoAnswer
  BY <1>2, NoAnswerFacts
<1>9. EventInv
  BY <1>1, <1>e, <1>8, NoAnswerFacts, ProviderAssumption DEF EventInv, Belong
<1>10. NumberInv
  <2>1. PICK b, e : b = LastBegun /\ e = LastEnded
    OBVIOUS
  <2>2. PICK q : q = chan
    OBVIOUS
  <2>3. \A i \in DOMAIN q : ~ IsCall(q[i])
    BY <1>1, <1>e, <2>2
  <2>4. Numbered(q, << >>, {}, b, e)
    BY <2>3, NumbersNone
  <2>5. collector.calls = << >> /\ collector.partials = {}
    BY <1>8, NoAnswerFacts
  <2> QED
    BY <2>1, <2>2, <2>4, <2>5 DEF NumberInv
<1>11. CallInv
  BY <1>2, <1>e DEF CallInv, ToldApart
<1>12. VerdictInv
  BY <1>2 DEF VerdictInv, OneVerdict
<1>13. ItemInv
  <2>1. Waiting = {}
    BY <1>2, <1>e DEF Waiting, ToSet
  <2>2. Sound(<< >>, Len(server), current) /\ \A calls : NoOutput(<< >>, calls)
    BY SoundEmpty
  <2> QED
    BY <1>2, <2>1, <2>2 DEF ItemInv
<1>14. RequestInv
  BY <1>2 DEF RequestInv, PairsReplayed
<1>15. StoredInv
  <2>1. PICK q \in BOOLEAN : q = FALSE
    OBVIOUS
  <2>2. base = [items |-> 0, rows |-> 0, rewritten |-> q]
    BY <2>1, Zenon DEF Init
  <2>3. IsBase(base)
    BY <2>2, BaseMade
  <2> QED
    BY <1>2, <2>3 DEF StoredInv, IsBase
<1>16. RestInv
  BY <1>1, <1>2, <1>3, <1>e DEF RestInv, Init
<1> QED
  BY <1>4, <1>5, <1>6, <1>7, <1>9, <1>10, <1>11, <1>12, <1>13, <1>14, <1>15, <1>16, Zenon
     DEF IInv

LEMMA StepHolds ==
  ASSUME IInv, [Next]_vars
  PROVE  IInv'
<1>1. /\ ClientInv /\ ServerInv /\ DecoderInv /\ FrameInv /\ EventInv /\ NumberInv
      /\ CallInv /\ VerdictInv /\ ItemInv /\ RequestInv /\ StoredInv /\ RestInv
  BY DEF IInv
<1>2. ClientInv'
  BY <1>1, ClientStep DEF ServerInv
<1>3. ServerInv'
  BY <1>1, ServerStep
<1>4. DecoderInv'
  BY <1>1, DecoderStep
<1>5. FrameInv'
  BY <1>1, FrameStep
<1>6. EventInv'
  BY <1>1, EventStep
<1>7. NumberInv'
  BY <1>1, NumberStep
<1>8. CallInv'
  BY <1>1, CallStep
<1>9. VerdictInv'
  BY <1>1, VerdictStep
<1>10. ItemInv'
  BY <1>1, ItemStep
<1>11. RequestInv'
  BY <1>1, RequestStep
<1>12. StoredInv'
  BY <1>1, StoredStep
<1>13. RestInv'
  BY <1>1, RestStep
<1> QED
  BY <1>2, <1>3, <1>4, <1>5, <1>6, <1>7, <1>8, <1>9, <1>10, <1>11, <1>12, <1>13, Zenon
     DEF IInv

\* The twelve parts of the invariant hold whatever the endpoint says, whichever
\* requests and tools fail, and wherever the user or a crash interrupts a run
\* (src/agent/runner.rs, src/provider/openai.rs).
THEOREM InductiveInvariant == Spec => []IInv
<1>1. Init => IInv
  BY InitHolds
<1>2. IInv /\ [Next]_vars => IInv'
  BY StepHolds
<1> QED
  BY <1>1, <1>2, PTL DEF Spec

\* The state of a run, its request, its stream and its decoder keeps its shape;
\* response ids name responses, and no counter leaves its limit.
THEOREM TypeIsCorrect == Spec => []TypeOK
<1>1. ASSUME IInv
      PROVE  TypeOK
  <2>1. /\ ClientInv /\ ServerInv /\ DecoderInv /\ EventInv /\ CallInv /\ VerdictInv
        /\ ItemInv /\ RestInv
    BY <1>1 DEF IInv
  <2>2. spoke \subseteq 1 .. MaxAttempts
    BY <2>1, ProviderAssumption DEF ClientInv
  <2>3. current \in 0 .. Len(server)
    <3>1. Len(server) \in Nat
      BY <2>1, LenProperties DEF ServerInv
    <3> QED
      BY <2>1, <3>1 DEF ClientInv
  <2>4. {conversation, rows, items} \subseteq Seq(Items)
    BY <2>1 DEF ItemInv, Sound
  <2> QED
    BY <2>1, <2>2, <2>3, <2>4
       DEF TypeOK, ClientInv, DecoderInv, EventInv, IsAnswer, CallInv, VerdictInv, RestInv
<1> QED
  BY <1>1, InductiveInvariant, PTL

\* A request is repeated only while no attempt has said anything: the events of
\* at most one attempt reach the agent (OpenAiClient::stream).
THEOREM OneAttemptIsHeard == Spec => []OneAttemptSpeaks
<1>1. ASSUME IInv
      PROVE  OneAttemptSpeaks
  <2>1. spoke = {} \/ spoke = {attempt}
    BY <1>1 DEF IInv, ClientInv
  <2>2. Cardinality({}) = 0
    BY FS_EmptySet
  <2>3. Cardinality({attempt}) = 1
    BY FS_Singleton
  <2> QED
    BY <2>1, <2>2, <2>3 DEF OneAttemptSpeaks
<1> QED
  BY <1>1, InductiveInvariant, PTL

\* A run executes or refuses a call once, and a child agent asked for twice only
\* when both calls are of one answer (executed_tool_calls, begin_tool).
THEOREM CallsAreJudgedOnce == Spec => []OneVerdict
<1>1. IInv => OneVerdict
  BY DEF IInv, VerdictInv
<1> QED
  BY <1>1, InductiveInvariant, PTL

\* Whatever was trimmed, compacted, cancelled or lost before, a full replay has
\* one output behind every call and a call in front of every output
\* (replay_safe_items).
THEOREM ReplaysArePaired == Spec => []PairsReplayed
<1>1. IInv => PairsReplayed
  BY DEF IInv, RequestInv
<1> QED
  BY <1>1, InductiveInvariant, PTL

\* What a run adds to the conversation is what it adds to the session's rows,
\* in the same order, reasoning items excepted and what shell commands printed
\* meanwhile (Runner::run and the rows it appends).
THEOREM RowsKeepUp == Spec => []AsStored
<1>1. IInv => AsStored
  BY DEF IInv, StoredInv, AsStored, Added, From, SameRows
<1> QED
  BY <1>1, InductiveInvariant, PTL

-----------------------------------------------------------------------------
(* The decoder and the body it has read *)

\* A delimiter byte by byte.
Four(b, p) ==
  p + 4 <= Len(b) /\ b[p + 1] = CR /\ b[p + 2] = LF /\ b[p + 3] = CR /\ b[p + 4] = LF
Two(b, p) == p + 2 <= Len(b) /\ b[p + 1] = LF /\ b[p + 2] = LF

LEMMA DelimiterBytes ==
  ASSUME NEW X, NEW b \in Seq(X), NEW p \in 0 .. Len(b)
  PROVE  Delimiter(b, p) = IF Four(b, p) THEN 4 ELSE IF Two(b, p) THEN 2 ELSE 0
<1> DEFINE s == From(b, p)
           four == <<CR, LF, CR, LF>>
           two == <<LF, LF>>
           Y == X \cup {CR, LF}
<1>1. /\ s \in Seq(X) /\ Len(b) \in Nat /\ Len(s) = Len(b) - p
      /\ \A i \in 1 .. Len(b) - p : s[i] = b[p + i]
  BY FromFacts
<1>2. s \in Seq(Y)
  BY <1>1, SeqMonotonic
<1>3. /\ four \in Seq(Y) /\ Len(four) = 4
      /\ four[1] = CR /\ four[2] = LF /\ four[3] = CR /\ four[4] = LF
      /\ two \in Seq(Y) /\ Len(two) = 2 /\ two[1] = LF /\ two[2] = LF
  OBVIOUS
<1> HIDE DEF s, four, two, Y
<1>4. ASSUME NEW t \in Seq(Y)
      PROVE  IsPrefix(t, s) <=> Len(t) <= Len(s) /\ \A i \in 1 .. Len(t) : t[i] = s[i]
  <2>1. Len(t) \in Nat /\ Len(s) \in Nat
    BY <1>2, <1>4, LenProperties
  <2>2. SubSeq(t, 1, Len(t)) = t
    BY <1>4, SubSeqFull
  <2> DEFINE u == SubSeq(s, 1, Len(t))
  <2>3. ASSUME Len(t) <= Len(s)
        PROVE  u \in Seq(Y) /\ Len(u) = Len(t) /\ \A i \in 1 .. Len(t) : u[i] = s[i]
    <3>1. 1 \in Int /\ Len(t) \in Int /\ \A i \in 1 .. Len(t) : s[i] \in Y
      <4>1. \A i \in 1 .. Len(t) : i \in 1 .. Len(s)
        BY <2>1, <2>3
      <4> QED
        BY <1>2, <2>1, <4>1, ElementOfSeq
    <3>2. /\ u \in Seq(Y) /\ Len(u) = IF 1 <= Len(t) THEN Len(t) - 1 + 1 ELSE 0
          /\ \A i \in 1 .. Len(t) - 1 + 1 : u[i] = s[1 + i - 1]
      BY <3>1, SubSeqProperties
    <3> HIDE DEF u
    <3>3. Len(t) - 1 + 1 = Len(t) /\ \A i \in 1 .. Len(t) : 1 + i - 1 = i
      BY <2>1
    <3> QED
      BY <2>1, <3>2, <3>3
  <2>4. Len(t) <= Len(s) => (t = u <=> \A i \in 1 .. Len(t) : t[i] = s[i])
    <3> SUFFICES ASSUME Len(t) <= Len(s)
                 PROVE  t = u <=> \A i \in 1 .. Len(t) : t[i] = s[i]
      OBVIOUS
    <3>1. u \in Seq(Y) /\ Len(u) = Len(t) /\ \A i \in 1 .. Len(t) : u[i] = s[i]
      BY <2>3
    <3> HIDE DEF u
    <3>2. (\A i \in 1 .. Len(t) : t[i] = s[i]) => t = u
      BY <1>4, <3>1, SeqEqual
    <3> QED
      BY <3>1, <3>2
  <2> HIDE DEF u
  <2> QED
    BY <2>2, <2>4 DEF IsPrefix, u
<1>5. IsPrefix(four, s) <=> Four(b, p)
  <2>1. IsPrefix(four, s) <=> Len(four) <= Len(s) /\ \A i \in 1 .. Len(four) : four[i] = s[i]
    BY <1>3, <1>4
  <2>2. Len(four) <= Len(s) <=> p + 4 <= Len(b)
    BY <1>1, <1>3
  <2>3. p + 4 <= Len(b) => s[1] = b[p + 1] /\ s[2] = b[p + 2] /\ s[3] = b[p + 3] /\ s[4] = b[p + 4]
    BY <1>1, SMTT(40)
  <2>4. (\A i \in 1 .. Len(four) : four[i] = s[i]) <=> s[1] = CR /\ s[2] = LF /\ s[3] = CR /\ s[4] = LF
    <3>1. 1 .. 4 = {1, 2, 3, 4}
      OBVIOUS
    <3> QED
      BY <1>3, <3>1
  <2> QED
    BY <2>1, <2>2, <2>3, <2>4 DEF Four
<1>6. IsPrefix(two, s) <=> Two(b, p)
  <2>1. IsPrefix(two, s) <=> Len(two) <= Len(s) /\ \A i \in 1 .. Len(two) : two[i] = s[i]
    BY <1>3, <1>4
  <2>2. Len(two) <= Len(s) <=> p + 2 <= Len(b)
    BY <1>1, <1>3
  <2>3. p + 2 <= Len(b) => s[1] = b[p + 1] /\ s[2] = b[p + 2]
    BY <1>1
  <2>4. (\A i \in 1 .. Len(two) : two[i] = s[i]) <=> s[1] = LF /\ s[2] = LF
    <3>1. 1 .. 2 = {1, 2}
      OBVIOUS
    <3> QED
      BY <1>3, <3>1
  <2> QED
    BY <2>1, <2>2, <2>3, <2>4 DEF Two
<1>7. Delimiter(b, p) = CASE IsPrefix(four, s) -> 4 [] IsPrefix(two, s) -> 2 [] OTHER -> 0
  BY DEF Delimiter, From, s, four, two
<1>8. ~ (Four(b, p) /\ Two(b, p))
  BY DEF Four, Two, CR, LF
<1> QED
  BY <1>5, <1>6, <1>7, <1>8

\* What is left of what is left.
LEMMA FromFrom ==
  ASSUME NEW X, NEW b \in Seq(X), NEW e \in 0 .. Len(b), NEW p \in 0 .. Len(b) - e
  PROVE  /\ From(b, e) \in Seq(X) /\ Len(From(b, e)) = Len(b) - e /\ Len(b) \in Nat
         /\ p \in 0 .. Len(From(b, e)) /\ e + p \in 0 .. Len(b)
         /\ From(From(b, e), p) = From(b, e + p)
<1> DEFINE s == From(b, e)
           t == From(s, p)
           u == From(b, e + p)
<1>1. /\ s \in Seq(X) /\ Len(b) \in Nat /\ Len(s) = Len(b) - e
      /\ \A i \in 1 .. Len(b) - e : s[i] = b[e + i]
  BY FromFacts
<1>2. p \in 0 .. Len(s) /\ e + p \in 0 .. Len(b)
  BY <1>1
<1> HIDE DEF s
<1>3. t \in Seq(X) /\ Len(t) = Len(s) - p /\ \A i \in 1 .. Len(s) - p : t[i] = s[p + i]
  BY <1>1, <1>2, FromFacts, ZenonT(60)
<1>4. u \in Seq(X) /\ Len(u) = Len(b) - (e + p) /\ \A i \in 1 .. Len(b) - (e + p) : u[i] = b[(e + p) + i]
  BY <1>2, FromFacts
<1> HIDE DEF t, u
<1>5. Len(t) = Len(u)
  BY <1>1, <1>2, <1>3, <1>4, SMTT(40)
<1>6. ASSUME NEW i \in 1 .. Len(t)
      PROVE  t[i] = u[i]
  <2>1. p + i \in 1 .. Len(b) - e /\ i \in 1 .. Len(s) - p /\ i \in 1 .. Len(b) - (e + p)
        /\ e + (p + i) = (e + p) + i
    BY <1>1, <1>2, <1>3, <1>6, SMTT(40)
  <2> QED
    BY <1>1, <1>3, <1>4, <2>1
<1>7. t = u
  BY <1>3, <1>4, <1>5, <1>6, SeqEqual
<1> QED
  BY <1>1, <1>2, <1>7 DEF s, t, u

\* A delimiter of the rest is one of the whole.
LEMMA DelimiterFrom ==
  ASSUME NEW X, NEW b \in Seq(X), NEW e \in 0 .. Len(b), NEW p \in 0 .. Len(b) - e
  PROVE  Delimiter(From(b, e), p) = Delimiter(b, e + p)
<1> DEFINE s == From(b, e)
<1>1. From(s, p) = From(b, e + p)
  BY FromFrom
<1> QED
  BY <1>1 DEF Delimiter, From

\* What is appended leaves the delimiters that end before it.
LEMMA DelimiterStays ==
  ASSUME NEW X, NEW b \in Seq(X), NEW c \in Seq(X), NEW p \in 0 .. Len(b)
  PROVE  /\ Delimiter(b, p) > 0 => Delimiter(b \o c, p) = Delimiter(b, p)
         /\ p + 4 <= Len(b) => Delimiter(b \o c, p) = Delimiter(b, p)
         /\ p + 2 <= Len(b) /\ Delimiter(b \o c, p) = 2 => Delimiter(b, p) = 2
         /\ Delimiter(b \o c, p) = 4 /\ p + 4 > Len(b) /\ p + 3 <= Len(b) => ~ Two(b, p + 1)
<1> DEFINE d == b \o c
<1>1. /\ d \in Seq(X) /\ Len(b) \in Nat /\ Len(c) \in Nat /\ Len(d) = Len(b) + Len(c)
      /\ \A i \in 1 .. Len(b) : d[i] = b[i]
  BY ConcatFacts
<1> HIDE DEF d
<1>2. p \in 0 .. Len(d)
  BY <1>1
<1>3. Delimiter(b, p) = IF Four(b, p) THEN 4 ELSE IF Two(b, p) THEN 2 ELSE 0
  BY DelimiterBytes
<1>4. Delimiter(d, p) = IF Four(d, p) THEN 4 ELSE IF Two(d, p) THEN 2 ELSE 0
  BY <1>1, <1>2, DelimiterBytes
<1>5. ASSUME NEW j \in 1 .. 4, p + j <= Len(b)
      PROVE  d[p + j] = b[p + j]
  <2>1. p + j \in 1 .. Len(b)
    BY <1>1, <1>5
  <2> QED
    BY <1>1, <2>1
<1>6. p + 2 <= Len(b) => d[p + 1] = b[p + 1] /\ d[p + 2] = b[p + 2]
  BY <1>1, <1>5
<1>7. p + 4 <= Len(b) =>
        /\ d[p + 1] = b[p + 1] /\ d[p + 2] = b[p + 2]
        /\ d[p + 3] = b[p + 3] /\ d[p + 4] = b[p + 4]
  BY <1>1, <1>5
<1>8. p + 4 <= Len(b) => (Four(d, p) <=> Four(b, p))
  BY <1>1, <1>7 DEF Four
<1>9. p + 2 <= Len(b) => (Two(d, p) <=> Two(b, p))
  BY <1>1, <1>6 DEF Two
<1>10. Four(b, p) => Four(d, p)
  BY <1>8 DEF Four
<1>11. Two(b, p) => Two(d, p) /\ ~ Four(d, p)
  BY <1>6, <1>9 DEF Two, Four, CR, LF
<1>12. p + 3 <= Len(b) /\ Four(d, p) => ~ Two(b, p + 1)
  <2>1. p + 3 <= Len(b) => d[p + 3] = b[p + 3]
    BY <1>5
  <2>2. (p + 1) + 2 = p + 3
    BY <1>1
  <2> QED
    BY <2>1, <2>2 DEF Four, Two, CR, LF
<1>13. Delimiter(d, p) = 2 => Two(d, p) /\ ~ Four(d, p)
  BY <1>4
<1>14. p + 2 <= Len(b) /\ Delimiter(d, p) = 2 => Delimiter(b, p) = 2
  BY <1>3, <1>9, <1>10, <1>13
<1>15. Delimiter(d, p) = 4 => Four(d, p)
  BY <1>4
<1>16. p + 4 <= Len(b) => Delimiter(d, p) = Delimiter(b, p)
  <2>1. p + 4 <= Len(b) => p + 2 <= Len(b)
    BY <1>1
  <2> QED
    BY <1>3, <1>4, <1>8, <1>9, <2>1
<1>17. Delimiter(b, p) > 0 => Delimiter(d, p) = Delimiter(b, p)
  BY <1>3, <1>4, <1>10, <1>11
<1> QED
  BY <1>12, <1>14, <1>15, <1>16, <1>17 DEF d

\* What the recursion in Cuts says of it.
LEMMA CutsUnfold ==
  ASSUME NEW X, NEW b \in Seq(X), NEW p \in 0 .. Len(b)
  PROVE  /\ Found(b, p) = {} => Cuts(b, p) = << >>
         /\ Found(b, p) # {} => /\ At(b, p) \in Found(b, p)
                                /\ \A q \in Found(b, p) : At(b, p) <= q
                                /\ End(b, p) \in p + 1 .. Len(b) /\ At(b, p) \in 0 .. Len(b)
                                /\ Cuts(b, p) = <<Cut(b, p)>> \o Cuts(b, End(b, p))
<1> DEFINE L == Len(b)
           Step(f) == [q \in 0 .. L |->
                         IF Found(b, q) = {} THEN << >> ELSE <<Cut(b, q)>> \o f[End(b, q)]]
           c == CHOOSE f : f = Step(f)
<1>1. \A q : Cuts(b, q) = c[q]
  BY DEF Cuts, Found, Cut, End, At
<1>2. c = Step(c)
  <2>1. \E f : f = Step(f)
    BY CutsExist
  <2> HIDE DEF Step
  <2> QED
    BY <2>1
<1> HIDE DEF c
<1>3. c[p] = IF Found(b, p) = {} THEN << >> ELSE <<Cut(b, p)>> \o c[End(b, p)]
  BY <1>2
<1>4. Found(b, p) # {} => At(b, p) \in 0 .. L /\ End(b, p) \in p + 1 .. L
  BY CutFacts
<1>5. Found(b, p) # {} => At(b, p) \in Found(b, p) /\ \A q \in Found(b, p) : At(b, p) <= q
  <2>1. Len(b) \in Nat
    BY LenProperties
  <2>2. Found(b, p) \subseteq Nat
    BY <2>1 DEF Found
  <2> QED
    BY <2>2, MinFacts DEF At
<1> QED
  BY <1>1, <1>3, <1>4, <1>5

\* Where the search that begins at p has got to when it finds nothing more.
After(b, p) == IF Cuts(b, p) = << >> THEN p ELSE Last(Cuts(b, p)).end

\* Where cuts of n bytes may be.
Spots(n) == [at : 0 .. n, end : 0 .. n]
Places(b) == Spots(Len(b))

\* The first of a sequence and the rest.
First(x, q) == <<x>> \o q

LEMMA FirstAndRest ==
  ASSUME NEW X, NEW x \in X, NEW q \in Seq(X)
  PROVE  /\ First(x, q) \in Seq(X) /\ First(x, q) # << >>
         /\ Len(q) \in Nat /\ Len(First(x, q)) = Len(q) + 1
         /\ DOMAIN First(x, q) = 1 .. Len(q) + 1 /\ DOMAIN q = 1 .. Len(q)
         /\ First(x, q)[1] = x /\ \A i \in 1 .. Len(q) : First(x, q)[1 + i] = q[i]
         /\ Last(First(x, q)) = IF q = << >> THEN x ELSE Last(q)
<1> DEFINE one == <<x>>
           r == First(x, q)
<1>0. r = one \o q
  BY DEF First
<1>1. one \in Seq(X) /\ Len(one) = 1 /\ one[1] = x
  OBVIOUS
<1> HIDE DEF one, r
<1>2. /\ r \in Seq(X) /\ Len(q) \in Nat /\ Len(r) = Len(one) + Len(q)
      /\ DOMAIN q = 1 .. Len(q) /\ DOMAIN r = 1 .. Len(one) + Len(q)
      /\ \A i \in 1 .. Len(one) : r[i] = one[i]
      /\ \A i \in 1 .. Len(q) : r[Len(one) + i] = q[i]
  BY <1>0, <1>1, ConcatFacts, SMTT(40)
<1>3. /\ Len(r) = Len(q) + 1 /\ DOMAIN r = 1 .. Len(q) + 1
      /\ r[1] = x /\ \A i \in 1 .. Len(q) : r[1 + i] = q[i]
  BY <1>1, <1>2
<1>4. r # << >>
  <2>1. Len(r) # 0
    BY <1>2, <1>3
  <2> QED
    BY <2>1, EmptySeq
<1>5. Last(r) = IF q = << >> THEN x ELSE Last(q)
  <2>1. CASE q = << >>
    <3>1. Len(q) = 0
      BY <2>1
    <3> QED
      BY <1>3, <2>1, <3>1 DEF Last
  <2>2. CASE q # << >>
    <3>1. Len(q) \in 1 .. Len(q)
      BY <2>2, EmptySeq
    <3>2. r[1 + Len(q)] = q[Len(q)] /\ 1 + Len(q) = Len(q) + 1
      BY <1>2, <1>3, <3>1
    <3> QED
      BY <1>3, <2>2, <3>2 DEF Last
  <2> QED
    BY <2>1, <2>2
<1> QED
  BY <1>2, <1>3, <1>4, <1>5 DEF r

\* Behind the last cut there is no delimiter.
LEMMA AfterFacts ==
  ASSUME NEW X, NEW b \in Seq(X), NEW p \in 0 .. Len(b)
  PROVE  /\ Cuts(b, p) \in Seq(Places(b)) /\ After(b, p) \in p .. Len(b)
         /\ Found(b, After(b, p)) = {}
<1> DEFINE L == Len(b)
           T == {m \in Nat : m <= L => After(b, L - m) \in L - m .. L /\ Found(b, After(b, L - m)) = {}}
<1>1. L \in Nat
  BY LenProperties
<1>2. \A q \in 0 .. L : Cuts(b, q) \in Seq(Places(b))
  BY CutsInside DEF Places, Spots
<1>3. ASSUME NEW m \in Nat, \A k \in 0 .. m - 1 : k \in T
      PROVE  m \in T
  <2> SUFFICES ASSUME m <= L
               PROVE  After(b, L - m) \in L - m .. L /\ Found(b, After(b, L - m)) = {}
    OBVIOUS
  <2> DEFINE q == L - m
             e == End(b, q)
             x == Cut(b, q)
             rest == Cuts(b, e)
  <2>1. q \in 0 .. L
    BY <1>1
  <2>2. CASE Found(b, q) = {}
    <3>1. Cuts(b, q) = << >>
      BY <2>1, <2>2, CutsUnfold
    <3>2. After(b, q) = q
      BY <3>1 DEF After
    <3>3. q \in q .. L
      BY <1>1, <2>1
    <3> QED
      BY <2>2, <3>2, <3>3
  <2>3. CASE Found(b, q) # {}
    <3>1. e \in q + 1 .. L /\ At(b, q) \in 0 .. L /\ Cuts(b, q) = <<x>> \o rest
      BY <2>1, <2>3, CutsUnfold
    <3>2. x = [at |-> At(b, q), end |-> e]
      BY DEF Cut
    <3> HIDE DEF e, x
    <3>3. e \in 0 .. L /\ L - e \in 0 .. m - 1 /\ L - (L - e) = e /\ L - e <= L /\ x \in Places(b)
      <4>1. e \in 0 .. L /\ L - e \in 0 .. m - 1 /\ L - (L - e) = e /\ L - e <= L
        BY <1>1, <2>1, <3>1
      <4> QED
        BY <3>1, <3>2, <4>1 DEF Places, Spots
    <3>4. After(b, e) \in e .. L /\ Found(b, After(b, e)) = {}
      BY <1>3, <3>3
    <3>5. rest \in Seq(Places(b))
      BY <1>2, <3>3
    <3>6. Cuts(b, q) # << >> /\ Last(Cuts(b, q)) = IF rest = << >> THEN x ELSE Last(rest)
      <4>1. Cuts(b, q) = First(x, rest)
        BY <3>1 DEF First
      <4>2. PICK Z : Z = Places(b)
        OBVIOUS
      <4>3. x \in Z /\ rest \in Seq(Z)
        BY <3>3, <3>5, <4>2
      <4> HIDE DEF rest
      <4>4. First(x, rest) # << >> /\ Last(First(x, rest)) = IF rest = << >> THEN x ELSE Last(rest)
        BY <4>3, FirstAndRest
      <4> QED
        BY <4>1, <4>4
    <3>7. After(b, q) = After(b, e)
      <4>1. x.end = e
        BY <3>2
      <4> QED
        BY <3>6, <4>1 DEF After
    <3>8. After(b, e) \in q .. L
      BY <1>1, <2>1, <3>1, <3>4
    <3> QED
      BY <3>4, <3>7, <3>8
  <2> QED
    BY <2>2, <2>3
<1>4. Nat \subseteq T
  <2> HIDE DEF T
  <2> QED
    BY <1>3, StrongInduction
<1>5. L - p \in Nat /\ L - p <= L /\ L - (L - p) = p
  BY <1>1
<1> QED
  BY <1>2, <1>4, <1>5

\* What is appended does not move the first delimiter.
LEMMA FirstStays ==
  ASSUME NEW X, NEW b \in Seq(X), NEW c \in Seq(X), NEW p \in 0 .. Len(b), Found(b, p) # {}
  PROVE  /\ Found(b \o c, p) # {} /\ At(b \o c, p) = At(b, p) /\ End(b \o c, p) = End(b, p)
         /\ Cut(b \o c, p) = Cut(b, p)
<1> DEFINE d == b \o c
           a == At(b, p)
           z == At(d, p)
<1>1. d \in Seq(X) /\ Len(b) \in Nat /\ Len(d) \in Nat /\ Len(b) <= Len(d)
  BY ConcatFacts
<1>2. /\ a \in Found(b, p) /\ \A q \in Found(b, p) : a <= q
      /\ a \in 0 .. Len(b) /\ a + Delimiter(b, a) \in p + 1 .. Len(b)
  BY CutsUnfold DEF End
<1>3. a \in p .. Len(b) /\ Delimiter(b, a) > 0
  BY <1>2 DEF Found
<1>4. /\ Delimiter(b, a) > 0 => Delimiter(d, a) = Delimiter(b, a)
      /\ Delimiter(b, a) = IF Four(b, a) THEN 4 ELSE IF Two(b, a) THEN 2 ELSE 0
  BY <1>2, DelimiterStays, DelimiterBytes
<1> HIDE DEF d
<1>5. a \in Found(d, p)
  BY <1>1, <1>3, <1>4 DEF Found
<1>6. p \in 0 .. Len(d)
  BY <1>1
<1>7. z \in Found(d, p) /\ z <= a
  BY <1>1, <1>5, <1>6, CutsUnfold
<1> HIDE DEF a, z
<1>8. z \in p .. Len(d) /\ Delimiter(d, z) > 0
  BY <1>7 DEF Found
<1>9. z \in 0 .. Len(b) /\ z \in 0 .. Len(d) /\ z \in p .. Len(b)
  BY <1>1, <1>2, <1>7, <1>8
<1>10. /\ Delimiter(d, z) = IF Four(d, z) THEN 4 ELSE IF Two(d, z) THEN 2 ELSE 0
       /\ z + 4 <= Len(b) => Delimiter(d, z) = Delimiter(b, z)
       /\ z + 2 <= Len(b) /\ Delimiter(d, z) = 2 => Delimiter(b, z) = 2
       /\ Delimiter(d, z) = 4 /\ z + 4 > Len(b) /\ z + 3 <= Len(b) => ~ Two(b, z + 1)
  <2>1. Delimiter(d, z) = IF Four(d, z) THEN 4 ELSE IF Two(d, z) THEN 2 ELSE 0
    BY <1>1, <1>9, DelimiterBytes
  <2> QED
    BY <1>9, <2>1, DelimiterStays DEF d
<1>11. a + 2 <= Len(b)
  BY <1>1, <1>2, <1>3, <1>4
<1>12. Delimiter(b, z) > 0 \/ z = a
  <2> SUFFICES ASSUME z < a
               PROVE  Delimiter(b, z) > 0
    BY <1>1, <1>2, <1>7, <1>9
  <2>1. z + 2 <= Len(b)
    BY <1>1, <1>2, <1>9, <1>11
  <2>2. CASE Delimiter(d, z) = 2
    BY <1>10, <2>1, <2>2
  <2>3. CASE Delimiter(d, z) = 4 /\ z + 4 <= Len(b)
    BY <1>10, <2>3
  <2>4. CASE Delimiter(d, z) = 4 /\ ~ (z + 4 <= Len(b))
    <3>1. z + 3 <= Len(b) /\ z + 4 > Len(b) /\ a = z + 1 /\ a + 4 > Len(b)
      BY <1>1, <1>2, <1>9, <1>11, <2>4
    <3>2. ~ Four(b, a)
      BY <1>1, <1>2, <3>1 DEF Four
    <3>3. Two(b, a)
      BY <1>3, <1>4, <3>2
    <3> QED
      BY <1>10, <2>4, <3>1, <3>3
  <2> QED
    BY <1>8, <1>10, <2>2, <2>3, <2>4
<1>13. z = a
  <2>1. CASE Delimiter(b, z) > 0
    <3>1. z \in Found(b, p)
      BY <1>9, <2>1 DEF Found
    <3> QED
      BY <1>1, <1>2, <1>7, <1>9, <3>1
  <2> QED
    BY <1>12, <2>1
<1> QED
  BY <1>3, <1>4, <1>5, <1>13 DEF a, z, d, End, Cut

\* A body that goes on: first the same cuts, then those behind them.
LEMMA CutsGoOn ==
  ASSUME NEW X, NEW b \in Seq(X), NEW c \in Seq(X), NEW p \in 0 .. Len(b)
  PROVE  Cuts(b \o c, p) = Cuts(b, p) \o Cuts(b \o c, After(b, p))
<1> DEFINE d == b \o c
           L == Len(b)
           Y == Places(d)
           Good(q) == Cuts(d, q) = Cuts(b, q) \o Cuts(d, After(b, q))
           T == {m \in Nat : m <= L => Good(L - m)}
<1>1. d \in Seq(X) /\ L \in Nat /\ Len(d) \in Nat /\ L <= Len(d)
  BY ConcatFacts
<1>2. ASSUME NEW q \in 0 .. L, Found(b, q) # {}
      PROVE  Found(d, q) # {} /\ Cut(d, q) = Cut(b, q) /\ End(d, q) = End(b, q)
  BY <1>2, FirstStays
<1> HIDE DEF d
<1>3. \A q \in 0 .. L : q \in 0 .. Len(d)
  BY <1>1
<1>4. \A q \in 0 .. Len(d) : Cuts(d, q) \in Seq(Y)
  BY <1>1, AfterFacts
<1>5. \A q \in 0 .. L : Cuts(b, q) \in Seq(Y) /\ After(b, q) \in 0 .. Len(d)
  <2> SUFFICES ASSUME NEW q \in 0 .. L
               PROVE  Cuts(b, q) \in Seq(Y) /\ After(b, q) \in 0 .. Len(d)
    OBVIOUS
  <2>1. Cuts(b, q) \in Seq(Places(b)) /\ After(b, q) \in q .. L
    BY AfterFacts
  <2>2. Places(b) \subseteq Y
    BY <1>1 DEF Places, Spots
  <2>3. After(b, q) \in 0 .. Len(d)
    BY <1>1, <2>1
  <2> QED
    BY <2>1, <2>2, <2>3, SeqMonotonic
<1>6. ASSUME NEW m \in Nat, \A k \in 0 .. m - 1 : k \in T
      PROVE  m \in T
  <2> SUFFICES ASSUME m <= L
               PROVE  Good(L - m)
    OBVIOUS
  <2> DEFINE q == L - m
             e == End(b, q)
             x == Cut(b, q)
             rest == Cuts(b, e)
             more == Cuts(d, After(b, e))
  <2>1. q \in 0 .. L
    BY <1>1
  <2>2. CASE Found(b, q) = {}
    <3>1. Cuts(b, q) = << >>
      BY <2>1, <2>2, CutsUnfold
    <3>2. After(b, q) = q
      BY <3>1 DEF After
    <3>3. << >> \o Cuts(d, q) = Cuts(d, q)
      <4>1. Cuts(d, q) \in Seq(Y)
        BY <1>3, <1>4, <2>1
      <4> QED
        BY <4>1, ConcatEmptySeq
    <3> QED
      BY <3>1, <3>2, <3>3
  <2>3. CASE Found(b, q) # {}
    <3>1. e \in q + 1 .. L /\ At(b, q) \in 0 .. L /\ Cuts(b, q) = <<x>> \o rest
      BY <2>1, <2>3, CutsUnfold
    <3>2. Cuts(d, q) = <<x>> \o Cuts(d, e)
      <4>1. Found(d, q) # {} /\ Cut(d, q) = x /\ End(d, q) = e
        BY <1>2, <2>1, <2>3
      <4>2. q \in 0 .. Len(d)
        BY <1>3, <2>1
      <4> QED
        BY <1>1, <4>1, <4>2, CutsUnfold
    <3>3. x = [at |-> At(b, q), end |-> e]
      BY DEF Cut
    <3> HIDE DEF e, x
    <3>4. e \in 0 .. L /\ L - e \in 0 .. m - 1 /\ L - (L - e) = e /\ L - e <= L
      BY <1>1, <2>1, <3>1
    <3>5. x \in Y
      <4>1. At(b, q) \in 0 .. Len(d) /\ e \in 0 .. Len(d)
        BY <1>1, <3>1, <3>4, SMTT(40)
      <4> QED
        BY <3>3, <4>1 DEF Places, Spots
    <3>6. Cuts(d, e) = rest \o more
      BY <1>6, <3>4
    <3>7. rest \in Seq(Y) /\ more \in Seq(Y) /\ <<x>> \in Seq(Y)
      <4> HIDE DEF Y
      <4> QED
        BY <1>4, <1>5, <3>4, <3>5, SMTT(40)
    <3>8. After(b, q) = After(b, e)
      <4>1. Cuts(b, q) # << >> /\ Last(Cuts(b, q)) = IF rest = << >> THEN x ELSE Last(rest)
        <5>1. Cuts(b, q) = First(x, rest)
          BY <3>1 DEF First
        <5>2. PICK Z : Z = Y
          OBVIOUS
        <5>3. x \in Z /\ rest \in Seq(Z)
          BY <3>5, <3>7, <5>2
        <5> HIDE DEF rest
        <5>4. First(x, rest) # << >> /\ Last(First(x, rest)) = IF rest = << >> THEN x ELSE Last(rest)
          BY <5>3, FirstAndRest
        <5> QED
          BY <5>1, <5>4
      <4>2. x.end = e
        BY <3>3
      <4> QED
        BY <4>1, <4>2 DEF After
    <3>9. <<x>> \o (rest \o more) = (<<x>> \o rest) \o more
      <4> HIDE DEF Y, rest, more
      <4> QED
        BY <3>7, ConcatAssociative, SMTT(40)
    <3> QED
      BY <3>1, <3>2, <3>6, <3>8, <3>9
  <2> QED
    BY <2>2, <2>3
<1>7. Nat \subseteq T
  <2> HIDE DEF T
  <2> QED
    BY <1>6, StrongInduction
<1>8. L - p \in Nat /\ L - p <= L /\ L - (L - p) = p
  BY <1>1
<1>9. Good(p)
  <2> HIDE DEF Good
  <2> QED
    BY <1>7, <1>8
<1> QED
  BY <1>9 DEF d

\* Cuts as many places further on.
Moved(x, e) == [at |-> x.at + e, end |-> x.end + e]
Shift(s, e) == [k \in DOMAIN s |-> Moved(s[k], e)]

LEMMA ShiftFacts ==
  ASSUME NEW N \in Nat, NEW M \in Nat, NEW e \in Nat, N + e <= M,
         NEW s \in Seq(Spots(N))
  PROVE  /\ Shift(s, e) \in Seq(Spots(M))
         /\ Len(s) \in Nat /\ Len(Shift(s, e)) = Len(s)
         /\ DOMAIN s = 1 .. Len(s) /\ DOMAIN Shift(s, e) = 1 .. Len(s)
         /\ \A k \in 1 .. Len(s) : /\ s[k].at \in 0 .. N /\ s[k].end \in 0 .. N
                                   /\ Shift(s, e)[k].at = s[k].at + e
                                   /\ Shift(s, e)[k].end = s[k].end + e
<1> DEFINE P == Spots(N)
           Q == Spots(M)
           t == Shift(s, e)
<1>1. Len(s) \in Nat /\ DOMAIN s = 1 .. Len(s)
  BY LenProperties
<1>2. \A k \in 1 .. Len(s) : s[k] \in P
  <2> HIDE DEF P
  <2>1. s \in Seq(P)
    BY DEF P
  <2> QED
    BY <2>1, ElementOfSeq
<1>3. \A k \in 1 .. Len(s) : s[k].at \in 0 .. N /\ s[k].end \in 0 .. N
  BY <1>2 DEF Spots
<1>4. DOMAIN t = 1 .. Len(s) /\ \A k \in 1 .. Len(s) : t[k] = Moved(s[k], e)
  BY <1>1 DEF Shift
<1>5. ASSUME NEW x, x.at \in 0 .. N, x.end \in 0 .. N
      PROVE  /\ Moved(x, e) \in Q
             /\ Moved(x, e).at = x.at + e /\ Moved(x, e).end = x.end + e
  <2>1. x.at + e \in 0 .. M /\ x.end + e \in 0 .. M
    BY <1>5, SMTT(40)
  <2> QED
    BY <2>1 DEF Moved, Spots
<1>6. t \in Seq(Q) /\ Len(t) = Len(s)
  <2>1. t = [k \in 1 .. Len(s) |-> t[k]]
    BY <1>1 DEF Shift
  <2> HIDE DEF t, Q
  <2>2. t \in [1 .. Len(s) -> Q]
    BY <1>3, <1>4, <1>5, <2>1
  <2> QED
    BY <1>1, <2>2, FunctionIsSeq
<1> HIDE DEF t
<1>7. \A k \in 1 .. Len(s) : t[k].at = s[k].at + e /\ t[k].end = s[k].end + e
  BY <1>3, <1>4, <1>5
<1> QED
  BY <1>1, <1>3, <1>4, <1>6, <1>7 DEF t

\* The search in the rest of a body finds what the search in the body does.
LEMMA FoundFrom ==
  ASSUME NEW X, NEW b \in Seq(X), NEW e \in 0 .. Len(b), NEW p \in 0 .. Len(b) - e
  PROVE  /\ Found(b, e + p) = {} <=> Found(From(b, e), p) = {}
         /\ Found(b, e + p) # {} => /\ At(b, e + p) = At(From(b, e), p) + e
                                    /\ End(b, e + p) = End(From(b, e), p) + e
<1> DEFINE f == From(b, e)
<1>1. f \in Seq(X) /\ Len(f) = Len(b) - e /\ Len(b) \in Nat /\ p \in 0 .. Len(f) /\ e + p \in 0 .. Len(b)
  BY FromFrom
<1>2. \A q \in 0 .. Len(b) - e : Delimiter(f, q) = Delimiter(b, e + q)
  BY DelimiterFrom
<1> HIDE DEF f
<1>3. \A q \in Found(f, p) : e + q \in Found(b, e + p)
  <2> SUFFICES ASSUME NEW q \in Found(f, p)
               PROVE  e + q \in Found(b, e + p)
    OBVIOUS
  <2>1. q \in p .. Len(f) /\ Delimiter(f, q) > 0
    BY DEF Found
  <2>2. q \in 0 .. Len(b) - e /\ e + q \in e + p .. Len(b)
    BY <1>1, <2>1
  <2> QED
    BY <1>2, <2>1, <2>2 DEF Found
<1>4. \A q \in Found(b, e + p) : q - e \in Found(f, p) /\ q \in Nat
  <2> SUFFICES ASSUME NEW q \in Found(b, e + p)
               PROVE  q - e \in Found(f, p) /\ q \in Nat
    OBVIOUS
  <2>1. q \in e + p .. Len(b) /\ Delimiter(b, q) > 0
    BY DEF Found
  <2>2. q - e \in 0 .. Len(b) - e /\ e + (q - e) = q /\ q - e \in p .. Len(f) /\ q \in Nat
    BY <1>1, <2>1
  <2> QED
    BY <1>2, <2>1, <2>2 DEF Found
<1>5. Found(b, e + p) = {} <=> Found(f, p) = {}
  BY <1>3, <1>4
<1>6. ASSUME Found(b, e + p) # {}
      PROVE  At(b, e + p) = At(f, p) + e /\ End(b, e + p) = End(f, p) + e
  <2> DEFINE y == At(b, e + p)
             z == At(f, p)
  <2>1. y \in Found(b, e + p) /\ \A q \in Found(b, e + p) : y <= q
    BY <1>1, <1>6, CutsUnfold
  <2>2. z \in Found(f, p) /\ \A q \in Found(f, p) : z <= q
    BY <1>1, <1>5, <1>6, CutsUnfold
  <2> HIDE DEF y, z
  <2>3. z \in 0 .. Len(b) - e
    BY <1>1, <2>2 DEF Found
  <2>4. y \in Nat /\ z <= y - e /\ y <= e + z
    BY <1>3, <1>4, <2>1, <2>2
  <2>5. y = z + e /\ y = e + z
    BY <1>1, <2>3, <2>4
  <2>6. Delimiter(f, z) = Delimiter(b, y)
    BY <1>2, <2>3, <2>5
  <2>7. y + Delimiter(b, y) = (z + Delimiter(f, z)) + e
    <3>1. Delimiter(b, y) \in Nat
      <4>1. y \in 0 .. Len(b)
        BY <1>1, <2>3, <2>5
      <4> QED
        BY <4>1, DelimiterBytes
    <3> QED
      BY <1>1, <2>3, <2>5, <2>6, <3>1
  <2> QED
    BY <2>5, <2>7 DEF y, z, End
<1> QED
  BY <1>5, <1>6 DEF f

LEMMA ShiftFirst ==
  ASSUME NEW N \in Nat, NEW M \in Nat, NEW e \in Nat, N + e <= M,
         NEW x \in Spots(N),
         NEW q \in Seq(Spots(N))
  PROVE  Shift(First(x, q), e) = First(Moved(x, e), Shift(q, e))
<1> DEFINE P == Spots(N)
           Q == Spots(M)
           r == First(x, q)
           y == Moved(x, e)
           s == Shift(q, e)
           t == First(y, s)
           u == Shift(r, e)
<1>1. x \in P /\ q \in Seq(P)
  OBVIOUS
<1>3. s \in Seq(Q) /\ Len(s) = Len(q) /\ Len(q) \in Nat
  BY ShiftFacts
<1>4. y \in Q
  <2>1. x.at + e \in 0 .. M /\ x.end + e \in 0 .. M
    BY DEF Spots
  <2> QED
    BY <2>1 DEF Moved, Spots
<1>5. \A k \in 1 .. Len(q) : s[k] = Moved(q[k], e)
  BY LenProperties DEF Shift
<1> HIDE DEF P, Q, y, s
<1>6. /\ r \in Seq(P) /\ Len(r) = Len(q) + 1 /\ DOMAIN r = 1 .. Len(q) + 1
      /\ r[1] = x /\ \A i \in 1 .. Len(q) : r[1 + i] = q[i]
  BY <1>1, FirstAndRest
<1>7. /\ t \in Seq(Q) /\ Len(t) = Len(q) + 1 /\ DOMAIN t = 1 .. Len(q) + 1
      /\ t[1] = y /\ \A i \in 1 .. Len(q) : t[1 + i] = s[i]
  <2>1. s \in Seq(Q)
    BY <1>3
  <2>2. /\ t \in Seq(Q) /\ Len(t) = Len(s) + 1 /\ DOMAIN t = 1 .. Len(s) + 1
        /\ t[1] = y /\ \A i \in 1 .. Len(s) : t[1 + i] = s[i]
    BY <1>4, <2>1, FirstAndRest
  <2> QED
    BY <1>3, <2>2
<1> HIDE DEF r, t
<1>8. u = [k \in 1 .. Len(q) + 1 |-> u[k]] /\ \A k \in 1 .. Len(q) + 1 : u[k] = Moved(r[k], e)
  <2>1. u = [k \in DOMAIN r |-> Moved(r[k], e)]
    BY DEF Shift
  <2> HIDE DEF u
  <2> QED
    BY <1>6, <2>1
<1>9. t = [k \in 1 .. Len(q) + 1 |-> t[k]]
  <2>1. t \in [1 .. Len(t) -> Q]
    BY <1>7, LenProperties
  <2> QED
    BY <1>7, <2>1
<1>10. ASSUME NEW k \in 1 .. Len(q) + 1
       PROVE  t[k] = Moved(r[k], e)
  <2>1. CASE k = 1
    BY <1>6, <1>7, <2>1 DEF y
  <2>2. CASE k # 1
    <3>1. k - 1 \in 1 .. Len(q) /\ 1 + (k - 1) = k
      BY <1>3, <2>2
    <3>2. t[1 + (k - 1)] = s[k - 1] /\ r[1 + (k - 1)] = q[k - 1] /\ s[k - 1] = Moved(q[k - 1], e)
      BY <1>5, <1>6, <1>7, <3>1
    <3> QED
      BY <3>1, <3>2
  <2> QED
    BY <2>1, <2>2
<1>11. u = t
  <2> HIDE DEF u
  <2>1. \A k \in 1 .. Len(q) + 1 : u[k] = t[k]
    BY <1>8, <1>10
  <2> QED
    BY <1>8, <1>9, <2>1
<1> QED
  BY <1>11 DEF u, r, t, y, s

LEMMA CutsShift ==
  ASSUME NEW X, NEW b \in Seq(X), NEW e \in 0 .. Len(b), NEW p \in 0 .. Len(b) - e
  PROVE  Cuts(b, e + p) = Shift(Cuts(From(b, e), p), e)
<1> DEFINE f == From(b, e)
           N == Len(b) - e
           Good(q) == Cuts(b, e + q) = Shift(Cuts(f, q), e)
           T == {m \in Nat : m <= N => Good(N - m)}
<1>1. f \in Seq(X) /\ Len(b) \in Nat /\ Len(f) = N /\ N \in Nat /\ e \in Nat
  BY FromFacts
<1>2. \A q \in 0 .. N : /\ Found(b, e + q) = {} <=> Found(f, q) = {}
                        /\ Found(b, e + q) # {} => /\ At(b, e + q) = At(f, q) + e
                                                   /\ End(b, e + q) = End(f, q) + e
  BY FoundFrom
<1> HIDE DEF f, N
<1>3. Len(b) \in Nat /\ N + e <= Len(b) /\ \A q \in 0 .. N : e + q \in 0 .. Len(b)
  BY <1>1 DEF N
<1>4. ASSUME NEW m \in Nat, \A k \in 0 .. m - 1 : k \in T
      PROVE  m \in T
  <2> SUFFICES ASSUME m <= N
               PROVE  Good(N - m)
    OBVIOUS
  <2> DEFINE q == N - m
             x == Cut(f, q)
             z == End(f, q)
             rest == Cuts(f, z)
  <2>1. q \in 0 .. N /\ q \in 0 .. Len(f)
    BY <1>1
  <2>2. CASE Found(f, q) = {}
    <3>1. Cuts(f, q) = << >>
      BY <1>1, <2>1, <2>2, CutsUnfold
    <3>2. Cuts(b, e + q) = << >>
      <4>1. Found(b, e + q) = {} /\ e + q \in 0 .. Len(b)
        BY <1>2, <1>3, <2>1, <2>2
      <4> QED
        BY <4>1, CutsUnfold
    <3>3. Shift(<< >>, e) = << >>
      BY DEF Shift
    <3> QED
      BY <3>1, <3>2, <3>3
  <2>3. CASE Found(f, q) # {}
    <3>1. z \in q + 1 .. N /\ At(f, q) \in 0 .. N /\ Cuts(f, q) = First(x, rest)
      <4>1. z \in q + 1 .. Len(f) /\ At(f, q) \in 0 .. Len(f) /\ Cuts(f, q) = <<x>> \o rest
        BY <1>1, <2>1, <2>3, CutsUnfold
      <4> QED
        BY <1>1, <4>1 DEF First
    <3>2. Cuts(b, e + q) = First(Cut(b, e + q), Cuts(b, End(b, e + q)))
      <4>1. Found(b, e + q) # {} /\ e + q \in 0 .. Len(b)
        BY <1>2, <1>3, <2>1, <2>3
      <4> QED
        BY <4>1, CutsUnfold DEF First
    <3>3. End(b, e + q) = z + e /\ Cut(b, e + q) = Moved(x, e)
      <4>1. At(b, e + q) = At(f, q) + e /\ End(b, e + q) = End(f, q) + e
        BY <1>2, <2>1, <2>3
      <4> QED
        BY <4>1 DEF Cut, Moved
    <3>4. x \in Spots(N)
      <4>1. z \in 0 .. N
        BY <1>1, <2>1, <3>1
      <4> QED
        BY <3>1, <4>1 DEF Cut, Spots
    <3> HIDE DEF x, z
    <3>5. N - z \in 0 .. m - 1 /\ N - (N - z) = z /\ N - z <= N /\ z + e = e + z /\ z \in 0 .. Len(f)
      BY <1>1, <2>1, <3>1
    <3>6. Cuts(b, z + e) = Shift(rest, e)
      BY <1>4, <3>5
    <3>7. rest \in Seq(Spots(N))
      <4>1. rest \in Seq(Spots(Len(f)))
        BY <1>1, <3>5, AfterFacts DEF Places
      <4> QED
        BY <1>1, <4>1
    <3>8. Shift(First(x, rest), e) = First(Moved(x, e), Shift(rest, e))
      <4> HIDE DEF rest
      <4> QED
        BY <1>1, <1>3, <3>4, <3>7, ShiftFirst, ZenonT(60)
    <3> QED
      BY <3>1, <3>2, <3>3, <3>6, <3>8
  <2> QED
    BY <2>2, <2>3
<1>5. Nat \subseteq T
  <2> HIDE DEF T
  <2> QED
    BY <1>4, StrongInduction
<1>6. N - p \in Nat /\ N - p <= N /\ N - (N - p) = p
  BY <1>1 DEF N
<1>7. Good(p)
  <2> HIDE DEF Good
  <2> QED
    BY <1>5, <1>6
<1> QED
  BY <1>7 DEF f

LEMMA PartOfConcat ==
  ASSUME NEW X, NEW b \in Seq(X), NEW c \in Seq(X), NEW lo \in Nat \ {0}, NEW hi \in 0 .. Len(b)
  PROVE  SubSeq(b \o c, lo, hi) = SubSeq(b, lo, hi)
<1> DEFINE d == b \o c
           s == SubSeq(b, lo, hi)
           t == SubSeq(d, lo, hi)
           n == IF lo <= hi THEN hi - lo + 1 ELSE 0
<1>1. d \in Seq(X) /\ Len(b) \in Nat /\ \A i \in 1 .. Len(b) : d[i] = b[i] /\ b[i] \in X
  BY ConcatFacts, ElementOfSeq
<1> HIDE DEF d
<1>2. lo \in Int /\ hi \in Int /\ \A i \in lo .. hi : i \in 1 .. Len(b)
  BY <1>1
<1>3. \A i \in lo .. hi : b[i] \in X /\ d[i] = b[i]
  BY <1>1, <1>2
<1>4. /\ s \in Seq(X) /\ Len(s) = n
      /\ \A i \in 1 .. hi - lo + 1 : s[i] = b[lo + i - 1]
  BY <1>2, <1>3, SubSeqProperties
<1>5. \A i \in lo .. hi : d[i] \in X
  BY <1>3
<1>6. /\ t \in Seq(X) /\ Len(t) = n
      /\ \A i \in 1 .. hi - lo + 1 : t[i] = d[lo + i - 1]
  BY <1>2, <1>5, SubSeqProperties
<1> HIDE DEF s, t
<1>7. ASSUME NEW i \in 1 .. Len(s)
      PROVE  s[i] = t[i]
  <2>1. i \in 1 .. hi - lo + 1 /\ lo + i - 1 \in lo .. hi
    BY <1>1, <1>4
  <2> QED
    BY <1>3, <1>4, <1>6, <2>1
<1>8. s = t
  BY <1>4, <1>6, <1>7, SeqEqual
<1> QED
  BY <1>8 DEF s, t, d

LEMMA PartOfRest ==
  ASSUME NEW X, NEW b \in Seq(X), NEW e \in 0 .. Len(b), NEW lo \in Nat \ {0},
         NEW hi \in 0 .. Len(b) - e
  PROVE  SubSeq(b, lo + e, hi + e) = SubSeq(From(b, e), lo, hi)
<1> DEFINE f == From(b, e)
           s == SubSeq(b, lo + e, hi + e)
           t == SubSeq(f, lo, hi)
           n == IF lo <= hi THEN hi - lo + 1 ELSE 0
<1>1. /\ f \in Seq(X) /\ Len(b) \in Nat /\ \A i \in 1 .. Len(b) : b[i] \in X
      /\ \A i \in 1 .. Len(b) - e : f[i] = b[e + i]
  BY FromFacts, ElementOfSeq
<1> HIDE DEF f
<1>2. /\ lo \in Int /\ hi \in Int /\ lo + e \in Int /\ hi + e \in Int /\ e \in Int
      /\ \A i \in lo + e .. hi + e : i \in 1 .. Len(b)
      /\ \A i \in lo .. hi : i \in 1 .. Len(b) - e /\ e + i \in 1 .. Len(b)
      /\ (hi + e) - (lo + e) + 1 = hi - lo + 1 /\ (lo + e <= hi + e <=> lo <= hi)
  BY <1>1
<1>3. /\ \A i \in lo + e .. hi + e : b[i] \in X
      /\ \A i \in lo .. hi : f[i] \in X /\ f[i] = b[e + i]
  <2>1. \A i \in lo .. hi : f[i] = b[e + i] /\ b[e + i] \in X
    BY <1>1, <1>2
  <2> QED
    BY <1>1, <1>2, <2>1
<1>4. /\ s \in Seq(X) /\ Len(s) = n
      /\ \A i \in 1 .. hi - lo + 1 : s[i] = b[(lo + e) + i - 1]
  <2>1. /\ s \in Seq(X)
        /\ Len(s) = IF lo + e <= hi + e THEN (hi + e) - (lo + e) + 1 ELSE 0
        /\ \A i \in 1 .. (hi + e) - (lo + e) + 1 : s[i] = b[(lo + e) + i - 1]
    <3> DEFINE l == lo + e
               h == hi + e
    <3>1. l \in Int /\ h \in Int /\ \A i \in l .. h : b[i] \in X
      BY <1>2, <1>3
    <3> HIDE DEF l, h
    <3>2. /\ SubSeq(b, l, h) \in Seq(X)
          /\ Len(SubSeq(b, l, h)) = IF l <= h THEN h - l + 1 ELSE 0
          /\ \A i \in 1 .. h - l + 1 : SubSeq(b, l, h)[i] = b[l + i - 1]
      BY <3>1, SubSeqProperties, SMTT(40)
    <3> QED
      BY <3>2 DEF l, h
  <2> HIDE DEF s
  <2> QED
    BY <1>2, <2>1
<1>5. /\ t \in Seq(X) /\ Len(t) = n
      /\ \A i \in 1 .. hi - lo + 1 : t[i] = f[lo + i - 1]
  <2>1. lo \in Int /\ hi \in Int /\ \A i \in lo .. hi : f[i] \in X
    BY <1>2, <1>3
  <2> QED
    BY <2>1, SubSeqProperties
<1> HIDE DEF s, t
<1>6. ASSUME NEW i \in 1 .. Len(s)
      PROVE  s[i] = t[i]
  <2>1. /\ i \in 1 .. hi - lo + 1 /\ lo + i - 1 \in lo .. hi
        /\ e + (lo + i - 1) = (lo + e) + i - 1
    BY <1>2, <1>4
  <2> QED
    BY <1>3, <1>4, <1>5, <2>1
<1>7. s = t
  BY <1>4, <1>5, <1>6, SeqEqual
<1> QED
  BY <1>7 DEF s, t, f

\* The frames between cuts.
Start(cuts, k) == IF k = 1 THEN 1 ELSE cuts[k - 1].end + 1

LEMMA SplitFacts ==
  ASSUME NEW X, NEW b \in Seq(X), NEW cuts \in Seq(Spots(Len(b)))
  PROVE  /\ Split(b, cuts) \in Seq(Seq(X)) /\ Len(cuts) \in Nat /\ Len(Split(b, cuts)) = Len(cuts)
         /\ DOMAIN Split(b, cuts) = 1 .. Len(cuts) /\ DOMAIN cuts = 1 .. Len(cuts)
         /\ \A k \in 1 .. Len(cuts) :
              /\ Split(b, cuts)[k] = SubSeq(b, Start(cuts, k), cuts[k].at)
              /\ Start(cuts, k) \in Nat \ {0} /\ cuts[k].at \in 0 .. Len(b)
              /\ cuts[k].end \in 0 .. Len(b)
<1> DEFINE fs == Split(b, cuts)
           n == Len(cuts)
<1>1. n \in Nat /\ DOMAIN cuts = 1 .. n /\ Len(b) \in Nat
  BY LenProperties
<1>2. fs = [k \in 1 .. n |-> SubSeq(b, Start(cuts, k), cuts[k].at)]
  BY <1>1 DEF Split, Start
<1>3. \A k \in 1 .. n : cuts[k].at \in 0 .. Len(b) /\ cuts[k].end \in 0 .. Len(b)
  <2>1. \A k \in 1 .. n : cuts[k] \in Spots(Len(b))
    BY ElementOfSeq
  <2> QED
    BY <2>1 DEF Spots
<1>4. \A k \in 1 .. n : Start(cuts, k) \in Nat \ {0}
  <2> SUFFICES ASSUME NEW k \in 1 .. n
               PROVE  Start(cuts, k) \in Nat \ {0}
    OBVIOUS
  <2>1. k # 1 => k - 1 \in 1 .. n
    BY <1>1
  <2>2. k # 1 => cuts[k - 1].end \in 0 .. Len(b)
    BY <1>3, <2>1
  <2>3. k # 1 => cuts[k - 1].end + 1 \in Nat \ {0}
    BY <1>1, <2>2
  <2> QED
    BY <2>3 DEF Start
<1>5. \A k \in 1 .. n : SubSeq(b, Start(cuts, k), cuts[k].at) \in Seq(X)
  <2> SUFFICES ASSUME NEW k \in 1 .. n
               PROVE  SubSeq(b, Start(cuts, k), cuts[k].at) \in Seq(X)
    OBVIOUS
  <2> DEFINE lo == Start(cuts, k)
             hi == cuts[k].at
  <2>1. lo \in Nat \ {0} /\ hi \in 0 .. Len(b)
    BY <1>3, <1>4
  <2> HIDE DEF lo, hi
  <2>2. lo \in Int /\ hi \in Int /\ \A i \in lo .. hi : b[i] \in X
    <3>1. \A i \in lo .. hi : i \in 1 .. Len(b)
      BY <1>1, <2>1
    <3> QED
      BY <1>1, <2>1, <3>1, ElementOfSeq
  <2>3. SubSeq(b, lo, hi) \in Seq(X)
    BY <2>2, SubSeqProperties
  <2> QED
    BY <2>3 DEF lo, hi
<1>6. DOMAIN fs = 1 .. n /\ \A k \in 1 .. n : fs[k] = SubSeq(b, Start(cuts, k), cuts[k].at)
  BY <1>2
<1>7. fs \in Seq(Seq(X)) /\ Len(fs) = n
  <2>1. fs \in [1 .. n -> Seq(X)]
    BY <1>2, <1>5
  <2> HIDE DEF fs
  <2> QED
    BY <1>1, <2>1, FunctionIsSeq
<1> HIDE DEF fs
<1> QED
  BY <1>1, <1>3, <1>4, <1>6, <1>7 DEF fs

\* Where the next search begins.
Behind(cuts) == IF cuts = << >> THEN 0 ELSE Last(cuts).end

LEMMA BehindFacts ==
  ASSUME NEW N \in Nat, NEW cuts \in Seq(Spots(N))
  PROVE  /\ Behind(cuts) \in 0 .. N
         /\ cuts # << >> => Len(cuts) \in 1 .. Len(cuts) /\ Behind(cuts) = cuts[Len(cuts)].end
<1>1. Len(cuts) \in Nat /\ \A k \in 1 .. Len(cuts) : cuts[k] \in Spots(N)
  BY LenProperties, ElementOfSeq
<1>2. \A k \in 1 .. Len(cuts) : cuts[k].end \in 0 .. N
  BY <1>1 DEF Spots
<1>3. cuts # << >> => Len(cuts) \in 1 .. Len(cuts)
  BY <1>1, EmptySeq
<1>4. cuts # << >> => Behind(cuts) = cuts[Len(cuts)].end
  BY DEF Behind, Last
<1>5. cuts = << >> => Behind(cuts) = 0
  BY DEF Behind
<1> QED
  BY <1>2, <1>3, <1>4, <1>5

\* Two sequences in a row.
InARow(X, q, r, c) ==
  /\ c \in Seq(X) /\ Len(q) \in Nat /\ Len(r) \in Nat /\ Len(c) = Len(q) + Len(r)
  /\ DOMAIN q = 1 .. Len(q) /\ DOMAIN r = 1 .. Len(r) /\ DOMAIN c = 1 .. Len(q) + Len(r)
  /\ \A i \in 1 .. Len(q) : c[i] = q[i]
  /\ \A i \in 1 .. Len(r) : c[Len(q) + i] = r[i]

LEMMA JoinedFacts ==
  ASSUME NEW X, NEW q \in Seq(X), NEW r \in Seq(X)
  PROVE  InARow(X, q, r, Joined(q, r))
<1> DEFINE c == q \o r
<1>1. /\ c \in Seq(X) /\ Len(q) \in Nat /\ Len(r) \in Nat /\ Len(c) = Len(q) + Len(r)
      /\ DOMAIN q = 1 .. Len(q) /\ DOMAIN r = 1 .. Len(r) /\ DOMAIN c = 1 .. Len(q) + Len(r)
      /\ \A i \in 1 .. Len(q) : c[i] = q[i]
      /\ \A i \in 1 .. Len(r) : c[Len(q) + i] = r[i]
  BY ConcatFacts
<1>2. Joined(q, r) = c
  BY DEF Joined
<1> HIDE DEF c
<1> QED
  BY <1>1, <1>2 DEF InARow

\* The parts of b are parts of d, e places further on.
SameParts(d, e, b) ==
  \A lo \in Nat \ {0} : \A hi \in 0 .. Len(b) :
    SubSeq(d, lo + e, hi + e) = SubSeq(b, lo, hi)

\* The frames of a body d are those of its beginning b and those of the rest f.
LEMMA SplitJoins ==
  ASSUME NEW X, NEW d \in Seq(X), NEW b \in Seq(X), NEW f \in Seq(X),
         NEW N \in Nat, NEW M \in Nat, NEW K \in Nat, NEW e \in Nat,
         N = Len(b), M = Len(f), K = Len(d), N <= K, M + e = K,
         NEW p \in Seq(Spots(N)), NEW q \in Seq(Spots(M)), e = Behind(p),
         SameParts(d, 0, b), SameParts(d, e, f)
  PROVE  Split(d, Joined(p, Shift(q, e))) = Joined(Split(b, p), Split(f, q))
<1> DEFINE s == Shift(q, e)
           r == Joined(p, s)
           n == Len(p)
           m == Len(q)
           left == Split(d, r)
           F == Split(b, p)
           G == Split(f, q)
           right == Joined(F, G)
<1>1. /\ n \in Nat /\ m \in Nat
      /\ p # << >> => e = p[n].end /\ n # 0
      /\ p = << >> => e = 0 /\ n = 0
  <2>1. /\ Behind(p) \in 0 .. N
        /\ p # << >> => Len(p) \in 1 .. Len(p) /\ Behind(p) = p[Len(p)].end
    BY BehindFacts
  <2>2. Len(p) \in Nat /\ Len(q) \in Nat
    BY LenProperties
  <2>3. p = << >> => Behind(p) = 0 /\ Len(p) = 0
    BY DEF Behind
  <2> QED
    BY <2>1, <2>2, <2>3
<1>2. /\ s \in Seq(Spots(K)) /\ Len(s) = m
      /\ \A k \in 1 .. m : /\ q[k].at \in 0 .. M /\ q[k].end \in 0 .. M
                           /\ s[k].at = q[k].at + e /\ s[k].end = q[k].end + e
  BY ShiftFacts, SMTT(40)
<1>3. p \in Seq(Spots(K))
  <2>1. Spots(N) \subseteq Spots(K)
    BY SMTT(40) DEF Spots
  <2> QED
    BY <2>1, SeqMonotonic
<1> HIDE DEF s
<1>4. /\ r \in Seq(Spots(K)) /\ Len(r) = n + m
      /\ \A i \in 1 .. n : r[i] = p[i]
      /\ \A i \in 1 .. m : r[n + i] = s[i]
  <2>1. InARow(Spots(K), p, s, r)
    BY <1>2, <1>3, JoinedFacts
  <2> HIDE DEF r
  <2> QED
    BY <1>2, <2>1 DEF InARow
<1> HIDE DEF r
<1>5. /\ left \in Seq(Seq(X)) /\ Len(left) = n + m
      /\ \A k \in 1 .. n + m : left[k] = SubSeq(d, Start(r, k), r[k].at)
  <2>1. /\ left \in Seq(Seq(X)) /\ Len(left) = Len(r)
        /\ \A k \in 1 .. Len(r) : left[k] = SubSeq(d, Start(r, k), r[k].at)
    <3>1. r \in Seq(Spots(Len(d)))
      BY <1>4
    <3>2. left \in Seq(Seq(X))
      BY <3>1, SplitFacts
    <3>3. Len(left) = Len(r)
      BY <3>1, SplitFacts
    <3>4. ASSUME NEW k \in 1 .. Len(r)
          PROVE  left[k] = SubSeq(d, Start(r, k), r[k].at)
      <4>1. PICK D, S : D = d /\ S = r
        OBVIOUS
      <4>2. D \in Seq(X) /\ S \in Seq(Spots(Len(D))) /\ k \in 1 .. Len(S)
        BY <3>1, <4>1
      <4>3. Split(D, S)[k] = SubSeq(D, Start(S, k), S[k].at)
        BY <4>2, SplitFacts, SMTT(40)
      <4> QED
        BY <4>1, <4>3
    <3> HIDE DEF left
    <3> QED
      BY <3>2, <3>3, <3>4
  <2> HIDE DEF left
  <2> QED
    BY <1>4, <2>1
<1>6. /\ F \in Seq(Seq(X)) /\ Len(F) = n
      /\ \A k \in 1 .. n : /\ F[k] = SubSeq(b, Start(p, k), p[k].at)
                           /\ Start(p, k) \in Nat \ {0} /\ p[k].at \in 0 .. Len(b)
  <2>1. p \in Seq(Spots(Len(b)))
    OBVIOUS
  <2>2. F \in Seq(Seq(X))
    BY <2>1, SplitFacts
  <2>3. Len(F) = n
    BY <2>1, SplitFacts
  <2>4. \A k \in 1 .. n : F[k] = SubSeq(b, Start(p, k), p[k].at)
    BY <2>1, SplitFacts, SMTT(40)
  <2>5. \A k \in 1 .. n : Start(p, k) \in Nat \ {0} /\ p[k].at \in 0 .. Len(b)
    BY <2>1, SplitFacts
  <2> HIDE DEF F
  <2> QED
    BY <2>2, <2>3, <2>4, <2>5
<1>7. /\ G \in Seq(Seq(X)) /\ Len(G) = m
      /\ \A k \in 1 .. m : /\ G[k] = SubSeq(f, Start(q, k), q[k].at)
                           /\ Start(q, k) \in Nat \ {0}
  <2>1. q \in Seq(Spots(Len(f)))
    OBVIOUS
  <2>2. G \in Seq(Seq(X))
    BY <2>1, SplitFacts
  <2>3. Len(G) = m
    BY <2>1, SplitFacts
  <2>4. \A k \in 1 .. m : G[k] = SubSeq(f, Start(q, k), q[k].at)
    BY <2>1, SplitFacts, SMTT(40)
  <2>5. \A k \in 1 .. m : Start(q, k) \in Nat \ {0}
    BY <2>1, SplitFacts
  <2> HIDE DEF G
  <2> QED
    BY <2>2, <2>3, <2>4, <2>5
<1> HIDE DEF left, F, G
<1>8. /\ right \in Seq(Seq(X)) /\ Len(right) = n + m
      /\ \A i \in 1 .. n : right[i] = F[i]
      /\ \A i \in 1 .. m : right[n + i] = G[i]
  <2>1. InARow(Seq(X), F, G, right)
    BY <1>6, <1>7, JoinedFacts
  <2> HIDE DEF right
  <2> QED
    BY <1>6, <1>7, <2>1 DEF InARow
<1> HIDE DEF right
<1>9. ASSUME NEW k \in 1 .. n
      PROVE  left[k] = right[k]
  <2>1. k \in 1 .. n + m /\ (k # 1 => k - 1 \in 1 .. n)
    BY <1>1, SMTT(40)
  <2>2. Start(r, k) = Start(p, k) /\ r[k].at = p[k].at
    BY <1>4, <2>1 DEF Start
  <2>3. left[k] = SubSeq(d, Start(p, k), p[k].at)
    BY <1>5, <2>1, <2>2
  <2>4. SubSeq(d, Start(p, k) + 0, p[k].at + 0) = SubSeq(b, Start(p, k), p[k].at)
    BY <1>6 DEF SameParts
  <2>5. Start(p, k) + 0 = Start(p, k) /\ p[k].at + 0 = p[k].at
    BY <1>6, SMTT(40)
  <2> QED
    BY <1>6, <1>8, <2>3, <2>4, <2>5
<1>10. ASSUME NEW k \in 1 .. m
       PROVE  left[n + k] = right[n + k]
  <2>1. n + k \in 1 .. n + m
    BY <1>1
  <2>2. r[n + k].at = q[k].at + e /\ q[k].at \in 0 .. M
    BY <1>2, <1>4
  <2>3. Start(r, n + k) = Start(q, k) + e
    <3>1. CASE k = 1 /\ p = << >>
      <4>1. n + k = 1 /\ e = 0
        BY <1>1, <3>1
      <4> QED
        BY <3>1, <4>1 DEF Start
    <3>2. CASE k = 1 /\ p # << >>
      <4>1. n + k # 1 /\ (n + k) - 1 = n /\ n \in 1 .. n
        BY <1>1, <3>2, SMTT(40)
      <4>2. r[n].end = e
        BY <1>1, <1>4, <3>2, <4>1
      <4>3. Start(r, n + k) = e + 1 /\ Start(q, k) = 1
        BY <3>2, <4>1, <4>2 DEF Start
      <4> QED
        BY <4>3
    <3>3. CASE k # 1
      <4>1. n + k # 1 /\ (n + k) - 1 = n + (k - 1) /\ k - 1 \in 1 .. m
        BY <1>1, <3>3, SMTT(40)
      <4>2. r[n + (k - 1)].end = q[k - 1].end + e /\ q[k - 1].end \in 0 .. M
        BY <1>2, <1>4, <4>1
      <4>3. Start(r, n + k) = (q[k - 1].end + e) + 1 /\ Start(q, k) = q[k - 1].end + 1
        BY <3>3, <4>1, <4>2 DEF Start
      <4>4. (q[k - 1].end + e) + 1 = (q[k - 1].end + 1) + e
        BY <4>2, SMTT(40)
      <4> QED
        BY <4>3, <4>4
    <3> QED
      BY <3>1, <3>2, <3>3
  <2>4. left[n + k] = SubSeq(d, Start(q, k) + e, q[k].at + e)
    BY <1>5, <2>1, <2>2, <2>3
  <2>5. SubSeq(d, Start(q, k) + e, q[k].at + e) = SubSeq(f, Start(q, k), q[k].at)
    BY <1>7, <2>2 DEF SameParts
  <2> QED
    BY <1>7, <1>8, <2>4, <2>5
<1>11. ASSUME NEW k \in 1 .. Len(left)
       PROVE  left[k] = right[k]
  <2>1. CASE k \in 1 .. n
    BY <1>9, <2>1
  <2>2. CASE k \notin 1 .. n
    <3>1. k - n \in 1 .. m /\ n + (k - n) = k
      BY <1>1, <1>5, <2>2
    <3> QED
      BY <1>10, <3>1
  <2> QED
    BY <2>1, <2>2
<1>12. left = right
  BY <1>5, <1>8, <1>11, SeqEqual
<1> QED
  BY <1>12 DEF left, right, r, F, G, s

\* The events of frames in a row.
LEMMA PayloadIsSeq ==
  ASSUME NEW X, NEW f \in Seq(X)
  PROVE  Payload(f) \in Seq(X)
<1> DEFINE Q == {j \in DOMAIN f : f[j] \notin {CR, LF}}
<1> HIDE DEF Q
<1>1. Kept(f, Q) \in Seq(X)
  BY KeptPositions
<1> QED
  BY <1>1 DEF Payload, Q

Data(fs) == [k \in DOMAIN fs |-> Payload(fs[k])]
Full(data) == {k \in DOMAIN data : data[k] # << >>}

LEMMA DataFacts ==
  ASSUME NEW X, NEW fs \in Seq(Seq(X))
  PROVE  /\ Data(fs) \in Seq(Seq(X)) /\ Len(fs) \in Nat /\ Len(Data(fs)) = Len(fs)
         /\ DOMAIN fs = 1 .. Len(fs)
         /\ \A k \in 1 .. Len(fs) : Data(fs)[k] = Payload(fs[k])
         /\ Decoded(fs) = Kept(Data(fs), Full(Data(fs)))
         /\ Decoded(fs) \in Seq(Seq(X))
<1> DEFINE n == Len(fs)
           data == Data(fs)
<1>1. n \in Nat /\ DOMAIN fs = 1 .. n /\ \A k \in 1 .. n : fs[k] \in Seq(X)
  BY LenProperties, ElementOfSeq
<1>2. \A k \in 1 .. n : Payload(fs[k]) \in Seq(X)
  BY <1>1, PayloadIsSeq
<1>3. data = [k \in 1 .. n |-> data[k]] /\ \A k \in 1 .. n : data[k] = Payload(fs[k])
  BY <1>1 DEF Data
<1> HIDE DEF data
<1>4. data \in Seq(Seq(X)) /\ Len(data) = n
  <2>1. data \in [1 .. n -> Seq(X)]
    BY <1>2, <1>3
  <2> QED
    BY <1>1, <2>1, FunctionIsSeq
<1>5. Decoded(fs) = Kept(data, Full(data))
  BY DEF Decoded, Full, Data, data
<1>6. Kept(data, Full(data)) \in Seq(Seq(X))
  BY <1>4, KeptPositions
<1> QED
  BY <1>1, <1>3, <1>4, <1>5, <1>6 DEF data

LEMMA DecodedJoins ==
  ASSUME NEW X, NEW f \in Seq(Seq(X)), NEW g \in Seq(Seq(X))
  PROVE  Decoded(Joined(f, g)) = Joined(Decoded(f), Decoded(g))
<1> DEFINE h == Joined(f, g)
           n == Len(f)
           m == Len(g)
           F == Data(f)
           G == Data(g)
           H == Data(h)
           J == Joined(F, G)
<1>1. /\ h \in Seq(Seq(X)) /\ n \in Nat /\ m \in Nat /\ Len(h) = n + m
      /\ \A i \in 1 .. n : h[i] = f[i]
      /\ \A i \in 1 .. m : h[n + i] = g[i]
  <2>1. InARow(Seq(X), f, g, h)
    BY JoinedFacts
  <2> HIDE DEF h
  <2> QED
    BY <2>1 DEF InARow
<1> HIDE DEF h
<1>2. /\ F \in Seq(Seq(X)) /\ Len(F) = n /\ \A k \in 1 .. n : F[k] = Payload(f[k])
      /\ Decoded(f) = Kept(F, Full(F))
  BY DataFacts
<1>3. /\ G \in Seq(Seq(X)) /\ Len(G) = m /\ \A k \in 1 .. m : G[k] = Payload(g[k])
      /\ Decoded(g) = Kept(G, Full(G))
  BY DataFacts
<1>4. /\ H \in Seq(Seq(X)) /\ Len(H) = n + m /\ \A k \in 1 .. n + m : H[k] = Payload(h[k])
      /\ Decoded(h) = Kept(H, Full(H))
  <2>1. h \in Seq(Seq(X)) /\ Len(h) = n + m
    BY <1>1
  <2>2. /\ H \in Seq(Seq(X)) /\ Len(H) = Len(h) /\ \A k \in 1 .. Len(h) : H[k] = Payload(h[k])
        /\ Decoded(h) = Kept(H, Full(H))
    BY <2>1, DataFacts
  <2> QED
    BY <2>1, <2>2
<1> HIDE DEF F, G, H
<1>5. /\ J \in Seq(Seq(X)) /\ Len(J) = n + m
      /\ \A i \in 1 .. n : J[i] = F[i]
      /\ \A i \in 1 .. m : J[n + i] = G[i]
  <2>1. F \in Seq(Seq(X)) /\ G \in Seq(Seq(X))
    BY <1>2, <1>3
  <2>2. InARow(Seq(X), F, G, J)
    BY <2>1, JoinedFacts
  <2> HIDE DEF J
  <2> QED
    BY <1>2, <1>3, <2>2 DEF InARow
<1> HIDE DEF J
<1>6. ASSUME NEW k \in 1 .. Len(H)
      PROVE  H[k] = J[k]
  <2>1. CASE k \in 1 .. n
    <3>1. k \in 1 .. n + m
      BY <1>4
    <3>2. H[k] = Payload(f[k]) /\ J[k] = Payload(f[k])
      BY <1>1, <1>2, <1>4, <1>5, <2>1, <3>1
    <3> QED
      BY <3>2
  <2>2. CASE k \notin 1 .. n
    <3>1. PICK i \in 1 .. m : k = n + i
      <4>1. k - n \in 1 .. m /\ k = n + (k - n)
        BY <1>1, <1>4, <2>2
      <4> QED
        BY <4>1
    <3>2. n + i \in 1 .. n + m
      BY <1>4, <3>1
    <3>3. H[n + i] = Payload(g[i]) /\ J[n + i] = Payload(g[i])
      BY <1>1, <1>3, <1>4, <1>5, <3>2
    <3> QED
      BY <3>1, <3>3
  <2> QED
    BY <2>1, <2>2
<1>7. H = J
  BY <1>4, <1>5, <1>6, SeqEqual
<1>8. Kept(Joined(F, G), Full(J)) = Joined(Kept(F, Full(F)), Kept(G, Full(G)))
  <2>1. DOMAIN F = 1 .. n /\ DOMAIN G = 1 .. m /\ DOMAIN J = 1 .. n + m
    BY <1>2, <1>3, <1>5, LenProperties
  <2>2. \A i \in 1 .. n : i \in Full(J) <=> i \in Full(F)
    <3> SUFFICES ASSUME NEW i \in 1 .. n
                 PROVE  i \in Full(J) <=> i \in Full(F)
      OBVIOUS
    <3>1. i \in 1 .. n + m
      BY <1>1
    <3>2. J[i] = F[i]
      BY <1>5
    <3> QED
      BY <2>1, <3>1, <3>2 DEF Full
  <2>3. \A i \in 1 .. m : n + i \in Full(J) <=> i \in Full(G)
    <3> SUFFICES ASSUME NEW i \in 1 .. m
                 PROVE  n + i \in Full(J) <=> i \in Full(G)
      OBVIOUS
    <3>1. n + i \in 1 .. n + m
      BY <1>1
    <3>2. J[n + i] = G[i]
      BY <1>5
    <3> QED
      BY <2>1, <3>1, <3>2 DEF Full
  <2>4. Lines(Full(F), Full(G), Full(J), F, G)
    BY <1>2, <1>3, <2>2, <2>3 DEF Lines
  <2>5. F \in Seq(Seq(X)) /\ G \in Seq(Seq(X))
    BY <1>2, <1>3
  <2> QED
    BY <2>4, <2>5, KeptJoins
<1> QED
  BY <1>2, <1>3, <1>4, <1>7, <1>8 DEF h, J

\* A body d whose frames are those of b up to place e, and those of f behind it.
Divided(X, d, b, f, e, p, q) ==
  /\ d \in Seq(X) /\ b \in Seq(X) /\ f \in Seq(X) /\ e \in Nat
  /\ {Len(b), Len(f), Len(d)} \subseteq Nat
  /\ Len(b) <= Len(d) /\ Len(f) + e = Len(d) /\ e = Behind(p)
  /\ p \in Seq(Spots(Len(b))) /\ q \in Seq(Spots(Len(f)))
  /\ SameParts(d, 0, b) /\ SameParts(d, e, f)

LEMMA SplitDivided ==
  ASSUME NEW X, NEW d, NEW b, NEW f, NEW e, NEW p, NEW q, Divided(X, d, b, f, e, p, q)
  PROVE  Split(d, Joined(p, Shift(q, e))) = Joined(Split(b, p), Split(f, q))
<1>1. PICK n, m, k : n = Len(b) /\ m = Len(f) /\ k = Len(d)
  OBVIOUS
<1>2. n \in Nat /\ m \in Nat /\ k \in Nat
  BY <1>1 DEF Divided
<1>3. n <= k /\ m + e = k /\ e = Behind(p)
  BY <1>1 DEF Divided
<1>4. d \in Seq(X) /\ b \in Seq(X) /\ f \in Seq(X) /\ e \in Nat
  BY DEF Divided
<1>5. p \in Seq(Spots(n)) /\ q \in Seq(Spots(m))
  BY <1>1 DEF Divided
<1>6. SameParts(d, 0, b) /\ SameParts(d, e, f)
  BY DEF Divided
<1> QED
  BY <1>1, <1>2, <1>3, <1>4, <1>5, <1>6, SplitJoins, SMTT(40)

\* A body that grows: the events so far, and those of the rest.
Left(b) == From(b, After(b, 0))

LEMMA WholeGrows ==
  ASSUME NEW X, NEW b \in Seq(X), NEW c \in Seq(X)
  PROVE  LET f == Joined(Left(b), c)
         IN  /\ f \in Seq(X) /\ Whole(b) \in Seq(Seq(X)) /\ Decoded(Split(f, Cuts(f, 0))) \in Seq(Seq(X))
             /\ Whole(Joined(b, c)) = Joined(Whole(b), Decoded(Split(f, Cuts(f, 0))))
             /\ After(f, 0) \in 0 .. Len(f)
             /\ Left(Joined(b, c)) = From(f, After(f, 0))
<1> DEFINE d == Joined(b, c)
           p == Cuts(b, 0)
           e == After(b, 0)
           f == Joined(Left(b), c)
           q == Cuts(f, 0)
           N == Len(b)
           K == Len(d)
           M == Len(f)
<1>1. d \in Seq(X) /\ N \in Nat /\ K \in Nat /\ N <= K
  <2>1. InARow(X, b, c, d)
    BY JoinedFacts
  <2> HIDE DEF d
  <2> QED
    BY <2>1 DEF InARow
<1>2. 0 \in 0 .. N /\ p \in Seq(Spots(N)) /\ e \in 0 .. N /\ Found(b, e) = {}
  <2>1. 0 \in 0 .. N
    BY <1>1
  <2> QED
    BY <2>1, AfterFacts DEF Places
<1>3. f = From(d, e)
  <2>1. From(b \o c, e) = From(b, e) \o c
    BY <1>2, FromConcat
  <2> QED
    BY <2>1 DEF Joined, Left
<1>4. e = Behind(p)
  BY DEF After, Behind
<1>5. Cuts(d, 0) = Joined(p, Cuts(d, e))
  <2>1. Cuts(b \o c, 0) = p \o Cuts(b \o c, e)
    BY <1>2, CutsGoOn
  <2> QED
    BY <2>1 DEF Joined
<1> HIDE DEF d, f, e, p
<1>6. /\ f \in Seq(X) /\ M = K - e /\ e \in 0 .. K /\ e \in Nat /\ M \in Nat /\ 0 \in 0 .. M
      /\ 0 \in 0 .. K - e /\ M + e = K /\ e + 0 = e
  <2>1. e \in 0 .. K /\ e \in Nat
    BY <1>1, <1>2
  <2>2. f \in Seq(X) /\ M = K - e
    BY <1>1, <1>3, <2>1, FromFacts
  <2> QED
    BY <1>1, <2>1, <2>2
<1>7. Cuts(d, e) = Shift(q, e)
  <2>1. Cuts(d, e + 0) = Shift(Cuts(From(d, e), 0), e)
    BY <1>1, <1>6, CutsShift
  <2> QED
    BY <1>3, <1>6, <2>1
<1>8. q \in Seq(Spots(M)) /\ After(f, 0) \in 0 .. M
  <2>1. f \in Seq(X) /\ 0 \in 0 .. Len(f)
    BY <1>6
  <2> QED
    BY <2>1, AfterFacts DEF Places
<1>9. SameParts(d, 0, b)
  <2> SUFFICES ASSUME NEW lo \in Nat \ {0}, NEW hi \in 0 .. Len(b)
               PROVE  SubSeq(d, lo + 0, hi + 0) = SubSeq(b, lo, hi)
    BY DEF SameParts
  <2>1. SubSeq(b \o c, lo, hi) = SubSeq(b, lo, hi)
    BY PartOfConcat
  <2>2. lo + 0 = lo /\ hi + 0 = hi
    BY <1>1
  <2> QED
    BY <2>1, <2>2 DEF d, Joined
<1>10. SameParts(d, e, f)
  <2> SUFFICES ASSUME NEW lo \in Nat \ {0}, NEW hi \in 0 .. Len(f)
               PROVE  SubSeq(d, lo + e, hi + e) = SubSeq(f, lo, hi)
    BY DEF SameParts
  <2>1. hi \in 0 .. Len(d) - e
    BY <1>6
  <2>2. d \in Seq(X) /\ e \in 0 .. Len(d)
    BY <1>1, <1>6
  <2>3. SubSeq(d, lo + e, hi + e) = SubSeq(From(d, e), lo, hi)
    BY <2>1, <2>2, PartOfRest
  <2> QED
    BY <1>3, <2>3
<1> HIDE DEF q
<1>11. Split(d, Joined(p, Shift(q, e))) = Joined(Split(b, p), Split(f, q))
  <2>1. Divided(X, d, b, f, e, p, q)
    BY <1>1, <1>2, <1>4, <1>6, <1>8, <1>9, <1>10 DEF Divided
  <2> QED
    BY <2>1, SplitDivided
<1>12. Split(b, p) \in Seq(Seq(X)) /\ Split(f, q) \in Seq(Seq(X))
  <2>1. p \in Seq(Spots(Len(b))) /\ q \in Seq(Spots(Len(f))) /\ f \in Seq(X)
    BY <1>2, <1>6, <1>8
  <2> QED
    BY <2>1, SplitFacts
<1>13. Decoded(Joined(Split(b, p), Split(f, q))) = Joined(Decoded(Split(b, p)), Decoded(Split(f, q)))
  BY <1>12, DecodedJoins
<1>14. Decoded(Split(b, p)) \in Seq(Seq(X)) /\ Decoded(Split(f, q)) \in Seq(Seq(X))
  BY <1>12, DataFacts
<1>15. Whole(b) = Decoded(Split(b, p)) /\ Whole(d) = Decoded(Split(d, Cuts(d, 0)))
  BY DEF Whole, p
<1>16. Whole(d) = Joined(Whole(b), Decoded(Split(f, q)))
  BY <1>5, <1>7, <1>11, <1>13, <1>15
<1>17. After(d, 0) = e + After(f, 0)
  <2> DEFINE s == Shift(q, e)
             r == Joined(p, s)
  <2>1. Cuts(d, 0) = r
    BY <1>5, <1>7
  <2>2. After(f, 0) = Behind(q) /\ After(d, 0) = Behind(r)
    BY <2>1 DEF After, Behind, q
  <2>3. p \in Seq(Spots(K))
    <3>1. Spots(N) \subseteq Spots(K)
      BY <1>1 DEF Spots
    <3> QED
      BY <1>2, <3>1, SeqMonotonic
  <2>4. /\ s \in Seq(Spots(K)) /\ Len(s) = Len(q) /\ Len(q) \in Nat
        /\ \A k \in 1 .. Len(q) : s[k].end = q[k].end + e
    BY <1>1, <1>6, <1>8, ShiftFacts, SMTT(40)
  <2> HIDE DEF s
  <2>5. /\ r \in Seq(Spots(K)) /\ Len(r) = Len(p) + Len(s) /\ Len(p) \in Nat
        /\ \A i \in 1 .. Len(s) : r[Len(p) + i] = s[i]
    <3>1. InARow(Spots(K), p, s, r)
      BY <2>3, <2>4, JoinedFacts
    <3> HIDE DEF r
    <3> QED
      BY <3>1 DEF InARow
  <2>6. CASE q = << >>
    <3>1. s = << >>
      BY <2>6 DEF s, Shift
    <3>2. p \o << >> = p
      BY <1>2, ConcatEmptySeq
    <3>3. r = p /\ Behind(q) = 0
      BY <2>6, <3>1, <3>2 DEF Joined, Behind
    <3> QED
      BY <1>4, <1>6, <2>2, <3>3
  <2>7. CASE q # << >>
    <3>1. Len(q) \in 1 .. Len(q) /\ Behind(q) = q[Len(q)].end
      BY <1>6, <1>8, <2>7, BehindFacts
    <3> HIDE DEF r
    <3>2. r # << >>
      <4>1. Len(r) # 0
        BY <2>4, <2>5, <3>1
      <4> QED
        BY <4>1, EmptySeq
    <3>3. Behind(r) = r[Len(r)].end
      BY <3>2 DEF Behind, Last
    <3>4. r[Len(r)] = s[Len(q)]
      BY <2>4, <2>5, <3>1
    <3>5. Behind(r) = q[Len(q)].end + e
      BY <2>4, <3>1, <3>3, <3>4
    <3>6. Behind(q) \in Nat
      BY <1>6, <1>8, <2>2
    <3> QED
      BY <1>6, <2>2, <3>1, <3>5, <3>6
  <2> QED
    BY <2>6, <2>7
<1>18. Left(d) = From(f, After(f, 0))
  <2>1. After(f, 0) \in 0 .. Len(d) - e
    BY <1>6, <1>8
  <2>2. From(From(d, e), After(f, 0)) = From(d, e + After(f, 0))
    BY <1>1, <1>6, <2>1, FromFrom
  <2> QED
    BY <1>3, <1>17, <2>2 DEF Left
<1> QED
  BY <1>6, <1>8, <1>14, <1>15, <1>16, <1>18 DEF d, f, q

\* No delimiter begins before the place where the search is taken up again.
LEMMA ScanSuffices ==
  ASSUME NEW X, NEW b \in Seq(X), NEW c \in Seq(X), Found(b, 0) = {}
  PROVE  Cuts(Joined(b, c), Minus(Len(b), Overlap)) = Cuts(Joined(b, c), 0)
<1> DEFINE d == Joined(b, c)
           start == Minus(Len(b), Overlap)
           n == Len(b)
           K == Len(d)
<1>1. d \in Seq(X) /\ n \in Nat /\ K \in Nat /\ n <= K
  <2>1. InARow(X, b, c, d)
    BY JoinedFacts
  <2> HIDE DEF d
  <2> QED
    BY <2>1 DEF InARow
<1>2. start \in 0 .. n /\ \A q \in Nat : q < start => q + 4 <= n
  BY <1>1 DEF Minus, Overlap
<1> HIDE DEF start
<1>3. ASSUME NEW q \in 0 .. K, q < start
      PROVE  ~ (Delimiter(d, q) > 0)
  <2>1. q \in 0 .. n /\ q + 4 <= n
    BY <1>1, <1>2, <1>3
  <2>2. Delimiter(b \o c, q) = Delimiter(b, q)
    BY <2>1, DelimiterStays
  <2>3. ~ (Delimiter(b, q) > 0)
    BY <2>1 DEF Found
  <2> QED
    BY <2>2, <2>3 DEF d, Joined
<1> HIDE DEF d
<1>4. Found(d, 0) = Found(d, start)
  <2>1. ASSUME NEW q \in Found(d, 0)
        PROVE  q \in Found(d, start)
    <3>1. q \in 0 .. K /\ Delimiter(d, q) > 0
      BY DEF Found
    <3>2. ~ (q < start)
      BY <1>3, <3>1
    <3>3. q \in start .. K
      BY <1>1, <1>2, <3>1, <3>2
    <3> QED
      BY <3>1, <3>3 DEF Found
  <2>2. ASSUME NEW q \in Found(d, start)
        PROVE  q \in Found(d, 0)
    <3>1. q \in start .. K /\ Delimiter(d, q) > 0
      BY DEF Found
    <3>2. q \in 0 .. K
      BY <1>1, <1>2, <3>1
    <3> QED
      BY <3>1, <3>2 DEF Found
  <2> QED
    BY <2>1, <2>2
<1>5. At(d, 0) = At(d, start) /\ End(d, 0) = End(d, start) /\ Cut(d, 0) = Cut(d, start)
  BY <1>4 DEF At, End, Cut
<1>6. 0 \in 0 .. K /\ start \in 0 .. K
  BY <1>1, <1>2
<1>7. CASE Found(d, 0) = {}
  <2>1. Cuts(d, 0) = << >>
    BY <1>1, <1>6, <1>7, CutsUnfold
  <2>2. Cuts(d, start) = << >>
    BY <1>1, <1>4, <1>6, <1>7, CutsUnfold
  <2> QED
    BY <2>1, <2>2 DEF d, start
<1>8. CASE Found(d, 0) # {}
  <2>1. Cuts(d, 0) = <<Cut(d, 0)>> \o Cuts(d, End(d, 0))
    BY <1>1, <1>6, <1>8, CutsUnfold
  <2>2. Cuts(d, start) = <<Cut(d, start)>> \o Cuts(d, End(d, start))
    BY <1>1, <1>4, <1>6, <1>8, CutsUnfold
  <2> QED
    BY <1>5, <2>1, <2>2 DEF d, start
<1> QED
  BY <1>7, <1>8

\* The decoder that has read the body b.
Decoding(b) == [buffer |-> Left(b), scan |-> Minus(Len(Left(b)), Overlap)]

\* A body nothing of which has been read.
LEMMA NothingRead ==
  Whole(<< >>) = << >> /\ Decoding(<< >>) = Fresh /\ << >> \in Seq(Bytes)
<1> DEFINE e == << >>
<1>1. e \in Seq(Bytes) /\ Len(e) = 0
  OBVIOUS
<1> HIDE DEF e
<1>2. Delimiter(e, 0) = 0
  <2>1. 0 \in 0 .. Len(e)
    BY <1>1
  <2>2. ~ Four(e, 0) /\ ~ Two(e, 0)
    BY <1>1 DEF Four, Two
  <2> QED
    BY <1>1, <2>1, <2>2, DelimiterBytes
<1>3. Found(e, 0) = {}
  <2>1. \A q \in 0 .. Len(e) : q = 0
    BY <1>1
  <2>2. \A q \in 0 .. Len(e) : ~ (Delimiter(e, q) > 0)
    BY <1>2, <2>1
  <2> QED
    BY <2>2 DEF Found
<1>4. Cuts(e, 0) = << >>
  <2>1. 0 \in 0 .. Len(e)
    BY <1>1
  <2> QED
    BY <1>1, <1>3, <2>1, CutsUnfold
<1>5. Left(e) = << >>
  <2>1. After(e, 0) = 0
    BY <1>4 DEF After
  <2>2. 0 \in 0 .. Len(e)
    BY <1>1
  <2> DEFINE r == From(e, 0)
  <2>3. r \in Seq(Bytes) /\ Len(r) = Len(e) - 0
    BY <1>1, <2>2, FromFacts
  <2> HIDE DEF r
  <2>4. r = << >>
    <3>1. Len(r) = 0
      BY <1>1, <2>3
    <3> QED
      BY <2>3, <3>1, EmptySeq
  <2> QED
    BY <2>1, <2>4 DEF Left, r
<1>6. Decoding(e) = Fresh
  BY <1>5 DEF Decoding, Fresh, Minus, Overlap
<1>7. Whole(e) = << >>
  <2> DEFINE s == Split(e, << >>)
             x == Data(s)
  <2>1. s = << >>
    BY DEF Split
  <2>2. x = << >>
    BY <2>1 DEF Data
  <2>3. Decoded(s) = Kept(x, Full(x))
    BY DEF Decoded, Full, Data
  <2> HIDE DEF x, s
  <2>4. x \in Seq(Seq(Bytes)) /\ Len(x) = 0
    <3>1. << >> \in Seq(Seq(Bytes)) /\ Len(<< >>) = 0
      OBVIOUS
    <3> QED
      BY <2>2, <3>1
  <2>5. PICK f : Collects(f, x, Full(x)) /\ Kept(x, Full(x)) = f[Len(x)]
    <3>1. Len(x) \in Nat
      BY <2>4
    <3> QED
      BY <3>1, KeptCollects
  <2>6. f[0] = << >>
    BY <2>5 DEF Collects
  <2> QED
    BY <1>4, <2>3, <2>4, <2>5, <2>6 DEF Whole, s, x
<1> QED
  BY <1>1, <1>6, <1>7 DEF e

\* The arithmetic of the scan window.
LEMMA WindowMoves ==
  ASSUME NEW L \in Nat, NEW e \in 0 .. L
  PROVE  Larger(e, Minus(L, Overlap)) - e = Minus(L - e, Overlap)
BY DEF Larger, Minus, Overlap

\* What try_push does with a chunk when it makes no error of it.
LEMMA PushAsWhole ==
  ASSUME NEW b \in Seq(Bytes), NEW c \in Seq(Bytes), ~ TryPush(Decoding(b), c).error
  PROVE  /\ TryPush(Decoding(b), c).decoder = Decoding(Joined(b, c))
         /\ Joined(Whole(b), TryPush(Decoding(b), c).events) = Whole(Joined(b, c))
<1> DEFINE old == Left(b)
           f == Joined(old, c)
           start == Minus(Len(old), Overlap)
           cuts == Cuts(f, start)
           consumed == IF cuts = << >> THEN 0 ELSE Last(cuts).end
           scan == Larger(consumed, Minus(Len(f), Overlap))
           toolong == \/ Len(f) > MaxBuffer
                      \/ \E k \in DOMAIN Split(f, cuts) : Len(Split(f, cuts)[k]) > MaxFrame
           t == TryPush(Decoding(b), c)
<1>1. t = IF toolong THEN [decoder |-> Decoding(b), events |-> << >>, error |-> TRUE]
          ELSE [decoder |-> [buffer |-> From(f, consumed), scan |-> scan - consumed],
                events |-> Decoded(Split(f, cuts)), error |-> FALSE]
  <2>1. Decoding(b).buffer = old /\ Decoding(b).scan = start
    BY DEF Decoding
  <2> DEFINE dec == Decoding(b)
  <2> HIDE DEF dec, old
  <2> QED
    BY <2>1, Zenon DEF TryPush, Joined, From, dec
<1>2. t.decoder = [buffer |-> From(f, consumed), scan |-> scan - consumed]
      /\ t.events = Decoded(Split(f, cuts))
  <2> HIDE DEF toolong, scan, consumed, f, cuts
  <2>1. ~ t.error
    OBVIOUS
  <2> HIDE DEF t
  <2> QED
    BY <1>1, <2>1
<1>3. old \in Seq(Bytes) /\ Found(old, 0) = {}
  <2> DEFINE e == After(b, 0)
  <2>1. Len(b) \in Nat /\ 0 \in 0 .. Len(b)
    BY LenProperties
  <2>2. e \in 0 .. Len(b) /\ Found(b, e) = {}
    BY <2>1, AfterFacts
  <2> HIDE DEF e
  <2>3. 0 \in 0 .. Len(b) - e /\ e + 0 = e
    BY <2>1, <2>2
  <2>4. Found(b, e + 0) = {} <=> Found(From(b, e), 0) = {}
    BY <2>2, <2>3, FoundFrom
  <2>5. From(b, e) \in Seq(Bytes)
    BY <2>2, FromFacts
  <2> QED
    BY <2>2, <2>3, <2>4, <2>5 DEF Left, e
<1>4. cuts = Cuts(f, 0)
  <2>1. old \in Seq(Bytes) /\ Found(old, 0) = {}
    BY <1>3
  <2> HIDE DEF old
  <2> QED
    BY <2>1, ScanSuffices DEF f, start, cuts
<1>5. consumed = After(f, 0)
  <2>1. After(f, 0) = IF Cuts(f, 0) = << >> THEN 0 ELSE Last(Cuts(f, 0)).end
    BY DEF After
  <2> QED
    BY <1>4, <2>1
<1>6. /\ f \in Seq(Bytes) /\ Whole(Joined(b, c)) = Joined(Whole(b), Decoded(Split(f, Cuts(f, 0))))
      /\ After(f, 0) \in 0 .. Len(f)
      /\ Left(Joined(b, c)) = From(f, After(f, 0))
  BY WholeGrows, ZenonT(60)
<1> HIDE DEF cuts, t, consumed
<1>7. Joined(Whole(b), t.events) = Whole(Joined(b, c))
  BY <1>2, <1>4, <1>6
<1>8. t.decoder = Decoding(Joined(b, c))
  <2> DEFINE g == Left(Joined(b, c))
  <2> HIDE DEF f
  <2>1. g = From(f, consumed) /\ consumed \in 0 .. Len(f) /\ Len(f) \in Nat
    BY <1>5, <1>6, LenProperties
  <2>2. Len(From(f, consumed)) = Len(f) - consumed
    BY <1>6, <2>1, FromFacts
  <2>3. scan - consumed = Minus(Len(f) - consumed, Overlap)
    BY <2>1, WindowMoves
  <2>4. Decoding(Joined(b, c)) = [buffer |-> g, scan |-> Minus(Len(g), Overlap)]
    BY DEF Decoding
  <2> HIDE DEF g, scan
  <2> QED
    BY <1>2, <2>1, <2>2, <2>3, <2>4
<1> QED
  BY <1>7, <1>8 DEF t

\* What is said so far begins what will have been said.
LEMMA WholeBegins ==
  ASSUME NEW b \in Seq(Bytes), NEW c \in Seq(Bytes)
  PROVE  IsPrefix(Whole(b), Whole(b)) /\ IsPrefix(Whole(b), Whole(Joined(b, c)))
<1>1. ASSUME NEW s \in Seq(Seq(Bytes)), NEW t \in Seq(Seq(Bytes))
      PROVE  IsPrefix(s, Joined(s, t))
  <2> DEFINE j == Joined(s, t)
  <2>1. InARow(Seq(Bytes), s, t, j)
    BY <1>1, JoinedFacts
  <2>2. Len(s) \in 0 .. Len(s)
    BY <1>1, LenProperties
  <2>3. SubSeq(s \o t, 1, Len(s)) = SubSeq(s, 1, Len(s))
    BY <1>1, <2>2, PartOfConcat
  <2>4. SubSeq(s, 1, Len(s)) = s
    BY <1>1, SubSeqFull
  <2>5. SubSeq(j, 1, Len(s)) = s
    BY <2>3, <2>4 DEF Joined
  <2> HIDE DEF j
  <2>6. Len(s) <= Len(j)
    BY <2>1 DEF InARow
  <2> QED
    BY <2>5, <2>6 DEF IsPrefix, j
<1> DEFINE f == Joined(Left(b), c)
           w == Decoded(Split(f, Cuts(f, 0)))
<1>2. /\ Whole(b) \in Seq(Seq(Bytes)) /\ w \in Seq(Seq(Bytes))
      /\ Whole(Joined(b, c)) = Joined(Whole(b), w)
  BY WholeGrows
<1> HIDE DEF w
<1>3. IsPrefix(Whole(b), Whole(Joined(b, c)))
  BY <1>1, <1>2
<1>4. Joined(Whole(b), << >>) = Whole(b)
  BY <1>2, ConcatEmptySeq DEF Joined
<1>5. << >> \in Seq(Seq(Bytes))
  OBVIOUS
<1>6. IsPrefix(Whole(b), Joined(Whole(b), << >>))
  BY <1>1, <1>2, <1>5
<1> QED
  BY <1>3, <1>4, <1>6

\* A decoder has read its body as one that reads it in one piece does.
SseInv ==
  Has("wire") =>
    /\ net # "done" => outcome = "none"
    /\ body \in Seq(Bytes)
    /\ IF outcome = "protocol" THEN IsPrefix(heard, Whole(body))
       ELSE heard = Whole(body) /\ decoder = Decoding(body)

\* What SseInv says of a stream, as a predicate of its parts.
ReadAs(state, result, text, told, dec) ==
  /\ state # "done" => result = "none"
  /\ text \in Seq(Bytes)
  /\ IF result = "protocol" THEN IsPrefix(told, Whole(text))
     ELSE told = Whole(text) /\ dec = Decoding(text)

LEMMA ReadFresh ==
  ASSUME NEW state
  PROVE  ReadAs(state, "none", << >>, << >>, Fresh)
BY NothingRead DEF ReadAs

\* The stream goes on without a byte, or ends.
LEMMA ReadOn ==
  ASSUME ReadAs(net, outcome, body, heard, decoder), net # "done",
         NEW state, NEW result, state # "done" => result = "none"
  PROVE  ReadAs(state, result, body, heard, decoder)
<1>1. outcome = "none" /\ body \in Seq(Bytes) /\ heard = Whole(body) /\ decoder = Decoding(body)
  BY DEF ReadAs
<1>2. IsPrefix(heard, Whole(body))
  <2>1. << >> \in Seq(Bytes)
    OBVIOUS
  <2>2. IsPrefix(Whole(body), Whole(body))
    BY <1>1, <2>1, WholeBegins
  <2> QED
    BY <1>1, <2>2
<1> QED
  BY <1>1, <1>2 DEF ReadAs

LEMMA ReadMore ==
  ASSUME ReadAs(net, outcome, body, heard, decoder), net = "open",
         NEW chunk \in Seq(Bytes), Push(chunk)
  PROVE  ReadAs(net', outcome', body', heard', decoder')
<1>1. outcome = "none" /\ body \in Seq(Bytes) /\ heard = Whole(body) /\ decoder = Decoding(body)
  BY DEF ReadAs
<1>2. body' = Joined(body, chunk)
  BY DEF Push, Joined
<1>3. body' \in Seq(Bytes)
  <2>1. InARow(Bytes, body, chunk, Joined(body, chunk))
    BY <1>1, JoinedFacts
  <2> QED
    BY <1>2, <2>1 DEF InARow
<1>4. CASE TryPush(decoder, chunk).error
  <2>1. net' = "done" /\ outcome' = "protocol" /\ heard' = heard
    BY <1>4 DEF Push
  <2>2. IsPrefix(Whole(body), Whole(Joined(body, chunk)))
    BY <1>1, WholeBegins
  <2> QED
    BY <1>1, <1>2, <1>3, <2>1, <2>2 DEF ReadAs
<1>5. CASE ~ TryPush(decoder, chunk).error
  <2>1. /\ net' = net /\ outcome' = outcome
        /\ decoder' = TryPush(decoder, chunk).decoder
        /\ heard' = Joined(heard, TryPush(decoder, chunk).events)
    BY <1>5 DEF Push, Joined
  <2>2. /\ TryPush(Decoding(body), chunk).decoder = Decoding(Joined(body, chunk))
        /\ Joined(Whole(body), TryPush(Decoding(body), chunk).events) = Whole(Joined(body, chunk))
    BY <1>1, <1>5, PushAsWhole
  <2> QED
    BY <1>1, <1>2, <1>3, <2>1, <2>2 DEF ReadAs
<1> QED
  BY <1>4, <1>5

\* An attempt that failed, not on account of what it said.
LEMMA ReadFailed ==
  ASSUME ReadAs(net, outcome, body, heard, decoder), net # "done",
         NEW error, NEW room, AttemptFailed(error, room)
  PROVE  ReadAs(net', outcome', body', heard', decoder')
<1>1. CASE MayRetry(error)
  <2>1. net' = "sent" /\ outcome' = "none" /\ body' = << >> /\ heard' = << >> /\ decoder' = Fresh
    BY <1>1 DEF AttemptFailed
  <2> QED
    BY <2>1, ReadFresh
<1>2. CASE ~ MayRetry(error)
  <2>1. /\ net' = "done" /\ outcome' = error
        /\ body' = body /\ heard' = heard /\ decoder' = decoder
    BY <1>2 DEF AttemptFailed
  <2>2. ReadAs("done", error, body, heard, decoder)
    BY ReadOn
  <2> QED
    BY <2>1, <2>2
<1> QED
  BY <1>1, <1>2

LEMMA SseStep ==
  ASSUME SseInv, IInv, [Next]_vars
  PROVE  SseInv'
<1> DEFINE Inv == ReadAs(net, outcome, body, heard, decoder)
           Stays == UNCHANGED <<net, outcome, body, heard, decoder>>
<1>1. ClientInv
  BY DEF IInv
<1>2. profile' = profile
  BY <1>1, FaultSteps DEF ClientInv
<1> SUFFICES ASSUME Has("wire")
             PROVE  Inv'
  BY <1>2 DEF SseInv, Has, ReadAs
<1>3. Inv
  BY DEF SseInv, ReadAs
<1>4. CASE Quiet
  BY <1>3, <1>4 DEF Quiet, streamVars
<1>5. CASE Closing \/ (SendRequest /\ Opening)
  <2>1. outcome' = "none" /\ body' = << >> /\ heard' = << >> /\ decoder' = Fresh
    BY <1>5 DEF Closing, Opening, CloseStream, OpenStream, Restart
  <2> QED
    BY <2>1, ReadFresh
<1>6. CASE Consume
  BY <1>3, <1>6 DEF Consume
<1>7. CASE ProviderStep
  <2>1. CASE Respond(request)
    <3>1. net = "sent"
      BY <2>1 DEF Respond
    <3>2. CASE \E error, room : AttemptFailed(error, room)
      BY <1>3, <3>1, <3>2, ReadFailed
    <3>3. CASE net' = "open" /\ UNCHANGED <<outcome, body, heard, decoder>>
      <4>1. outcome = "none"
        BY <1>3, <3>1 DEF ReadAs
      <4>2. ReadAs("open", outcome, body, heard, decoder)
        BY <1>3, <3>1, <4>1, ReadOn
      <4> QED
        BY <3>3, <4>2
    <3> QED
      BY <2>1, <3>2, <3>3 DEF Respond
  <2>2. CASE ReceiveBytes
    <3>1. PICK n \in 1 .. profile.body - Len(body) : \E chunk \in [1 .. n -> Bytes] : Push(chunk)
      BY <2>2 DEF ReceiveBytes, Bytes
    <3>2. PICK chunk \in [1 .. n -> Bytes] : Push(chunk)
      BY <3>1
    <3>3. n \in Nat
      <4>1. profile.body \in Nat
        BY <1>1, ProviderAssumption DEF ClientInv
      <4>2. Len(body) \in Nat
        BY <1>3, LenProperties DEF ReadAs
      <4> QED
        BY <4>1, <4>2
    <3>4. chunk \in Seq(Bytes)
      BY <3>3, SeqDef
    <3>5. net = "open"
      BY <2>2 DEF ReceiveBytes
    <3> QED
      BY <1>3, <3>2, <3>4, <3>5, ReadMore
  <2>3. CASE ReceiveFrame \/ \E r \in DOMAIN server : FinishUnheard(r)
    <3>1. Stays
      BY <2>3 DEF ReceiveFrame, FinishUnheard, streamVars
    <3> QED
      BY <1>3, <3>1
  <2>4. CASE HandleFrame
    <3>1. net = "open" /\ UNCHANGED <<decoder, body, heard>>
      BY <2>4 DEF HandleFrame
    <3>2. net' = "done" \/ UNCHANGED <<net, outcome>>
      BY <2>4 DEF HandleFrame
    <3>3. CASE net' = "done"
      <4>1. ReadAs("done", outcome', body, heard, decoder)
        BY <1>3, <3>1, ReadOn
      <4> QED
        BY <3>1, <3>3, <4>1
    <3>4. CASE UNCHANGED <<net, outcome>>
      BY <1>3, <3>1, <3>4
    <3> QED
      BY <3>2, <3>3, <3>4
  <2>5. CASE EndOfBody
    <3>1. net = "open" /\ net' = "done" /\ UNCHANGED <<decoder, body, heard>>
      BY <2>5 DEF EndOfBody
    <3>2. ReadAs("done", outcome', body, heard, decoder)
      BY <1>3, <3>1, ReadOn
    <3> QED
      BY <3>1, <3>2
  <2>6. CASE BreakOff
    <3>1. net = "open" /\ AttemptFailed("http", FALSE)
      BY <2>6 DEF BreakOff
    <3> QED
      BY <1>3, <3>1, ReadFailed
  <2> QED
    BY <1>7, <2>1, <2>2, <2>3, <2>4, <2>5, <2>6 DEF ProviderStep
<1> QED
  BY <1>4, <1>5, <1>6, <1>7, StreamSteps

\* However the body is cut into chunks, the decoder finds in it what it finds
\* when it reads it in one piece, as far as its limits let it get
\* (SseDecoder::try_push, find_event_boundary and the scan window).
THEOREM BodiesDecodeAsSent == Spec => []DecodedAsSent
<1>1. Init => SseInv
  <2> SUFFICES ASSUME Init
               PROVE  SseInv
    OBVIOUS
  <2>1. outcome = "none" /\ body = << >> /\ heard = << >> /\ decoder = Fresh
    BY DEF Init, ProviderInit, NoStream
  <2>2. ReadAs(net, outcome, body, heard, decoder)
    BY <2>1, ReadFresh
  <2> QED
    BY <2>2 DEF SseInv, ReadAs
<1>2. SseInv /\ IInv /\ [Next]_vars => SseInv'
  BY SseStep
<1>3. SseInv => DecodedAsSent
  BY DEF SseInv, DecodedAsSent
<1> QED
  BY <1>1, <1>2, <1>3, InductiveInvariant, PTL DEF Spec

-----------------------------------------------------------------------------
(* What has been said of a response *)

\* How many texts are among events.
TextsIn(s) == {i \in DOMAIN s : s[i].type = "text"}
Texts(s) == Len(Kept(s, TextsIn(s)))
OneIf(b) == IF b THEN 1 ELSE 0

LEMMA TextsJoin ==
  ASSUME NEW s \in Seq(Events), NEW t \in Seq(Events)
  PROVE  Texts(Joined(s, t)) = Texts(s) + Texts(t) /\ Texts(s) \in Nat /\ Texts(t) \in Nat
<1> DEFINE r == Joined(s, t)
           P == TextsIn(s)
           R == TextsIn(t)
           Q == TextsIn(r)
<1>1. InARow(Events, s, t, r)
  BY JoinedFacts
<1> HIDE DEF r
<1>2. /\ Len(s) \in Nat /\ Len(t) \in Nat /\ DOMAIN s = 1 .. Len(s) /\ DOMAIN t = 1 .. Len(t)
      /\ DOMAIN r = 1 .. Len(s) + Len(t)
      /\ \A i \in 1 .. Len(s) : r[i] = s[i]
      /\ \A i \in 1 .. Len(t) : r[Len(s) + i] = t[i]
  BY <1>1 DEF InARow
<1>3. \A i \in 1 .. Len(s) : i \in Q <=> i \in P
  <2> SUFFICES ASSUME NEW i \in 1 .. Len(s)
               PROVE  i \in Q <=> i \in P
    OBVIOUS
  <2>1. i \in 1 .. Len(s) + Len(t)
    BY <1>2
  <2> QED
    BY <1>2, <2>1 DEF TextsIn
<1>4. \A i \in 1 .. Len(t) : Len(s) + i \in Q <=> i \in R
  <2> SUFFICES ASSUME NEW i \in 1 .. Len(t)
               PROVE  Len(s) + i \in Q <=> i \in R
    OBVIOUS
  <2>1. Len(s) + i \in 1 .. Len(s) + Len(t)
    BY <1>2
  <2> QED
    BY <1>2, <2>1 DEF TextsIn
<1> HIDE DEF P, Q, R
<1>5. Lines(P, R, Q, s, t)
  BY <1>3, <1>4 DEF Lines
<1>6. Kept(Joined(s, t), Q) = Joined(Kept(s, P), Kept(t, R))
  BY <1>5, KeptJoins
<1> DEFINE a == Kept(s, P)
           b == Kept(t, R)
<1>7. a \in Seq(Events) /\ b \in Seq(Events)
  BY KeptPositions
<1> HIDE DEF a, b
<1>8. InARow(Events, a, b, Joined(a, b))
  BY <1>7, JoinedFacts
<1>9. Len(a) \in Nat /\ Len(b) \in Nat /\ Len(Joined(a, b)) = Len(a) + Len(b)
  BY <1>8 DEF InARow
<1>10. Texts(s) = Len(a) /\ Texts(t) = Len(b)
  BY DEF Texts, a, b, P, R
<1>11. Texts(r) = Len(Joined(a, b))
  BY <1>6 DEF Texts, a, b, Q, r
<1> QED
  BY <1>9, <1>10, <1>11 DEF r

LEMMA TextsNone ==
  ASSUME NEW s \in Seq(Events), \A i \in DOMAIN s : s[i].type # "text"
  PROVE  Texts(s) = 0
<1> DEFINE P == TextsIn(s)
           k == Kept(s, P)
<1>1. P = {}
  BY DEF TextsIn
<1>2. \A j \in 1 .. Len(s) : j \in P => s[j] \in {}
  BY <1>1
<1> HIDE DEF P
<1>3. k \in Seq({})
  BY <1>2, KeptWithin
<1> HIDE DEF k
<1>4. Len(k) \in Nat
  BY <1>3, LenProperties
<1>5. Len(k) = 0
  <2> SUFFICES ASSUME Len(k) # 0
               PROVE  FALSE
    OBVIOUS
  <2>1. 1 \in 1 .. Len(k)
    BY <1>4
  <2>2. k[1] \in {}
    BY <1>3, <2>1, ElementOfSeq
  <2> QED
    BY <2>2
<1> QED
  BY <1>5 DEF Texts, k, P

LEMMA TextsOne ==
  ASSUME NEW e \in Events
  PROVE  <<e>> \in Seq(Events) /\ Texts(<<e>>) = OneIf(e.type = "text")
<1> DEFINE s == <<e>>
           Q == TextsIn(s)
<1>1. s \in Seq(Events) /\ Len(s) = 1 /\ s[1] = e /\ DOMAIN s = 1 .. 1
  OBVIOUS
<1> HIDE DEF s
<1>2. 1 \in Q <=> e.type = "text"
  BY <1>1 DEF TextsIn
<1> HIDE DEF Q
<1>3. PICK f : Collects(f, s, Q) /\ Kept(s, Q) = f[Len(s)]
  <2>1. Len(s) \in Nat
    BY <1>1
  <2> QED
    BY <2>1, KeptCollects
<1>4. f[0] = << >> /\ f[1] = IF 1 \in Q THEN Append(f[0], s[1]) ELSE f[0]
  <2>1. 1 \in 1 .. Len(s) /\ 1 - 1 = 0
    BY <1>1
  <2> QED
    BY <1>3, <2>1 DEF Collects
<1>5. Len(Kept(s, Q)) = OneIf(e.type = "text")
  <2>1. Len(Append(<< >>, s[1])) = 1 /\ Len(<< >>) = 0
    OBVIOUS
  <2> QED
    BY <1>1, <1>2, <1>3, <1>4, <2>1 DEF OneIf
<1> QED
  BY <1>1, <1>5 DEF Texts, Q, s

LEMMA TextsMore ==
  ASSUME NEW s \in Seq(Events), NEW e \in Events
  PROVE  /\ Append(s, e) \in Seq(Events) /\ Texts(s) \in Nat
         /\ Texts(Append(s, e)) = Texts(s) + OneIf(e.type = "text")
<1>1. <<e>> \in Seq(Events) /\ Texts(<<e>>) = OneIf(e.type = "text")
  BY TextsOne
<1>2. Append(s, e) = Joined(s, <<e>>)
  BY AppendIsConcat DEF Joined
<1>3. Texts(Joined(s, <<e>>)) = Texts(s) + Texts(<<e>>) /\ Texts(s) \in Nat
  BY <1>1, TextsJoin
<1>4. Append(s, e) \in Seq(Events)
  BY AppendProperties
<1> QED
  BY <1>1, <1>2, <1>3, <1>4

LEMMA TextsLess ==
  ASSUME NEW q \in Seq(Events), q # << >>
  PROVE  /\ Texts(q) = OneIf(Head(q).type = "text") + Texts(Tail(q)) /\ Texts(Tail(q)) \in Nat
<1> DEFINE h == Head(q)
           t == Tail(q)
<1>1. /\ t \in Seq(Events) /\ Len(q) \in Nat \ {0} /\ Len(t) = Len(q) - 1
      /\ h = q[1] /\ h \in Events
      /\ \A i \in 1 .. Len(q) - 1 : t[i] = q[i + 1]
  BY TailFacts
<1> HIDE DEF h, t
<1> DEFINE one == <<h>>
           r == Joined(one, t)
<1>6. one \in Seq(Events) /\ Texts(one) = OneIf(h.type = "text") /\ Len(one) = 1 /\ one[1] = h
  BY <1>1, TextsOne
<1> HIDE DEF one
<1>2. /\ r \in Seq(Events) /\ Len(r) = Len(t) + 1
      /\ r[1] = h /\ \A i \in 1 .. Len(t) : r[1 + i] = t[i]
  <2>1. InARow(Events, one, t, r)
    BY <1>1, <1>6, JoinedFacts
  <2>2. 1 \in 1 .. 1
    OBVIOUS
  <2> HIDE DEF r
  <2> QED
    BY <1>1, <1>6, <2>1, <2>2 DEF InARow
<1> HIDE DEF r
<1>3. ASSUME NEW i \in 1 .. Len(q)
      PROVE  q[i] = r[i]
  <2>1. CASE i = 1
    BY <1>1, <1>2, <2>1
  <2>2. CASE i # 1
    <3>1. i - 1 \in 1 .. Len(t) /\ i - 1 \in 1 .. Len(q) - 1 /\ 1 + (i - 1) = i /\ (i - 1) + 1 = i
      BY <1>1, <2>2
    <3> QED
      BY <1>1, <1>2, <3>1
  <2> QED
    BY <2>1, <2>2
<1>4. q = r
  BY <1>1, <1>2, <1>3, SeqEqual
<1>7. Texts(r) = Texts(one) + Texts(t) /\ Texts(t) \in Nat
  BY <1>1, <1>6, TextsJoin DEF r
<1> QED
  BY <1>4, <1>6, <1>7 DEF h, t

LEMMA EditsMore ==
  ASSUME NEW r, IsResponse(r), NEW a, NEW n, NEW q, NEW o, NEW c
  PROVE  LET s == Edited(r, a, n, q, o, c)
         IN  s.said = n /\ s.out = q /\ s.context = r.context /\ s.run = r.run
<1> DEFINE s == Edited(r, a, n, q, o, c)
           F == {"context", "run", "out", "said", "announced", "open", "complete"}
<1>1. r = [f \in F |-> r[f]]
  BY DEF IsResponse
<1> QED
  BY <1>1 DEF Edited

\* A payload's texts and items are counted in.
Adds(payload, r, s) ==
  /\ s.said = r.said + OneIf(payload = "text") /\ s.context = r.context /\ s.run = r.run
  /\ \/ s.out = r.out
     \/ \E x \in Items : /\ s.out = Append(r.out, x) /\ x.of = current
                         /\ x.k = "call" => x.n = CallsOf(current) + 1 /\ payload \in Tools
                         /\ x.k = "text" => payload = "text"

LEMMA SaidFacts ==
  ASSUME ServerInv, current \in DOMAIN server, NEW payload \in Payloads, profile \in Profiles
  PROVE  Adds(payload, server[current], Sent(payload))
<1> DEFINE r == server[current]
           s == Sent(payload)
           b == Begins(payload)
           item == Item(payload, current, 0, "none")
           call == Item("call", current, CallsOf(current) + 1, payload)
<1>1. IsResponse(r) /\ current \in Nat
  BY LenProperties DEF ServerInv
<1>2. r.out \in Seq(Items) /\ r.said \in Nat
  BY <1>1 DEF IsResponse
<1>3. CallsOf(current) \in Nat
  BY <1>2, CallsCounted DEF CallsOf
<1>4. payload \in Tools \cup Contents \cup Markers
  <2>1. profile.says \subseteq Tools \cup Contents
    BY ProviderAssumption
  <2> QED
    BY <2>1 DEF Payloads, Markers
<1>5. Tools \cap {"text"} = {}
  BY ProviderAssumption DEF Contents
<1>6. s.said = r.said + OneIf(payload = "text") /\ s.out = r.out \o b
      /\ s.context = r.context /\ s.run = r.run
  <2>1. PICK a, n, q, o, c :
          /\ a = (r.announced \/ payload = "created")
          /\ n = IF payload = "text" THEN r.said + 1 ELSE r.said
          /\ q = r.out \o b
          /\ o = IF payload \in Tools THEN Has("added") ELSE r.open /\ payload # "close"
          /\ c = (r.complete \/ payload \in {"completed", "[DONE]"})
    OBVIOUS
  <2>2. s = Edited(r, a, n, q, o, c)
    BY <2>1, Zenon DEF Sent, Edited
  <2>3. PICK u : u = r
    OBVIOUS
  <2>4. IsResponse(u) /\ s = Edited(u, a, n, q, o, c)
    BY <1>1, <2>2, <2>3
  <2> HIDE DEF s
  <2>5. s.said = n /\ s.out = q /\ s.context = u.context /\ s.run = u.run
    BY <2>4, EditsMore
  <2>6. n = r.said + OneIf(payload = "text")
    BY <1>2, <2>1 DEF OneIf
  <2> QED
    BY <2>1, <2>3, <2>5, <2>6
<1>7. \/ b = << >>
      \/ \E x \in Items : /\ b = <<x>> /\ x.of = current
                          /\ x.k = "call" => x.n = CallsOf(current) + 1 /\ payload \in Tools
                          /\ x.k = "text" => payload = "text"
  <2>1. CASE payload \in Tools
    <3>1. b = <<call>>
      BY <2>1 DEF Begins
    <3>2. /\ call \in Items /\ call.of = current /\ call.k = "call"
          /\ call.n = CallsOf(current) + 1
      BY <1>1, <1>3, <2>1 DEF Item, Items, Kinds, Nothing
    <3> QED
      BY <2>1, <3>1, <3>2
  <2>2. CASE payload \in Contents /\ payload \notin Tools
    <3>1. b = <<item>> \/ b = << >>
      BY <2>2 DEF Begins
    <3>2. item \in Items /\ item.of = current /\ item.k = payload /\ item.k # "call"
      BY <1>1, <2>2 DEF Item, Items, Kinds, Nothing, Contents
    <3> QED
      BY <3>1, <3>2
  <2>3. CASE payload \in Markers /\ payload \notin Tools \cup Contents
    BY <2>3 DEF Begins, Contents
  <2> QED
    BY <1>4, <2>1, <2>2, <2>3
<1> HIDE DEF r, s, b
<1>8. r.out \o << >> = r.out /\ \A x \in Items : r.out \o <<x>> = Append(r.out, x)
  BY <1>2, ConcatEmptySeq, AppendIsConcat
<1>9. \/ s.out = r.out
      \/ \E x \in Items : /\ s.out = Append(r.out, x) /\ x.of = current
                          /\ x.k = "call" => x.n = CallsOf(current) + 1 /\ payload \in Tools
                          /\ x.k = "text" => payload = "text"
  <2>1. CASE b = << >>
    BY <1>6, <1>8, <2>1
  <2>2. CASE b # << >>
    <3>1. PICK x \in Items : /\ b = <<x>> /\ x.of = current
                             /\ x.k = "call" => x.n = CallsOf(current) + 1 /\ payload \in Tools
                             /\ x.k = "text" => payload = "text"
      BY <1>7, <2>2
    <3>2. s.out = Append(r.out, x)
      BY <1>6, <1>8, <3>1
    <3> QED
      BY <3>1, <3>2
  <2> QED
    BY <2>1, <2>2
<1> QED
  BY <1>6, <1>9 DEF Adds, r, s

\* What the endpoint says of response r: its items are its own, its calls are
\* numbered, and a text among them has been said.
CallsIn(q) == Cardinality({j \in DOMAIN q : q[j].k = "call"})
Says(a, r) ==
  /\ \A j \in DOMAIN a.out : a.out[j].of = r
  /\ \A j \in DOMAIN a.out : a.out[j].k = "call" => a.out[j].n \in 1 .. CallsIn(a.out)
  /\ (\E j \in DOMAIN a.out : a.out[j].k = "text") => a.said # 0
  /\ Has("wire") => a.out = << >> /\ a.said = 0

OutInv == \A r \in DOMAIN server : Says(server[r], r)

\* What is appended leaves what was said.
LEMMA SaysMore ==
  ASSUME NEW a, IsResponse(a), NEW r \in Nat, Says(a, r), NEW b, NEW x \in Items, NEW payload,
         b.out = Append(a.out, x), b.said = a.said + OneIf(payload = "text"), x.of = r,
         x.k = "call" => x.n = CallsIn(a.out) + 1, x.k = "text" => payload = "text",
         ~ Has("wire")
  PROVE  Says(b, r)
<1> DEFINE q == a.out
           d == b.out
<1>1. q \in Seq(Items) /\ a.said \in Nat
  BY DEF IsResponse
<1>2. /\ Len(q) \in Nat /\ DOMAIN d = 1 .. Len(q) + 1 /\ DOMAIN q = 1 .. Len(q)
      /\ d[Len(q) + 1] = x /\ \A i \in 1 .. Len(q) : d[i] = q[i]
  BY <1>1, OneMore
<1>a. d = Append(q, x)
  OBVIOUS
<1> HIDE DEF q, d
<1>3. CallsIn(q) \in Nat /\ CallsIn(d) = CallsIn(q) + (IF x.k = "call" THEN 1 ELSE 0)
  <2>1. CallsIn(q) \in Nat /\ \A y \in Items :
          CallsIn(Append(q, y)) = CallsIn(q) + (IF y.k = "call" THEN 1 ELSE 0)
    BY <1>1, CallsCounted DEF CallsIn
  <2> QED
    BY <1>a, <2>1
<1>4. /\ \A j \in DOMAIN q : q[j].of = r
      /\ \A j \in DOMAIN q : q[j].k = "call" => q[j].n \in 1 .. CallsIn(q)
      /\ (\E j \in DOMAIN q : q[j].k = "text") => a.said # 0
  BY DEF Says, q
<1>5. ASSUME NEW j \in DOMAIN d
      PROVE  /\ d[j].of = r /\ (d[j].k = "call" => d[j].n \in 1 .. CallsIn(d))
             /\ d[j].k = "text" => b.said # 0
  <2>1. CASE j \in DOMAIN q
    <3>1. q[j].k = "text" => a.said # 0
      BY <1>4, <2>1
    <3>2. d[j] = q[j]
      BY <1>2, <2>1
    <3>3. d[j].k = "text" => b.said # 0
      BY <1>1, <3>1, <3>2 DEF OneIf
    <3>4. d[j].k = "call" => d[j].n \in 1 .. CallsIn(d)
      BY <1>3, <1>4, <2>1, <3>2
    <3> QED
      BY <1>4, <2>1, <3>2, <3>3, <3>4
  <2>2. CASE j \notin DOMAIN q
    <3>1. d[j] = x
      BY <1>2, <2>2
    <3>2. x.k = "text" => b.said # 0
      BY <1>1 DEF OneIf
    <3>3. x.k = "call" => x.n \in 1 .. CallsIn(d)
      BY <1>3 DEF q
    <3> QED
      BY <3>1, <3>2, <3>3
  <2> QED
    BY <2>1, <2>2
<1> QED
  BY <1>5 DEF Says, d

\* What ReceiveFrame does.
LEMMA Receiving ==
  ASSUME ReceiveFrame
  PROVE  ~ Has("wire") /\ \E payload : Sending(payload)
BY Zenon DEF ReceiveFrame, Sending

\* The steps of the endpoint.
LEMMA ServerSteps ==
  ASSUME ClientInv, [Next]_vars
  PROVE  \/ server' = server \/ Beginning
         \/ ~ Has("wire") /\ \E payload : Sending(payload)
         \/ \E r : Completing(r)
<1>1. Quiet \/ Closing \/ Opening \/ Consume => server' = server
  BY DEF Quiet, Closing, Opening, Consume, endpointVars
<1>2. Repeating \/ Failing \/ Ending \/ Delivering => server' = server
  BY DEF Repeating, Failing, Ending, Delivering
<1>3. emitted \in BOOLEAN
  BY DEF ClientInv
<1>4. ReceiveBytes => server' = server
  BY DEF ReceiveBytes, endpointVars
<1>5. (\E r \in DOMAIN server : FinishUnheard(r)) => \E r : Completing(r)
  BY Zenon DEF FinishUnheard, Completing
<1>6. ProviderStep => \/ Respond(request) \/ ReceiveFrame \/ ReceiveBytes \/ HandleFrame
                      \/ EndOfBody \/ BreakOff \/ \E r \in DOMAIN server : FinishUnheard(r)
  BY Zenon DEF ProviderStep
<1>7. Respond(request) => Beginning \/ Repeating \/ Failing
  BY <1>3, RespondSteps
<1>8. HandleFrame \/ EndOfBody \/ BreakOff => Failing \/ Ending \/ Delivering
  BY BodySteps
<1> QED
  BY <1>1, <1>2, <1>4, <1>5, <1>6, <1>7, <1>8, StreamSteps, Receiving, Zenon

LEMMA CompletedMore ==
  ASSUME NEW r, IsResponse(r), NEW s, s = [r EXCEPT !.complete = TRUE]
  PROVE  s.said = r.said /\ s.out = r.out /\ s.context = r.context /\ s.run = r.run
<1> DEFINE F == {"context", "run", "out", "said", "announced", "open", "complete"}
<1>1. r = [f \in F |-> r[f]]
  BY DEF IsResponse
<1> QED
  BY <1>1

LEMMA CompletingMore ==
  ASSUME ServerInv, NEW k, Completing(k)
  PROVE  /\ DOMAIN server' = DOMAIN server
         /\ \A r \in DOMAIN server : /\ server'[r].out = server[r].out
                                     /\ server'[r].said = server[r].said
                                     /\ server'[r].context = server[r].context
                                     /\ server'[r].run = server[r].run
<1>1. PICK x : x = [server[k] EXCEPT !.complete = TRUE]
  OBVIOUS
<1>2. k \in DOMAIN server /\ server \in Seq(ToSet(server)) /\ IsResponse(server[k])
  BY DEF Completing, ServerInv
<1>3. PICK s : s = server'
  OBVIOUS
<1>4. s = [server EXCEPT ![k] = x]
  BY <1>1, <1>3, Zenon DEF Completing
<1>5. /\ DOMAIN s = DOMAIN server /\ s[k] = x
      /\ \A i \in DOMAIN server : i # k => s[i] = server[i]
  BY <1>2, <1>4, Changed
<1>6. /\ x.said = server[k].said /\ x.out = server[k].out
      /\ x.context = server[k].context /\ x.run = server[k].run
  BY <1>1, <1>2, CompletedMore
<1> QED
  BY <1>3, <1>5, <1>6

LEMMA OutStep ==
  ASSUME ClientInv, ServerInv, OutInv, [Next]_vars
  PROVE  OutInv'
<1>1. profile' = profile
  BY ProfileKept
<1>2. DOMAIN server \subseteq Nat
  BY LenProperties DEF ServerInv
<1>3. CASE server' = server
  BY <1>1, <1>3 DEF OutInv, Says, Has
<1>4. CASE Beginning
  <2>1. PICK context : server' = Append(server, Begun(request, context))
    BY <1>4 DEF Beginning
  <2> DEFINE x == Begun(request, context)
  <2>2. x.out = << >> /\ x.said = 0
    BY DEF Begun
  <2> HIDE DEF x
  <2>3. PICK s : s = server' /\ s = Append(server, x)
    BY <2>1 DEF x
  <2>4. /\ Len(server) \in Nat /\ DOMAIN server = 1 .. Len(server)
        /\ DOMAIN s = 1 .. Len(server) + 1
        /\ s[Len(server) + 1] = x /\ \A i \in 1 .. Len(server) : s[i] = server[i]
    BY <2>3, Grown DEF ServerInv
  <2>5. \A r : Says(x, r)
    BY <2>2 DEF Says
  <2>6. ASSUME NEW r \in DOMAIN s
        PROVE  Says(s[r], r)
    <3>1. CASE r \in DOMAIN server
      BY <2>4, <3>1 DEF OutInv
    <3>2. CASE r \notin DOMAIN server
      BY <2>4, <2>5, <3>2
    <3> QED
      BY <3>1, <3>2
  <2> QED
    BY <1>1, <2>3, <2>6 DEF OutInv, Says, Has
<1>5. ASSUME ~ Has("wire"), NEW payload, Sending(payload)
      PROVE  OutInv'
  <2>1. /\ current \in DOMAIN server /\ payload \in Payloads /\ profile \in Profiles
        /\ DOMAIN server' = DOMAIN server /\ server'[current] = Sent(payload)
        /\ \A r \in DOMAIN server : r # current => server'[r] = server[r]
    BY <1>5, SendingFacts
  <2> DEFINE a == server[current]
             b == Sent(payload)
  <2>2. Adds(payload, a, b)
    BY <2>1, SaidFacts
  <2>3. IsResponse(a) /\ Says(a, current) /\ current \in Nat /\ CallsIn(a.out) = CallsOf(current)
    BY <1>2, <2>1 DEF ServerInv, OutInv, CallsIn, CallsOf
  <2> HIDE DEF a, b
  <2>4. Says(b, current)
    <3>1. CASE b.out = a.out
      <4>1. b.said = a.said + OneIf(payload = "text") /\ a.said \in Nat
        BY <2>2, <2>3 DEF Adds, IsResponse
      <4>2. a.said # 0 => b.said # 0
        BY <4>1 DEF OneIf
      <4> QED
        BY <1>5, <2>3, <3>1, <4>2 DEF Says
    <3>2. CASE b.out # a.out
      <4>1. PICK x \in Items : /\ b.out = Append(a.out, x) /\ x.of = current
                               /\ x.k = "call" => x.n = CallsOf(current) + 1 /\ payload \in Tools
                               /\ x.k = "text" => payload = "text"
        BY <2>2, <3>2 DEF Adds
      <4>2. b.said = a.said + OneIf(payload = "text")
        BY <2>2 DEF Adds
      <4> QED
        BY <1>5, <2>3, <4>1, <4>2, SaysMore
    <3> QED
      BY <3>1, <3>2
  <2>5. \A r \in DOMAIN server : Says(server'[r], r)
    BY <2>1, <2>4 DEF OutInv, b
  <2> QED
    BY <1>1, <2>1, <2>5 DEF OutInv, Says, Has
<1>6. ASSUME NEW k, Completing(k)
      PROVE  OutInv'
  <2>1. /\ DOMAIN server' = DOMAIN server
        /\ \A r \in DOMAIN server : /\ server'[r].out = server[r].out
                                    /\ server'[r].said = server[r].said
    BY <1>6, CompletingMore
  <2>2. ASSUME NEW r \in DOMAIN server
        PROVE  Says(server'[r], r)
    <3>1. Says(server[r], r)
      BY DEF OutInv
    <3> QED
      BY <2>1, <3>1 DEF Says
  <2> QED
    BY <1>1, <2>1, <2>2 DEF OutInv, Says, Has
<1> QED
  BY <1>3, <1>4, <1>5, <1>6, ServerSteps, Zenon

-----------------------------------------------------------------------------
(* The end of a stream *)

\* What a frame says: its text, its call, and that it was the last.
Tells(es, x, n) ==
  /\ Texts(es) = OneIf(x = "text")
  /\ \A i \in DOMAIN es : es[i].type = "done" => i = Len(es)
  /\ x \in Tools => \E i \in DOMAIN es : IsCall(es[i]) /\ es[i].n = n

LEMMA ParsedTells ==
  ASSUME ClientInv, ServerInv, FrameInv, net = "open", frames # << >>
  PROVE  Tells(Parsed(Head(frames)), frames[1][1], CallsOf(current))
<1> DEFINE es == Parsed(Head(frames))
           x == frames[1][1]
           last == Last(server[current].out).tool
           n == CallsOf(current)
<1>1. Tools \cap (Contents \cup Markers) = {}
  BY ProviderAssumption
<1>2. Head(frames) = frames[1] /\ frames[1] \in Seq(Symbols) \ {<< >>}
  BY TailFacts DEF FrameInv
<1>3. x \in Symbols
  <2> DEFINE f == frames[1]
  <2>1. f \in Seq(Symbols) /\ f # << >>
    BY <1>2
  <2> HIDE DEF f
  <2>2. f[1] \in Symbols
    BY <2>1, TailFacts
  <2> QED
    BY <2>2 DEF f
<1>4. es \in Seq(Events)
  BY ParsedFacts
<1>5. es = IF Chat THEN ParsedChat(x) ELSE ParsedResponses(x)
  BY <1>2, Zenon DEF Parsed
<1> HIDE DEF es, x
<1>6. ASSUME NEW e, es = <<e>>, e.type # "done", e.type = "text" => x = "text",
             x = "text" => e.type = "text", x \in Tools => IsCall(e) /\ e.n = n
      PROVE  Tells(es, x, n)
  <2>1. e \in Events /\ DOMAIN es = {1} /\ es[1] = e /\ Len(es) = 1
    <3>1. DOMAIN es = {1} /\ es[1] = e /\ Len(es) = 1
      BY <1>6
    <3>2. es[1] \in Events
      BY <1>4, <3>1, ElementOfSeq
    <3> QED
      BY <3>1, <3>2
  <2>2. Texts(<<e>>) = OneIf(e.type = "text")
    BY <2>1, TextsOne
  <2>3. OneIf(e.type = "text") = OneIf(x = "text")
    BY <1>6 DEF OneIf
  <2>4. Texts(es) = OneIf(x = "text")
    BY <1>6, <2>2, <2>3
  <2> HIDE DEF n
  <2> QED
    BY <1>6, <2>1, <2>4 DEF Tells
<1>7. ASSUME NEW type \in {"call", "delta"}, NEW tool, es = CallEvent(type, tool), x # "text"
      PROVE  Tells(es, x, n)
  <2> DEFINE e == Event(type, current, n, tool)
  <2>1. es = <<e>>
    BY <1>7 DEF CallEvent
  <2>2. e.type = type /\ e.n = n
    BY DEF Event
  <2> HIDE DEF e, n
  <2> QED
    BY <1>6, <1>7, <2>1, <2>2 DEF IsCall
<1>8. ASSUME es = <<Plain(x)>>, x \notin Tools
      PROVE  Tells(es, x, n)
  <2> DEFINE e == Plain(x)
  <2>1. e.type = x /\ x # "done"
    BY <1>3, <1>8 DEF Plain, Event, Symbols, Contents, Markers
  <2> HIDE DEF e
  <2> QED
    BY <1>6, <1>8, <2>1 DEF e
<1>9. ASSUME NEW e, NEW d, es = <<e, d>>, e.type = "id", d.type = "done", x # "text", x \notin Tools
      PROVE  Tells(es, x, n)
  <2>1. DOMAIN es = 1 .. 2 /\ es[1] = e /\ es[2] = d /\ Len(es) = 2
    BY <1>9
  <2>2. \A i \in DOMAIN es : es[i].type # "text"
    BY <1>9, <2>1
  <2>3. Texts(es) = 0
    BY <1>4, <2>2, TextsNone
  <2>4. OneIf(x = "text") = 0
    BY <1>9 DEF OneIf
  <2> QED
    BY <1>9, <2>1, <2>3, <2>4 DEF Tells
<1>10. x \in Tools \cup {"created", "completed", "close"} => x # "text"
  BY <1>1 DEF Contents
<1> HIDE DEF last
<1>11. ASSUME Chat
       PROVE  Tells(es, x, n)
  <2>1. x \in Tools => es = CallEvent("delta", x)
    BY <1>5, <1>11, Zenon DEF ParsedChat
  <2>2. x \notin Tools => es = <<Plain(x)>>
    BY <1>5, <1>11, Zenon DEF ParsedChat
  <2> HIDE DEF n
  <2> QED
    BY <1>7, <1>8, <1>10, <2>1, <2>2, Zenon
<1>12. ASSUME ~ Chat
       PROVE  Tells(es, x, n)
  <2>0. es = ParsedResponses(x)
    BY <1>5, <1>12
  <2>1. CASE x = "created"
    <3> DEFINE e == Plain("id")
    <3>1. es = <<e>>
      BY <1>1, <2>0, <2>1, Zenon DEF ParsedResponses, Markers
    <3>2. e.type = "id" /\ x \notin Tools /\ x # "text"
      BY <1>1, <2>1 DEF Plain, Event, Markers
    <3> HIDE DEF e, n
    <3> QED
      BY <1>6, <3>1, <3>2
  <2>2. CASE x = "completed"
    <3> DEFINE e == Plain("id")
               d == Plain("done")
    <3>0. x \notin Tools /\ x # "text"
      BY <1>1, <2>2 DEF Markers
    <3>1. es = <<e, d>>
      BY <2>0, <2>2, <3>0, "completed" # "created", "completed" # "close", Zenon
         DEF ParsedResponses
    <3>2. e.type = "id" /\ d.type = "done"
      BY DEF Plain, Event
    <3> HIDE DEF e, d, n
    <3> QED
      BY <1>9, <3>0, <3>1, <3>2
  <2>3. CASE x \in Tools
    <3>1. es = CallEvent(IF Has("added") THEN "delta" ELSE "call", x)
      BY <2>0, <2>3, Zenon DEF ParsedResponses
    <3>2. Has("added") => es = CallEvent("delta", x)
      BY <3>1, Zenon
    <3>3. ~ Has("added") => es = CallEvent("call", x)
      BY <3>1, Zenon
    <3> HIDE DEF n
    <3> QED
      BY <1>7, <1>10, <2>3, <3>2, <3>3, Zenon
  <2>4. CASE x = "close"
    <3>0. x \notin Tools
      BY <1>1, <2>4 DEF Markers
    <3>1. es = CallEvent("call", last)
      BY <2>0, <2>4, <3>0, Zenon DEF ParsedResponses, last
    <3>2. x # "text" /\ "call" \in {"call", "delta"}
      BY <2>4
    <3> HIDE DEF n
    <3> QED
      BY <1>7, <3>1, <3>2
  <2>5. CASE x \notin Tools \cup {"created", "completed", "close"}
    <3>0. x \notin Tools /\ x # "created" /\ x # "completed" /\ x # "close"
      BY <2>5
    <3>1. es = <<Plain(x)>>
      BY <2>0, <3>0, Zenon DEF ParsedResponses
    <3> QED
      BY <1>8, <3>0, <3>1
  <2> QED
    BY <2>1, <2>2, <2>3, <2>4, <2>5
<1> QED
  BY <1>11, <1>12 DEF es, x, n

\* The end of a stream is the last of its events, and is told when it is over.
Ends(events, answer, state) ==
  /\ answer.done => events = << >> /\ state = "done"
  /\ \A i \in DOMAIN events : events[i].type = "done" => i = Len(events) /\ state = "done"

DoneInv == Ends(chan, collector, net)

LEMMA DoneOf ==
  ASSUME IsAnswer(collector), NEW e
  PROVE  Collected(e).done => collector.done \/ e.type = "done"
<1> DEFINE t == IF e.type = "text" THEN collector.text + 1 ELSE collector.text
           ps == IF e.type = "delta" THEN collector.partials \cup {e}
                 ELSE IF e.type = "call" THEN {p \in collector.partials : ~ SameCall(p, e)}
                 ELSE collector.partials
           cs == IF e.type = "call" THEN Append(collector.calls, e) ELSE collector.calls
           F == {"text", "thought", "partials", "calls", "done"}
<1>1. PICK th : th = (collector.thought \/ e.type = "thinking")
  OBVIOUS
<1>2. PICK d \in BOOLEAN : d = (collector.done \/ e.type = "done")
  <2>1. (collector.done \/ e.type = "done") \in BOOLEAN
    OBVIOUS
  <2> QED
    BY <2>1, Zenon
<1>3. Collected(e) = CollectedAs(collector, t, th, ps, cs, d)
  BY <1>1, <1>2, Zenon DEF Collected, CollectedAs
<1>4. collector = [f \in F |-> collector[f]]
  BY DEF IsAnswer
<1> HIDE DEF t, ps, cs
<1>5. CollectedAs(collector, t, th, ps, cs, d).done = d
  BY <1>4 DEF CollectedAs
<1>6. Collected(e).done = d
  BY <1>3, <1>5, Zenon
<1> QED
  BY <1>2, <1>6, Zenon

LEMMA NotDoneYet == NoAnswer.done = FALSE /\ DOMAIN << >> = {}
BY DEF NoAnswer

LEMMA DoneStep ==
  ASSUME ClientInv, ServerInv, FrameInv, EventInv, DoneInv, [Next]_vars
  PROVE  DoneInv'
<1>1. /\ chan \in Seq(Events) /\ Len(chan) \in Nat /\ DOMAIN chan = 1 .. Len(chan)
      /\ IsAnswer(collector) /\ emitted \in BOOLEAN
  BY LenProperties DEF EventInv, ClientInv
<1>2. Ends(chan, collector, net)
  BY DEF DoneInv
<1>3. Quiet => DoneInv'
  BY <1>2 DEF Quiet, streamVars, DoneInv
<1>4. ASSUME Closing \/ Opening
      PROVE  DoneInv'
  <2>1. chan' = << >> /\ collector' = NoAnswer
    BY <1>4 DEF Closing, Opening, CloseStream, OpenStream, Restart
  <2>2. \A state : Ends(<< >>, NoAnswer, state)
    BY NotDoneYet DEF Ends
  <2> QED
    BY <2>1, <2>2 DEF DoneInv
<1>5. ASSUME Consume
      PROVE  DoneInv'
  <2> DEFINE e == Head(chan)
             t == Tail(chan)
  <2>1. /\ chan # << >> /\ ~ Exceeds(e) /\ chan' = t /\ net' = net /\ ~ collector.done
    BY <1>5 DEF Consume
  <2>2. /\ t \in Seq(Events) /\ Len(t) = Len(chan) - 1 /\ DOMAIN t = 1 .. Len(chan) - 1
        /\ e = chan[1] /\ Len(chan) # 0
        /\ \A i \in 1 .. Len(chan) - 1 : t[i] = chan[i + 1]
    BY <1>1, <2>1, TailFacts
  <2>3. collector' = collector \/ collector' = Collected(e)
    BY <1>5 DEF Consume
  <2> HIDE DEF e, t
  <2>4. collector'.done => e.type = "done"
    BY <1>1, <2>1, <2>3, DoneOf
  <2>5. e.type = "done" => net = "done" /\ t = << >>
    <3> SUFFICES ASSUME e.type = "done"
                 PROVE  net = "done" /\ t = << >>
      OBVIOUS
    <3>1. 1 \in DOMAIN chan /\ chan[1].type = "done"
      BY <1>1, <2>2
    <3>2. 1 = Len(chan) /\ net = "done"
      BY <1>2, <3>1 DEF Ends
    <3>3. Len(t) = 0
      <4>1. Len(t) = Len(chan) - 1
        BY <2>2
      <4> QED
        BY <3>2, <4>1
    <3> QED
      BY <2>2, <3>2, <3>3, EmptySeq
  <2>6. \A i \in DOMAIN t : t[i].type = "done" => i = Len(t) /\ net = "done"
    <3> SUFFICES ASSUME NEW i \in DOMAIN t, t[i].type = "done"
                 PROVE  i = Len(t) /\ net = "done"
      OBVIOUS
    <3>1. i + 1 \in DOMAIN chan /\ t[i] = chan[i + 1] /\ i \in Nat
      BY <1>1, <2>2
    <3>2. i + 1 = Len(chan) /\ net = "done"
      BY <1>2, <3>1 DEF Ends
    <3> QED
      BY <1>1, <2>2, <3>1, <3>2
  <2>7. PICK c : c = collector'
    OBVIOUS
  <2>8. Ends(t, c, net)
    BY <2>4, <2>5, <2>6, <2>7 DEF Ends
  <2> QED
    BY <2>1, <2>7, <2>8 DEF DoneInv
\* Until the stream is over there is no end on its way.
<1>6. ASSUME net # "done"
      PROVE  ~ collector.done /\ \A i \in DOMAIN chan : chan[i].type # "done"
  BY <1>2, <1>6 DEF Ends
<1>7. ASSUME net # "done", chan' = chan, collector' = collector
      PROVE  DoneInv'
  BY <1>6, <1>7 DEF DoneInv, Ends
<1>8. ASSUME net # "done", collector' = collector, NEW type, chan' = Append(chan, Plain(type)),
             type = "done" => net' = "done"
      PROVE  DoneInv'
  <2> DEFINE e == Plain(type)
             s == Append(chan, e)
  <2>1. e.type = type
    BY DEF Plain, Event
  <2>2. chan \in Seq(ToSet(chan))
    BY <1>1, LenProperties DEF ToSet
  <2>3. chan' = s
    BY <1>8
  <2> HIDE DEF e
  <2>4. /\ DOMAIN s = 1 .. Len(chan) + 1 /\ s[Len(chan) + 1] = e
        /\ \A i \in 1 .. Len(chan) : s[i] = chan[i]
    BY <2>2, Grown
  <2>5. Len(s) = Len(chan) + 1
    BY <2>2, AppendProperties
  <2> HIDE DEF s
  <2>6. \A i \in DOMAIN s : s[i].type = "done" => i = Len(s) /\ net' = "done"
    BY <1>1, <1>6, <1>8, <2>1, <2>4, <2>5
  <2> QED
    BY <1>6, <1>8, <2>3, <2>6 DEF DoneInv, Ends
<1>9. ASSUME collector' = collector, Delivering
      PROVE  DoneInv'
  <2> DEFINE es == Parsed(Head(frames))
             s == chan \o es
  <2>1. /\ net = "open" /\ frames # << >> /\ chan' = s
        /\ net' = "done" \/ Last(es).type # "done"
    BY <1>9 DEF Delivering
  <2>2. es \in Seq(Events) /\ Len(es) \in {1, 2} /\ DOMAIN es = 1 .. Len(es)
    BY <2>1, ParsedFacts
  <2>3. \A i \in DOMAIN es : es[i].type = "done" => i = Len(es)
    BY <2>1, ParsedTells DEF Tells
  <2> HIDE DEF es
  <2>4. Last(es) = es[Len(es)]
    BY DEF Last
  <2>5. /\ Len(s) = Len(chan) + Len(es) /\ DOMAIN s = 1 .. Len(chan) + Len(es)
        /\ \A i \in 1 .. Len(chan) : s[i] = chan[i]
        /\ \A i \in Len(chan) + 1 .. Len(chan) + Len(es) : s[i] = es[i - Len(chan)]
    BY <1>1, <2>2, ConcatFacts
  <2> HIDE DEF s
  <2>6. ASSUME NEW i \in DOMAIN s, s[i].type = "done"
        PROVE  i = Len(s) /\ net' = "done"
    <3>1. i \notin 1 .. Len(chan)
      BY <1>1, <1>6, <2>1, <2>5, <2>6
    <3>2. i \in Len(chan) + 1 .. Len(chan) + Len(es) /\ i - Len(chan) \in DOMAIN es
      BY <1>1, <2>2, <2>5, <3>1
    <3>3. i - Len(chan) = Len(es) /\ s[i] = es[i - Len(chan)]
      BY <2>3, <2>5, <2>6, <3>2
    <3>4. net' = "done"
      BY <2>1, <2>4, <2>6, <3>3
    <3> QED
      BY <1>1, <2>5, <3>2, <3>3, <3>4
  <2> QED
    BY <1>6, <1>9, <2>1, <2>6 DEF DoneInv, Ends
<1>10. ASSUME ProviderStep
       PROVE  DoneInv'
  <2>1. collector' = collector
    BY <1>1, <1>10, ProviderSteps
  <2>2. Beginning \/ Failing => DoneInv'
    BY <1>7, <2>1 DEF Beginning, Failing
  <2>3. Repeating => DoneInv'
    BY <1>8, <2>1 DEF Repeating
  <2>4. Ending => DoneInv'
    BY <1>7, <1>8, <2>1 DEF Ending
  <2>5. Delivering => DoneInv'
    BY <1>9, <2>1
  <2>6. ASSUME NEW payload, Sending(payload)
        PROVE  DoneInv'
    BY <1>7, <2>1, <2>6 DEF Sending
  <2>7. ASSUME NEW chunk, Feeding(chunk)
        PROVE  DoneInv'
    BY <1>7, <2>1, <2>7 DEF Feeding, Push
  <2>8. ASSUME NEW r, Completing(r)
        PROVE  DoneInv'
    BY <1>2, <2>1, <2>8 DEF Completing, streamVars, DoneInv
  <2> QED
    BY <1>1, <1>10, <2>2, <2>3, <2>4, <2>5, <2>6, <2>7, <2>8, ProviderSteps, Zenon
<1> QED
  BY <1>3, <1>4, <1>5, <1>10, StreamSteps, Zenon

-----------------------------------------------------------------------------
(* All that has been said is told *)

\* Call n is known to the collector, or an event on its way tells of it.
Told(n, events, answer) ==
  \/ \E j \in DOMAIN answer.calls : answer.calls[j].n = n
  \/ \E p \in answer.partials : p.n = n
  \/ \E i \in DOMAIN events : IsCall(events[i]) /\ events[i].n = n

\* The texts said are those collected, those on their way and those in a frame
\* not yet handled; the calls begun are told.
Tallied(events, answer, late, said, begun) ==
  /\ answer.text + Texts(events) + late = said
  /\ \A n \in 1 .. begun : Told(n, events, answer)

Late == IF Pending({"text"}) THEN 1 ELSE 0

TallyInv ==
  ~ Has("wire") =>
    /\ frames = << >> \/ \E p \in Symbols : frames = <<<<p>>>>
    /\ net = "open" \/ outcome = "ok" =>
         Tallied(chan, collector, Late, server[current].said, LastBegun)

\* Events are put on the channel.
LEMMA TallyMore ==
  ASSUME NEW q \in Seq(Events), NEW es \in Seq(Events), NEW c, c.text \in Nat,
         NEW k \in Nat, NEW l \in Nat, NEW s, NEW b \in Int, NEW m \in Int,
         Tallied(q, c, k, s, b), k = Texts(es) + l,
         m = b \/ (m = b + 1 /\ \E i \in DOMAIN es : IsCall(es[i]) /\ es[i].n = m)
  PROVE  Tallied(Joined(q, es), c, l, s, m)
<1> DEFINE r == Joined(q, es)
<1>1. Texts(r) = Texts(q) + Texts(es) /\ Texts(q) \in Nat /\ Texts(es) \in Nat
  BY TextsJoin
<1>2. InARow(Events, q, es, r)
  BY JoinedFacts
<1> HIDE DEF r
<1>3. /\ Len(q) \in Nat /\ Len(es) \in Nat /\ DOMAIN q = 1 .. Len(q) /\ DOMAIN es = 1 .. Len(es)
      /\ DOMAIN r = 1 .. Len(q) + Len(es)
      /\ \A i \in 1 .. Len(q) : r[i] = q[i]
      /\ \A i \in 1 .. Len(es) : r[Len(q) + i] = es[i]
  BY <1>2 DEF InARow
<1>4. c.text + Texts(q) + k = s /\ \A n \in 1 .. b : Told(n, q, c)
  BY DEF Tallied
<1>5. c.text + Texts(r) + l = s
  BY <1>1, <1>4
<1>6. ASSUME NEW n \in 1 .. b
      PROVE  Told(n, r, c)
  <2>1. Told(n, q, c)
    BY <1>4
  <2>2. (\E i \in DOMAIN q : IsCall(q[i]) /\ q[i].n = n)
        => \E i \in DOMAIN r : IsCall(r[i]) /\ r[i].n = n
    <3>1. \A i \in DOMAIN q : i \in DOMAIN r /\ r[i] = q[i]
      BY <1>3
    <3> QED
      BY <3>1
  <2> QED
    BY <2>1, <2>2 DEF Told
<1>7. ASSUME m = b + 1, NEW i \in DOMAIN es, IsCall(es[i]), es[i].n = m
      PROVE  Told(m, r, c)
  <2>1. Len(q) + i \in DOMAIN r /\ r[Len(q) + i] = es[i]
    BY <1>3
  <2> QED
    BY <1>7, <2>1 DEF Told
<1>8. ASSUME NEW n \in 1 .. m
      PROVE  Told(n, r, c)
  <2>1. CASE n \in 1 .. b
    BY <1>6, <2>1
  <2>2. CASE n \notin 1 .. b
    <3>1. m = b + 1 /\ n = m
      BY <2>2
    <3>2. PICK i \in DOMAIN es : IsCall(es[i]) /\ es[i].n = m
      BY <3>1
    <3> QED
      BY <1>7, <3>1, <3>2
  <2> QED
    BY <2>1, <2>2
<1> QED
  BY <1>5, <1>8 DEF Tallied, r

\* An event is collected.
LEMMA TallyTaken ==
  ASSUME NEW q \in Seq(Events), q # << >>, NEW old, NEW c, NEW e, e = Head(q),
         IsAnswer(old), e.type = "call" => e \in CallEvents,
         c.text = old.text + OneIf(e.type = "text"),
         c.calls = IF e.type = "call" THEN Append(old.calls, e) ELSE old.calls,
         c.partials = IF e.type = "delta" THEN old.partials \cup {e}
                      ELSE IF e.type = "call" THEN {p \in old.partials : ~ SameCall(p, e)}
                      ELSE old.partials,
         NEW k \in Nat, NEW s, NEW b, Tallied(q, old, k, s, b)
  PROVE  Tallied(Tail(q), c, k, s, b)
<1> DEFINE t == Tail(q)
<1>1. /\ t \in Seq(Events) /\ Len(q) \in Nat \ {0} /\ DOMAIN t = 1 .. Len(q) - 1
      /\ DOMAIN q = 1 .. Len(q) /\ Head(q) = q[1]
      /\ \A i \in 1 .. Len(q) - 1 : t[i] = q[i + 1]
  BY TailFacts
<1>2. Texts(q) = OneIf(e.type = "text") + Texts(t) /\ Texts(t) \in Nat
  BY TextsLess
<1> HIDE DEF t
<1>3. old.text + Texts(q) + k = s /\ \A n \in 1 .. b : Told(n, q, old)
  BY DEF Tallied
<1>4. old.text \in Nat /\ old.calls \in Seq(CallEvents)
  BY ProviderAssumption DEF IsAnswer
<1>5. OneIf(e.type = "text") \in Nat
  BY DEF OneIf
<1>6. c.text + Texts(t) + k = s
  BY <1>2, <1>3, <1>4, <1>5
<1>7. /\ \A j \in DOMAIN old.calls : j \in DOMAIN c.calls /\ c.calls[j] = old.calls[j]
      /\ e.type = "call" => \E j \in DOMAIN c.calls : c.calls[j] = e
  <2>1. CASE e.type = "call"
    <3> DEFINE cs == old.calls
               r == Append(cs, e)
    <3>1. cs \in Seq(CallEvents) /\ e \in CallEvents
      BY <1>4, <2>1
    <3> HIDE DEF cs
    <3>2. /\ DOMAIN r = 1 .. Len(cs) + 1 /\ DOMAIN cs = 1 .. Len(cs) /\ Len(cs) \in Nat
          /\ r[Len(cs) + 1] = e /\ \A i \in 1 .. Len(cs) : r[i] = cs[i]
      BY <3>1, OneMore
    <3>3. c.calls = r
      BY <2>1 DEF cs
    <3> HIDE DEF r
    <3>4. /\ \A j \in DOMAIN cs : j \in DOMAIN r /\ r[j] = cs[j]
          /\ \E j \in DOMAIN r : r[j] = e
      BY <3>2
    <3> QED
      BY <3>3, <3>4 DEF cs
  <2>2. CASE e.type # "call"
    BY <2>2
  <2> QED
    BY <2>1, <2>2
<1>8. /\ \A p \in old.partials : p \in c.partials \/ (e.type = "call" /\ p.n = e.n)
      /\ e.type = "delta" => e \in c.partials
  BY DEF SameCall
<1>9. ASSUME NEW n \in 1 .. b
      PROVE  Told(n, t, c)
  <2>1. Told(n, q, old)
    BY <1>3
  <2>2. CASE IsCall(e) /\ e.n = n
    BY <1>7, <1>8, <2>2 DEF Told, IsCall
  <2>3. CASE \E j \in DOMAIN old.calls : old.calls[j].n = n
    BY <1>7, <2>3 DEF Told
  <2>4. CASE \E p \in old.partials : p.n = n
    <3>1. (\E p \in c.partials : p.n = n) \/ (e.type = "call" /\ e.n = n)
      BY <1>8, <2>4
    <3> QED
      BY <2>2, <3>1 DEF Told, IsCall
  <2>5. CASE \E i \in DOMAIN q : IsCall(q[i]) /\ q[i].n = n
    <3>1. PICK i \in DOMAIN q : IsCall(q[i]) /\ q[i].n = n
      BY <2>5
    <3>2. CASE i = 1
      BY <1>1, <2>2, <3>1, <3>2
    <3>3. CASE i # 1
      <4>1. i - 1 \in DOMAIN t /\ (i - 1) + 1 = i /\ i - 1 \in 1 .. Len(q) - 1
        BY <1>1, <3>3
      <4>2. t[i - 1] = q[i]
        BY <1>1, <4>1
      <4> QED
        BY <3>1, <4>1, <4>2 DEF Told
    <3> QED
      BY <3>2, <3>3
  <2> QED
    BY <2>1, <2>3, <2>4, <2>5 DEF Told
<1> QED
  BY <1>6, <1>9 DEF Tallied, t

\* A stream of whole frames.
LEMMA FrameSteps ==
  ASSUME emitted \in BOOLEAN, ~ Has("wire"), ProviderStep
  PROVE  /\ UNCHANGED <<profile, phase, collector>>
         /\ \/ Beginning \/ Repeating \/ Failing \/ Ending \/ Delivering
            \/ \E payload : Sending(payload)
            \/ \E r : Completing(r)
<1>1. UNCHANGED <<profile, phase, collector>>
  BY ProviderSteps
<1>2. ReceiveFrame => \E payload : Sending(payload)
  BY Receiving
<1>3. ~ ReceiveBytes
  BY DEF ReceiveBytes
<1>4. (\E r \in DOMAIN server : FinishUnheard(r)) => \E r : Completing(r)
  BY Zenon DEF FinishUnheard, Completing
<1>5. \/ Respond(request) \/ ReceiveFrame \/ ReceiveBytes \/ HandleFrame \/ EndOfBody
      \/ BreakOff \/ \E r \in DOMAIN server : FinishUnheard(r)
  BY Zenon DEF ProviderStep
<1> QED
  BY <1>1, <1>2, <1>3, <1>4, <1>5, RespondSteps, BodySteps, Zenon

\* A payload is a symbol.
LEMMA PayloadIsSymbol ==
  ASSUME NEW payload \in Payloads, profile \in Profiles
  PROVE  payload \in Symbols
<1>1. profile.says \subseteq Tools \cup Contents
  BY ProviderAssumption
<1> QED
  BY <1>1 DEF Payloads, Symbols, Markers

\* What a stream that has just begun tells.
LEMMA NothingTold ==
  ASSUME NEW q \in Seq(Events), \A i \in DOMAIN q : q[i].type = "retrying",
         NEW c, c.text = 0
  PROVE  Tallied(q, c, 0, 0, 0)
<1>1. Texts(q) = 0
  BY TextsNone
<1>2. 1 .. 0 = {}
  OBVIOUS
<1> QED
  BY <1>1, <1>2 DEF Tallied

LEMMA TallyStep ==
  ASSUME ClientInv, ServerInv, FrameInv, EventInv, TallyInv, [Next]_vars
  PROVE  TallyInv'
<1>1. /\ chan \in Seq(Events) /\ IsAnswer(collector) /\ collector.text \in Nat
      /\ emitted \in BOOLEAN /\ (net = "sent" => current = 0) /\ (net = "open" => current # 0)
      /\ outcome = "ok" => current # 0
      /\ net # "open" => frames = << >>
  BY ProviderAssumption DEF EventInv, IsAnswer, ClientInv
<1>2. /\ Latest \in Nat /\ LastBegun \in Int
      /\ current # 0 => /\ current \in DOMAIN server /\ Latest = CallsOf(current)
                        /\ IsResponse(server[current])
  <2>1. /\ Latest \in Nat
        /\ current # 0 => /\ current \in DOMAIN server /\ Latest = CallsOf(current)
                          /\ IsResponse(server[current])
    BY LatestFacts
  <2> HIDE DEF Latest
  <2> QED
    BY <2>1 DEF LastBegun
<1>3. profile' = profile
  BY ProfileKept
<1>4. CASE Has("wire")
  BY <1>3, <1>4 DEF TallyInv, Has
<1> SUFFICES ASSUME ~ Has("wire")
             PROVE  TallyInv'
  BY <1>4
<1>5. /\ frames = << >> \/ \E p \in Symbols : frames = <<<<p>>>>
      /\ net = "open" \/ outcome = "ok" =>
           Tallied(chan, collector, Late, server[current].said, LastBegun)
  BY DEF TallyInv
<1>6. ~ Has("wire")'
  BY <1>3 DEF Has
<1>7. ASSUME frames' = << >>, ~ (net' = "open" \/ outcome' = "ok")
      PROVE  TallyInv'
  BY <1>7 DEF TallyInv
<1>8. Late \in {0, 1}
  BY DEF Late
<1>9. Quiet => TallyInv'
  <2> SUFFICES ASSUME Quiet
               PROVE  TallyInv'
    OBVIOUS
  <2>1. UNCHANGED <<chan, collector, frames, current, server, net, outcome>>
    BY DEF Quiet, streamVars
  <2>2. LastBegun' = LastBegun /\ Late' = Late
    BY <2>1 DEF LastBegun, Pending, Latest, CallsOf, Late
  <2> QED
    BY <1>5, <2>1, <2>2 DEF TallyInv
<1>10. Closing \/ Opening => TallyInv'
  BY <1>7 DEF Closing, Opening, CloseStream, OpenStream, Restart
<1>11. ASSUME Consume
       PROVE  TallyInv'
  <2> DEFINE e == Head(chan)
             t == Tail(chan)
             c == Collected(e)
  <2>1. /\ chan # << >> /\ ~ Exceeds(e) /\ chan' = t
        /\ UNCHANGED <<frames, current, server, net, outcome>>
    BY <1>11 DEF Consume, endpointVars
  <2>2. e = chan[1] /\ e \in Events /\ 1 \in DOMAIN chan
    BY <1>1, <2>1, TailFacts
  <2>3. IsCall(e) => e.tool \in Tools
    BY <2>2 DEF EventInv, Belong
  <2>4. e.type = "text" => collector.text # MaxText
    BY <2>1 DEF Exceeds
  <2>5. collector' = c
    <3>1. collector' = IF e.type = "text" /\ collector.text = MaxText THEN collector ELSE c
      BY <1>11, Zenon DEF Consume
    <3> QED
      BY <2>4, <3>1, Zenon
  <2>6. LastBegun' = LastBegun /\ Late' = Late
    BY <2>1 DEF LastBegun, Pending, Latest, CallsOf, Late
  <2> HIDE DEF e, t
  <2>7. /\ c.calls = IF e.type = "call" THEN Append(collector.calls, e) ELSE collector.calls
        /\ c.partials = IF e.type = "delta" THEN collector.partials \cup {e}
                        ELSE IF e.type = "call"
                          THEN {p \in collector.partials : ~ SameCall(p, e)}
                          ELSE collector.partials
        /\ c.text = IF e.type = "text" THEN collector.text + 1 ELSE collector.text
    BY <1>1, <2>2, <2>3, <2>4, CollectedFacts, ZenonT(40)
  <2>8. e.type = "call" => e \in CallEvents
    BY <2>2, <2>3 DEF IsCall, Events, CallEvents
  <2> HIDE DEF c
  <2>9. c.text = collector.text + OneIf(e.type = "text")
    BY <1>1, <2>7 DEF OneIf
  <2>10. ASSUME net = "open" \/ outcome = "ok"
         PROVE  Tallied(t, c, Late, server[current].said, LastBegun)
    <3>1. PICK k, s, b, u : /\ k = Late /\ s = server[current].said /\ b = LastBegun
                            /\ u = collector
      OBVIOUS
    <3>2. Tallied(chan, u, k, s, b) /\ k \in Nat
      BY <1>5, <1>8, <2>10, <3>1
    <3>3. IsAnswer(u) /\ e = Head(chan)
      BY <1>1, <3>1 DEF e
    <3>4. /\ c.calls = IF e.type = "call" THEN Append(u.calls, e) ELSE u.calls
          /\ c.text = u.text + OneIf(e.type = "text")
      BY <2>7, <2>9, <3>1
    <3>5. c.partials = IF e.type = "delta" THEN u.partials \cup {e}
                       ELSE IF e.type = "call" THEN {p \in u.partials : ~ SameCall(p, e)}
                       ELSE u.partials
      BY <2>7, <3>1, Zenon
    <3>6. Tallied(Tail(chan), c, k, s, b)
      BY <1>1, <2>1, <2>8, <3>2, <3>3, <3>4, <3>5, TallyTaken, ZenonT(60)
    <3> QED
      BY <3>1, <3>6 DEF t
  <2> QED
    BY <1>5, <2>1, <2>5, <2>6, <2>10 DEF TallyInv
<1>12. ASSUME collector' = collector, Beginning
       PROVE  TallyInv'
  <2> DEFINE n == Len(server) + 1
  <2>1. PICK context : server' = Append(server, Begun(request, context))
    BY <1>12 DEF Beginning
  <2> DEFINE x == Begun(request, context)
  <2>2. x.out = << >> /\ x.said = 0
    BY DEF Begun
  <2> HIDE DEF x
  <2>3. PICK s : s = server' /\ s = Append(server, x)
    BY <2>1 DEF x
  <2>4. s[n] = x /\ Len(server) \in Nat
    BY <2>3, Grown DEF ServerInv
  <2>5. frames' = << >> /\ current' = n /\ n # 0 /\ current = 0 /\ chan' = chan
    BY <1>1, <1>12, <2>4 DEF Beginning
  <2>6. server'[current'].said = 0 /\ server'[current'].out = << >>
    BY <2>2, <2>3, <2>4, <2>5
  <2>7. Latest' = 0
    <3>1. {j \in DOMAIN << >> : << >>[j].k = "call"} = {}
      OBVIOUS
    <3>2. CallsOf(current)' = Cardinality({})
      BY <2>6, <3>1, Zenon DEF CallsOf
    <3>3. CallsOf(current)' = 0
      BY <3>2, FS_EmptySet
    <3> QED
      BY <3>3 DEF Latest
  <2>8. LastBegun' = 0 /\ Late' = 0
    <3> HIDE DEF Latest
    <3> QED
      BY <2>5, <2>7 DEF LastBegun, Late, Pending
  <2>9. collector.text = 0 /\ \A i \in DOMAIN chan : chan[i].type = "retrying"
    BY <2>5 DEF EventInv, Belong
  <2>10. Tallied(chan, collector, 0, 0, 0)
    BY <1>1, <2>9, NothingTold
  <2> QED
    BY <1>12, <2>5, <2>6, <2>8, <2>10 DEF TallyInv
<1>13. Repeating => TallyInv'
  BY <1>7 DEF Repeating
<1>14. Failing => TallyInv'
  BY <1>7 DEF Failing, Errors
<1>15. ASSUME collector' = collector, Ending
       PROVE  TallyInv'
  <2>1. /\ net = "open" /\ frames' = << >> /\ UNCHANGED <<current, server>>
        /\ frames = << >> \/ Head(frames)[1] = "[DONE]"
        /\ chan' = chan \/ chan' = Append(chan, Plain("done"))
    BY <1>15 DEF Ending
  <2>2. ~ Pending(Tools) /\ ~ Pending({"text"})
    <3>1. frames # << >> => frames[1][1] = "[DONE]"
      BY <1>5, <2>1
    <3>2. "[DONE]" \notin Tools
      BY ProviderAssumption DEF Markers
    <3> QED
      BY <3>1, <3>2 DEF Pending
  <2>3. LastBegun' = Latest /\ LastBegun = Latest /\ Late = 0 /\ Late' = 0
    BY <2>1, <2>2, Zenon DEF LastBegun, Late, Pending, Latest, CallsOf
  <2> DEFINE r == server[current].said
  <2>4. Tallied(chan, collector, 0, r, Latest)
    BY <1>5, <2>1, <2>3
  <2>5. Tallied(Append(chan, Plain("done")), collector, 0, r, Latest)
    <3> DEFINE e == Plain("done")
               es == <<e>>
    <3>1. e \in Events /\ e.type = "done"
      <4>1. current \in Nat
        BY <1>1, <1>2, <2>1, LenProperties DEF ServerInv
      <4> QED
        BY <4>1 DEF Plain, Event, Events, EventTypes, Nothing
    <3> HIDE DEF e
    <3>2. es \in Seq(Events) /\ Texts(es) = OneIf(e.type = "text")
      BY <3>1, TextsOne
    <3>3. OneIf(e.type = "text") = 0
      BY <3>1 DEF OneIf
    <3>4. Append(chan, e) = Joined(chan, es)
      BY <1>1, <3>1, AppendIsConcat DEF Joined
    <3> HIDE DEF es, r, Latest
    <3>5. PICK m, s : m = Latest /\ s = r
      OBVIOUS
    <3>6. Tallied(chan, collector, 0, s, m) /\ m \in Int /\ 0 = Texts(es) + 0
      BY <1>2, <2>4, <3>2, <3>3, <3>5
    <3>7. Tallied(Joined(chan, es), collector, 0, s, m)
      BY <1>1, <3>2, <3>6, TallyMore
    <3> QED
      BY <3>4, <3>5, <3>7 DEF e
  <2> QED
    BY <1>15, <2>1, <2>3, <2>4, <2>5 DEF TallyInv
<1>16. ASSUME collector' = collector, Delivering
       PROVE  TallyInv'
  <2> DEFINE es == Parsed(Head(frames))
             x == frames[1][1]
  <2>1. /\ net = "open" /\ frames # << >> /\ chan' = chan \o es
        /\ frames' = << >> \/ frames' = Tail(frames)
        /\ UNCHANGED <<current, server>>
    BY <1>16 DEF Delivering
  <2>2. es \in Seq(Events)
    BY <2>1, ParsedFacts
  <2>3. Tells(es, x, CallsOf(current))
    BY <2>1, ParsedTells
  <2>4. frames' = << >>
    <3>1. PICK p : frames = <<<<p>>>>
      BY <1>5, <2>1
    <3>2. Tail(frames) = << >>
      BY <3>1
    <3> QED
      BY <2>1, <3>2
  <2>5. Latest = CallsOf(current) /\ Latest \in Int
    BY <1>1, <1>2, <2>1
  <2>6. /\ LastBegun' = Latest /\ LastBegun = IF x \in Tools THEN Latest - 1 ELSE Latest
        /\ Late = OneIf(x = "text") /\ Late' = 0
    <3>1. Latest' = Latest
      BY <2>1 DEF Latest, CallsOf
    <3>2. ~ Pending(Tools)' /\ ~ Pending({"text"})'
      BY <2>4 DEF Pending
    <3>3. (Pending(Tools) <=> x \in Tools) /\ (Pending({"text"}) <=> x = "text")
      BY <2>1 DEF Pending
    <3> HIDE DEF Latest, x
    <3> QED
      BY <3>1, <3>2, <3>3 DEF LastBegun, Late, OneIf
  <2> HIDE DEF es, x
  <2>7. PICK m, b, k, s : m = Latest /\ b = LastBegun /\ k = Late /\ s = server[current].said
    OBVIOUS
  <2>8. /\ Tallied(chan, collector, k, s, b) /\ k \in Nat /\ b \in Int /\ m \in Int
        /\ k = Texts(es) + 0
        /\ m = b \/ (m = b + 1 /\ \E i \in DOMAIN es : IsCall(es[i]) /\ es[i].n = m)
    <3>1. Tallied(chan, collector, k, s, b)
      BY <1>5, <2>1, <2>7
    <3>2. Texts(es) = k /\ k \in Nat
      BY <1>8, <2>3, <2>6, <2>7 DEF Tells
    <3>3. x \in Tools => \E i \in DOMAIN es : IsCall(es[i]) /\ es[i].n = m
      BY <2>3, <2>5, <2>7 DEF Tells
    <3> HIDE DEF Latest, LastBegun
    <3>4. b = IF x \in Tools THEN m - 1 ELSE m
      BY <2>6, <2>7
    <3>5. m \in Int /\ b \in Int
      BY <2>5, <2>7, <3>4
    <3> QED
      BY <3>1, <3>2, <3>3, <3>4, <3>5
  <2>9. Tallied(Joined(chan, es), collector, 0, s, m)
    BY <1>1, <2>2, <2>8, TallyMore
  <2>10. chan' = Joined(chan, es)
    BY <2>1 DEF Joined
  <2> QED
    BY <1>16, <2>1, <2>4, <2>6, <2>7, <2>9, <2>10 DEF TallyInv
<1>17. ASSUME collector' = collector, NEW payload, Sending(payload)
       PROVE  TallyInv'
  <2>1. /\ current \in DOMAIN server /\ payload \in Payloads /\ profile \in Profiles
        /\ server'[current] = Sent(payload)
    BY <1>17, SendingFacts
  <2>2. /\ net = "open" /\ frames = << >> /\ frames' = <<<<payload>>>>
        /\ UNCHANGED <<chan, current, net, outcome>>
    BY <1>17 DEF Sending
  <2>3. payload \in Symbols
    BY <2>1, PayloadIsSymbol
  <2>4. LastBegun' = LastBegun
    BY <1>17, LatestSent
  <2>5. Late = 0 /\ Late' = OneIf(payload = "text")
    BY <2>2 DEF Late, Pending, OneIf
  <2> DEFINE a == server[current]
             b == Sent(payload)
  <2>6. b.said = a.said + OneIf(payload = "text") /\ a.said \in Nat
    <3>1. Adds(payload, a, b)
      BY <2>1, SaidFacts
    <3> QED
      BY <1>2, <2>1, <2>2, <1>1, <3>1 DEF Adds, IsResponse
  <2> HIDE DEF a, b
  <2>7. Tallied(chan, collector, 0, a.said, LastBegun)
    BY <1>5, <2>2, <2>5 DEF a
  <2>8. Tallied(chan, collector, OneIf(payload = "text"), b.said, LastBegun)
    <3>1. Texts(chan) \in Nat
      <4>1. << >> \in Seq(Events)
        OBVIOUS
      <4> QED
        BY <1>1, <4>1, TextsJoin
    <3>2. OneIf(payload = "text") \in Nat
      BY DEF OneIf
    <3> QED
      BY <1>1, <2>6, <2>7, <3>1, <3>2 DEF Tallied
  <2>9. server'[current].said = b.said
    BY <2>1 DEF b
  <2> QED
    BY <1>17, <2>2, <2>3, <2>4, <2>5, <2>8, <2>9 DEF TallyInv
<1>18. ASSUME collector' = collector, NEW k, Completing(k)
       PROVE  TallyInv'
  <2>1. UNCHANGED <<chan, current, frames, net, outcome>>
    BY <1>18 DEF Completing, streamVars
  <2>2. current # 0 => /\ server'[current].out = server[current].out
                       /\ server'[current].said = server[current].said
    BY <1>2, <1>18, CompletingMore
  <2>3. Latest' = Latest
    BY <2>1, <2>2, Zenon DEF Latest, CallsOf
  <2>4. LastBegun' = LastBegun /\ Late' = Late
    <3> HIDE DEF Latest
    <3> QED
      BY <2>1, <2>3, Zenon DEF LastBegun, Late, Pending
  <2> QED
    BY <1>1, <1>5, <1>18, <2>1, <2>2, <2>4 DEF TallyInv
<1>19. ASSUME ProviderStep
       PROVE  TallyInv'
  <2>1. collector' = collector
    BY <1>1, <1>19, ProviderSteps
  <2> QED
    BY <1>1, <1>12, <1>13, <1>14, <1>15, <1>16, <1>17, <1>18, <1>19, <2>1, FrameSteps, Zenon
<1> QED
  BY <1>9, <1>10, <1>11, <1>19, StreamSteps, Zenon

\* When a stream is over the collector has it all: the text that was said and
\* every call that was begun.
LEMMA AllIsTold ==
  ASSUME ClientInv, ServerInv, EventInv, OutInv, DoneInv, TallyInv, Drained, outcome = "ok"
  PROVE  /\ current \in DOMAIN server
         /\ Has("wire") => server[current].out = << >>
         /\ ~ Has("wire") => /\ collector.text = server[current].said
                             /\ \A n \in 1 .. CallsIn(server[current].out) :
                                  \/ \E j \in DOMAIN collector.calls : collector.calls[j].n = n
                                  \/ \E p \in collector.partials : p.n = n
<1>1. /\ net = "done" /\ chan = << >> /\ frames = << >> /\ current # 0
      /\ collector.text \in Nat
  <2>1. net = "done" /\ (chan = << >> \/ collector.done)
    BY DEF Drained
  <2>2. chan = << >>
    BY <2>1 DEF DoneInv, Ends
  <2> QED
    BY <2>1, <2>2, ProviderAssumption DEF ClientInv, EventInv, IsAnswer
<1>2. current \in DOMAIN server /\ Latest = CallsOf(current) /\ IsResponse(server[current])
  BY <1>1, LatestFacts
<1>3. Has("wire") => server[current].out = << >>
  BY <1>2 DEF OutInv, Says
<1>4. ASSUME ~ Has("wire")
      PROVE  /\ collector.text = server[current].said
             /\ \A n \in 1 .. CallsIn(server[current].out) :
                  \/ \E j \in DOMAIN collector.calls : collector.calls[j].n = n
                  \/ \E p \in collector.partials : p.n = n
  <2>1. Tallied(<< >>, collector, Late, server[current].said, LastBegun)
    BY <1>1, <1>4 DEF TallyInv
  <2>2. Late = 0 /\ LastBegun = CallsIn(server[current].out)
    BY <1>1, <1>2 DEF Late, LastBegun, Pending, CallsOf, CallsIn
  <2>3. << >> \in Seq(Events) /\ DOMAIN << >> = {}
    OBVIOUS
  <2>4. Texts(<< >>) = 0
    BY <2>3, TextsNone
  <2>5. /\ collector.text + 0 + 0 = server[current].said
        /\ \A n \in 1 .. CallsIn(server[current].out) : Told(n, << >>, collector)
    BY <2>1, <2>2, <2>4 DEF Tallied
  <2>6. collector.text = server[current].said
    BY <1>1, <2>5
  <2> QED
    BY <2>3, <2>5, <2>6 DEF Told
<1> QED
  BY <1>2, <1>3, <1>4

-----------------------------------------------------------------------------
(* An answer enters as a whole *)

\* Nothing of the set is missing in the sequence.
LEMMA AllInSeq ==
  ASSUME NEW S, IsFiniteSet(S), NEW s \in SetToSeqs(S)
  PROVE  \A x \in S : \E j \in DOMAIN s : s[j] = x
<1> DEFINE n == Cardinality(S)
           D == 1 .. n
<1>1. n \in Nat
  BY FS_CardinalityType
<1>2. s \in [D -> S] /\ \A i, j \in D : i # j => s[i] # s[j]
  BY DEF SetToSeqs
<1>3. IsFiniteSet(D) /\ Cardinality(D) = n
  BY <1>1, FS_Interval
<1> HIDE DEF D, n
<1>4. s \in Injection(D, S)
  BY <1>2 DEF Injection, IsInjective
<1>5. Cardinality(D) = Cardinality(S)
  BY <1>3 DEF n
<1>6. s \in Surjection(D, S)
  BY <1>4, <1>5, FS_Injection
<1> QED
  BY <1>2, <1>6 DEF Surjection

\* Calls told of are among those the agent looks at.
LEMMA FinishedTold ==
  ASSUME EventInv, NEW next \in FinishedCalls, NEW n,
         \/ \E j \in DOMAIN collector.calls : collector.calls[j].n = n
         \/ \E p \in collector.partials : p.n = n
  PROVE  \E i \in DOMAIN next : next[i].n = n
<1> DEFINE calls == collector.calls
           partials == collector.partials
<1>1. /\ calls \in Seq(CallEvents) /\ partials \subseteq CallEvents /\ IsFiniteSet(partials)
  BY DEF EventInv, IsAnswer
<1>2. PICK s \in SetToSeqs(partials) : next = calls \o s
  BY DEF FinishedCalls
<1>3. (\E j \in DOMAIN calls : calls[j].n = n) \/ (\E p \in partials : p.n = n)
  OBVIOUS
<1> HIDE DEF calls, partials
<1>4. /\ Cardinality(partials) \in Nat /\ s \in [1 .. Cardinality(partials) -> partials]
  BY <1>1, <1>2, FS_CardinalityType DEF SetToSeqs
<1>5. s \in Seq(CallEvents)
  <2>1. s \in [1 .. Cardinality(partials) -> CallEvents]
    BY <1>1, <1>4
  <2> QED
    BY <1>4, <2>1, FunctionIsSeq
<1>6. InARow(CallEvents, calls, s, Joined(calls, s))
  BY <1>1, <1>5, JoinedFacts
<1>7. next = Joined(calls, s)
  BY <1>2 DEF Joined
<1>8. /\ Len(calls) \in Nat /\ Len(s) \in Nat /\ DOMAIN next = 1 .. Len(calls) + Len(s)
      /\ DOMAIN calls = 1 .. Len(calls) /\ DOMAIN s = 1 .. Len(s)
      /\ \A i \in 1 .. Len(calls) : next[i] = calls[i]
      /\ \A i \in 1 .. Len(s) : next[Len(calls) + i] = s[i]
  BY <1>6, <1>7 DEF InARow
<1>9. CASE \E j \in DOMAIN calls : calls[j].n = n
  <2>1. PICK j \in DOMAIN calls : calls[j].n = n
    BY <1>9
  <2>2. j \in DOMAIN next /\ next[j] = calls[j]
    BY <1>8
  <2> QED
    BY <2>1, <2>2
<1>10. CASE \E p \in partials : p.n = n
  <2>1. PICK p \in partials : p.n = n
    BY <1>10
  <2>2. PICK j \in DOMAIN s : s[j] = p
    BY <1>1, <1>2, AllInSeq
  <2>3. Len(calls) + j \in DOMAIN next /\ next[Len(calls) + j] = s[j]
    BY <1>8
  <2> QED
    BY <2>1, <2>2, <2>3
<1> QED
  BY <1>3, <1>9, <1>10

\* The text the collector has.
HasText(r, text, o) ==
  text # 0 => \E i \in DOMAIN r : r[i].k = "text" /\ r[i].of = o /\ r[i].n = text

LEMMA AnswerText ==
  ASSUME IsAnswer(collector), current \in Nat
  PROVE  HasText(Answer, collector.text, current)
<1> DEFINE x == Item("thinking", current, 0, "none")
           y == Item("text", current, collector.text, "none")
           a == IF collector.thought THEN <<x>> ELSE << >>
           b == IF collector.text = 0 THEN << >> ELSE <<y>>
<1>1. collector.text \in Nat
  BY ProviderAssumption DEF IsAnswer
<1>2. /\ x \in Items /\ y \in Items /\ y.k = "text" /\ y.of = current /\ y.n = collector.text
  BY <1>1 DEF Item, Items, Kinds, Nothing
<1>3. a = << >> \/ a = <<x>>
  OBVIOUS
<1>4. collector.text # 0 => b = <<y>>
  OBVIOUS
<1>5. Answer = a \o b
  BY Zenon DEF Answer
<1> HIDE DEF a, b, x, y
<1>6. a \in Seq(Items)
  <2>1. << >> \in Seq(Items) /\ <<x>> \in Seq(Items)
    BY <1>2
  <2> QED
    BY <1>3, <2>1, Zenon
<1>7. ASSUME collector.text # 0
      PROVE  \E i \in DOMAIN Answer : Answer[i] = y
  <2>1. b = <<y>>
    BY <1>4, <1>7
  <2>2. b \in Seq(Items) /\ Len(b) = 1 /\ b[1] = y
    BY <1>2, <2>1
  <2>3. InARow(Items, a, b, Joined(a, b))
    BY <1>6, <2>2, JoinedFacts
  <2>4. Answer = Joined(a, b)
    BY <1>5 DEF Joined
  <2>5. 1 \in 1 .. Len(b)
    BY <2>2
  <2>6. Len(a) + 1 \in DOMAIN Answer /\ Answer[Len(a) + 1] = b[1]
    BY <2>3, <2>4, <2>5 DEF InARow
  <2> QED
    BY <2>2, <2>6
<1> QED
  BY <1>2, <1>7 DEF HasText

\* Everything response a has said is in s, with all its text.
Covers(s, a) ==
  \A j \in DOMAIN a.out :
    a.out[j].k \in {"text", "call"} =>
      \E i \in DOMAIN s : Same(s[i], a.out[j]) /\ (s[i].k = "text" => s[i].n = a.said)

\* What has entered of a response is not alone.
Covered(s, known) ==
  \A i \in DOMAIN s : s[i].k \in {"text", "call"} => Covers(s, known[s[i].of])

Working == IF phase = "idle" THEN conversation ELSE items

\* What follows the base of the run is whole, and what is added to it.
GoesWell(s, b, known) == b <= Len(s) /\ Covered(From(s, b), known)

\* No part of an answer follows it, neither in the conversation, to which only
\* shell commands add while a run goes on, nor in what the run works on.
WholeInv ==
  ~ base.rewritten => /\ GoesWell(conversation, base.items, server)
                      /\ GoesWell(Working, base.items, server)

\* The text and the calls that were collected are all the response said.
LEMMA AnswerCovers ==
  ASSUME ClientInv, ServerInv, EventInv, OutInv, DoneInv, TallyInv, Drained, outcome = "ok",
         NEW r, HasText(r, collector.text, current),
         \A n : \/ \E j \in DOMAIN collector.calls : collector.calls[j].n = n
                \/ \E p \in collector.partials : p.n = n
                => \E i \in DOMAIN r : r[i].k = "call" /\ r[i].of = current /\ r[i].n = n
  PROVE  Covers(r, server[current])
<1> DEFINE a == server[current]
<1>1. /\ current \in DOMAIN server
      /\ Has("wire") => a.out = << >>
      /\ ~ Has("wire") => /\ collector.text = a.said
                          /\ \A n \in 1 .. CallsIn(a.out) :
                               \/ \E j \in DOMAIN collector.calls : collector.calls[j].n = n
                               \/ \E p \in collector.partials : p.n = n
  BY AllIsTold
<1>2. Says(a, current)
  BY <1>1 DEF OutInv
<1> HIDE DEF a
<1>3. ASSUME NEW j \in DOMAIN a.out, a.out[j].k \in {"text", "call"}
      PROVE  \E i \in DOMAIN r : Same(r[i], a.out[j]) /\ (r[i].k = "text" => r[i].n = a.said)
  <2>1. ~ Has("wire")
    <3> SUFFICES ASSUME Has("wire")
                 PROVE  FALSE
      OBVIOUS
    <3>1. a.out = << >> /\ DOMAIN << >> = {}
      BY <1>1
    <3> QED
      BY <1>3, <3>1
  <2>2. a.out[j].of = current
    BY <1>2 DEF Says
  <2>3. CASE a.out[j].k = "text"
    <3>1. a.said # 0 /\ collector.text = a.said
      BY <1>1, <1>2, <2>1, <2>3 DEF Says
    <3>2. PICK i \in DOMAIN r : r[i].k = "text" /\ r[i].of = current /\ r[i].n = a.said
      BY <3>1 DEF HasText
    <3> QED
      BY <2>2, <2>3, <3>2 DEF Same
  <2>4. CASE a.out[j].k = "call"
    <3>1. a.out[j].n \in 1 .. CallsIn(a.out)
      BY <1>2, <2>4 DEF Says
    <3>2. PICK n : n = a.out[j].n
      OBVIOUS
    <3>3. \/ \E m \in DOMAIN collector.calls : collector.calls[m].n = n
          \/ \E p \in collector.partials : p.n = n
      BY <1>1, <2>1, <3>1, <3>2
    <3>4. PICK i \in DOMAIN r : r[i].k = "call" /\ r[i].of = current /\ r[i].n = n
      BY <3>3
    <3> QED
      BY <2>2, <2>4, <3>2, <3>4 DEF Same
  <2> QED
    BY <1>3, <2>3, <2>4
<1> QED
  BY <1>3 DEF Covers, a

LEMMA CallsCover ==
  ASSUME ClientInv, ServerInv, EventInv, NumberInv, OutInv, DoneInv, TallyInv,
         Drained, outcome = "ok", NEW next \in FinishedCalls
  PROVE  Covers(AddedBy(next), server[current])
<1> DEFINE a == Answer
           r == [j \in DOMAIN next |-> Item("call", next[j].of, next[j].n, next[j].tool)]
           c == AddedBy(next)
<1>1. IsAnswer(collector) /\ current \in Nat
  <2>1. current \in DOMAIN server
    BY AllIsTold
  <2> QED
    BY <2>1, LenProperties DEF EventInv, ServerInv
<1>2. /\ next \in Seq(CallEvents) /\ \A j \in DOMAIN next : next[j].of = current
  BY FinishedFacts
<1>3. a \in Seq(Items) /\ HasText(a, collector.text, current)
  BY <1>1, AnswerFacts, AnswerText
<1>4. /\ Len(next) \in Nat /\ DOMAIN next = 1 .. Len(next)
      /\ \A j \in DOMAIN next : next[j] \in CallEvents
  BY <1>2, LenProperties, ElementOfSeq
<1>5. DOMAIN r = DOMAIN next /\ \A j \in DOMAIN next :
        /\ r[j] \in Items /\ r[j].k = "call" /\ r[j].of = current /\ r[j].n = next[j].n
  BY <1>2, <1>4 DEF Item, Items, Kinds, CallEvents, Nothing
<1>6. r = [j \in 1 .. Len(next) |-> r[j]]
  BY <1>4
<1>7. c = a \o r
  BY Zenon DEF AddedBy
<1> HIDE DEF a, r, c
<1>8. r \in Seq(Items)
  <2>1. r \in [1 .. Len(next) -> Items]
    BY <1>4, <1>5, <1>6
  <2> QED
    BY <1>4, <2>1, FunctionIsSeq
<1>9. InARow(Items, a, r, Joined(a, r))
  BY <1>3, <1>8, JoinedFacts
<1>10. c = Joined(a, r)
  BY <1>7 DEF Joined
<1>11. /\ \A i \in DOMAIN a : i \in DOMAIN c /\ c[i] = a[i]
       /\ \A i \in DOMAIN r : \E j \in DOMAIN c : c[j] = r[i]
  <2>1. /\ Len(a) \in Nat /\ Len(r) \in Nat /\ DOMAIN a = 1 .. Len(a) /\ DOMAIN r = 1 .. Len(r)
        /\ DOMAIN c = 1 .. Len(a) + Len(r)
        /\ \A i \in 1 .. Len(a) : c[i] = a[i]
        /\ \A i \in 1 .. Len(r) : c[Len(a) + i] = r[i]
    BY <1>9, <1>10 DEF InARow
  <2>2. ASSUME NEW i \in DOMAIN r
        PROVE  \E j \in DOMAIN c : c[j] = r[i]
    <3>1. Len(a) + i \in DOMAIN c /\ c[Len(a) + i] = r[i]
      BY <2>1
    <3> QED
      BY <3>1
  <2> QED
    BY <2>1, <2>2
<1>12. HasText(c, collector.text, current)
  BY <1>3, <1>11 DEF HasText
<1>13. ASSUME NEW n, \/ \E j \in DOMAIN collector.calls : collector.calls[j].n = n
                     \/ \E p \in collector.partials : p.n = n
       PROVE  \E i \in DOMAIN c : c[i].k = "call" /\ c[i].of = current /\ c[i].n = n
  <2>1. PICK i \in DOMAIN next : next[i].n = n
    BY <1>13, FinishedTold
  <2>2. i \in DOMAIN r /\ r[i].k = "call" /\ r[i].of = current /\ r[i].n = n
    BY <1>5, <2>1
  <2> QED
    BY <1>11, <2>2
<1>14. Covers(c, server[current])
  BY <1>12, <1>13, AnswerCovers
<1> QED
  BY <1>14 DEF c

LEMMA AnswerAloneCovers ==
  ASSUME ClientInv, ServerInv, EventInv, OutInv, DoneInv, TallyInv, Drained, outcome = "ok",
         collector.calls = << >>, collector.partials = {}
  PROVE  Covers(Answer, server[current])
<1>1. IsAnswer(collector) /\ current \in Nat
  <2>1. current \in DOMAIN server
    BY AllIsTold
  <2> QED
    BY <2>1, LenProperties DEF EventInv, ServerInv
<1>2. HasText(Answer, collector.text, current)
  BY <1>1, AnswerText
<1>3. DOMAIN collector.calls = {}
  <2>1. DOMAIN << >> = {}
    OBVIOUS
  <2> QED
    BY <2>1
<1>4. \A n : ~ (\/ \E j \in DOMAIN collector.calls : collector.calls[j].n = n
                \/ \E p \in collector.partials : p.n = n)
  BY <1>3
<1> QED
  BY <1>2, <1>4, AnswerCovers

LEMMA CoveredNone ==
  ASSUME NEW s \in Seq(Items), NEW known
  PROVE  Covered(From(s, Len(s)), known)
<1>1. Len(s) \in Nat /\ Len(s) \in 0 .. Len(s) /\ Len(s) - Len(s) = 0
  BY LenProperties
<1>2. DOMAIN From(s, Len(s)) = 1 .. Len(s) - Len(s)
  BY <1>1, FromFacts
<1>3. DOMAIN From(s, Len(s)) = {}
  BY <1>1, <1>2
<1> QED
  BY <1>3 DEF Covered

\* What covers a response goes on covering it behind something else, ...
LEMMA CoversMore ==
  ASSUME NEW s, NEW t, NEW a, Covers(s, a),
         \A i \in DOMAIN s : \E j \in DOMAIN t : t[j] = s[i]
  PROVE  Covers(t, a)
<1>1. ASSUME NEW j \in DOMAIN a.out, a.out[j].k \in {"text", "call"}
      PROVE  \E i \in DOMAIN t : Same(t[i], a.out[j]) /\ (t[i].k = "text" => t[i].n = a.said)
  <2>1. PICK i \in DOMAIN s : Same(s[i], a.out[j]) /\ (s[i].k = "text" => s[i].n = a.said)
    BY <1>1 DEF Covers
  <2>2. PICK m \in DOMAIN t : t[m] = s[i]
    OBVIOUS
  <2> QED
    BY <2>1, <2>2
<1> QED
  BY <1>1 DEF Covers

\* ... so that parts that are whole make a whole, ...
LEMMA CoveredJoined ==
  ASSUME NEW s \in Seq(Items), NEW r \in Seq(Items), NEW known,
         Covered(s, known), Covered(r, known)
  PROVE  Covered(Joined(s, r), known)
<1> DEFINE c == Joined(s, r)
<1>1. InARow(Items, s, r, c)
  BY JoinedFacts
<1> HIDE DEF c
<1>2. /\ Len(s) \in Nat /\ Len(r) \in Nat /\ DOMAIN s = 1 .. Len(s) /\ DOMAIN r = 1 .. Len(r)
      /\ DOMAIN c = 1 .. Len(s) + Len(r)
      /\ \A i \in 1 .. Len(s) : c[i] = s[i]
      /\ \A i \in 1 .. Len(r) : c[Len(s) + i] = r[i]
  BY <1>1 DEF InARow
<1>3. \A i \in DOMAIN s : \E j \in DOMAIN c : c[j] = s[i]
  <2>1. ASSUME NEW i \in DOMAIN s
        PROVE  \E j \in DOMAIN c : c[j] = s[i]
    <3>1. i \in DOMAIN c /\ c[i] = s[i]
      BY <1>2
    <3> QED
      BY <3>1
  <2> QED
    BY <2>1
<1>4. \A i \in DOMAIN r : \E j \in DOMAIN c : c[j] = r[i]
  <2>1. ASSUME NEW i \in DOMAIN r
        PROVE  \E j \in DOMAIN c : c[j] = r[i]
    <3>1. Len(s) + i \in DOMAIN c /\ c[Len(s) + i] = r[i]
      BY <1>2
    <3> QED
      BY <3>1
  <2> QED
    BY <2>1
<1>5. ASSUME NEW j \in DOMAIN c
      PROVE  (\E i \in DOMAIN s : c[j] = s[i]) \/ (\E i \in DOMAIN r : c[j] = r[i])
  <2>1. CASE j \in 1 .. Len(s)
    BY <1>2, <2>1
  <2>2. CASE j \notin 1 .. Len(s)
    <3>1. j - Len(s) \in 1 .. Len(r) /\ Len(s) + (j - Len(s)) = j
      BY <1>2, <2>2
    <3>2. PICK i : i = j - Len(s)
      OBVIOUS
    <3>3. i \in DOMAIN r /\ c[j] = r[i]
      BY <1>2, <3>1, <3>2
    <3> QED
      BY <3>3
  <2> QED
    BY <2>1, <2>2
<1>6. ASSUME NEW j \in DOMAIN c, c[j].k \in {"text", "call"}
      PROVE  Covers(c, known[c[j].of])
  <2>1. CASE \E i \in DOMAIN s : c[j] = s[i]
    <3>1. PICK i \in DOMAIN s : c[j] = s[i]
      BY <2>1
    <3>2. Covers(s, known[s[i].of])
      BY <1>6, <3>1 DEF Covered
    <3>3. Covers(c, known[s[i].of])
      BY <1>3, <3>2, CoversMore
    <3> QED
      BY <3>1, <3>3
  <2>2. CASE \E i \in DOMAIN r : c[j] = r[i]
    <3>1. PICK i \in DOMAIN r : c[j] = r[i]
      BY <2>2
    <3>2. Covers(r, known[r[i].of])
      BY <1>6, <3>1 DEF Covered
    <3>3. Covers(c, known[r[i].of])
      BY <1>4, <3>2, CoversMore
    <3> QED
      BY <3>1, <3>3
  <2> QED
    BY <1>5, <2>1, <2>2
<1>7. Covered(c, known)
  BY <1>6 DEF Covered
<1> QED
  BY <1>7 DEF c

\* ... and an item of another kind takes nothing away.
LEMMA CoveredOne ==
  ASSUME NEW x \in Items, x.k \notin {"text", "call"}, NEW known
  PROVE  <<x>> \in Seq(Items) /\ Covered(<<x>>, known)
<1> DEFINE r == <<x>>
<1>1. r \in Seq(Items) /\ DOMAIN r = {1} /\ r[1] = x
  OBVIOUS
<1> HIDE DEF r
<1>2. Covered(r, known)
  BY <1>1 DEF Covered
<1> QED
  BY <1>1, <1>2 DEF r

\* The endpoint adds to no response but the one it streams.
SameSaid(a, b) == a.out = b.out /\ a.said = b.said

LEMMA ServerKeeps ==
  ASSUME ClientInv, ServerInv, [Next]_vars
  PROVE  \A r \in DOMAIN server : r # current => SameSaid(server'[r], server[r])
<1>1. CASE server' = server
  BY <1>1 DEF SameSaid
<1>2. CASE Beginning
  <2>1. PICK context : server' = Append(server, Begun(request, context))
    BY <1>2 DEF Beginning
  <2>2. PICK x, s : x = Begun(request, context) /\ s = server' /\ s = Append(server, x)
    BY <2>1
  <2>3. DOMAIN server = 1 .. Len(server) /\ \A i \in 1 .. Len(server) : s[i] = server[i]
    BY <2>2, Grown DEF ServerInv
  <2> QED
    BY <2>2, <2>3 DEF SameSaid
<1>3. ASSUME NEW payload, Sending(payload)
      PROVE  \A r \in DOMAIN server : r # current => SameSaid(server'[r], server[r])
  BY <1>3, SendingFacts DEF SameSaid
<1>4. ASSUME NEW k, Completing(k)
      PROVE  \A r \in DOMAIN server : r # current => SameSaid(server'[r], server[r])
  BY <1>4, CompletingMore DEF SameSaid
<1> QED
  BY <1>1, <1>2, <1>3, <1>4, ServerSteps, Zenon

LEMMA CoveredLater ==
  ASSUME NEW s, NEW known, NEW later, NEW o, Covered(s, known), KnownTo(s, Len(known), o),
         DOMAIN known = 1 .. Len(known),
         \A r \in DOMAIN known : r # o => SameSaid(later[r], known[r])
  PROVE  Covered(s, later)
<1>1. ASSUME NEW i \in DOMAIN s, s[i].k \in {"text", "call"}
      PROVE  Covers(s, later[s[i].of])
  <2>1. s[i].of \in DOMAIN known /\ s[i].of # o
    BY <1>1 DEF KnownTo, OfResponse
  <2>2. PICK a, b : a = known[s[i].of] /\ b = later[s[i].of]
    OBVIOUS
  <2>3. b.out = a.out /\ b.said = a.said
    BY <2>1, <2>2 DEF SameSaid
  <2>4. Covers(s, a)
    BY <1>1, <2>2 DEF Covered
  <2>5. Covers(s, b)
    BY <2>3, <2>4 DEF Covers
  <2> QED
    BY <2>2, <2>5
<1> QED
  BY <1>1 DEF Covered

LEMMA FromJoined ==
  ASSUME NEW s \in Seq(Items), NEW r \in Seq(Items), NEW b \in Nat, b <= Len(s)
  PROVE  From(Joined(s, r), b) = Joined(From(s, b), r) /\ b <= Len(Joined(s, r))
<1>1. Len(s) \in Nat /\ b \in 0 .. Len(s)
  BY LenProperties
<1>2. From(s \o r, b) = From(s, b) \o r
  BY <1>1, FromConcat
<1>3. Len(s \o r) = Len(s) + Len(r) /\ Len(r) \in Nat
  BY ConcatFacts
<1>4. b <= Len(s \o r)
  <2>1. PICK n : n = Len(s \o r)
    OBVIOUS
  <2> QED
    BY <1>1, <1>3, <2>1
<1> QED
  BY <1>2, <1>4, Zenon DEF Joined

LEMMA WellJoined ==
  ASSUME NEW s \in Seq(Items), NEW r \in Seq(Items), NEW b \in Nat, NEW known,
         GoesWell(s, b, known), Covered(r, known)
  PROVE  GoesWell(Joined(s, r), b, known)
<1>1. b <= Len(s) /\ Covered(From(s, b), known)
  BY DEF GoesWell
<1>2. b \in 0 .. Len(s)
  BY <1>1, LenProperties
<1>3. From(s, b) \in Seq(Items)
  BY <1>2, FromFacts
<1>4. Covered(Joined(From(s, b), r), known)
  BY <1>1, <1>3, CoveredJoined
<1>5. From(Joined(s, r), b) = Joined(From(s, b), r) /\ b <= Len(Joined(s, r))
  BY <1>1, FromJoined
<1> QED
  BY <1>4, <1>5 DEF GoesWell

LEMMA WholeStep ==
  ASSUME ClientInv, ServerInv, FrameInv, EventInv, NumberInv, CallInv, ItemInv, StoredInv,
         RestInv, OutInv, DoneInv, TallyInv, WholeInv, [Next]_vars
  PROVE  WholeInv'
<1> DEFINE Well(s, b) == GoesWell(s, b.items, server')
<1>2. base.items \in Nat /\ IsBase(base)
  BY DEF StoredInv, IsBase
<1>3. items \in Seq(Items) /\ conversation \in Seq(Items) /\ Working \in Seq(Items)
  BY DEF ItemInv, Sound, Working
<1>4. IsAnswer(collector) /\ current \in Nat /\ run \in Nat
  <2>1. current \in 0 .. Len(server) /\ Len(server) \in Nat
    BY StreamMoves
  <2> QED
    BY <2>1, ProviderAssumption DEF EventInv, ClientInv, RestInv
\* What there was before.
<1>1. ASSUME NEW s, Sound(s, Len(server), current), GoesWell(s, base.items, server)
      PROVE  Well(s, base)
  <2>1. base.items <= Len(s) /\ Covered(From(s, base.items), server)
    BY <1>1 DEF GoesWell
  <2>2. PICK b, n, o : b = base.items /\ n = Len(server) /\ o = current
    OBVIOUS
  <2>3. b \in 0 .. Len(s)
    <3>1. s \in Seq(Items)
      BY <1>1 DEF Sound
    <3> QED
      BY <1>2, <2>1, <2>2, <3>1, LenProperties
  <2>4. Sound(s, n, o)
    BY <1>1, <2>2
  <2>5. Sound(From(s, b), n, o)
    BY <2>3, <2>4, SoundFrom
  <2>6. KnownTo(From(s, b), Len(server), current)
    BY <2>2, <2>5 DEF Sound
  <2>7. DOMAIN server = 1 .. Len(server)
    BY LenProperties DEF ServerInv
  <2>8. Covered(From(s, b), server)
    BY <2>1, <2>2
  <2>9. \A r \in DOMAIN server : r # current => SameSaid(server'[r], server[r])
    BY ServerKeeps
  <2>10. PICK later : later = server'
    OBVIOUS
  <2>11. Covered(From(s, b), later)
    BY <2>6, <2>7, <2>8, <2>9, <2>10, CoveredLater
  <2> QED
    BY <2>1, <2>2, <2>10, <2>11 DEF GoesWell
<1>5. ~ base.rewritten => Well(Working, base) /\ Well(conversation, base)
  <2>1. Sound(Working, Len(server), current) /\ Sound(conversation, Len(server), current)
    BY DEF ItemInv, Working
  <2> QED
    BY <1>1, <2>1 DEF WholeInv
<1>6. ASSUME ~ base'.rewritten => Well(Working', base') /\ Well(conversation', base')
      PROVE  WholeInv'
  BY <1>6 DEF WholeInv
<1>7. ASSUME Working' = Working, conversation' = conversation, base' = base
      PROVE  WholeInv'
  BY <1>5, <1>6, <1>7
<1>8. ASSUME base' = base, NEW r \in Seq(Items), Covered(r, server'),
             Working' \in {Working, Joined(Working, r)},
             \/ conversation' \in {conversation, Joined(conversation, r)}
             \/ conversation' = Working'
      PROVE  WholeInv'
  <2>1. PICK b, t : b = base.items /\ t = server'
    OBVIOUS
  <2>2. ASSUME ~ base.rewritten, NEW s \in Seq(Items), GoesWell(s, b, t)
        PROVE  GoesWell(Joined(s, r), b, t)
    BY <1>2, <1>8, <2>1, <2>2, WellJoined
  <2>3. ASSUME ~ base.rewritten
        PROVE  /\ GoesWell(Working, b, t) /\ GoesWell(conversation, b, t)
               /\ GoesWell(Joined(Working, r), b, t) /\ GoesWell(Joined(conversation, r), b, t)
    BY <1>3, <1>5, <2>1, <2>2, <2>3
  <2>4. ~ base.rewritten => GoesWell(Working', b, t) /\ GoesWell(conversation', b, t)
    BY <1>8, <2>3
  <2> QED
    BY <1>6, <1>8, <2>1, <2>4
\* One item is added that is not of the answer.
<1>9. ASSUME NEW x \in Items, x.k \notin {"text", "call"}, base' = base, phase # "idle",
             phase' # "idle", items' = Append(items, x), conversation' = conversation
      PROVE  WholeInv'
  <2>1. PICK one : one = <<x>>
    OBVIOUS
  <2>2. one \in Seq(Items) /\ Covered(one, server')
    BY <1>9, <2>1, CoveredOne
  <2>3. Append(items, x) = Joined(items, one)
    BY <1>3, <2>1, AppendIsConcat DEF Joined
  <2>4. Working' = Joined(Working, one)
    BY <1>9, <2>3 DEF Working
  <2> QED
    BY <1>8, <1>9, <2>2, <2>4
\* A run ends without an answer, ...
<1>10. ASSUME phase # "idle", phase' = "idle", conversation' = conversation, base' = base
       PROVE  WholeInv'
  <2>1. Working' = conversation
    BY <1>10 DEF Working
  <2> QED
    BY <1>5, <1>6, <1>10, <2>1
\* ... with the process, ...
<1>11. ASSUME base' = [base EXCEPT !.rewritten = TRUE]
       PROVE  WholeInv'
  <2>1. PICK q \in BOOLEAN : q = TRUE
    OBVIOUS
  <2>2. PICK b, c : b = base /\ c = base'
    OBVIOUS
  <2>3. c.rewritten = q
    BY <1>2, <1>11, <2>1, <2>2, BaseEdited
  <2> QED
    BY <1>6, <2>1, <2>2, <2>3
\* ... or with its answer.
<1>12. ASSUME Complete
       PROVE  WholeInv'
  <2>1. /\ Drained /\ outcome = "ok" /\ collector.partials = {} /\ collector.calls = << >>
        /\ conversation' = Joined(items, Answer) /\ phase' = "idle" /\ base' = base
        /\ server' = server /\ phase = "stream"
    BY <1>12 DEF Complete, Finish, Joined, Drained, endpointVars
  <2>2. Answer \in Seq(Items) /\ OfAnswer(Answer, current)
    BY <1>4, AnswerFacts
  <2>3. Covers(Answer, server[current])
    BY <2>1, AnswerAloneCovers
  <2>4. Covered(Answer, server')
    BY <2>1, <2>2, <2>3 DEF Covered, OfAnswer
  <2>5. Working' = Joined(Working, Answer) /\ conversation' = Working'
    BY <2>1 DEF Working
  <2> QED
    BY <1>8, <2>1, <2>2, <2>4, <2>5
<1>13. ASSUME Finishing
       PROVE  WholeInv'
  <2>1. CASE Complete
    BY <1>12, <2>1
  <2>2. CASE Crash
    BY <1>11, <2>2 DEF Crash
  <2>3. CASE Cancel
    BY <1>10, <2>3 DEF Cancel, Finish
  <2>4. CASE ConsumeTooMuch \/ GiveUp \/ Malformed \/ LoseApproval
    <3>1. phase # "idle" /\ phase' = "idle" /\ conversation' = conversation /\ base' = base
      BY <2>4 DEF ConsumeTooMuch, GiveUp, Malformed, LoseApproval, Drained, FailRun, Finish,
                  sessionVars
    <3> QED
      BY <1>10, <3>1
  <2> QED
    BY <1>13, <2>1, <2>2, <2>3, <2>4 DEF Finishing
<1>14. ASSUME Submit
       PROVE  WholeInv'
  <2>1. /\ base' = [items |-> Len(items'), rows |-> Len(rows'), rewritten |-> FALSE]
        /\ phase' = "begin"
    BY <1>14 DEF Submit
  <2>2. base'.items = Len(items') /\ Working' = items' /\ conversation' = items'
    BY <1>14, <2>1 DEF Submit, Working
  <2>3. PICK s, t : s = items' /\ t = server'
    OBVIOUS
  <2>4. s \in Seq(Items)
    <3>1. ItemInv'
      BY ItemStep
    <3> QED
      BY <2>3, <3>1 DEF ItemInv, Sound
  <2>5. Covered(From(s, Len(s)), t) /\ Len(s) \in Nat
    BY <2>4, CoveredNone, LenProperties
  <2>6. GoesWell(s, Len(s), t)
    BY <2>5 DEF GoesWell
  <2> QED
    BY <1>6, <2>2, <2>3, <2>6
<1>15. ASSUME Begin \/ RecoverOverflow
       PROVE  WholeInv'
  <2>1. CASE \E id : Shrink(id)
    <3>1. base' = [base EXCEPT !.rewritten = TRUE]
      BY <2>1 DEF Shrink
    <3> QED
      BY <1>11, <3>1
  <2>2. CASE UNCHANGED <<items, base, conversation>> /\ phase # "idle" /\ phase' # "idle"
    BY <1>7, <2>2 DEF Working
  <2>3. CASE Begin
    BY <2>1, <2>2, <2>3 DEF Begin
  <2>4. CASE RecoverOverflow
    BY <2>1, <2>4 DEF RecoverOverflow
  <2> QED
    BY <1>15, <2>3, <2>4
<1>16. ASSUME Consume
       PROVE  WholeInv'
  <2> DEFINE e == Head(chan)
             x == Item(e.type, e.of, 0, "none")
  <2>1. /\ phase = "stream" /\ phase' = phase /\ base' = base /\ chan # << >>
        /\ conversation' = conversation
        /\ items' = IF e.type \in {"search", "reasoning"} THEN Append(items, x) ELSE items
    BY <1>16 DEF Consume, historyVars
  <2>2. e \in Events
    BY <2>1, TailFacts DEF EventInv
  <2>3. x.k = e.type /\ (e.type \in {"search", "reasoning"} => x \in Items)
    BY <2>2 DEF Events, Item, Items, Kinds, Nothing
  <2> HIDE DEF x, e
  <2>4. CASE e.type \in {"search", "reasoning"}
    BY <1>9, <2>1, <2>3, <2>4
  <2>5. CASE e.type \notin {"search", "reasoning"}
    BY <1>7, <2>1, <2>5 DEF Working
  <2> QED
    BY <2>4, <2>5
<1>17. ASSUME AcceptCalls
       PROVE  WholeInv'
  <2>1. PICK next \in FinishedCalls : items' = Joined(items, AddedBy(next))
    BY <1>17, Zenon DEF AcceptCalls, AddedBy, Joined
  <2>2. /\ next \in Seq(CallEvents) /\ ToldApart(next, {})
        /\ \A j \in DOMAIN next : next[j].of = current
    BY <2>1, FinishedFacts
  <2> DEFINE a == AddedBy(next)
  <2>3. a \in Seq(Items) /\ OfAnswer(a, current)
    BY <1>4, <2>2, AddedFacts
  <2>4. /\ phase # "idle" /\ phase' # "idle" /\ base' = base /\ server' = server
        /\ Drained /\ outcome = "ok" /\ conversation' = conversation
    BY <1>17 DEF AcceptCalls, Drained, historyVars, endpointVars
  <2>5. Covers(a, server[current])
    BY <2>1, <2>4, CallsCover
  <2>6. items' = Joined(items, a)
    BY <2>1
  <2> HIDE DEF a
  <2>7. Covered(a, server')
    BY <2>3, <2>4, <2>5 DEF Covered, OfAnswer
  <2>8. Working' = Joined(Working, a)
    BY <2>4, <2>6 DEF Working
  <2> QED
    BY <1>8, <2>3, <2>4, <2>7, <2>8
<1>18. ASSUME NEW c \in CallEvents, Output(c), base' = base, phase # "idle", phase' # "idle",
              conversation' = conversation
       PROVE  WholeInv'
  <2> DEFINE x == Item("output", c.of, c.n, c.tool)
  <2>1. x \in Items /\ x.k = "output"
    BY DEF Item, Items, Kinds, CallEvents, Nothing
  <2>2. items' = Append(items, x)
    BY <1>18, Zenon DEF Output
  <2> HIDE DEF x
  <2> QED
    BY <1>9, <1>18, <2>1, <2>2
<1>19. ASSUME Answering
       PROVE  WholeInv'
  <2>1. /\ pending # << >> /\ Output(Call) /\ base' = base /\ phase # "idle" /\ phase' # "idle"
        /\ conversation' = conversation
    BY <1>19 DEF Answering, AnswerDuplicate, Refuse, Reject, FinishTool, CallInv, historyVars
  <2>2. Call \in CallEvents
    BY <2>1, AnsweredFacts
  <2> QED
    BY <1>18, <2>1, <2>2
<1>20. ASSUME FinishChild
       PROVE  WholeInv'
  <2>1. PICK c \in spawned : Output(c)
    BY <1>20 DEF FinishChild
  <2>2. /\ phase # "idle" /\ phase' # "idle" /\ base' = base /\ c \in CallEvents
        /\ conversation' = conversation
    BY <1>20 DEF FinishChild, CallInv, historyVars
  <2> QED
    BY <1>18, <2>1, <2>2
<1>21. StartTool \/ SendRequest \/ ReplayInstead \/ Consider \/ Approve \/ NextRound => WholeInv'
  <2>1. StartTool \/ SendRequest \/ ReplayInstead \/ Consider \/ Approve \/ NextRound =>
          UNCHANGED <<base, items, conversation>> /\ phase # "idle" /\ phase' # "idle"
    BY DEF StartTool, SendRequest, ReplayInstead, ReplayNext, Drained, Consider, Approve,
           NextRound, sessionVars, historyVars
  <2>2. UNCHANGED <<base, items>> /\ phase # "idle" /\ phase' # "idle" => Working' = Working
    BY DEF Working
  <2> QED
    BY <1>7, <2>1, <2>2
<1>22. UNCHANGED vars \/ SwitchMode \/ ProviderStep => WholeInv'
  <2>1. UNCHANGED vars \/ SwitchMode \/ ProviderStep =>
          UNCHANGED <<base, items, phase, conversation>>
    BY DEF vars, SwitchMode, ProviderStep, runVars, sessionVars, historyVars
  <2>2. UNCHANGED <<items, phase, conversation>> => Working' = Working
    BY DEF Working
  <2> QED
    BY <1>7, <2>1, <2>2
<1>23. ASSUME FinishShell
       PROVE  WholeInv'
  <2> DEFINE x == Item("shell", run, 0, "none")
  <2>1. /\ conversation' = Append(conversation, x)
        /\ base' = base /\ items' = items /\ phase' = phase
    BY <1>23 DEF FinishShell, runVars, historyVars
  <2>2. x \in Items /\ x.k \notin {"text", "call"}
    BY <1>4 DEF Item, Items, Kinds, Nothing
  <2> HIDE DEF x
  <2>3. PICK one : one = <<x>>
    OBVIOUS
  <2>4. one \in Seq(Items) /\ Covered(one, server')
    BY <2>2, <2>3, CoveredOne
  <2>5. conversation' = Joined(conversation, one)
    BY <1>3, <2>1, <2>3, AppendIsConcat DEF Joined
  <2>6. Working' \in {Working, Joined(Working, one)}
    BY <2>1, <2>5 DEF Working
  <2> QED
    BY <1>8, <2>1, <2>4, <2>5, <2>6
<1> QED
  BY <1>13, <1>14, <1>15, <1>16, <1>17, <1>19, <1>20, <1>21, <1>22, <1>23, Zenon
     DEF Next, RunnerStep, UserAnswers, Finishing, Answering

-----------------------------------------------------------------------------

\* The parts of the argument, what the twelve of IInv say apart.
TalliedInv == OutInv /\ DoneInv /\ TallyInv /\ WholeInv

LEMMA TalliedInit ==
  ASSUME Init
  PROVE  TalliedInv
<1>1. server = << >> /\ chan = << >> /\ net = "idle" /\ outcome = "none" /\ frames = << >>
  BY DEF Init, ProviderInit, NoStream
<1>2. /\ conversation = << >> /\ items = << >> /\ phase = "idle" /\ collector = NoAnswer
      /\ base = [items |-> 0, rows |-> 0, rewritten |-> FALSE]
  BY DEF Init
<1>e. Len(<< >>) = 0 /\ DOMAIN << >> = {} /\ << >> \in Seq(Items)
  OBVIOUS
<1>3. OutInv
  BY <1>1, <1>e DEF OutInv
<1>4. DoneInv
  BY <1>1, <1>2, <1>e, NotDoneYet DEF DoneInv, Ends
<1>5. TallyInv
  BY <1>1 DEF TallyInv
<1>6. WholeInv
  <2>1. base.items = 0 /\ Working = << >>
    BY <1>2 DEF Working
  <2>2. PICK s : s = << >> /\ s \in Seq(Items) /\ Len(s) = 0
    BY <1>e
  <2>3. Covered(From(s, Len(s)), server)
    BY <2>2, CoveredNone
  <2>4. GoesWell(s, 0, server)
    BY <2>2, <2>3 DEF GoesWell
  <2> QED
    BY <1>2, <2>1, <2>2, <2>4 DEF WholeInv
<1> QED
  BY <1>3, <1>4, <1>5, <1>6 DEF TalliedInv

LEMMA TalliedStep ==
  ASSUME IInv, TalliedInv, [Next]_vars
  PROVE  TalliedInv'
<1>1. /\ ClientInv /\ ServerInv /\ FrameInv /\ EventInv /\ NumberInv
      /\ CallInv /\ ItemInv /\ StoredInv /\ RestInv
  BY DEF IInv
<1>2. OutInv /\ DoneInv /\ TallyInv /\ WholeInv
  BY DEF TalliedInv
<1>3. OutInv'
  BY <1>1, <1>2, OutStep
<1>4. DoneInv'
  BY <1>1, <1>2, DoneStep
<1>5. TallyInv'
  BY <1>1, <1>2, TallyStep
<1>6. WholeInv'
  BY <1>1, <1>2, WholeStep
<1> QED
  BY <1>3, <1>4, <1>5, <1>6, Zenon DEF TalliedInv

\* An answer enters the conversation with all its text and all its calls, or
\* not at all: what is collected, what is on its way and what the endpoint has
\* said add up until the stream is drained (StreamCollector, finish_partials).
THEOREM AnswersAreWhole == Spec => []AnswerIsWhole
<1>1. Init => TalliedInv
  BY TalliedInit
<1>2. IInv /\ TalliedInv /\ [Next]_vars => TalliedInv'
  BY TalliedStep
<1>3. ASSUME TalliedInv
      PROVE  AnswerIsWhole
  <2> SUFFICES ASSUME ~ base.rewritten,
                      NEW x \in ToSet(Added), x.k \in {"text", "call"},
                      NEW y \in ToSet(server[x.of].out), y.k \in {"text", "call"}
               PROVE  \E z \in ToSet(Added) :
                        Same(z, y) /\ (z.k = "text" => z.n = server[x.of].said)
    BY DEF AnswerIsWhole
  <2>1. Added = From(Working, base.items)
    BY DEF Added, Working, From
  <2>2. Covered(Added, server)
    BY <1>3, <2>1 DEF TalliedInv, WholeInv, GoesWell
  <2>3. PICK i \in DOMAIN Added : x = Added[i]
    BY DEF ToSet
  <2>4. PICK a : a = server[x.of]
    OBVIOUS
  <2>5. Covers(Added, a)
    BY <2>2, <2>3, <2>4 DEF Covered
  <2>6. PICK j \in DOMAIN a.out : y = a.out[j]
    BY <2>4 DEF ToSet
  <2>7. PICK m \in DOMAIN Added : Same(Added[m], y) /\ (Added[m].k = "text" => Added[m].n = a.said)
    BY <2>5, <2>6 DEF Covers
  <2>8. Added[m] \in ToSet(Added)
    BY DEF ToSet
  <2> QED
    BY <2>4, <2>7, <2>8
<1> QED
  BY <1>1, <1>2, <1>3, InductiveInvariant, PTL DEF Spec
=============================================================================
