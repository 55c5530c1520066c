--------------------------- MODULE History_proofs ---------------------------
(***************************************************************************)
(* Proofs about the stored history: its inductive invariant, the lemmas    *)
(* that every operation keeps the parts about the tree of turns, the       *)
(* messages with their tool projection, the memories, the paging client    *)
(* and the file snapshots, and what follows from it.                       *)
(***************************************************************************)
EXTENDS History, LeastElements

-----------------------------------------------------------------------------
(* The inductive invariant *)

TurnRows == [session : Sessions, parent : Nat, active : BOOLEAN]
Notes == [seen : SUBSET Files, exact : SUBSET Files,
          first : [Files -> Nat], last : [Files -> Nat]]
Rows == [session : Sessions, turn : 0 .. Len(turn), kind : {"user", "item", "summary"},
         hidden : BOOLEAN, partial : BOOLEAN]
Snapshots == [session : Sessions, turn : Turns, file : Files, pre : Nat, post : Nat]
Entries == [session : Sessions, turn : Turns, status : {"active", "candidate", "deleted"}]
ToolCalls == [file : Files, call : 1 .. calls, turn : Turns, aborted : BOOLEAN]
Readers == [session : Sessions, got : SUBSET (Nat \ {0}), more : BOOLEAN, twice : BOOLEAN,
            expects : SUBSET Nat]

\* A table of turns: parents are older than their children and belong to the
\* same session.
Table(ts) ==
  /\ ts \in Seq(TurnRows)
  /\ \A u \in 1 .. Len(ts) : /\ ts[u].parent < u
                             /\ ts[u].parent # 0 => ts[ts[u].parent].session = ts[u].session

\* The table with the heads: of each session with a turn, one of its turns.
Tree(ts, hd) ==
  /\ Table(ts) /\ hd \in [Sessions -> 0 .. Len(ts)]
  /\ \A u \in 1 .. Len(ts) : hd[ts[u].session] # 0
  /\ \A s \in Sessions : hd[s] # 0 => ts[hd[s]].session = s

\* Only the newest of the alternatives below a turn is on the active path.
Newest(ts) ==
  \A u, v \in 1 .. Len(ts) :
    ts[u].active /\ ts[u].parent # 0 /\ ts[v].parent = ts[u].parent => v <= u

\* The other variables by themselves.
MessageShape ==
  /\ uses \in Profiles /\ lastId \in 0 .. MaxMessages[uses] /\ DOMAIN msg \subseteq 1 .. lastId
  /\ \A i \in DOMAIN msg : msg[i] \in Rows
  /\ visible \subseteq DOMAIN msg
  /\ compactions \in [Sessions -> Seq(SUBSET (1 .. lastId))]

FileShape ==
  /\ disk \in [Files -> Nat] /\ calls \in Nat /\ DOMAIN snaps \subseteq 1 .. calls
  /\ \A c \in DOMAIN snaps : snaps[c] \in Snapshots
  /\ tool \in [Sessions -> {NoTool} \cup ToolCalls]
  /\ touched \in Seq(Notes) /\ Len(touched) = Len(turn) /\ evicted \subseteq Sessions

\* A database that has not been opened yet.
Unopened ==
  ~ migrated =>
    /\ "legacy" \in uses /\ visible = {} /\ reader = NoReader
    /\ tool = [s \in Sessions |-> NoTool] /\ memory = << >>
    /\ \A u \in Turns : turn[u].parent = u - 1
    /\ turn = << >> \/ \A i \in DOMAIN msg : head[msg[i].session] # 0

\* The projection row by row.
Projected == migrated => visible = {i \in DOMAIN msg : Qualifies(msg[i], turn)}

\* A record lists hidden messages of its session, besides summaries; no message
\* but a summary is in two of them.
Recorded ==
  /\ \A s \in Sessions : \A k \in DOMAIN compactions[s] :
       \A i \in compactions[s][k] \cap DOMAIN msg :
         msg[i].session = s /\ (msg[i].hidden \/ msg[i].kind = "summary")
  /\ \A i \in DOMAIN msg : msg[i].partial => msg[i].kind = "item"
  /\ \A s \in Sessions : \A k, l \in DOMAIN compactions[s] :
       \A i \in compactions[s][k] \cap compactions[s][l] :
         k = l \/ (i \in DOMAIN msg /\ msg[i].kind = "summary")

\* Whatever the session's messages that are hidden, but for summaries, a record
\* has them, unless they are copies or older than the records.
Recoverable ==
  \A s \in Sessions : parent[s] = NoSession /\ "legacy" \notin uses =>
    \A i \in DOMAIN msg :
      msg[i].session = s /\ msg[i].hidden /\ msg[i].kind # "summary" =>
        \E k \in DOMAIN compactions[s] : i \in compactions[s][k]

\* What a client may still expect is visible, and among the pages it has or
\* older than all of them.
Reading ==
  reader # NoReader =>
    /\ ~ reader.twice /\ reader.expects \subseteq visible
    /\ \A i \in reader.expects : msg[i].session = reader.session
    /\ reader.more => /\ reader.got # {}
                      /\ \A i \in reader.expects \ reader.got, j \in reader.got : i < j
    /\ ~ reader.more => reader.expects \subseteq reader.got

Pre(s, t, f) == {c \in Shots(s, t, f) : snaps[c].pre # 0}
Post(s, t, f) == {c \in Shots(s, t, f) : snaps[c].post # 0}
Complete(s) == s \notin evicted /\ s \notin deleted

\* A snapshot belongs to a file its turn's tools are known to have found.
Noted ==
  /\ \A c \in DOMAIN snaps : /\ turn[snaps[c].turn].session = snaps[c].session
                             /\ snaps[c].file \in touched[snaps[c].turn].seen
  /\ \A t \in Turns : \A f \in Files \ touched[t].seen : touched[t].last[f] = 0

\* The oldest image of a file in a turn is what its first tool found.
FoundImage(s, t, f) ==
  LET found == touched[t].first[f]
  IN  Complete(s) /\ found # 0 /\ ~ Large(found) =>
        \E c \in Pre(s, t, f) : snaps[c].pre = found /\ \A d \in Pre(s, t, f) : c <= d

Found ==
  \A s \in Sessions, t \in Turns : turn[t].session = s =>
    \A f \in touched[t].seen : FoundImage(s, t, f)

\* The newest image of a file after a tool is what its last tool left.
LeftImage(s, t, f) ==
  LET left == touched[t].last[f]
  IN  Complete(s) /\ left # 0 =>
        \E c \in Post(s, t, f) : snaps[c].post = left /\ \A d \in Post(s, t, f) : d <= c

Left ==
  \A s \in Sessions, t \in Turns : turn[t].session = s =>
    \A f \in touched[t].seen \cap touched[t].exact : LeftImage(s, t, f)

\* The tool at work has the newest snapshot of its session, if it has one.
AtWork ==
  \A s \in Sessions : tool[s] # NoTool =>
    LET c == tool[s].call
        t == tool[s].turn
    IN  /\ turn[t].session = s /\ tool[s].file \in touched[t].seen
        /\ \A d \in DOMAIN snaps : snaps[d].session = s => d <= c
        /\ c \in DOMAIN snaps => /\ snaps[c].session = s /\ snaps[c].turn = t
                                 /\ snaps[c].file = tool[s].file
        /\ ~ tool[s].aborted /\ Complete(s) /\ tool[s].file \in touched[t].exact =>
             c \in DOMAIN snaps

TreeInv == /\ parent \in [Sessions -> Sessions \cup {NoSession}]
           /\ migrated \in BOOLEAN /\ deleted \subseteq Sessions
           /\ Tree(turn, head) /\ Unopened /\ PathIsChain
           /\ migrated => Newest(turn)

\* The parts, by what they are about.
MessageInv ==
  /\ MessageShape /\ Recorded /\ Recoverable
  /\ \A i \in DOMAIN msg : /\ msg[i].turn # 0 => turn[msg[i].turn].session = msg[i].session
                           /\ migrated => head[msg[i].session] # 0
MemoryInv ==
  /\ memory \in Seq(Entries)
  /\ \A i \in DOMAIN memory : turn[memory[i].turn].session = memory[i].session
ReaderInv == (reader = NoReader \/ reader \in Readers) /\ Reading
FileInv == FileShape /\ Noted /\ Found /\ Left /\ AtWork

IInv == TreeInv /\ MessageInv /\ Projected /\ MemoryInv /\ ReaderInv /\ FileInv

-----------------------------------------------------------------------------
(* Chains of turns *)

\* Chain in any table, and the turns on it.
Up(ts, t) ==
  LET chain[u \in 0 .. Len(ts)] ==
        IF u = 0 THEN << >> ELSE Append(chain[ts[u].parent], u)
  IN  chain[t]
Line(ts, t) == Range(Up(ts, t))

LEMMA TableFacts ==
  ASSUME NEW ts, Table(ts)
  PROVE  /\ Len(ts) \in Nat /\ DOMAIN ts = 1 .. Len(ts)
         /\ \A u \in 1 .. Len(ts) : /\ ts[u] \in TurnRows /\ ts[u].parent \in 0 .. u - 1
                                    /\ ts[u].parent \in 0 .. Len(ts)
                                    /\ ts[u].session \in Sessions /\ ts[u].active \in BOOLEAN
<1>1. /\ Len(ts) \in Nat /\ DOMAIN ts = 1 .. Len(ts)
      /\ \A u \in 1 .. Len(ts) : ts[u] \in TurnRows
  BY LenProperties, ElementOfSeq DEF Table
<1>2. \A u \in 1 .. Len(ts) : /\ ts[u].parent \in Nat /\ ts[u].session \in Sessions
                              /\ ts[u].active \in BOOLEAN
  BY <1>1 DEF TurnRows
<1>3. \A u \in 1 .. Len(ts) : ts[u].parent \in 0 .. u - 1 /\ ts[u].parent \in 0 .. Len(ts)
  BY <1>1, <1>2 DEF Table
<1> QED
  BY <1>1, <1>2, <1>3

\* The recursive function Up chooses exists: it is built from the root on.
LEMMA UpExists ==
  ASSUME NEW ts, Table(ts)
  PROVE  \E f : f = [u \in 0 .. Len(ts) |->
                       IF u = 0 THEN << >> ELSE Append(f[ts[u].parent], u)]
<1> DEFINE Step(f, n) == [u \in 0 .. n |->
                            IF u = 0 THEN << >> ELSE Append(f[ts[u].parent], u)]
           T == {n \in Nat : n <= Len(ts) => \E f : f = Step(f, n)}
<1>1. 0 \in T
  <2> DEFINE f == [u \in 0 .. 0 |-> << >>]
  <2>1. f = Step(f, 0)
    OBVIOUS
  <2> HIDE DEF f, Step
  <2>2. \E g : g = Step(g, 0)
    BY <2>1
  <2> QED
    BY <2>2
<1>2. ASSUME NEW n \in Nat, n \in T
      PROVE  n + 1 \in T
  <2>1. CASE n + 1 <= Len(ts)
    <3>1. PICK f : f = Step(f, n)
      <4>1. n <= Len(ts)
        BY <2>1, TableFacts
      <4> HIDE DEF Step
      <4> QED
        BY <1>2, <4>1
    <3> DEFINE g == [u \in 0 .. n + 1 |->
                       IF u = n + 1 THEN Append(f[ts[n + 1].parent], n + 1) ELSE f[u]]
    <3>2. ts[n + 1].parent \in 0 .. n
      BY <2>1, TableFacts
    <3>3. \A u \in 0 .. n : f[u] = IF u = 0 THEN << >> ELSE Append(f[ts[u].parent], u)
      BY <3>1
    <3>4. \A u \in 0 .. n : g[u] = f[u]
      OBVIOUS
    <3>5. \A u \in 1 .. n : ts[u].parent \in 0 .. n
      BY <2>1, TableFacts
    <3>6. \A u \in 0 .. n + 1 :
            g[u] = IF u = 0 THEN << >> ELSE Append(g[ts[u].parent], u)
      <4>1. CASE n + 1 \in Nat
        <5> SUFFICES ASSUME NEW u \in 0 .. n + 1
                     PROVE  g[u] = IF u = 0 THEN << >> ELSE Append(g[ts[u].parent], u)
          OBVIOUS
        <5>1. CASE u = n + 1
          <6>1. g[u] = Append(f[ts[n + 1].parent], n + 1)
            BY <5>1
          <6>2. g[ts[u].parent] = f[ts[u].parent]
            BY <3>2, <3>4, <5>1
          <6>3. u # 0
            BY <5>1
          <6> HIDE DEF g
          <6> QED
            BY <5>1, <6>1, <6>2, <6>3
        <5>2. CASE u # n + 1
          <6>1. u \in 0 .. n /\ g[u] = f[u]
            BY <5>2
          <6>2. u # 0 => g[ts[u].parent] = f[ts[u].parent]
            BY <3>4, <3>5, <6>1
          <6> HIDE DEF g
          <6> QED
            BY <3>3, <6>1, <6>2
        <5> QED
          BY <5>1, <5>2
      <4> QED
        BY <4>1
    <3>7. g = [u \in 0 .. n + 1 |-> g[u]]
      OBVIOUS
    <3> HIDE DEF g
    <3>8. g = Step(g, n + 1)
      BY <3>6, <3>7
    <3> HIDE DEF Step
    <3>9. \E h : h = Step(h, n + 1)
      BY <3>8
    <3> QED
      BY <3>9
  <2>2. CASE ~ (n + 1 <= Len(ts))
    BY <2>2
  <2> QED
    BY <2>1, <2>2
<1>3. Nat \subseteq T
  <2> HIDE DEF T
  <2> QED
    BY <1>1, <1>2, SetInduction
<1>4. Len(ts) \in Nat /\ Len(ts) <= Len(ts)
  BY TableFacts
<1>5. \E f : f = Step(f, Len(ts))
  <2> HIDE DEF Step
  <2> QED
    BY <1>3, <1>4
<1> QED
  BY <1>5

LEMMA UpUnfolds ==
  ASSUME NEW ts, Table(ts)
  PROVE  /\ Up(ts, 0) = << >>
         /\ \A u \in 1 .. Len(ts) : Up(ts, u) = Append(Up(ts, ts[u].parent), u)
<1> DEFINE Step(f) == [u \in 0 .. Len(ts) |->
                         IF u = 0 THEN << >> ELSE Append(f[ts[u].parent], u)]
           c == CHOOSE f : f = Step(f)
<1>1. \A t : Up(ts, t) = c[t]
  BY DEF Up
<1>2. c = Step(c)
  <2>1. \E f : f = Step(f)
    BY UpExists
  <2> HIDE DEF Step
  <2> QED
    BY <2>1
<1> HIDE DEF c
<1>3. 0 \in 0 .. Len(ts) /\ \A u \in 1 .. Len(ts) : u \in 0 .. Len(ts) /\ u # 0
  BY TableFacts
<1>4. \A u \in 0 .. Len(ts) :
        c[u] = IF u = 0 THEN << >> ELSE Append(c[ts[u].parent], u)
  BY <1>2
<1> QED
  BY <1>1, <1>3, <1>4

LEMMA RangeAppend ==
  ASSUME NEW X, NEW q \in Seq(X), NEW x \in X
  PROVE  Range(Append(q, x)) = Range(q) \cup {x}
<1> DEFINE r == Append(q, x)
<1>1. /\ DOMAIN r = 1 .. Len(q) + 1 /\ DOMAIN q = 1 .. Len(q) /\ Len(q) \in Nat
      /\ r[Len(q) + 1] = x /\ \A k \in 1 .. Len(q) : r[k] = q[k]
  BY OneMore
<1> HIDE DEF r
<1>2. \A k \in 1 .. Len(q) + 1 : k = Len(q) + 1 \/ k \in 1 .. Len(q)
  BY <1>1
<1>3. Len(q) + 1 \in DOMAIN r /\ \A k \in DOMAIN q : k \in DOMAIN r
  BY <1>1
<1>4. Range(r) \subseteq Range(q) \cup {x}
  BY <1>1, <1>2 DEF Range
<1>5. Range(q) \cup {x} \subseteq Range(r)
  BY <1>1, <1>3 DEF Range
<1>6. Range(r) = Range(q) \cup {x}
  BY <1>4, <1>5
<1> QED
  BY <1>6 DEF r

\* A chain is a sequence of turns up to the one it ends with.
LEMMA UpTypes ==
  ASSUME NEW ts, Table(ts)
  PROVE  \A u \in 0 .. Len(ts) : Up(ts, u) \in Seq(Nat) /\ Line(ts, u) \subseteq 1 .. u
<1> DEFINE Good(u) == Up(ts, u) \in Seq(Nat) /\ Line(ts, u) \subseteq 1 .. u
           T == {u \in Nat : u <= Len(ts) => Good(u)}
<1>1. ASSUME NEW n \in Nat, \A m \in 0 .. n - 1 : m \in T
      PROVE  n \in T
  <2>1. CASE n = 0
    <3>1. Up(ts, n) = << >>
      BY <2>1, UpUnfolds
    <3> QED
      BY <3>1 DEF Line, Range
  <2>2. CASE n # 0 /\ n <= Len(ts)
    <3> DEFINE p == ts[n].parent
    <3>1. n \in 1 .. Len(ts) /\ p \in 0 .. n - 1 /\ p <= Len(ts)
      BY <2>2, TableFacts
    <3>2. Good(p)
      BY <1>1, <3>1
    <3>3. Up(ts, n) = Append(Up(ts, p), n)
      BY <3>1, UpUnfolds
    <3>4. Up(ts, n) \in Seq(Nat) /\ Line(ts, n) = Line(ts, p) \cup {n}
      BY <3>2, <3>3, RangeAppend, AppendProperties DEF Line
    <3> QED
      BY <2>2, <3>1, <3>2, <3>4
  <2> QED
    BY <2>1, <2>2, TableFacts
<1>2. Nat \subseteq T
  <2> HIDE DEF T
  <2> QED
    BY <1>1, StrongInduction
<1> QED
  BY <1>2, TableFacts

LEMMA LineUnfolds ==
  ASSUME NEW ts, Table(ts)
  PROVE  /\ Line(ts, 0) = {}
         /\ \A u \in 1 .. Len(ts) : /\ Line(ts, u) = Line(ts, ts[u].parent) \cup {u}
                                    /\ Line(ts, ts[u].parent) \subseteq 1 .. u - 1
         /\ \A u \in 0 .. Len(ts) : Line(ts, u) \subseteq 1 .. u
<1>1. Line(ts, 0) = {}
  BY UpUnfolds DEF Line, Range
<1>2. ASSUME NEW u \in 1 .. Len(ts)
      PROVE  /\ Line(ts, u) = Line(ts, ts[u].parent) \cup {u}
             /\ Line(ts, ts[u].parent) \subseteq 1 .. u - 1
  <2>1. ts[u].parent \in 0 .. Len(ts) /\ ts[u].parent \in 0 .. u - 1 /\ u \in Nat
    BY TableFacts
  <2>2. /\ Up(ts, ts[u].parent) \in Seq(Nat)
        /\ Line(ts, ts[u].parent) \subseteq 1 .. ts[u].parent
    BY <2>1, UpTypes
  <2>3. Up(ts, u) = Append(Up(ts, ts[u].parent), u)
    BY UpUnfolds
  <2>4. 1 .. ts[u].parent \subseteq 1 .. u - 1
    BY <2>1
  <2> QED
    BY <2>1, <2>2, <2>3, <2>4, RangeAppend DEF Line
<1> QED
  BY <1>1, <1>2, UpTypes

\* Chains depend on the parents only, and not on younger turns.
LEMMA UpAgrees ==
  ASSUME NEW ts, NEW us, Table(ts), Table(us), Len(ts) <= Len(us),
         \A u \in 1 .. Len(ts) : us[u].parent = ts[u].parent
  PROVE  \A u \in 0 .. Len(ts) : Up(us, u) = Up(ts, u) /\ Line(us, u) = Line(ts, u)
<1> DEFINE T == {u \in Nat : u <= Len(ts) => Up(us, u) = Up(ts, u)}
<1>1. ASSUME NEW n \in Nat, \A m \in 0 .. n - 1 : m \in T
      PROVE  n \in T
  <2>1. CASE n = 0
    BY <2>1, UpUnfolds
  <2>2. CASE n # 0 /\ n <= Len(ts)
    <3> DEFINE p == ts[n].parent
    <3>1. /\ n \in 1 .. Len(ts) /\ n \in 1 .. Len(us)
          /\ p \in 0 .. n - 1 /\ p <= Len(ts) /\ us[n].parent = p
      BY <2>2, TableFacts
    <3>2. Up(us, p) = Up(ts, p)
      BY <1>1, <3>1
    <3>3. Up(ts, n) = Append(Up(ts, p), n) /\ Up(us, n) = Append(Up(us, p), n)
      BY <3>1, UpUnfolds
    <3> QED
      BY <3>2, <3>3
  <2> QED
    BY <2>1, <2>2, TableFacts
<1>2. Nat \subseteq T
  <2> HIDE DEF T
  <2> QED
    BY <1>1, StrongInduction
<1> QED
  BY <1>2, TableFacts DEF Line

LEMMA LineSession ==
  ASSUME NEW ts, Table(ts)
  PROVE  \A u \in 1 .. Len(ts) : \A v \in Line(ts, u) : ts[v].session = ts[u].session
<1> DEFINE T == {u \in Nat : u \in 1 .. Len(ts) =>
                               \A v \in Line(ts, u) : ts[v].session = ts[u].session}
<1>1. ASSUME NEW n \in Nat, \A m \in 0 .. n - 1 : m \in T
      PROVE  n \in T
  <2>1. CASE n \in 1 .. Len(ts)
    <3> DEFINE p == ts[n].parent
    <3>1. p \in 0 .. n - 1 /\ p \in 0 .. Len(ts)
      BY <2>1, TableFacts
    <3>2. Line(ts, n) = Line(ts, p) \cup {n}
      BY <2>1, LineUnfolds
    <3>3. CASE p = 0
      <4>1. Line(ts, n) = {n}
        BY <3>2, <3>3, LineUnfolds
      <4> QED
        BY <4>1
    <3>4. CASE p # 0
      <4>1. p \in 1 .. Len(ts) /\ p \in T
        BY <1>1, <3>1, <3>4
      <4>2. \A v \in Line(ts, p) : ts[v].session = ts[p].session
        BY <4>1
      <4>3. ts[p].session = ts[n].session
        BY <2>1, <3>4 DEF Table
      <4> QED
        BY <3>2, <4>2, <4>3
    <3> QED
      BY <3>3, <3>4
  <2> QED
    BY <2>1
<1>2. Nat \subseteq T
  <2> HIDE DEF T
  <2> QED
    BY <1>1, StrongInduction
<1> QED
  BY <1>2, TableFacts

-----------------------------------------------------------------------------
(* What a step does to the tree *)

\* The flags say which turns are on the chain of their session's head.
Flags(ts, hd) ==
  \A u \in 1 .. Len(ts) : ts[u].active <=> u \in Line(ts, hd[ts[u].session])

LEMMA PathIsFlags == PathIsChain <=> (migrated => Flags(turn, head))
BY DEF PathIsChain, Flags, Chain, Up, Line, Turns

LEMMA PathIsFlagsAfter == PathIsChain' <=> (migrated' => Flags(turn', head'))
BY DEF PathIsChain, Flags, Chain, Up, Line, Turns

\* us is ts with the flag of one turn set, and those of some others taken away.
Switched(ts, us, on, off) ==
  /\ Table(us) /\ Len(us) = Len(ts)
  /\ \A u \in 1 .. Len(ts) :
       /\ us[u].session = ts[u].session /\ us[u].parent = ts[u].parent
       /\ us[u].active <=> (u = on \/ (u \notin off /\ ts[u].active))
  /\ \A u \in 0 .. Len(ts) : Line(us, u) = Line(ts, u)

\* set_session_head changes flags only.
LEMMA ActivePathFacts ==
  ASSUME NEW ts, Table(ts), NEW previous, NEW next, NEW deactivate
  PROVE  Switched(ts, ActivePath(ts, previous, next, deactivate), next,
                  IF deactivate THEN {previous} ELSE {})
<1> DEFINE us == ActivePath(ts, previous, next, deactivate)
<1>1. /\ Len(ts) \in Nat /\ DOMAIN ts = 1 .. Len(ts)
      /\ \A u \in 1 .. Len(ts) : ts[u] \in TurnRows
  BY TableFacts
<1>2. ASSUME NEW u \in 1 .. Len(ts)
      PROVE  /\ us[u] \in TurnRows
             /\ us[u].session = ts[u].session /\ us[u].parent = ts[u].parent
             /\ us[u].active <=> \/ u = next
                                 \/ ~ (u = previous /\ deactivate) /\ ts[u].active
  <2>1. us[u] = [ts[u] EXCEPT !.active =
                   IF u = next THEN TRUE
                   ELSE IF u = previous /\ deactivate THEN FALSE ELSE @]
    BY <1>1 DEF ActivePath
  <2>2. ts[u] \in TurnRows
    BY <1>1
  <2> QED
    BY <2>1, <2>2 DEF TurnRows
<1>3. us = [u \in 1 .. Len(ts) |-> us[u]]
  BY <1>1 DEF ActivePath
<1> HIDE DEF us
<1>4. us \in [1 .. Len(ts) -> TurnRows]
  BY <1>2, <1>3
<1>5. us \in Seq(TurnRows) /\ Len(us) = Len(ts) /\ DOMAIN us = 1 .. Len(ts)
  BY <1>1, <1>4, FunctionIsSeq
<1>6. Table(us)
  <2> SUFFICES ASSUME NEW u \in 1 .. Len(ts)
               PROVE  /\ us[u].parent < u
                      /\ us[u].parent # 0 => us[us[u].parent].session = us[u].session
    BY <1>5 DEF Table
  <2>1. us[u].parent = ts[u].parent /\ ts[u].parent \in 0 .. Len(ts) /\ ts[u].parent < u
    BY <1>2, TableFacts DEF Table
  <2>2. ts[u].parent # 0 => /\ ts[ts[u].parent].session = ts[u].session
                            /\ us[ts[u].parent].session = ts[ts[u].parent].session
    BY <1>1, <1>2, <2>1 DEF Table
  <2> QED
    BY <1>2, <2>1, <2>2
<1>7. \A u \in 0 .. Len(ts) : Line(us, u) = Line(ts, u)
  <2>1. Len(ts) <= Len(us)
    BY <1>1, <1>5
  <2> QED
    BY <1>2, <1>6, <2>1, UpAgrees
<1> QED
  BY <1>1, <1>2, <1>5, <1>6, <1>7 DEF us, Switched

LEMMA ActivePathOn ==
  ASSUME NEW ts, Table(ts), NEW previous, NEW next
  PROVE  Switched(ts, ActivePath(ts, previous, next, FALSE), next, {})
<1>1. PICK q : q = FALSE
  OBVIOUS
<1>2. ActivePath(ts, previous, next, FALSE) = ActivePath(ts, previous, next, q)
  BY <1>1 DEF ActivePath
<1>3. (IF q THEN {previous} ELSE {}) = {}
  BY <1>1
<1>4. Switched(ts, ActivePath(ts, previous, next, q), next, IF q THEN {previous} ELSE {})
  BY ActivePathFacts
<1> QED
  BY <1>2, <1>3, <1>4, Zenon

LEMMA ActivePathOff ==
  ASSUME NEW ts, Table(ts), NEW previous, NEW next
  PROVE  Switched(ts, ActivePath(ts, previous, next, TRUE), next, {previous})
<1>1. PICK q : q = TRUE
  OBVIOUS
<1>2. ActivePath(ts, previous, next, TRUE) = ActivePath(ts, previous, next, q)
  BY <1>1 DEF ActivePath
<1>3. (IF q THEN {previous} ELSE {}) = {previous}
  BY <1>1
<1>4. Switched(ts, ActivePath(ts, previous, next, q), next, IF q THEN {previous} ELSE {})
  BY ActivePathFacts
<1> QED
  BY <1>2, <1>3, <1>4, Zenon

\* A new turn at the end of the table.
LEMMA AppendTurn ==
  ASSUME NEW ts, Table(ts), NEW s \in Sessions, NEW p \in 0 .. Len(ts),
         p # 0 => ts[p].session = s
  PROVE  LET us == Append(ts, Turn(s, p))
         IN  /\ Table(us) /\ Len(us) = Len(ts) + 1
             /\ us[Len(ts) + 1] = Turn(s, p) /\ \A u \in 1 .. Len(ts) : us[u] = ts[u]
             /\ \A u \in 0 .. Len(ts) : Line(us, u) = Line(ts, u)
             /\ Line(us, Len(ts) + 1) = Line(ts, p) \cup {Len(ts) + 1}
<1> DEFINE us == Append(ts, Turn(s, p))
<1>1. Len(ts) \in Nat /\ DOMAIN ts = 1 .. Len(ts)
  BY TableFacts
<1>2. Turn(s, p) \in TurnRows
  BY <1>1 DEF Turn, TurnRows
<1>3. /\ us \in Seq(TurnRows) /\ Len(us) = Len(ts) + 1
      /\ us[Len(us)] = Turn(s, p) /\ \A u \in 1 .. Len(ts) : us[u] = ts[u]
  BY <1>2, OneMore DEF Table
<1> HIDE DEF us
<1>4. Table(us)
  <2> SUFFICES ASSUME NEW u \in 1 .. Len(us)
               PROVE  /\ us[u].parent < u
                      /\ us[u].parent # 0 => us[us[u].parent].session = us[u].session
    BY <1>3 DEF Table
  <2>1. CASE u = Len(us)
    <3>1. us[u].parent = p /\ us[u].session = s
      BY <1>3, <2>1 DEF Turn
    <3> QED
      BY <1>1, <1>3, <2>1, <3>1
  <2>2. CASE u # Len(us)
    <3>1. u \in 1 .. Len(ts) /\ us[u] = ts[u]
      BY <1>1, <1>3, <2>2
    <3>2. ts[u].parent \in 0 .. Len(ts)
      BY <3>1, TableFacts
    <3> QED
      BY <1>1, <1>3, <3>1, <3>2 DEF Table
  <2> QED
    BY <2>1, <2>2
<1>5. \A u \in 0 .. Len(ts) : Line(us, u) = Line(ts, u)
  <2>1. Len(ts) <= Len(us) /\ \A u \in 1 .. Len(ts) : us[u].parent = ts[u].parent
    BY <1>1, <1>3
  <2> QED
    BY <1>4, <2>1, UpAgrees
<1>6. Line(us, Len(ts) + 1) = Line(us, p) \cup {Len(ts) + 1}
  <2>1. Len(ts) + 1 \in 1 .. Len(us) /\ us[Len(ts) + 1].parent = p
    BY <1>1, <1>3 DEF Turn
  <2>2. \A u \in 1 .. Len(us) : Line(us, u) = Line(us, us[u].parent) \cup {u}
    BY <1>4, LineUnfolds
  <2> QED
    BY <2>1, <2>2
<1> QED
  BY <1>3, <1>4, <1>5, <1>6 DEF us

LEMMA TreeFacts ==
  ASSUME NEW ts, NEW hd, Tree(ts, hd)
  PROVE  /\ Table(ts) /\ Len(ts) \in Nat /\ DOMAIN ts = 1 .. Len(ts)
         /\ \A s \in Sessions : /\ hd[s] \in 0 .. Len(ts)
                                /\ hd[s] # 0 => hd[s] \in 1 .. Len(ts) /\ ts[hd[s]].session = s
         /\ \A u \in 1 .. Len(ts) : /\ ts[u].session \in Sessions /\ hd[ts[u].session] # 0
                                    /\ ts[u].parent \in 0 .. u - 1
                                    /\ ts[u].parent \in 0 .. Len(ts)
<1>1. Table(ts)
  BY DEF Tree
<1>2. Len(ts) \in Nat
  BY <1>1, TableFacts
<1>3. \A s \in Sessions : hd[s] \in 0 .. Len(ts)
  BY DEF Tree
<1> QED
  BY <1>1, <1>2, <1>3, TableFacts DEF Tree

\* A session's first turn.
Rooted(ts, hd, s, us, hs) ==
  /\ hd[s] = 0 /\ us = Append(ts, Turn(s, 0)) /\ hs = [hd EXCEPT ![s] = Len(ts) + 1]

LEMMA NewRootTree ==
  ASSUME NEW ts, NEW hd, Tree(ts, hd), NEW s \in Sessions,
         NEW us, NEW hs, Rooted(ts, hd, s, us, hs)
  PROVE  /\ Tree(us, hs)
         /\ Flags(ts, hd) => Flags(us, hs)
         /\ Newest(ts) => Newest(us)
<1> hd[s] = 0 /\ us = Append(ts, Turn(s, 0)) /\ hs = [hd EXCEPT ![s] = Len(ts) + 1]
  BY DEF Rooted
<1>1. /\ Table(ts) /\ Len(ts) \in Nat /\ \A u \in 1 .. Len(ts) : ts[u].session # s
      /\ 0 \in 0 .. Len(ts) /\ \A u \in 1 .. Len(ts) : ts[u].parent \in 0 .. Len(ts)
  BY TreeFacts
<1>2. /\ Table(us) /\ Len(us) = Len(ts) + 1
      /\ us[Len(ts) + 1] = Turn(s, 0) /\ \A u \in 1 .. Len(ts) : us[u] = ts[u]
      /\ \A u \in 0 .. Len(ts) : Line(us, u) = Line(ts, u)
      /\ Line(us, Len(ts) + 1) = Line(ts, 0) \cup {Len(ts) + 1}
  BY <1>1, AppendTurn
<1>3. /\ us[Len(us)].session = s /\ us[Len(us)].parent = 0 /\ us[Len(us)].active = TRUE
      /\ \A u \in 1 .. Len(us) : u = Len(us) \/ (u \in 1 .. Len(ts) /\ us[u] = ts[u])
  BY <1>1, <1>2 DEF Turn
<1>4. /\ hs[s] = Len(us) /\ DOMAIN hs = Sessions
      /\ \A x \in Sessions : x # s => hs[x] = hd[x]
  BY <1>2 DEF Tree
<1>5. Tree(us, hs)
  <2>1. hs \in [Sessions -> 0 .. Len(us)]
    BY <1>1, <1>2, <1>4, TreeFacts DEF Tree
  <2>2. \A u \in 1 .. Len(us) : hs[us[u].session] # 0
    BY <1>1, <1>2, <1>3, <1>4, TreeFacts
  <2>3. ASSUME NEW x \in Sessions, hs[x] # 0
        PROVE  us[hs[x]].session = x
    BY <1>2, <1>3, <1>4, <2>3, TreeFacts
  <2> QED
    BY <1>2, <2>1, <2>2, <2>3 DEF Tree
<1>6. ASSUME Flags(ts, hd)
      PROVE  Flags(us, hs)
  <2> SUFFICES ASSUME NEW u \in 1 .. Len(us)
               PROVE  us[u].active <=> u \in Line(us, hs[us[u].session])
    BY DEF Flags
  <2>1. CASE u = Len(us)
    BY <1>2, <1>3, <1>4, <2>1
  <2>2. CASE u \in 1 .. Len(ts) /\ us[u] = ts[u]
    <3>1. hs[us[u].session] = hd[ts[u].session] /\ hd[ts[u].session] \in 0 .. Len(ts)
      BY <1>1, <1>4, <2>2, TreeFacts
    <3> QED
      BY <1>2, <1>6, <2>2, <3>1 DEF Flags
  <2> QED
    BY <1>3, <2>1, <2>2
<1>7. ASSUME Newest(ts)
      PROVE  Newest(us)
  BY <1>1, <1>2, <1>3, <1>7 DEF Newest
<1> QED
  BY <1>5, <1>6, <1>7

\* One more turn below the head.
LEMMA NewTurnTree ==
  ASSUME NEW ts, NEW hd, Tree(ts, hd), NEW s \in Sessions, hd[s] # 0,
         Flags(ts, hd), Newest(ts),
         NEW us, Switched(Append(ts, Turn(s, hd[s])), us, Len(ts) + 1, {}),
         NEW hs, hs = [hd EXCEPT ![s] = Len(ts) + 1]
  PROVE  Tree(us, hs) /\ Flags(us, hs) /\ Newest(us)
<1> DEFINE n == Len(ts)
           bs == Append(ts, Turn(s, hd[s]))
<1>1. /\ Table(ts) /\ n \in Nat /\ hd[s] \in 1 .. n /\ hd[s] \in 0 .. n /\ ts[hd[s]].session = s
      /\ \A u \in 1 .. n : ts[u].session \in Sessions /\ ts[u].parent \in 0 .. u - 1
  BY TreeFacts
<1>2. /\ Table(bs) /\ Len(bs) = n + 1
      /\ bs[n + 1] = Turn(s, hd[s]) /\ \A u \in 1 .. n : bs[u] = ts[u]
      /\ \A u \in 0 .. n : Line(bs, u) = Line(ts, u)
      /\ Line(bs, n + 1) = Line(ts, hd[s]) \cup {n + 1}
  BY <1>1, AppendTurn
<1> HIDE DEF bs, n
<1>3. /\ Table(us) /\ Len(us) = n + 1
      /\ \A u \in 1 .. Len(bs) :
           /\ us[u].session = bs[u].session /\ us[u].parent = bs[u].parent
           /\ us[u].active <=> (u = n + 1 \/ bs[u].active)
      /\ \A u \in 0 .. Len(bs) : Line(us, u) = Line(bs, u)
  BY <1>2 DEF bs, n, Switched
<1>4. n + 1 \in 1 .. n + 1 /\ \A u \in 1 .. n + 1 : u = n + 1 \/ u \in 1 .. n
  BY <1>1
<1>5. /\ us[n + 1].session = s /\ us[n + 1].parent = hd[s] /\ us[n + 1].active
      /\ \A u \in 1 .. n : /\ us[u].session = ts[u].session /\ us[u].parent = ts[u].parent
                           /\ us[u].active <=> ts[u].active
  <2>1. \A u \in 1 .. n : u \in 1 .. n + 1 /\ u # n + 1
    BY <1>1
  <2> QED
    BY <1>2, <1>3, <1>4, <2>1 DEF Turn
<1>6. /\ \A u \in 0 .. n : Line(us, u) = Line(ts, u)
      /\ Line(us, n + 1) = Line(ts, hd[s]) \cup {n + 1}
      /\ \A u \in 0 .. n : n + 1 \notin Line(ts, u)
  <2>1. \A u \in 0 .. n : u \in 0 .. n + 1
    BY <1>1
  <2>2. n + 1 \in 0 .. n + 1
    BY <1>1
  <2>3. \A u \in 0 .. n : Line(ts, u) \subseteq 1 .. u
    BY <1>1, LineUnfolds DEF n
  <2>4. \A u \in 0 .. n : n + 1 \notin Line(ts, u)
    BY <1>1, <2>3
  <2> QED
    BY <1>2, <1>3, <2>1, <2>2, <2>4
<1>7. /\ hs[s] = n + 1 /\ DOMAIN hs = Sessions
      /\ \A x \in Sessions : x # s => hs[x] = hd[x]
      /\ \A x \in Sessions : hd[x] \in 0 .. n
  BY TreeFacts DEF Tree, n
<1>8. Tree(us, hs)
  <2>1. hs \in [Sessions -> 0 .. Len(us)]
    BY <1>1, <1>3, <1>7 DEF Tree
  <2>2. ASSUME NEW u \in 1 .. n
        PROVE  hs[us[u].session] # 0
    <3>1. ts[u].session \in Sessions /\ hd[ts[u].session] # 0
      BY TreeFacts DEF n
    <3> QED
      BY <1>1, <1>5, <1>7, <3>1
  <2>3. hs[us[n + 1].session] # 0
    BY <1>1, <1>5, <1>7
  <2>4. ASSUME NEW x \in Sessions, hs[x] # 0
        PROVE  us[hs[x]].session = x
    <3>1. CASE x = s
      BY <1>5, <1>7, <3>1
    <3>2. CASE x # s
      <4>1. hd[x] \in 1 .. n /\ ts[hd[x]].session = x
        BY <1>7, <2>4, <3>2, TreeFacts DEF n
      <4> QED
        BY <1>5, <1>7, <3>2, <4>1
    <3> QED
      BY <3>1, <3>2
  <2> QED
    BY <1>3, <1>4, <2>1, <2>2, <2>3, <2>4 DEF Tree
<1>9. Flags(us, hs)
  <2> SUFFICES ASSUME NEW u \in 1 .. n + 1
               PROVE  us[u].active <=> u \in Line(us, hs[us[u].session])
    BY <1>3 DEF Flags
  <2>1. CASE u = n + 1
    BY <1>5, <1>6, <1>7, <2>1
  <2>2. CASE u \in 1 .. n
    <3>1. ts[u].active <=> u \in Line(ts, hd[ts[u].session])
      BY <2>2 DEF Flags, n
    <3>2. ts[u].session \in Sessions /\ u # n + 1
      BY <1>1, <2>2
    <3>3. CASE ts[u].session = s
      BY <1>1, <1>5, <1>6, <1>7, <2>2, <3>1, <3>2, <3>3
    <3>4. CASE ts[u].session # s
      BY <1>5, <1>6, <1>7, <2>2, <3>1, <3>2, <3>4
    <3> QED
      BY <3>3, <3>4
  <2> QED
    BY <1>4, <2>1, <2>2
<1>10. Newest(us)
  <2> SUFFICES ASSUME NEW u \in 1 .. n + 1, NEW v \in 1 .. n + 1, us[u].active,
                      us[u].parent # 0, us[v].parent = us[u].parent
               PROVE  v <= u
    BY <1>3 DEF Newest
  <2>1. CASE u = n + 1
    BY <1>1, <2>1
  <2>2. CASE u \in 1 .. n /\ v \in 1 .. n
    BY <1>5, <2>2 DEF Newest, n
  <2>3. CASE u \in 1 .. n /\ v = n + 1
    <3>1. ts[u].parent = hd[s] /\ ts[u].active
      BY <1>5, <2>3
    <3>2. ts[u].session = s
      <4>1. ts[u].parent # 0
        BY <1>1, <3>1
      <4>2. ts[ts[u].parent].session = ts[u].session
        BY <2>3, <4>1 DEF Tree, Table, n
      <4> QED
        BY <1>1, <3>1, <4>2
    <3>3. u \in Line(ts, hd[s])
      BY <2>3, <3>1, <3>2 DEF Flags, n
    <3>4. Line(ts, hd[s]) \subseteq 1 .. hd[s]
      BY <1>1, LineUnfolds DEF n
    <3>5. hd[s] \in 0 .. u - 1
      BY <1>1, <2>3, <3>1
    <3> QED
      BY <1>1, <2>3, <3>3, <3>4, <3>5
  <2> QED
    BY <1>4, <2>1, <2>2, <2>3
<1> QED
  BY <1>8, <1>9, <1>10

\* The head's parent becomes the head.
LEMMA UndoTree ==
  ASSUME NEW ts, NEW hd, Tree(ts, hd), Flags(ts, hd), Newest(ts),
         NEW s \in Sessions, hd[s] # 0, NEW p, p = ts[hd[s]].parent, p # 0,
         NEW us, Switched(ts, us, p, {hd[s]}),
         NEW hs, hs = [hd EXCEPT ![s] = p]
  PROVE  Tree(us, hs) /\ Flags(us, hs) /\ Newest(us)
<1> DEFINE n == Len(ts)
           h == hd[s]
<1>1. /\ Table(ts) /\ n \in Nat /\ h \in 1 .. n /\ ts[h].session = s
      /\ p \in 1 .. n /\ p \in 0 .. h - 1 /\ ts[p].session = s
  BY TreeFacts, SMTT(30) DEF Tree, Table
<1>2. /\ Line(ts, h) = Line(ts, p) \cup {h} /\ h \notin Line(ts, p) /\ p \in Line(ts, p)
      /\ p # h
  <2>1. Line(ts, h) = Line(ts, p) \cup {h} /\ Line(ts, p) \subseteq 1 .. h - 1
    BY <1>1, LineUnfolds
  <2>2. Line(ts, p) = Line(ts, ts[p].parent) \cup {p}
    BY <1>1, LineUnfolds
  <2> QED
    BY <1>1, <2>1, <2>2
<1>3. /\ Table(us) /\ Len(us) = n
      /\ \A u \in 1 .. n : /\ us[u].session = ts[u].session /\ us[u].parent = ts[u].parent
                           /\ us[u].active <=> (u = p \/ (u # h /\ ts[u].active))
      /\ \A u \in 0 .. n : Line(us, u) = Line(ts, u)
  BY DEF Switched
<1>4. /\ hs[s] = p /\ \A x \in Sessions : x # s => hs[x] = hd[x]
      /\ hs \in [Sessions -> 0 .. n]
  BY <1>1 DEF Tree
<1>5. \A u \in 1 .. n : ts[u].session \in Sessions /\ hd[ts[u].session] # 0
  BY TreeFacts
<1>6. \A x \in Sessions : hd[x] \in 0 .. n /\ (hd[x] # 0 => hd[x] \in 1 .. n /\ ts[hd[x]].session = x)
  BY TreeFacts
<1>7. \A u \in 1 .. n : ts[u].active <=> u \in Line(ts, hd[ts[u].session])
  BY DEF Flags
<1>8. \A u, v \in 1 .. n :
        ts[u].active /\ ts[u].parent # 0 /\ ts[v].parent = ts[u].parent => v <= u
  BY DEF Newest
<1> HIDE DEF n
<1>9. Tree(us, hs)
  <2>1. \A u \in 1 .. n : hs[us[u].session] # 0
    BY <1>3, <1>4, <1>5
  <2>2. \A x \in Sessions : hs[x] # 0 => us[hs[x]].session = x
    BY <1>1, <1>3, <1>4, <1>6
  <2> QED
    BY <1>3, <1>4, <2>1, <2>2 DEF Tree
<1>10. Flags(us, hs)
  <2> SUFFICES ASSUME NEW u \in 1 .. n
               PROVE  us[u].active <=> u \in Line(us, hs[us[u].session])
    BY <1>3 DEF Flags
  <2>1. CASE ts[u].session = s
    <3>1. Line(us, hs[us[u].session]) = Line(ts, p)
      <4>1. p \in 0 .. n
        BY <1>1
      <4> QED
        BY <1>3, <1>4, <2>1, <4>1
    <3>2. us[u].active <=> (u = p \/ (u # h /\ u \in Line(ts, h)))
      BY <1>3, <1>7, <2>1
    <3> QED
      BY <1>2, <3>1, <3>2
  <2>2. CASE ts[u].session # s
    <3>1. u # p /\ u # h
      BY <1>1, <2>2
    <3>2. us[u].active <=> ts[u].active
      BY <1>3, <3>1
    <3>3. Line(us, hs[us[u].session]) = Line(ts, hd[ts[u].session])
      BY <1>3, <1>4, <1>5, <1>6, <2>2
    <3> QED
      BY <1>7, <3>2, <3>3
  <2> QED
    BY <2>1, <2>2
<1>11. Newest(us)
  <2> SUFFICES ASSUME NEW u \in 1 .. n, NEW v \in 1 .. n, us[u].active,
                      us[u].parent # 0, us[v].parent = us[u].parent
               PROVE  v <= u
    BY <1>3 DEF Newest
  <2>1. ts[p].active
    <3>1. p \in Line(ts, h)
      BY <1>2
    <3> QED
      BY <1>1, <1>7, <3>1
  <2>2. ts[u].active
    BY <1>3, <2>1
  <2> QED
    BY <1>3, <1>8, <2>2
<1> QED
  BY <1>9, <1>10, <1>11

\* The newest child of the head becomes the head.
LEMMA RedoTree ==
  ASSUME NEW ts, NEW hd, Tree(ts, hd), Flags(ts, hd), Newest(ts),
         NEW s \in Sessions, hd[s] # 0, NEW c \in 1 .. Len(ts), ts[c].parent = hd[s],
         \A v \in 1 .. Len(ts) : ts[v].parent = hd[s] => v <= c,
         NEW us, Switched(ts, us, c, {}),
         NEW hs, hs = [hd EXCEPT ![s] = c]
  PROVE  Tree(us, hs) /\ Flags(us, hs) /\ Newest(us)
<1> DEFINE n == Len(ts)
           h == hd[s]
<1>1. /\ Table(ts) /\ n \in Nat /\ h \in 1 .. n /\ ts[h].session = s
      /\ c \in 1 .. n /\ ts[c].session = s /\ h < c
  BY TreeFacts DEF Tree, Table
<1>2. Line(ts, c) = Line(ts, h) \cup {c}
  BY <1>1, LineUnfolds
<1>3. /\ Table(us) /\ Len(us) = n
      /\ \A u \in 1 .. n : /\ us[u].session = ts[u].session /\ us[u].parent = ts[u].parent
                           /\ us[u].active <=> (u = c \/ ts[u].active)
      /\ \A u \in 0 .. n : Line(us, u) = Line(ts, u)
  BY DEF Switched
<1>4. /\ hs[s] = c /\ \A x \in Sessions : x # s => hs[x] = hd[x]
      /\ hs \in [Sessions -> 0 .. n]
  BY <1>1 DEF Tree
<1>5. \A u \in 1 .. n : ts[u].session \in Sessions /\ hd[ts[u].session] # 0
  BY TreeFacts
<1>6. \A x \in Sessions : hd[x] \in 0 .. n /\ (hd[x] # 0 => hd[x] \in 1 .. n /\ ts[hd[x]].session = x)
  BY TreeFacts
<1>7. \A u \in 1 .. n : ts[u].active <=> u \in Line(ts, hd[ts[u].session])
  BY DEF Flags
<1>8. \A u, v \in 1 .. n :
        ts[u].active /\ ts[u].parent # 0 /\ ts[v].parent = ts[u].parent => v <= u
  BY DEF Newest
<1>9. \A v \in 1 .. n : ts[v].parent = h => v <= c
  OBVIOUS
<1> HIDE DEF n
<1>10. Tree(us, hs)
  <2>1. \A u \in 1 .. n : hs[us[u].session] # 0
    BY <1>1, <1>3, <1>4, <1>5
  <2>2. \A x \in Sessions : hs[x] # 0 => us[hs[x]].session = x
    BY <1>1, <1>3, <1>4, <1>6
  <2> QED
    BY <1>3, <1>4, <2>1, <2>2 DEF Tree
<1>11. Flags(us, hs)
  <2> SUFFICES ASSUME NEW u \in 1 .. n
               PROVE  us[u].active <=> u \in Line(us, hs[us[u].session])
    BY <1>3 DEF Flags
  <2>1. CASE ts[u].session = s
    <3>1. Line(us, hs[us[u].session]) = Line(ts, c)
      <4>1. c \in 0 .. n
        BY <1>1
      <4> QED
        BY <1>3, <1>4, <2>1, <4>1
    <3>2. us[u].active <=> (u = c \/ u \in Line(ts, h))
      BY <1>3, <1>7, <2>1
    <3> QED
      BY <1>2, <3>1, <3>2
  <2>2. CASE ts[u].session # s
    <3>1. u # c
      BY <1>1, <2>2
    <3>2. us[u].active <=> ts[u].active
      BY <1>3, <3>1
    <3>3. Line(us, hs[us[u].session]) = Line(ts, hd[ts[u].session])
      BY <1>3, <1>4, <1>5, <1>6, <2>2
    <3> QED
      BY <1>7, <3>2, <3>3
  <2> QED
    BY <2>1, <2>2
<1>12. Newest(us)
  <2> SUFFICES ASSUME NEW u \in 1 .. n, NEW v \in 1 .. n, us[u].active,
                      us[u].parent # 0, us[v].parent = us[u].parent
               PROVE  v <= u
    BY <1>3 DEF Newest
  <2>1. CASE u = c
    BY <1>3, <1>9, <2>1
  <2>2. CASE ts[u].active
    BY <1>3, <1>8, <2>2
  <2> QED
    BY <1>3, <2>1, <2>2
<1> QED
  BY <1>10, <1>11, <1>12

\* us is ts with the flags of the turns in A.
Reflagged(ts, us, A) ==
  /\ us \in Seq(TurnRows) /\ Len(us) = Len(ts)
  /\ \A u \in 1 .. Len(ts) : /\ us[u].session = ts[u].session
                             /\ us[u].parent = ts[u].parent
                             /\ us[u].active <=> u \in A

LEMMA FlagRow ==
  ASSUME NEW r \in TurnRows, NEW P \in BOOLEAN, NEW q, q = [r EXCEPT !.active = P]
  PROVE  /\ q \in TurnRows /\ q.session = r.session
         /\ q.parent = r.parent
         /\ q.active <=> P
BY DEF TurnRows

LEMMA FlagRowOf ==
  ASSUME NEW r \in TurnRows, NEW u, NEW A, NEW q, q = [r EXCEPT !.active = u \in A]
  PROVE  /\ q \in TurnRows /\ q.session = r.session
         /\ q.parent = r.parent
         /\ q.active <=> u \in A
<1>1. PICK P \in BOOLEAN : P <=> u \in A
  OBVIOUS
<1>2. P = (u \in A)
  BY <1>1
<1>3. q = [r EXCEPT !.active = P]
  BY <1>2
<1> HIDE <1>2
<1> QED
  BY <1>1, <1>3, FlagRow

LEMMA TurnTable ==
  ASSUME NEW n \in Nat, NEW us \in [1 .. n -> TurnRows]
  PROVE  us \in Seq(TurnRows) /\ Len(us) = n
BY FunctionIsSeq

LEMMA ReflaggedFacts ==
  ASSUME NEW ts, Table(ts), NEW A, NEW us,
         us = [u \in 1 .. Len(ts) |-> [ts[u] EXCEPT !.active = u \in A]]
  PROVE  Reflagged(ts, us, A)
<1>1. Len(ts) \in Nat /\ \A u \in 1 .. Len(ts) : ts[u] \in TurnRows
  BY TableFacts
<1>2. ASSUME NEW u \in 1 .. Len(ts)
      PROVE  /\ us[u] \in TurnRows /\ us[u].session = ts[u].session
             /\ us[u].parent = ts[u].parent
             /\ us[u].active <=> u \in A
  <2>1. us[u] = [ts[u] EXCEPT !.active = u \in A]
    OBVIOUS
  <2>2. ts[u] \in TurnRows
    BY <1>1
  <2> QED
    BY <2>1, <2>2, FlagRowOf, Zenon
<1>3. us \in [1 .. Len(ts) -> TurnRows]
  BY <1>2, Zenon
<1>4. us \in Seq(TurnRows) /\ Len(us) = Len(ts)
  <2>1. Len(ts) \in Nat
    BY <1>1, Zenon
  <2> QED
    BY <1>3, <2>1, TurnTable, Zenon
<1> QED
  BY <1>2, <1>4, Zenon DEF Reflagged

\* The flags rebuilt from the heads.
LEMMA RebuiltTree ==
  ASSUME NEW ts, NEW hd, Tree(ts, hd), \A u \in 1 .. Len(ts) : ts[u].parent = u - 1,
         NEW A, NEW us, Reflagged(ts, us, A),
         \A u \in 1 .. Len(ts) :
           u \in A <=> \E s \in Sessions : u = hd[s] \/ u \in Line(ts, hd[s])
  PROVE  Tree(us, hd) /\ Flags(us, hd) /\ Newest(us) /\ Len(us) = Len(ts)
<1> DEFINE n == Len(ts)
<1>1. Table(ts) /\ n \in Nat
  BY TableFacts DEF Tree
<1>2. \A u \in 1 .. n : /\ us[u].session = ts[u].session /\ us[u].parent = ts[u].parent
                        /\ us[u].active <=> u \in A
  BY DEF Reflagged
<1>4. us \in Seq(TurnRows) /\ Len(us) = n
  BY DEF Reflagged
<1> HIDE DEF n
<1>5. \A u \in 1 .. n : /\ ts[u].session \in Sessions /\ hd[ts[u].session] # 0
                        /\ ts[u].parent \in 0 .. n /\ ts[u].parent < u
                        /\ ts[u].parent # 0 => ts[ts[u].parent].session = ts[u].session
  <2>1. \A u \in 1 .. n : /\ ts[u].session \in Sessions /\ hd[ts[u].session] # 0
                          /\ ts[u].parent \in 0 .. n
    BY TreeFacts DEF n
  <2>2. \A u \in 1 .. n : /\ ts[u].parent < u
                          /\ ts[u].parent # 0 => ts[ts[u].parent].session = ts[u].session
    BY <1>1 DEF Table, n
  <2> QED
    BY <2>1, <2>2
<1>6. Table(us)
  <2> SUFFICES ASSUME NEW u \in 1 .. n
               PROVE  /\ us[u].parent < u
                      /\ us[u].parent # 0 => us[us[u].parent].session = us[u].session
    BY <1>4 DEF Table
  <2>1. us[u].parent = ts[u].parent /\ us[u].session = ts[u].session
    BY <1>2
  <2>2. /\ ts[u].parent \in 0 .. n /\ ts[u].parent < u
        /\ ts[u].parent # 0 => ts[ts[u].parent].session = ts[u].session
    BY <1>5
  <2>3. ASSUME ts[u].parent # 0
        PROVE  us[us[u].parent].session = us[u].session
    <3>1. ts[u].parent \in 1 .. n
      BY <1>1, <2>2, <2>3
    <3>2. us[ts[u].parent].session = ts[ts[u].parent].session
      BY <1>2, <3>1
    <3> QED
      BY <2>1, <2>2, <2>3, <3>2
  <2> QED
    BY <2>1, <2>2, <2>3
<1>7. \A x \in Sessions : hd[x] \in 0 .. n /\ (hd[x] # 0 => hd[x] \in 1 .. n /\ ts[hd[x]].session = x)
  BY TreeFacts DEF n
<1>8. \A u \in 0 .. n : Line(us, u) = Line(ts, u)
  <2>1. Len(ts) <= Len(us)
    BY <1>1, <1>4 DEF n
  <2> QED
    BY <1>1, <1>2, <1>6, <2>1, UpAgrees DEF n
<1>9. Tree(us, hd)
  <2>1. \A u \in 1 .. n : hd[us[u].session] # 0
    BY <1>2, <1>5
  <2>2. \A x \in Sessions : hd[x] # 0 => us[hd[x]].session = x
    BY <1>2, <1>7
  <2>3. hd \in [Sessions -> 0 .. Len(us)]
    BY <1>4 DEF Tree, n
  <2> QED
    BY <1>4, <1>6, <2>1, <2>2, <2>3 DEF Tree
<1>10. Flags(us, hd)
  <2> SUFFICES ASSUME NEW u \in 1 .. n
               PROVE  us[u].active <=> u \in Line(us, hd[us[u].session])
    BY <1>4 DEF Flags
  <2>1. Line(us, hd[us[u].session]) = Line(ts, hd[ts[u].session])
    BY <1>2, <1>5, <1>7, <1>8
  <2>2. ASSUME u \in A
        PROVE  u \in Line(ts, hd[ts[u].session])
    <3>1. PICK x \in Sessions : u = hd[x] \/ u \in Line(ts, hd[x])
      BY <2>2 DEF n
    <3>2. CASE u = hd[x]
      <4>1. ts[u].session = x
        BY <1>7, <3>2
      <4>2. Line(ts, u) = Line(ts, ts[u].parent) \cup {u}
        BY <1>1, LineUnfolds DEF n
      <4> QED
        BY <3>2, <4>1, <4>2
    <3>3. CASE u \in Line(ts, hd[x])
      <4>1. hd[x] # 0
        BY <1>1, <3>3, LineUnfolds
      <4>2. hd[x] \in 1 .. n /\ ts[hd[x]].session = x
        BY <1>7, <4>1
      <4>3. ts[u].session = x
        BY <1>1, <3>3, <4>2, LineSession DEF n
      <4> QED
        BY <3>3, <4>3
    <3> QED
      BY <3>1, <3>2, <3>3
  <2>3. ASSUME u \in Line(ts, hd[ts[u].session])
        PROVE  u \in A
    BY <1>5, <2>3 DEF n
  <2> QED
    BY <1>2, <2>1, <2>2, <2>3
<1>11. Newest(us)
  <2>1. \A u \in 1 .. n : us[u].parent = u - 1
    BY <1>2 DEF n
  <2> QED
    BY <1>4, <2>1 DEF Newest
<1> QED
  BY <1>4, <1>9, <1>10, <1>11 DEF n

-----------------------------------------------------------------------------
(* The tree, step by step *)

\* Turns and heads are never taken back, and stay where they are.
Keeps(ts, hd, us, hs) ==
  /\ Len(ts) <= Len(us) /\ \A s \in Sessions : hd[s] # 0 => hs[s] # 0
  /\ \A u \in 1 .. Len(ts) : us[u].session = ts[u].session /\ us[u].parent = ts[u].parent

\* What the steps keep of the tree, for a database that has been opened.
Grown(ts, hd, us, hs) ==
  /\ Keeps(ts, hd, us, hs) /\ Tree(us, hs)
  /\ Flags(ts, hd) /\ Newest(ts) => Flags(us, hs) /\ Newest(us)

LEMMA NewSessionTree ==
  ASSUME Tree(turn, head), NEW s \in Sessions, NEW p, NewSession(s, p)
  PROVE  Grown(turn, head, turn', head')
<1>1. /\ head[s] = 0 /\ head' = [head EXCEPT ![s] = Len(turn) + 1]
      /\ turn' = Append(turn, Turn(s, 0))
  BY DEF NewSession
<1>2. /\ Tree(turn', head') /\ (Flags(turn, head) => Flags(turn', head'))
      /\ (Newest(turn) => Newest(turn'))
  <2>1. Rooted(turn, head, s, turn', head')
    BY <1>1 DEF Rooted
  <2> QED
    BY <2>1, NewRootTree
<1>3. /\ Table(turn) /\ Len(turn) \in Nat /\ 0 \in 0 .. Len(turn)
      /\ \A x \in Sessions : head[x] \in 0 .. Len(turn)
  BY TreeFacts
<1>4. Len(turn') = Len(turn) + 1 /\ \A u \in 1 .. Len(turn) : turn'[u] = turn[u]
  BY <1>1, <1>3, AppendTurn
<1>5. Len(turn) <= Len(turn')
  BY <1>3, <1>4
<1>6. \A x \in Sessions : head[x] # 0 => head'[x] # 0
  BY <1>1, <1>3
<1> QED
  BY <1>2, <1>4, <1>5, <1>6 DEF Grown, Keeps

LEMMA AppendUserTree ==
  ASSUME Tree(turn, head), Flags(turn, head), Newest(turn),
         NEW s \in Sessions, AppendUser(s)
  PROVE  Grown(turn, head, turn', head')
<1> DEFINE bs == Append(turn, Turn(s, head[s]))
<1>1. /\ head[s] # 0 /\ head' = [head EXCEPT ![s] = Len(turn) + 1]
      /\ turn' = ActivePath(bs, head[s], Len(turn) + 1, FALSE)
  BY DEF AppendUser, Live
<1>2. /\ Table(turn) /\ Len(turn) \in Nat /\ head[s] \in 0 .. Len(turn)
      /\ turn[head[s]].session = s /\ \A x \in Sessions : head[x] \in 0 .. Len(turn)
  BY <1>1, TreeFacts
<1>3. /\ Table(bs) /\ Len(bs) = Len(turn) + 1 /\ \A u \in 1 .. Len(turn) : bs[u] = turn[u]
  BY <1>2, AppendTurn
<1>4. Switched(bs, turn', Len(turn) + 1, {})
  <2> HIDE DEF bs
  <2>1. Switched(bs, ActivePath(bs, head[s], Len(turn) + 1, FALSE), Len(turn) + 1, {})
    BY <1>3, ActivePathOn
  <2> QED
    BY <1>1, <2>1, Zenon
<1>5. Tree(turn', head') /\ Flags(turn', head') /\ Newest(turn')
  <2>1. head[s] # 0 /\ head' = [head EXCEPT ![s] = Len(turn) + 1]
    BY <1>1
  <2> HIDE <1>1
  <2> QED
    BY <1>4, <2>1, NewTurnTree
<1>6. /\ Len(turn') = Len(bs)
      /\ \A u \in 1 .. Len(bs) : turn'[u].session = bs[u].session /\ turn'[u].parent = bs[u].parent
  BY <1>4 DEF Switched
<1> HIDE DEF bs
<1>7. /\ Len(turn) <= Len(turn')
      /\ \A u \in 1 .. Len(turn) : /\ turn'[u].session = turn[u].session
                                   /\ turn'[u].parent = turn[u].parent
  BY <1>2, <1>3, <1>6
<1>8. \A x \in Sessions : head[x] # 0 => head'[x] # 0
  <2>1. head' = [head EXCEPT ![s] = Len(turn) + 1]
    BY <1>1
  <2> QED
    BY <1>2, <2>1
<1> QED
  BY <1>5, <1>7, <1>8 DEF Grown, Keeps

LEMMA UndoStepTree ==
  ASSUME Tree(turn, head), Flags(turn, head), Newest(turn), NEW s \in Sessions, Undo(s)
  PROVE  Grown(turn, head, turn', head')
<1> DEFINE p == turn[head[s]].parent
<1>1. head[s] # 0 /\ p # 0 /\ head' = [head EXCEPT ![s] = p]
  BY DEF Undo, Live
<1>2. turn' = ActivePath(turn, head[s], p, TRUE)
  BY DEF Undo, UndoneTurns
<1>3. Switched(turn, turn', p, {head[s]})
  <2>1. Table(turn)
    BY DEF Tree
  <2>2. Switched(turn, ActivePath(turn, head[s], p, TRUE), p, {head[s]})
    BY <2>1, ActivePathOff
  <2> QED
    BY <1>2, <2>2, Zenon
<1> HIDE <1>2
<1>4. Tree(turn', head') /\ Flags(turn', head') /\ Newest(turn')
  BY <1>1, <1>3, UndoTree
<1>5. Keeps(turn, head, turn', head')
  <2>1. Len(turn) <= Len(turn')
    BY <1>3, TreeFacts DEF Switched
  <2>2. \A x \in Sessions : head[x] # 0 => head'[x] # 0
    BY <1>1 DEF Tree
  <2> QED
    BY <1>3, <2>1, <2>2 DEF Keeps, Switched
<1> QED
  BY <1>4, <1>5 DEF Grown

LEMMA NewestChildFacts ==
  ASSUME Tree(turn, head), NEW t \in 0 .. Len(turn), NewestChild(t) # 0
  PROVE  /\ t # 0 /\ NewestChild(t) \in 1 .. Len(turn) /\ turn[NewestChild(t)].parent = t
         /\ \A v \in 1 .. Len(turn) : turn[v].parent = t => v <= NewestChild(t)
<1> DEFINE children == {u \in Turns : turn[u].parent = t}
<1>1. t # 0 /\ children # {} /\ NewestChild(t) = Max(children)
  BY DEF NewestChild
<1>2. Len(turn) \in Nat /\ children \subseteq 0 .. Len(turn)
  BY TreeFacts DEF Turns
<1>3. Max(children) \in children /\ \A v \in children : v <= Max(children)
  <2> HIDE DEF children
  <2> QED
    BY <1>1, <1>2, MaxFacts
<1> QED
  BY <1>1, <1>3 DEF Turns

LEMMA RedoStepTree ==
  ASSUME Tree(turn, head), Flags(turn, head), Newest(turn), NEW s \in Sessions, Redo(s)
  PROVE  Grown(turn, head, turn', head')
<1> DEFINE c == NewestChild(head[s])
<1>1. head[s] # 0 /\ c # 0 /\ head' = [head EXCEPT ![s] = c]
  BY DEF Redo, Live
<1>2. turn' = ActivePath(turn, head[s], c, FALSE)
  BY DEF Redo
<1>3. head[s] \in 0 .. Len(turn) /\ Table(turn)
  BY TreeFacts
<1>4. /\ c \in 1 .. Len(turn) /\ turn[c].parent = head[s]
      /\ \A v \in 1 .. Len(turn) : turn[v].parent = head[s] => v <= c
  BY <1>1, <1>3, NewestChildFacts
<1> HIDE DEF c
<1>5. Switched(turn, turn', c, {})
  <2>1. Switched(turn, ActivePath(turn, head[s], c, FALSE), c, {})
    BY <1>3, ActivePathOn
  <2> QED
    BY <1>2, <2>1, Zenon
<1> HIDE <1>2
<1>6. Tree(turn', head') /\ Flags(turn', head') /\ Newest(turn')
  BY <1>1, <1>4, <1>5, RedoTree
<1>7. Keeps(turn, head, turn', head')
  <2>1. Len(turn) <= Len(turn')
    BY <1>5, TreeFacts DEF Switched
  <2>2. \A x \in Sessions : head[x] # 0 => head'[x] # 0
    BY <1>1, <1>4 DEF Tree
  <2> QED
    BY <1>5, <2>1, <2>2 DEF Keeps, Switched
<1> QED
  BY <1>6, <1>7 DEF Grown

LEMMA MigrateTree ==
  ASSUME Tree(turn, head), Unopened, Migrate
  PROVE  Grown(turn, head, turn', head') /\ Flags(turn', head') /\ Newest(turn')
<1>1. /\ ~ migrated /\ \A u \in Turns : turn[u].parent = u - 1
      /\ turn = << >> \/ \A i \in DOMAIN msg : head[msg[i].session] # 0
  BY DEF Unopened, Migrate
<1>2. PICK s \in Sessions :
        \/ /\ Rootless = {s} /\ head' = [head EXCEPT ![s] = Len(turn) + 1]
           /\ turn' = Append(turn, Turn(s, 0))
        \/ /\ turn' = [u \in Turns |-> [turn[u] EXCEPT !.active = u \in OnSomePath]]
           /\ head' = head
  BY DEF Migrate
<1>3. CASE /\ Rootless = {s} /\ head' = [head EXCEPT ![s] = Len(turn) + 1]
           /\ turn' = Append(turn, Turn(s, 0))
  <2>1. head[s] = 0 /\ turn = << >>
    BY <1>1, <1>3 DEF Rootless
  <2>2. Flags(turn, head) /\ Newest(turn)
    BY <2>1 DEF Flags, Newest
  <2>3. Tree(turn', head') /\ Flags(turn', head') /\ Newest(turn')
    <3>1. Rooted(turn, head, s, turn', head')
      BY <1>3, <2>1 DEF Rooted
    <3> QED
      BY <2>2, <3>1, NewRootTree
  <2>4. Len(turn) = 0 /\ Len(turn') \in Nat
    BY <2>1, <2>3, TreeFacts
  <2>5. Keeps(turn, head, turn', head')
    BY <1>3, <2>4, TreeFacts DEF Keeps
  <2> QED
    BY <2>3, <2>5 DEF Grown
<1>4. CASE /\ turn' = [u \in Turns |-> [turn[u] EXCEPT !.active = u \in OnSomePath]]
           /\ head' = head
  <2> DEFINE A == OnSomePath
  <2>2. turn' = [u \in 1 .. Len(turn) |-> [turn[u] EXCEPT !.active = u \in A]]
    BY <1>4, Zenon DEF Turns
  <2>3. \A u \in 1 .. Len(turn) :
          u \in A <=> \E x \in Sessions : u = head[x] \/ u \in Line(turn, head[x])
    BY DEF OnSomePath, Chain, Up, Line, Turns
  <2> HIDE DEF A
  <2>4. Table(turn)
    BY TreeFacts
  <2>5. Reflagged(turn, turn', A)
    BY <2>2, <2>4, ReflaggedFacts, Zenon
  <2>6. Tree(turn', head) /\ Flags(turn', head) /\ Newest(turn') /\ Len(turn') = Len(turn)
    <3>1. \A u \in 1 .. Len(turn) : turn[u].parent = u - 1
      BY <1>1 DEF Turns
    <3> HIDE <1>4, <2>2
    <3> QED
      BY <2>3, <2>5, <3>1, RebuiltTree
  <2>7. Keeps(turn, head, turn', head)
    <3> HIDE <1>4, <2>2
    <3>1. Len(turn) <= Len(turn')
      BY <2>6, TreeFacts
    <3> QED
      BY <2>5, <3>1 DEF Keeps, Reflagged
  <2>8. head' = head
    BY <1>4
  <2> HIDE <1>4, <2>2
  <2> QED
    BY <2>6, <2>7, <2>8 DEF Grown
<1> QED
  BY <1>2, <1>3, <1>4

-----------------------------------------------------------------------------
(* Messages *)

\* What the steps that change messages, turns or heads are.
Writes(s) ==
  \/ \E p \in Sessions \cup {NoSession} : Create(s, p)
  \/ AppendUser(s) \/ AppendItem(s) \/ SavePartial(s) \/ ClearPartial(s)
  \/ \E keep \in KeepCounts : Compact(s, keep)
  \/ Uncompact(s) \/ Undo(s) \/ Redo(s)
  \/ \E copy \in Sessions : Fork(s, copy)
Calm == UNCHANGED <<uses, migrated, head, parent, turn, msg, lastId, visible, compactions>>

LEMMA MessageSteps ==
  ASSUME [Next]_vars
  PROVE  Calm \/ Migrate \/ \E s \in Sessions : Writes(s)
<1> USE DEF messageVars, sessionVars
<1>1. CASE UNCHANGED vars
  BY <1>1 DEF Calm, vars
<1>2. CASE Migrate
  BY <1>2
<1>3. CASE ReadNextPage \/ StopReading
  BY <1>3 DEF Calm, ReadNextPage, StopReading
<1>4. ASSUME NEW s \in Sessions,
             \/ ReadFirstPage(s) \/ Delete(s)
             \/ \E f \in Files : BeginTool(s, f)
             \/ \E content \in 0 .. 2 * MaxTools + 2, posted \in BOOLEAN :
                  EndTool(s, content, posted)
             \/ \E status \in {"active", "candidate"} : Remember(s, status)
      PROVE  Calm
  <2>1. CASE ReadFirstPage(s) \/ Delete(s)
    BY <2>1 DEF Calm, ReadFirstPage, Delete
  <2>2. CASE \E f \in Files : BeginTool(s, f)
    BY <2>2 DEF Calm, BeginTool
  <2>3. CASE \E content \in 0 .. 2 * MaxTools + 2, posted \in BOOLEAN :
               EndTool(s, content, posted)
    BY <2>3 DEF Calm, EndTool
  <2>4. CASE \E status \in {"active", "candidate"} : Remember(s, status)
    BY <2>4 DEF Calm, Remember
  <2> QED
    BY <1>4, <2>1, <2>2, <2>3, <2>4
<1>5. CASE \E i \in DOMAIN memory, status \in {"active", "deleted"} : SetStatus(i, status)
  BY <1>5 DEF Calm, SetStatus
<1> QED
  BY <1>1, <1>2, <1>3, <1>4, <1>5 DEF Next, Writes

\* They run on a database that has been opened, and keep the client in the picture.
LEMMA WritesFacts ==
  ASSUME NEW s \in Sessions, Writes(s)
  PROVE  migrated /\ migrated' = migrated /\ uses' = uses /\ Watch
BY DEF Writes, Uses, Create, AppendUser, AppendItem, SavePartial, ClearPartial, Compact,
       Uncompact, Undo, Redo, Fork, sessionVars

\* The tree after them.
LEMMA WritesTree ==
  ASSUME TreeInv, NEW s \in Sessions, Writes(s)
  PROVE  /\ Keeps(turn, head, turn', head') /\ Tree(turn', head')
         /\ Flags(turn', head') /\ Newest(turn')
<1>1. Tree(turn, head) /\ Flags(turn, head) /\ Newest(turn)
  BY WritesFacts, PathIsFlags DEF TreeInv
<1>2. ASSUME UNCHANGED <<turn, head>>
      PROVE  Grown(turn, head, turn', head')
  BY <1>1, <1>2, TreeFacts DEF Grown, Keeps
<1>3. CASE AppendItem(s) \/ SavePartial(s) \/ ClearPartial(s) \/ Uncompact(s)
           \/ \E keep \in KeepCounts : Compact(s, keep)
  <2>1. UNCHANGED <<turn, head>>
    BY <1>3 DEF AppendItem, SavePartial, ClearPartial, Uncompact, Compact, sessionVars
  <2> QED
    BY <1>1, <1>2, <2>1 DEF Grown
<1>4. CASE \E p \in Sessions \cup {NoSession} : Create(s, p)
  <2>1. PICK p : NewSession(s, p)
    BY <1>4 DEF Create
  <2> QED
    BY <1>1, <2>1, NewSessionTree DEF Grown
<1>5. CASE \E copy \in Sessions : Fork(s, copy)
  <2>1. PICK copy \in Sessions : NewSession(copy, s)
    BY <1>5 DEF Fork
  <2> QED
    BY <1>1, <2>1, NewSessionTree DEF Grown
<1>6. CASE AppendUser(s)
  BY <1>1, <1>6, AppendUserTree DEF Grown
<1>7. CASE Undo(s)
  BY <1>1, <1>7, UndoStepTree DEF Grown
<1>8. CASE Redo(s)
  BY <1>1, <1>8, RedoStepTree DEF Grown
<1> QED
  BY <1>3, <1>4, <1>5, <1>6, <1>7, <1>8 DEF Writes

LEMMA SeqMonotone ==
  ASSUME NEW S, NEW T, S \subseteq T
  PROVE  Seq(S) \subseteq Seq(T)
BY SeqMonotonic

LEMMA RowFacts ==
  ASSUME NEW s, NEW t, NEW k
  PROVE  /\ Row(s, t, k).session = s /\ Row(s, t, k).turn = t /\ Row(s, t, k).kind = k
         /\ ~ Row(s, t, k).hidden /\ ~ Row(s, t, k).partial
         /\ Row(s, t, k).hidden \in BOOLEAN /\ Row(s, t, k).partial \in BOOLEAN
BY DEF Row

\* A row that was not there.
NewRow(i) ==
  /\ i \in lastId + 1 .. lastId' /\ msg'[i] \in Rows'
  /\ head'[msg'[i].session] # 0
  /\ msg'[i].turn # 0 => turn'[msg'[i].turn].session = msg'[i].session
  /\ msg'[i].partial => msg'[i].kind = "item"
  /\ msg'[i].hidden => parent'[msg'[i].session] # NoSession

\* Rows come and go, and none that stays changes.
RowsStay ==
  /\ migrated /\ migrated' /\ uses' = uses /\ compactions' = compactions
  /\ lastId' \in lastId .. MaxMessages[uses] /\ DOMAIN msg' \subseteq 1 .. lastId'
  /\ \A i \in DOMAIN msg' : \/ i \in DOMAIN msg /\ msg'[i] = msg[i]
                            \/ NewRow(i)
  /\ \A i \in DOMAIN msg \ DOMAIN msg' : msg[i].partial
  /\ visible' \subseteq DOMAIN msg'
  /\ \A s \in Sessions : parent'[s] = parent[s] \/ head[s] = 0

LEMMA MessageFacts ==
  ASSUME MessageShape
  PROVE  /\ lastId \in Nat /\ DOMAIN msg \subseteq 1 .. lastId
         /\ \A i \in DOMAIN msg : /\ msg[i].session \in Sessions /\ i \in 1 .. lastId
                                  /\ msg[i].turn \in 0 .. Len(turn)
                                  /\ msg[i].kind \in {"user", "item", "summary"}
         /\ \A s \in Sessions : /\ compactions[s] \in Seq(SUBSET (1 .. lastId))
                                /\ Len(compactions[s]) \in Nat
                                /\ DOMAIN compactions[s] = 1 .. Len(compactions[s])
                                /\ \A k \in DOMAIN compactions[s] :
                                     compactions[s][k] \subseteq 1 .. lastId
<1>1. lastId \in Nat /\ DOMAIN msg \subseteq 1 .. lastId
  BY DEF MessageShape
<1>2. \A i \in DOMAIN msg : /\ msg[i].session \in Sessions /\ i \in 1 .. lastId
                            /\ msg[i].turn \in 0 .. Len(turn)
                            /\ msg[i].kind \in {"user", "item", "summary"}
  BY <1>1 DEF MessageShape, Rows
<1>3. ASSUME NEW s \in Sessions
      PROVE  /\ compactions[s] \in Seq(SUBSET (1 .. lastId))
             /\ Len(compactions[s]) \in Nat
             /\ DOMAIN compactions[s] = 1 .. Len(compactions[s])
             /\ \A k \in DOMAIN compactions[s] : compactions[s][k] \subseteq 1 .. lastId
  <2>1. compactions[s] \in Seq(SUBSET (1 .. lastId))
    BY DEF MessageShape
  <2>2. /\ Len(compactions[s]) \in Nat /\ DOMAIN compactions[s] = 1 .. Len(compactions[s])
        /\ \A k \in 1 .. Len(compactions[s]) : compactions[s][k] \in SUBSET (1 .. lastId)
    BY <2>1, LenProperties, ElementOfSeq
  <2> QED
    BY <2>1, <2>2
<1> QED
  BY <1>1, <1>2, <1>3

\* Record lists stay typed when more ids are given.
LEMMA RecordTypes ==
  ASSUME MessageShape, compactions' = compactions, lastId' \in lastId .. MaxMessages[uses]
  PROVE  compactions' \in [Sessions -> Seq(SUBSET (1 .. lastId'))]
<1>1. SUBSET (1 .. lastId) \subseteq SUBSET (1 .. lastId')
  <2>1. lastId \in Nat
    BY MessageFacts
  <2> QED
    BY <2>1
<1>2. Seq(SUBSET (1 .. lastId)) \subseteq Seq(SUBSET (1 .. lastId'))
  BY <1>1, SeqMonotone
<1> QED
  BY <1>2 DEF MessageShape

LEMMA RowsStayInv ==
  ASSUME MessageInv, Tree(turn, head), Keeps(turn, head, turn', head'), RowsStay,
         Tree(turn', head')
  PROVE  MessageInv'
<1>1. /\ MessageShape /\ Recorded /\ Recoverable
      /\ \A i \in DOMAIN msg : /\ msg[i].turn # 0 => turn[msg[i].turn].session = msg[i].session
                               /\ head[msg[i].session] # 0
  BY DEF MessageInv, RowsStay
<1>2. /\ lastId \in Nat /\ DOMAIN msg \subseteq 1 .. lastId
      /\ \A i \in DOMAIN msg : /\ msg[i].session \in Sessions /\ i \in 1 .. lastId
                               /\ msg[i].turn \in 0 .. Len(turn)
      /\ \A s \in Sessions : \A k \in DOMAIN compactions[s] :
           compactions[s][k] \subseteq 1 .. lastId
  BY <1>1, MessageFacts
<1>3. /\ uses' = uses /\ compactions' = compactions /\ migrated'
      /\ lastId' \in lastId .. MaxMessages[uses] /\ DOMAIN msg' \subseteq 1 .. lastId'
      /\ \A i \in DOMAIN msg' : \/ i \in DOMAIN msg /\ msg'[i] = msg[i]
                                \/ NewRow(i)
      /\ \A i \in DOMAIN msg \ DOMAIN msg' : msg[i].partial
      /\ visible' \subseteq DOMAIN msg'
      /\ \A s \in Sessions : parent'[s] = parent[s] \/ head[s] = 0
  BY DEF RowsStay
<1>4. /\ Len(turn) \in Nat /\ Len(turn') \in Nat /\ Len(turn) <= Len(turn')
      /\ \A s \in Sessions : head[s] # 0 => head'[s] # 0
      /\ \A u \in 1 .. Len(turn) : turn'[u].session = turn[u].session
  BY TreeFacts DEF Keeps
<1>5. \A i \in DOMAIN msg' : i \in 1 .. lastId => i \in DOMAIN msg /\ msg'[i] = msg[i]
  <2>1. \A i \in DOMAIN msg' : NewRow(i) => i \notin 1 .. lastId
    BY <1>2 DEF NewRow
  <2> QED
    BY <1>3, <2>1
<1>6. MessageShape'
  <2>1. compactions' \in [Sessions -> Seq(SUBSET (1 .. lastId'))]
    BY <1>1, <1>3, RecordTypes
  <2>2. Rows \subseteq Rows'
    BY <1>4 DEF Rows
  <2>3. ASSUME NEW i \in DOMAIN msg'
        PROVE  msg'[i] \in Rows'
    <3>1. CASE i \in DOMAIN msg /\ msg'[i] = msg[i]
      BY <1>1, <2>2, <3>1 DEF MessageShape
    <3>2. CASE NewRow(i)
      BY <3>2 DEF NewRow
    <3> QED
      BY <1>3, <3>1, <3>2
  <2>4. lastId' \in 0 .. MaxMessages[uses'] /\ uses' \in Profiles
    BY <1>1, <1>2, <1>3 DEF MessageShape
  <2> QED
    BY <1>3, <2>1, <2>3, <2>4 DEF MessageShape
<1>7. ASSUME NEW i \in DOMAIN msg'
      PROVE  /\ msg'[i].turn # 0 => turn'[msg'[i].turn].session = msg'[i].session
             /\ head'[msg'[i].session] # 0
  <2>1. CASE i \in DOMAIN msg /\ msg'[i] = msg[i]
    <3>1. msg[i].turn # 0 => msg[i].turn \in 1 .. Len(turn)
      BY <1>2, <1>4, <2>1
    <3> QED
      BY <1>1, <1>2, <1>4, <2>1, <3>1
  <2>2. CASE NewRow(i)
    BY <2>2 DEF NewRow
  <2> QED
    BY <1>3, <2>1, <2>2
<1>8. Recorded'
  <2>1. \A s \in Sessions : \A k \in DOMAIN compactions[s] :
          \A i \in compactions[s][k] \cap DOMAIN msg' : i \in DOMAIN msg /\ msg'[i] = msg[i]
    BY <1>2, <1>5
  <2>2. \A i \in DOMAIN msg' : msg'[i].partial => msg'[i].kind = "item"
    BY <1>1, <1>3 DEF Recorded, NewRow
  <2>3. \A i \in DOMAIN msg : msg[i].kind = "summary" => i \in DOMAIN msg' /\ msg'[i] = msg[i]
    <3>1. \A i \in DOMAIN msg : msg[i].kind = "summary" => ~ msg[i].partial
      BY <1>1 DEF Recorded
    <3> QED
      BY <1>2, <1>3, <1>5, <3>1
  <2>4. \A s \in Sessions : \A k \in DOMAIN compactions[s] :
          \A i \in compactions[s][k] \cap DOMAIN msg' :
            msg'[i].session = s /\ (msg'[i].hidden \/ msg'[i].kind = "summary")
    BY <1>1, <2>1 DEF Recorded
  <2>5. \A s \in Sessions : \A k, l \in DOMAIN compactions[s] :
          \A i \in compactions[s][k] \cap compactions[s][l] :
            k = l \/ (i \in DOMAIN msg' /\ msg'[i].kind = "summary")
    BY <1>1, <2>3 DEF Recorded
  <2> QED
    BY <1>3, <2>2, <2>4, <2>5 DEF Recorded
<1>9. Recoverable'
  <2> SUFFICES ASSUME NEW s \in Sessions, parent'[s] = NoSession, "legacy" \notin uses,
                      NEW i \in DOMAIN msg', msg'[i].session = s, msg'[i].hidden,
                      msg'[i].kind # "summary"
               PROVE  \E k \in DOMAIN compactions[s] : i \in compactions[s][k]
    BY <1>3 DEF Recoverable
  <2>1. i \in DOMAIN msg /\ msg'[i] = msg[i]
    BY <1>3 DEF NewRow
  <2>2. parent[s] = NoSession
    BY <1>1, <1>3, <2>1
  <2> QED
    BY <1>1, <2>1, <2>2 DEF Recoverable
<1> QED
  BY <1>6, <1>7, <1>8, <1>9 DEF MessageInv

-----------------------------------------------------------------------------
(* Steps that store, drop or show messages *)

\* The projection after a step is right if each visible row is.
Showing(rows, ts, shown) == shown = {i \in DOMAIN rows : Qualifies(rows[i], ts)}

LEMMA ProjectedIsShowing ==
  ASSUME migrated
  PROVE  Projected <=> Showing(msg, turn, visible)
BY DEF Projected, Showing

\* A row whose turn keeps its flag stays as it was.
LEMMA SameFlags ==
  ASSUME NEW row, NEW ts, NEW us,
         row.turn # 0 => (us[row.turn].active <=> ts[row.turn].active)
  PROVE  Qualifies(row, us) <=> Qualifies(row, ts)
BY DEF Qualifies

\* One row more.
LEMMA InsertFacts ==
  ASSUME MessageShape, NEW row, NEW ts, Insert(row, ts)
  PROVE  /\ lastId' = lastId + 1 /\ lastId' \in lastId .. MaxMessages[uses]
         /\ lastId' \notin DOMAIN msg /\ DOMAIN msg' = DOMAIN msg \cup {lastId'}
         /\ DOMAIN msg' \subseteq 1 .. lastId'
         /\ msg'[lastId'] = row /\ \A i \in DOMAIN msg : msg'[i] = msg[i]
         /\ visible' = AfterInsert(visible, lastId', row, ts)
         /\ visible' \subseteq DOMAIN msg'
<1>1. lastId \in Nat /\ DOMAIN msg \subseteq 1 .. lastId /\ lastId \in 0 .. MaxMessages[uses]
  BY MessageFacts DEF MessageShape
<1>2. MaxMessages[uses] \in Nat
  BY HistoryAssumption DEF MessageShape
<1>3. lastId' = lastId + 1 /\ lastId < MaxMessages[uses]
  BY DEF Insert
<1>4. /\ msg' = [i \in DOMAIN msg \cup {lastId'} |-> IF i = lastId' THEN row ELSE msg[i]]
      /\ visible' = AfterInsert(visible, lastId', row, ts)
  BY DEF Insert
<1>5. lastId' \notin DOMAIN msg
  BY <1>1, <1>3
<1>6. /\ DOMAIN msg' = DOMAIN msg \cup {lastId'} /\ msg'[lastId'] = row
      /\ \A i \in DOMAIN msg : msg'[i] = msg[i]
  BY <1>4, <1>5
<1>7. visible' \subseteq DOMAIN msg'
  BY <1>4, <1>6 DEF AfterInsert, MessageShape
<1>8. DOMAIN msg' \subseteq 1 .. lastId'
  BY <1>1, <1>3, <1>6
<1>9. lastId' \in lastId .. MaxMessages[uses]
  BY <1>1, <1>2, <1>3
<1> QED
  BY <1>3, <1>4, <1>5, <1>6, <1>7, <1>8, <1>9

\* The projection follows.
LEMMA InsertShows ==
  ASSUME NEW rows, NEW shown, NEW ts, NEW us, NEW id, NEW row, NEW rows1,
         Showing(rows, ts, shown), id \notin DOMAIN rows,
         DOMAIN rows1 = DOMAIN rows \cup {id}, rows1[id] = row,
         \A i \in DOMAIN rows : rows1[i] = rows[i],
         \A i \in DOMAIN rows : Qualifies(rows[i], us) <=> Qualifies(rows[i], ts)
  PROVE  Showing(rows1, us, AfterInsert(shown, id, row, us))
<1>1. CASE Qualifies(row, us)
  <2>1. AfterInsert(shown, id, row, us) = shown \cup {id}
    BY <1>1 DEF AfterInsert
  <2> QED
    BY <1>1, <2>1 DEF Showing
<1>2. CASE ~ Qualifies(row, us)
  <2>1. AfterInsert(shown, id, row, us) = shown
    BY <1>2 DEF AfterInsert
  <2> QED
    BY <1>2, <2>1 DEF Showing
<1> QED
  BY <1>1, <1>2

\* Turns change their flags.
LEMMA PathShows ==
  ASSUME NEW rows, NEW shown, NEW ts, NEW us, Showing(rows, ts, shown),
         \A i \in DOMAIN rows : rows[i].turn # 0 => rows[i].turn \in DOMAIN ts
  PROVE  Showing(rows, us, AfterPath(shown, rows, ts, us))
<1> DEFINE moved == {i \in DOMAIN rows :
                       /\ rows[i].turn \in DOMAIN ts
                       /\ ts[rows[i].turn].active # us[rows[i].turn].active}
<1>1. AfterPath(shown, rows, ts, us) =
        (shown \ moved) \cup {i \in moved : Qualifies(rows[i], us)}
  BY DEF AfterPath
<1>2. \A i \in DOMAIN rows \ moved : Qualifies(rows[i], us) <=> Qualifies(rows[i], ts)
  <2> SUFFICES ASSUME NEW i \in DOMAIN rows, i \notin moved
               PROVE  Qualifies(rows[i], us) <=> Qualifies(rows[i], ts)
    OBVIOUS
  <2>1. rows[i].turn # 0 => ts[rows[i].turn].active = us[rows[i].turn].active
    OBVIOUS
  <2> HIDE DEF moved
  <2> QED
    BY <2>1 DEF Qualifies
<1>3. moved \subseteq DOMAIN rows
  OBVIOUS
<1> HIDE DEF moved
<1> QED
  BY <1>1, <1>2, <1>3 DEF Showing

\* The messages' part and the projection.
HistoryInv == MessageInv /\ Showing(msg, turn, visible)

LEMMA CreateHistory ==
  ASSUME HistoryInv, TreeInv, NEW s \in Sessions, NEW p, Create(s, p)
  PROVE  HistoryInv'
<1>1. /\ Tree(turn, head) /\ NewSession(s, p) /\ migrated /\ migrated' = migrated
      /\ uses' = uses /\ UNCHANGED messageVars
  BY DEF TreeInv, Create, Uses
<1>2. /\ Keeps(turn, head, turn', head') /\ Tree(turn', head')
  BY <1>1, NewSessionTree DEF Grown
<1>3. RowsStay
  <2>1. /\ lastId' = lastId /\ msg' = msg /\ visible' = visible /\ compactions' = compactions
    BY <1>1 DEF messageVars
  <2>2. lastId \in lastId .. MaxMessages[uses] /\ DOMAIN msg \subseteq 1 .. lastId
        /\ visible \subseteq DOMAIN msg
    BY DEF HistoryInv, MessageInv, MessageShape
  <2>3. \A x \in Sessions : parent'[x] = parent[x] \/ head[x] = 0
    BY <1>1 DEF NewSession
  <2> QED
    BY <1>1, <2>1, <2>2, <2>3 DEF RowsStay
<1>4. MessageInv'
  BY <1>1, <1>2, <1>3, RowsStayInv DEF HistoryInv
<1>5. Showing(msg', turn', visible')
  <2>1. turn' = Append(turn, Turn(s, 0)) /\ Table(turn) /\ 0 \in 0 .. Len(turn)
    BY <1>1, TreeFacts DEF NewSession
  <2>2. \A u \in 1 .. Len(turn) : turn'[u] = turn[u]
    BY <2>1, AppendTurn
  <2>3. \A i \in DOMAIN msg : msg[i].turn # 0 => msg[i].turn \in 1 .. Len(turn)
    BY MessageFacts, TreeFacts, <1>1 DEF HistoryInv, MessageInv
  <2>4. \A i \in DOMAIN msg : Qualifies(msg[i], turn') <=> Qualifies(msg[i], turn)
    BY <2>2, <2>3, SameFlags
  <2>5. msg' = msg /\ visible' = visible
    BY <1>1 DEF messageVars
  <2> QED
    BY <2>4, <2>5 DEF HistoryInv, Showing
<1> QED
  BY <1>4, <1>5 DEF HistoryInv

\* A row on the new or the present head.
LEMMA InsertHistory ==
  ASSUME HistoryInv, Tree(turn, head), Tree(turn', head'),
         Keeps(turn, head, turn', head'), migrated, migrated' = migrated, uses' = uses,
         compactions' = compactions, parent' = parent,
         \A u \in 1 .. Len(turn) : turn'[u].active <=> turn[u].active,
         NEW s \in Sessions, head'[s] # 0, NEW k \in {"user", "item", "summary"},
         Insert(Row(s, head'[s], k), turn')
  PROVE  HistoryInv'
<1> DEFINE row == Row(s, head'[s], k)
<1>1. /\ lastId' = lastId + 1 /\ lastId' \in lastId .. MaxMessages[uses]
      /\ lastId' \notin DOMAIN msg /\ DOMAIN msg' = DOMAIN msg \cup {lastId'}
      /\ DOMAIN msg' \subseteq 1 .. lastId'
      /\ msg'[lastId'] = row /\ \A i \in DOMAIN msg : msg'[i] = msg[i]
      /\ visible' = AfterInsert(visible, lastId', row, turn')
      /\ visible' \subseteq DOMAIN msg'
  BY InsertFacts DEF HistoryInv, MessageInv
<1>2. /\ row.session = s /\ row.turn = head'[s] /\ row.kind = k
      /\ ~ row.hidden /\ ~ row.partial
      /\ row.hidden \in BOOLEAN /\ row.partial \in BOOLEAN
      /\ row = [session |-> s, turn |-> head'[s], kind |-> k,
                hidden |-> row.hidden, partial |-> row.partial]
  BY RowFacts DEF Row
<1>3. head'[s] \in 1 .. Len(turn') /\ turn'[head'[s]].session = s
  BY TreeFacts
<1> HIDE DEF row
<1>4. row \in Rows'
  BY <1>2, <1>3 DEF Rows
<1>5. NewRow(lastId')
  <2>1. lastId' \in lastId + 1 .. lastId'
    BY <1>1, MessageFacts DEF HistoryInv, MessageInv
  <2> QED
    BY <1>1, <1>2, <1>3, <1>4, <2>1 DEF NewRow
<1>6. RowsStay
  BY <1>1, <1>5 DEF RowsStay
<1>7. MessageInv'
  BY <1>6, RowsStayInv DEF HistoryInv
<1>8. \A i \in DOMAIN msg : Qualifies(msg[i], turn') <=> Qualifies(msg[i], turn)
  <2>1. \A i \in DOMAIN msg : msg[i].turn # 0 => msg[i].turn \in 1 .. Len(turn)
    BY MessageFacts, TreeFacts DEF HistoryInv, MessageInv
  <2> QED
    BY <2>1, SameFlags
<1>9. Showing(msg', turn', visible')
  <2>1. Showing(msg, turn, visible)
    BY DEF HistoryInv
  <2> QED
    BY <1>1, <1>8, <2>1, InsertShows
<1> QED
  BY <1>7, <1>9 DEF HistoryInv

LEMMA AppendUserHistory ==
  ASSUME HistoryInv, TreeInv, NEW s \in Sessions, AppendUser(s)
  PROVE  HistoryInv'
<1> DEFINE bs == Append(turn, Turn(s, head[s]))
<1>1. /\ migrated /\ migrated' = migrated /\ uses' = uses /\ compactions' = compactions
      /\ parent' = parent /\ head[s] # 0
      /\ turn' = ActivePath(bs, head[s], Len(turn) + 1, FALSE)
      /\ head' = [head EXCEPT ![s] = Len(turn) + 1]
      /\ Insert(Row(s, Len(turn) + 1, "user"), turn')
  BY DEF AppendUser, Live, Uses
<1>2. /\ Tree(turn, head) /\ Keeps(turn, head, turn', head') /\ Tree(turn', head')
  <2>1. Writes(s)
    BY DEF Writes
  <2> QED
    BY <2>1, WritesTree DEF TreeInv
<1>3. /\ Table(turn) /\ Len(turn) \in Nat /\ head[s] \in 0 .. Len(turn)
      /\ turn[head[s]].session = s
  BY <1>1, <1>2, TreeFacts
<1>4. /\ Table(bs) /\ Len(bs) = Len(turn) + 1 /\ \A u \in 1 .. Len(turn) : bs[u] = turn[u]
  BY <1>3, AppendTurn
<1>5. Switched(bs, turn', Len(turn) + 1, {})
  <2> HIDE DEF bs
  <2>1. Switched(bs, ActivePath(bs, head[s], Len(turn) + 1, FALSE), Len(turn) + 1, {})
    BY <1>4, ActivePathOn
  <2> QED
    BY <1>1, <2>1, Zenon
<1> HIDE DEF bs
<1>6. head'[s] = Len(turn) + 1
  <2>1. head' = [head EXCEPT ![s] = Len(turn) + 1]
    BY <1>1
  <2> QED
    BY <1>2, <2>1 DEF Tree
<1>7. /\ migrated /\ migrated' = migrated /\ uses' = uses /\ compactions' = compactions
      /\ parent' = parent /\ Insert(Row(s, head'[s], "user"), turn')
  BY <1>1, <1>6
<1>8. \A u \in 1 .. Len(turn) : turn'[u].active <=> turn[u].active
  <2> HIDE <1>1
  <2> QED
    BY <1>3, <1>4, <1>5 DEF Switched
<1>9. head'[s] # 0
  BY <1>3, <1>6
<1> HIDE <1>1
<1> QED
  BY <1>2, <1>7, <1>8, <1>9, InsertHistory

LEMMA AppendItemHistory ==
  ASSUME HistoryInv, TreeInv, NEW s \in Sessions, AppendItem(s)
  PROVE  HistoryInv'
<1>1. /\ migrated /\ migrated' = migrated /\ uses' = uses /\ compactions' = compactions
      /\ parent' = parent /\ head'[s] # 0 /\ turn' = turn
      /\ Insert(Row(s, head'[s], "item"), turn')
  BY DEF AppendItem, Uses, sessionVars
<1>2. /\ Tree(turn, head) /\ Keeps(turn, head, turn', head') /\ Tree(turn', head')
  <2>1. Writes(s)
    BY DEF Writes
  <2> QED
    BY <2>1, WritesTree DEF TreeInv
<1> QED
  BY <1>1, <1>2, InsertHistory

LEMMA PathHistory ==
  ASSUME HistoryInv, TreeInv, NEW s \in Sessions, Undo(s) \/ Redo(s)
  PROVE  HistoryInv'
<1>1. /\ migrated /\ migrated' = migrated /\ uses' = uses /\ compactions' = compactions
      /\ parent' = parent /\ msg' = msg /\ lastId' = lastId
      /\ visible' = AfterPath(visible, msg, turn, turn')
  BY DEF Undo, Redo, Uses
<1>2. /\ Tree(turn, head) /\ Keeps(turn, head, turn', head') /\ Tree(turn', head')
  <2>1. Writes(s)
    BY DEF Writes
  <2> QED
    BY <2>1, WritesTree DEF TreeInv
<1>3. \A i \in DOMAIN msg : msg[i].turn # 0 => msg[i].turn \in DOMAIN turn
  BY <1>2, MessageFacts, TreeFacts DEF HistoryInv, MessageInv
<1>4. Showing(msg, turn', visible')
  BY <1>1, <1>3, PathShows DEF HistoryInv
<1>5. RowsStay
  <2>1. lastId \in lastId .. MaxMessages[uses] /\ DOMAIN msg \subseteq 1 .. lastId
    BY DEF HistoryInv, MessageInv, MessageShape
  <2>2. visible' \subseteq DOMAIN msg
    BY <1>4 DEF Showing
  <2> QED
    BY <1>1, <2>1, <2>2 DEF RowsStay
<1>6. MessageInv'
  BY <1>2, <1>5, RowsStayInv DEF HistoryInv
<1> QED
  BY <1>1, <1>4, <1>6 DEF HistoryInv

LEMMA ClearPartialHistory ==
  ASSUME HistoryInv, TreeInv, NEW s \in Sessions, ClearPartial(s)
  PROVE  HistoryInv'
<1> DEFINE D == DOMAIN msg \ Partials(s)
<1>1. /\ migrated /\ migrated' = migrated /\ uses' = uses /\ compactions' = compactions
      /\ parent' = parent /\ lastId' = lastId /\ turn' = turn /\ head' = head
      /\ msg' = Restrict(msg, D) /\ visible' = visible \ Partials(s)
  BY DEF ClearPartial, Uses, sessionVars
<1>2. /\ Tree(turn, head) /\ Keeps(turn, head, turn', head') /\ Tree(turn', head')
  <2>1. Writes(s)
    BY DEF Writes
  <2> QED
    BY <2>1, WritesTree DEF TreeInv
<1>3. DOMAIN msg' = D /\ \A i \in D : msg'[i] = msg[i]
  BY <1>1 DEF Restrict
<1>4. \A i \in DOMAIN msg \ D : msg[i].partial
  BY DEF Partials
<1>5. /\ lastId \in lastId .. MaxMessages[uses] /\ DOMAIN msg \subseteq 1 .. lastId
      /\ visible \subseteq DOMAIN msg
  BY DEF HistoryInv, MessageInv, MessageShape
<1>6. RowsStay
  <2>1. visible' \subseteq DOMAIN msg'
    BY <1>1, <1>3, <1>5
  <2> QED
    BY <1>1, <1>3, <1>4, <1>5, <2>1 DEF RowsStay
<1>7. MessageInv'
  BY <1>2, <1>6, RowsStayInv DEF HistoryInv
<1>8. Showing(msg', turn', visible')
  <2>1. visible = {i \in DOMAIN msg : Qualifies(msg[i], turn)}
    BY DEF HistoryInv, Showing
  <2>2. turn' = turn /\ visible' = visible \cap D
    BY <1>1, <1>5
  <2> HIDE DEF D
  <2> QED
    BY <1>3, <2>1, <2>2, D \subseteq DOMAIN msg DEF Showing, D
<1> QED
  BY <1>7, <1>8 DEF HistoryInv

LEMMA PartialRowFacts ==
  ASSUME NEW s, NEW row, row = [Row(s, 0, "item") EXCEPT !.partial = TRUE]
  PROVE  /\ row.session = s /\ row.turn = 0 /\ row.kind = "item"
         /\ ~ row.hidden /\ row.partial
         /\ row.hidden \in BOOLEAN /\ row.partial \in BOOLEAN
         /\ row = [session |-> s, turn |-> 0, kind |-> "item",
                   hidden |-> row.hidden, partial |-> row.partial]
<1>1. PICK q \in BOOLEAN : q = TRUE
  OBVIOUS
<1>2. row = [Row(s, 0, "item") EXCEPT !.partial = q]
  BY <1>1
<1>3. /\ row.session = s /\ row.turn = 0 /\ row.kind = "item"
      /\ ~ row.hidden /\ row.hidden \in BOOLEAN /\ row.partial = q
      /\ row = [session |-> s, turn |-> 0, kind |-> "item",
                hidden |-> row.hidden, partial |-> row.partial]
  <2> HIDE <1>1
  <2> QED
    BY <1>2 DEF Row
<1> QED
  BY <1>1, <1>3, Zenon

LEMMA SavePartialHistory ==
  ASSUME HistoryInv, TreeInv, NEW s \in Sessions, SavePartial(s)
  PROVE  HistoryInv'
<1> DEFINE D == DOMAIN msg \ Partials(s)
           row == [Row(s, 0, "item") EXCEPT !.partial = TRUE]
<1>1. /\ migrated /\ migrated' = migrated /\ uses' = uses /\ compactions' = compactions
      /\ parent' = parent /\ lastId' = lastId + 1 /\ turn' = turn /\ head' = head
      /\ head[s] # 0 /\ lastId < MaxMessages[uses]
      /\ msg' = [i \in D \cup {lastId'} |-> IF i = lastId' THEN row ELSE msg[i]]
      /\ visible' = AfterInsert(visible \ Partials(s), lastId', row, turn)
  BY DEF SavePartial, Uses, sessionVars
<1>2. /\ Tree(turn, head) /\ Keeps(turn, head, turn', head') /\ Tree(turn', head')
  <2>1. Writes(s)
    BY DEF Writes
  <2> QED
    BY <2>1, WritesTree DEF TreeInv
<1>3. /\ row.session = s /\ row.turn = 0 /\ row.kind = "item"
      /\ ~ row.hidden /\ row.partial
      /\ row.hidden \in BOOLEAN /\ row.partial \in BOOLEAN
      /\ row = [session |-> s, turn |-> 0, kind |-> "item",
                hidden |-> row.hidden, partial |-> row.partial]
  BY PartialRowFacts, Zenon
<1>4. ~ Qualifies(row, turn)
  <2> HIDE DEF row
  <2> QED
    BY <1>3 DEF Qualifies
<1>5. /\ lastId \in Nat /\ DOMAIN msg \subseteq 1 .. lastId /\ visible \subseteq DOMAIN msg
      /\ lastId \in 0 .. MaxMessages[uses] /\ MaxMessages[uses] \in Nat
  BY MessageFacts, HistoryAssumption DEF HistoryInv, MessageInv, MessageShape
<1> HIDE DEF row
<1>6. /\ lastId' \notin D /\ DOMAIN msg' = D \cup {lastId'} /\ msg'[lastId'] = row
      /\ \A i \in D : msg'[i] = msg[i]
  BY <1>1, <1>5
<1>7. visible' = visible \ Partials(s)
  BY <1>1, <1>4 DEF AfterInsert
<1>8. NewRow(lastId')
  <2>1. row \in Rows'
    <3>1. 0 \in 0 .. Len(turn')
      BY <1>2, TreeFacts
    <3> QED
      BY <1>3, <3>1 DEF Rows
  <2> QED
    BY <1>1, <1>3, <1>5, <1>6, <2>1 DEF NewRow
<1>9. RowsStay
  <2>1. \A i \in DOMAIN msg \ D : msg[i].partial
    BY DEF Partials
  <2>2. visible' \subseteq DOMAIN msg'
    BY <1>5, <1>6, <1>7
  <2>3. DOMAIN msg' \subseteq 1 .. lastId' /\ lastId' \in lastId .. MaxMessages[uses]
    BY <1>1, <1>5, <1>6
  <2> HIDE DEF D
  <2>4. \A i \in DOMAIN msg \ DOMAIN msg' : msg[i].partial
    BY <1>6, <2>1
  <2>5. \A i \in DOMAIN msg' : (i \in DOMAIN msg /\ msg'[i] = msg[i]) \/ NewRow(i)
    BY <1>6, <1>8, D \subseteq DOMAIN msg DEF D
  <2> QED
    BY <1>1, <2>2, <2>3, <2>4, <2>5 DEF RowsStay
<1>10. MessageInv'
  BY <1>2, <1>9, RowsStayInv DEF HistoryInv
<1>11. Showing(msg', turn', visible')
  <2>1. visible = {i \in DOMAIN msg : Qualifies(msg[i], turn)}
    BY DEF HistoryInv, Showing
  <2>2. turn' = turn /\ visible' = visible \cap D /\ D \subseteq DOMAIN msg
    BY <1>1, <1>5, <1>7
  <2> HIDE DEF D
  <2> QED
    BY <1>4, <1>6, <2>1, <2>2 DEF Showing
<1> QED
  BY <1>10, <1>11 DEF HistoryInv

-----------------------------------------------------------------------------
(* Compaction *)

\* Rows of which only the hidden flags change: taken from H, given to G.
Veiled(ms, ns, H, G) ==
  /\ DOMAIN ns = DOMAIN ms
  /\ \A i \in DOMAIN ms :
       /\ ns[i] \in Rows /\ ns[i].session = ms[i].session /\ ns[i].turn = ms[i].turn
       /\ ns[i].kind = ms[i].kind
       /\ ns[i].partial <=> ms[i].partial
       /\ ns[i].hidden <=> (i \in G \/ (i \notin H /\ ms[i].hidden))
       /\ i \notin H \cup G => ns[i] = ms[i]

LEMMA HiddenRow ==
  ASSUME NEW r \in Rows, NEW q \in BOOLEAN, NEW row, row = [r EXCEPT !.hidden = q]
  PROVE  /\ row \in Rows /\ row.session = r.session /\ row.turn = r.turn
         /\ row.kind = r.kind
         /\ row.partial <=> r.partial
         /\ row.hidden <=> q
BY DEF Rows

LEMMA HideFacts ==
  ASSUME \A i \in DOMAIN msg : msg[i] \in Rows, NEW ids, NEW flag \in BOOLEAN
  PROVE  /\ DOMAIN Hide(ids, flag) = DOMAIN msg
         /\ \A i \in DOMAIN msg :
              LET row == Hide(ids, flag)[i]
              IN  /\ row \in Rows /\ row.session = msg[i].session /\ row.turn = msg[i].turn
                  /\ row.kind = msg[i].kind
                  /\ row.partial <=> msg[i].partial
                  /\ row.hidden <=> ((i \in ids /\ flag) \/ (i \notin ids /\ msg[i].hidden))
                  /\ i \notin ids => row = msg[i]
<1>1. DOMAIN Hide(ids, flag) = DOMAIN msg
  BY DEF Hide
<1>2. ASSUME NEW i \in DOMAIN msg
      PROVE  LET row == Hide(ids, flag)[i]
             IN  /\ row \in Rows /\ row.session = msg[i].session /\ row.turn = msg[i].turn
                 /\ row.kind = msg[i].kind
                 /\ row.partial <=> msg[i].partial
                 /\ row.hidden <=> ((i \in ids /\ flag) \/ (i \notin ids /\ msg[i].hidden))
                 /\ i \notin ids => row = msg[i]
  <2> DEFINE row == Hide(ids, flag)[i]
  <2>1. CASE i \in ids
    <3>1. row = [msg[i] EXCEPT !.hidden = flag]
      BY <2>1 DEF Hide
    <3>2. msg[i] \in Rows
      OBVIOUS
    <3> HIDE DEF row
    <3>3. /\ row \in Rows /\ row.session = msg[i].session /\ row.turn = msg[i].turn
          /\ row.kind = msg[i].kind
          /\ row.partial <=> msg[i].partial
          /\ row.hidden <=> flag
      BY <3>1, <3>2, HiddenRow
    <3> HIDE <3>1
    <3>4. /\ row \in Rows /\ row.session = msg[i].session /\ row.turn = msg[i].turn
          /\ row.kind = msg[i].kind
          /\ row.partial <=> msg[i].partial
          /\ row.hidden <=> ((i \in ids /\ flag) \/ (i \notin ids /\ msg[i].hidden))
          /\ i \notin ids => row = msg[i]
      BY <2>1, <3>3, Zenon
    <3> QED
      BY <3>4 DEF row
  <2>2. CASE i \notin ids
    <3>1. row = msg[i]
      BY <2>2 DEF Hide
    <3> HIDE DEF row
    <3>2. /\ row \in Rows /\ row.session = msg[i].session /\ row.turn = msg[i].turn
          /\ row.kind = msg[i].kind
          /\ row.partial <=> msg[i].partial
          /\ row.hidden <=> ((i \in ids /\ flag) \/ (i \notin ids /\ msg[i].hidden))
          /\ i \notin ids => row = msg[i]
      BY <2>2, <3>1, Zenon
    <3> QED
      BY <3>2 DEF row
  <2> QED
    BY <2>1, <2>2
<1> QED
  BY <1>1, <1>2

LEMMA HideOn ==
  ASSUME \A i \in DOMAIN msg : msg[i] \in Rows, NEW ids
  PROVE  Veiled(msg, Hide(ids, TRUE), {}, ids)
<1>1. PICK q \in BOOLEAN : q = TRUE
  OBVIOUS
<1>2. Hide(ids, TRUE) = Hide(ids, q)
  BY <1>1
<1>3. q
  BY <1>1
<1> DEFINE ns == Hide(ids, q)
<1>4. /\ DOMAIN ns = DOMAIN msg
      /\ \A i \in DOMAIN msg :
           /\ ns[i] \in Rows /\ ns[i].session = msg[i].session /\ ns[i].turn = msg[i].turn
           /\ ns[i].kind = msg[i].kind
           /\ ns[i].partial <=> msg[i].partial
           /\ ns[i].hidden <=> ((i \in ids /\ q) \/ (i \notin ids /\ msg[i].hidden))
           /\ i \notin ids => ns[i] = msg[i]
  BY HideFacts
<1> HIDE DEF ns
<1> HIDE <1>1, <1>2
<1>5. Veiled(msg, ns, {}, ids)
  BY <1>3, <1>4 DEF Veiled
<1> QED
  BY <1>2, <1>5, Zenon DEF ns

LEMMA HideOff ==
  ASSUME \A i \in DOMAIN msg : msg[i] \in Rows, NEW ids
  PROVE  Veiled(msg, Hide(ids, FALSE), ids, {})
<1>1. PICK q \in BOOLEAN : q = FALSE
  OBVIOUS
<1>2. Hide(ids, FALSE) = Hide(ids, q)
  BY <1>1
<1>3. ~ q
  BY <1>1
<1> DEFINE ns == Hide(ids, q)
<1>4. /\ DOMAIN ns = DOMAIN msg
      /\ \A i \in DOMAIN msg :
           /\ ns[i] \in Rows /\ ns[i].session = msg[i].session /\ ns[i].turn = msg[i].turn
           /\ ns[i].kind = msg[i].kind
           /\ ns[i].partial <=> msg[i].partial
           /\ ns[i].hidden <=> ((i \in ids /\ q) \/ (i \notin ids /\ msg[i].hidden))
           /\ i \notin ids => ns[i] = msg[i]
  BY HideFacts
<1> HIDE DEF ns
<1> HIDE <1>1, <1>2
<1>5. Veiled(msg, ns, ids, {})
  BY <1>3, <1>4 DEF Veiled
<1> QED
  BY <1>2, <1>5, Zenon DEF ns

LEMMA UpdateShows ==
  ASSUME NEW rows, NEW shown, NEW ts, NEW ids, NEW ns, Showing(rows, ts, shown),
         ids \subseteq DOMAIN rows, DOMAIN ns = DOMAIN rows,
         \A i \in DOMAIN rows : i \notin ids => ns[i] = rows[i]
  PROVE  Showing(ns, ts, AfterUpdate(shown, ids, ns, ts))
BY DEF Showing, AfterUpdate

\* The records after one more.
LEMMA OneMoreRecord ==
  ASSUME MessageShape, NEW s \in Sessions, NEW ids \in SUBSET (1 .. lastId),
         compactions' = [compactions EXCEPT ![s] = Append(@, ids)],
         lastId' \in lastId .. MaxMessages[uses]
  PROVE  /\ compactions' \in [Sessions -> Seq(SUBSET (1 .. lastId'))]
         /\ \A x \in Sessions : x # s => compactions'[x] = compactions[x]
         /\ DOMAIN compactions[s] = 1 .. Len(compactions[s]) /\ Len(compactions[s]) \in Nat
         /\ DOMAIN compactions'[s] = 1 .. Len(compactions[s]) + 1
         /\ compactions'[s][Len(compactions[s]) + 1] = ids
         /\ \A k \in 1 .. Len(compactions[s]) : compactions'[s][k] = compactions[s][k]
<1>1. compactions \in [Sessions -> Seq(SUBSET (1 .. lastId))]
  BY DEF MessageShape
<1>2. /\ compactions'[s] = Append(compactions[s], ids)
      /\ \A x \in Sessions : x # s => compactions'[x] = compactions[x]
      /\ DOMAIN compactions' = Sessions /\ compactions' = [x \in Sessions |-> compactions'[x]]
  BY <1>1
<1>3. SUBSET (1 .. lastId) \subseteq SUBSET (1 .. lastId')
  <2>1. lastId \in Nat
    BY MessageFacts
  <2> QED
    BY <2>1
<1>4. Seq(SUBSET (1 .. lastId)) \subseteq Seq(SUBSET (1 .. lastId'))
  BY <1>3, SeqMonotone
<1>5. compactions[s] \in Seq(SUBSET (1 .. lastId))
  BY <1>1
<1>6. /\ compactions'[s] \in Seq(SUBSET (1 .. lastId))
      /\ DOMAIN compactions[s] = 1 .. Len(compactions[s]) /\ Len(compactions[s]) \in Nat
      /\ DOMAIN compactions'[s] = 1 .. Len(compactions[s]) + 1
      /\ compactions'[s][Len(compactions[s]) + 1] = ids
      /\ \A k \in 1 .. Len(compactions[s]) : compactions'[s][k] = compactions[s][k]
  <2> DEFINE S == SUBSET (1 .. lastId)
             q == compactions[s]
  <2>1. q \in Seq(S) /\ ids \in S
    BY <1>5
  <2> HIDE DEF S, q
  <2>2. /\ Append(q, ids) \in Seq(S) /\ DOMAIN Append(q, ids) = 1 .. Len(q) + 1
        /\ DOMAIN q = 1 .. Len(q) /\ Append(q, ids)[Len(q) + 1] = ids
        /\ \A k \in 1 .. Len(q) : Append(q, ids)[k] = q[k]
        /\ Len(q) \in Nat
    BY <2>1, OneMore
  <2> QED
    BY <1>2, <2>2 DEF S, q
<1>7. \A x \in Sessions : compactions'[x] \in Seq(SUBSET (1 .. lastId'))
  BY <1>1, <1>2, <1>4, <1>6
<1> QED
  BY <1>2, <1>6, <1>7

LEMMA CompactHistory ==
  ASSUME HistoryInv, TreeInv, NEW s \in Sessions, NEW keep \in KeepCounts, Compact(s, keep)
  PROVE  HistoryInv'
<1> DEFINE ids == Compacted(s, keep)
           ns == Hide(ids, TRUE)
           row == Row(s, head[s], "summary")
           n == Len(compactions[s])
<1>1. /\ migrated /\ migrated' = migrated /\ uses' = uses
      /\ parent' = parent /\ turn' = turn /\ head' = head /\ head[s] # 0
      /\ lastId' = lastId + 1 /\ lastId < MaxMessages[uses]
      /\ compactions' = [compactions EXCEPT ![s] = Append(@, ids)]
  BY DEF Compact, Uses, Live, sessionVars
<1>2. /\ msg' = [i \in DOMAIN msg \cup {lastId'} |-> IF i = lastId' THEN row ELSE ns[i]]
      /\ visible' = AfterInsert(AfterUpdate(visible, ids, ns, turn), lastId', row, turn)
  BY DEF Compact
<1>3. /\ MessageShape /\ Recorded /\ Recoverable /\ Tree(turn, head)
      /\ \A i \in DOMAIN msg : /\ msg[i].turn # 0 => turn[msg[i].turn].session = msg[i].session
                               /\ head[msg[i].session] # 0
      /\ Showing(msg, turn, visible)
  BY <1>1 DEF HistoryInv, MessageInv, TreeInv
<1>4. Veiled(msg, ns, {}, ids)
  <2>1. \A i \in DOMAIN msg : msg[i] \in Rows
    BY <1>3 DEF MessageShape
  <2> QED
    BY <2>1, HideOn
<1>5. ids \subseteq DOMAIN msg /\ \A i \in ids : msg[i].session = s /\ ~ msg[i].hidden
  BY DEF Compacted
<1>6. /\ row.session = s /\ row.turn = head[s] /\ row.kind = "summary"
      /\ ~ row.hidden /\ ~ row.partial
      /\ row.hidden \in BOOLEAN /\ row.partial \in BOOLEAN
      /\ row = [session |-> s, turn |-> head[s], kind |-> "summary",
                hidden |-> row.hidden, partial |-> row.partial]
  BY RowFacts DEF Row
<1> HIDE DEF ns, row, ids
<1>7. /\ lastId \in Nat /\ lastId \in 0 .. MaxMessages[uses] /\ MaxMessages[uses] \in Nat
      /\ DOMAIN msg \subseteq 1 .. lastId
      /\ \A i \in DOMAIN msg : msg[i].session \in Sessions
  BY <1>3, MessageFacts, HistoryAssumption DEF MessageShape
<1>8. /\ lastId' \notin DOMAIN msg /\ DOMAIN msg' = DOMAIN msg \cup {lastId'}
      /\ msg'[lastId'] = row /\ \A i \in DOMAIN msg : msg'[i] = ns[i]
      /\ lastId' \in lastId .. MaxMessages[uses] /\ DOMAIN msg' \subseteq 1 .. lastId'
      /\ DOMAIN ns = DOMAIN msg
  BY <1>1, <1>2, <1>4, <1>7 DEF Veiled
<1>9. \A i \in DOMAIN msg :
        /\ msg'[i] \in Rows /\ msg'[i].session = msg[i].session
        /\ msg'[i].turn = msg[i].turn /\ msg'[i].kind = msg[i].kind
        /\ msg'[i].partial <=> msg[i].partial
        /\ msg'[i].hidden <=> (i \in ids \/ msg[i].hidden)
        /\ i \notin ids => msg'[i] = msg[i]
  BY <1>4, <1>8 DEF Veiled
<1>10. /\ compactions' \in [Sessions -> Seq(SUBSET (1 .. lastId'))]
       /\ \A x \in Sessions : x # s => compactions'[x] = compactions[x]
       /\ DOMAIN compactions[s] = 1 .. n /\ n \in Nat
       /\ DOMAIN compactions'[s] = 1 .. n + 1
       /\ compactions'[s][n + 1] = ids
       /\ \A k \in 1 .. n : compactions'[s][k] = compactions[s][k]
  <2>1. ids \in SUBSET (1 .. lastId)
    BY <1>5, <1>7
  <2> QED
    BY <1>1, <1>3, <1>8, <2>1, OneMoreRecord
<1>11. Showing(msg', turn', visible')
  <2>1. Showing(ns, turn, AfterUpdate(visible, ids, ns, turn))
    BY <1>3, <1>4, <1>5, UpdateShows DEF Veiled
  <2> QED
    BY <1>1, <1>2, <1>8, <2>1, InsertShows
<1>12. MessageShape'
  <2>1. row \in Rows
    <3>1. head[s] \in 0 .. Len(turn)
      BY <1>3, TreeFacts
    <3> QED
      BY <1>6, <3>1 DEF Rows
  <2>2. Rows' = Rows
    BY <1>1 DEF Rows
  <2>3. \A i \in DOMAIN msg' : msg'[i] \in Rows
    BY <1>8, <1>9, <2>1
  <2>4. visible' \subseteq DOMAIN msg'
    BY <1>11 DEF Showing
  <2>5. uses' \in Profiles /\ lastId' \in 0 .. MaxMessages[uses']
    BY <1>1, <1>3, <1>7, <1>8 DEF MessageShape
  <2> QED
    BY <1>8, <1>10, <2>2, <2>3, <2>4, <2>5 DEF MessageShape
<1>13. ASSUME NEW i \in DOMAIN msg'
       PROVE  /\ msg'[i].turn # 0 => turn'[msg'[i].turn].session = msg'[i].session
              /\ head'[msg'[i].session] # 0
  <2>1. CASE i = lastId'
    BY <1>1, <1>3, <1>6, <1>8, <2>1, TreeFacts
  <2>2. CASE i \in DOMAIN msg
    BY <1>1, <1>3, <1>9, <2>2
  <2> QED
    BY <1>8, <2>1, <2>2
<1>14. \A i \in DOMAIN msg : \A x \in Sessions : \A k \in DOMAIN compactions[x] :
         i \in compactions[x][k] =>
           /\ msg[i].session = x /\ (msg[i].hidden \/ msg[i].kind = "summary")
  BY <1>3 DEF Recorded
<1>15. \A x \in Sessions : \A k \in DOMAIN compactions'[x] :
         \/ k \in DOMAIN compactions[x] /\ compactions'[x][k] = compactions[x][k]
         \/ x = s /\ k = n + 1 /\ compactions'[x][k] = ids
  BY <1>10
<1>16. \A x \in Sessions : \A k \in DOMAIN compactions[x] :
         lastId' \notin compactions[x][k]
  <2>1. \A x \in Sessions : \A k \in DOMAIN compactions[x] :
          compactions[x][k] \subseteq 1 .. lastId
    BY <1>3, MessageFacts
  <2> QED
    BY <1>1, <1>7, <2>1
<1>17. Recorded'
  <2>1. ASSUME NEW x \in Sessions, NEW k \in DOMAIN compactions'[x],
               NEW i \in compactions'[x][k] \cap DOMAIN msg'
        PROVE  msg'[i].session = x /\ (msg'[i].hidden \/ msg'[i].kind = "summary")
    <3>1. CASE i \in ids /\ x = s
      BY <1>5, <1>9, <3>1
    <3>2. CASE k \in DOMAIN compactions[x] /\ i \in compactions[x][k]
      <4>1. i \in DOMAIN msg
        BY <1>8, <1>16, <3>2
      <4> QED
        BY <1>9, <1>14, <3>2, <4>1
    <3> QED
      BY <1>15, <3>1, <3>2
  <2>2. \A i \in DOMAIN msg' : msg'[i].partial => msg'[i].kind = "item"
    <3>1. \A i \in DOMAIN msg : msg[i].partial => msg[i].kind = "item"
      BY <1>3 DEF Recorded
    <3> QED
      BY <1>6, <1>8, <1>9, <3>1
  <2>3. ASSUME NEW x \in Sessions, NEW k \in DOMAIN compactions'[x],
               NEW l \in DOMAIN compactions'[x],
               NEW i \in compactions'[x][k] \cap compactions'[x][l]
        PROVE  k = l \/ (i \in DOMAIN msg' /\ msg'[i].kind = "summary")
    <3>1. CASE /\ k \in DOMAIN compactions[x] /\ i \in compactions[x][k]
               /\ l \in DOMAIN compactions[x] /\ i \in compactions[x][l]
      <4>1. k = l \/ (i \in DOMAIN msg /\ msg[i].kind = "summary")
        BY <1>3, <3>1 DEF Recorded
      <4> QED
        BY <1>8, <1>9, <4>1
    <3>2. ASSUME i \in ids, x = s, NEW m \in DOMAIN compactions[s], i \in compactions[s][m]
          PROVE  i \in DOMAIN msg' /\ msg'[i].kind = "summary"
      BY <1>5, <1>8, <1>9, <1>14, <3>2
    <3>3. CASE k = n + 1 /\ l = n + 1
      BY <3>3
    <3> QED
      BY <1>15, <3>1, <3>2, <3>3
  <2> QED
    BY <2>1, <2>2, <2>3 DEF Recorded
<1>18. Recoverable'
  <2> SUFFICES ASSUME NEW x \in Sessions, parent[x] = NoSession, "legacy" \notin uses,
                      NEW i \in DOMAIN msg', msg'[i].session = x, msg'[i].hidden,
                      msg'[i].kind # "summary"
               PROVE  \E k \in DOMAIN compactions'[x] : i \in compactions'[x][k]
    BY <1>1 DEF Recoverable
  <2>1. i \in DOMAIN msg
    BY <1>6, <1>8
  <2>2. CASE i \in ids
    <3>1. x = s
      BY <1>5, <1>9, <2>1, <2>2
    <3>2. n + 1 \in DOMAIN compactions'[s] /\ i \in compactions'[s][n + 1]
      BY <1>10, <2>2
    <3> QED
      BY <3>1, <3>2
  <2>3. CASE i \notin ids
    <3>1. msg[i].hidden /\ msg[i].session = x /\ msg[i].kind # "summary"
      BY <1>9, <2>1, <2>3
    <3>2. PICK k \in DOMAIN compactions[x] : i \in compactions[x][k]
      BY <1>3, <2>1, <3>1 DEF Recoverable
    <3>3. k \in DOMAIN compactions'[x] /\ compactions'[x][k] = compactions[x][k]
      BY <1>10, <3>2, SMTT(30)
    <3> QED
      BY <3>2, <3>3
  <2> QED
    BY <2>2, <2>3
<1> QED
  BY <1>11, <1>12, <1>13, <1>17, <1>18 DEF HistoryInv, MessageInv

\* The records after the newest is taken back.
LEMMA OneLessRecord ==
  ASSUME MessageShape, NEW s \in Sessions, compactions[s] # << >>,
         compactions' = [compactions EXCEPT ![s] = Front(@)]
  PROVE  /\ compactions' \in [Sessions -> Seq(SUBSET (1 .. lastId))]
         /\ \A x \in Sessions : x # s => compactions'[x] = compactions[x]
         /\ Len(compactions[s]) \in Nat \ {0}
         /\ DOMAIN compactions[s] = 1 .. Len(compactions[s])
         /\ Last(compactions[s]) = compactions[s][Len(compactions[s])]
         /\ DOMAIN compactions'[s] = 1 .. Len(compactions[s]) - 1
         /\ \A k \in 1 .. Len(compactions[s]) - 1 : compactions'[s][k] = compactions[s][k]
<1> DEFINE S == SUBSET (1 .. lastId)
<1>1. compactions \in [Sessions -> Seq(S)]
  BY DEF MessageShape
<1> HIDE DEF S
<1>2. /\ compactions'[s] = Front(compactions[s])
      /\ \A x \in Sessions : x # s => compactions'[x] = compactions[x]
      /\ DOMAIN compactions' = Sessions /\ compactions' = [x \in Sessions |-> compactions'[x]]
  BY <1>1
<1> DEFINE q == compactions[s]
<1>3. q \in Seq(S) /\ q # << >>
  BY <1>1
<1> HIDE DEF q
<1>4. /\ Front(q) \in Seq(S) /\ DOMAIN Front(q) = 1 .. Len(q) - 1 /\ DOMAIN q = 1 .. Len(q)
      /\ \A k \in 1 .. Len(q) - 1 : Front(q)[k] = q[k]
      /\ Len(q) \in Nat \ {0} /\ Last(q) = q[Len(q)]
  BY <1>3, AllButLast
<1>5. \A x \in Sessions : compactions'[x] \in Seq(S)
  BY <1>1, <1>2, <1>4 DEF q
<1>6. compactions' \in [Sessions -> Seq(S)]
  BY <1>2, <1>5
<1> QED
  BY <1>2, <1>4, <1>6 DEF q, S

LEMMA LastSummaryFacts ==
  ASSUME MessageShape, NEW s \in Sessions
  PROVE  /\ LastSummary(s) \subseteq DOMAIN msg
         /\ \A i \in LastSummary(s) : msg[i].session = s /\ msg[i].kind = "summary"
<1> DEFINE rows == {i \in DOMAIN msg : msg[i].session = s /\ msg[i].kind = "summary"}
<1>1. CASE rows = {}
  BY <1>1 DEF LastSummary
<1>2. CASE rows # {}
  <2>1. LastSummary(s) = {Max(rows)}
    BY <1>2 DEF LastSummary
  <2>2. lastId \in Nat /\ rows \subseteq 0 .. lastId
    BY MessageFacts
  <2>3. Max(rows) \in rows
    <3> HIDE DEF rows
    <3> QED
      BY <1>2, <2>2, MaxFacts
  <2> QED
    BY <2>1, <2>3
<1> QED
  BY <1>1, <1>2

\* A row hidden again, or left as it is.
LEMMA HiddenAgain ==
  ASSUME NEW r \in Rows, NEW row, row = [r EXCEPT !.hidden = TRUE]
  PROVE  /\ row \in Rows /\ row.session = r.session /\ row.turn = r.turn
         /\ row.kind = r.kind
         /\ row.partial <=> r.partial
         /\ row.hidden
<1>1. PICK q \in BOOLEAN : q = TRUE
  OBVIOUS
<1>2. row = [r EXCEPT !.hidden = q] /\ q
  BY <1>1
<1> HIDE <1>1
<1>3. /\ row \in Rows /\ row.session = r.session /\ row.turn = r.turn
      /\ row.kind = r.kind
      /\ row.partial <=> r.partial
      /\ row.hidden <=> q
  BY <1>2, HiddenRow
<1> QED
  BY <1>2, <1>3, Zenon

LEMMA UncompactRows ==
  ASSUME HistoryInv, NEW s \in Sessions, Uncompact(s)
  PROVE  Veiled(msg, msg', Last(compactions[s]) \cap DOMAIN msg, LastSummary(s))
<1> DEFINE ids == Last(compactions[s]) \cap DOMAIN msg
           rs == Hide(ids, FALSE)
<1>1. msg' = [i \in DOMAIN msg |->
                IF i \in LastSummary(s) THEN [rs[i] EXCEPT !.hidden = TRUE] ELSE rs[i]]
  BY DEF Uncompact
<1>2. Veiled(msg, rs, ids, {})
  <2>1. \A i \in DOMAIN msg : msg[i] \in Rows
    BY DEF HistoryInv, MessageInv, MessageShape
  <2> HIDE DEF ids
  <2> QED
    BY <2>1, HideOff
<1> HIDE DEF ids, rs
<1>3. ASSUME NEW i \in DOMAIN msg
      PROVE  /\ msg'[i] \in Rows /\ msg'[i].session = msg[i].session
             /\ msg'[i].turn = msg[i].turn /\ msg'[i].kind = msg[i].kind
             /\ msg'[i].partial <=> msg[i].partial
             /\ msg'[i].hidden <=> (i \in LastSummary(s) \/ (i \notin ids /\ msg[i].hidden))
             /\ i \notin ids \cup LastSummary(s) => msg'[i] = msg[i]
  <2>1. /\ rs[i] \in Rows /\ rs[i].session = msg[i].session /\ rs[i].turn = msg[i].turn
        /\ rs[i].kind = msg[i].kind
        /\ rs[i].partial <=> msg[i].partial
        /\ rs[i].hidden <=> (i \notin ids /\ msg[i].hidden)
        /\ i \notin ids => rs[i] = msg[i]
    BY <1>2 DEF Veiled
  <2>2. CASE i \in LastSummary(s)
    <3>1. msg'[i] = [rs[i] EXCEPT !.hidden = TRUE]
      BY <1>1, <2>2, Zenon
    <3>2. rs[i] \in Rows
      BY <2>1
    <3>3. /\ msg'[i] \in Rows /\ msg'[i].session = rs[i].session
          /\ msg'[i].turn = rs[i].turn /\ msg'[i].kind = rs[i].kind
          /\ msg'[i].partial <=> rs[i].partial
          /\ msg'[i].hidden
      BY <3>1, <3>2, HiddenAgain, Zenon
    <3> HIDE <1>1, <3>1
    <3> QED
      BY <2>1, <2>2, <3>3
  <2>3. CASE i \notin LastSummary(s)
    <3>1. msg'[i] = rs[i]
      BY <1>1, <2>3, Zenon
    <3> HIDE <1>1
    <3> QED
      BY <2>1, <2>3, <3>1
  <2> QED
    BY <2>2, <2>3
<1>4. DOMAIN msg' = DOMAIN msg
  BY <1>1, Zenon
<1> HIDE <1>1
<1>5. Veiled(msg, msg', ids, LastSummary(s))
  BY <1>3, <1>4 DEF Veiled
<1> QED
  BY <1>5 DEF ids

LEMMA UncompactHistory ==
  ASSUME HistoryInv, TreeInv, NEW s \in Sessions, Uncompact(s)
  PROVE  HistoryInv'
<1> DEFINE ids == Last(compactions[s]) \cap DOMAIN msg
           n == Len(compactions[s])
<1>1. /\ migrated /\ migrated' = migrated /\ uses' = uses
      /\ parent' = parent /\ turn' = turn /\ head' = head /\ lastId' = lastId
      /\ compactions[s] # << >> /\ compactions' = [compactions EXCEPT ![s] = Front(@)]
      /\ visible' = AfterUpdate(visible, ids \cup LastSummary(s), msg', turn)
  BY DEF Uncompact, Uses, sessionVars
<1>2. /\ MessageShape /\ Recorded /\ Recoverable
      /\ \A i \in DOMAIN msg : /\ msg[i].turn # 0 => turn[msg[i].turn].session = msg[i].session
                               /\ head[msg[i].session] # 0
      /\ Showing(msg, turn, visible)
  BY <1>1 DEF HistoryInv, MessageInv
<1>3. /\ DOMAIN msg' = DOMAIN msg
      /\ \A i \in DOMAIN msg :
           /\ msg'[i] \in Rows /\ msg'[i].session = msg[i].session
           /\ msg'[i].turn = msg[i].turn /\ msg'[i].kind = msg[i].kind
           /\ msg'[i].partial <=> msg[i].partial
           /\ msg'[i].hidden <=> (i \in LastSummary(s) \/ (i \notin ids /\ msg[i].hidden))
           /\ i \notin ids \cup LastSummary(s) => msg'[i] = msg[i]
  BY UncompactRows DEF Veiled
<1>4. /\ ids \subseteq DOMAIN msg /\ LastSummary(s) \subseteq DOMAIN msg
      /\ \A i \in LastSummary(s) : msg[i].session = s /\ msg[i].kind = "summary"
  BY <1>2, LastSummaryFacts
<1>5. /\ compactions' \in [Sessions -> Seq(SUBSET (1 .. lastId))]
      /\ \A x \in Sessions : x # s => compactions'[x] = compactions[x]
      /\ n \in Nat \ {0} /\ DOMAIN compactions[s] = 1 .. n
      /\ ids = compactions[s][n] \cap DOMAIN msg
      /\ DOMAIN compactions'[s] = 1 .. n - 1
      /\ \A k \in 1 .. n - 1 : compactions'[s][k] = compactions[s][k]
  BY <1>1, <1>2, OneLessRecord
<1> HIDE DEF ids, n
<1>6. Showing(msg', turn', visible')
  <2>1. ids \cup LastSummary(s) \subseteq DOMAIN msg
    BY <1>4
  <2>2. Showing(msg', turn, AfterUpdate(visible, ids \cup LastSummary(s), msg', turn))
    BY <1>2, <1>3, <2>1, UpdateShows
  <2> QED
    BY <1>1, <2>2
<1>7. MessageShape'
  <2>1. Rows' = Rows
    BY <1>1 DEF Rows
  <2>2. visible' \subseteq DOMAIN msg'
    BY <1>6 DEF Showing
  <2> QED
    BY <1>1, <1>2, <1>3, <1>5, <2>1, <2>2 DEF MessageShape
<1>8. \A i \in DOMAIN msg' : /\ msg'[i].turn # 0 => turn'[msg'[i].turn].session = msg'[i].session
                             /\ head'[msg'[i].session] # 0
  BY <1>1, <1>2, <1>3
<1>9. \A x \in Sessions : \A k \in DOMAIN compactions'[x] :
        /\ k \in DOMAIN compactions[x] /\ compactions'[x][k] = compactions[x][k]
        /\ x = s => k # n
  BY <1>5
<1>10. Recorded'
  <2>1. ASSUME NEW x \in Sessions, NEW k \in DOMAIN compactions'[x],
               NEW i \in compactions'[x][k] \cap DOMAIN msg'
        PROVE  msg'[i].session = x /\ (msg'[i].hidden \/ msg'[i].kind = "summary")
    <3>1. k \in DOMAIN compactions[x] /\ i \in compactions[x][k] \cap DOMAIN msg
      BY <1>3, <1>9
    <3>2. msg[i].session = x /\ (msg[i].hidden \/ msg[i].kind = "summary")
      BY <1>2, <3>1 DEF Recorded
    <3>3. CASE i \in ids
      <4>1. x = s
        <5>1. n \in DOMAIN compactions[s] /\ i \in compactions[s][n] \cap DOMAIN msg
          BY <1>5, <3>3
        <5>2. msg[i].session = s
          BY <1>2, <5>1 DEF Recorded
        <5> QED
          BY <3>2, <5>2
      <4>2. n \in DOMAIN compactions[x] /\ i \in compactions[x][n] /\ k # n
        BY <1>5, <1>9, <3>3, <4>1
      <4>3. msg[i].kind = "summary"
        BY <1>2, <3>1, <4>2 DEF Recorded
      <4> QED
        BY <1>3, <3>1, <3>2, <4>3
    <3>4. CASE i \notin ids
      BY <1>3, <3>1, <3>2, <3>4
    <3> QED
      BY <3>3, <3>4
  <2>2. \A i \in DOMAIN msg' : msg'[i].partial => msg'[i].kind = "item"
    BY <1>2, <1>3 DEF Recorded
  <2>3. ASSUME NEW x \in Sessions, NEW k \in DOMAIN compactions'[x],
               NEW l \in DOMAIN compactions'[x],
               NEW i \in compactions'[x][k] \cap compactions'[x][l]
        PROVE  k = l \/ (i \in DOMAIN msg' /\ msg'[i].kind = "summary")
    <3>1. /\ k \in DOMAIN compactions[x] /\ l \in DOMAIN compactions[x]
          /\ i \in compactions[x][k] \cap compactions[x][l]
      BY <1>9
    <3>2. k = l \/ (i \in DOMAIN msg /\ msg[i].kind = "summary")
      BY <1>2, <3>1 DEF Recorded
    <3> QED
      BY <1>3, <3>2
  <2> QED
    BY <2>1, <2>2, <2>3 DEF Recorded
<1>11. Recoverable'
  <2> SUFFICES ASSUME NEW x \in Sessions, parent[x] = NoSession, "legacy" \notin uses,
                      NEW i \in DOMAIN msg', msg'[i].session = x, msg'[i].hidden,
                      msg'[i].kind # "summary"
               PROVE  \E k \in DOMAIN compactions'[x] : i \in compactions'[x][k]
    BY <1>1 DEF Recoverable
  <2>1. i \in DOMAIN msg /\ msg[i].session = x /\ msg[i].kind # "summary"
    BY <1>3
  <2>2. i \notin ids /\ msg[i].hidden
    BY <1>3, <1>4, <2>1
  <2>3. PICK k \in DOMAIN compactions[x] : i \in compactions[x][k]
    BY <1>2, <2>1, <2>2 DEF Recoverable
  <2>4. x = s => k # n
    BY <1>5, <2>1, <2>2, <2>3
  <2>5. k \in DOMAIN compactions'[x] /\ compactions'[x][k] = compactions[x][k]
    BY <1>5, <2>3, <2>4
  <2> QED
    BY <2>3, <2>5
<1> QED
  BY <1>6, <1>7, <1>8, <1>10, <1>11 DEF HistoryInv, MessageInv

-----------------------------------------------------------------------------
(* Fork, and the migration *)

LEMMA NthFacts ==
  ASSUME NEW b \in Nat, NEW ids \in SUBSET (0 .. b), NEW n \in 1 .. Cardinality(ids)
  PROVE  Nth(ids, n) \in ids
<1>1. \E i \in ids : Cardinality({j \in ids : j <= i}) = n
  BY Ranked
<1> QED
  BY <1>1 DEF Nth

\* The copy of a row.
CopyOf(r, s, t, row) == row = [r EXCEPT !.session = s, !.turn = t, !.partial = FALSE]

LEMMA CopiedRow ==
  ASSUME NEW r \in Rows, NEW s, NEW t, NEW row, CopyOf(r, s, t, row)
  PROVE  /\ row.session = s /\ row.turn = t /\ row.kind = r.kind /\ ~ row.partial
         /\ row.hidden \in BOOLEAN /\ row.partial \in BOOLEAN
         /\ row = [session |-> s, turn |-> t, kind |-> row.kind,
                   hidden |-> row.hidden, partial |-> row.partial]
<1>1. PICK q \in BOOLEAN : q = FALSE
  OBVIOUS
<1>2. row = [r EXCEPT !.session = s, !.turn = t, !.partial = q] /\ ~ q
  BY <1>1 DEF CopyOf
<1> HIDE <1>1
<1>3. /\ row.session = s /\ row.turn = t /\ row.kind = r.kind /\ row.partial = q
      /\ row.hidden \in BOOLEAN
      /\ row = [session |-> s, turn |-> t, kind |-> row.kind,
                hidden |-> row.hidden, partial |-> row.partial]
  BY <1>2 DEF Rows
<1> QED
  BY <1>2, <1>3, Zenon

LEMMA ForkHistory ==
  ASSUME HistoryInv, TreeInv, NEW s \in Sessions, NEW copy \in Sessions, Fork(s, copy)
  PROVE  HistoryInv'
<1> DEFINE ids == {i \in DOMAIN msg : msg[i].session = s}
           c == Cardinality(ids)
           new == lastId + 1 .. lastId + c
           Copy(i) == [msg[Nth(ids, i - lastId)] EXCEPT
                         !.session = copy, !.turn = Len(turn) + 1, !.partial = FALSE]
<1>1. /\ migrated /\ migrated' = migrated /\ uses' = uses /\ compactions' = compactions
      /\ NewSession(copy, s) /\ lastId' = lastId + c /\ lastId + c <= MaxMessages[uses]
  BY DEF Fork, Uses
<1>2. /\ msg' = [i \in DOMAIN msg \cup new |-> IF i \in new THEN Copy(i) ELSE msg[i]]
      /\ visible' = visible \cup {i \in new : Qualifies(Copy(i), turn')}
  BY DEF Fork
<1>3. /\ Tree(turn, head) /\ Keeps(turn, head, turn', head') /\ Tree(turn', head')
  <2>1. Writes(s)
    BY DEF Writes
  <2> QED
    BY <2>1, WritesTree DEF TreeInv
<1>4. /\ lastId \in Nat /\ DOMAIN msg \subseteq 1 .. lastId /\ visible \subseteq DOMAIN msg
      /\ \A i \in DOMAIN msg : msg[i] \in Rows /\ msg[i].turn \in 0 .. Len(turn)
      /\ MaxMessages[uses] \in Nat
  BY MessageFacts, HistoryAssumption DEF HistoryInv, MessageInv, MessageShape
<1>5. ids \in SUBSET (0 .. lastId) /\ c \in Nat
  <2>1. ids \subseteq 0 .. lastId
    BY <1>4
  <2> HIDE DEF ids
  <2> QED
    BY <1>4, <2>1, FiniteRange
<1>6. \A i \in new : Nth(ids, i - lastId) \in DOMAIN msg
  <2> SUFFICES ASSUME NEW i \in new
               PROVE  Nth(ids, i - lastId) \in ids
    OBVIOUS
  <2> HIDE DEF ids
  <2>1. i - lastId \in 1 .. Cardinality(ids)
    BY <1>4, <1>5
  <2> QED
    BY <1>4, <1>5, <2>1, NthFacts
<1> HIDE DEF ids
<1>7. ASSUME NEW i \in new
      PROVE  LET row == Copy(i)
             IN  /\ row.session = copy /\ row.turn = Len(turn) + 1 /\ ~ row.partial
                 /\ row.kind \in {"user", "item", "summary"}
                 /\ row.hidden \in BOOLEAN /\ row.partial \in BOOLEAN
                 /\ row = [session |-> copy, turn |-> Len(turn) + 1, kind |-> row.kind,
                           hidden |-> row.hidden, partial |-> row.partial]
  <2> DEFINE r == msg[Nth(ids, i - lastId)]
             row == Copy(i)
  <2>1. r \in Rows
    BY <1>4, <1>6
  <2>2. r.kind \in {"user", "item", "summary"}
    BY <2>1 DEF Rows
  <2>3. CopyOf(r, copy, Len(turn) + 1, row)
    BY DEF CopyOf
  <2> HIDE DEF r, row
  <2>4. /\ row.session = copy /\ row.turn = Len(turn) + 1 /\ row.kind = r.kind
        /\ ~ row.partial /\ row.hidden \in BOOLEAN /\ row.partial \in BOOLEAN
        /\ row = [session |-> copy, turn |-> Len(turn) + 1, kind |-> row.kind,
                  hidden |-> row.hidden, partial |-> row.partial]
    BY <2>1, <2>3, CopiedRow
  <2>5. row.kind \in {"user", "item", "summary"}
    BY <2>2, <2>4
  <2> QED
    BY <2>4, <2>5 DEF row
<1> HIDE DEF Copy
<1>8. new \cap DOMAIN msg = {} /\ DOMAIN msg' = DOMAIN msg \cup new
  BY <1>2, <1>4, <1>5
<1>9. /\ \A i \in new : msg'[i] = Copy(i)
      /\ \A i \in DOMAIN msg : msg'[i] = msg[i]
  BY <1>2, <1>8
<1>10. /\ turn' = Append(turn, Turn(copy, 0)) /\ head' = [head EXCEPT ![copy] = Len(turn) + 1]
       /\ parent' = [parent EXCEPT ![copy] = s] /\ head[copy] = 0
  BY <1>1 DEF NewSession
<1>11. /\ Len(turn) \in Nat /\ Len(turn') = Len(turn) + 1
       /\ turn'[Len(turn) + 1] = Turn(copy, 0)
       /\ \A u \in 1 .. Len(turn) : turn'[u] = turn[u]
  <2>1. Table(turn) /\ 0 \in 0 .. Len(turn) /\ Len(turn) \in Nat
    BY <1>3, TreeFacts
  <2> QED
    BY <1>10, <2>1, AppendTurn
<1>12. ASSUME NEW i \in new
       PROVE  NewRow(i)
  <2>1. msg'[i] = Copy(i) /\ i \in lastId + 1 .. lastId'
    BY <1>1, <1>9
  <2>2. Len(turn) + 1 \in 0 .. Len(turn') /\ turn'[Len(turn) + 1].session = copy
    BY <1>11 DEF Turn
  <2>3. Copy(i) \in Rows'
    BY <1>7, <2>2 DEF Rows
  <2>4. head'[copy] # 0
    BY <1>3, <1>10, <1>11 DEF Tree
  <2>5. parent'[copy] # NoSession
    BY <1>10, HistoryAssumption DEF TreeInv
  <2> QED
    BY <1>7, <2>1, <2>2, <2>3, <2>4, <2>5 DEF NewRow
<1>13. RowsStay
  <2>1. lastId' \in lastId .. MaxMessages[uses] /\ DOMAIN msg' \subseteq 1 .. lastId'
    BY <1>1, <1>4, <1>5, <1>8
  <2>2. visible' \subseteq DOMAIN msg'
    BY <1>2, <1>4, <1>8
  <2>3. \A x \in Sessions : parent'[x] = parent[x] \/ head[x] = 0
    BY <1>10
  <2>4. \A i \in DOMAIN msg' : (i \in DOMAIN msg /\ msg'[i] = msg[i]) \/ NewRow(i)
    BY <1>8, <1>9, <1>12
  <2> QED
    BY <1>1, <1>8, <2>1, <2>2, <2>3, <2>4 DEF RowsStay
<1>14. MessageInv'
  BY <1>3, <1>13, RowsStayInv DEF HistoryInv
<1>15. Showing(msg', turn', visible')
  <2>1. \A i \in DOMAIN msg : Qualifies(msg[i], turn') <=> Qualifies(msg[i], turn)
    <3>1. \A i \in DOMAIN msg : msg[i].turn # 0 => msg[i].turn \in 1 .. Len(turn)
      BY <1>4, <1>11
    <3> QED
      BY <1>11, <3>1, SameFlags
  <2>2. visible = {i \in DOMAIN msg : Qualifies(msg[i], turn)}
    BY DEF HistoryInv, Showing
  <2>3. visible' = visible \cup {i \in new : Qualifies(msg'[i], turn')}
    BY <1>2, <1>9
  <2> HIDE <1>2 DEF new
  <2> QED
    BY <1>8, <1>9, <2>1, <2>2, <2>3 DEF Showing
<1> QED
  BY <1>14, <1>15 DEF HistoryInv

LEMMA RowOnTurn ==
  ASSUME NEW r \in Rows, NEW t \in 0 .. Len(turn'), NEW row, row = [r EXCEPT !.turn = t],
         Len(turn) <= Len(turn')
  PROVE  /\ row \in Rows' /\ row.session = r.session /\ row.turn = t /\ row.kind = r.kind
         /\ row.hidden <=> r.hidden
         /\ row.partial <=> r.partial
BY DEF Rows

LEMMA MigrateHistory ==
  ASSUME MessageInv, TreeInv, Migrate
  PROVE  HistoryInv'
<1>1. /\ Tree(turn, head) /\ Keeps(turn, head, turn', head') /\ Tree(turn', head')
  BY MigrateTree DEF TreeInv, Grown
<1>2. /\ uses' = uses /\ parent' = parent /\ lastId' = lastId /\ compactions' = compactions
      /\ migrated' = TRUE /\ "legacy" \in uses
      /\ msg' = [i \in DOMAIN msg |->
                   [msg[i] EXCEPT !.turn = IF @ = 0 THEN head'[msg[i].session] ELSE @]]
      /\ visible' = {i \in DOMAIN msg : Qualifies(msg'[i], turn')}
  BY DEF Migrate, TreeInv, Unopened
<1>3. /\ MessageShape /\ Recorded
      /\ \A i \in DOMAIN msg : msg[i].turn # 0 => turn[msg[i].turn].session = msg[i].session
      /\ \A i \in DOMAIN msg : msg[i] \in Rows /\ msg[i].turn \in 0 .. Len(turn)
                                /\ msg[i].session \in Sessions
  BY MessageFacts DEF MessageInv, MessageShape
<1>4. /\ Len(turn) \in Nat /\ Len(turn') \in Nat /\ Len(turn) <= Len(turn')
      /\ \A x \in Sessions : head[x] # 0 => head'[x] # 0
      /\ \A u \in 1 .. Len(turn) : turn'[u].session = turn[u].session
      /\ \A x \in Sessions : /\ head'[x] \in 0 .. Len(turn')
                             /\ head'[x] # 0 => turn'[head'[x]].session = x
  BY <1>1, TreeFacts DEF Keeps
<1>5. \A i \in DOMAIN msg : head'[msg[i].session] # 0
  <2>1. PICK s \in Sessions :
          \/ Rootless = {s} /\ head' = [head EXCEPT ![s] = Len(turn) + 1]
          \/ Rootless = {}
    BY DEF Migrate
  <2>2. \A i \in DOMAIN msg : head[msg[i].session] = 0 => msg[i].session \in Rootless
    BY <1>3 DEF Rootless
  <2>3. CASE Rootless = {s} /\ head' = [head EXCEPT ![s] = Len(turn) + 1]
    BY <1>1, <1>3, <1>4, <2>2, <2>3 DEF Tree
  <2>4. CASE Rootless = {}
    BY <1>3, <1>4, <2>2, <2>4
  <2> QED
    BY <2>1, <2>3, <2>4
<1> DEFINE T(i) == IF msg[i].turn = 0 THEN head'[msg[i].session] ELSE msg[i].turn
<1>6. \A i \in DOMAIN msg : /\ T(i) \in 0 .. Len(turn')
                            /\ T(i) # 0 => turn'[T(i)].session = msg[i].session
  <2> SUFFICES ASSUME NEW i \in DOMAIN msg
               PROVE  /\ T(i) \in 0 .. Len(turn')
                      /\ T(i) # 0 => turn'[T(i)].session = msg[i].session
    OBVIOUS
  <2>1. CASE msg[i].turn = 0
    BY <1>3, <1>4, <2>1
  <2>2. CASE msg[i].turn # 0
    <3>1. msg[i].turn \in 1 .. Len(turn)
      BY <1>3, <1>4, <2>2
    <3> QED
      BY <1>3, <1>4, <2>2, <3>1
  <2> QED
    BY <2>1, <2>2
<1>7. \A i \in DOMAIN msg : msg'[i] = [msg[i] EXCEPT !.turn = T(i)]
  BY <1>2
<1> HIDE DEF T
<1>8. DOMAIN msg' = DOMAIN msg
  BY <1>2
<1>9. \A i \in DOMAIN msg :
        /\ msg'[i] \in Rows' /\ msg'[i].session = msg[i].session
        /\ msg'[i].turn = T(i) /\ msg'[i].kind = msg[i].kind
        /\ msg'[i].hidden <=> msg[i].hidden
        /\ msg'[i].partial <=> msg[i].partial
  <2> SUFFICES ASSUME NEW i \in DOMAIN msg
               PROVE  /\ msg'[i] \in Rows' /\ msg'[i].session = msg[i].session
                      /\ msg'[i].turn = T(i) /\ msg'[i].kind = msg[i].kind
                      /\ msg'[i].hidden <=> msg[i].hidden
                      /\ msg'[i].partial <=> msg[i].partial
    OBVIOUS
  <2>1. /\ msg[i] \in Rows /\ T(i) \in 0 .. Len(turn')
        /\ msg'[i] = [msg[i] EXCEPT !.turn = T(i)]
    BY <1>3, <1>6, <1>7
  <2> QED
    BY <1>4, <2>1, RowOnTurn
<1>10. MessageShape'
  <2>1. /\ uses' \in Profiles /\ lastId' \in 0 .. MaxMessages[uses'] /\ DOMAIN msg' \subseteq 1 .. lastId'
        /\ compactions' \in [Sessions -> Seq(SUBSET (1 .. lastId'))]
    BY <1>2, <1>3, <1>8 DEF MessageShape
  <2>2. visible' \subseteq DOMAIN msg'
    BY <1>2, <1>8
  <2> HIDE <1>2
  <2> QED
    BY <1>8, <1>9, <2>1, <2>2 DEF MessageShape
<1>11. Recorded'
  <2>1. compactions' = compactions
    BY <1>2
  <2> HIDE <1>2, <1>7
  <2> QED
    BY <1>3, <1>8, <1>9, <2>1 DEF Recorded
<1>12. Recoverable'
  BY <1>2 DEF Recoverable
<1>13. Showing(msg', turn', visible')
  BY <1>2, <1>8 DEF Showing
<1>14. \A i \in DOMAIN msg' : /\ msg'[i].turn # 0 => turn'[msg'[i].turn].session = msg'[i].session
                              /\ head'[msg'[i].session] # 0
  BY <1>5, <1>6, <1>8, <1>9
<1> QED
  BY <1>10, <1>11, <1>12, <1>13, <1>14 DEF HistoryInv, MessageInv

-----------------------------------------------------------------------------
(* Every step: messages, tree, memories and the client *)

LEMMA MessageStep ==
  ASSUME TreeInv, MessageInv, Projected, [Next]_vars
  PROVE  MessageInv' /\ Projected'
<1>1. CASE Calm
  <2>1. /\ uses' = uses /\ migrated' = migrated /\ head' = head /\ parent' = parent
        /\ turn' = turn /\ msg' = msg /\ lastId' = lastId /\ visible' = visible
        /\ compactions' = compactions
    BY <1>1 DEF Calm
  <2> QED
    BY <2>1 DEF MessageInv, MessageShape, Rows, Recorded, Recoverable, Projected
<1>2. CASE Migrate
  <2>1. HistoryInv'
    BY <1>2, MigrateHistory
  <2> QED
    BY <2>1 DEF HistoryInv, Projected, Showing
<1>3. ASSUME NEW s \in Sessions, Writes(s)
      PROVE  MessageInv' /\ Projected'
  <2>1. HistoryInv
    BY <1>3, WritesFacts, ProjectedIsShowing DEF HistoryInv
  <2>2. HistoryInv'
    BY <1>3, <2>1, CreateHistory, AppendUserHistory, AppendItemHistory, SavePartialHistory,
       ClearPartialHistory, CompactHistory, UncompactHistory, PathHistory, ForkHistory
       DEF Writes
  <2> QED
    BY <2>2 DEF HistoryInv, Projected, Showing
<1> QED
  BY <1>1, <1>2, <1>3, MessageSteps

\* Before it is opened the database only waits to be.
LEMMA UnopenedStep ==
  ASSUME TreeInv, ~ migrated, [Next]_vars
  PROVE  Migrate \/ UNCHANGED vars
<1>1. reader.session = NoSession /\ tool = [s \in Sessions |-> NoTool]
  BY DEF TreeInv, Unopened, NoReader
<1>2. ~ ReadNextPage /\ ~ StopReading
  BY <1>1 DEF ReadNextPage, StopReading
<1>3. \A s \in Sessions : \A content, posted : ~ EndTool(s, content, posted)
  BY <1>1 DEF EndTool
<1>4. \A s \in Sessions : /\ ~ Writes(s) /\ ~ ReadFirstPage(s) /\ ~ Delete(s)
                          /\ \A f : ~ BeginTool(s, f)
                          /\ \A status : ~ Remember(s, status)
  <2>1. \A s \in Sessions : ~ Writes(s)
    BY WritesFacts
  <2>2. \A s \in Sessions : ~ ReadFirstPage(s) /\ ~ Delete(s)
    BY DEF ReadFirstPage, Delete, Uses
  <2>3. \A s \in Sessions : \A f : ~ BeginTool(s, f)
    BY DEF BeginTool, Uses
  <2>4. \A s \in Sessions : \A status : ~ Remember(s, status)
    BY DEF Remember, Uses
  <2> QED
    BY <2>1, <2>2, <2>3, <2>4
<1>5. \A i, status : ~ SetStatus(i, status)
  BY DEF SetStatus, Uses
<1> QED
  BY <1>2, <1>3, <1>4, <1>5 DEF Next, Writes

LEMMA TreeStep ==
  ASSUME TreeInv, MessageInv, [Next]_vars
  PROVE  TreeInv' /\ Keeps(turn, head, turn', head') /\ (migrated => migrated')
<1>1. Tree(turn, head) /\ (migrated => Flags(turn, head) /\ Newest(turn))
  BY PathIsFlags DEF TreeInv
<1>2. /\ Keeps(turn, head, turn', head') /\ Tree(turn', head')
      /\ migrated' => Flags(turn', head') /\ Newest(turn')
      /\ migrated => migrated'
  <2>1. CASE Calm
    BY <1>1, <2>1, TreeFacts DEF Calm, Keeps
  <2>2. CASE Migrate
    BY <2>2, MigrateTree DEF TreeInv, Grown, Migrate
  <2>3. CASE \E s \in Sessions : Writes(s)
    BY <2>3, WritesTree, WritesFacts
  <2> QED
    BY <2>1, <2>2, <2>3, MessageSteps
<1>3. PathIsChain' /\ (migrated' => Newest(turn'))
  BY <1>2, PathIsFlagsAfter
<1>4. migrated' \in BOOLEAN
  BY WritesFacts, MessageSteps DEF TreeInv, Calm, Migrate
<1>5. parent' \in [Sessions -> Sessions \cup {NoSession}]
  <2>1. CASE Calm \/ Migrate
    BY <2>1 DEF TreeInv, Calm, Migrate
  <2>2. ASSUME NEW s \in Sessions, Writes(s)
        PROVE  parent' \in [Sessions -> Sessions \cup {NoSession}]
    <3>1. CASE \/ \E p \in Sessions \cup {NoSession} : Create(s, p)
               \/ \E copy \in Sessions : Fork(s, copy)
      <4>1. PICK x \in Sessions, p \in Sessions \cup {NoSession} : NewSession(x, p)
        BY <3>1 DEF Create, Fork
      <4>2. parent' = [parent EXCEPT ![x] = p]
        BY <4>1 DEF NewSession
      <4> QED
        BY <4>2 DEF TreeInv
    <3>2. CASE parent' = parent
      BY <3>2 DEF TreeInv
    <3>3. CASE \/ AppendUser(s) \/ AppendItem(s) \/ SavePartial(s) \/ ClearPartial(s)
               \/ Uncompact(s) \/ Undo(s) \/ Redo(s)
               \/ \E keep \in KeepCounts : Compact(s, keep)
      BY <3>2, <3>3 DEF AppendUser, AppendItem, SavePartial, ClearPartial, Uncompact, Undo,
         Redo, Compact, sessionVars
    <3> QED
      BY <2>2, <3>1, <3>3 DEF Writes
  <2> QED
    BY <2>1, <2>2, MessageSteps
<1>6. deleted' \subseteq Sessions
  <2>1. ASSUME NEW s \in Sessions, Delete(s)
        PROVE  deleted' \subseteq Sessions
    BY <2>1 DEF Delete, Subtree, TreeInv
  <2>2. \/ \E s \in Sessions : Delete(s)
        \/ deleted' = deleted
    <3> USE DEF sessionVars
    <3>1. CASE UNCHANGED vars \/ Migrate \/ ReadNextPage \/ StopReading
      BY <3>1 DEF vars, Migrate, ReadNextPage, StopReading
    <3>2. ASSUME NEW s \in Sessions, Writes(s)
          PROVE  deleted' = deleted
      BY <3>2 DEF Writes, Create, AppendUser, AppendItem, SavePartial, ClearPartial,
         Uncompact, Undo, Redo, Compact, Fork
    <3>3. ASSUME NEW s \in Sessions, NEW f, BeginTool(s, f)
          PROVE  deleted' = deleted
      BY <3>3 DEF BeginTool
    <3>4. ASSUME NEW s \in Sessions, NEW content, NEW posted, EndTool(s, content, posted)
          PROVE  deleted' = deleted
      BY <3>4 DEF EndTool
    <3>5. ASSUME NEW s \in Sessions, NEW status, ReadFirstPage(s) \/ Remember(s, status)
          PROVE  deleted' = deleted
      BY <3>5 DEF ReadFirstPage, Remember
    <3>6. ASSUME NEW i, NEW status, SetStatus(i, status)
          PROVE  deleted' = deleted
      BY <3>6 DEF SetStatus
    <3> QED
      BY <3>1, <3>2, <3>3, <3>4, <3>5, <3>6 DEF Next, Writes
  <2> QED
    BY <2>1, <2>2 DEF TreeInv
<1>7. Unopened'
  <2>1. CASE migrated
    BY <1>2, <2>1 DEF Unopened
  <2>2. CASE ~ migrated
    <3>1. CASE Migrate
      BY <3>1 DEF Migrate, Unopened
    <3>2. CASE UNCHANGED vars
      BY <3>2 DEF TreeInv, Unopened, vars, Turns, sessionVars, messageVars, fileVars
    <3> QED
      BY <2>2, <3>1, <3>2, UnopenedStep
  <2> QED
    BY <2>1, <2>2
<1> QED
  BY <1>2, <1>3, <1>4, <1>5, <1>6, <1>7 DEF TreeInv

LEMMA MemorySteps ==
  ASSUME [Next]_vars
  PROVE  \/ memory' = memory
         \/ \E s \in Sessions, status \in {"active", "candidate"} : Remember(s, status)
         \/ \E i \in DOMAIN memory, status \in {"active", "deleted"} : SetStatus(i, status)
<1>1. CASE UNCHANGED vars \/ Migrate \/ ReadNextPage \/ StopReading
  BY <1>1 DEF vars, Migrate, ReadNextPage, StopReading
<1>2. ASSUME NEW s \in Sessions, Writes(s)
      PROVE  memory' = memory
  BY <1>2 DEF Writes, Create, AppendUser, AppendItem, SavePartial, ClearPartial, Uncompact,
     Undo, Redo, Compact, Fork
<1>3. ASSUME NEW s \in Sessions, NEW f, BeginTool(s, f)
      PROVE  memory' = memory
  BY <1>3 DEF BeginTool
<1>4. ASSUME NEW s \in Sessions, NEW content, NEW posted, EndTool(s, content, posted)
      PROVE  memory' = memory
  BY <1>4 DEF EndTool
<1>5. ASSUME NEW s \in Sessions, ReadFirstPage(s) \/ Delete(s)
      PROVE  memory' = memory
  BY <1>5 DEF ReadFirstPage, Delete
<1> QED
  BY <1>1, <1>2, <1>3, <1>4, <1>5 DEF Next, Writes

LEMMA EntryFacts ==
  ASSUME NEW n \in Nat, NEW e, e \in [session : Sessions, turn : 1 .. n,
                                     status : {"active", "candidate", "deleted"}]
  PROVE  e.session \in Sessions /\ e.turn \in 1 .. n
OBVIOUS

LEMMA MemoryStep ==
  ASSUME TreeInv, MemoryInv, Keeps(turn, head, turn', head'), Len(turn') \in Nat, [Next]_vars
  PROVE  MemoryInv'
<1>1. /\ Len(turn) \in Nat /\ Len(turn) <= Len(turn')
      /\ \A u \in 1 .. Len(turn) : turn'[u].session = turn[u].session
  BY TreeFacts DEF TreeInv, Keeps
<1>2. Entries \subseteq Entries' /\ Seq(Entries) \subseteq Seq(Entries')
  <2>1. Entries \subseteq Entries'
    BY <1>1 DEF Entries, Turns
  <2> QED
    BY <2>1, SeqMonotone
<1>3. /\ memory \in Seq(Entries) /\ Len(memory) \in Nat /\ DOMAIN memory = 1 .. Len(memory)
      /\ \A i \in DOMAIN memory : /\ memory[i] \in Entries
                                  /\ turn[memory[i].turn].session = memory[i].session
  <2>1. memory \in Seq(Entries)
    BY DEF MemoryInv
  <2>2. Len(memory) \in Nat /\ DOMAIN memory = 1 .. Len(memory)
    BY <2>1, LenProperties
  <2>3. \A i \in DOMAIN memory : memory[i] \in Entries
    BY <2>1, <2>2, ElementOfSeq
  <2> QED
    BY <2>1, <2>2, <2>3 DEF MemoryInv
<1>4. \A i \in DOMAIN memory : /\ memory[i].turn \in 1 .. Len(turn)
                              /\ turn'[memory[i].turn].session = memory[i].session
  <2>1. \A i \in DOMAIN memory : memory[i].turn \in 1 .. Len(turn)
    BY <1>1, <1>3, EntryFacts DEF Entries, Turns
  <2> QED
    BY <1>1, <1>3, <2>1
<1>5. CASE memory' = memory
  <2>1. memory' \in Seq(Entries')
    BY <1>2, <1>3, <1>5
  <2> QED
    BY <1>4, <1>5, <2>1 DEF MemoryInv
<1>6. ASSUME NEW s \in Sessions, NEW status \in {"active", "candidate"}, Remember(s, status)
      PROVE  MemoryInv'
  <2> DEFINE e == [session |-> s, turn |-> head[s], status |-> status]
  <2>1. memory' = Append(memory, e) /\ turn' = turn /\ head[s] # 0
    BY <1>6 DEF Remember, Live, sessionVars
  <2>2. e \in Entries /\ turn[e.turn].session = e.session
    BY <2>1, TreeFacts DEF TreeInv, Entries, Turns
  <2> HIDE DEF e
  <2>3. /\ memory' \in Seq(Entries) /\ DOMAIN memory' = 1 .. Len(memory) + 1
        /\ memory'[Len(memory) + 1] = e
        /\ \A i \in 1 .. Len(memory) : memory'[i] = memory[i]
    BY <1>3, <2>1, <2>2, OneMore
  <2>4. \A i \in DOMAIN memory' : turn[memory'[i].turn].session = memory'[i].session
    <3>1. \A i \in 1 .. Len(memory) + 1 : i \in 1 .. Len(memory) \/ i = Len(memory) + 1
      BY <1>3
    <3> QED
      BY <1>3, <2>2, <2>3, <3>1
  <2>5. memory' \in Seq(Entries')
    BY <1>2, <2>3
  <2> QED
    BY <2>1, <2>4, <2>5 DEF MemoryInv
<1>7. ASSUME NEW i \in DOMAIN memory, NEW status \in {"active", "deleted"}, SetStatus(i, status)
      PROVE  MemoryInv'
  <2> DEFINE e == [memory[i] EXCEPT !.status = status]
  <2>1. memory' = [memory EXCEPT ![i] = e] /\ turn' = turn
    BY <1>7 DEF SetStatus, sessionVars
  <2>2. e \in Entries /\ e.turn = memory[i].turn /\ e.session = memory[i].session
    BY <1>3 DEF Entries
  <2> HIDE DEF e
  <2>3. /\ memory' \in Seq(Entries) /\ DOMAIN memory' = DOMAIN memory
        /\ memory'[i] = e /\ \A j \in DOMAIN memory : j # i => memory'[j] = memory[j]
    BY <1>3, <2>1, <2>2, ExceptSeq
  <2>4. \A j \in DOMAIN memory' : turn[memory'[j].turn].session = memory'[j].session
    BY <1>3, <2>2, <2>3
  <2>5. memory' \in Seq(Entries')
    BY <1>2, <2>3
  <2> QED
    BY <2>1, <2>4, <2>5 DEF MemoryInv
<1> QED
  BY <1>5, <1>6, <1>7, MemorySteps

-----------------------------------------------------------------------------
(* A client that pages *)

LEMMA PageFacts ==
  ASSUME MessageShape, NEW s, NEW before
  PROVE  LET older == {i \in visible : msg[i].session = s /\ (before = 0 \/ i < before)}
             page == Page(s, before)
         IN  /\ page.ids \subseteq older /\ page.more \in BOOLEAN
             /\ \A i \in older \ page.ids, j \in page.ids : i < j
             /\ page.more => page.ids # {}
             /\ ~ page.more => page.ids = older
<1> DEFINE older == {i \in visible : msg[i].session = s /\ (before = 0 \/ i < before)}
           After(i) == {j \in older : j > i}
           ids == {i \in older : Cardinality(After(i)) < PageLimit}
           page == Page(s, before)
<1>1. page = [ids |-> ids, more |-> Cardinality(older) > PageLimit]
  BY DEF Page
<1>2. PICK P \in BOOLEAN : P <=> Cardinality(older) > PageLimit
  OBVIOUS
<1> HIDE DEF page, ids, After, older
<1>3. /\ page.ids = ids /\ page.more \in BOOLEAN
      /\ page.more <=> Cardinality(older) > PageLimit
  <2>1. P = (Cardinality(older) > PageLimit)
    BY <1>2
  <2>2. page = [ids |-> ids, more |-> P]
    BY <1>1, <2>1
  <2> HIDE <1>1, <2>1
  <2> QED
    BY <1>2, <2>2
<1> HIDE <1>1
<1> USE DEF After, ids, older
<1> HIDE DEF page
<1>4. lastId \in Nat /\ older \subseteq 0 .. lastId /\ PageLimit \in Nat \ {0}
  BY MessageFacts, HistoryAssumption DEF MessageShape
<1> HIDE DEF older
<1>5. /\ Cardinality(older) \in Nat /\ (Cardinality(older) = 0 <=> older = {})
      /\ \A U : U \subseteq older => /\ Cardinality(U) \in Nat
                                     /\ Cardinality(U) <= Cardinality(older)
                                     /\ (U # older => Cardinality(U) < Cardinality(older))
  BY <1>4, FiniteRange
<1>6. ASSUME NEW i \in older
      PROVE  /\ Cardinality(After(i)) \in Nat
             /\ Cardinality(After(i)) < Cardinality(older)
  <2>1. After(i) \subseteq older /\ After(i) # older
    BY <1>4
  <2> HIDE DEF After
  <2> QED
    BY <1>5, <2>1
<1>7. ASSUME NEW i \in older, NEW j \in older, i <= j
      PROVE  Cardinality(After(j)) <= Cardinality(After(i))
  <2> HIDE DEF ids
  <2>1. \A k \in older : k > j => k > i
    BY <1>4, <1>7
  <2>2. After(i) \subseteq 0 .. lastId
    BY <1>4
  <2>3. After(j) \subseteq After(i)
    BY <2>1
  <2> HIDE DEF After
  <2> QED
    BY <1>4, <2>2, <2>3, FiniteRange
<1>8. \A i \in older \ ids, j \in ids : i < j
  <2> SUFFICES ASSUME NEW i \in older, i \notin ids, NEW j \in ids, ~ (i < j)
               PROVE  FALSE
    OBVIOUS
  <2>1. j \in older /\ j <= i /\ Cardinality(After(j)) < PageLimit
    BY <1>4
  <2>2. Cardinality(After(i)) <= Cardinality(After(j))
    BY <1>7, <2>1
  <2>3. ~ (Cardinality(After(i)) < PageLimit)
    OBVIOUS
  <2>4. Cardinality(After(i)) \in Nat /\ Cardinality(After(j)) \in Nat
    BY <1>6, <2>1
  <2> HIDE DEF After, ids
  <2> QED
    BY <1>4, <2>1, <2>2, <2>3, <2>4
<1>9. older # {} => ids # {}
  <2> SUFFICES ASSUME older # {}
               PROVE  ids # {}
    OBVIOUS
  <2>1. PICK m \in older : \A j \in older : j <= m
    BY <1>4, GreatestNat
  <2>2. After(m) = {}
    <3> HIDE DEF ids
    <3>1. \A j \in older : ~ (j > m)
      BY <1>4, <2>1
    <3> QED
      BY <3>1
  <2>3. Cardinality(After(m)) = 0
    BY <2>2, FS_EmptySet
  <2>4. m \in ids
    <3> HIDE DEF After
    <3> QED
      BY <1>4, <2>3
  <2> QED
    BY <2>4
<1>10. page.more => ids # {}
  <2> HIDE DEF ids, After
  <2> QED
    BY <1>3, <1>4, <1>5, <1>9
<1>11. ~ page.more => ids = older
  <2> HIDE DEF After
  <2>1. ASSUME ~ page.more
        PROVE  older \subseteq ids
    BY <1>3, <1>4, <1>5, <1>6, <2>1
  <2> QED
    BY <2>1
<1>12. ids \subseteq older
  OBVIOUS
<1> HIDE DEF ids
<1> QED
  BY <1>3, <1>8, <1>10, <1>11, <1>12 DEF older, page

\* No message changes its session.
LEMMA SessionsStay ==
  ASSUME TreeInv, MessageInv, Projected, [Next]_vars, ~ Migrate
  PROVE  \A i \in DOMAIN msg \cap DOMAIN msg' : msg'[i].session = msg[i].session
<1>1. CASE Calm
  BY <1>1 DEF Calm
<1>2. ASSUME NEW s \in Sessions, Writes(s)
      PROVE  \A i \in DOMAIN msg \cap DOMAIN msg' : msg'[i].session = msg[i].session
  <2>0. HistoryInv /\ MessageShape
    BY <1>2, WritesFacts, ProjectedIsShowing DEF HistoryInv, MessageInv
  <2>1. CASE (\E p \in Sessions \cup {NoSession} : Create(s, p)) \/ Undo(s) \/ Redo(s)
    <3>1. msg' = msg
      BY <2>1 DEF Create, Undo, Redo, messageVars
    <3> QED
      BY <3>1
  <2>2. CASE AppendUser(s) \/ AppendItem(s)
    <3>1. PICK row, ts : Insert(row, ts)
      BY <2>2 DEF AppendUser, AppendItem
    <3>2. \A i \in DOMAIN msg : msg'[i] = msg[i]
      BY <2>0, <3>1, InsertFacts
    <3> QED
      BY <3>2
  <2>3. CASE SavePartial(s)
    <3> DEFINE row == [Row(s, 0, "item") EXCEPT !.partial = TRUE]
               D == DOMAIN msg \ Partials(s)
    <3>1. msg' = [i \in D \cup {lastId'} |-> IF i = lastId' THEN row ELSE msg[i]]
          /\ lastId' = lastId + 1
      BY <2>3 DEF SavePartial
    <3> HIDE DEF row
    <3>2. lastId' \notin DOMAIN msg
      BY <2>0, <3>1, MessageFacts
    <3>3. \A i \in DOMAIN msg \cap DOMAIN msg' : msg'[i] = msg[i]
      <4> HIDE DEF D
      <4> QED
        BY <3>1, <3>2
    <3> QED
      BY <3>3
  <2>4. CASE ClearPartial(s)
    BY <2>4 DEF ClearPartial, Restrict
  <2>5. ASSUME NEW keep \in KeepCounts, Compact(s, keep)
        PROVE  \A i \in DOMAIN msg : msg'[i].session = msg[i].session
    <3> DEFINE ids == Compacted(s, keep)
               ns == Hide(ids, TRUE)
               row == Row(s, head[s], "summary")
    <3>1. /\ msg' = [i \in DOMAIN msg \cup {lastId'} |-> IF i = lastId' THEN row ELSE ns[i]]
          /\ lastId' = lastId + 1
      BY <2>5 DEF Compact
    <3>2. Veiled(msg, ns, {}, ids)
      <4>1. \A i \in DOMAIN msg : msg[i] \in Rows
        BY <2>0 DEF MessageShape
      <4> QED
        BY <4>1, HideOn
    <3> HIDE DEF ns, row, ids
    <3>3. lastId' \notin DOMAIN msg
      BY <2>0, <3>1, MessageFacts
    <3> QED
      BY <3>1, <3>2, <3>3 DEF Veiled
  <2>6. CASE Uncompact(s)
    BY <2>0, <2>6, UncompactRows DEF Veiled
  <2>7. ASSUME NEW copy \in Sessions, Fork(s, copy)
        PROVE  \A i \in DOMAIN msg : msg'[i] = msg[i]
    <3> DEFINE ids == {i \in DOMAIN msg : msg[i].session = s}
               new == lastId + 1 .. lastId + Cardinality(ids)
               Copy(i) == [msg[Nth(ids, i - lastId)] EXCEPT
                             !.session = copy, !.turn = Len(turn) + 1, !.partial = FALSE]
    <3>1. msg' = [i \in DOMAIN msg \cup new |-> IF i \in new THEN Copy(i) ELSE msg[i]]
      BY <2>7 DEF Fork
    <3> HIDE DEF Copy
    <3>2. new \cap DOMAIN msg = {}
      <4> HIDE DEF ids
      <4> QED
        BY <2>0, MessageFacts
    <3> HIDE DEF new
    <3> QED
      BY <3>1, <3>2
  <2> QED
    BY <1>2, <2>1, <2>2, <2>3, <2>4, <2>5, <2>6, <2>7 DEF Writes
<1> QED
  BY <1>1, <1>2, MessageSteps

LEMMA ReaderSteps ==
  ASSUME [Next]_vars
  PROVE  \/ Watch \/ UNCHANGED vars \/ Migrate \/ ReadNextPage \/ StopReading
         \/ \E s \in Sessions : ReadFirstPage(s)
<1>1. ASSUME NEW s \in Sessions, NEW f, BeginTool(s, f)
      PROVE  Watch
  BY <1>1 DEF BeginTool
<1>2. ASSUME NEW s \in Sessions, NEW content, NEW posted, EndTool(s, content, posted)
      PROVE  Watch
  BY <1>2 DEF EndTool
<1>3. ASSUME NEW s \in Sessions, NEW status, Delete(s) \/ Remember(s, status)
      PROVE  Watch
  BY <1>3 DEF Delete, Remember
<1>4. ASSUME NEW i, NEW status, SetStatus(i, status)
      PROVE  Watch
  BY <1>4 DEF SetStatus
<1> QED
  BY <1>1, <1>2, <1>3, <1>4, WritesFacts DEF Next, Writes

LEMMA ReaderFacts ==
  ASSUME reader = NoReader \/ reader \in Readers
  PROVE  /\ reader.session = NoSession <=> reader = NoReader
         /\ reader # NoReader =>
              /\ reader \in Readers /\ reader.session \in Sessions
              /\ reader.got \subseteq Nat \ {0} /\ reader.expects \subseteq Nat
              /\ reader.more \in BOOLEAN /\ reader.twice \in BOOLEAN
<1>1. NoReader.session = NoSession
  BY DEF NoReader
<1>2. ASSUME reader \in Readers
      PROVE  /\ reader.session \in Sessions /\ reader.got \subseteq Nat \ {0}
             /\ reader.expects \subseteq Nat
             /\ reader.more \in BOOLEAN /\ reader.twice \in BOOLEAN
  BY <1>2 DEF Readers
<1>3. reader \in Readers => reader.session # NoSession
  BY <1>2, HistoryAssumption
<1> QED
  BY <1>1, <1>2, <1>3

LEMMA WatchedReader ==
  ASSUME NEW r \in Readers, NEW shown, NEW q, q = [r EXCEPT !.expects = @ \cap shown]
  PROVE  /\ q \in Readers /\ q.session = r.session /\ q.got = r.got
         /\ q.more <=> r.more
         /\ q.twice <=> r.twice
         /\ q.expects = r.expects \cap shown
BY DEF Readers

\* The client's state after its first page, and after the next one.
FirstPageOf(q, s, got, more, expects) ==
  q = [session |-> s, got |-> got, more |-> more, twice |-> FALSE, expects |-> expects]

NextPageOf(q, r, ids, more, twice) ==
  q = [r EXCEPT !.got = @ \cup ids, !.more = more, !.twice = twice]

LEMMA NewReader ==
  ASSUME NEW s \in Sessions, NEW got \in SUBSET (Nat \ {0}), NEW more \in BOOLEAN,
         NEW expects \in SUBSET Nat, NEW q, FirstPageOf(q, s, got, more, expects)
  PROVE  /\ q \in Readers /\ q.session = s /\ q.got = got /\ q.expects = expects
         /\ q.more <=> more
         /\ ~ q.twice
BY DEF Readers, FirstPageOf

LEMMA NextReader ==
  ASSUME NEW r \in Readers, NEW ids \in SUBSET (Nat \ {0}), NEW more \in BOOLEAN,
         NEW twice \in BOOLEAN, NEW q, NextPageOf(q, r, ids, more, twice)
  PROVE  /\ q \in Readers /\ q.session = r.session /\ q.got = r.got \cup ids
         /\ q.expects = r.expects
         /\ q.more <=> more
         /\ q.twice <=> twice
BY DEF Readers, NextPageOf

LEMMA ReaderStep ==
  ASSUME TreeInv, MessageInv, Projected, MessageInv', ReaderInv, [Next]_vars
  PROVE  ReaderInv'
<1>1. /\ reader = NoReader \/ reader \in Readers
      /\ Reading /\ MessageShape
      /\ visible \subseteq DOMAIN msg /\ visible' \subseteq DOMAIN msg'
      /\ DOMAIN msg \subseteq 1 .. lastId /\ lastId \in Nat
  BY MessageFacts DEF ReaderInv, MessageInv, MessageShape
<1>2. NoReader' = NoReader
  BY DEF NoReader
<1>3. CASE reader' = NoReader
  BY <1>2, <1>3 DEF ReaderInv, Reading
<1>4. ASSUME Watch, ~ Migrate, reader # NoReader
      PROVE  ReaderInv'
  <2>1. reader \in Readers /\ reader' = [reader EXCEPT !.expects = @ \cap visible']
    BY <1>1, <1>4, ReaderFacts DEF Watch
  <2>2. /\ reader' \in Readers /\ reader'.session = reader.session
        /\ reader'.got = reader.got
        /\ reader'.more <=> reader.more
        /\ reader'.twice <=> reader.twice
        /\ reader'.expects = reader.expects \cap visible'
    BY <2>1, WatchedReader
  <2>3. /\ ~ reader.twice /\ reader.expects \subseteq visible
        /\ \A i \in reader.expects : msg[i].session = reader.session
        /\ reader.more => /\ reader.got # {}
                          /\ \A i \in reader.expects \ reader.got, j \in reader.got : i < j
        /\ ~ reader.more => reader.expects \subseteq reader.got
    BY <1>1, <1>4 DEF Reading
  <2>4. \A i \in reader'.expects : msg'[i].session = reader'.session
    <3>1. \A i \in DOMAIN msg \cap DOMAIN msg' : msg'[i].session = msg[i].session
      BY <1>4, SessionsStay
    <3> QED
      BY <1>1, <2>2, <2>3, <3>1
  <2> HIDE <2>1
  <2>5. Reading'
    BY <2>2, <2>3, <2>4 DEF Reading
  <2> QED
    BY <2>2, <2>5 DEF ReaderInv, Readers
<1>5. CASE UNCHANGED vars
  <2>1. reader' = reader /\ visible' = visible /\ msg' = msg
    BY <1>5 DEF vars, messageVars
  <2> QED
    BY <2>1 DEF ReaderInv, Reading, Readers, NoReader
<1>6. CASE Migrate
  <2>1. reader' = NoReader
    BY <1>6 DEF Migrate, TreeInv, Unopened
  <2> QED
    BY <1>3, <2>1
<1>7. CASE StopReading
  BY <1>3, <1>7 DEF StopReading
<1>8. ASSUME NEW s \in Sessions, ReadFirstPage(s)
      PROVE  ReaderInv'
  <2> DEFINE older == {i \in visible : msg[i].session = s}
             page == Page(s, 0)
  <2>1. /\ reader' = [session |-> s, got |-> page.ids, more |-> page.more,
                      twice |-> FALSE, expects |-> older]
        /\ visible' = visible /\ msg' = msg
    BY <1>8 DEF ReadFirstPage, messageVars
  <2>2. older = {i \in visible : msg[i].session = s /\ (0 = 0 \/ i < 0)}
    OBVIOUS
  <2>3. /\ page.ids \subseteq older /\ page.more \in BOOLEAN
        /\ \A i \in older \ page.ids, j \in page.ids : i < j
        /\ page.more => page.ids # {}
        /\ ~ page.more => page.ids = older
    BY <1>1, <2>2, PageFacts
  <2>4. older \subseteq Nat \ {0} /\ older \subseteq visible
        /\ \A i \in older : msg[i].session = s
    BY <1>1
  <2> HIDE DEF page, older
  <2>5. /\ reader' \in Readers /\ reader'.session = s /\ reader'.got = page.ids
        /\ reader'.expects = older
        /\ reader'.more <=> page.more
        /\ ~ reader'.twice
    <3>1. page.ids \in SUBSET (Nat \ {0})
      BY <2>3, <2>4
    <3>2. older \in SUBSET Nat
      BY <2>4
    <3>3. page.more \in BOOLEAN
      BY <2>3
    <3>4. FirstPageOf(reader', s, page.ids, page.more, older)
      BY <2>1, Zenon DEF FirstPageOf
    <3> QED
      BY <3>1, <3>2, <3>3, <3>4, NewReader
  <2>6. visible' = visible /\ msg' = msg
    BY <2>1
  <2> HIDE <2>1
  <2>7. Reading'
    BY <2>3, <2>4, <2>5, <2>6 DEF Reading
  <2> QED
    BY <2>5, <2>7 DEF ReaderInv, Readers
<1>9. CASE ReadNextPage
  <2> DEFINE s == reader.session
             b == Min(reader.got)
             older == {i \in visible : msg[i].session = s /\ (b = 0 \/ i < b)}
             page == Page(s, b)
             twice == page.ids \cap reader.got # {}
  <2>1. /\ reader # NoReader /\ reader.more /\ visible' = visible /\ msg' = msg
        /\ reader' = [reader EXCEPT !.got = @ \cup page.ids, !.more = page.more,
                                    !.twice = twice]
    BY <1>1, <1>9, ReaderFacts DEF ReadNextPage, messageVars
  <2>2. /\ reader \in Readers /\ s \in Sessions /\ reader.got \subseteq Nat \ {0}
        /\ reader.expects \subseteq Nat
    BY <1>1, <2>1, ReaderFacts
  <2>3. /\ reader.expects \subseteq visible /\ reader.got # {}
        /\ \A i \in reader.expects : msg[i].session = s
        /\ \A i \in reader.expects \ reader.got, j \in reader.got : i < j
    BY <1>1, <2>1 DEF Reading
  <2>4. b \in reader.got /\ \A j \in reader.got : b <= j
    <3>1. reader.got \subseteq Nat
      BY <2>2
    <3> QED
      BY <2>3, <3>1, MinFacts
  <2>5. /\ page.ids \subseteq older /\ page.more \in BOOLEAN
        /\ \A i \in older \ page.ids, j \in page.ids : i < j
        /\ page.more => page.ids # {}
        /\ ~ page.more => page.ids = older
    BY <1>1, PageFacts
  <2> HIDE DEF b, s, page
  <2>6. /\ older \subseteq Nat \ {0} /\ \A i \in older : i < b
        /\ reader.expects \ reader.got \subseteq older
    BY <1>1, <2>2, <2>3, <2>4
  <2> HIDE DEF older, twice
  <2>7. page.ids \cap reader.got = {} /\ page.ids \in SUBSET (Nat \ {0})
    <3>1. b \in Nat /\ \A i \in page.ids : i \in Nat /\ i < b
      BY <2>2, <2>4, <2>5, <2>6
    <3>2. \A i \in page.ids : i \notin reader.got
      BY <2>2, <2>4, <3>1
    <3> QED
      BY <2>5, <2>6, <3>2
  <2>8. PICK P \in BOOLEAN : P = FALSE
    OBVIOUS
  <2>9. reader' = [reader EXCEPT !.got = @ \cup page.ids, !.more = page.more, !.twice = P]
    <3>1. twice = FALSE
      BY <2>7 DEF twice
    <3> QED
      BY <2>1, <2>8, <3>1
  <2>10. ~ P /\ reader.more /\ visible' = visible /\ msg' = msg
    BY <2>1, <2>8
  <2> HIDE <2>1, <2>8
  <2>11. /\ reader' \in Readers /\ reader'.session = s
         /\ reader'.got = reader.got \cup page.ids /\ reader'.expects = reader.expects
         /\ reader'.more <=> page.more
         /\ ~ reader'.twice
    <3>1. page.ids \in SUBSET (Nat \ {0})
      BY <2>7
    <3>2. page.more \in BOOLEAN
      BY <2>5
    <3>3. reader \in Readers
      BY <2>2
    <3>4. ~ P
      BY <2>10
    <3>5. /\ reader' \in Readers /\ reader'.session = reader.session
          /\ reader'.got = reader.got \cup page.ids /\ reader'.expects = reader.expects
          /\ reader'.more <=> page.more
          /\ reader'.twice <=> P
      <4>1. NextPageOf(reader', reader, page.ids, page.more, P)
        BY <2>9, Zenon DEF NextPageOf
      <4> QED
        BY <3>1, <3>2, <3>3, <4>1, NextReader
    <3> QED
      BY <3>4, <3>5 DEF s
  <2> HIDE <2>9
  <2>12. \A i \in reader'.expects \ reader'.got, j \in reader'.got : i < j
    BY <2>3, <2>5, <2>6, <2>11
  <2>13. ~ reader'.more => reader'.expects \subseteq reader'.got
    BY <2>5, <2>6, <2>11
  <2>14. Reading'
    BY <2>3, <2>10, <2>11, <2>12, <2>13 DEF Reading
  <2> QED
    BY <2>11, <2>14 DEF ReaderInv, Readers
<1>10. CASE Watch
  <2>1. CASE reader = NoReader
    <3>1. reader' = NoReader
      BY <1>1, <1>10, <2>1, ReaderFacts DEF Watch
    <3> QED
      BY <1>3, <3>1
  <2> QED
    BY <1>4, <1>6, <1>10, <2>1
<1> QED
  BY <1>5, <1>6, <1>7, <1>8, <1>9, <1>10, ReaderSteps

-----------------------------------------------------------------------------
(* The file snapshots *)

\* Neither a tool begins nor one ends: snapshots may go, but not those of a
\* session that counts; tasks may be aborted; a turn may be added.
Quiet ==
  /\ DOMAIN snaps' \subseteq DOMAIN snaps /\ calls' = calls
  /\ \A c \in DOMAIN snaps' : snaps'[c] = snaps[c]
  /\ evicted' \subseteq Sessions /\ disk' \in [Files -> Nat]
  /\ \A s \in Sessions : Complete(s)' =>
       Complete(s) /\ \A c \in DOMAIN snaps : snaps[c].session = s => c \in DOMAIN snaps'
  /\ tool' = tool \/ \E S : tool' = Aborted(S)
  /\ \/ touched' = touched /\ Len(turn') = Len(turn)
     \/ touched' = Append(touched, NewTouched) /\ Len(turn') = Len(turn) + 1

\* What an aborted tool call keeps.
LEMMA AbortedFacts ==
  ASSUME FileShape, NEW S, NEW w, w = Aborted(S)
  PROVE  /\ w \in [Sessions -> {NoTool} \cup ToolCalls]
         /\ \A s \in Sessions : w[s] # NoTool =>
              /\ tool[s] # NoTool /\ w[s].file = tool[s].file
              /\ w[s].call = tool[s].call /\ w[s].turn = tool[s].turn
              /\ tool[s].aborted => w[s].aborted
<1>1. PICK q \in BOOLEAN : q = TRUE
  OBVIOUS
<1>2. /\ w = [s \in Sessions |-> IF s \in S /\ tool[s] # NoTool
                                 THEN [tool[s] EXCEPT !.aborted = q] ELSE tool[s]]
      /\ q
  BY <1>1 DEF Aborted
<1>3. tool \in [Sessions -> {NoTool} \cup ToolCalls]
  BY DEF FileShape
<1> HIDE <1>1
<1>4. ASSUME NEW s \in Sessions
      PROVE  /\ w[s] \in {NoTool} \cup ToolCalls
             /\ w[s] # NoTool =>
                  /\ tool[s] # NoTool /\ w[s].file = tool[s].file
                  /\ w[s].call = tool[s].call /\ w[s].turn = tool[s].turn
                  /\ tool[s].aborted => w[s].aborted
  <2>1. CASE s \in S /\ tool[s] # NoTool
    <3>1. tool[s] \in ToolCalls /\ w[s] = [tool[s] EXCEPT !.aborted = q]
      BY <1>2, <1>3, <2>1
    <3> QED
      BY <1>2, <2>1, <3>1 DEF ToolCalls
  <2>2. CASE w[s] = tool[s]
    BY <1>3, <2>2
  <2> QED
    BY <1>2, <2>1, <2>2
<1>5. w = [s \in Sessions |-> w[s]]
  BY <1>2
<1> QED
  BY <1>4, <1>5

\* What a new turn starts with.
LEMMA TouchedFacts ==
  ASSUME FileShape, Quiet
  PROVE  /\ touched' \in Seq(Notes) /\ Len(touched') = Len(turn')
         /\ Len(turn) \in Nat /\ Len(turn) <= Len(turn') /\ Len(turn') \in Nat
         /\ \A t \in Turns : touched'[t] = touched[t]
         /\ \A t \in 1 .. Len(turn') : t \notin Turns =>
              /\ touched'[t].seen = {}
              /\ \A f \in Files : touched'[t].last[f] = 0
<1>1. touched \in Seq(Notes) /\ Len(touched) = Len(turn)
  BY DEF FileShape
<1>2. Len(turn) \in Nat
  BY <1>1, LenProperties
<1>3. NewTouched \in Notes /\ NewTouched.seen = {} /\ \A f \in Files : NewTouched.last[f] = 0
  BY DEF NewTouched, Notes
<1>4. CASE touched' = touched /\ Len(turn') = Len(turn)
  BY <1>1, <1>2, <1>4 DEF Turns
<1>5. CASE touched' = Append(touched, NewTouched) /\ Len(turn') = Len(turn) + 1
  <2>1. /\ touched' \in Seq(Notes) /\ Len(touched') = Len(turn) + 1
        /\ touched'[Len(turn) + 1] = NewTouched
        /\ \A k \in 1 .. Len(turn) : touched'[k] = touched[k]
    BY <1>1, <1>3, <1>5, OneMore
  <2> QED
    BY <1>2, <1>3, <1>5, <2>1 DEF Turns
<1> QED
  BY <1>4, <1>5 DEF Quiet

LEMMA QuietFiles ==
  ASSUME FileInv, Quiet, Keeps(turn, head, turn', head')
  PROVE  FileInv'
<1>1. /\ FileShape /\ Noted /\ Found /\ Left /\ AtWork
      /\ touched' \in Seq(Notes) /\ Len(touched') = Len(turn')
      /\ Len(turn) \in Nat /\ Len(turn') \in Nat /\ Len(turn) <= Len(turn')
      /\ \A t \in Turns : touched'[t] = touched[t]
      /\ \A t \in 1 .. Len(turn') : t \notin Turns =>
           /\ touched'[t].seen = {}
           /\ \A f \in Files : touched'[t].last[f] = 0
  BY TouchedFacts DEF FileInv
<1>2. Turns \subseteq Turns' /\ \A u \in Turns : turn'[u].session = turn[u].session
  BY <1>1 DEF Keeps, Turns
<1>3. /\ DOMAIN snaps' \subseteq DOMAIN snaps /\ calls' = calls /\ calls \in Nat
      /\ \A c \in DOMAIN snaps' : snaps'[c] = snaps[c]
      /\ \A c \in DOMAIN snaps : snaps[c] \in Snapshots
      /\ \A s \in Sessions : Complete(s)' =>
           Complete(s) /\ \A c \in DOMAIN snaps : snaps[c].session = s => c \in DOMAIN snaps'
  BY <1>1 DEF Quiet, FileShape
<1>4. /\ tool' \in [Sessions -> {NoTool} \cup ToolCalls]
      /\ \A s \in Sessions : tool'[s] # NoTool =>
           /\ tool[s] # NoTool /\ tool'[s].file = tool[s].file
           /\ tool'[s].call = tool[s].call /\ tool'[s].turn = tool[s].turn
           /\ tool[s].aborted => tool'[s].aborted
  <2>1. CASE tool' = tool
    BY <1>1, <2>1 DEF FileShape
  <2> QED
    BY <1>1, <2>1, AbortedFacts DEF Quiet
<1>5. \A t \in Turns' : \A f \in touched'[t].seen : t \in Turns
  BY <1>1 DEF Turns
<1>6. FileShape'
  <2>1. ToolCalls \subseteq ToolCalls' /\ NoTool' = NoTool
    BY <1>2, <1>3 DEF ToolCalls, NoTool
  <2>2. \A c \in DOMAIN snaps' : snaps'[c] \in Snapshots'
    BY <1>2, <1>3 DEF Snapshots
  <2>3. /\ disk' \in [Files -> Nat] /\ calls' \in Nat /\ DOMAIN snaps' \subseteq 1 .. calls'
        /\ evicted' \subseteq Sessions
    BY <1>1, <1>3 DEF FileShape, Quiet
  <2>4. tool' \in [Sessions -> {NoTool'} \cup ToolCalls']
    BY <1>4, <2>1
  <2> QED
    BY <1>1, <2>2, <2>3, <2>4 DEF FileShape, Notes
<1>7. Noted'
  <2>1. \A c \in DOMAIN snaps' :
          /\ snaps[c].turn \in Turns /\ turn[snaps[c].turn].session = snaps[c].session
          /\ snaps[c].file \in touched[snaps[c].turn].seen
    BY <1>1, <1>3 DEF Noted, Snapshots
  <2>2. \A c \in DOMAIN snaps' : /\ turn'[snaps'[c].turn].session = snaps'[c].session
                                 /\ snaps'[c].file \in touched'[snaps'[c].turn].seen
    BY <1>1, <1>2, <1>3, <2>1
  <2>3. \A t \in Turns' : \A f \in Files \ touched'[t].seen : touched'[t].last[f] = 0
    BY <1>1 DEF Noted, Turns
  <2> QED
    BY <2>2, <2>3 DEF Noted
<1>8. ASSUME NEW s \in Sessions, Complete(s)', NEW t, NEW f
      PROVE  Complete(s) /\ Pre(s, t, f)' = Pre(s, t, f) /\ Post(s, t, f)' = Post(s, t, f)
  <2>1. Shots(s, t, f)' = Shots(s, t, f)
    BY <1>3, <1>8 DEF Shots
  <2> QED
    BY <1>3, <1>8, <2>1 DEF Pre, Post, Shots
<1>9. ASSUME NEW s \in Sessions, NEW t \in Turns', turn'[t].session = s,
             NEW f \in touched'[t].seen
      PROVE  /\ t \in Turns /\ turn[t].session = s
             /\ f \in touched[t].seen /\ touched'[t] = touched[t]
  BY <1>1, <1>2, <1>5, <1>9
<1>10. ASSUME NEW s \in Sessions, NEW t \in Turns, NEW f, FoundImage(s, t, f),
              touched'[t] = touched[t]
       PROVE  FoundImage(s, t, f)'
  <2>1. CASE Complete(s)' /\ touched[t].first[f] # 0 /\ ~ Large(touched[t].first[f])
    <3>1. /\ Pre(s, t, f)' = Pre(s, t, f) /\ Complete(s)
      BY <1>8, <2>1
    <3>2. \A c \in Pre(s, t, f) : snaps'[c] = snaps[c]
      BY <1>3, <3>1 DEF Pre, Shots
    <3> QED
      BY <1>10, <2>1, <3>1, <3>2 DEF FoundImage
  <2> QED
    BY <1>10, <2>1 DEF FoundImage
<1>11. ASSUME NEW s \in Sessions, NEW t \in Turns, NEW f, LeftImage(s, t, f),
              touched'[t] = touched[t]
       PROVE  LeftImage(s, t, f)'
  <2>1. CASE Complete(s)' /\ touched[t].last[f] # 0
    <3>1. /\ Post(s, t, f)' = Post(s, t, f) /\ Complete(s)
      BY <1>8, <2>1
    <3>2. \A c \in Post(s, t, f) : snaps'[c] = snaps[c]
      BY <1>3, <3>1 DEF Post, Shots
    <3> QED
      BY <1>11, <2>1, <3>1, <3>2 DEF LeftImage
  <2> QED
    BY <1>11, <2>1 DEF LeftImage
<1>12. Found'
  BY <1>1, <1>9, <1>10 DEF Found
<1>13. Left'
  BY <1>1, <1>9, <1>11 DEF Left
<1>14. AtWork'
  <2>1. ASSUME NEW s \in Sessions, tool'[s] # NoTool
        PROVE  LET c == tool'[s].call
                   t == tool'[s].turn
               IN  /\ turn'[t].session = s /\ tool'[s].file \in touched'[t].seen
                   /\ \A d \in DOMAIN snaps' : snaps'[d].session = s => d <= c
                   /\ c \in DOMAIN snaps' => /\ snaps'[c].session = s /\ snaps'[c].turn = t
                                             /\ snaps'[c].file = tool'[s].file
                   /\ ~ tool'[s].aborted /\ Complete(s)' /\ tool'[s].file \in touched'[t].exact =>
                        c \in DOMAIN snaps'
    <3> DEFINE c == tool[s].call
               t == tool[s].turn
    <3>1. /\ tool[s] # NoTool /\ tool'[s].file = tool[s].file
          /\ tool'[s].call = c /\ tool'[s].turn = t
          /\ tool[s].aborted => tool'[s].aborted
      BY <1>4, <2>1
    <3>2. /\ turn[t].session = s /\ tool[s].file \in touched[t].seen
          /\ \A d \in DOMAIN snaps : snaps[d].session = s => d <= c
          /\ c \in DOMAIN snaps => /\ snaps[c].session = s /\ snaps[c].turn = t
                                   /\ snaps[c].file = tool[s].file
          /\ ~ tool[s].aborted /\ Complete(s) /\ tool[s].file \in touched[t].exact =>
               c \in DOMAIN snaps
      BY <1>1, <3>1 DEF AtWork
    <3>3. t \in Turns
      BY <1>1, <3>1 DEF FileShape, ToolCalls
    <3> HIDE DEF c, t
    <3>4. touched'[t] = touched[t] /\ turn'[t].session = turn[t].session
      BY <1>1, <1>2, <3>3
    <3>5. c \in DOMAIN snaps' => c \in DOMAIN snaps /\ snaps'[c] = snaps[c]
      BY <1>3
    <3>6. \A d \in DOMAIN snaps' : snaps'[d].session = s => d <= c
      BY <1>3, <3>2
    <3>7. Complete(s)' => Complete(s) /\ (c \in DOMAIN snaps => c \in DOMAIN snaps')
      BY <1>3, <3>2
    <3> QED
      BY <3>1, <3>2, <3>4, <3>5, <3>6, <3>7
  <2>2. NoTool' = NoTool
    BY DEF NoTool
  <2> QED
    BY <2>1, <2>2 DEF AtWork
<1> QED
  BY <1>6, <1>7, <1>12, <1>13, <1>14 DEF FileInv

\* What a tool finds is recorded: rows of the session may go to make room, and
\* then the session no longer counts.
Shot(s, f, n, row) ==
  /\ DOMAIN snaps' \subseteq DOMAIN snaps \cup {n}
  /\ \A c \in DOMAIN snaps' : snaps'[c] = IF c = n THEN row ELSE snaps[c]
  /\ \A c \in DOMAIN snaps : snaps[c].session # s => c \in DOMAIN snaps'
  /\ n \in DOMAIN snaps' => disk[f] # 0
  /\ s \notin evicted' => /\ DOMAIN snaps \subseteq DOMAIN snaps'
                          /\ disk[f] # 0 => n \in DOMAIN snaps'
  /\ evicted \subseteq evicted' /\ evicted' \subseteq evicted \cup {s}

LEMMA ShotFacts ==
  ASSUME NEW s \in Sessions, NEW f \in Files, BeginTool(s, f), FileShape,
         NEW row, row = [session |-> s, turn |-> head[s], file |-> f,
                         pre |-> IF Large(disk[f]) THEN 0 ELSE disk[f], post |-> 0]
  PROVE  Shot(s, f, calls + 1, row)
<1> DEFINE n == calls + 1
           rows == [c \in DOMAIN snaps \cup {n} |-> IF c = n THEN row ELSE snaps[c]]
           image == IF Large(disk[f]) THEN 0 ELSE disk[f]
<1>1. /\ snaps' = IF disk[f] = 0 THEN snaps
                  ELSE IF image = 0 THEN rows ELSE WithinCap(s, rows)
      /\ evicted' = IF disk[f] # 0 /\ DOMAIN snaps' # DOMAIN rows
                      THEN evicted \cup {s} ELSE evicted
  BY DEF BeginTool
<1>2. n \notin DOMAIN snaps
  BY DEF FileShape
<1>3. row.session = s
  OBVIOUS
<1> HIDE DEF image
<1>4. PICK K : /\ K \subseteq DOMAIN rows
               /\ \A c \in DOMAIN rows : rows[c].session # s => c \in K
               /\ WithinCap(s, rows) = [c \in K |-> rows[c]]
  <2> DEFINE From(c) == {d \in DOMAIN rows : /\ d >= c /\ rows[d].session = s
                                             /\ rows[d].pre # 0}
             K == {c \in DOMAIN rows : \/ rows[c].session # s
                                       \/ Cardinality(From(c)) <= MaxImages}
  <2>1. WithinCap(s, rows) = [c \in K |-> rows[c]]
    BY Zenon DEF WithinCap, Restrict
  <2> HIDE DEF From
  <2>2. K \subseteq DOMAIN rows /\ \A c \in DOMAIN rows : rows[c].session # s => c \in K
    BY Zenon
  <2> QED
    BY <2>1, <2>2
<1>5. /\ \A c \in DOMAIN snaps : rows[c] = snaps[c] /\ c # n
      /\ rows[n] = row /\ DOMAIN rows = DOMAIN snaps \cup {n}
  BY <1>2
<1> HIDE DEF rows, n
<1>6. CASE disk[f] = 0
  BY <1>1, <1>2, <1>6 DEF Shot, n
<1>7. CASE disk[f] # 0 /\ image = 0
  BY <1>1, <1>2, <1>5, <1>7 DEF Shot, n
<1>8. CASE disk[f] # 0 /\ image # 0
  <2>1. snaps' = [c \in K |-> rows[c]]
    BY <1>1, <1>4, <1>8
  <2>2. DOMAIN snaps' = K
    BY <2>1
  <2>3. evicted' = IF K # DOMAIN rows THEN evicted \cup {s} ELSE evicted
    BY <1>1, <1>8, <2>2
  <2> QED
    BY <1>3, <1>4, <1>5, <1>8, <2>1, <2>2, <2>3 DEF Shot, n
<1> QED
  BY <1>6, <1>7, <1>8

\* What a beginning tool notes of its turn.
LEMMA BeginNotes ==
  ASSUME NEW s \in Sessions, NEW f \in Files, BeginTool(s, f), FileShape,
         NEW t \in Turns, t = head[s]
  PROVE  /\ touched' \in Seq(Notes) /\ Len(touched') = Len(touched)
         /\ \A u \in Turns \ {t} : touched'[u] = touched[u]
         /\ touched'[t].seen = touched[t].seen \cup {f}
         /\ touched'[t].last = touched[t].last
         /\ touched'[t].exact \subseteq touched[t].exact
         /\ disk[f] = 0 \/ Large(disk[f]) => f \notin touched'[t].exact
         /\ f \in touched[t].seen => touched'[t].first = touched[t].first
         /\ f \notin touched[t].seen =>
              /\ touched'[t].first[f] = disk[f]
              /\ \A g \in Files \ {f} : touched'[t].first[g] = touched[t].first[g]
<1> DEFINE n == touched[t]
           m == [n EXCEPT !.seen = @ \cup {f},
                          !.first[f] = IF f \in touched[head[s]].seen THEN @ ELSE disk[f],
                          !.exact = IF disk[f] = 0 \/ Large(disk[f]) THEN @ \ {f} ELSE @]
<1>1. touched \in Seq(Notes) /\ Len(touched) = Len(turn) /\ disk[f] \in Nat
  BY DEF FileShape
<1>2. n \in Notes
  BY <1>1 DEF Turns
<1>3. touched' = [touched EXCEPT ![t] = m]
  BY Zenon DEF BeginTool
<1>4. /\ m \in Notes /\ m.seen = n.seen \cup {f} /\ m.last = n.last
      /\ m.exact = IF disk[f] = 0 \/ Large(disk[f]) THEN n.exact \ {f} ELSE n.exact
      /\ m.first = [n.first EXCEPT ![f] = IF f \in n.seen THEN @ ELSE disk[f]]
  BY <1>1, <1>2 DEF Notes
<1> HIDE DEF m, n
<1>5. /\ f \in n.seen => m.first = n.first
      /\ f \notin n.seen =>
            m.first[f] = disk[f] /\ \A g \in Files \ {f} : m.first[g] = n.first[g]
  BY <1>1, <1>2, <1>4 DEF Notes
<1>6. /\ touched' \in Seq(Notes) /\ Len(touched') = Len(touched)
      /\ \A u \in 1 .. Len(touched) : touched'[u] = IF u = t THEN m ELSE touched[u]
  <2>1. t \in 1 .. Len(touched)
    BY <1>1 DEF Turns
  <2> QED
    BY <1>1, <1>3, <1>4, <2>1, ExceptSeq
<1>7. touched'[t] = m /\ \A u \in Turns \ {t} : touched'[u] = touched[u]
  BY <1>1, <1>6 DEF Turns
<1> QED
  BY <1>4, <1>5, <1>6, <1>7 DEF n

LEMMA BeginFiles ==
  ASSUME TreeInv, FileInv, NEW s \in Sessions, NEW f \in Files, BeginTool(s, f)
  PROVE  FileInv'
<1> DEFINE t == head[s]
           n == calls + 1
           image == IF Large(disk[f]) THEN 0 ELSE disk[f]
           row == [session |-> s, turn |-> t, file |-> f, pre |-> image, post |-> 0]
<1>1. /\ FileShape /\ Noted /\ Found /\ Left /\ AtWork
      /\ turn' = turn /\ head' = head /\ deleted' = deleted /\ disk' = disk
      /\ calls' = n /\ tool[s] = NoTool /\ Live(s)
      /\ tool' = [tool EXCEPT ![s] = [file |-> f, call |-> n, turn |-> t, aborted |-> FALSE]]
  BY DEF BeginTool, FileInv, sessionVars
<1>2. /\ t \in Turns /\ turn[t].session = s
      /\ Len(turn) \in Nat /\ \A u \in Turns : turn[u].session \in Sessions
  BY <1>1, TreeFacts DEF TreeInv, Live, Turns
<1>3. /\ calls \in Nat /\ DOMAIN snaps \subseteq 1 .. calls /\ disk \in [Files -> Nat]
      /\ \A c \in DOMAIN snaps : snaps[c] \in Snapshots
      /\ tool \in [Sessions -> {NoTool} \cup ToolCalls] /\ evicted \subseteq Sessions
      /\ touched \in Seq(Notes) /\ Len(touched) = Len(turn)
  BY <1>1 DEF FileShape
<1>4. Shot(s, f, n, row)
  BY <1>1, ShotFacts
<1>5. /\ touched' \in Seq(Notes) /\ Len(touched') = Len(touched)
      /\ \A u \in Turns \ {t} : touched'[u] = touched[u]
      /\ touched'[t].seen = touched[t].seen \cup {f}
      /\ touched'[t].last = touched[t].last
      /\ touched'[t].exact \subseteq touched[t].exact
      /\ disk[f] = 0 \/ Large(disk[f]) => f \notin touched'[t].exact
      /\ f \in touched[t].seen => touched'[t].first = touched[t].first
      /\ f \notin touched[t].seen =>
           /\ touched'[t].first[f] = disk[f]
           /\ \A g \in Files \ {f} : touched'[t].first[g] = touched[t].first[g]
  <2>1. FileShape /\ t \in Turns
    BY <1>1, <1>2
  <2> HIDE <1>1
  <2> QED
    BY <2>1, BeginNotes, SMTT(30)
<1>6. image \in Nat /\ (image # 0 <=> disk[f] # 0 /\ ~ Large(disk[f]))
      /\ (image # 0 => image = disk[f])
  BY <1>3
<1>7. /\ row.session = s /\ row.turn = t /\ row.file = f /\ row.pre = image
      /\ row.post = 0 /\ row \in Snapshots
  BY <1>2, <1>6 DEF Snapshots
<1>8. PICK q \in BOOLEAN : q = FALSE
  OBVIOUS
<1>9. tool' = [tool EXCEPT ![s] = [file |-> f, call |-> n, turn |-> t, aborted |-> q]]
  BY <1>1, <1>8
<1>10. ~ q
  BY <1>8
<1> HIDE DEF row, image
<1>11. PICK work : /\ work = [file |-> f, call |-> n, turn |-> t, aborted |-> q]
                   /\ tool' = [tool EXCEPT ![s] = work]
  BY <1>9
<1>12. /\ work.file = f /\ work.call = n /\ work.turn = t /\ ~ work.aborted
       /\ work \in ToolCalls'
  BY <1>1, <1>2, <1>3, <1>10, <1>11 DEF ToolCalls, Turns
<1>13. \A x \in Sessions : tool'[x] = IF x = s THEN work ELSE tool[x]
  BY <1>3, <1>11
<1>14. tool' \in [Sessions -> {NoTool} \cup ToolCalls']
  <2>1. ToolCalls \subseteq ToolCalls'
    BY <1>1, <1>3 DEF ToolCalls, Turns
  <2> QED
    BY <1>3, <1>11, <1>12, <2>1
<1>15. turn' = turn /\ deleted' = deleted /\ disk' = disk /\ calls' = n /\ tool[s] = NoTool
       /\ FileShape /\ Noted /\ Found /\ Left /\ AtWork
  BY <1>1
<1> HIDE <1>1, <1>8, <1>9, <1>11
<1>16. n \notin DOMAIN snaps /\ n \in Nat /\ \A c \in DOMAIN snaps : c < n
  BY <1>3
<1>17. /\ DOMAIN snaps' \subseteq DOMAIN snaps \cup {n}
       /\ \A c \in DOMAIN snaps' : snaps'[c] = IF c = n THEN row ELSE snaps[c]
       /\ \A c \in DOMAIN snaps : snaps[c].session # s => c \in DOMAIN snaps'
       /\ s \notin evicted' => /\ DOMAIN snaps \subseteq DOMAIN snaps'
                               /\ disk[f] # 0 => n \in DOMAIN snaps'
       /\ evicted \subseteq evicted' /\ evicted' \subseteq evicted \cup {s}
       /\ n \in DOMAIN snaps' => disk[f] # 0
  BY <1>4 DEF Shot
<1>18. FileShape'
  <2>1. \A c \in DOMAIN snaps' : snaps'[c] \in Snapshots'
    BY <1>3, <1>7, <1>15, <1>17 DEF Snapshots, Turns
  <2>2. DOMAIN snaps' \subseteq 1 .. n
    BY <1>3, <1>17
  <2>3. evicted' \subseteq Sessions
    BY <1>3, <1>17
  <2>4. NoTool' = NoTool
    BY DEF NoTool
  <2> QED
    BY <1>3, <1>5, <1>14, <1>15, <1>16, <2>1, <2>2, <2>3, <2>4 DEF FileShape, Notes
<1>19. Noted'
  <2>1. ASSUME NEW c \in DOMAIN snaps'
        PROVE  /\ turn'[snaps'[c].turn].session = snaps'[c].session
               /\ snaps'[c].file \in touched'[snaps'[c].turn].seen
    <3>1. CASE c = n
      BY <1>2, <1>5, <1>7, <1>15, <1>17, <3>1
    <3>2. CASE c # n
      <4>1. /\ c \in DOMAIN snaps /\ snaps'[c] = snaps[c] /\ snaps[c].turn \in Turns
            /\ turn[snaps[c].turn].session = snaps[c].session
            /\ snaps[c].file \in touched[snaps[c].turn].seen
        BY <1>3, <1>15, <1>17, <3>2 DEF Noted, Snapshots
      <4> QED
        BY <1>5, <1>15, <4>1
    <3> QED
      BY <3>1, <3>2
  <2>2. \A u \in Turns : \A g \in Files \ touched'[u].seen : touched'[u].last[g] = 0
    BY <1>2, <1>5, <1>15 DEF Noted
  <2> QED
    BY <1>15, <2>1, <2>2 DEF Noted, Turns
<1>20. ASSUME NEW x \in Sessions, Complete(x)', NEW u \in Turns, turn[u].session = x,
              NEW g \in Files
       PROVE  /\ Complete(x)
              /\ Shots(x, u, g) \subseteq DOMAIN snaps
              /\ Shots(x, u, g)' =
                   IF u = t /\ g = f /\ disk[f] # 0 THEN Shots(x, u, g) \cup {n}
                   ELSE Shots(x, u, g)
              /\ \A c \in Shots(x, u, g) : snaps'[c] = snaps[c] /\ c < n
              /\ u = t /\ g = f /\ disk[f] # 0 => snaps'[n] = row
  <2>1. Complete(x)
    BY <1>15, <1>17, <1>20 DEF Complete
  <2>2. /\ \A c \in DOMAIN snaps : snaps[c].session = x => c \in DOMAIN snaps' /\ c # n
        /\ x = s /\ disk[f] # 0 => n \in DOMAIN snaps'
    BY <1>16, <1>17, <1>20 DEF Complete
  <2>3. \A c \in DOMAIN snaps' : /\ c # n => c \in DOMAIN snaps /\ snaps'[c] = snaps[c]
                                 /\ c = n => snaps'[c] = row /\ disk[f] # 0
    BY <1>17
  <2>4. \A c : c \in Shots(x, u, g)' <=>
                 c \in Shots(x, u, g) \/ (c = n /\ u = t /\ g = f /\ disk[f] # 0)
    BY <1>2, <1>7, <1>16, <1>20, <2>2, <2>3 DEF Shots
  <2>5. Shots(x, u, g) \subseteq DOMAIN snaps
    BY DEF Shots
  <2>6. \A c \in Shots(x, u, g) : snaps'[c] = snaps[c] /\ c < n
    BY <1>16, <1>20, <2>2, <2>3 DEF Shots
  <2>7. u = t /\ g = f /\ disk[f] # 0 => snaps'[n] = row
    BY <1>2, <1>20, <2>2, <2>3
  <2> QED
    BY <2>1, <2>4, <2>5, <2>6, <2>7
<1>21. Found'
  <2>1. ASSUME NEW x \in Sessions, NEW u \in Turns, turn[u].session = x,
               NEW g \in touched'[u].seen, Complete(x)',
               touched'[u].first[g] # 0, ~ Large(touched'[u].first[g])
        PROVE  \E c \in Pre(x, u, g)' : /\ snaps'[c].pre = touched'[u].first[g]
                                        /\ \A d \in Pre(x, u, g)' : c <= d
    <3>1. g \in Files
      <4>1. touched'[u] \in Notes
        BY <1>2, <1>3, <1>5 DEF Turns
      <4> QED
        BY <2>1, <4>1 DEF Notes
    <3>2. /\ Complete(x)
          /\ Shots(x, u, g)' = IF u = t /\ g = f /\ disk[f] # 0 THEN Shots(x, u, g) \cup {n}
                               ELSE Shots(x, u, g)
          /\ \A c \in Shots(x, u, g) : snaps'[c] = snaps[c] /\ c < n /\ c \in Nat
          /\ u = t /\ g = f /\ disk[f] # 0 => snaps'[n] = row
      <4>1. Shots(x, u, g) \subseteq Nat
        BY <1>3 DEF Shots
      <4> QED
        BY <1>20, <2>1, <3>1, <4>1
    <3>3. CASE g \in touched[u].seen
      <4>1. touched'[u].first[g] = touched[u].first[g]
        BY <1>2, <1>5, <3>1, <3>3
      <4>2. PICK c \in Pre(x, u, g) : /\ snaps[c].pre = touched[u].first[g]
                                      /\ \A d \in Pre(x, u, g) : c <= d
        BY <1>15, <2>1, <3>2, <3>3, <4>1 DEF Found, FoundImage
      <4>3. c \in Pre(x, u, g)' /\ snaps'[c] = snaps[c] /\ c < n
        BY <3>2, <4>2 DEF Pre
      <4>4. \A d \in Pre(x, u, g)' : d \in Pre(x, u, g) \/ d = n
        BY <3>2 DEF Pre
      <4>5. c <= n
        BY <1>16, <3>2, <4>2 DEF Pre
      <4> QED
        BY <4>1, <4>2, <4>3, <4>4, <4>5
    <3>4. CASE g \notin touched[u].seen
      <4>1. u = t /\ g = f /\ touched'[u].first[g] = disk[f]
        BY <1>5, <2>1, <3>4
      <4>2. Shots(x, u, g) = {}
        BY <1>15, <3>4 DEF Noted, Shots
      <4>3. row.pre = disk[f] /\ disk[f] # 0
        BY <1>6, <1>7, <2>1, <4>1
      <4>4. Pre(x, u, g)' = {n} /\ snaps'[n] = row
        BY <3>2, <4>1, <4>2, <4>3 DEF Pre
      <4> QED
        BY <1>16, <4>1, <4>3, <4>4
    <3> QED
      BY <3>3, <3>4
  <2> QED
    BY <1>15, <2>1 DEF Found, FoundImage, Turns
<1>22. Left'
  <2>1. ASSUME NEW x \in Sessions, NEW u \in Turns, turn[u].session = x,
               NEW g \in touched'[u].seen \cap touched'[u].exact, Complete(x)',
               touched'[u].last[g] # 0
        PROVE  \E c \in Post(x, u, g)' : /\ snaps'[c].post = touched'[u].last[g]
                                         /\ \A d \in Post(x, u, g)' : d <= c
    <3>1. g \in Files
      <4>1. touched'[u] \in Notes
        BY <1>2, <1>3, <1>5 DEF Turns
      <4> QED
        BY <2>1, <4>1 DEF Notes
    <3>2. touched'[u].last = touched[u].last /\ g \in touched[u].exact
      BY <1>2, <1>5, <2>1
    <3>3. g \in touched[u].seen
      BY <1>15, <2>1, <3>1, <3>2 DEF Noted
    <3>4. /\ Complete(x)
          /\ Shots(x, u, g)' = IF u = t /\ g = f /\ disk[f] # 0 THEN Shots(x, u, g) \cup {n}
                               ELSE Shots(x, u, g)
          /\ \A c \in Shots(x, u, g) : snaps'[c] = snaps[c]
          /\ u = t /\ g = f /\ disk[f] # 0 => snaps'[n] = row
      BY <1>20, <2>1, <3>1
    <3>5. Post(x, u, g)' = Post(x, u, g)
      BY <1>7, <3>4 DEF Post
    <3>6. PICK c \in Post(x, u, g) : /\ snaps[c].post = touched[u].last[g]
                                     /\ \A d \in Post(x, u, g) : d <= c
      BY <1>15, <2>1, <3>2, <3>3, <3>4 DEF Left, LeftImage
    <3>7. snaps'[c] = snaps[c]
      BY <3>4, <3>6 DEF Post
    <3> QED
      BY <3>2, <3>5, <3>6, <3>7
  <2> QED
    BY <1>15, <2>1 DEF Left, LeftImage, Turns
<1>23. AtWork'
  <2>1. NoTool' = NoTool
    BY DEF NoTool
  <2>2. ASSUME NEW x \in Sessions, tool'[x] # NoTool
        PROVE  LET c == tool'[x].call
                   u == tool'[x].turn
               IN  /\ turn[u].session = x /\ tool'[x].file \in touched'[u].seen
                   /\ \A d \in DOMAIN snaps' : snaps'[d].session = x => d <= c
                   /\ c \in DOMAIN snaps' => /\ snaps'[c].session = x /\ snaps'[c].turn = u
                                             /\ snaps'[c].file = tool'[x].file
                   /\ ~ tool'[x].aborted /\ Complete(x)' /\ tool'[x].file \in touched'[u].exact =>
                        c \in DOMAIN snaps'
    <3>1. CASE x = s
      <4>1. tool'[x] = work
        BY <1>13, <3>1
      <4>2. \A d \in DOMAIN snaps' : d <= n
        BY <1>3, <1>16, <1>17
      <4>3. n \in DOMAIN snaps' => snaps'[n] = row
        BY <1>17
      <4>4. Complete(s)' /\ f \in touched'[t].exact => n \in DOMAIN snaps'
        BY <1>5, <1>17 DEF Complete
      <4> QED
        BY <1>2, <1>5, <1>7, <1>12, <3>1, <4>1, <4>2, <4>3, <4>4
    <3>2. CASE x # s
      <4> DEFINE c == tool[x].call
                 u == tool[x].turn
      <4>1. tool'[x] = tool[x] /\ tool[x] # NoTool /\ tool[x] \in ToolCalls
        BY <1>3, <1>13, <2>2, <3>2
      <4>2. /\ turn[u].session = x /\ tool[x].file \in touched[u].seen
            /\ \A d \in DOMAIN snaps : snaps[d].session = x => d <= c
            /\ c \in DOMAIN snaps => /\ snaps[c].session = x /\ snaps[c].turn = u
                                     /\ snaps[c].file = tool[x].file
            /\ ~ tool[x].aborted /\ Complete(x) /\ tool[x].file \in touched[u].exact =>
                 c \in DOMAIN snaps
        BY <1>15, <4>1 DEF AtWork
      <4>3. u \in Turns /\ c \in 1 .. calls
        BY <4>1 DEF ToolCalls
      <4> HIDE DEF c, u
      <4>4. u # t /\ touched'[u] = touched[u] /\ c # n
        BY <1>2, <1>3, <1>5, <3>2, <4>2, <4>3
      <4>5. c \in DOMAIN snaps' => c \in DOMAIN snaps /\ snaps'[c] = snaps[c]
        BY <1>17, <4>4
      <4>6. c \in DOMAIN snaps => c \in DOMAIN snaps'
        BY <1>17, <3>2, <4>2
      <4>7. \A d \in DOMAIN snaps' : snaps'[d].session = x => d <= c
        BY <1>7, <1>17, <3>2, <4>2
      <4>8. Complete(x)' => Complete(x)
        BY <1>15, <1>17 DEF Complete
      <4>9. tool'[x].call = c /\ tool'[x].turn = u
        BY <4>1 DEF c, u
      <4> QED
        BY <4>1, <4>2, <4>4, <4>5, <4>6, <4>7, <4>8, <4>9
    <3> QED
      BY <3>1, <3>2
  <2> QED
    BY <1>15, <2>1, <2>2 DEF AtWork
<1> QED
  BY <1>18, <1>19, <1>21, <1>22, <1>23 DEF FileInv

Ends(s, content) == \E posted \in BOOLEAN : EndTool(s, content, posted)

\* What an ending tool notes of its turn.
LEMMA EndNotes ==
  ASSUME NEW s \in Sessions, NEW content \in Nat, Ends(s, content), FileShape,
         NEW t \in Turns, t = tool[s].turn, NEW f \in Files, f = tool[s].file
  PROVE  /\ touched' \in Seq(Notes) /\ Len(touched') = Len(touched)
         /\ \A u \in Turns \ {t} : touched'[u] = touched[u]
         /\ touched'[t].seen = touched[t].seen
         /\ touched'[t].first = touched[t].first
         /\ touched'[t].exact \subseteq touched[t].exact
         /\ content = 0 \/ tool[s].aborted => f \notin touched'[t].exact
         /\ touched'[t].last[f] = content
         /\ \A g \in Files \ {f} : /\ touched'[t].last[g] = touched[t].last[g]
                                   /\ g \in touched[t].exact => g \in touched'[t].exact
<1> DEFINE n == touched[t]
           m == [n EXCEPT !.last[f] = content,
                          !.exact = IF content = 0 \/ tool[s].aborted THEN @ \ {f} ELSE @]
<1>1. touched \in Seq(Notes) /\ Len(touched) = Len(turn)
  BY DEF FileShape
<1>2. n \in Notes
  BY <1>1 DEF Turns
<1>3. touched' = [touched EXCEPT ![t] = m]
  BY Zenon DEF Ends, EndTool
<1>4. PICK E : /\ m = [n EXCEPT !.last[f] = content, !.exact = E]
               /\ E \subseteq n.exact /\ (content = 0 \/ tool[s].aborted => f \notin E)
               /\ \A g \in Files \ {f} : g \in n.exact => g \in E
  <2>1. CASE content = 0 \/ tool[s].aborted
    <3> DEFINE E == n.exact \ {f}
    <3>1. m = [n EXCEPT !.last[f] = content, !.exact = E]
      BY <2>1
    <3>2. E \subseteq n.exact /\ f \notin E /\ \A g \in Files \ {f} : g \in n.exact => g \in E
      OBVIOUS
    <3> HIDE DEF E, m, n
    <3> QED
      BY <3>1, <3>2
  <2>2. CASE ~ (content = 0 \/ tool[s].aborted)
    <3>1. m = [n EXCEPT !.last[f] = content, !.exact = n.exact]
      BY <2>2
    <3> QED
      BY <2>2, <3>1
  <2> QED
    BY <2>1, <2>2
<1> HIDE DEF m, n
<1>5. /\ m \in Notes /\ m.seen = n.seen /\ m.first = n.first /\ m.exact = E
      /\ m.last = [n.last EXCEPT ![f] = content]
  BY <1>2, <1>4 DEF Notes
<1>6. m.last[f] = content /\ \A g \in Files \ {f} : m.last[g] = n.last[g]
  BY <1>2, <1>5 DEF Notes
<1>7. /\ touched' \in Seq(Notes) /\ Len(touched') = Len(touched)
      /\ \A u \in 1 .. Len(touched) : touched'[u] = IF u = t THEN m ELSE touched[u]
  <2>1. t \in 1 .. Len(touched)
    BY <1>1 DEF Turns
  <2> QED
    BY <1>1, <1>3, <1>5, <2>1, ExceptSeq
<1>8. touched'[t] = m /\ \A u \in Turns \ {t} : touched'[u] = touched[u]
  BY <1>1, <1>7 DEF Turns
<1> QED
  <2>1. /\ touched'[t].exact \subseteq touched[t].exact
        /\ content = 0 \/ tool[s].aborted => f \notin touched'[t].exact
        /\ \A g \in Files \ {f} : g \in touched[t].exact => g \in touched'[t].exact
    <3>1. touched'[t].exact = E
      BY <1>5, <1>8
    <3> QED
      BY <1>4, <3>1 DEF n
  <2>2. /\ touched'[t].seen = touched[t].seen /\ touched'[t].first = touched[t].first
        /\ touched'[t].last[f] = content
        /\ \A g \in Files \ {f} : touched'[t].last[g] = touched[t].last[g]
    BY <1>5, <1>6, <1>8 DEF n
  <2> QED
    BY <1>7, <1>8, <2>1, <2>2

LEMMA EndFiles ==
  ASSUME TreeInv, FileInv, NEW s \in Sessions, NEW content \in Nat, NEW posted \in BOOLEAN,
         EndTool(s, content, posted)
  PROVE  FileInv'
<1> DEFINE f == tool[s].file
           t == tool[s].turn
           c0 == tool[s].call
<1>1. /\ FileShape /\ Noted /\ Found /\ Left /\ AtWork
      /\ turn' = turn /\ deleted' = deleted /\ calls' = calls /\ evicted' = evicted
      /\ tool[s] # NoTool /\ (posted \/ tool[s].aborted)
      /\ disk' = [disk EXCEPT ![f] = content]
      /\ snaps' = IF posted /\ content # 0
                    THEN [c \in DOMAIN snaps |->
                            IF c = c0 THEN [snaps[c] EXCEPT !.post = content] ELSE snaps[c]]
                    ELSE snaps
      /\ tool' = [tool EXCEPT ![s] = NoTool]
  BY DEF EndTool, FileInv, sessionVars
<1>2. /\ calls \in Nat /\ DOMAIN snaps \subseteq 1 .. calls /\ disk \in [Files -> Nat]
      /\ \A c \in DOMAIN snaps : snaps[c] \in Snapshots
      /\ tool \in [Sessions -> {NoTool} \cup ToolCalls] /\ evicted \subseteq Sessions
      /\ touched \in Seq(Notes) /\ Len(touched) = Len(turn)
  BY <1>1 DEF FileShape
<1>3. tool[s] \in ToolCalls /\ f \in Files /\ t \in Turns /\ c0 \in Nat
  BY <1>1, <1>2 DEF ToolCalls
<1>4. /\ turn[t].session = s /\ f \in touched[t].seen
      /\ \A d \in DOMAIN snaps : snaps[d].session = s => d <= c0
      /\ c0 \in DOMAIN snaps => /\ snaps[c0].session = s /\ snaps[c0].turn = t
                                /\ snaps[c0].file = f
      /\ ~ tool[s].aborted /\ Complete(s) /\ f \in touched[t].exact => c0 \in DOMAIN snaps
  BY <1>1 DEF AtWork
<1>5. /\ touched' \in Seq(Notes) /\ Len(touched') = Len(touched)
      /\ \A u \in Turns \ {t} : touched'[u] = touched[u]
      /\ touched'[t].seen = touched[t].seen
      /\ touched'[t].first = touched[t].first
      /\ touched'[t].exact \subseteq touched[t].exact
      /\ content = 0 \/ tool[s].aborted => f \notin touched'[t].exact
      /\ touched'[t].last[f] = content
      /\ \A g \in Files \ {f} : /\ touched'[t].last[g] = touched[t].last[g]
                                /\ g \in touched[t].exact => g \in touched'[t].exact
  <2>1. FileShape /\ t \in Turns /\ f \in Files
    BY <1>1, <1>3
  <2>2. Ends(s, content)
    BY Zenon DEF Ends
  <2> QED
    BY <2>1, <2>2, EndNotes
<1>6. /\ DOMAIN snaps' = DOMAIN snaps
      /\ \A c \in DOMAIN snaps :
           /\ snaps'[c] \in Snapshots /\ snaps'[c].session = snaps[c].session
           /\ snaps'[c].turn = snaps[c].turn /\ snaps'[c].file = snaps[c].file
           /\ snaps'[c].pre = snaps[c].pre
           /\ c # c0 => snaps'[c].post = snaps[c].post
           /\ c = c0 /\ posted /\ content # 0 => snaps'[c].post = content
  <2>1. CASE posted /\ content # 0
    <3>1. /\ DOMAIN snaps' = DOMAIN snaps
          /\ \A c \in DOMAIN snaps :
               snaps'[c] = IF c = c0 THEN [snaps[c] EXCEPT !.post = content] ELSE snaps[c]
      BY <1>1, <2>1
    <3> HIDE DEF c0
    <3> QED
      BY <1>2, <3>1 DEF Snapshots
  <2>2. CASE ~ (posted /\ content # 0)
    BY <1>1, <1>2, <2>2
  <2> QED
    BY <2>1, <2>2
<1>7. \A x \in Sessions : tool'[x] = IF x = s THEN NoTool ELSE tool[x]
  BY <1>1, <1>2
<1>8. /\ turn' = turn /\ deleted' = deleted /\ calls' = calls /\ evicted' = evicted
      /\ (posted \/ tool[s].aborted) /\ disk' \in [Files -> Nat]
      /\ tool' \in [Sessions -> {NoTool} \cup ToolCalls]
      /\ FileShape /\ Noted /\ Found /\ Left /\ AtWork
  BY <1>1, <1>2
<1>9. NoTool' = NoTool /\ ToolCalls' = ToolCalls /\ Snapshots' = Snapshots /\ Turns' = Turns
  BY <1>8 DEF NoTool, ToolCalls, Snapshots, Turns
<1> HIDE <1>1
<1> HIDE DEF f, t, c0
<1>10. FileShape'
  BY <1>2, <1>5, <1>6, <1>8, <1>9 DEF FileShape, Notes
<1>11. Noted'
  <2>1. \A u \in Turns : touched'[u].seen = touched[u].seen
    BY <1>5
  <2>2. ASSUME NEW c \in DOMAIN snaps'
        PROVE  /\ turn'[snaps'[c].turn].session = snaps'[c].session
               /\ snaps'[c].file \in touched'[snaps'[c].turn].seen
    BY <1>2, <1>6, <1>8, <2>1 DEF Noted, Snapshots
  <2>3. ASSUME NEW u \in Turns, NEW g \in Files, g \notin touched[u].seen
        PROVE  touched'[u].last[g] = 0
    BY <1>4, <1>5, <1>8, <2>3 DEF Noted
  <2> QED
    BY <1>9, <2>1, <2>2, <2>3 DEF Noted
<1>12. ASSUME NEW x, NEW u, NEW g
       PROVE  /\ Shots(x, u, g)' = Shots(x, u, g) /\ Shots(x, u, g) \subseteq DOMAIN snaps
              /\ Pre(x, u, g)' = Pre(x, u, g)
  <2>1. Shots(x, u, g)' = Shots(x, u, g) /\ Shots(x, u, g) \subseteq DOMAIN snaps
    BY <1>6 DEF Shots
  <2> QED
    BY <1>6, <2>1 DEF Pre
<1>13. Found'
  <2>1. ASSUME NEW x \in Sessions, NEW u \in Turns, turn[u].session = x,
               NEW g \in touched'[u].seen
        PROVE  FoundImage(x, u, g)'
    <3>1. FoundImage(x, u, g) /\ touched'[u].first = touched[u].first
      BY <1>5, <1>8, <2>1 DEF Found
    <3>2. Complete(x)' <=> Complete(x)
      BY <1>8 DEF Complete
    <3>3. \A c \in Pre(x, u, g) : snaps'[c].pre = snaps[c].pre
      BY <1>6 DEF Pre, Shots
    <3> QED
      BY <1>12, <3>1, <3>2, <3>3 DEF FoundImage
  <2> QED
    BY <1>8, <1>9, <2>1 DEF Found
<1>14. Left'
  <2>1. ASSUME NEW x \in Sessions, NEW u \in Turns, turn[u].session = x,
               NEW g \in touched'[u].seen \cap touched'[u].exact
        PROVE  LeftImage(x, u, g)'
    <3>1. g \in touched[u].seen \cap touched[u].exact /\ g \in Files
      <4>1. touched[u] \in Notes
        BY <1>2 DEF Turns
      <4>2. g \in touched[u].seen \cap touched[u].exact
        BY <1>5, <2>1
      <4> QED
        BY <4>1, <4>2 DEF Notes
    <3>2. Complete(x)' <=> Complete(x)
      BY <1>8 DEF Complete
    <3>3. CASE u = t /\ g = f
      <4>1. content # 0 /\ posted /\ ~ tool[s].aborted /\ x = s
        BY <1>4, <1>5, <1>8, <2>1, <3>3
      <4>2. CASE Complete(x)
        <5>1. c0 \in DOMAIN snaps /\ snaps'[c0].post = content
          BY <1>4, <1>6, <3>1, <3>3, <4>1, <4>2
        <5>2. c0 \in Shots(x, u, g)'
          BY <1>4, <1>6, <3>3, <4>1, <5>1 DEF Shots
        <5>3. c0 \in Post(x, u, g)'
          BY <4>1, <5>1, <5>2 DEF Post
        <5>4. \A d \in Post(x, u, g)' : d <= c0
          BY <1>4, <1>6, <4>1 DEF Post, Shots
        <5> QED
          BY <1>5, <3>3, <5>1, <5>3, <5>4 DEF LeftImage
      <4> QED
        BY <3>2, <4>2 DEF LeftImage
    <3>4. CASE ~ (u = t /\ g = f)
      <4>1. touched'[u].last[g] = touched[u].last[g]
        BY <1>5, <3>1, <3>4
      <4>2. \A c \in Shots(x, u, g) : snaps'[c].post = snaps[c].post
        BY <1>4, <1>6, <3>4 DEF Shots
      <4>3. Post(x, u, g)' = Post(x, u, g)
        BY <1>12, <4>2 DEF Post
      <4>4. LeftImage(x, u, g)
        BY <1>8, <2>1, <3>1 DEF Left
      <4> QED
        BY <3>2, <4>1, <4>2, <4>3, <4>4 DEF LeftImage, Post
    <3> QED
      BY <3>3, <3>4
  <2> QED
    BY <1>8, <1>9, <2>1 DEF Left
<1>15. AtWork'
  <2>1. ASSUME NEW x \in Sessions, tool'[x] # NoTool
        PROVE  LET c == tool'[x].call
                   u == tool'[x].turn
               IN  /\ turn[u].session = x /\ tool'[x].file \in touched'[u].seen
                   /\ \A d \in DOMAIN snaps' : snaps'[d].session = x => d <= c
                   /\ c \in DOMAIN snaps' => /\ snaps'[c].session = x /\ snaps'[c].turn = u
                                             /\ snaps'[c].file = tool'[x].file
                   /\ ~ tool'[x].aborted /\ Complete(x)' /\ tool'[x].file \in touched'[u].exact =>
                        c \in DOMAIN snaps'
    <3> DEFINE c == tool[x].call
               u == tool[x].turn
    <3>1. tool'[x] = tool[x] /\ tool[x] # NoTool /\ tool[x] \in ToolCalls
      BY <1>2, <1>7, <2>1
    <3>2. /\ turn[u].session = x /\ tool[x].file \in touched[u].seen
          /\ \A d \in DOMAIN snaps : snaps[d].session = x => d <= c
          /\ c \in DOMAIN snaps => /\ snaps[c].session = x /\ snaps[c].turn = u
                                   /\ snaps[c].file = tool[x].file
          /\ ~ tool[x].aborted /\ Complete(x) /\ tool[x].file \in touched[u].exact =>
               c \in DOMAIN snaps
      BY <1>8, <3>1 DEF AtWork
    <3>3. u \in Turns
      BY <3>1 DEF ToolCalls
    <3>4. tool'[x].call = c /\ tool'[x].turn = u
      BY <3>1
    <3> HIDE DEF c, u
    <3>5. touched'[u].seen = touched[u].seen /\ touched'[u].exact \subseteq touched[u].exact
      BY <1>5, <3>3
    <3>6. Complete(x)' <=> Complete(x)
      BY <1>8 DEF Complete
    <3>7. \A d \in DOMAIN snaps' : snaps'[d].session = x => d <= c
      BY <1>6, <3>2
    <3> QED
      BY <1>6, <3>1, <3>2, <3>4, <3>5, <3>6, <3>7
  <2> QED
    BY <1>8, <1>9, <2>1 DEF AtWork
<1> QED
  BY <1>10, <1>11, <1>13, <1>14, <1>15 DEF FileInv

\* What undo and redo write.
LEMMA RestoredFiles ==
  ASSUME FileShape, NEW s, NEW t
  PROVE  Backward(s, t) \in [Files -> Nat] /\ Forward(s, t) \in [Files -> Nat]
<1>1. /\ disk \in [Files -> Nat] /\ calls \in Nat /\ DOMAIN snaps \subseteq 0 .. calls
      /\ \A c \in DOMAIN snaps : snaps[c].pre \in Nat /\ snaps[c].post \in Nat
  BY DEF FileShape, Snapshots
<1>2. ASSUME NEW f \in Files
      PROVE  /\ Backward(s, t)[f] \in Nat /\ Forward(s, t)[f] \in Nat
  <2> DEFINE A == {c \in Shots(s, t, f) : snaps[c].pre # 0}
             B == {c \in Shots(s, t, f) : snaps[c].post # 0}
  <2>1. A \subseteq DOMAIN snaps /\ B \subseteq DOMAIN snaps
    BY DEF Shots
  <2>2. /\ Backward(s, t)[f] = IF A = {} THEN disk[f] ELSE snaps[Min(A)].pre
        /\ Forward(s, t)[f] = IF B = {} THEN disk[f] ELSE snaps[Max(B)].post
    BY DEF Backward, Forward
  <2> HIDE DEF A, B
  <2>3. A # {} => Min(A) \in DOMAIN snaps
    <3>1. A \subseteq Nat
      BY <1>1, <2>1
    <3> QED
      BY <2>1, <3>1, MinFacts
  <2>4. B # {} => Max(B) \in DOMAIN snaps
    BY <1>1, <2>1, MaxFacts
  <2> QED
    BY <1>1, <2>2, <2>3, <2>4
<1>3. /\ Backward(s, t) = [f \in Files |-> Backward(s, t)[f]]
      /\ Forward(s, t) = [f \in Files |-> Forward(s, t)[f]]
  BY DEF Backward, Forward
<1> QED
  BY <1>2, <1>3

\* The length of a table whose domain is known.
LEMMA SameLength ==
  ASSUME NEW n \in Nat, NEW m \in Nat, 1 .. n = 1 .. m
  PROVE  n = m
<1>1. CASE n < m
  <2>1. m \in 1 .. m /\ m \notin 1 .. n
    BY <1>1
  <2> QED
    BY <2>1
<1>2. CASE m < n
  <2>1. n \in 1 .. n /\ n \notin 1 .. m
    BY <1>2
  <2> QED
    BY <2>1
<1> QED
  BY <1>1, <1>2

\* A turn comes with what is noted of it.
Counted == \/ touched' = touched /\ Len(turn') = Len(turn)
           \/ touched' = Append(touched, NewTouched) /\ Len(turn') = Len(turn) + 1

LEMMA SameTurns ==
  ASSUME Tree(turn, head), Tree(turn', head'), touched' = touched, DOMAIN turn' = DOMAIN turn
  PROVE  Counted
<1>1. /\ Len(turn) \in Nat /\ DOMAIN turn = 1 .. Len(turn)
      /\ Len(turn') \in Nat /\ DOMAIN turn' = 1 .. Len(turn')
  BY TreeFacts
<1> QED
  BY <1>1, SameLength DEF Counted

LEMMA OneMoreTurn ==
  ASSUME Tree(turn, head), Tree(turn', head'), touched' = Append(touched, NewTouched),
         NEW s \in Sessions, NEW p \in 0 .. Len(turn), p # 0 => turn[p].session = s,
         DOMAIN turn' = DOMAIN Append(turn, Turn(s, p))
  PROVE  Counted
<1> DEFINE us == Append(turn, Turn(s, p))
<1>1. Table(us) /\ Len(us) = Len(turn) + 1
  BY TreeFacts, AppendTurn
<1>2. DOMAIN turn' = DOMAIN us
  OBVIOUS
<1> HIDE DEF us
<1>3. /\ Len(turn) \in Nat /\ Len(us) \in Nat /\ DOMAIN us = 1 .. Len(us)
      /\ Len(turn') \in Nat /\ DOMAIN turn' = 1 .. Len(turn')
  BY <1>1, TreeFacts, TableFacts
<1>4. Len(turn') = Len(us)
  BY <1>2, <1>3, SameLength
<1> QED
  BY <1>1, <1>4 DEF Counted

LEMMA CountedWrites ==
  ASSUME TreeInv, NEW s \in Sessions, Writes(s)
  PROVE  Counted
<1>1. Tree(turn, head) /\ Tree(turn', head')
  BY WritesTree DEF TreeInv
<1>2. ASSUME NEW x \in Sessions, NEW p, NewSession(x, p)
      PROVE  Counted
  <2>1. /\ touched' = Append(touched, NewTouched)
        /\ DOMAIN turn' = DOMAIN Append(turn, Turn(x, 0))
    BY <1>2, Zenon DEF NewSession
  <2>2. 0 \in 0 .. Len(turn)
    BY <1>1, TreeFacts
  <2> QED
    BY <1>1, <2>1, <2>2, OneMoreTurn
<1>3. CASE (\E p \in Sessions \cup {NoSession} : Create(s, p)) \/ \E copy \in Sessions : Fork(s, copy)
  BY <1>2, <1>3 DEF Create, Fork
<1>4. CASE AppendUser(s)
  <2>1. /\ touched' = Append(touched, NewTouched)
        /\ DOMAIN turn' = DOMAIN Append(turn, Turn(s, head[s]))
    BY <1>4, Zenon DEF AppendUser, ActivePath
  <2>2. head[s] \in 0 .. Len(turn) /\ turn[head[s]].session = s
    BY <1>1, <1>4, TreeFacts DEF AppendUser, Live
  <2> QED
    BY <1>1, <2>1, <2>2, OneMoreTurn
<1>5. CASE Undo(s) \/ Redo(s)
  <2>1. touched' = touched
    BY <1>5 DEF Undo, Redo
  <2>2. DOMAIN turn' = DOMAIN turn
    BY <1>5, Zenon DEF Undo, Redo, UndoneTurns, ActivePath
  <2> QED
    BY <1>1, <2>1, <2>2, SameTurns
<1>6. CASE \/ AppendItem(s) \/ SavePartial(s) \/ ClearPartial(s) \/ Uncompact(s)
           \/ \E keep \in KeepCounts : Compact(s, keep)
  BY <1>6 DEF Counted, AppendItem, SavePartial, ClearPartial, Uncompact, Compact,
              sessionVars, fileVars
<1> QED
  BY <1>3, <1>4, <1>5, <1>6 DEF Writes

LEMMA CountedMigration ==
  ASSUME TreeInv, Migrate
  PROVE  Counted
<1>1. Tree(turn, head) /\ Tree(turn', head')
  BY MigrateTree DEF TreeInv, Grown
<1>2. PICK s \in Sessions :
        \/ turn' = Append(turn, Turn(s, 0)) /\ touched' = Append(touched, NewTouched)
        \/ /\ turn' = [u \in Turns |-> [turn[u] EXCEPT !.active = u \in OnSomePath]]
           /\ touched' = touched
  BY DEF Migrate
<1>3. CASE turn' = Append(turn, Turn(s, 0)) /\ touched' = Append(touched, NewTouched)
  <2>1. 0 \in 0 .. Len(turn)
    BY <1>1, TreeFacts
  <2>2. DOMAIN turn' = DOMAIN Append(turn, Turn(s, 0))
    BY <1>3
  <2> QED
    BY <1>1, <1>3, <2>1, <2>2, OneMoreTurn
<1>4. CASE /\ turn' = [u \in Turns |-> [turn[u] EXCEPT !.active = u \in OnSomePath]]
           /\ touched' = touched
  <2>1. DOMAIN turn' = 1 .. Len(turn)
    BY <1>4, Zenon DEF Turns
  <2>2. DOMAIN turn = 1 .. Len(turn)
    BY <1>1, TreeFacts
  <2>3. touched' = touched
    BY <1>4
  <2> HIDE <1>4
  <2> QED
    BY <1>1, <2>1, <2>2, <2>3, SameTurns
<1> QED
  BY <1>2, <1>3, <1>4

\* The steps of tools, and the others.
LEMMA QuietWrites ==
  ASSUME TreeInv, FileShape, NEW s \in Sessions, Writes(s)
  PROVE  Quiet
<1>1. Counted
  BY CountedWrites
<1>2. /\ snaps' = snaps /\ calls' = calls /\ evicted' = evicted /\ deleted' = deleted
  BY DEF Writes, Create, AppendUser, AppendItem, SavePartial, ClearPartial, Compact,
         Uncompact, Undo, Redo, Fork, sessionVars, fileVars
<1>3. /\ disk' \in [Files -> Nat]
      /\ tool' = tool \/ \E S : tool' = Aborted(S)
  <2>1. CASE Undo(s)
    BY <2>1, RestoredFiles DEF Undo
  <2>2. CASE Redo(s)
    BY <2>2, RestoredFiles DEF Redo
  <2>3. CASE disk' = disk /\ tool' = tool
    BY <2>3 DEF FileShape
  <2>4. CASE ~ Undo(s) /\ ~ Redo(s)
    <3>1. disk' = disk /\ tool' = tool
      BY <2>4 DEF Writes, Create, AppendUser, AppendItem, SavePartial, ClearPartial, Compact,
         Uncompact, Fork, fileVars
    <3> QED
      BY <2>3, <3>1
  <2> QED
    BY <2>1, <2>2, <2>4
<1>4. \A x \in Sessions : Complete(x)' => Complete(x)
  BY <1>2 DEF Complete
<1>5. evicted' \subseteq Sessions
  BY <1>2 DEF FileShape
<1> QED
  BY <1>1, <1>2, <1>3, <1>4, <1>5 DEF Quiet, Counted

LEMMA QuietDelete ==
  ASSUME FileShape, NEW s \in Sessions, Delete(s)
  PROVE  Quiet
<1>1. /\ turn' = turn /\ touched' = touched /\ calls' = calls /\ evicted' = evicted
      /\ disk' = disk /\ tool' = Aborted(Subtree(s)) /\ deleted \subseteq deleted'
      /\ snaps' = Restrict(snaps, {c \in DOMAIN snaps : snaps[c].session \notin deleted'})
  BY DEF Delete
<1>2. /\ DOMAIN snaps' = {c \in DOMAIN snaps : snaps[c].session \notin deleted'}
      /\ \A c \in DOMAIN snaps' : snaps'[c] = snaps[c]
  BY <1>1 DEF Restrict
<1>3. \A x \in Sessions : Complete(x)' =>
        Complete(x) /\ \A c \in DOMAIN snaps : snaps[c].session = x => c \in DOMAIN snaps'
  BY <1>1, <1>2 DEF Complete
<1>4. evicted' \subseteq Sessions /\ disk' \in [Files -> Nat]
  BY <1>1 DEF FileShape
<1> QED
  BY <1>1, <1>2, <1>3, <1>4 DEF Quiet

LEMMA QuietOthers ==
  ASSUME FileShape, UNCHANGED <<turn, deleted, fileVars>>
  PROVE  Quiet
<1>1. /\ turn' = turn /\ deleted' = deleted /\ disk' = disk /\ snaps' = snaps
      /\ tool' = tool /\ calls' = calls /\ touched' = touched /\ evicted' = evicted
  BY DEF fileVars
<1>2. evicted' \subseteq Sessions /\ disk' \in [Files -> Nat]
  BY <1>1 DEF FileShape
<1> QED
  BY <1>1, <1>2 DEF Quiet, Complete

LEMMA FileSteps ==
  ASSUME TreeInv, FileShape, [Next]_vars
  PROVE  \/ Quiet
         \/ \E s \in Sessions, f \in Files : BeginTool(s, f)
         \/ \E s \in Sessions, content \in Nat, posted \in BOOLEAN : EndTool(s, content, posted)
<1>1. CASE UNCHANGED vars \/ ReadNextPage \/ StopReading
  <2>1. UNCHANGED <<turn, deleted, fileVars>>
    BY <1>1 DEF vars, ReadNextPage, StopReading, sessionVars
  <2> QED
    BY <2>1, QuietOthers
<1>2. CASE Migrate
  <2>1. /\ snaps' = snaps /\ calls' = calls /\ evicted' = evicted /\ deleted' = deleted
        /\ tool' = tool /\ disk' = disk
    BY <1>2 DEF Migrate
  <2>2. Counted
    BY <1>2, CountedMigration
  <2> QED
    BY <2>1, <2>2 DEF Quiet, Counted, Complete, FileShape
<1>3. ASSUME NEW s \in Sessions, Writes(s)
      PROVE  Quiet
  BY <1>3, QuietWrites
<1>4. ASSUME NEW s \in Sessions, Delete(s)
      PROVE  Quiet
  BY <1>4, QuietDelete
<1>5. ASSUME NEW s \in Sessions, NEW status, ReadFirstPage(s) \/ Remember(s, status)
      PROVE  Quiet
  <2>1. UNCHANGED <<turn, deleted, fileVars>>
    BY <1>5 DEF ReadFirstPage, Remember, sessionVars
  <2> QED
    BY <2>1, QuietOthers
<1>6. ASSUME NEW i, NEW status, SetStatus(i, status)
      PROVE  Quiet
  <2>1. UNCHANGED <<turn, deleted, fileVars>>
    BY <1>6 DEF SetStatus, sessionVars
  <2> QED
    BY <2>1, QuietOthers
<1>7. ASSUME NEW s \in Sessions, NEW content \in 0 .. 2 * MaxTools + 2, NEW posted \in BOOLEAN,
             EndTool(s, content, posted)
      PROVE  content \in Nat
  OBVIOUS
<1> QED
  BY <1>1, <1>2, <1>3, <1>4, <1>5, <1>6, <1>7 DEF Next, Writes

LEMMA FileStep ==
  ASSUME TreeInv, MessageInv, FileInv, [Next]_vars
  PROVE  FileInv'
<1>1. FileShape /\ Keeps(turn, head, turn', head')
  BY TreeStep DEF FileInv
<1>2. CASE Quiet
  BY <1>1, <1>2, QuietFiles
<1>3. ASSUME NEW s \in Sessions, NEW f \in Files, BeginTool(s, f)
      PROVE  FileInv'
  BY <1>3, BeginFiles
<1>4. ASSUME NEW s \in Sessions, NEW content \in Nat, NEW posted \in BOOLEAN,
             EndTool(s, content, posted)
      PROVE  FileInv'
  BY <1>4, EndFiles
<1> QED
  BY <1>1, <1>2, <1>3, <1>4, FileSteps

-----------------------------------------------------------------------------
(* The databases a process starts with *)

\* The parts of the state that are the same in all of them.
Started ==
  /\ uses \in Profiles
  /\ parent = [s \in Sessions |-> NoSession] /\ deleted = {} /\ visible = {}
  /\ compactions = [s \in Sessions |-> << >>]
  /\ disk = [f \in Files |-> 1] /\ snaps = << >> /\ tool = [s \in Sessions |-> NoTool]
  /\ calls = 0 /\ touched = [u \in Turns |-> NewTouched] /\ evicted = {}
  /\ memory = << >> /\ reader = NoReader

LEMMA StartedParts ==
  ASSUME Started, Len(turn) \in Nat
  PROVE  MemoryInv /\ ReaderInv /\ FileInv
<1>1. FileShape
  <2>1. touched \in Seq(Notes) /\ Len(touched) = Len(turn)
    <3>1. NewTouched \in Notes
      BY DEF NewTouched, Notes
    <3>2. touched \in [1 .. Len(turn) -> Notes]
      BY <3>1 DEF Started, Turns
    <3> QED
      BY <3>2, FunctionIsSeq
  <2>2. DOMAIN snaps = {}
    BY DEF Started
  <2>3. /\ disk \in [Files -> Nat] /\ calls \in Nat /\ evicted \subseteq Sessions
        /\ tool \in [Sessions -> {NoTool} \cup ToolCalls]
    BY DEF Started
  <2> QED
    BY <2>1, <2>2, <2>3 DEF FileShape
<1>2. Noted /\ Found /\ Left /\ AtWork
  <2>1. DOMAIN snaps = {} /\ \A s \in Sessions : tool[s] = NoTool
    BY DEF Started
  <2>2. \A t \in Turns : touched[t] = NewTouched
    BY DEF Started
  <2>3. NewTouched.seen = {} /\ \A f \in Files : NewTouched.last[f] = 0
    BY DEF NewTouched
  <2> QED
    BY <2>1, <2>2, <2>3 DEF Noted, Found, Left, AtWork
<1>3. MemoryInv
  BY DEF Started, MemoryInv
<1>4. ReaderInv
  BY DEF Started, ReaderInv, Reading
<1> QED
  BY <1>1, <1>2, <1>3, <1>4 DEF FileInv

\* Without rows, or with visible ones only, there is nothing to recover.
LEMMA StartedMessages ==
  ASSUME Started, NEW m \in 0 .. MaxMessages[uses], lastId = m,
         DOMAIN msg \subseteq 1 .. m, NEW s \in Sessions,
         \A i \in DOMAIN msg : /\ msg[i] \in Rows /\ msg[i].session = s
                               /\ ~ msg[i].partial
                               /\ msg[i].turn # 0 => turn[msg[i].turn].session = s,
         "legacy" \in uses \/ DOMAIN msg = {}, migrated => DOMAIN msg = {}
  PROVE  MessageInv /\ Projected
<1>1. compactions = [x \in Sessions |-> << >>] /\ visible = {} /\ uses \in Profiles
  BY DEF Started
<1>2. \A x \in Sessions : DOMAIN compactions[x] = {}
  BY <1>1
<1>3. compactions \in [Sessions -> Seq(SUBSET (1 .. lastId))]
  BY <1>1
<1>4. MessageShape
  BY <1>1, <1>3 DEF MessageShape
<1>5. Recorded /\ Recoverable
  BY <1>2 DEF Recorded, Recoverable
<1>6. Projected
  BY <1>1 DEF Projected
<1> QED
  BY <1>4, <1>5, <1>6 DEF MessageInv

LEMMA FreshInv ==
  ASSUME Started, NEW s \in Sessions, FreshDatabase(s)
  PROVE  IInv
<1> DEFINE h0 == [x \in Sessions |-> 0]
           t0 == << >>
<1>1. Rooted(t0, h0, s, turn, head)
  <2>1. turn = Append(t0, Turn(s, 0))
    <3>1. turn = <<Turn(s, 0)>>
      BY Zenon DEF FreshDatabase
    <3> QED
      BY <3>1
  <2>2. head = [x \in Sessions |-> IF x = s THEN 1 ELSE 0]
    BY Zenon DEF FreshDatabase
  <2>3. head = [h0 EXCEPT ![s] = Len(t0) + 1] /\ h0[s] = 0
    BY <2>2
  <2> HIDE <2>2 DEF h0, t0
  <2> QED
    BY <2>1, <2>3, Zenon DEF Rooted
<1>2. Tree(t0, h0) /\ Flags(t0, h0) /\ Newest(t0)
  BY DEF Tree, Table, Flags, Newest
<1> HIDE DEF h0, t0
<1>3. Tree(turn, head) /\ Flags(turn, head) /\ Newest(turn)
  BY <1>1, <1>2, NewRootTree
<1>4. migrated /\ migrated \in BOOLEAN
  BY Zenon DEF FreshDatabase
<1>5. DOMAIN msg = {} /\ lastId = 0
  <2>1. msg = << >> /\ lastId = 0
    BY Zenon DEF FreshDatabase
  <2> QED
    BY <2>1
<1>6. TreeInv
  BY <1>3, <1>4, PathIsFlags DEF TreeInv, Started, Unopened
<1>7. Len(turn) \in Nat
  BY <1>3, TreeFacts
<1>8. MessageInv /\ Projected
  <2>1. 0 \in 0 .. MaxMessages[uses]
    BY HistoryAssumption DEF Started
  <2> QED
    BY <1>5, <2>1, StartedMessages
<1> QED
  BY <1>6, <1>7, <1>8, StartedParts DEF IInv

\* The turns of a legacy database, and its messages.
LEMMA LegacyTurnsFacts ==
  ASSUME NEW s \in Sessions, NEW n \in Nat, NEW ts \in LegacyTurns(s, n)
  PROVE  /\ ts \in Seq(TurnRows) /\ Len(ts) = n
         /\ \A u \in 1 .. n : ts[u].session = s /\ ts[u].parent = u - 1
<1>1. PICK A : ts = [u \in 1 .. n |-> [session |-> s, parent |-> u - 1, active |-> u \in A]]
  BY Zenon DEF LegacyTurns
<1>2. ASSUME NEW u \in 1 .. n
      PROVE  ts[u] \in TurnRows /\ ts[u].session = s /\ ts[u].parent = u - 1
  <2>1. PICK p \in Nat : p = u - 1
    OBVIOUS
  <2>2. PICK P \in BOOLEAN : P <=> u \in A
    OBVIOUS
  <2>3. P = (u \in A)
    BY <2>2
  <2>4. ts[u] = [session |-> s, parent |-> p, active |-> P]
    BY <1>1, <2>1, <2>3, Zenon
  <2> HIDE <1>1, <2>2, <2>3
  <2> QED
    BY <2>1, <2>4 DEF TurnRows
<1>3. ts \in [1 .. n -> TurnRows]
  BY <1>1, <1>2, Zenon
<1> HIDE <1>1
<1> QED
  BY <1>2, <1>3, FunctionIsSeq

LEMMA LegacyRow ==
  ASSUME NEW s \in Sessions, NEW n \in 0 .. Len(turn), NEW q \in LegacyRows(s, n)
  PROVE  q \in Rows /\ q.session = s /\ ~ q.partial /\ q.turn \in 0 .. n
<1>1. PICK t \in 0 .. n, h \in BOOLEAN : q = [Row(s, t, "item") EXCEPT !.hidden = h]
  BY DEF LegacyRows
<1>2. /\ q = [session |-> s, turn |-> t, kind |-> "item", hidden |-> h, partial |-> q.partial]
      /\ ~ q.partial /\ q.partial \in BOOLEAN
  BY <1>1 DEF Row
<1>3. t \in 0 .. Len(turn) /\ q.session = s /\ q.turn = t
  BY <1>2
<1> HIDE <1>1
<1> QED
  BY <1>2, <1>3 DEF Rows

LEMMA LegacyInv ==
  ASSUME Started, "legacy" \in uses, NEW s \in Sessions, LegacyDatabase(s)
  PROVE  IInv
<1>1. ~ migrated /\ migrated \in BOOLEAN
  BY Zenon DEF LegacyDatabase
<1>2. PICK n \in {0, 2}, m \in 1 .. 2 :
        /\ turn \in LegacyTurns(s, n)
        /\ \E t \in IF n = 0 THEN {0} ELSE 1 .. n :
             head = [x \in Sessions |-> IF x = s THEN t ELSE 0]
        /\ msg \in [1 .. m -> LegacyRows(s, n)]
        /\ lastId = m
  BY Zenon DEF LegacyDatabase
<1>3. /\ turn \in Seq(TurnRows) /\ Len(turn) = n
      /\ \A u \in 1 .. n : turn[u].session = s /\ turn[u].parent = u - 1
  BY <1>2, LegacyTurnsFacts
<1>4. /\ DOMAIN msg = 1 .. m
      /\ \A i \in 1 .. m : /\ msg[i] \in Rows /\ msg[i].session = s /\ ~ msg[i].partial
                           /\ msg[i].turn \in 0 .. n
  BY <1>2, <1>3, LegacyRow
<1>5. /\ head \in [Sessions -> 0 .. n]
      /\ \A x \in Sessions : x # s => head[x] = 0
      /\ n # 0 => head[s] # 0
      /\ lastId = m
  BY <1>2
<1>6. Tree(turn, head)
  BY <1>3, <1>5 DEF Tree, Table
<1>7. n = 0 => turn = << >>
  BY <1>3, EmptySeq
<1>8. TreeInv
  BY <1>1, <1>3, <1>4, <1>5, <1>6, <1>7
     DEF TreeInv, Started, Unopened, PathIsChain, Turns
<1>9. m \in 0 .. MaxMessages[uses]
  BY HistoryAssumption DEF Started
<1>10. MessageInv /\ Projected
  <2>1. \A i \in DOMAIN msg : msg[i].turn # 0 => turn[msg[i].turn].session = s
    BY <1>3, <1>4
  <2> QED
    BY <1>1, <1>4, <1>5, <1>9, <2>1, StartedMessages
<1> QED
  BY <1>3, <1>8, <1>10, StartedParts DEF IInv

LEMMA InitInv == Init => IInv
<1> SUFFICES ASSUME Init
             PROVE  IInv
  OBVIOUS
<1>1. PICK s \in Sessions :
        IF "legacy" \in uses THEN LegacyDatabase(s) ELSE FreshDatabase(s)
  BY HistoryAssumption DEF Init
<1>2. Started
  BY DEF Init, Started
<1> QED
  BY <1>1, <1>2, FreshInv, LegacyInv

LEMMA NextInv == IInv /\ [Next]_vars => IInv'
<1> SUFFICES ASSUME IInv, [Next]_vars
             PROVE  IInv'
  OBVIOUS
<1>1. TreeInv /\ MessageInv /\ Projected /\ MemoryInv /\ ReaderInv /\ FileInv
  BY DEF IInv
<1>2. TreeInv' /\ Keeps(turn, head, turn', head')
  BY <1>1, TreeStep
<1>3. MessageInv' /\ Projected'
  BY <1>1, MessageStep
<1>4. MemoryInv'
  BY <1>1, <1>2, MemoryStep, TreeFacts DEF TreeInv
<1>5. ReaderInv'
  BY <1>1, <1>3, ReaderStep
<1>6. FileInv'
  BY <1>1, FileStep
<1> QED
  BY <1>2, <1>3, <1>4, <1>5, <1>6 DEF IInv

\* Whatever a process does to a database, the parts fit together: the tree of
\* turns, the messages and the records of compactions, the projection, the
\* memories, what a client has read and the snapshots.
THEOREM InductiveInvariant == Spec => []IInv
<1> QED
  BY InitInv, NextInv, PTL DEF Spec

-----------------------------------------------------------------------------
(* What holds in every state *)

LEMMA InvType == IInv => TypeOK
<1> SUFFICES ASSUME IInv
             PROVE  TypeOK
  OBVIOUS
<1>1. /\ uses \in Profiles /\ lastId \in 0 .. MaxMessages[uses] /\ DOMAIN msg \subseteq 1 .. lastId
      /\ \A i \in DOMAIN msg : msg[i] \in Rows
      /\ visible \subseteq DOMAIN msg
      /\ compactions \in [Sessions -> Seq(SUBSET (1 .. lastId))]
  BY DEF IInv, MessageInv, MessageShape
<1>2. /\ disk \in [Files -> Nat] /\ calls \in Nat /\ DOMAIN snaps \subseteq 1 .. calls
      /\ \A c \in DOMAIN snaps : snaps[c] \in Snapshots
      /\ touched \in Seq(Notes) /\ Len(touched) = Len(turn) /\ evicted \subseteq Sessions
  BY DEF IInv, FileInv, FileShape
<1>3. /\ parent \in [Sessions -> Sessions \cup {NoSession}] /\ migrated \in BOOLEAN
      /\ deleted \subseteq Sessions /\ Tree(turn, head)
  BY DEF IInv, TreeInv
<1>4. head \in [Sessions -> 0 .. Len(turn)] /\ Table(turn)
  BY <1>3 DEF Tree
<1>5. \A u \in Turns : turn[u] \in [session : Sessions, parent : 0 .. u - 1,
                                    active : BOOLEAN]
  <2>1. ASSUME NEW u \in Turns
        PROVE  turn[u] \in [session : Sessions, parent : 0 .. u - 1, active : BOOLEAN]
    <3>1. turn[u] \in TurnRows /\ turn[u].parent < u /\ u \in Nat
      BY <1>4, TableFacts DEF Table, Turns
    <3>2. turn[u].parent \in 0 .. u - 1
      BY <3>1 DEF TurnRows
    <3> QED
      BY <3>1, <3>2 DEF TurnRows
  <2> QED
    BY <2>1
<1>6. DOMAIN touched = Turns
  BY <1>2, LenProperties DEF Turns
<1>7. \A i \in DOMAIN memory : memory[i] \in Entries
  BY DEF IInv, MemoryInv
<1> QED
  BY <1>1, <1>2, <1>3, <1>4, <1>5, <1>6, <1>7 DEF TypeOK, Rows, Snapshots, Entries

\* Every piece of the persisted state has its shape, whatever commands,
\* compactions, forks, tools and deletions come.
THEOREM TypeIsCorrect == Spec => []TypeOK
<1> QED
  BY InductiveInvariant, InvType, PTL

\* The flags set_session_head flips one by one are those of the turns on the
\* way up from the heads: on_active_path never goes astray.
THEOREM FlagsFollowHeads == Spec => []PathIsChain
<1>1. IInv => PathIsChain
  BY DEF IInv, TreeInv
<1> QED
  BY <1>1, InductiveInvariant, PTL

LEMMA InvVisible == IInv => VisibleIsHistory
<1> SUFFICES ASSUME IInv, migrated
             PROVE  visible = UNION {Loaded(s) : s \in Sessions}
  BY DEF VisibleIsHistory
<1>1. /\ Projected /\ PathIsChain /\ MessageShape
      /\ \A i \in DOMAIN msg : msg[i].turn # 0 => turn[msg[i].turn].session = msg[i].session
  BY DEF IInv, TreeInv, MessageInv
<1>2. ASSUME NEW i \in DOMAIN msg
      PROVE  /\ msg[i].session \in Sessions
             /\ i \in Loaded(msg[i].session) <=> Qualifies(msg[i], turn)
  <2>1. msg[i].session \in Sessions /\ msg[i].turn \in 0 .. Len(turn)
    BY <1>1 DEF MessageShape, Rows
  <2>2. msg[i].turn = 0 \/ msg[i].turn \in Turns
    BY <2>1 DEF Turns
  <2>3. msg[i].turn # 0 =>
          (turn[msg[i].turn].active <=> msg[i].turn \in Range(Chain(head[msg[i].session])))
    BY <1>1, <2>2 DEF PathIsChain
  <2> QED
    BY <2>1, <2>3 DEF Loaded, Qualifies
<1>3. \A s \in Sessions : \A i \in Loaded(s) : i \in DOMAIN msg /\ msg[i].session = s
  BY DEF Loaded
<1>4. \A i : i \in visible <=> i \in DOMAIN msg /\ Qualifies(msg[i], turn)
  BY <1>1 DEF Projected
<1>5. \A i : i \in visible <=> \E s \in Sessions : i \in Loaded(s)
  BY <1>2, <1>3, <1>4
<1> QED
  BY <1>5

\* What the triggers keep in visible_history is what load_messages_bounded
\* selects: a client pages through the messages the model is replayed.
THEOREM ClientsSeeTheHistory == Spec => []VisibleIsHistory
<1> QED
  BY InductiveInvariant, InvVisible, PTL

\* Whatever is compacted, appended, undone and compacted again, /uncompact can
\* take everything back, and takes nothing back twice.
THEOREM NothingHiddenForGood == Spec => []HiddenIsRecoverable
<1>1. IInv => HiddenIsRecoverable
  BY DEF IInv, MessageInv, Recorded, Recoverable, HiddenIsRecoverable
<1> QED
  BY <1>1, InductiveInvariant, PTL

\* The pages a client follows to the end miss nothing that was there all the
\* while and repeat nothing, whatever happens between two of them.
THEOREM PagesMissNothing == Spec => []PagesComplete
<1>1. IInv => PagesComplete
  BY ReaderFacts DEF IInv, ReaderInv, Reading, PagesComplete
<1> QED
  BY <1>1, InductiveInvariant, PTL

\* A memory is recalled exactly when it is confirmed and its source stands in
\* the history as shown.
THEOREM MemoriesFollowHistory == Spec => []RecallFollowsHistory
<1>1. IInv => RecallFollowsHistory
  <2> SUFFICES ASSUME IInv, migrated, NEW i \in DOMAIN memory
               PROVE  Recallable(i) <=> /\ memory[i].status = "active"
                                        /\ Live(memory[i].session)
                                        /\ turn[memory[i].turn].active
    BY DEF RecallFollowsHistory
  <2>1. memory[i].turn \in Turns /\ turn[memory[i].turn].session = memory[i].session
    <3>1. memory \in Seq(Entries) /\ turn[memory[i].turn].session = memory[i].session
      BY DEF IInv, MemoryInv
    <3>2. memory[i] \in Entries
      BY <3>1
    <3> QED
      BY <3>1, <3>2 DEF Entries
  <2>2. turn[memory[i].turn].active <=>
          memory[i].turn \in Range(Chain(head[memory[i].session]))
    BY <2>1 DEF IInv, TreeInv, PathIsChain
  <2> QED
    BY <2>2 DEF Recallable
<1> QED
  BY <1>1, InductiveInvariant, PTL

-----------------------------------------------------------------------------
(* What a step does to the files *)

\* Which steps move a head, and where to.
LEMMA HeadSteps ==
  ASSUME TreeInv, [Next]_vars, NEW s \in Sessions, head'[s] # head[s]
  PROVE  \/ Undo(s) /\ head'[s] = turn[head[s]].parent
         \/ Redo(s) /\ head'[s] = NewestChild(head[s])
         \/ head'[s] = Len(turn) + 1
<1>1. head \in [Sessions -> 0 .. Len(turn)]
  BY DEF TreeInv, Tree
<1>2. ~ Calm
  BY DEF Calm
<1>3. CASE Migrate
  <2>1. PICK x \in Sessions : head' = [head EXCEPT ![x] = Len(turn) + 1] \/ head' = head
    BY <1>3 DEF Migrate
  <2> QED
    BY <1>1, <2>1
<1>4. ASSUME NEW x \in Sessions, Writes(x)
      PROVE  \/ Undo(s) /\ head'[s] = turn[head[s]].parent
             \/ Redo(s) /\ head'[s] = NewestChild(head[s])
             \/ head'[s] = Len(turn) + 1
  <2>1. CASE \E y \in Sessions : \E p : NewSession(y, p)
    BY <1>1, <2>1 DEF NewSession
  <2>2. CASE AppendUser(x)
    BY <1>1, <2>2 DEF AppendUser
  <2>3. CASE Undo(x)
    <3>1. head' = [head EXCEPT ![x] = turn[head[x]].parent]
      BY <2>3 DEF Undo
    <3>2. x = s
      BY <1>1, <3>1
    <3> QED
      BY <1>1, <2>3, <3>1, <3>2
  <2>4. CASE Redo(x)
    <3>1. head' = [head EXCEPT ![x] = NewestChild(head[x])]
      BY <2>4 DEF Redo
    <3>2. x = s
      BY <1>1, <3>1
    <3> QED
      BY <1>1, <2>4, <3>1, <3>2
  <2>5. CASE \/ AppendItem(x) \/ SavePartial(x) \/ ClearPartial(x) \/ Uncompact(x)
             \/ \E keep \in KeepCounts : Compact(x, keep)
    BY <2>5 DEF AppendItem, SavePartial, ClearPartial, Uncompact, Compact, sessionVars
  <2>6. CASE \/ \E p \in Sessions \cup {NoSession} : Create(x, p)
             \/ \E copy \in Sessions : Fork(x, copy)
    BY <2>1, <2>6 DEF Create, Fork
  <2> QED
    BY <1>4, <2>2, <2>3, <2>4, <2>5, <2>6 DEF Writes
<1> QED
  BY <1>2, <1>3, <1>4, MessageSteps

LEMMA UndoStep ==
  ASSUME IInv, [Next]_vars, NEW s \in Sessions, head[s] # 0,
         head'[s] = turn[head[s]].parent, NEW f \in touched[head[s]].seen,
         touched[head[s]].first[f] # 0, ~ Large(touched[head[s]].first[f]), s \notin evicted
  PROVE  disk'[f] = touched[head[s]].first[f]
<1> DEFINE t == head[s]
           A == {c \in Shots(s, t, f) : snaps[c].pre # 0}
<1>1. /\ TreeInv /\ FileShape /\ Found /\ t \in Turns /\ turn[t].session = s
      /\ turn[t].parent \in 0 .. t - 1 /\ t \in Nat /\ Len(turn) \in Nat
  BY TreeFacts DEF IInv, TreeInv, FileInv, Turns
<1>2. Undo(s)
  <2>1. head'[s] < t /\ head'[s] # Len(turn) + 1
    BY <1>1 DEF Turns
  <2>2. ASSUME Redo(s), head'[s] = NewestChild(t)
        PROVE  FALSE
    <3>1. NewestChild(t) # 0 /\ t \in 0 .. Len(turn) /\ Tree(turn, head)
      BY <1>1, <2>2 DEF Redo, TreeInv, Turns
    <3>2. /\ NewestChild(t) \in 1 .. Len(turn) /\ turn[NewestChild(t)].parent = t
      BY <3>1, NewestChildFacts
    <3>3. \A u \in 1 .. Len(turn) : turn[u].parent \in 0 .. u - 1
      BY <3>1, TreeFacts
    <3>4. t \in 0 .. NewestChild(t) - 1
      BY <3>2, <3>3
    <3> QED
      BY <1>1, <2>1, <2>2, <3>2, <3>4
  <2> QED
    BY <1>1, <2>1, <2>2, HeadSteps
<1>3. Complete(s) /\ f \in Files
  <2>1. touched[t] \in Notes
    BY <1>1 DEF FileShape, Turns
  <2> QED
    BY <1>2, <2>1 DEF Complete, Undo, Live, Notes
<1>4. PICK c \in Pre(s, t, f) : /\ snaps[c].pre = touched[t].first[f]
                                /\ \A d \in Pre(s, t, f) : c <= d
  BY <1>1, <1>3 DEF Found, FoundImage
<1>5. A = Pre(s, t, f) /\ A \subseteq Nat
  BY <1>1 DEF Pre, Shots, FileShape
<1>6. disk'[f] = IF A = {} THEN disk[f] ELSE snaps[Min(A)].pre
  <2>1. disk' = Backward(s, t)
    BY <1>2 DEF Undo
  <2> QED
    BY <1>3, <2>1 DEF Backward
<1> HIDE DEF A, t
<1>7. Min(A) \in A /\ \A d \in A : Min(A) <= d
  BY <1>4, <1>5, MinFacts
<1>8. Min(A) = c
  BY <1>4, <1>5, <1>7
<1> QED
  BY <1>4, <1>5, <1>6, <1>8 DEF t

\* /undo brings the files a turn's tools found and could snapshot back to what
\* they found, however many tools wrote them, in whatever order, with other
\* sessions at work, as long as no snapshot of the session was pushed out.
THEOREM UndoBringsBack == Spec => UndoRestoresFiles
<1>1. IInv /\ [Next]_vars =>
        [\A s \in Sessions : head[s] # 0 /\ head'[s] = turn[head[s]].parent =>
           \A f \in touched[head[s]].seen :
             LET found == touched[head[s]].first[f]
             IN  found # 0 /\ ~ Large(found) /\ s \notin evicted => disk'[f] = found]_vars
  BY UndoStep
<1> QED
  BY <1>1, InductiveInvariant, PTL DEF Spec, UndoRestoresFiles

LEMMA RedoStep ==
  ASSUME IInv, [Next]_vars, NEW s \in Sessions, head'[s] \in Turns,
         turn[head'[s]].parent = head[s],
         NEW f \in touched[head'[s]].seen \cap touched[head'[s]].exact,
         touched[head'[s]].last[f] # 0, s \notin evicted
  PROVE  disk'[f] = touched[head'[s]].last[f]
<1> DEFINE t == head'[s]
           B == {c \in Shots(s, t, f) : snaps[c].post # 0}
<1>1. /\ TreeInv /\ FileShape /\ Left /\ t \in Turns
      /\ turn[t].parent \in 0 .. t - 1 /\ t \in Nat /\ Len(turn) \in Nat
  BY TreeFacts DEF IInv, TreeInv, FileInv, Turns
<1>2. Redo(s) /\ t = NewestChild(head[s])
  <2>1. t # head[s] /\ t # Len(turn) + 1
    BY <1>1 DEF Turns
  <2>2. ASSUME Undo(s), t = turn[head[s]].parent
        PROVE  FALSE
    <3>1. head[s] \in 1 .. Len(turn)
      BY <1>1, <2>2, TreeFacts DEF Undo, Live, TreeInv
    <3>2. turn[head[s]].parent \in 0 .. head[s] - 1
      BY <1>1, <3>1, TreeFacts DEF TreeInv
    <3> QED
      BY <1>1, <2>2, <3>1, <3>2
  <2> QED
    BY <1>1, <2>1, <2>2, HeadSteps
<1>3. turn[t].session = s
  <2>1. head[s] # 0 /\ turn[head[s]].session = s
    BY <1>1, <1>2, TreeFacts DEF Redo, Live, TreeInv
  <2> QED
    BY <1>1, <2>1 DEF TreeInv, Tree, Table, Turns
<1>4. Complete(s) /\ f \in Files
  <2>1. touched[t] \in Notes
    BY <1>1 DEF FileShape, Turns
  <2> QED
    BY <1>2, <2>1 DEF Complete, Redo, Live, Notes
<1>5. PICK c \in Post(s, t, f) : /\ snaps[c].post = touched[t].last[f]
                                 /\ \A d \in Post(s, t, f) : d <= c
  BY <1>1, <1>3, <1>4 DEF Left, LeftImage
<1>6. B = Post(s, t, f) /\ B \subseteq 0 .. calls /\ calls \in Nat
  BY <1>1 DEF Post, Shots, FileShape
<1>7. disk'[f] = IF B = {} THEN disk[f] ELSE snaps[Max(B)].post
  <2>1. disk' = Forward(s, t)
    BY <1>2 DEF Redo
  <2> QED
    BY <1>4, <2>1 DEF Forward
<1> HIDE DEF B, t
<1>8. Max(B) \in B /\ \A d \in B : d <= Max(B)
  BY <1>5, <1>6, MaxFacts
<1>9. Max(B) = c
  BY <1>5, <1>6, <1>8
<1> QED
  BY <1>5, <1>6, <1>7, <1>9 DEF t

\* /redo brings the files the turn's tools found small enough and did not
\* delete back to what the last of them left.
THEOREM RedoBringsBack == Spec => RedoRestoresFiles
<1>1. IInv /\ [Next]_vars =>
        [\A s \in Sessions : head'[s] \in Turns /\ turn[head'[s]].parent = head[s] =>
           LET now == touched[head'[s]]
           IN  \A f \in now.seen \cap now.exact :
                 now.last[f] # 0 /\ s \notin evicted => disk'[f] = now.last[f]]_vars
  BY RedoStep
<1> QED
  BY <1>1, InductiveInvariant, PTL DEF Spec, RedoRestoresFiles

-----------------------------------------------------------------------------
(* History implements TurnStack: the turns redo would put back *)

\* NewestChild and Redoable in any table.
Child(ts, t) ==
  LET children == {u \in 1 .. Len(ts) : ts[u].parent = t}
  IN  IF t = 0 \/ children = {} THEN 0 ELSE Max(children)
Down(ts, t) ==
  LET after[u \in 0 .. Len(ts)] ==
        IF Child(ts, u) = 0 THEN << >> ELSE <<Child(ts, u)>> \o after[Child(ts, u)]
  IN  after[t]

LEMMA ChildFacts ==
  ASSUME NEW ts, Table(ts), NEW t \in 0 .. Len(ts)
  PROVE  /\ (Child(ts, t) = 0 <=> t = 0 \/ \A u \in 1 .. Len(ts) : ts[u].parent # t)
         /\ Child(ts, t) # 0 => /\ Child(ts, t) \in t + 1 .. Len(ts)
                                /\ ts[Child(ts, t)].parent = t
                                /\ \A u \in 1 .. Len(ts) : ts[u].parent = t =>
                                     u <= Child(ts, t)
<1> DEFINE C == {u \in 1 .. Len(ts) : ts[u].parent = t}
<1>1. Child(ts, t) = IF t = 0 \/ C = {} THEN 0 ELSE Max(C)
  BY DEF Child
<1>2. Len(ts) \in Nat /\ \A u \in 1 .. Len(ts) : ts[u].parent < u /\ ts[u].parent \in Nat
  BY TableFacts
<1>3. C \subseteq 0 .. Len(ts)
  OBVIOUS
<1>4. C # {} => Max(C) \in C /\ \A u \in C : u <= Max(C)
  <2> HIDE DEF C
  <2> QED
    BY <1>2, <1>3, MaxFacts
<1>5. \A u \in C : u \in t + 1 .. Len(ts) /\ ts[u].parent = t
  BY <1>2
<1>6. C = {} \/ C # {}
  OBVIOUS
<1>7. \A u \in 1 .. Len(ts) : ts[u].parent = t => u \in C
  OBVIOUS
<1>8. CASE t = 0 \/ C = {}
  BY <1>1, <1>7, <1>8
<1>9. CASE t # 0 /\ C # {}
  <2>1. Child(ts, t) = Max(C) /\ Max(C) \in C
    BY <1>1, <1>4, <1>9
  <2> HIDE DEF C
  <2> QED
    BY <1>2, <1>4, <1>5, <1>7, <1>9, <2>1
<1> QED
  BY <1>8, <1>9

\* The recursive function Down chooses exists: it is built from the newest turn
\* back.
LEMMA DownExists ==
  ASSUME NEW ts, Table(ts)
  PROVE  \E f : f = [u \in 0 .. Len(ts) |->
                       IF Child(ts, u) = 0 THEN << >>
                       ELSE <<Child(ts, u)>> \o f[Child(ts, u)]]
<1> DEFINE L == Len(ts)
           Step(f, n) == [u \in L - n .. L |->
                            IF Child(ts, u) = 0 THEN << >>
                            ELSE <<Child(ts, u)>> \o f[Child(ts, u)]]
           T == {n \in Nat : n <= L => \E f : f = Step(f, n)}
<1>1. L \in Nat
  BY TableFacts
<1>2. \A u \in 0 .. L : Child(ts, u) # 0 => Child(ts, u) \in u + 1 .. L
  BY ChildFacts
<1> HIDE DEF L
<1>3. 0 \in T
  <2> DEFINE f == [u \in L - 0 .. L |-> << >>]
  <2>1. \A u \in L - 0 .. L : Child(ts, u) = 0
    BY <1>1, <1>2
  <2>2. f = Step(f, 0)
    BY <2>1
  <2> HIDE DEF f, Step
  <2>3. \E g : g = Step(g, 0)
    BY <2>2
  <2> QED
    BY <2>3
<1>4. ASSUME NEW n \in Nat, n \in T
      PROVE  n + 1 \in T
  <2>1. CASE n + 1 <= L
    <3>1. PICK f : f = Step(f, n)
      <4>1. n <= L
        BY <1>1, <2>1
      <4> HIDE DEF Step
      <4> QED
        BY <1>4, <4>1
    <3> DEFINE k == L - (n + 1)
               g == [u \in k .. L |->
                       IF u = k
                       THEN IF Child(ts, u) = 0 THEN << >>
                            ELSE <<Child(ts, u)>> \o f[Child(ts, u)]
                       ELSE f[u]]
    <3>2. k \in Nat /\ L - n = k + 1 /\ k + 1 <= L
      BY <1>1, <2>1
    <3>3. \A u \in k + 1 .. L : f[u] = IF Child(ts, u) = 0 THEN << >>
                                       ELSE <<Child(ts, u)>> \o f[Child(ts, u)]
      BY <3>1, <3>2
    <3> HIDE <3>1 DEF k
    <3>4. \A u \in k + 1 .. L : g[u] = f[u]
      BY <1>1, <3>2
    <3>5. \A u \in k .. L : Child(ts, u) # 0 => Child(ts, u) \in k + 1 .. L
      BY <1>1, <1>2, <3>2
    <3>6. g[k] = IF Child(ts, k) = 0 THEN << >> ELSE <<Child(ts, k)>> \o f[Child(ts, k)]
      BY <1>1, <3>2
    <3>7. g = [u \in k .. L |-> g[u]]
      OBVIOUS
    <3> HIDE DEF g
    <3>8. \A u \in k .. L : g[u] = IF Child(ts, u) = 0 THEN << >>
                                   ELSE <<Child(ts, u)>> \o g[Child(ts, u)]
      <4> SUFFICES ASSUME NEW u \in k .. L
                   PROVE  g[u] = IF Child(ts, u) = 0 THEN << >>
                                 ELSE <<Child(ts, u)>> \o g[Child(ts, u)]
        OBVIOUS
      <4>1. Child(ts, u) # 0 => g[Child(ts, u)] = f[Child(ts, u)]
        BY <3>4, <3>5
      <4>2. g[u] = IF Child(ts, u) = 0 THEN << >> ELSE <<Child(ts, u)>> \o f[Child(ts, u)]
        <5>1. CASE u = k
          BY <3>6, <5>1
        <5>2. CASE u # k
          <6>1. u \in k + 1 .. L
            BY <1>1, <3>2, <5>2
          <6> QED
            BY <3>3, <3>4, <6>1
        <5> QED
          BY <5>1, <5>2
      <4> QED
        BY <4>1, <4>2
    <3>9. g = Step(g, n + 1)
      BY <3>7, <3>8 DEF k
    <3> HIDE DEF Step
    <3>10. \E h : h = Step(h, n + 1)
      BY <3>9
    <3> QED
      BY <3>10
  <2>2. CASE ~ (n + 1 <= L)
    BY <2>2
  <2> QED
    BY <2>1, <2>2
<1>5. Nat \subseteq T
  <2> HIDE DEF T
  <2> QED
    BY <1>3, <1>4, SetInduction
<1>6. \E f : f = Step(f, L)
  <2> HIDE DEF Step
  <2> QED
    BY <1>1, <1>5
<1>7. L - L = 0
  BY <1>1
<1> QED
  BY <1>6, <1>7 DEF L

LEMMA DownUnfolds ==
  ASSUME NEW ts, Table(ts), NEW u \in 0 .. Len(ts)
  PROVE  Down(ts, u) = IF Child(ts, u) = 0 THEN << >>
                       ELSE <<Child(ts, u)>> \o Down(ts, Child(ts, u))
<1> DEFINE Step(f) == [v \in 0 .. Len(ts) |->
                         IF Child(ts, v) = 0 THEN << >>
                         ELSE <<Child(ts, v)>> \o f[Child(ts, v)]]
           c == CHOOSE f : f = Step(f)
<1>1. \A t : Down(ts, t) = c[t]
  BY DEF Down
<1>2. c = Step(c)
  <2>1. \E f : f = Step(f)
    BY DownExists
  <2> HIDE DEF Step
  <2> QED
    BY <2>1
<1> HIDE DEF c
<1>3. c[u] = IF Child(ts, u) = 0 THEN << >> ELSE <<Child(ts, u)>> \o c[Child(ts, u)]
  BY <1>2
<1> QED
  BY <1>1, <1>3

\* Its elements are turns.
LEMMA DownTypes ==
  ASSUME NEW ts, Table(ts)
  PROVE  \A u \in 0 .. Len(ts) : Down(ts, u) \in Seq(1 .. Len(ts))
<1> DEFINE L == Len(ts)
           T == {m \in Nat : m <= L => Down(ts, L - m) \in Seq(1 .. L)}
<1>1. L \in Nat
  BY TableFacts
<1>2. ASSUME NEW m \in Nat, \A k \in 0 .. m - 1 : k \in T
      PROVE  m \in T
  <2>1. CASE m <= L
    <3> DEFINE u == L - m
               c == Child(ts, u)
    <3>1. u \in 0 .. L
      BY <1>1, <2>1
    <3>2. c # 0 => c \in u + 1 .. L
      BY <3>1, ChildFacts
    <3>3. Down(ts, u) = IF c = 0 THEN << >> ELSE <<c>> \o Down(ts, c)
      BY <3>1, DownUnfolds
    <3>4. CASE c = 0
      <4>1. Down(ts, u) = << >> /\ << >> \in Seq(1 .. L)
        BY <3>3, <3>4
      <4> HIDE DEF c
      <4> QED
        BY <4>1
    <3>5. CASE c # 0
      <4> HIDE DEF c
      <4>1. L - c \in 0 .. m - 1 /\ L - (L - c) = c /\ L - c <= L /\ c \in 1 .. L
        BY <1>1, <2>1, <3>2, <3>5
      <4>2. Down(ts, c) \in Seq(1 .. L)
        BY <1>2, <4>1
      <4>3. <<c>> \in Seq(1 .. L)
        BY <4>1
      <4> QED
        <5>1. <<c>> \o Down(ts, c) \in Seq(1 .. L)
          BY <4>2, <4>3, ConcatProperties
        <5> QED
          BY <3>3, <3>5, <5>1
    <3> QED
      BY <3>4, <3>5
  <2> QED
    BY <2>1
<1>3. Nat \subseteq T
  <2> HIDE DEF T
  <2> QED
    BY <1>2, StrongInduction
<1>4. ASSUME NEW u \in 0 .. L
      PROVE  Down(ts, u) \in Seq(1 .. L)
  <2>1. L - u \in Nat /\ L - u <= L /\ L - (L - u) = u
    BY <1>1
  <2> HIDE DEF L
  <2> QED
    BY <1>3, <2>1
<1> QED
  BY <1>4

\* In a table with more turns it is the same for turns that got no new child,
\* nor did a turn below them.
LEMMA DownAgrees ==
  ASSUME NEW ts, NEW us, Table(ts), Table(us), Len(ts) <= Len(us),
         NEW P, P \subseteq 0 .. Len(ts),
         \A u \in P : /\ Child(us, u) = Child(ts, u)
                      /\ (Child(ts, u) # 0 => Child(ts, u) \in P)
  PROVE  \A u \in P : Down(us, u) = Down(ts, u)
<1> DEFINE L == Len(ts)
           T == {m \in Nat : L - m \in P => Down(us, L - m) = Down(ts, L - m)}
<1>1. L \in Nat /\ Len(us) \in Nat
  BY TableFacts
<1>2. ASSUME NEW m \in Nat, \A k \in 0 .. m - 1 : k \in T
      PROVE  m \in T
  <2>1. CASE L - m \in P
    <3> DEFINE u == L - m
               c == Child(ts, u)
    <3>1. u \in 0 .. L /\ u \in 0 .. Len(us) /\ u \in P
      BY <1>1, <2>1
    <3>2. c # 0 => c \in u + 1 .. L /\ c \in P
      BY <3>1, ChildFacts
    <3>3. Down(ts, u) = IF c = 0 THEN << >> ELSE <<c>> \o Down(ts, c)
      BY <3>1, DownUnfolds
    <3>4. Down(us, u) = IF c = 0 THEN << >> ELSE <<c>> \o Down(us, c)
      <4>1. Child(us, u) = c
        BY <3>1
      <4> HIDE DEF c
      <4> QED
        BY <3>1, <4>1, DownUnfolds
    <3>5. c # 0 => Down(us, c) = Down(ts, c)
      <4> HIDE DEF c
      <4>1. c # 0 => L - c \in 0 .. m - 1 /\ L - (L - c) = c
        BY <1>1, <3>1, <3>2
      <4> QED
        BY <1>2, <3>2, <4>1
    <3> QED
      BY <3>3, <3>4, <3>5
  <2> QED
    BY <2>1
<1>3. Nat \subseteq T
  <2> HIDE DEF T
  <2> QED
    BY <1>2, StrongInduction
<1>4. ASSUME NEW u \in P
      PROVE  Down(us, u) = Down(ts, u)
  <2>1. L - u \in Nat /\ L - (L - u) = u
    BY <1>1
  <2> HIDE DEF L
  <2> QED
    BY <1>3, <2>1
<1> QED
  BY <1>4

\* The same turns with other flags, and one turn more.
Stays(ts, us) ==
  /\ Table(us) /\ Len(us) = Len(ts)
  /\ \A u \in 1 .. Len(ts) : us[u].parent = ts[u].parent
Grew(ts, us, s, p) ==
  /\ Table(us) /\ Len(us) = Len(ts) + 1
  /\ \A u \in 1 .. Len(ts) : us[u].parent = ts[u].parent /\ us[u].session = ts[u].session
  /\ us[Len(us)].session = s /\ us[Len(us)].parent = p

LEMMA ChildAgrees ==
  ASSUME NEW ts, NEW us, Table(ts), Table(us), Len(ts) <= Len(us), NEW t \in 0 .. Len(ts),
         \A u \in 1 .. Len(ts) : us[u].parent = ts[u].parent,
         \A u \in 1 .. Len(us) : us[u].parent = t => t = 0 \/ u <= Len(ts)
  PROVE  Child(us, t) = Child(ts, t)
<1> DEFINE c == Child(ts, t)
           d == Child(us, t)
<1>1. /\ Len(ts) \in Nat /\ Len(us) \in Nat /\ t \in 0 .. Len(us)
  BY TableFacts
<1>2. /\ (c = 0 <=> t = 0 \/ \A u \in 1 .. Len(ts) : ts[u].parent # t)
      /\ c # 0 => /\ c \in t + 1 .. Len(ts) /\ ts[c].parent = t
                  /\ \A u \in 1 .. Len(ts) : ts[u].parent = t => u <= c
  BY ChildFacts
<1>3. /\ (d = 0 <=> t = 0 \/ \A u \in 1 .. Len(us) : us[u].parent # t)
      /\ d # 0 => /\ d \in t + 1 .. Len(us) /\ us[d].parent = t
                  /\ \A u \in 1 .. Len(us) : us[u].parent = t => u <= d
  BY <1>1, ChildFacts
<1> HIDE DEF c, d
<1>4. \A u \in 1 .. Len(ts) : u \in 1 .. Len(us)
  BY <1>1
<1>5. CASE t = 0
  BY <1>2, <1>3, <1>5 DEF c, d
<1>6. CASE t # 0
  <2>1. \A u \in 1 .. Len(us) : us[u].parent = t => u \in 1 .. Len(ts)
    BY <1>1, <1>6
  <2>2. c = 0 <=> d = 0
    BY <1>2, <1>3, <1>4, <1>6, <2>1
  <2>3. CASE c # 0
    <3>1. /\ c \in 1 .. Len(ts) /\ d \in 1 .. Len(us)
          /\ ts[c].parent = t /\ us[d].parent = t
      BY <1>1, <1>2, <1>3, <2>2, <2>3
    <3>2. d \in 1 .. Len(ts) /\ ts[d].parent = t /\ us[c].parent = t /\ c \in 1 .. Len(us)
      BY <1>4, <2>1, <3>1
    <3>3. d <= c /\ c <= d
      BY <1>2, <1>3, <2>2, <2>3, <3>1, <3>2
    <3> QED
      BY <1>1, <3>1, <3>2, <3>3 DEF c, d
  <2> QED
    BY <2>2, <2>3 DEF c, d
<1> QED
  BY <1>5, <1>6

LEMMA StaysFacts ==
  ASSUME NEW ts, NEW us, Table(ts), Stays(ts, us)
  PROVE  \A u \in 0 .. Len(ts) : Up(us, u) = Up(ts, u) /\ Down(us, u) = Down(ts, u)
<1>1. /\ Table(us) /\ Len(us) = Len(ts) /\ Len(ts) \in Nat
      /\ \A u \in 1 .. Len(ts) : us[u].parent = ts[u].parent
  BY TableFacts DEF Stays
<1>2. \A u \in 0 .. Len(ts) : Child(us, u) = Child(ts, u)
  BY <1>1, ChildAgrees
<1>3. \A u \in 0 .. Len(ts) : Child(ts, u) # 0 => Child(ts, u) \in 0 .. Len(ts)
  BY <1>1, ChildFacts
<1>4. \A u \in 0 .. Len(ts) : Down(us, u) = Down(ts, u)
  <2> DEFINE P == 0 .. Len(ts)
  <2>1. \A u \in P : Child(us, u) = Child(ts, u) /\ (Child(ts, u) # 0 => Child(ts, u) \in P)
    BY <1>2, <1>3
  <2>2. P \subseteq 0 .. Len(ts) /\ Len(ts) <= Len(us)
    BY <1>1
  <2>3. \A u \in P : Down(us, u) = Down(ts, u)
    <3> HIDE DEF P
    <3> QED
      BY <1>1, <2>1, <2>2, DownAgrees
  <2> QED
    BY <2>3
<1>5. \A u \in 0 .. Len(ts) : Up(us, u) = Up(ts, u)
  BY <1>1, UpAgrees
<1> QED
  BY <1>4, <1>5

LEMMA GrewFacts ==
  ASSUME NEW ts, NEW hd, Tree(ts, hd), NEW s \in Sessions, NEW us, Grew(ts, us, s, hd[s])
  PROVE  /\ \A x \in Sessions : x # s => /\ Up(us, hd[x]) = Up(ts, hd[x])
                                         /\ Down(us, hd[x]) = Down(ts, hd[x])
         /\ Up(us, Len(ts) + 1) = Append(Up(ts, hd[s]), Len(ts) + 1)
         /\ Down(us, Len(ts) + 1) = << >>
<1> DEFINE n == Len(ts) + 1
<1>1. /\ Table(ts) /\ Table(us) /\ Len(us) = n /\ Len(ts) \in Nat /\ n \in 1 .. Len(us)
      /\ \A u \in 1 .. Len(ts) : us[u].parent = ts[u].parent /\ us[u].session = ts[u].session
      /\ us[n].session = s /\ us[n].parent = hd[s]
      /\ \A x \in Sessions : hd[x] \in 0 .. Len(ts)
      /\ \A x \in Sessions : hd[x] # 0 => hd[x] \in 1 .. Len(ts) /\ ts[hd[x]].session = x
  BY TreeFacts DEF Grew
<1>2. \A u \in 0 .. Len(ts) : Up(us, u) = Up(ts, u)
  <2>1. Len(ts) <= Len(us)
    BY <1>1
  <2> QED
    BY <1>1, <2>1, UpAgrees
<1>3. Up(us, n) = Append(Up(ts, hd[s]), n)
  <2>1. Up(us, n) = Append(Up(us, hd[s]), n)
    BY <1>1, UpUnfolds
  <2> HIDE DEF n
  <2> QED
    BY <1>1, <1>2, <2>1
<1>4. Down(us, n) = << >>
  <2>1. n \in 0 .. Len(us) /\ ~ \E c : c \in n + 1 .. Len(us)
    BY <1>1
  <2>2. Child(us, n) = 0
    BY <1>1, <2>1, ChildFacts
  <2> QED
    BY <1>1, <2>1, <2>2, DownUnfolds
<1> DEFINE P == {u \in 0 .. Len(ts) : u # 0 => ts[u].session # s}
<1>5. \A u \in P : Child(us, u) = Child(ts, u)
  <2> SUFFICES ASSUME NEW u \in P PROVE Child(us, u) = Child(ts, u)
    OBVIOUS
  <2>1. u \in 0 .. Len(ts) /\ (u # 0 => ts[u].session # s)
    OBVIOUS
  <2>2. u # 0 => u # hd[s]
    BY <1>1, <2>1
  <2>3. \A v \in 1 .. Len(us) : us[v].parent = u => u = 0 \/ v <= Len(ts)
    BY <1>1, <2>2
  <2>4. Len(ts) <= Len(us)
    BY <1>1
  <2> HIDE DEF P
  <2> QED
    BY <1>1, <2>1, <2>3, <2>4, ChildAgrees
<1>6. \A u \in P : Child(ts, u) # 0 => Child(ts, u) \in P
  <2> SUFFICES ASSUME NEW u \in P, Child(ts, u) # 0 PROVE Child(ts, u) \in P
    OBVIOUS
  <2> DEFINE c == Child(ts, u)
  <2>1. u \in 0 .. Len(ts) /\ (u # 0 => ts[u].session # s)
    OBVIOUS
  <2>2. u # 0 /\ c \in u + 1 .. Len(ts) /\ ts[c].parent = u
    BY <1>1, <2>1, ChildFacts
  <2>3. c \in 1 .. Len(ts) /\ ts[c].session = ts[u].session
    BY <1>1, <2>1, <2>2 DEF Table
  <2> QED
    BY <1>1, <2>1, <2>2, <2>3
<1>7. \A u \in P : Down(us, u) = Down(ts, u)
  <2>1. P \subseteq 0 .. Len(ts) /\ Len(ts) <= Len(us)
    BY <1>1
  <2>2. \A u \in P : Child(us, u) = Child(ts, u) /\ (Child(ts, u) # 0 => Child(ts, u) \in P)
    BY <1>5, <1>6
  <2>3. Table(ts) /\ Table(us)
    BY <1>1
  <2> HIDE DEF P, n
  <2> QED
    BY <2>1, <2>2, <2>3, DownAgrees
<1>8. ASSUME NEW x \in Sessions, x # s
      PROVE  hd[x] \in P /\ hd[x] \in 0 .. Len(ts)
  BY <1>1, <1>8
<1> QED
  BY <1>2, <1>3, <1>4, <1>7, <1>8

-----------------------------------------------------------------------------
(* What a step does to the turns a session is on, and to those it could redo *)

\* The heads stay, a turn is added below one, or one goes back to its parent
\* or on to its newest child.
Still == Stays(turn, turn') /\ head' = head
Added(s) == /\ Grew(turn, turn', s, head[s]) /\ head' = [head EXCEPT ![s] = Len(turn) + 1]
Undone(s) ==
  LET p == turn[head[s]].parent
  IN  /\ Stays(turn, turn') /\ head[s] # 0 /\ p # 0 /\ Child(turn, p) = head[s]
      /\ head' = [head EXCEPT ![s] = p]
Redone(s) ==
  LET c == Child(turn, head[s])
  IN  Stays(turn, turn') /\ head[s] # 0 /\ c # 0 /\ head' = [head EXCEPT ![s] = c]

LEMMA SessionAdds ==
  ASSUME Tree(turn, head), Tree(turn', head'), Keeps(turn, head, turn', head'),
         NEW s \in Sessions, head[s] = 0, turn' = Append(turn, Turn(s, 0)),
         head' = [head EXCEPT ![s] = Len(turn) + 1]
  PROVE  Added(s)
<1>1. Table(turn) /\ Table(turn') /\ Len(turn) \in Nat /\ 0 \in 0 .. Len(turn)
  BY TreeFacts
<1>2. Len(turn') = Len(turn) + 1 /\ turn'[Len(turn) + 1] = Turn(s, 0)
  BY <1>1, AppendTurn
<1>3. turn'[Len(turn')].session = s /\ turn'[Len(turn')].parent = 0
  BY <1>2 DEF Turn
<1> QED
  BY <1>1, <1>2, <1>3 DEF Added, Grew, Keeps

LEMMA UserAdds ==
  ASSUME Tree(turn, head), Tree(turn', head'), Keeps(turn, head, turn', head'),
         NEW s \in Sessions, AppendUser(s)
  PROVE  Added(s)
<1> DEFINE bs == Append(turn, Turn(s, head[s]))
<1>1. /\ head[s] # 0 /\ head' = [head EXCEPT ![s] = Len(turn) + 1]
      /\ turn' = ActivePath(bs, head[s], Len(turn) + 1, FALSE)
  BY DEF AppendUser, Live
<1>2. /\ Table(turn) /\ Table(turn') /\ Len(turn) \in Nat /\ head[s] \in 0 .. Len(turn)
      /\ turn[head[s]].session = s
  <2>1. Table(turn) /\ Table(turn') /\ Len(turn) \in Nat
    BY TreeFacts
  <2>2. head[s] \in 0 .. Len(turn) /\ (head[s] # 0 => turn[head[s]].session = s)
    BY TreeFacts
  <2> QED
    BY <1>1, <2>1, <2>2
<1>3. Table(bs) /\ Len(bs) = Len(turn) + 1 /\ bs[Len(turn) + 1] = Turn(s, head[s])
  BY <1>2, AppendTurn
<1>4. Switched(bs, turn', Len(turn) + 1, {})
  <2> HIDE DEF bs
  <2>1. Switched(bs, ActivePath(bs, head[s], Len(turn) + 1, FALSE), Len(turn) + 1, {})
    BY <1>3, ActivePathOn
  <2> QED
    BY <1>1, <2>1, Zenon
<1>5. bs[Len(turn) + 1].session = s /\ bs[Len(turn) + 1].parent = head[s]
  BY <1>3 DEF Turn
<1>6. head' = [head EXCEPT ![s] = Len(turn) + 1]
  BY <1>1
<1> HIDE <1>1 DEF bs
<1>7. /\ Len(turn') = Len(turn) + 1
      /\ turn'[Len(turn')].session = s /\ turn'[Len(turn')].parent = head[s]
  BY <1>2, <1>3, <1>4, <1>5 DEF Switched
<1> QED
  BY <1>2, <1>6, <1>7 DEF Added, Grew, Keeps

LEMMA UndoMoves ==
  ASSUME TreeInv, Tree(turn', head'), Keeps(turn, head, turn', head'),
         NEW s \in Sessions, Undo(s)
  PROVE  Undone(s)
<1> DEFINE h == head[s]
           p == turn[h].parent
<1>1. h # 0 /\ p # 0 /\ head' = [head EXCEPT ![s] = p] /\ migrated
  BY DEF Undo, Live, Uses
<1>2. turn' = ActivePath(turn, h, p, TRUE)
  BY DEF Undo, UndoneTurns
<1>3. /\ Tree(turn, head) /\ Table(turn) /\ Len(turn) \in Nat /\ Table(turn')
      /\ h \in 1 .. Len(turn) /\ turn[h].session = s /\ p \in 0 .. Len(turn)
  BY <1>1, TreeFacts DEF TreeInv
<1>4. Len(turn') = Len(turn)
  <2>1. Switched(turn, ActivePath(turn, h, p, TRUE), p, {h})
    BY <1>3, ActivePathOff
  <2>2. Switched(turn, turn', p, {h})
    BY <1>2, <2>1, Zenon
  <2> HIDE <1>2, <2>1
  <2> QED
    BY <2>2 DEF Switched
<1> HIDE <1>2
<1>5. turn[h].active
  <2>1. Flags(turn, head)
    BY <1>1, PathIsFlags DEF TreeInv
  <2>2. h \in Line(turn, h)
    BY <1>3, LineUnfolds
  <2> QED
    BY <1>3, <2>1, <2>2 DEF Flags
<1>6. \A v \in 1 .. Len(turn) : turn[v].parent = p => v <= h
  BY <1>1, <1>3, <1>5 DEF TreeInv, Newest
<1>7. Child(turn, p) = h
  <2> DEFINE c == Child(turn, p)
  <2>1. /\ c \in 1 .. Len(turn) /\ turn[c].parent = p
        /\ h <= c
    BY <1>1, <1>3, ChildFacts
  <2> HIDE DEF c
  <2>2. c <= h
    BY <1>6, <2>1
  <2> QED
    BY <1>3, <2>1, <2>2 DEF c
<1> QED
  BY <1>1, <1>3, <1>4, <1>7 DEF Undone, Stays, Keeps

LEMMA RedoMoves ==
  ASSUME Tree(turn, head), Tree(turn', head'), Keeps(turn, head, turn', head'),
         NEW s \in Sessions, Redo(s)
  PROVE  Redone(s)
<1> DEFINE c == NewestChild(head[s])
<1>1. head[s] # 0 /\ c # 0 /\ head' = [head EXCEPT ![s] = c]
  BY DEF Redo, Live
<1>2. turn' = ActivePath(turn, head[s], c, FALSE)
  BY DEF Redo
<1>3. c = Child(turn, head[s])
  BY DEF NewestChild, Child, Turns
<1> HIDE DEF c
<1>4. Table(turn) /\ Table(turn')
  BY TreeFacts
<1>5. Len(turn') = Len(turn)
  <2>1. Switched(turn, ActivePath(turn, head[s], c, FALSE), c, {})
    BY <1>4, ActivePathOn
  <2>2. Switched(turn, turn', c, {})
    BY <1>2, <2>1, Zenon
  <2> HIDE <1>2, <2>1
  <2> QED
    BY <2>2 DEF Switched
<1> HIDE <1>2
<1> QED
  BY <1>1, <1>3, <1>4, <1>5 DEF Redone, Stays, Keeps

LEMMA TurnMoves ==
  ASSUME TreeInv, MessageInv, [Next]_vars
  PROVE  Still \/ \E s \in Sessions : Added(s) \/ Undone(s) \/ Redone(s)
<1>1. /\ Tree(turn, head) /\ Tree(turn', head') /\ Keeps(turn, head, turn', head')
      /\ Table(turn')
  BY TreeStep DEF TreeInv, Tree
<1>2. CASE turn' = turn /\ head' = head
  BY <1>1, <1>2 DEF Still, Stays
<1>3. CASE Migrate
  <2>1. PICK s \in Sessions :
          \/ /\ Rootless = {s} /\ head' = [head EXCEPT ![s] = Len(turn) + 1]
             /\ turn' = Append(turn, Turn(s, 0))
          \/ /\ turn' = [u \in Turns |-> [turn[u] EXCEPT !.active = u \in OnSomePath]]
             /\ head' = head
    BY <1>3 DEF Migrate
  <2>2. CASE /\ Rootless = {s} /\ head' = [head EXCEPT ![s] = Len(turn) + 1]
             /\ turn' = Append(turn, Turn(s, 0))
    <3>1. head[s] = 0
      BY <2>2 DEF Rootless
    <3> QED
      BY <1>1, <2>2, <3>1, SessionAdds
  <2>3. CASE /\ turn' = [u \in Turns |-> [turn[u] EXCEPT !.active = u \in OnSomePath]]
             /\ head' = head
    <3>1. Reflagged(turn, turn', OnSomePath)
      <4> DEFINE A == OnSomePath
      <4>1. turn' = [u \in 1 .. Len(turn) |-> [turn[u] EXCEPT !.active = u \in A]]
        BY <2>3, Zenon DEF Turns
      <4>2. Table(turn)
        BY <1>1, TreeFacts
      <4> HIDE DEF A
      <4>3. Reflagged(turn, turn', A)
        BY <4>1, <4>2, ReflaggedFacts, Zenon
      <4> QED
        BY <4>3 DEF A
    <3>2. head' = head
      BY <2>3
    <3> HIDE <2>3
    <3> QED
      BY <1>1, <3>1, <3>2 DEF Still, Stays, Reflagged
  <2> QED
    BY <2>1, <2>2, <2>3
<1>4. ASSUME NEW x \in Sessions, Writes(x)
      PROVE  Still \/ \E s \in Sessions : Added(s) \/ Undone(s) \/ Redone(s)
  <2>1. CASE \/ \E p \in Sessions \cup {NoSession} : Create(x, p)
             \/ \E copy \in Sessions : Fork(x, copy)
    <3>1. PICK y \in Sessions : \E p : NewSession(y, p)
      BY <2>1 DEF Create, Fork
    <3> QED
      BY <1>1, <3>1, SessionAdds DEF NewSession
  <2>2. CASE AppendUser(x)
    BY <1>1, <2>2, UserAdds
  <2>3. CASE Undo(x)
    BY <1>1, <2>3, UndoMoves
  <2>4. CASE Redo(x)
    BY <1>1, <2>4, RedoMoves
  <2>5. CASE \/ AppendItem(x) \/ SavePartial(x) \/ ClearPartial(x) \/ Uncompact(x)
             \/ \E keep \in KeepCounts : Compact(x, keep)
    BY <1>2, <2>5 DEF AppendItem, SavePartial, ClearPartial, Uncompact, Compact, sessionVars
  <2> QED
    BY <1>4, <2>1, <2>2, <2>3, <2>4, <2>5 DEF Writes
<1>5. Calm => turn' = turn /\ head' = head
  BY DEF Calm
<1> QED
  BY <1>2, <1>3, <1>4, <1>5, MessageSteps

-----------------------------------------------------------------------------
(* Every step is one of the stack's, or leaves the stack alone *)

Path == [s \in Sessions |-> Chain(head[s])]
Future == [s \in Sessions |-> Redoable(s)]

LEMMA PathFacts ==
  /\ Path = [s \in Sessions |-> Up(turn, head[s])]
  /\ Future = [s \in Sessions |-> Down(turn, head[s])]
BY DEF Path, Future, Chain, Up, Redoable, Down, NewestChild, Child, Turns

LEMMA PathFactsAfter ==
  /\ Path' = [s \in Sessions |-> Up(turn', head'[s])]
  /\ Future' = [s \in Sessions |-> Down(turn', head'[s])]
BY DEF Path, Future, Chain, Up, Redoable, Down, NewestChild, Child, Turns

\* The turns on a path or in a future are turns of the table.
LEMMA UsedTurns ==
  ASSUME Tree(turn, head)
  PROVE  /\ Path \in [Sessions -> Seq(1 .. Len(turn))]
         /\ Future \in [Sessions -> Seq(1 .. Len(turn))]
<1>1. ASSUME NEW s \in Sessions
      PROVE  /\ Up(turn, head[s]) \in Seq(1 .. Len(turn))
             /\ Down(turn, head[s]) \in Seq(1 .. Len(turn))
  <2>1. Table(turn) /\ Len(turn) \in Nat /\ head[s] \in 0 .. Len(turn)
    BY TreeFacts
  <2> DEFINE q == Up(turn, head[s])
  <2>2. q \in Seq(Nat) /\ Range(q) \subseteq 1 .. head[s]
    BY <2>1, UpTypes DEF Line
  <2> HIDE DEF q
  <2>3. \A k \in 1 .. Len(q) : q[k] \in 1 .. Len(turn)
    <3>1. DOMAIN q = 1 .. Len(q)
      BY <2>2, LenProperties
    <3>2. \A k \in 1 .. Len(q) : q[k] \in 1 .. head[s]
      BY <2>2, <3>1 DEF Range
    <3> QED
      BY <2>1, <3>2
  <2>4. q \in Seq(1 .. Len(turn))
    <3>1. /\ q \in [1 .. Len(q) -> 1 .. Len(turn)] /\ Len(q) \in Nat
      BY <2>2, <2>3, LenProperties
    <3> QED
      BY <3>1, SeqDef
  <2> QED
    BY <2>1, <2>4, DownTypes DEF q
<1> QED
  BY <1>1, PathFacts

LEMMA UnusedTurn ==
  ASSUME Tree(turn, head)
  PROVE  Stack!Fresh(Len(turn) + 1)
<1>1. Len(turn) \in Nat
  BY TreeFacts
<1>2. ASSUME NEW s \in Sessions
      PROVE  /\ Range(Path[s]) \subseteq 1 .. Len(turn)
             /\ Range(Future[s]) \subseteq 1 .. Len(turn)
  <2>1. Path[s] \in Seq(1 .. Len(turn)) /\ Future[s] \in Seq(1 .. Len(turn))
    BY UsedTurns
  <2> QED
    BY <2>1, RangeEquality DEF Range
<1>3. Stack!Used = UNION {Range(Path[s]) \cup Range(Future[s]) : s \in Sessions}
  BY DEF Stack!Used, Stack!Range, Range, Path, Future
<1> QED
  BY <1>1, <1>2, <1>3 DEF Stack!Fresh

\* The stack's actions in these terms.
LEMMA StackActions ==
  ASSUME NEW s \in Sessions
  PROVE  /\ /\ Path[s] = << >> /\ Len(Path'[s]) = 1 /\ Stack!Fresh(Path'[s][1])
            /\ Future' = Future /\ Path' = [Path EXCEPT ![s] = Path'[s]]
            => Stack!Open(s)
         /\ /\ Path[s] # << >> /\ Len(Path'[s]) = Len(Path[s]) + 1
            /\ Stack!Fresh(Last(Path'[s]))
            /\ Path' = [Path EXCEPT ![s] = Append(Path[s], Last(Path'[s]))]
            /\ Future' = [Future EXCEPT ![s] = << >>]
            => Stack!Begin(s)
         /\ /\ Len(Path[s]) > 1 /\ Path' = [Path EXCEPT ![s] = Front(Path[s])]
            /\ Future' = [Future EXCEPT ![s] = <<Last(Path[s])>> \o Future[s]]
            => Stack!Undo(s)
         /\ /\ Future[s] # << >>
            /\ Path' = [Path EXCEPT ![s] = Append(Path[s], Head(Future[s]))]
            /\ Future' = [Future EXCEPT ![s] = Tail(Future[s])]
            => Stack!Redo(s)
<1> USE DEF Path, Future, Last, Front, Stack!Last, Stack!Front
<1>1. /\ Path[s] = << >> /\ Len(Path'[s]) = 1 /\ Stack!Fresh(Path'[s][1])
      /\ Future' = Future /\ Path' = [Path EXCEPT ![s] = Path'[s]]
      => Stack!Open(s)
  BY DEF Stack!Open
<1>2. /\ Path[s] # << >> /\ Len(Path'[s]) = Len(Path[s]) + 1
      /\ Stack!Fresh(Last(Path'[s]))
      /\ Path' = [Path EXCEPT ![s] = Append(Path[s], Last(Path'[s]))]
      /\ Future' = [Future EXCEPT ![s] = << >>]
      => Stack!Begin(s)
  BY DEF Stack!Begin
<1>3. /\ Len(Path[s]) > 1 /\ Path' = [Path EXCEPT ![s] = Front(Path[s])]
      /\ Future' = [Future EXCEPT ![s] = <<Last(Path[s])>> \o Future[s]]
      => Stack!Undo(s)
  BY DEF Stack!Undo
<1>4. /\ Future[s] # << >>
      /\ Path' = [Path EXCEPT ![s] = Append(Path[s], Head(Future[s]))]
      /\ Future' = [Future EXCEPT ![s] = Tail(Future[s])]
      => Stack!Redo(s)
  BY DEF Stack!Redo
<1> QED
  BY <1>1, <1>2, <1>3, <1>4

LEMMA StillStutters ==
  ASSUME Tree(turn, head), Still
  PROVE  UNCHANGED Stack!vars
<1>1. \A s \in Sessions : head[s] \in 0 .. Len(turn)
  BY TreeFacts
<1>2. \A s \in Sessions : /\ Up(turn', head'[s]) = Up(turn, head[s])
                          /\ Down(turn', head'[s]) = Down(turn, head[s])
  BY <1>1, StaysFacts, TreeFacts DEF Still
<1>3. Path' = Path /\ Future' = Future
  BY <1>2, PathFacts, PathFactsAfter
<1> QED
  BY <1>3 DEF Stack!vars, Path, Future

LEMMA AddedSteps ==
  ASSUME Tree(turn, head), NEW s \in Sessions, Added(s)
  PROVE  Stack!Open(s) \/ Stack!Begin(s)
<1> DEFINE n == Len(turn) + 1
           p == Path[s]
<1>1. head[s] \in 0 .. Len(turn) /\ Len(turn) \in Nat /\ Table(turn) /\ head \in [Sessions -> 0 .. Len(turn)]
  BY TreeFacts DEF Tree
<1>2. /\ \A x \in Sessions : x # s => /\ Up(turn', head[x]) = Up(turn, head[x])
                                      /\ Down(turn', head[x]) = Down(turn, head[x])
      /\ Up(turn', n) = Append(Up(turn, head[s]), n) /\ Down(turn', n) = << >>
  BY GrewFacts DEF Added
<1>3. head'[s] = n /\ \A x \in Sessions : x # s => head'[x] = head[x]
  BY <1>1 DEF Added
<1>4. p \in Seq(1 .. Len(turn)) /\ p = Up(turn, head[s]) /\ Future[s] = Down(turn, head[s])
  BY PathFacts, UsedTurns
<1> HIDE DEF p, n
<1>5. /\ Path' = [Path EXCEPT ![s] = Append(p, n)]
      /\ Future' = [Future EXCEPT ![s] = << >>]
  BY <1>2, <1>3, <1>4, PathFacts, PathFactsAfter
<1>6. Path'[s] = Append(p, n)
  BY <1>4, <1>5, PathFactsAfter, PathFacts
<1>7. /\ Len(Append(p, n)) = Len(p) + 1 /\ Len(p) \in Nat
      /\ Append(p, n)[Len(p) + 1] = n /\ Last(Append(p, n)) = n
  <2>1. p \in Seq(Nat) /\ n \in Nat
    BY <1>1, <1>4 DEF n
  <2>2. /\ Len(Append(p, n)) = Len(p) + 1 /\ Len(p) \in Nat
        /\ Append(p, n)[Len(p) + 1] = n
    BY <2>1, OneMore
  <2> QED
    BY <2>2 DEF Last
<1>8. Stack!Fresh(n)
  BY UnusedTurn DEF n
<1>9. CASE head[s] = 0
  <2>1. p = << >> /\ Future[s] = << >>
    <3>1. p = Up(turn, 0) /\ Future[s] = Down(turn, 0) /\ 0 \in 0 .. Len(turn)
      BY <1>1, <1>4, <1>9
    <3>2. Child(turn, 0) = 0
      BY <1>1, <3>1, ChildFacts
    <3>3. Down(turn, 0) = << >>
      BY <1>1, <3>1, <3>2, DownUnfolds
    <3> QED
      BY <1>1, <3>1, <3>3, UpUnfolds
  <2>2. Len(p) = 0
    BY <2>1
  <2>3. Future' = Future
    BY <1>5, <2>1, PathFacts
  <2>4. Path' = [Path EXCEPT ![s] = Path'[s]]
    BY <1>5, <1>6
  <2>5. Len(Path'[s]) = 1 /\ Path'[s][1] = n
    BY <1>6, <1>7, <2>2
  <2> QED
    BY <1>8, <2>1, <2>3, <2>4, <2>5, StackActions DEF p
<1>10. CASE head[s] # 0
  <2>1. p # << >>
    <3>1. head[s] \in 1 .. Len(turn)
      BY <1>1, <1>10
    <3>2. head[s] \in Range(p)
      BY <1>1, <1>4, <3>1, LineUnfolds DEF Line
    <3> QED
      BY <3>2 DEF Range
  <2>2. Len(Path'[s]) = Len(p) + 1 /\ Last(Path'[s]) = n
    BY <1>6, <1>7
  <2>3. Path' = [Path EXCEPT ![s] = Append(p, Last(Path'[s]))]
    BY <1>5, <2>2
  <2> QED
    BY <1>5, <1>8, <2>1, <2>2, <2>3, StackActions DEF p
<1> QED
  BY <1>9, <1>10

LEMMA UndoneSteps ==
  ASSUME Tree(turn, head), NEW s \in Sessions, Undone(s)
  PROVE  Stack!Undo(s)
<1> DEFINE h == head[s]
           p == turn[h].parent
<1>1. /\ Stays(turn, turn') /\ h # 0 /\ p # 0 /\ Child(turn, p) = h
      /\ head' = [head EXCEPT ![s] = p]
  BY DEF Undone
<1>2. /\ Table(turn) /\ Len(turn) \in Nat /\ h \in 1 .. Len(turn) /\ p \in 1 .. Len(turn)
      /\ head \in [Sessions -> 0 .. Len(turn)]
  BY <1>1, TreeFacts DEF Tree
<1> HIDE DEF h, p
<1>3. \A u \in 0 .. Len(turn) : /\ Up(turn', u) = Up(turn, u)
                                /\ Down(turn', u) = Down(turn, u)
  BY <1>1, <1>2, StaysFacts
<1>4. /\ Up(turn, h) = Append(Up(turn, p), h) /\ Down(turn, p) = <<h>> \o Down(turn, h)
  <2>1. Up(turn, h) = Append(Up(turn, p), h)
    BY <1>2, UpUnfolds DEF p
  <2>2. Down(turn, p) = <<h>> \o Down(turn, h)
    BY <1>1, <1>2, DownUnfolds
  <2> QED
    BY <2>1, <2>2
<1> DEFINE q == Up(turn, p)
<1>5. /\ q \in Seq(Nat) /\ q # << >>
  <2>1. q \in Seq(Nat)
    BY <1>2, UpTypes
  <2>2. p \in Range(q)
    BY <1>2, LineUnfolds DEF Line
  <2> HIDE DEF q
  <2> QED
    BY <2>1, <2>2 DEF Range
<1>6. Path[s] = Append(q, h) /\ Future[s] = Down(turn, h)
  BY <1>4, PathFacts DEF h
<1>7. /\ Path' = [Path EXCEPT ![s] = q]
      /\ Future' = [Future EXCEPT ![s] = <<h>> \o Future[s]]
  <2>1. head'[s] = p /\ \A x \in Sessions : x # s => head'[x] = head[x]
    BY <1>1, <1>2
  <2>2. \A x \in Sessions : head[x] \in 0 .. Len(turn)
    BY <1>2
  <2>3. p \in 0 .. Len(turn)
    BY <1>2
  <2> QED
    BY <1>3, <1>4, <1>6, <2>1, <2>2, <2>3, PathFacts, PathFactsAfter
<1> HIDE DEF q
<1>8. Len(Append(q, h)) > 1 /\ Front(Append(q, h)) = q /\ Last(Append(q, h)) = h
  <2>1. q \in Seq(Nat) /\ h \in Nat
    BY <1>2, <1>5
  <2>2. Len(q) \in Nat \ {0}
    BY <1>5, EmptySeq, LenProperties
  <2> DEFINE r == Append(q, h)
  <2>3. /\ r \in Seq(Nat) /\ Len(r) = Len(q) + 1 /\ r[Len(q) + 1] = h
        /\ \A k \in 1 .. Len(q) : r[k] = q[k]
    BY <2>1, OneMore
  <2> HIDE DEF r
  <2>4. r # << >>
    BY <2>2, <2>3
  <2>5. /\ Front(r) \in Seq(Nat) /\ Len(Front(r)) = Len(r) - 1 /\ Last(r) = r[Len(r)]
        /\ \A k \in 1 .. Len(r) - 1 : Front(r)[k] = r[k]
    BY <2>3, <2>4, AllButLast
  <2>6. Front(r) = q
    <3>1. Len(Front(r)) = Len(q) /\ \A k \in 1 .. Len(q) : Front(r)[k] = q[k]
      BY <2>2, <2>3, <2>5
    <3> QED
      BY <2>1, <2>5, <3>1, SeqEqual
  <2> QED
    BY <2>2, <2>3, <2>5, <2>6 DEF r
<1> QED
  BY <1>6, <1>7, <1>8, StackActions

\* A sequence with one more element in front.
LEMMA OneInFront ==
  ASSUME NEW X, NEW q \in Seq(X), NEW x \in X
  PROVE  <<x>> \o q # << >> /\ Head(<<x>> \o q) = x /\ Tail(<<x>> \o q) = q
<1> DEFINE r == <<x>> \o q
<1>1. Len(q) \in Nat /\ Len(<<x>>) = 1 /\ <<x>> \in Seq(X) /\ <<x>>[1] = x
  BY LenProperties
<1>2. /\ r \in Seq(X) /\ Len(r) = 1 + Len(q)
      /\ \A i \in 1 .. 1 + Len(q) : r[i] = IF i <= 1 THEN <<x>>[i] ELSE q[i - 1]
  BY <1>1, ConcatProperties
<1> HIDE DEF r
<1>3. r # << >> /\ r[1] = x
  BY <1>1, <1>2
<1>4. /\ Head(r) = r[1] /\ Tail(r) \in Seq(X) /\ Len(Tail(r)) = Len(r) - 1
      /\ \A i \in 1 .. Len(Tail(r)) : Tail(r)[i] = r[i + 1]
  BY <1>2, <1>3, HeadTailProperties
<1>5. Len(Tail(r)) = Len(q)
  BY <1>1, <1>2, <1>4
<1>6. \A i \in 1 .. Len(q) : Tail(r)[i] = q[i]
  BY <1>1, <1>2, <1>4, <1>5
<1>7. Tail(r) = q
  BY <1>4, <1>5, <1>6, SeqEqual
<1> QED
  BY <1>3, <1>4, <1>7 DEF r

LEMMA RedoneSteps ==
  ASSUME Tree(turn, head), NEW s \in Sessions, Redone(s)
  PROVE  Stack!Redo(s)
<1> DEFINE h == head[s]
           c == Child(turn, h)
<1>1. /\ Stays(turn, turn') /\ h # 0 /\ c # 0 /\ head' = [head EXCEPT ![s] = c]
  BY DEF Redone
<1>2. /\ Table(turn) /\ Len(turn) \in Nat /\ h \in 0 .. Len(turn)
      /\ head \in [Sessions -> 0 .. Len(turn)]
  BY TreeFacts DEF Tree
<1>3. c \in 1 .. Len(turn) /\ turn[c].parent = h
  BY <1>1, <1>2, ChildFacts
<1>4. Down(turn, h) = <<c>> \o Down(turn, c)
  BY <1>1, <1>2, DownUnfolds
<1> HIDE DEF h, c
<1>5. \A u \in 0 .. Len(turn) : /\ Up(turn', u) = Up(turn, u)
                                /\ Down(turn', u) = Down(turn, u)
  BY <1>1, <1>2, StaysFacts
<1>6. Up(turn, c) = Append(Up(turn, h), c)
  BY <1>2, <1>3, UpUnfolds
<1>7. Path[s] = Up(turn, h) /\ Future[s] = <<c>> \o Down(turn, c)
  BY <1>4, PathFacts DEF h
<1> DEFINE q == Down(turn, c)
<1>8. Future[s] # << >> /\ Head(Future[s]) = c /\ Tail(Future[s]) = q
  <2>1. q \in Seq(1 .. Len(turn))
    BY <1>2, <1>3, DownTypes
  <2>2. Future[s] = <<c>> \o q
    BY <1>7
  <2> HIDE DEF q
  <2> QED
    BY <1>3, <2>1, <2>2, OneInFront
<1>9. /\ Path' = [Path EXCEPT ![s] = Append(Path[s], c)]
      /\ Future' = [Future EXCEPT ![s] = q]
  <2>1. head'[s] = c /\ \A x \in Sessions : x # s => head'[x] = head[x]
    BY <1>1, <1>2
  <2>2. \A x \in Sessions : head[x] \in 0 .. Len(turn)
    BY <1>2
  <2>3. c \in 0 .. Len(turn)
    BY <1>3
  <2> QED
    BY <1>5, <1>6, <1>7, <2>1, <2>2, <2>3, PathFacts, PathFactsAfter
<1> HIDE DEF q
<1> QED
  BY <1>8, <1>9, StackActions

\* At first: one turn, or the turns of a legacy session with a place among them.
LEMMA OneSession ==
  ASSUME Table(turn), NEW s \in Sessions, Len(turn) \in 0 .. 2,
         \A u \in Turns : turn[u].parent = u - 1,
         NEW t, t \in IF Len(turn) = 0 THEN {0} ELSE Turns,
         head = [x \in Sessions |-> IF x = s THEN t ELSE 0]
  PROVE  Stack!Init
<1> DEFINE L == Len(turn)
<1>1. /\ L \in Nat /\ \A u \in 1 .. L : turn[u].parent = u - 1
      /\ t \in 0 .. L /\ (t = 0 <=> L = 0)
  BY TableFacts DEF Turns
<1>2. /\ Up(turn, 0) = << >>
      /\ \A u \in 1 .. L, v \in 0 .. L : v = u - 1 => Up(turn, u) = Append(Up(turn, v), u)
  BY <1>1, UpUnfolds
<1>3. /\ Child(turn, 0) = 0 /\ Down(turn, 0) = << >> /\ Child(turn, L) = 0 /\ Down(turn, L) = << >>
  <2>1. 0 \in 0 .. L /\ L \in 0 .. L /\ ~ \E c : c \in L + 1 .. L
    BY <1>1
  <2>2. Child(turn, 0) = 0 /\ Child(turn, L) = 0
    BY <2>1, ChildFacts
  <2> QED
    BY <2>1, <2>2, DownUnfolds
<1>4. L = 2 => Down(turn, 1) = <<2>>
  <2> SUFFICES ASSUME L = 2 PROVE Down(turn, 1) = <<2>>
    OBVIOUS
  <2>1. Child(turn, 1) = 2
    <3>1. 1 \in 0 .. L /\ 2 \in 1 .. L /\ turn[2].parent = 1
      BY <1>1
    <3>2. Child(turn, 1) # 0
      BY <3>1, ChildFacts
    <3>3. Child(turn, 1) \in 1 + 1 .. L
      BY <3>1, <3>2, ChildFacts
    <3> QED
      BY <3>3
  <2>2. Down(turn, 1) = <<2>> \o Down(turn, 2)
    <3>1. 1 \in 0 .. L
      BY <1>1
    <3> QED
      BY <2>1, <3>1, DownUnfolds
  <2>3. Down(turn, 2) = << >>
    BY <1>3
  <2> QED
    BY <2>2, <2>3
<1> DEFINE q == Up(turn, t)
           r == Down(turn, t)
\* Together they count up from 1.
<1>5. /\ q \in Seq(Nat) /\ \A k \in 1 .. Len(q) : q[k] = k
      /\ r \in Seq(Nat) /\ \A k \in 1 .. Len(r) : r[k] = Len(q) + k
      /\ q = << >> => r = << >>
  <2>0. /\ << >> \in Seq(Nat) /\ Len(<< >>) = 0
        /\ <<1>> \in Seq(Nat) /\ Len(<<1>>) = 1 /\ <<1>>[1] = 1
        /\ <<2>> \in Seq(Nat) /\ Len(<<2>>) = 1 /\ <<2>>[1] = 2
    OBVIOUS
  <2>1. CASE L = 0
    <3>1. q = << >> /\ r = << >>
      BY <1>1, <1>2, <1>3, <2>1
    <3> HIDE DEF q, r
    <3> QED
      BY <2>0, <3>1
  <2>2. ASSUME L # 0
        PROVE  Up(turn, 1) = Append(<< >>, 1)
    <3>1. 1 \in 1 .. L /\ 0 \in 0 .. L /\ 0 = 1 - 1
      BY <1>1, <2>2
    <3> QED
      BY <1>2, <3>1
  <2>3. Append(<< >>, 1) = <<1>>
    OBVIOUS
  <2>4. CASE t = 1
    <3>1. q = <<1>>
      BY <1>1, <2>2, <2>3, <2>4
    <3>2. L = 1 \/ L = 2
      BY <1>1, <2>4
    <3>3. r = << >> \/ r = <<2>>
      BY <1>3, <1>4, <2>4, <3>2
    <3> HIDE DEF q, r
    <3>4. q # << >> /\ Len(q) = 1 /\ q[1] = 1 /\ q \in Seq(Nat)
      BY <2>0, <3>1
    <3>5. r \in Seq(Nat) /\ (Len(r) = 0 \/ (Len(r) = 1 /\ r[1] = 2))
      BY <2>0, <3>3
    <3> QED
      BY <3>4, <3>5
  <2>5. CASE t = 2
    <3>1. L = 2
      BY <1>1, <2>5
    <3>2. q = Append(<<1>>, 2)
      <4>1. 2 \in 1 .. L /\ 1 \in 0 .. L /\ 1 = 2 - 1
        BY <3>1
      <4>2. Up(turn, 1) = <<1>>
        BY <2>2, <2>3, <3>1
      <4>3. Up(turn, 2) = Append(Up(turn, 1), 2)
        BY <1>2, <4>1
      <4> QED
        BY <2>5, <4>2, <4>3
    <3>3. r = << >>
      BY <1>3, <2>5, <3>1
    <3> HIDE DEF q, r
    <3>5. /\ q \in Seq(Nat) /\ Len(q) = 2 /\ q[2] = 2 /\ q[1] = 1
      BY <2>0, <3>2, OneMore
    <3>6. q # << >> /\ r \in Seq(Nat) /\ Len(r) = 0
      BY <2>0, <3>3, <3>5
    <3> QED
      BY <3>5, <3>6
  <2> QED
    BY <1>1, <2>1, <2>4, <2>5
<1> HIDE DEF q, r
<1>6. /\ Stack!IsInjective(q \o r) /\ (q = << >> => r = << >>)
      /\ Stack!IsInjective(<< >> \o << >>)
  <2> DEFINE w == q \o r
  <2>1. w \in Seq(Nat) /\ \A k \in 1 .. Len(w) : w[k] = k
    <3>1. /\ w \in Seq(Nat) /\ Len(w) = Len(q) + Len(r)
          /\ \A i \in 1 .. Len(q) + Len(r) : w[i] = IF i <= Len(q) THEN q[i] ELSE r[i - Len(q)]
      BY <1>5, ConcatProperties
    <3>2. Len(q) \in Nat /\ Len(r) \in Nat
      BY <1>5, LenProperties
    <3> HIDE DEF w
    <3>3. ASSUME NEW k \in 1 .. Len(w)
          PROVE  w[k] = k
      <4>1. CASE k <= Len(q)
        <5>1. k \in 1 .. Len(q) /\ w[k] = q[k]
          BY <3>1, <3>2, <4>1
        <5> QED
          BY <1>5, <5>1
      <4>2. CASE ~ (k <= Len(q))
        <5>1. k - Len(q) \in 1 .. Len(r) /\ w[k] = r[k - Len(q)]
          BY <3>1, <3>2, <4>2
        <5>2. r[k - Len(q)] = Len(q) + (k - Len(q))
          BY <1>5, <5>1
        <5> QED
          BY <3>2, <5>1, <5>2
      <4> QED
        BY <4>1, <4>2
    <3> QED
      BY <3>1, <3>3
  <2> HIDE DEF w
  <2>2. DOMAIN w = 1 .. Len(w)
    BY <2>1, LenProperties
  <2>3. Stack!IsInjective(w)
    BY <2>1, <2>2 DEF Stack!IsInjective
  <2>4. << >> \o << >> = << >> /\ Stack!IsInjective(<< >>)
    BY DEF Stack!IsInjective
  <2> QED
    BY <1>5, <2>3, <2>4 DEF w
<1>7. ASSUME NEW x \in Sessions
      PROVE  IF x = s THEN Path[x] = q /\ Future[x] = r
             ELSE Path[x] = << >> /\ Future[x] = << >>
  BY <1>2, <1>3, PathFacts DEF q, r
<1>8. \A x \in Sessions : /\ Stack!IsInjective(Path[x] \o Future[x])
                          /\ (Path[x] = << >> => Future[x] = << >>)
  BY <1>6, <1>7
<1> QED
  BY <1>8 DEF Stack!Init, Path, Future

LEMMA StackInit == Init => Stack!Init
<1> SUFFICES ASSUME Init
             PROVE  Stack!Init
  OBVIOUS
<1>1. Table(turn)
  BY InitInv DEF IInv, TreeInv, Tree
<1>2. PICK s \in Sessions : LegacyDatabase(s) \/ FreshDatabase(s)
  BY HistoryAssumption DEF Init
<1>3. CASE FreshDatabase(s)
  <2>1. turn = <<Turn(s, 0)>> /\ head = [x \in Sessions |-> IF x = s THEN 1 ELSE 0]
    BY <1>3, Zenon DEF FreshDatabase
  <2>2. Len(turn) = 1 /\ turn[1] = Turn(s, 0)
    BY <2>1
  <2>3. turn[1].parent = 0
    BY <2>2 DEF Turn
  <2>4. head = [x \in Sessions |-> IF x = s THEN 1 ELSE 0]
    BY <2>1
  <2> HIDE <2>1, <2>2
  <2>5. Len(turn) = 1
    BY <2>2
  <2>6. /\ \A u \in Turns : turn[u].parent = u - 1
        /\ 1 \in IF Len(turn) = 0 THEN {0} ELSE Turns
        /\ Len(turn) \in 0 .. 2
    BY <2>3, <2>5 DEF Turns
  <2> QED
    BY <1>1, <2>4, <2>6, OneSession
<1>4. CASE LegacyDatabase(s)
  <2>1. PICK n \in {0, 2} :
          /\ turn \in LegacyTurns(s, n)
          /\ \E t \in IF n = 0 THEN {0} ELSE 1 .. n :
               head = [x \in Sessions |-> IF x = s THEN t ELSE 0]
    BY <1>4, Zenon DEF LegacyDatabase
  <2>2. Len(turn) = n /\ \A u \in 1 .. n : turn[u].parent = u - 1
    BY <2>1, LegacyTurnsFacts
  <2>3. PICK t \in IF n = 0 THEN {0} ELSE 1 .. n : head = [x \in Sessions |-> IF x = s THEN t ELSE 0]
    BY <2>1
  <2>4. t \in IF Len(turn) = 0 THEN {0} ELSE Turns
    BY <2>2, <2>3 DEF Turns
  <2>5. \A u \in Turns : turn[u].parent = u - 1
    BY <2>2 DEF Turns
  <2> HIDE <2>1
  <2> QED
    BY <1>1, <2>2, <2>3, <2>4, <2>5, OneSession
<1> QED
  BY <1>2, <1>3, <1>4

LEMMA StackNext == IInv /\ [Next]_vars => [Stack!Next]_(Stack!vars)
<1> SUFFICES ASSUME IInv, [Next]_vars
             PROVE  [Stack!Next]_(Stack!vars)
  OBVIOUS
<1>1. Tree(turn, head) /\ (Still \/ \E s \in Sessions : Added(s) \/ Undone(s) \/ Redone(s))
  BY TurnMoves DEF IInv, TreeInv
<1>2. CASE Still
  BY <1>1, <1>2, StillStutters
<1>3. ASSUME NEW s \in Sessions, Added(s) \/ Undone(s) \/ Redone(s)
      PROVE  Stack!Next
  BY <1>1, <1>3, AddedSteps, UndoneSteps, RedoneSteps DEF Stack!Next
<1> QED
  BY <1>1, <1>2, <1>3

\* The tree of turns, its heads and "the newest child" implement an editor's
\* stack: undo and redo are inverse, a new turn forgets what was taken back,
\* and nothing else (forks, deletions, compactions, the migration) touches it.
THEOREM TreeImplementsStack == Spec => ImplementsTurnStack
<1> QED
  BY InductiveInvariant, StackInit, StackNext, PTL DEF Spec, ImplementsTurnStack, Stack!Spec
=============================================================================
