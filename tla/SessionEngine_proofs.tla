------------------------ MODULE SessionEngine_proofs ------------------------
(***************************************************************************)
(* Proofs about SessionEngine, for any sessions, inputs and capacity and   *)
(* any number of commands, tasks and approvals: nothing runs without       *)
(* consent, every approval in a slot has its record, switching sessions    *)
(* interrupts nothing, and a busy session has something at work.           *)
(***************************************************************************)
EXTENDS SessionEngine, SequenceTheorems, TLAPS

-----------------------------------------------------------------------------
(* Shapes *)

Tasks == [kind : TaskKinds, gen : Nat, aborted : BOOLEAN,
          state : {"running", "waiting", "ended"}, seq : Nat]
Asks == [task : Nat, answer : {"none", "accept", "reject", "closed"}]
Events == [type : EventTypes, task : Nat, ask : Nat]

\* Variables by themselves.
Shape ==
  /\ up \in BOOLEAN /\ commands \in 0 .. MaxCommands
  /\ stored \subseteq Sessions /\ listed \subseteq Sessions
  /\ busy \in [Sessions -> BOOLEAN] /\ handle \in [Sessions -> Nat]
  /\ slot \in [Sessions -> Nat] /\ seq \in [Sessions -> Nat] /\ gen \in [Sessions -> Nat]
  /\ home \in Seq(Sessions) /\ task \in Seq(Tasks) /\ ask \in Seq(Asks)
  /\ chan \in Seq(Seq(Events)) /\ Len(chan) = Len(home)

\* What refers to a runtime, a task or an approval refers to one there is.
Refers ==
  /\ \A s \in Sessions : handle[s] <= Len(task) /\ slot[s] <= Len(ask)
  /\ DOMAIN pending \subseteq DOMAIN ask /\ Range(pending) \subseteq Sessions
  /\ \A t \in DOMAIN task : task[t].gen \in DOMAIN home
  /\ \A a \in DOMAIN ask : ask[a].task <= Len(task)
  /\ \A g \in DOMAIN chan : \A i \in DOMAIN chan[g] :
       chan[g][i].task \in DOMAIN task /\ chan[g][i].ask <= Len(ask)
  /\ accepted \subseteq DOMAIN ask

\* Which sessions have a runtime, and which one.
Residents ==
  /\ active \in Sessions /\ parked \in Seq(Sessions \ {active}) /\ IsInjective(parked)
  /\ up => \A s \in Sessions : Loaded(s) <=> s \in {active} \cup Range(parked)
  /\ \A s \in Sessions : Loaded(s) => gen[s] \in DOMAIN home /\ home[gen[s]] = s
  /\ active \in Range(home)

\* The handler under way works on the active session, or knows the one it
\* deleted to be the last parked, or has emptied the slot it clears.
Handlers ==
  /\ doing = Idle \/ /\ doing.input \in Inputs \cup {"cancel", "drop"}
                     /\ doing.session \in Sessions
                     /\ doing.task \in 0 .. Len(task) /\ doing.receipt \in 0 .. Len(task)
  /\ doing.input \in Inputs => doing.session = active
  /\ doing.input = "drop" => parked # << >> /\ Last(parked) = doing.session
  /\ doing.input = "cancel" => slot[doing.session] = 0
  /\ ~ up => doing = Idle /\ \A s \in Sessions : ~ busy[s] /\ handle[s] = 0 /\ slot[s] = 0

\* The i-th event of the g-th runtime asks for an approval.
Asking(g, i) == chan[g][i].type = "approval"

\* An approval on its way is not registered yet, and is on its way once.
Unregistered ==
  \A g \in DOMAIN chan : \A i \in DOMAIN chan[g] : Asking(g, i) =>
    /\ chan[g][i].ask \in DOMAIN ask \ DOMAIN pending
    /\ \A h \in DOMAIN chan : \A j \in DOMAIN chan[h] :
         Asking(h, j) /\ chan[h][j].ask = chan[g][i].ask => g = h /\ i = j

\* The last event of one of the g-th runtime's tasks is on its way.
Reports(g) == \E i \in DOMAIN chan[g] : ~ Asking(g, i)

\* A runtime's task is one of its own, and while it is busy the task is at work
\* or its last event is on its way.
Backed ==
  \A s \in Sessions :
    /\ slot[s] # 0 => Loaded(s)
    /\ handle[s] # 0 => task[handle[s]].gen = gen[s]
    /\ busy[s] => /\ handle[s] # 0 /\ ~ task[handle[s]].aborted
                  /\ task[handle[s]].state = "ended" => Reports(gen[s])

IInv ==
  /\ Shape /\ Refers /\ Residents /\ Handlers
  /\ Consent /\ SlotHasRecord /\ Unregistered /\ Backed

-----------------------------------------------------------------------------
(* Sequences and records *)

LEMMA ConstantFacts ==
  /\ InitialSessions \subseteq Sessions /\ Capacity \in Nat \ {0}
  /\ {"none", "cancel", "drop"} \cap Inputs = {}
  /\ MaxCommands \in Nat /\ MaxAsks \in Nat
BY EngineAssumption

LEMMA ShapeFacts ==
  ASSUME Shape
  PROVE  /\ Len(home) \in Nat /\ Len(task) \in Nat /\ Len(ask) \in Nat /\ Len(chan) \in Nat
         /\ DOMAIN home = 1 .. Len(home) /\ DOMAIN task = 1 .. Len(task)
         /\ DOMAIN ask = 1 .. Len(ask) /\ DOMAIN chan = 1 .. Len(home)
         /\ \A s \in DOMAIN home : home[s] \in Sessions
         /\ \A t \in DOMAIN task : task[t] \in Tasks
         /\ \A a \in DOMAIN ask : ask[a] \in Asks
         /\ \A g \in DOMAIN chan : /\ chan[g] \in Seq(Events) /\ Len(chan[g]) \in Nat
                                   /\ DOMAIN chan[g] = 1 .. Len(chan[g])
                                   /\ \A i \in DOMAIN chan[g] : chan[g][i] \in Events
<1>1. /\ home \in Seq(Sessions) /\ task \in Seq(Tasks) /\ ask \in Seq(Asks)
      /\ chan \in Seq(Seq(Events)) /\ Len(chan) = Len(home)
  BY DEF Shape
<1>2. \A g \in DOMAIN chan : chan[g] \in Seq(Events)
  BY <1>1, LenProperties, ElementOfSeq
<1> QED
  BY <1>1, <1>2, LenProperties, ElementOfSeq

\* A sequence without its i-th element.
LEMMA RemoveAtFacts ==
  ASSUME NEW X, NEW q \in Seq(X), NEW i \in DOMAIN q
  PROVE  /\ RemoveAt(q, i) \in Seq(X) /\ Len(RemoveAt(q, i)) = Len(q) - 1
         /\ \A k \in 1 .. Len(q) - 1 : RemoveAt(q, i)[k] = IF k < i THEN q[k] ELSE q[k + 1]
<1>1. Len(q) \in Nat /\ i \in 1 .. Len(q)
  BY LenProperties
<1> DEFINE before == SubSeq(q, 1, i - 1)
           after == SubSeq(q, i + 1, Len(q))
<1>2. /\ before \in Seq(X) /\ Len(before) = i - 1
      /\ \A k \in 1 .. i - 1 : before[k] = q[k]
  <2>1. \A k \in 1 .. i - 1 : q[k] \in X
    BY <1>1, ElementOfSeq
  <2> QED
    BY <1>1, <2>1, SubSeqProperties
<1>3. /\ after \in Seq(X) /\ Len(after) = Len(q) - i
      /\ \A k \in 1 .. Len(q) - i : after[k] = q[k + i]
  <2>1. \A k \in i + 1 .. Len(q) : q[k] \in X
    BY <1>1, ElementOfSeq
  <2>2. /\ after \in Seq(X) /\ Len(after) = IF i + 1 <= Len(q) THEN Len(q) - (i + 1) + 1 ELSE 0
        /\ \A k \in 1 .. Len(q) - (i + 1) + 1 : after[k] = q[(i + 1) + k - 1]
    BY <1>1, <2>1, SubSeqProperties
  <2>3. Len(after) = Len(q) - i /\ Len(q) - (i + 1) + 1 = Len(q) - i
    BY <1>1, <2>2
  <2>4. \A k \in 1 .. Len(q) - i : (i + 1) + k - 1 = k + i
    BY <1>1
  <2> QED
    BY <2>2, <2>3, <2>4
<1> HIDE DEF before, after
<1>4. /\ before \o after \in Seq(X) /\ Len(before \o after) = Len(before) + Len(after)
      /\ \A k \in 1 .. Len(before) + Len(after) :
           (before \o after)[k] = IF k <= Len(before) THEN before[k] ELSE after[k - Len(before)]
  BY <1>2, <1>3, ConcatProperties
<1>5. ASSUME NEW k \in 1 .. Len(q) - 1
      PROVE  (before \o after)[k] = IF k < i THEN q[k] ELSE q[k + 1]
  <2>1. CASE k < i
    <3>1. k \in 1 .. i - 1 /\ k \in 1 .. Len(before) + Len(after) /\ k <= Len(before)
      BY <1>1, <1>2, <1>3, <2>1
    <3> QED
      BY <1>2, <1>4, <2>1, <3>1
  <2>2. CASE ~ k < i
    <3>1. k - (i - 1) \in 1 .. Len(q) - i /\ (k - (i - 1)) + i = k + 1
      BY <1>1, <2>2
    <3>2. after[k - (i - 1)] = q[k + 1]
      BY <1>3, <3>1
    <3>3. k \in 1 .. Len(before) + Len(after) /\ ~ (k <= Len(before)) /\ k - Len(before) = k - (i - 1)
      BY <1>1, <1>2, <1>3, <2>2
    <3> QED
      BY <1>4, <2>2, <3>2, <3>3
  <2> QED
    BY <2>1, <2>2
<1>6. RemoveAt(q, i) = before \o after
  BY DEF RemoveAt, before, after
<1>7. Len(before \o after) = Len(q) - 1
  BY <1>1, <1>2, <1>3, <1>4
<1> QED
  BY <1>4, <1>5, <1>6, <1>7

\* A function on 1 .. n is a sequence.
LEMMA SeqFacts ==
  ASSUME NEW X, NEW n \in Nat, NEW f \in [1 .. n -> X]
  PROVE  f \in Seq(X) /\ Len(f) = n /\ DOMAIN f = 1 .. n
<1>1. f \in Seq(X) /\ DOMAIN f = 1 .. n
  BY SeqDef
<1> QED
  BY <1>1, LenProperties

\* One more at the end.
LEMMA AppendFacts ==
  ASSUME NEW X, NEW q \in Seq(X), NEW x \in X
  PROVE  /\ Append(q, x) \in Seq(X) /\ Len(Append(q, x)) = Len(q) + 1
         /\ DOMAIN Append(q, x) = 1 .. Len(q) + 1 /\ DOMAIN q = 1 .. Len(q)
         /\ Append(q, x)[Len(q) + 1] = x
         /\ \A k \in 1 .. Len(q) : Append(q, x)[k] = q[k]
         /\ Len(q) \in Nat
BY AppendProperties, LenProperties

-----------------------------------------------------------------------------
(* The background *)

LEMMA WithoutFacts ==
  ASSUME NEW X, parked \in Seq(X), IsInjective(parked), NEW S,
         \A i, j \in DOMAIN parked : parked[i] \in S /\ parked[j] \in S => i = j
  PROVE  /\ Without(S) \in Seq(X \ S) /\ IsInjective(Without(S))
         /\ Range(Without(S)) = Range(parked) \ S
<1> DEFINE leave == {i \in DOMAIN parked : parked[i] \in S}
           n == Len(parked)
<1>1. n \in Nat /\ DOMAIN parked = 1 .. n /\ \A i \in 1 .. n : parked[i] \in X
  BY LenProperties, ElementOfSeq
<1>2. CASE leave = {}
  <2>1. Without(S) = parked /\ \A i \in DOMAIN parked : parked[i] \in X \ S
    BY <1>1, <1>2 DEF Without
  <2>2. parked \in Seq(X \ S)
    BY <1>1, <2>1, SeqDef
  <2> QED
    BY <2>1, <2>2 DEF Range
<1>3. CASE leave # {}
  <2> DEFINE i == CHOOSE j \in leave : TRUE
             q == RemoveAt(parked, i)
  <2>1. i \in leave /\ Without(S) = q
    BY <1>3 DEF Without
  <2>2. i \in 1 .. n /\ parked[i] \in S
    BY <1>1, <2>1
  <2> HIDE DEF i
  <2>3. /\ q \in Seq(X) /\ Len(q) = n - 1
        /\ \A k \in 1 .. n - 1 : q[k] = IF k < i THEN parked[k] ELSE parked[k + 1]
    BY <1>1, <2>2, RemoveAtFacts
  <2> HIDE DEF q, n, leave
  <2>4. DOMAIN q = 1 .. n - 1 /\ n - 1 \in Nat
    BY <1>1, <2>2, <2>3, LenProperties
  <2>5. ASSUME NEW k \in 1 .. n - 1
        PROVE  \E j \in 1 .. n : /\ j # i /\ q[k] = parked[j]
                                 /\ j = IF k < i THEN k ELSE k + 1
    BY <1>1, <2>2, <2>3, <2>5
  <2>6. ASSUME NEW k \in 1 .. n - 1
        PROVE  q[k] \in X \ S
    BY <1>1, <2>2, <2>5, <2>6
  <2>7. q \in Seq(X \ S)
    <3>1. q = [k \in 1 .. n - 1 |-> q[k]]
      BY <2>3, <2>4, LenProperties
    <3> QED
      BY <2>4, <2>6, <3>1, SeqDef
  <2>8. ASSUME NEW k \in 1 .. n - 1, NEW l \in 1 .. n - 1, q[k] = q[l]
        PROVE  k = l
    <3>1. PICK j \in 1 .. n : /\ j # i /\ q[k] = parked[j]
                              /\ j = IF k < i THEN k ELSE k + 1
      BY <2>5
    <3>2. PICK m \in 1 .. n : /\ m # i /\ q[l] = parked[m]
                              /\ m = IF l < i THEN l ELSE l + 1
      BY <2>5
    <3>3. j = m
      BY <1>1, <2>8, <3>1, <3>2 DEF IsInjective
    <3> QED
      BY <1>1, <2>2, <3>1, <3>2, <3>3
  <2>9. Range(q) = Range(parked) \ S
    <3>1. ASSUME NEW x \in Range(q)
          PROVE  x \in Range(parked) \ S
      BY <1>1, <2>4, <2>5, <2>6, <3>1 DEF Range
    <3>2. ASSUME NEW x \in Range(parked) \ S
          PROVE  x \in Range(q)
      <4>1. PICK j \in 1 .. n : parked[j] = x
        BY <1>1, <3>2 DEF Range
      <4>2. j # i
        BY <2>2, <3>2, <4>1
      <4>3. CASE j < i
        <5>1. j \in 1 .. n - 1 /\ q[j] = x
          BY <1>1, <2>2, <2>3, <4>1, <4>3
        <5> QED
          BY <2>4, <5>1 DEF Range
      <4>4. CASE j > i
        <5>1. j - 1 \in 1 .. n - 1 /\ ~ (j - 1 < i) /\ (j - 1) + 1 = j
          BY <1>1, <2>2, <4>1, <4>4
        <5>2. q[j - 1] = x
          BY <2>3, <4>1, <5>1
        <5> QED
          BY <2>4, <5>1, <5>2 DEF Range
      <4> QED
        BY <1>1, <2>2, <4>2, <4>3, <4>4
    <3> QED
      BY <3>1, <3>2
  <2> QED
    BY <2>1, <2>4, <2>7, <2>8, <2>9 DEF IsInjective
<1> QED
  BY <1>2, <1>3

\* What is evicted is parked, idle and no more than one runtime, and never the
\* session that is activated.
LEMMA EvicteesFacts ==
  ASSUME Shape, Residents, NEW s
  PROVE  /\ Evictees(s) \subseteq Range(parked) /\ Evictees(s) \subseteq Sessions
         /\ s \notin Evictees(s) /\ active \notin Evictees(s)
         /\ s \in Range(parked) => Evictees(s) = {}
         /\ \A x \in Evictees(s) : MayEvict(x)
         /\ \A x, y \in Evictees(s) : x = y
<1>1. /\ Len(parked) \in Nat /\ DOMAIN parked = 1 .. Len(parked)
      /\ \A i \in DOMAIN parked : parked[i] \in Sessions \ {active}
  BY LenProperties, ElementOfSeq DEF Residents
<1>2. CASE s \in Range(parked) \/ Len(parked) < Capacity
  BY <1>2 DEF Evictees
<1>3. CASE ~ (s \in Range(parked) \/ Len(parked) < Capacity)
  <2> DEFINE first == {j \in DOMAIN parked : /\ MayEvict(parked[j])
                                             /\ \A k \in 1 .. j - 1 : ~ MayEvict(parked[k])}
  <2>1. Evictees(s) = {parked[i] : i \in first}
    BY <1>3 DEF Evictees
  <2>2. \A i, j \in first : i = j
    <3> SUFFICES ASSUME NEW i \in first, NEW j \in first, i < j PROVE FALSE
      BY <1>1
    <3>1. i \in 1 .. j - 1
      BY <1>1
    <3> QED
      BY <3>1
  <2> QED
    BY <1>1, <1>3, <2>1, <2>2 DEF Range
<1> QED
  BY <1>2, <1>3

\* Stopping runtimes that do nothing changes nothing.
LEMMA StopIdle ==
  ASSUME Shape, NEW S, Stop(S),
         \A s \in S : s \in Sessions /\ ~ busy[s] /\ handle[s] = 0 /\ slot[s] = 0
  PROVE  UNCHANGED <<busy, handle, slot, task, ask>>
<1>1. /\ task \in Seq(Tasks) /\ ask \in Seq(Asks)
      /\ DOMAIN task \subseteq Nat \ {0} /\ DOMAIN ask \subseteq Nat \ {0}
      /\ task = [t \in DOMAIN task |-> task[t]] /\ ask = [a \in DOMAIN ask |-> ask[a]]
  BY LenProperties DEF Shape
<1>2. /\ busy \in [Sessions -> BOOLEAN] /\ handle \in [Sessions -> Nat]
      /\ slot \in [Sessions -> Nat]
  BY DEF Shape
<1>3. busy' = busy
  <2>1. \A s \in Sessions : (busy[s] /\ s \notin S) = busy[s]
    BY <1>2
  <2> QED
    BY <1>2, <2>1 DEF Stop
<1>4. handle' = handle /\ slot' = slot
  BY <1>2 DEF Stop
<1>5. task' = task
  <2>1. \A t \in DOMAIN task : ~ \E s \in S : handle[s] = t
    BY <1>1
  <2> QED
    BY <1>1, <2>1 DEF Stop
<1>6. ask' = ask
  <2>1. \A a \in DOMAIN ask : ~ \E s \in S : slot[s] = a
    BY <1>1
  <2> QED
    BY <1>1, <2>1 DEF Stop
<1> QED
  BY <1>3, <1>4, <1>5, <1>6

\* Runtimes built so far stay what they are, and so do their channels.
Extended ==
  /\ home' \in Seq(Sessions) /\ chan' \in Seq(Seq(Events)) /\ Len(chan') = Len(home')
  /\ DOMAIN home \subseteq DOMAIN home'
  /\ \A g \in DOMAIN home : home'[g] = home[g] /\ chan'[g] = chan[g]
  /\ \A g \in DOMAIN home' \ DOMAIN home : chan'[g] = << >>

LEMMA ExtendedEvents ==
  ASSUME Extended, DOMAIN chan = DOMAIN home
  PROVE  \A g \in DOMAIN chan' : \A i \in DOMAIN chan'[g] :
           g \in DOMAIN chan /\ i \in DOMAIN chan[g] /\ chan'[g][i] = chan[g][i]
<1> SUFFICES ASSUME NEW g \in DOMAIN chan', NEW i \in DOMAIN chan'[g]
             PROVE  g \in DOMAIN chan /\ i \in DOMAIN chan[g] /\ chan'[g][i] = chan[g][i]
  OBVIOUS
<1>1. g \in DOMAIN home'
  BY LenProperties DEF Extended
<1>2. g \in DOMAIN home
  <2>1. g \notin DOMAIN home => chan'[g] = << >>
    BY <1>1 DEF Extended
  <2>2. DOMAIN << >> = {}
    OBVIOUS
  <2> QED
    BY <2>1, <2>2
<1> QED
  BY <1>2 DEF Extended

LEMMA BuildFacts ==
  ASSUME Shape, NEW s \in Sessions
  PROVE  /\ Build(s) => /\ Extended /\ Len(home) + 1 \in DOMAIN home'
                        /\ home'[Len(home) + 1] = s
                        /\ \A x \in Range(home) \cup {s} : x \in Range(home')
         /\ UNCHANGED <<home, chan>> => Extended
<1>1. /\ home \in Seq(Sessions) /\ chan \in Seq(Seq(Events)) /\ Len(chan) = Len(home)
      /\ << >> \in Seq(Events) /\ Len(home) \in Nat
      /\ DOMAIN home = 1 .. Len(home) /\ DOMAIN chan = 1 .. Len(home)
  BY ShapeFacts, EmptySeq DEF Shape
<1>2. ASSUME Build(s)
      PROVE  /\ Extended /\ Len(home) + 1 \in DOMAIN home' /\ home'[Len(home) + 1] = s
             /\ \A x \in Range(home) \cup {s} : x \in Range(home')
  <2>1. home' = Append(home, s) /\ chan' = Append(chan, << >>)
    BY <1>2 DEF Build
  <2>2. /\ home' \in Seq(Sessions) /\ DOMAIN home' = 1 .. Len(home) + 1
        /\ home'[Len(home) + 1] = s /\ \A k \in 1 .. Len(home) : home'[k] = home[k]
        /\ Len(home') = Len(home) + 1
    BY <1>1, <2>1, AppendFacts
  <2>3. /\ chan' \in Seq(Seq(Events)) /\ Len(chan') = Len(home) + 1
        /\ chan'[Len(home) + 1] = << >> /\ \A k \in 1 .. Len(home) : chan'[k] = chan[k]
    BY <1>1, <2>1, AppendFacts
  <2>4. Extended
    <3>1. \A g \in DOMAIN home' \ DOMAIN home : g = Len(home) + 1
      BY <1>1, <2>2
    <3>2. \A g \in DOMAIN home : home'[g] = home[g] /\ chan'[g] = chan[g]
      BY <1>1, <2>2, <2>3
    <3>3. DOMAIN home \subseteq DOMAIN home'
      BY <1>1, <2>2
    <3> QED
      BY <2>2, <2>3, <3>1, <3>2, <3>3 DEF Extended
  <2> QED
    BY <1>1, <2>2, <2>4 DEF Range
<1>3. ASSUME UNCHANGED <<home, chan>>
      PROVE  Extended
  BY <1>1, <1>3 DEF Extended
<1> QED
  BY <1>2, <1>3

\* Activating a session changes which runtimes there are, and only idle ones
\* are unloaded.
LEMMA ActivatedFacts ==
  ASSUME IInv, up, up' = up, NEW s \in Sessions, Activated(s)
  PROVE  /\ UNCHANGED <<busy, handle, slot, task, ask>>
         /\ seq' \in [Sessions -> Nat] /\ gen' \in [Sessions -> Nat]
         /\ Extended
         /\ \A x \in Sessions : gen'[x] # gen[x] => ~ busy[x] /\ handle[x] = 0
         /\ Residents' /\ active' = s
         /\ s # active => parked' # << >> /\ Last(parked') = active
<1>1. /\ Shape /\ Refers /\ Residents /\ Backed /\ active \in Sessions
      /\ home \in Seq(Sessions) /\ Len(home) \in Nat /\ DOMAIN home = 1 .. Len(home)
      /\ seq \in [Sessions -> Nat] /\ gen \in [Sessions -> Nat]
      /\ handle \in [Sessions -> Nat] /\ busy \in [Sessions -> BOOLEAN]
      /\ slot \in [Sessions -> Nat]
  BY ShapeFacts DEF IInv, Shape, Residents
<1>2. CASE s = active
  <2>1. UNCHANGED <<residency, runtimes, chan, task, ask>>
    BY <1>2 DEF Activated
  <2>2. Residents'
    BY <1>1, <2>1 DEF Residents, residency, Loaded
  <2> QED
    BY <1>1, <1>2, <2>1, <2>2, BuildFacts DEF residency, runtimes
<1>3. CASE s # active
  <2> DEFINE out == Evictees(s)
  <2>1. /\ active' = s /\ parked' = Parked(s)
        /\ gen' = [x \in Sessions |->
                     IF x \in out THEN 0
                     ELSE IF x = s /\ ~ Loaded(s) THEN Len(home) + 1 ELSE gen[x]]
        /\ IF Loaded(s) THEN UNCHANGED <<home, chan>> ELSE Build(s)
        /\ Stop(out) /\ seq' = [x \in Sessions |-> IF x \in out THEN 0 ELSE seq[x]]
    BY <1>3 DEF Activated, Unload
  <2>2. /\ out \subseteq Range(parked) /\ out \subseteq Sessions /\ s \notin out /\ active \notin out
        /\ s \in Range(parked) => out = {}
        /\ \A x \in out : ~ busy[x] /\ handle[x] = 0 /\ slot[x] = 0
        /\ \A x, y \in out : x = y
    BY <1>1, EvicteesFacts DEF MayEvict
  <2> HIDE DEF out
  <2>3. UNCHANGED <<busy, handle, slot, task, ask>>
    BY <1>1, <2>1, <2>2, StopIdle
  <2>4. seq' \in [Sessions -> Nat] /\ gen' \in [Sessions -> Nat]
    BY <1>1, <2>1
  <2>5. Extended
    BY <1>1, <2>1, BuildFacts
  <2>6. ASSUME NEW x \in Sessions, gen'[x] # gen[x]
        PROVE  ~ busy[x] /\ handle[x] = 0
    <3>1. CASE x \in out
      BY <2>2, <3>1
    <3>2. CASE x = s /\ ~ Loaded(s)
      <4>1. gen[s] = 0
        BY <3>2 DEF Loaded
      <4>2. handle[s] # 0 => handle[s] \in DOMAIN task
        BY <1>1, ShapeFacts DEF Refers
      <4>3. handle[s] # 0 => task[handle[s]].gen = 0 /\ task[handle[s]].gen \in 1 .. Len(home)
        BY <1>1, <4>1, <4>2 DEF Backed, Refers
      <4>4. handle[s] = 0
        BY <1>1, <4>3
      <4> QED
        BY <1>1, <3>2, <4>4 DEF Backed
    <3> QED
      BY <2>1, <2>6, <3>1, <3>2
  <2>7. /\ parked' = Append(Without(out \cup {s}), active)
        /\ Without(out \cup {s}) \in Seq((Sessions \ {active}) \ (out \cup {s}))
        /\ IsInjective(Without(out \cup {s}))
        /\ Range(Without(out \cup {s})) = Range(parked) \ (out \cup {s})
    <3>1. \A i, j \in DOMAIN parked :
            parked[i] \in out \cup {s} /\ parked[j] \in out \cup {s} => i = j
      <4> SUFFICES ASSUME NEW i \in DOMAIN parked, NEW j \in DOMAIN parked,
                          parked[i] \in out \cup {s}, parked[j] \in out \cup {s}
                   PROVE  parked[i] = parked[j]
        BY <1>1 DEF Residents, IsInjective
      <4>1. parked[i] \in Range(parked) /\ parked[j] \in Range(parked)
        BY DEF Range
      <4> QED
        BY <2>2, <4>1
    <3>2. parked \in Seq(Sessions \ {active}) /\ IsInjective(parked)
      BY <1>1 DEF Residents
    <3> QED
      BY <2>1, <3>1, <3>2, WithoutFacts DEF Parked, out
  <2> DEFINE q == Without(out \cup {s})
  <2>8. /\ q \in Seq(Sessions \ {s}) /\ \A k \in 1 .. Len(q) : q[k] # active
        /\ Len(q) \in Nat /\ DOMAIN q = 1 .. Len(q)
    <3>1. \A k \in 1 .. Len(q) : q[k] \in (Sessions \ {active}) \ (out \cup {s})
      BY <2>7, ElementOfSeq
    <3>2. q = [k \in 1 .. Len(q) |-> q[k]] /\ Len(q) \in Nat /\ DOMAIN q = 1 .. Len(q)
      BY <2>7, LenProperties
    <3>3. \A k \in 1 .. Len(q) : q[k] \in Sessions \ {s}
      BY <3>1
    <3> HIDE DEF q
    <3>4. q \in Seq(Sessions \ {s})
      BY <3>2, <3>3, SeqDef
    <3> QED
      BY <3>1, <3>2, <3>4
  <2>9. parked' = Append(q, active) /\ IsInjective(q) /\ Range(q) = Range(parked) \ (out \cup {s})
    BY <2>7
  <2> HIDE DEF q
  <2>10. /\ parked' \in Seq(Sessions \ {s}) /\ Len(parked') = Len(q) + 1
         /\ DOMAIN parked' = 1 .. Len(q) + 1
         /\ parked'[Len(q) + 1] = active /\ \A k \in 1 .. Len(q) : parked'[k] = q[k]
    BY <1>1, <1>3, <2>8, <2>9, AppendFacts
  <2>11. parked' # << >> /\ Last(parked') = active
    BY <2>8, <2>10 DEF Last
  <2>12. IsInjective(parked')
    BY <2>8, <2>9, <2>10 DEF IsInjective
  <2>13. Range(parked') = (Range(parked) \ (out \cup {s})) \cup {active}
    <3>1. Range(parked') = Range(q) \cup {active}
      BY <2>8, <2>10 DEF Range
    <3> QED
      BY <2>9, <3>1
  <2>14. ASSUME NEW x \in Sessions
         PROVE  gen'[x] # 0 <=> x \in {s} \cup Range(parked')
    <3>1. gen[x] # 0 <=> x \in {active} \cup Range(parked)
      BY <1>1 DEF Residents, Loaded
    <3>2. Len(home) + 1 # 0
      BY <1>1
    <3>3. gen'[x] = IF x \in out THEN 0
                    ELSE IF x = s /\ ~ Loaded(s) THEN Len(home) + 1 ELSE gen[x]
      BY <2>1
    <3> QED
      BY <2>2, <2>13, <3>1, <3>2, <3>3 DEF Loaded
  <2>15. ASSUME NEW x \in Sessions, gen'[x] # 0
         PROVE  gen'[x] \in DOMAIN home' /\ home'[gen'[x]] = x
    <3>1. CASE gen'[x] = gen[x]
      BY <1>1, <2>5, <2>15, <3>1 DEF Residents, Loaded, Extended
    <3>2. CASE x = s /\ ~ Loaded(s) /\ gen'[x] = Len(home) + 1
      BY <1>1, <2>1, <3>2, BuildFacts
    <3> QED
      BY <2>1, <2>15, <3>1, <3>2
  <2>16. s \in Range(home')
    <3>1. s \in Sessions /\ gen'[s] # 0
      BY <2>14
    <3> QED
      BY <2>15, <3>1 DEF Range
  <2>17. Residents'
    BY <2>1, <2>10, <2>12, <2>14, <2>15, <2>16 DEF Residents, Loaded
  <2> QED
    BY <2>1, <2>3, <2>4, <2>5, <2>6, <2>11, <2>17
<1> QED
  BY <1>2, <1>3

-----------------------------------------------------------------------------
(* What steps leave alone *)

\* Approvals on their way: none that was not, and none of them is registered.
LEMMA UnregisteredStays ==
  ASSUME Unregistered, DOMAIN ask \subseteq DOMAIN ask',
         DOMAIN pending' \subseteq DOMAIN pending \cup (DOMAIN ask' \ DOMAIN ask),
         \A g \in DOMAIN chan' : \A i \in DOMAIN chan'[g] :
           chan'[g][i].type = "approval" =>
             g \in DOMAIN chan /\ i \in DOMAIN chan[g] /\ chan'[g][i] = chan[g][i]
  PROVE  Unregistered'
<1>1. \A g, i : Asking(g, i)' <=> chan'[g][i].type = "approval"
  BY DEF Asking
<1>2. ASSUME NEW g \in DOMAIN chan', NEW i \in DOMAIN chan'[g], chan'[g][i].type = "approval"
      PROVE  chan'[g][i].ask \in DOMAIN ask' \ DOMAIN pending'
  BY <1>2 DEF Unregistered, Asking
<1>3. ASSUME NEW g \in DOMAIN chan', NEW i \in DOMAIN chan'[g], chan'[g][i].type = "approval",
             NEW h \in DOMAIN chan', NEW j \in DOMAIN chan'[h], chan'[h][j].type = "approval",
             chan'[h][j].ask = chan'[g][i].ask
      PROVE  g = h /\ i = j
  BY <1>3 DEF Unregistered, Asking
<1> QED
  BY <1>1, <1>2, <1>3 DEF Unregistered

\* Tasks and sessions: each session's task is dropped, or stays and what it
\* has to show stays, or is new.
LEMMA BackedStays ==
  ASSUME Backed,
         \A s \in Sessions : slot'[s] # 0 => gen'[s] # 0,
         \A s \in Sessions :
           \/ handle'[s] = 0 /\ ~ busy'[s]
           \/ /\ handle'[s] = handle[s] /\ gen'[s] = gen[s] /\ (busy'[s] => busy[s])
              /\ handle[s] # 0 => task'[handle[s]].gen = task[handle[s]].gen
              /\ busy[s] => task'[handle[s]].aborted = task[handle[s]].aborted
              /\ busy[s] /\ task'[handle[s]].state = "ended" =>
                   \/ task[handle[s]].state = "ended"
                   \/ \E i \in DOMAIN chan'[gen[s]] : chan'[gen[s]][i].type # "approval"
              /\ busy[s] /\ Reports(gen[s]) =>
                   \E i \in DOMAIN chan'[gen[s]] : chan'[gen[s]][i].type # "approval"
           \/ /\ handle'[s] # 0 /\ task'[handle'[s]].gen = gen'[s]
              /\ ~ task'[handle'[s]].aborted /\ task'[handle'[s]].state # "ended"
  PROVE  Backed'
<1> SUFFICES ASSUME NEW s \in Sessions
             PROVE  /\ handle'[s] # 0 => task'[handle'[s]].gen = gen'[s]
                    /\ busy'[s] => /\ handle'[s] # 0 /\ ~ task'[handle'[s]].aborted
                                   /\ task'[handle'[s]].state = "ended" => Reports(gen[s])'
  BY DEF Backed, Loaded
<1>1. Reports(gen[s])' <=> \E i \in DOMAIN chan'[gen'[s]] : chan'[gen'[s]][i].type # "approval"
  BY DEF Reports, Asking
<1>2. /\ handle[s] # 0 => task[handle[s]].gen = gen[s]
      /\ busy[s] => /\ handle[s] # 0 /\ ~ task[handle[s]].aborted
                    /\ task[handle[s]].state = "ended" => Reports(gen[s])
  BY DEF Backed
<1>3. CASE handle'[s] = 0 /\ ~ busy'[s]
  BY <1>3
<1>4. CASE /\ handle'[s] # 0 /\ task'[handle'[s]].gen = gen'[s]
           /\ ~ task'[handle'[s]].aborted /\ task'[handle'[s]].state # "ended"
  BY <1>4
<1>5. CASE /\ handle'[s] = handle[s] /\ gen'[s] = gen[s] /\ (busy'[s] => busy[s])
           /\ handle[s] # 0 => task'[handle[s]].gen = task[handle[s]].gen
           /\ busy[s] => task'[handle[s]].aborted = task[handle[s]].aborted
           /\ busy[s] /\ task'[handle[s]].state = "ended" =>
                \/ task[handle[s]].state = "ended"
                \/ \E i \in DOMAIN chan'[gen[s]] : chan'[gen[s]][i].type # "approval"
           /\ busy[s] /\ Reports(gen[s]) =>
                \E i \in DOMAIN chan'[gen[s]] : chan'[gen[s]][i].type # "approval"
  BY <1>1, <1>2, <1>5
<1> QED
  BY <1>3, <1>4, <1>5

\* The same runtimes.
LEMMA ResidentsStay ==
  ASSUME Residents, UNCHANGED <<up, active, parked, gen, home>>
  PROVE  Residents'
BY DEF Residents, Loaded

\* Who is active, or waits for an approval, has a runtime.
LEMMA LoadedFacts ==
  ASSUME IInv
  PROVE  /\ up => active \in Sessions /\ gen[active] \in DOMAIN home
         /\ \A s \in Sessions : gen[s] # 0 \/ slot[s] # 0 \/ handle[s] # 0 \/ busy[s] =>
              gen[s] \in DOMAIN home /\ home[gen[s]] = s /\ gen[s] # 0
<1>1. /\ Residents /\ Backed /\ Refers /\ Shape /\ 0 \notin DOMAIN home
      /\ \A s \in Sessions : handle[s] # 0 => handle[s] \in DOMAIN task
  BY ShapeFacts DEF IInv, Refers, Shape
<1>2. ASSUME NEW s \in Sessions, gen[s] # 0
      PROVE  gen[s] \in DOMAIN home /\ home[gen[s]] = s
  BY <1>1, <1>2 DEF Residents, Loaded
<1>3. ASSUME NEW s \in Sessions, slot[s] # 0 \/ handle[s] # 0 \/ busy[s]
      PROVE  gen[s] # 0
  <2>1. CASE slot[s] # 0
    BY <1>1, <2>1 DEF Backed, Loaded
  <2>2. CASE handle[s] # 0
    BY <1>1, <2>2 DEF Backed, Refers
  <2> QED
    BY <1>1, <1>3, <2>1, <2>2 DEF Backed
<1>4. up => active \in Sessions /\ gen[active] # 0
  BY <1>1 DEF Residents, Loaded
<1> QED
  BY <1>2, <1>3, <1>4

-----------------------------------------------------------------------------
(* Switching sessions *)

LEMMA SwitchIInv ==
  ASSUME IInv, up, up' = up,
         \/ \E s \in Sessions : Activated(s)
         \/ UNCHANGED <<residency, runtimes, chan, task, ask>>,
         stored' \subseteq Sessions, listed' \subseteq Sessions,
         commands' \in 0 .. MaxCommands,
         UNCHANGED <<pending, accepted>>, Handlers'
  PROVE  IInv'
<1>1. /\ Shape /\ Refers /\ Residents /\ Consent /\ SlotHasRecord /\ Unregistered /\ Backed
      /\ seq \in [Sessions -> Nat] /\ gen \in [Sessions -> Nat]
      /\ DOMAIN home = 1 .. Len(home) /\ DOMAIN chan = DOMAIN home
  BY ShapeFacts DEF IInv, Shape
<1>2. /\ UNCHANGED <<busy, handle, slot, task, ask>>
      /\ seq' \in [Sessions -> Nat] /\ gen' \in [Sessions -> Nat]
      /\ Extended /\ \A x \in Sessions : gen'[x] # gen[x] => ~ busy[x] /\ handle[x] = 0
      /\ Residents'
  <2>1. CASE \E s \in Sessions : Activated(s)
    BY <2>1, ActivatedFacts
  <2>2. CASE UNCHANGED <<residency, runtimes, chan, task, ask>>
    <3>1. active \in Sessions
      BY <1>1 DEF Residents
    <3> QED
      BY <1>1, <2>2, <3>1, BuildFacts, ResidentsStay DEF residency, runtimes
  <2> QED
    BY <2>1, <2>2
<1>3. Shape'
  BY <1>1, <1>2 DEF Shape, Extended
<1>4. DOMAIN home' = 1 .. Len(home') /\ DOMAIN chan' = DOMAIN home'
  BY <1>2, LenProperties DEF Extended
<1>5. Refers'
  <2>1. \A t \in DOMAIN task' : task'[t].gen \in DOMAIN home'
    BY <1>1, <1>2 DEF Refers, Extended
  <2>2. ASSUME NEW g \in DOMAIN chan', NEW i \in DOMAIN chan'[g]
        PROVE  chan'[g][i].task \in DOMAIN task' /\ chan'[g][i].ask <= Len(ask')
    <3>1. CASE g \in DOMAIN home
      <4>1. chan'[g] = chan[g] /\ g \in DOMAIN chan
        BY <1>1, <1>2, <3>1 DEF Extended
      <4> QED
        BY <1>1, <1>2, <4>1 DEF Refers
    <3>2. CASE g \notin DOMAIN home
      BY <1>2, <1>4, <3>2 DEF Extended
    <3> QED
      BY <3>1, <3>2
  <2> QED
    BY <1>1, <1>2, <2>1, <2>2 DEF Refers
<1>6. Consent' /\ SlotHasRecord'
  BY <1>1, <1>2 DEF Consent, SlotHasRecord
<1>7. Unregistered'
  <2>1. \A g \in DOMAIN chan' : \A i \in DOMAIN chan'[g] :
          g \in DOMAIN chan /\ i \in DOMAIN chan[g] /\ chan'[g][i] = chan[g][i]
    BY <1>1, <1>2, ExtendedEvents
  <2> QED
    BY <1>1, <1>2, <2>1, UnregisteredStays
<1>8. Backed'
  <2>1. ASSUME NEW s \in Sessions, slot'[s] # 0
        PROVE  gen'[s] # 0
    <3>1. CASE gen'[s] = gen[s]
      BY <1>1, <1>2, <2>1, <3>1 DEF Backed, Loaded
    <3>2. CASE \E x \in Sessions : Activated(x)
      <4>1. PICK x \in Sessions : Activated(x)
        BY <3>2
      <4>2. CASE x = active
        BY <1>1, <3>1, <4>1, <4>2 DEF Activated, residency
      <4>3. CASE x # active
        <5>1. s \notin Evictees(x)
          BY <1>1, <1>2, <2>1, EvicteesFacts DEF MayEvict
        <5>2. gen'[s] = IF s = x /\ ~ Loaded(x) THEN Len(home) + 1 ELSE gen[s]
          BY <4>1, <4>3, <5>1 DEF Activated
        <5>3. Len(home) + 1 # 0
          BY <1>1, ShapeFacts
        <5> QED
          BY <3>1, <5>2, <5>3
      <4> QED
        BY <4>2, <4>3
    <3> QED
      BY <3>1, <3>2 DEF residency
  <2>2. ASSUME NEW s \in Sessions, busy[s]
        PROVE  gen[s] \in DOMAIN chan
    BY <1>1, <2>2, LoadedFacts
  <2>3. ASSUME NEW s \in Sessions, busy[s], Reports(gen[s])
        PROVE  \E i \in DOMAIN chan'[gen[s]] : chan'[gen[s]][i].type # "approval"
    BY <1>1, <1>2, <2>2, <2>3 DEF Reports, Asking, Extended
  <2>4. ASSUME NEW s \in Sessions
        PROVE  \/ handle'[s] = 0 /\ ~ busy'[s]
               \/ handle'[s] = handle[s] /\ gen'[s] = gen[s] /\ (busy'[s] => busy[s])
    BY <1>2
  <2> QED
    BY <1>1, <1>2, <2>1, <2>3, <2>4, BackedStays
<1> QED
  BY <1>2, <1>3, <1>5, <1>6, <1>7, <1>8 DEF IInv

\* Switching leaves what runs alone.
LEMMA IdleHandlers ==
  ASSUME up', doing' = Idle
  PROVE  Handlers'
BY ConstantFacts DEF Handlers, Idle

LEMMA ActivateSessionIInv ==
  ASSUME IInv, NEW s \in Sessions, ActivateSession(s)
  PROVE  IInv'
<1>1. /\ up /\ up' = up /\ doing' = Idle /\ Activated(s)
      /\ UNCHANGED <<stored, listed, pending, accepted>> /\ commands' \in 0 .. MaxCommands
  BY ConstantFacts DEF ActivateSession, Command, Ready, storageVars, IInv, Shape
<1>2. Handlers'
  BY <1>1, IdleHandlers
<1>3. stored' \subseteq Sessions /\ listed' \subseteq Sessions
  BY <1>1 DEF IInv, Shape
<1> QED
  BY <1>1, <1>2, <1>3, SwitchIInv

\* The handler a command leaves behind works on the session it activated.
LEMMA DoingHandlers ==
  ASSUME IInv, up', NEW s \in Sessions, NEW input \in Inputs, doing' = Doing(input, s),
         active' = s, Len(task') \in Nat
  PROVE  Handlers'
BY ConstantFacts DEF Handlers, Doing, Idle

LEMMA ActiveAfter ==
  ASSUME NEW s, Activated(s)
  PROVE  active' = s
BY DEF Activated, residency

LEMMA SubmitIInv ==
  ASSUME IInv, NEW s \in Sessions, NEW input \in Inputs, Submit(s, input)
  PROVE  IInv'
<1>1. /\ up /\ up' = up /\ doing' = Doing(input, s) /\ Activated(s)
      /\ UNCHANGED <<stored, listed, pending, accepted>> /\ commands' \in 0 .. MaxCommands
  BY ConstantFacts DEF Submit, Command, Ready, storageVars, IInv, Shape
<1>2. stored' \subseteq Sessions /\ listed' \subseteq Sessions
  BY <1>1 DEF IInv, Shape
<1>3. task' = task /\ Len(task) \in Nat
  BY <1>1, ActivatedFacts, ShapeFacts DEF IInv
<1>4. Handlers'
  BY <1>1, <1>3, ActiveAfter, DoingHandlers
<1> QED
  BY <1>1, <1>2, <1>4, SwitchIInv

LEMMA SubmitNewIInv ==
  ASSUME IInv, NEW s \in Sessions, NEW input \in Inputs, SubmitNew(s, input)
  PROVE  IInv'
<1>1. /\ up /\ up' = up /\ Created(s) /\ UNCHANGED <<pending, accepted>>
      /\ doing' = (IF NoRoom(s) THEN Idle ELSE Doing(input, s))
      /\ commands' \in 0 .. MaxCommands
  BY ConstantFacts DEF SubmitNew, Command, Ready, IInv, Shape
<1>2. stored' \subseteq Sessions /\ listed' \subseteq Sessions
  BY <1>1 DEF Created, IInv, Shape
<1>3. CASE NoRoom(s)
  <2>1. UNCHANGED <<residency, runtimes, chan, task, ask>> /\ doing' = Idle
    BY <1>1, <1>3 DEF Created
  <2> QED
    BY <1>1, <1>2, <2>1, IdleHandlers, SwitchIInv
<1>4. CASE ~ NoRoom(s)
  <2>1. Activated(s) /\ doing' = Doing(input, s)
    BY <1>1, <1>4 DEF Created
  <2>2. task' = task /\ Len(task) \in Nat
    BY <1>1, <2>1, ActivatedFacts, ShapeFacts DEF IInv
  <2>3. Handlers'
    BY <1>1, <2>1, <2>2, ActiveAfter, DoingHandlers
  <2> QED
    BY <1>1, <1>2, <2>1, <2>3, SwitchIInv
<1> QED
  BY <1>3, <1>4

\* A handler is under way only while the engine is up.
LEMMA SecondFacts ==
  ASSUME IInv, NEW input, input # "none", doing.input = input
  PROVE  /\ up /\ input \in Inputs \cup {"cancel", "drop"} /\ doing.session \in Sessions
         /\ input \in Inputs => doing.session = active
         /\ doing.task \in 0 .. Len(task) /\ doing.receipt \in 0 .. Len(task)
BY DEF IInv, Handlers, Idle

LEMMA SubmitCreateIInv ==
  ASSUME IInv, SubmitCreate
  PROVE  IInv'
<1>1. /\ up /\ up' = up /\ doing' = Idle /\ UNCHANGED <<pending, accepted, commands>>
  BY SecondFacts DEF SubmitCreate, Second
<1>2. PICK s \in Sessions : Created(s)
  BY DEF SubmitCreate
<1>3. /\ stored' \subseteq Sessions /\ listed' \subseteq Sessions
      /\ commands' \in 0 .. MaxCommands /\ Handlers'
  BY <1>1, <1>2, IdleHandlers DEF Created, IInv, Shape
<1>4. \/ Activated(s) \/ UNCHANGED <<residency, runtimes, chan, task, ask>>
  BY <1>2 DEF Created
<1> QED
  BY <1>1, <1>3, <1>4, SwitchIInv

LEMMA SubmitDeleteIInv ==
  ASSUME IInv, SubmitDelete
  PROVE  IInv'
<1>1. /\ up /\ up' = up /\ doing.session = active /\ active \in Sessions
      /\ UNCHANGED <<listed, pending, accepted, commands>>
  <2>1. active \in Sessions /\ doing.input = "delete"
    BY DEF SubmitDelete, IInv, Residents
  <2>2. up /\ doing.session = active
    BY <2>1, SecondFacts
  <2> QED
    BY <2>1, <2>2 DEF SubmitDelete
<1>2. PICK s \in Sessions :
        /\ IF stored \ {active} # {} THEN s \in stored \ {active} ELSE Fresh(s)
        /\ stored' = (stored \ {active}) \cup {s}
        /\ IF NoRoom(s)
             THEN doing' = Idle /\ UNCHANGED <<residency, runtimes, chan, task, ask>>
             ELSE doing' = Doing("drop", doing.session) /\ Activated(s)
  BY DEF SubmitDelete
<1>3. /\ stored' \subseteq Sessions /\ listed' \subseteq Sessions /\ commands' \in 0 .. MaxCommands
  BY <1>1, <1>2 DEF IInv, Shape
<1>4. CASE NoRoom(s)
  BY <1>1, <1>2, <1>3, <1>4, IdleHandlers, SwitchIInv
<1>5. CASE ~ NoRoom(s)
  <2>1. doing' = Doing("drop", active) /\ Activated(s)
    BY <1>1, <1>2, <1>5
  <2>2. s # active
    <3>1. Residents /\ active \in Range(home)
      BY DEF IInv, Residents
    <3> QED
      BY <1>2, <3>1 DEF Fresh
  <2>3. parked' # << >> /\ Last(parked') = active /\ task' = task /\ Len(task) \in Nat
    BY <1>1, <2>1, <2>2, ActivatedFacts, ShapeFacts DEF IInv
  <2>4. Handlers'
    BY <1>1, <2>1, <2>3, ConstantFacts DEF Handlers, Doing, Idle
  <2> QED
    BY <1>1, <1>3, <2>1, <2>4, SwitchIInv
<1> QED
  BY <1>4, <1>5

-----------------------------------------------------------------------------
(* Commands in the active session *)

\* A spawned task is a new one, at work in the runtime of its session.
LEMMA SpawnedFacts ==
  ASSUME Shape, NEW s \in Sessions, NEW kind \in TaskKinds, NEW request \in Nat,
         Spawned(s, kind, request)
  PROVE  /\ task' \in Seq(Tasks) /\ Len(task') = Len(task) + 1
         /\ DOMAIN task' = 1 .. Len(task) + 1 /\ DOMAIN task = 1 .. Len(task)
         /\ \A t \in DOMAIN task : task'[t] = task[t]
         /\ LET t == Len(task) + 1
            IN  /\ task'[t].gen = gen[s] /\ ~ task'[t].aborted /\ task'[t].state = "running"
                /\ handle'[s] = t
         /\ busy' \in [Sessions -> BOOLEAN] /\ handle' \in [Sessions -> Nat]
         /\ \A x \in Sessions \ {s} : busy'[x] = busy[x] /\ handle'[x] = handle[x]
         /\ Len(task) \in Nat
<1> DEFINE new == [kind |-> kind, gen |-> gen[s], state |-> "running",
                   aborted |-> FALSE, seq |-> request]
<1>1. /\ task \in Seq(Tasks) /\ gen \in [Sessions -> Nat]
      /\ busy \in [Sessions -> BOOLEAN] /\ handle \in [Sessions -> Nat]
  BY DEF Shape
<1>2. new \in Tasks
  BY <1>1 DEF Tasks
<1>3. new.gen = gen[s] /\ ~ new.aborted /\ new.state = "running"
  OBVIOUS
<1>4. task' = Append(task, new) /\ busy' = [busy EXCEPT ![s] = TRUE]
      /\ handle' = [handle EXCEPT ![s] = Len(task) + 1]
  BY DEF Spawned
<1> HIDE DEF new
<1>5. /\ task' \in Seq(Tasks) /\ Len(task') = Len(task) + 1
      /\ DOMAIN task' = 1 .. Len(task) + 1 /\ DOMAIN task = 1 .. Len(task)
      /\ \A t \in 1 .. Len(task) : task'[t] = task[t]
      /\ task'[Len(task) + 1] = new /\ Len(task) \in Nat
  BY <1>1, <1>2, <1>4, AppendFacts
<1> QED
  BY <1>1, <1>3, <1>4, <1>5

\* A step that at most spawns a task in a loaded runtime.
LEMMA SpawnIInv ==
  ASSUME IInv, up, up' = up, Handlers',
         NEW s \in Sessions, gen[s] # 0, NEW kind \in TaskKinds, NEW request \in Nat,
         Spawned(s, kind, request) \/ UNCHANGED <<busy, handle, task>>,
         UNCHANGED <<stored, residency, slot, pending, chan, ask, accepted>>,
         seq' \in [Sessions -> Nat], listed' \subseteq Sessions,
         commands' \in 0 .. MaxCommands
  PROVE  IInv'
<1>1. /\ Shape /\ Refers /\ Residents /\ Consent /\ SlotHasRecord /\ Unregistered /\ Backed
      /\ UNCHANGED <<active, parked, gen, home>>
      /\ DOMAIN task = 1 .. Len(task) /\ Len(task) \in Nat
      /\ DOMAIN chan = DOMAIN home
  BY ShapeFacts DEF IInv, residency
<1>2. /\ task' \in Seq(Tasks) /\ Len(task') \in Nat /\ Len(task) <= Len(task')
      /\ DOMAIN task' = 1 .. Len(task')
      /\ busy' \in [Sessions -> BOOLEAN] /\ handle' \in [Sessions -> Nat]
      /\ \A t \in DOMAIN task : task'[t] = task[t]
      /\ \A t \in DOMAIN task' \ DOMAIN task : task'[t].gen = gen[s]
      /\ \A x \in Sessions :
           \/ handle'[x] = handle[x] /\ busy'[x] = busy[x]
           \/ /\ handle'[x] = Len(task') /\ handle'[x] # 0 /\ task'[handle'[x]].gen = gen[x]
              /\ ~ task'[handle'[x]].aborted /\ task'[handle'[x]].state # "ended"
  <2>1. CASE Spawned(s, kind, request)
    <3>1. /\ task' \in Seq(Tasks) /\ Len(task') = Len(task) + 1
          /\ DOMAIN task' = 1 .. Len(task) + 1
          /\ \A t \in DOMAIN task : task'[t] = task[t]
          /\ task'[Len(task) + 1].gen = gen[s] /\ ~ task'[Len(task) + 1].aborted
          /\ task'[Len(task) + 1].state = "running" /\ handle'[s] = Len(task) + 1
          /\ busy' \in [Sessions -> BOOLEAN] /\ handle' \in [Sessions -> Nat]
          /\ \A x \in Sessions \ {s} : busy'[x] = busy[x] /\ handle'[x] = handle[x]
      BY <1>1, <2>1, SpawnedFacts
    <3>2. \A t \in DOMAIN task' \ DOMAIN task : t = Len(task) + 1
      BY <1>1, <3>1
    <3>3. Len(task') \in Nat /\ Len(task) <= Len(task') /\ Len(task) + 1 # 0
      BY <1>1, <3>1
    <3> QED
      BY <3>1, <3>2, <3>3
  <2>2. CASE UNCHANGED <<busy, handle, task>>
    BY <1>1, <2>2 DEF Shape
  <2> QED
    BY <2>1, <2>2
<1>3. Shape'
  BY <1>1, <1>2 DEF Shape
<1>4. Refers'
  <2>1. gen[s] \in DOMAIN home
    BY <1>1 DEF Residents, Loaded
  <2>2. \A t \in DOMAIN task' : task'[t].gen \in DOMAIN home'
    BY <1>1, <1>2, <2>1 DEF Refers
  <2>3. \A x \in Sessions : handle'[x] <= Len(task') /\ slot'[x] <= Len(ask')
    <3> SUFFICES ASSUME NEW x \in Sessions PROVE handle'[x] <= Len(task')
      BY <1>1 DEF Refers
    <3>1. handle[x] <= Len(task) /\ handle[x] \in Nat
      BY <1>1 DEF Refers, Shape
    <3> QED
      BY <1>1, <1>2, <3>1
  <2>4. \A a \in DOMAIN ask' : ask'[a].task <= Len(task')
    <3> SUFFICES ASSUME NEW a \in DOMAIN ask PROVE ask[a].task <= Len(task')
      OBVIOUS
    <3>1. ask[a].task <= Len(task) /\ ask[a].task \in Nat
      BY <1>1, ShapeFacts DEF Refers, Asks
    <3> QED
      BY <1>1, <1>2, <3>1
  <2>5. \A g \in DOMAIN chan' : \A i \in DOMAIN chan'[g] :
          chan'[g][i].task \in DOMAIN task' /\ chan'[g][i].ask <= Len(ask')
    <3>1. DOMAIN task \subseteq DOMAIN task'
      BY <1>1, <1>2
    <3> QED
      BY <1>1, <3>1 DEF Refers
  <2> QED
    BY <1>1, <2>2, <2>3, <2>4, <2>5 DEF Refers
<1>5. Residents'
  BY <1>1, ResidentsStay
<1>6. Consent' /\ SlotHasRecord'
  BY <1>1 DEF Consent, SlotHasRecord
<1>7. Unregistered'
  BY <1>1, UnregisteredStays
<1>8. Backed'
  <2>1. \A x \in Sessions : slot'[x] # 0 => gen'[x] # 0
    BY <1>1 DEF Backed, Loaded
  <2>2. \A x \in Sessions : handle[x] # 0 => handle[x] \in DOMAIN task
    BY <1>1 DEF Refers, Shape
  <2>3. \A x \in Sessions : busy[x] => handle[x] # 0
    BY <1>1 DEF Backed
  <2>4. ASSUME NEW x \in Sessions, Reports(gen[x])
        PROVE  \E i \in DOMAIN chan'[gen[x]] : chan'[gen[x]][i].type # "approval"
    BY <2>4 DEF Reports, Asking
  <2> QED
    BY <1>1, <1>2, <2>1, <2>2, <2>3, <2>4, BackedStays
<1> QED
  BY <1>3, <1>4, <1>5, <1>6, <1>7, <1>8 DEF IInv

LEMMA SubmitTextIInv ==
  ASSUME IInv, SubmitText
  PROVE  IInv'
<1>1. /\ up /\ up' = up /\ doing' = Idle /\ active \in Sessions /\ gen[active] # 0
      /\ UNCHANGED <<stored, residency, slot, pending, chan, ask, accepted, commands>>
  BY SecondFacts DEF SubmitText, Second, IInv, Residents, Loaded, runtimes
<1>2. /\ Handlers' /\ listed' \subseteq Sessions /\ commands' \in 0 .. MaxCommands
  BY <1>1, IdleHandlers DEF SubmitText, IInv, Shape
<1>3. CASE Occupied(active)
  <2>1. UNCHANGED <<busy, handle, seq, task>>
    BY <1>3 DEF SubmitText, runtimes
  <2>2. seq' \in [Sessions -> Nat]
    BY <2>1 DEF IInv, Shape
  <2> QED
    BY <1>1, <1>2, <2>1, <2>2, SpawnIInv DEF TaskKinds
<1>4. CASE ~ Occupied(active)
  <2>1. seq' \in [Sessions -> Nat] /\ seq'[active] \in Nat
    BY <1>1, <1>4 DEF SubmitText, IInv, Shape
  <2>2. Spawned(active, "run", seq'[active]) \/ UNCHANGED <<busy, handle, task>>
    BY <1>4 DEF SubmitText
  <2>3. "run" \in TaskKinds
    BY DEF TaskKinds
  <2> QED
    BY <1>1, <1>2, <2>1, <2>2, <2>3, SpawnIInv
<1> QED
  BY <1>3, <1>4

LEMMA SubmitLocalIInv ==
  ASSUME IInv, SubmitCompact \/ SubmitDiff
  PROVE  IInv'
<1>1. /\ up /\ up' = up /\ doing' = Idle /\ active \in Sessions /\ gen[active] # 0
      /\ UNCHANGED <<stored, listed, residency, slot, seq, pending, chan, ask, accepted, commands>>
  BY SecondFacts DEF SubmitCompact, SubmitDiff, Second, IInv, Residents, Loaded, storageVars
<1>2. /\ Handlers' /\ listed' \subseteq Sessions /\ commands' \in 0 .. MaxCommands
      /\ seq' \in [Sessions -> Nat] /\ seq[active] \in Nat
      /\ "compact" \in TaskKinds /\ "local" \in TaskKinds
  BY <1>1, IdleHandlers DEF IInv, Shape, TaskKinds
<1>3. \/ Spawned(active, "compact", seq[active])
      \/ Spawned(active, "local", seq[active]) \/ UNCHANGED <<busy, handle, task>>
  BY DEF SubmitCompact, SubmitDiff
<1> QED
  BY <1>1, <1>2, <1>3, SpawnIInv

\* An answer is given once, to an ask that goes on otherwise unchanged.
LEMMA AnswerFacts ==
  ASSUME Shape, NEW a \in DOMAIN ask, NEW answer \in {"accept", "reject", "closed"}
  PROVE  /\ Answer(a, answer) \in Asks /\ Answer(a, answer).task = ask[a].task
         /\ Answer(a, answer).answer = "accept" => ask[a].answer = "accept" \/ answer = "accept"
<1>1. ask[a] \in Asks
  BY ShapeFacts
<1> QED
  BY <1>1 DEF Answer, Asks

\* The asks there are keep their tasks, and none is accepted.
AsksKept ==
  /\ ask' \in Seq(Asks) /\ Len(ask') = Len(ask)
  /\ \A a \in DOMAIN ask : /\ ask'[a].task = ask[a].task
                           /\ ask'[a].answer = "accept" => ask[a].answer = "accept"

LEMMA AsksKeptFacts ==
  ASSUME Shape, NEW S, NEW answer \in {"reject", "closed"},
         ask' = [a \in DOMAIN ask |-> IF a \in S THEN Answer(a, answer) ELSE ask[a]]
  PROVE  AsksKept
<1>1. /\ Len(ask) \in Nat /\ DOMAIN ask = 1 .. Len(ask) /\ \A a \in DOMAIN ask : ask[a] \in Asks
  BY ShapeFacts
<1>2. \A a \in DOMAIN ask : /\ ask'[a] \in Asks /\ ask'[a].task = ask[a].task
                            /\ ask'[a].answer = "accept" => ask[a].answer = "accept"
  BY AnswerFacts, <1>1
<1>3. ask' \in [1 .. Len(ask) -> Asks]
  BY <1>1, <1>2
<1>4. ask' \in Seq(Asks) /\ Len(ask') = Len(ask)
  BY <1>1, <1>3, SeqDef, LenProperties
<1> QED
  BY <1>2, <1>4 DEF AsksKept

LEMMA SubmitShellIInv ==
  ASSUME IInv, SubmitShell
  PROVE  IInv'
<1> DEFINE new == [task |-> 0, answer |-> "none"]
           kept == [a \in DOMAIN ask |->
                      IF slot[active] = a THEN Answer(a, "closed") ELSE ask[a]]
           id == Len(ask) + 1
<1>1. /\ Shape /\ Refers /\ Residents /\ Consent /\ SlotHasRecord /\ Unregistered /\ Backed
      /\ up /\ active \in Sessions /\ gen[active] # 0 /\ slot \in [Sessions -> Nat]
  BY SecondFacts DEF SubmitShell, Second, IInv, Residents, Loaded, Shape
<1>2. /\ UNCHANGED <<up, stored, listed, residency, busy, handle, seq, chan, task,
                     accepted, commands>>
      /\ doing' = Idle /\ ask' = Append(kept, new) /\ slot' = [slot EXCEPT ![active] = id]
      /\ pending' = [b \in DOMAIN pending \cup {id} |-> IF b = id THEN active ELSE pending[b]]
  BY DEF SubmitShell, Second, storageVars, Registered
<1>3. UNCHANGED <<active, parked, gen, home>>
  BY <1>2 DEF residency
<1>4. /\ Len(ask) \in Nat /\ DOMAIN ask = 1 .. Len(ask) /\ \A a \in DOMAIN ask : ask[a] \in Asks
      /\ DOMAIN pending \subseteq DOMAIN ask /\ Range(pending) \subseteq Sessions
      /\ accepted \subseteq DOMAIN ask
  BY <1>1, ShapeFacts DEF Refers
<1>5. /\ kept \in Seq(Asks) /\ Len(kept) = Len(ask)
      /\ \A a \in DOMAIN ask : /\ kept[a].task = ask[a].task
                               /\ kept[a].answer = "accept" => ask[a].answer = "accept"
  <2>1. \A a \in DOMAIN ask : /\ kept[a] \in Asks /\ kept[a].task = ask[a].task
                              /\ kept[a].answer = "accept" => ask[a].answer = "accept"
    BY <1>1, AnswerFacts, <1>4
  <2>2. kept \in [1 .. Len(ask) -> Asks]
    BY <1>4, <2>1
  <2> QED
    BY <1>4, <2>1, <2>2, SeqDef, LenProperties
<1>6. new \in Asks /\ new.answer # "accept" /\ new.task = 0
  BY DEF Asks
<1> HIDE DEF kept, new
<1>7. /\ ask' \in Seq(Asks) /\ Len(ask') = id /\ DOMAIN ask' = 1 .. id /\ ask'[id] = new
      /\ \A a \in DOMAIN ask : ask'[a] = kept[a]
  BY <1>2, <1>4, <1>5, <1>6, AppendFacts
<1>8. id \in Nat \ {0} /\ id \notin DOMAIN ask /\ DOMAIN ask \subseteq DOMAIN ask'
  BY <1>4, <1>7
<1>9. slot' \in [Sessions -> Nat]
  BY <1>1, <1>2, <1>8
<1>10. Shape'
  BY <1>1, <1>2, <1>3, <1>7, <1>9 DEF Shape
<1>11. Refers'
  <2>1. \A s \in Sessions : handle'[s] <= Len(task') /\ slot'[s] <= Len(ask')
    <3> SUFFICES ASSUME NEW s \in Sessions PROVE slot'[s] <= Len(ask')
      BY <1>1, <1>2 DEF Refers
    <3>1. slot[s] <= Len(ask) /\ slot[s] \in Nat
      BY <1>1 DEF Refers
    <3> QED
      BY <1>1, <1>2, <1>4, <1>7, <3>1
  <2>2. DOMAIN pending' \subseteq DOMAIN ask' /\ Range(pending') \subseteq Sessions
    <3>1. \A b \in DOMAIN pending' : b \in DOMAIN ask' /\ pending'[b] \in Sessions
      BY <1>1, <1>2, <1>4, <1>7, <1>8 DEF Range
    <3> QED
      BY <3>1 DEF Range
  <2>3. \A a \in DOMAIN ask' : ask'[a].task <= Len(task')
    <3>1. Len(task) \in Nat /\ \A a \in DOMAIN ask : ask[a].task <= Len(task)
      BY <1>1, ShapeFacts DEF Refers
    <3>2. \A a \in DOMAIN ask' : a \in DOMAIN ask \/ a = id
      BY <1>4, <1>7
    <3> QED
      BY <1>2, <1>5, <1>6, <1>7, <3>1, <3>2
  <2>4. \A g \in DOMAIN chan' : \A i \in DOMAIN chan'[g] :
          chan'[g][i].task \in DOMAIN task' /\ chan'[g][i].ask <= Len(ask')
    <3> SUFFICES ASSUME NEW g \in DOMAIN chan, NEW i \in DOMAIN chan[g]
                 PROVE  chan[g][i].ask <= Len(ask')
      BY <1>1, <1>2 DEF Refers
    <3>1. chan[g][i].ask <= Len(ask) /\ chan[g][i].ask \in Nat
      BY <1>1, ShapeFacts DEF Refers, Events
    <3> QED
      BY <1>4, <1>7, <3>1
  <2> QED
    BY <1>1, <1>2, <1>3, <1>8, <1>4, <2>1, <2>2, <2>3, <2>4 DEF Refers
<1>12. Residents'
  BY <1>1, <1>2, <1>3, ResidentsStay
<1>13. Handlers'
  BY <1>1, <1>2, IdleHandlers
<1>14. Consent'
  <2>1. \A a \in DOMAIN ask' : a \in DOMAIN ask \/ a = id
    BY <1>4, <1>7
  <2> QED
    BY <1>1, <1>2, <1>5, <1>6, <1>7, <2>1 DEF Consent
<1>15. SlotHasRecord'
  BY <1>1, <1>2, <1>4, <1>8 DEF SlotHasRecord
<1>16. Unregistered'
  <2>1. DOMAIN pending' \subseteq DOMAIN pending \cup (DOMAIN ask' \ DOMAIN ask)
    BY <1>2, <1>7, <1>8
  <2> QED
    BY <1>1, <1>2, <1>8, <2>1, UnregisteredStays
<1>17. Backed'
  <2>1. \A s \in Sessions : slot'[s] # 0 => gen'[s] # 0
    BY <1>1, <1>2, <1>3 DEF Backed, Loaded
  <2> QED
    BY <1>1, <1>2, <1>3, <2>1, BackedStays DEF Reports, Asking
<1> QED
  BY <1>10, <1>11, <1>12, <1>13, <1>14, <1>15, <1>16, <1>17 DEF IInv

-----------------------------------------------------------------------------
(* Runtimes that are stopped *)

\* The runtimes in S do nothing any more, and only their tasks are aborted.
LEMMA StopFacts ==
  ASSUME IInv, NEW S \in SUBSET Sessions, Stop(S)
  PROVE  /\ AsksKept /\ task' \in Seq(Tasks) /\ Len(task') = Len(task)
         /\ \A t \in DOMAIN task : task'[t].gen = task[t].gen /\ task'[t].state = task[t].state
         /\ busy' \in [Sessions -> BOOLEAN] /\ handle' \in [Sessions -> Nat]
         /\ slot' \in [Sessions -> Nat]
         /\ \A s \in S : ~ busy'[s] /\ handle'[s] = 0 /\ slot'[s] = 0
         /\ \A s \in Sessions \ S : /\ busy'[s] = busy[s] /\ handle'[s] = handle[s]
                                    /\ slot'[s] = slot[s]
                                    /\ handle[s] # 0 => task'[handle[s]] = task[handle[s]]
<1>1. /\ Shape /\ Refers /\ Backed /\ Len(task) \in Nat /\ DOMAIN task = 1 .. Len(task)
      /\ \A t \in DOMAIN task : task[t] \in Tasks
      /\ busy \in [Sessions -> BOOLEAN] /\ handle \in [Sessions -> Nat]
      /\ slot \in [Sessions -> Nat]
      /\ \A s \in Sessions : handle[s] # 0 => handle[s] \in DOMAIN task
  <2>1. /\ Shape /\ Refers /\ Backed
    BY DEF IInv
  <2>2. /\ Len(task) \in Nat /\ DOMAIN task = 1 .. Len(task)
        /\ \A t \in DOMAIN task : task[t] \in Tasks
    BY <2>1, ShapeFacts
  <2>3. /\ busy \in [Sessions -> BOOLEAN] /\ handle \in [Sessions -> Nat]
        /\ slot \in [Sessions -> Nat]
    BY <2>1 DEF Shape
  <2>4. \A s \in Sessions : handle[s] # 0 => handle[s] \in DOMAIN task
    BY <2>1, <2>2, <2>3 DEF Refers
  <2> QED
    BY <2>1, <2>2, <2>3, <2>4
<1>2. task' = [t \in DOMAIN task |-> IF \E s \in S : handle[s] = t
                                       THEN [task[t] EXCEPT !.aborted = TRUE] ELSE task[t]]
  BY DEF Stop
<1>3. \A t \in DOMAIN task : /\ task'[t] \in Tasks /\ task'[t].gen = task[t].gen
                             /\ task'[t].state = task[t].state
  BY <1>1, <1>2 DEF Tasks
<1>4. task' \in [1 .. Len(task) -> Tasks]
  BY <1>1, <1>2, <1>3
<1>5. task' \in Seq(Tasks) /\ Len(task') = Len(task)
  BY <1>1, <1>4, SeqFacts
<1>6. AsksKept
  <2> DEFINE held == {a \in DOMAIN ask : \E s \in S : slot[s] = a}
  <2>1. ask' = [a \in DOMAIN ask |-> IF a \in held THEN Answer(a, "reject") ELSE ask[a]]
    BY DEF Stop
  <2> QED
    BY <1>1, <2>1, AsksKeptFacts
<1>7. /\ busy' \in [Sessions -> BOOLEAN] /\ handle' \in [Sessions -> Nat]
      /\ slot' \in [Sessions -> Nat]
      /\ \A s \in S : ~ busy'[s] /\ handle'[s] = 0 /\ slot'[s] = 0
      /\ \A s \in Sessions \ S : busy'[s] = busy[s] /\ handle'[s] = handle[s] /\ slot'[s] = slot[s]
  BY <1>1 DEF Stop
<1>8. ASSUME NEW s \in Sessions \ S, handle[s] # 0
      PROVE  task'[handle[s]] = task[handle[s]]
  <2>1. ASSUME NEW x \in S, handle[x] = handle[s]
        PROVE  FALSE
    <3>1. gen[x] = gen[s]
      BY <1>1, <1>8, <2>1 DEF Backed
    <3>2. home[gen[x]] = x /\ home[gen[s]] = s
      BY <1>8, <2>1, LoadedFacts
    <3> QED
      BY <2>1, <3>1, <3>2
  <2> QED
    BY <1>1, <1>2, <1>8, <2>1
<1> QED
  BY <1>3, <1>5, <1>6, <1>7, <1>8

\* A step that at most stops the runtimes in S, replaces them and clears the
\* records of approvals that no other session waits for.
StopStep(S) ==
  /\ S \subseteq Sessions
  /\ Stop(S) \/ (S = {} /\ UNCHANGED <<busy, handle, slot, task, ask>>)
  /\ Extended /\ Residents' /\ Handlers'
  /\ gen' \in [Sessions -> Nat] /\ seq' \in [Sessions -> Nat]
  /\ \A s \in Sessions \ S : gen'[s] = gen[s]
  /\ DOMAIN pending' \subseteq DOMAIN pending
  /\ \A a \in DOMAIN pending' : pending'[a] = pending[a]
  /\ \A s \in Sessions \ S : slot[s] # 0 => slot[s] \in DOMAIN pending'
  /\ stored' \subseteq Sessions /\ listed' \subseteq Sessions
  /\ commands' \in 0 .. MaxCommands /\ UNCHANGED <<up, accepted>>

LEMMA StopIInv ==
  ASSUME IInv, up, NEW S, StopStep(S)
  PROVE  IInv'
<1> USE DEF StopStep
<1>1. /\ Shape /\ Refers /\ Consent /\ SlotHasRecord /\ Unregistered /\ Backed
      /\ Len(task) \in Nat /\ DOMAIN task = 1 .. Len(task)
      /\ Len(ask) \in Nat /\ DOMAIN ask = 1 .. Len(ask)
      /\ DOMAIN home = 1 .. Len(home) /\ DOMAIN chan = DOMAIN home
  BY ShapeFacts DEF IInv
<1>2. /\ AsksKept /\ task' \in Seq(Tasks) /\ Len(task') = Len(task)
      /\ \A t \in DOMAIN task : task'[t].gen = task[t].gen /\ task'[t].state = task[t].state
      /\ busy' \in [Sessions -> BOOLEAN] /\ handle' \in [Sessions -> Nat]
      /\ slot' \in [Sessions -> Nat]
      /\ \A s \in S : ~ busy'[s] /\ handle'[s] = 0 /\ slot'[s] = 0
      /\ \A s \in Sessions \ S : /\ busy'[s] = busy[s] /\ handle'[s] = handle[s]
                                 /\ slot'[s] = slot[s]
                                 /\ handle[s] # 0 => task'[handle[s]] = task[handle[s]]
  <2>1. CASE Stop(S)
    BY <2>1, StopFacts
  <2>2. CASE S = {} /\ UNCHANGED <<busy, handle, slot, task, ask>>
    BY <1>1, <2>2 DEF AsksKept, Shape
  <2> QED
    BY <2>1, <2>2
<1>3. Shape'
  BY <1>1, <1>2 DEF Shape, Extended, AsksKept
<1>4. /\ DOMAIN home' = 1 .. Len(home') /\ DOMAIN chan' = DOMAIN home'
      /\ DOMAIN task' = DOMAIN task /\ DOMAIN ask' = DOMAIN ask
      /\ Len(task') = Len(task) /\ Len(ask') = Len(ask)
  BY <1>1, <1>2, LenProperties DEF Extended, AsksKept
<1>5. Refers'
  <2>1. \A s \in Sessions : handle'[s] <= Len(task') /\ slot'[s] <= Len(ask')
    <3> SUFFICES ASSUME NEW s \in Sessions
                 PROVE  handle'[s] <= Len(task) /\ slot'[s] <= Len(ask)
      BY <1>4
    <3>1. handle[s] <= Len(task) /\ slot[s] <= Len(ask) /\ 0 <= Len(task) /\ 0 <= Len(ask)
      BY <1>1 DEF Refers
    <3> QED
      BY <1>2, <3>1
  <2>2. DOMAIN pending' \subseteq DOMAIN ask' /\ Range(pending') \subseteq Sessions
    BY <1>1, <1>4 DEF Refers, Range
  <2>3. \A t \in DOMAIN task' : task'[t].gen \in DOMAIN home'
    BY <1>1, <1>2, <1>4 DEF Refers, Extended
  <2>4. \A a \in DOMAIN ask' : ask'[a].task <= Len(task')
    BY <1>1, <1>2, <1>4 DEF Refers, AsksKept
  <2>5. ASSUME NEW g \in DOMAIN chan', NEW i \in DOMAIN chan'[g]
        PROVE  chan'[g][i].task \in DOMAIN task' /\ chan'[g][i].ask <= Len(ask')
    <3>1. CASE g \in DOMAIN home
      <4>1. chan'[g] = chan[g] /\ g \in DOMAIN chan
        BY <1>1, <3>1 DEF Extended
      <4> QED
        BY <1>1, <1>4, <2>5, <4>1 DEF Refers
    <3>2. CASE g \notin DOMAIN home
      BY <1>4, <2>5, <3>2 DEF Extended
    <3> QED
      BY <3>1, <3>2
  <2> QED
    BY <1>1, <1>4, <2>1, <2>2, <2>3, <2>4, <2>5 DEF Refers
<1>6. Consent'
  BY <1>1, <1>2, <1>4 DEF Consent, AsksKept
<1>7. SlotHasRecord'
  <2> SUFFICES ASSUME NEW s \in Sessions, slot'[s] # 0
               PROVE  slot'[s] \in DOMAIN pending' /\ pending'[slot'[s]] = s
    BY DEF SlotHasRecord
  <2>1. s \in Sessions \ S /\ slot'[s] = slot[s]
    BY <1>2
  <2> QED
    BY <1>1, <2>1 DEF SlotHasRecord
<1>8. Unregistered'
  <2>1. DOMAIN pending' \subseteq DOMAIN pending \cup (DOMAIN ask' \ DOMAIN ask)
    OBVIOUS
  <2>2. \A g \in DOMAIN chan' : \A i \in DOMAIN chan'[g] :
          g \in DOMAIN chan /\ i \in DOMAIN chan[g] /\ chan'[g][i] = chan[g][i]
    BY <1>1, ExtendedEvents
  <2> QED
    BY <1>1, <1>4, <2>1, <2>2, UnregisteredStays
<1>9. Backed'
  <2>1. \A s \in Sessions : slot'[s] # 0 => gen'[s] # 0
    BY <1>1, <1>2 DEF Backed, Loaded
  <2>2. ASSUME NEW s \in Sessions, busy[s], Reports(gen[s])
        PROVE  \E i \in DOMAIN chan'[gen[s]] : chan'[gen[s]][i].type # "approval"
    <3>1. gen[s] \in DOMAIN home
      BY <2>2, LoadedFacts
    <3> QED
      BY <2>2, <3>1 DEF Reports, Asking, Extended
  <2>3. \A s \in Sessions : busy[s] => handle[s] # 0
    BY <1>1 DEF Backed
  <2>4. ASSUME NEW s \in Sessions
        PROVE  \/ handle'[s] = 0 /\ ~ busy'[s]
               \/ /\ handle'[s] = handle[s] /\ gen'[s] = gen[s] /\ (busy'[s] => busy[s])
                  /\ handle[s] # 0 => task'[handle[s]] = task[handle[s]]
    BY <1>2
  <2> QED
    BY <1>1, <2>1, <2>2, <2>3, <2>4, BackedStays
<1> QED
  BY <1>3, <1>5, <1>6, <1>7, <1>8, <1>9 DEF IInv

LEMMA CancelIInv ==
  ASSUME IInv, NEW receipt \in DOMAIN task \cup {0}, Cancel(receipt)
  PROVE  IInv'
<1>1. /\ up /\ up' = up /\ active \in Sessions /\ Stop({active})
      /\ UNCHANGED <<stored, listed, active, parked, gen, home, seq, pending, chan, accepted>>
      /\ commands' \in 0 .. MaxCommands
      /\ doing' = [input |-> "cancel", session |-> active, task |-> handle[active],
                   receipt |-> receipt]
  BY ConstantFacts DEF Cancel, Command, Ready, storageVars, residency, IInv, Shape, Residents
<1>2. /\ Shape /\ Refers /\ Residents /\ SlotHasRecord
  BY DEF IInv
<1>3. Residents'
  BY <1>1, <1>2, ResidentsStay
<1>4. Extended
  BY <1>1, <1>2, BuildFacts
<1>5. Len(task') = Len(task) /\ slot'[active] = 0
  BY <1>1, StopFacts
<1>6. Handlers'
  <2>1. handle[active] \in 0 .. Len(task) /\ receipt \in 0 .. Len(task)
    BY <1>1, <1>2, ShapeFacts DEF Refers, Shape
  <2> QED
    BY <1>1, <1>5, <2>1, ConstantFacts DEF Handlers, Idle
<1>7. gen' \in [Sessions -> Nat] /\ seq' \in [Sessions -> Nat]
      /\ stored' \subseteq Sessions /\ listed' \subseteq Sessions
  BY <1>1, <1>2 DEF Shape
<1>8. \A s \in Sessions \ {active} : slot[s] # 0 => slot[s] \in DOMAIN pending'
  BY <1>1, <1>2 DEF SlotHasRecord
<1>9. StopStep({active})
  BY <1>1, <1>3, <1>4, <1>6, <1>7, <1>8 DEF StopStep
<1> QED
  BY <1>1, <1>9, StopIInv

LEMMA ClearedFacts ==
  ASSUME NEW s, Cleared(s)
  PROVE  /\ DOMAIN pending' = {a \in DOMAIN pending : pending[a] # s}
         /\ \A a \in DOMAIN pending' : pending'[a] = pending[a]
BY DEF Cleared

LEMMA FinishCancelIInv ==
  ASSUME IInv, FinishCancel
  PROVE  IInv'
<1>1. /\ up /\ up' = up /\ doing' = Idle /\ doing.input = "cancel" /\ Cleared(doing.session)
      /\ UNCHANGED <<stored, listed, active, parked, gen, home, busy, handle, slot, seq, chan,
                     task, ask, accepted, commands>>
  BY SecondFacts DEF FinishCancel, Second, storageVars, residency, runtimes
<1>2. /\ Shape /\ Residents /\ SlotHasRecord /\ slot[doing.session] = 0
  BY <1>1 DEF IInv, Handlers
<1>3. Residents' /\ Extended /\ Handlers'
  <2>1. active \in Sessions
    BY <1>2 DEF Residents
  <2> QED
    BY <1>1, <1>2, <2>1, ResidentsStay, BuildFacts, IdleHandlers
<1>4. /\ gen' \in [Sessions -> Nat] /\ seq' \in [Sessions -> Nat]
      /\ stored' \subseteq Sessions /\ listed' \subseteq Sessions /\ commands' \in 0 .. MaxCommands
  BY <1>1, <1>2 DEF Shape
<1>5. \A s \in Sessions : slot[s] # 0 => slot[s] \in DOMAIN pending'
  <2>1. DOMAIN pending' = {a \in DOMAIN pending : pending[a] # doing.session}
    BY <1>1, ClearedFacts
  <2>2. \A s \in Sessions : slot[s] # 0 => s # doing.session
    BY <1>2
  <2> QED
    BY <1>2, <2>1, <2>2 DEF SlotHasRecord
<1>6. DOMAIN pending' \subseteq DOMAIN pending /\ \A a \in DOMAIN pending' : pending'[a] = pending[a]
  BY <1>1, ClearedFacts
<1>7. StopStep({})
  BY <1>1, <1>3, <1>4, <1>5, <1>6 DEF StopStep
<1> QED
  BY <1>1, <1>7, StopIInv

LEMMA SubmitReloadIInv ==
  ASSUME IInv, SubmitReload
  PROVE  IInv'
<1>1. /\ up /\ up' = up /\ doing' = Idle /\ active \in Sessions
      /\ UNCHANGED <<stored, active, parked, pending, accepted, commands>>
      /\ Shape /\ Residents /\ SlotHasRecord
  BY SecondFacts DEF SubmitReload, Second, IInv, Residents
<1>2. /\ Handlers' /\ stored' \subseteq Sessions /\ listed' \subseteq Sessions
      /\ commands' \in 0 .. MaxCommands
      /\ DOMAIN pending' \subseteq DOMAIN pending
      /\ \A a \in DOMAIN pending' : pending'[a] = pending[a]
      /\ \A s \in Sessions : slot[s] # 0 => slot[s] \in DOMAIN pending'
      /\ seq \in [Sessions -> Nat] /\ gen \in [Sessions -> Nat] /\ Len(home) \in Nat
  BY <1>1, IdleHandlers, ShapeFacts DEF SubmitReload, Shape, SlotHasRecord
<1>3. CASE /\ Build(active) /\ Unload({active})
           /\ gen' = [gen EXCEPT ![active] = Len(home) + 1]
  <2>1. /\ Extended /\ Len(home) + 1 \in DOMAIN home' /\ home'[Len(home) + 1] = active
        /\ \A x \in Range(home) \cup {active} : x \in Range(home')
    BY <1>1, <1>3, BuildFacts
  <2>2. Stop({active}) /\ seq' \in [Sessions -> Nat]
    BY <1>2, <1>3 DEF Unload
  <2>3. /\ gen' \in [Sessions -> Nat] /\ gen'[active] = Len(home) + 1 /\ Len(home) + 1 # 0
        /\ \A s \in Sessions \ {active} : gen'[s] = gen[s]
    BY <1>1, <1>2, <1>3
  <2>4. Residents'
    <3>1. \A s \in Sessions : gen'[s] # 0 <=> s \in {active} \cup Range(parked)
      BY <1>1, <2>3 DEF Residents, Loaded
    <3>2. ASSUME NEW s \in Sessions, gen'[s] # 0
          PROVE  gen'[s] \in DOMAIN home' /\ home'[gen'[s]] = s
      <4>1. CASE s = active
        BY <2>1, <2>3, <4>1
      <4>2. CASE s # active
        <5>1. gen'[s] = gen[s] /\ gen[s] \in DOMAIN home /\ home[gen[s]] = s
          BY <1>1, <2>3, <3>2, <4>2 DEF Residents, Loaded
        <5> QED
          BY <2>1, <5>1 DEF Extended
      <4> QED
        BY <4>1, <4>2
    <3> QED
      BY <1>1, <2>1, <3>1, <3>2 DEF Residents, Loaded
  <2>5. StopStep({active})
    BY <1>1, <1>2, <2>1, <2>2, <2>3, <2>4 DEF StopStep
  <2> QED
    BY <1>1, <2>5, StopIInv
<1>4. CASE UNCHANGED <<listed, gen, home, chan, runtimes, task, ask>>
  <2>1. UNCHANGED <<gen, home, chan, busy, handle, slot, seq, task, ask>>
    BY <1>4 DEF runtimes
  <2>2. Extended /\ Residents'
    BY <1>1, <2>1, BuildFacts, ResidentsStay
  <2>3. StopStep({})
    BY <1>1, <1>2, <2>1, <2>2 DEF StopStep
  <2> QED
    BY <1>1, <2>3, StopIInv
<1> QED
  BY <1>3, <1>4 DEF SubmitReload

\* All but the last.
LEMMA FrontFacts ==
  ASSUME NEW X, NEW q \in Seq(X), q # << >>, IsInjective(q)
  PROVE  /\ Front(q) \in Seq(X) /\ IsInjective(Front(q))
         /\ Last(q) \in X /\ Range(Front(q)) = Range(q) \ {Last(q)}
<1>1. Len(q) \in Nat \ {0} /\ DOMAIN q = 1 .. Len(q) /\ \A i \in 1 .. Len(q) : q[i] \in X
  BY LenProperties, ElementOfSeq, EmptySeq
<1> DEFINE n == Len(q)
<1>2. /\ Front(q) \in Seq(X) /\ Len(Front(q)) = n - 1
      /\ \A i \in 1 .. n - 1 : Front(q)[i] = q[i]
  <2>1. /\ 1 \in 1 .. n + 1 /\ n - 1 \in 1 - 1 .. n
        /\ \A i \in 1 .. n - 1 : q[i] \in X
    BY <1>1
  <2> QED
    BY <1>1, <2>1, SubSeqProperties DEF Front
<1>3. DOMAIN Front(q) = 1 .. n - 1 /\ Last(q) = q[n]
  BY <1>2, LenProperties DEF Last
<1> HIDE DEF n
<1>4. n \in Nat \ {0} /\ DOMAIN q = 1 .. n /\ \A i \in 1 .. n : q[i] \in X
  BY <1>1 DEF n
<1>5. IsInjective(Front(q))
  BY <1>2, <1>3, <1>4 DEF IsInjective
<1>6. Range(Front(q)) = Range(q) \ {Last(q)}
  <2>1. ASSUME NEW i \in 1 .. n - 1
        PROVE  q[i] # q[n] /\ i \in 1 .. n
    BY <1>4, <2>1 DEF IsInjective
  <2>2. ASSUME NEW i \in 1 .. n, q[i] # q[n]
        PROVE  i \in 1 .. n - 1
    BY <1>4, <2>2
  <2> QED
    BY <1>2, <1>3, <1>4, <2>1, <2>2 DEF Range
<1> QED
  BY <1>2, <1>3, <1>4, <1>5, <1>6

LEMMA DropDeletedIInv ==
  ASSUME IInv, DropDeleted
  PROVE  IInv'
<1> DEFINE deleted == Last(parked)
<1>1. /\ up /\ up' = up /\ doing' = Idle /\ doing.input = "drop" /\ Cleared(doing.session)
      /\ UNCHANGED <<stored, active, home, chan, accepted, commands>> /\ listed' = stored
      /\ Unload({deleted}) /\ gen' = [gen EXCEPT ![deleted] = 0] /\ parked' = Front(parked)
  BY SecondFacts DEF DropDeleted, Second
<1>2. /\ Shape /\ Residents /\ SlotHasRecord /\ doing.session = deleted /\ parked # << >>
      /\ seq \in [Sessions -> Nat] /\ gen \in [Sessions -> Nat]
  BY <1>1 DEF IInv, Handlers, Shape
<1>3. /\ parked' \in Seq(Sessions \ {active}) /\ IsInjective(parked')
      /\ Range(parked') = Range(parked) \ {deleted} /\ deleted \in Sessions \ {active}
  BY <1>1, <1>2, FrontFacts DEF Residents
<1> HIDE DEF deleted
<1>4. gen' \in [Sessions -> Nat] /\ gen'[deleted] = 0 /\ \A s \in Sessions \ {deleted} : gen'[s] = gen[s]
  BY <1>1, <1>2, <1>3
<1>5. Stop({deleted}) /\ seq' \in [Sessions -> Nat]
  BY <1>1, <1>2 DEF Unload
<1>6. Residents'
  <2>1. \A s \in Sessions : gen'[s] # 0 <=> s \in {active} \cup Range(parked')
    BY <1>1, <1>2, <1>3, <1>4 DEF Residents, Loaded
  <2>2. \A s \in Sessions : gen'[s] # 0 => gen'[s] \in DOMAIN home /\ home[gen'[s]] = s
    BY <1>2, <1>3, <1>4 DEF Residents, Loaded
  <2> QED
    BY <1>1, <1>2, <1>3, <2>1, <2>2 DEF Residents, Loaded
<1>7. Extended /\ Handlers'
  BY <1>1, <1>2, <1>3, BuildFacts, IdleHandlers
<1>8. stored' \subseteq Sessions /\ listed' \subseteq Sessions /\ commands' \in 0 .. MaxCommands
  BY <1>1, <1>2 DEF Shape
<1>9. /\ DOMAIN pending' = {a \in DOMAIN pending : pending[a] # deleted}
      /\ \A a \in DOMAIN pending' : pending'[a] = pending[a]
  BY <1>1, <1>2, ClearedFacts
<1>10. \A s \in Sessions \ {deleted} : slot[s] # 0 => slot[s] \in DOMAIN pending'
  BY <1>2, <1>9 DEF SlotHasRecord
<1>11. StopStep({deleted})
  BY <1>1, <1>3, <1>4, <1>5, <1>6, <1>7, <1>8, <1>9, <1>10 DEF StopStep
<1> QED
  BY <1>1, <1>11, StopIInv

-----------------------------------------------------------------------------
(* Approvals *)

\* A matching approval is the one in its owner's slot, and is resolved with
\* its record.
LEMMA ResolveIInv ==
  ASSUME IInv, up, up' = up, doing' = Idle, NEW a, Matches(a), NEW accept \in BOOLEAN,
         Resolve(a, accept),
         UNCHANGED <<storageVars, residency, seq, chan>>, commands' \in 0 .. MaxCommands,
         accepted' = (IF accept THEN accepted \cup {a} ELSE accepted)
  PROVE  IInv'
<1> DEFINE owner == pending[a]
<1>1. /\ Shape /\ Refers /\ Residents /\ Consent /\ SlotHasRecord /\ Unregistered /\ Backed
      /\ Len(task) \in Nat /\ DOMAIN task = 1 .. Len(task)
      /\ Len(ask) \in Nat /\ DOMAIN ask = 1 .. Len(ask)
      /\ \A b \in DOMAIN ask : ask[b] \in Asks
      /\ DOMAIN home = 1 .. Len(home) /\ DOMAIN chan = DOMAIN home
      /\ slot \in [Sessions -> Nat] /\ seq \in [Sessions -> Nat]
  BY ShapeFacts DEF IInv, Shape
<1>2. /\ a \in DOMAIN pending /\ a \in DOMAIN ask /\ owner \in Sessions /\ slot[owner] = a
      /\ a # 0
  BY <1>1 DEF Matches, Refers, Range
<1>3. /\ UNCHANGED <<stored, listed, active, parked, gen, home, seq, chan>>
  BY DEF storageVars, residency
<1>4. /\ slot' = [slot EXCEPT ![owner] = 0]
      /\ pending' = [b \in DOMAIN pending \ {a} |-> pending[b]]
      /\ ask' = [ask EXCEPT ![a] = Answer(a, IF accept THEN "accept" ELSE "reject")]
      /\ Spawned(owner, "local", seq[owner]) \/ UNCHANGED <<busy, handle, task>>
  BY <1>2 DEF Resolve
<1> HIDE DEF owner
<1>5. /\ ask' \in Seq(Asks) /\ Len(ask') = Len(ask) /\ DOMAIN ask' = DOMAIN ask
      /\ \A b \in DOMAIN ask : ask'[b].task = ask[b].task
      /\ \A b \in DOMAIN ask : ask'[b].answer = "accept" =>
           ask[b].answer = "accept" \/ (b = a /\ accept)
  <2> DEFINE answer == IF accept THEN "accept" ELSE "reject"
  <2>1. /\ Answer(a, answer) \in Asks /\ Answer(a, answer).task = ask[a].task
        /\ Answer(a, answer).answer = "accept" => ask[a].answer = "accept" \/ accept
    <3>1. answer \in {"accept", "reject", "closed"} /\ (answer = "accept" => accept)
      OBVIOUS
    <3> HIDE DEF answer
    <3> QED
      BY <1>1, <1>2, <3>1, AnswerFacts
  <2>2. ask' = [ask EXCEPT ![a] = Answer(a, answer)]
    BY <1>4
  <2> HIDE DEF answer
  <2>3. ask \in Seq(Asks) /\ ask = [b \in 1 .. Len(ask) |-> ask[b]]
    BY <1>1, LenProperties DEF Shape
  <2>4. ask' \in [1 .. Len(ask) -> Asks]
    BY <1>1, <2>1, <2>2, <2>3
  <2>5. ask' \in Seq(Asks) /\ Len(ask') = Len(ask) /\ DOMAIN ask' = DOMAIN ask
    <3>1. Len(ask) \in Nat /\ DOMAIN ask' = DOMAIN ask
      BY <1>1, <2>4
    <3>2. ask' \in Seq(Asks)
      BY <2>4, <3>1, SeqDef
    <3> QED
      BY <2>4, <3>1, <3>2, LenProperties
  <2>6. \A b \in DOMAIN ask : ask'[b] = IF b = a THEN Answer(a, answer) ELSE ask[b]
    BY <1>1, <1>2, <2>2, <2>3
  <2> QED
    BY <1>2, <2>1, <2>5, <2>6
<1> DEFINE t == Len(task) + 1
<1>6. /\ task' \in Seq(Tasks) /\ Len(task') \in Nat /\ Len(task) <= Len(task')
      /\ DOMAIN task' = 1 .. Len(task')
      /\ busy' \in [Sessions -> BOOLEAN] /\ handle' \in [Sessions -> Nat]
      /\ \A k \in DOMAIN task : task'[k] = task[k]
      /\ \A k \in DOMAIN task' \ DOMAIN task : task'[k].gen = gen[owner]
      /\ \A x \in Sessions :
           \/ handle'[x] = handle[x] /\ busy'[x] = busy[x]
           \/ /\ handle'[x] = Len(task') /\ handle'[x] # 0 /\ task'[handle'[x]].gen = gen[x]
              /\ ~ task'[handle'[x]].aborted /\ task'[handle'[x]].state # "ended"
  <2>1. CASE Spawned(owner, "local", seq[owner])
    <3>1. "local" \in TaskKinds /\ seq[owner] \in Nat
      BY <1>1, <1>2 DEF TaskKinds
    <3>2. /\ task' \in Seq(Tasks) /\ Len(task') = t /\ DOMAIN task' = 1 .. t
          /\ \A k \in DOMAIN task : task'[k] = task[k]
          /\ task'[t].gen = gen[owner] /\ ~ task'[t].aborted
          /\ task'[t].state = "running" /\ handle'[owner] = t
          /\ busy' \in [Sessions -> BOOLEAN] /\ handle' \in [Sessions -> Nat]
          /\ \A x \in Sessions \ {owner} : busy'[x] = busy[x] /\ handle'[x] = handle[x]
      BY <1>1, <1>2, <2>1, <3>1, SpawnedFacts
    <3>3. \A k \in DOMAIN task' \ DOMAIN task : k = t
      BY <1>1, <3>2
    <3>4. t \in Nat \ {0} /\ Len(task) <= t
      BY <1>1
    <3> HIDE DEF t
    <3> QED
      BY <3>2, <3>3, <3>4
  <2>2. CASE UNCHANGED <<busy, handle, task>>
    BY <1>1, <2>2 DEF Shape
  <2> QED
    BY <1>4, <2>1, <2>2
<1>7. slot' \in [Sessions -> Nat] /\ slot'[owner] = 0 /\ \A s \in Sessions \ {owner} : slot'[s] = slot[s]
  BY <1>1, <1>2, <1>4
<1>8. Shape'
  BY <1>1, <1>3, <1>5, <1>6, <1>7 DEF Shape
<1>9. Refers'
  <2>1. \A s \in Sessions : handle'[s] <= Len(task') /\ slot'[s] <= Len(ask')
    <3> SUFFICES ASSUME NEW s \in Sessions
                 PROVE  handle'[s] <= Len(task') /\ slot'[s] <= Len(ask)
      BY <1>5
    <3>1. /\ handle[s] <= Len(task) /\ handle[s] \in Nat
          /\ slot[s] <= Len(ask) /\ slot[s] \in Nat
      BY <1>1 DEF Refers, Shape
    <3>2. slot'[s] = 0 \/ slot'[s] = slot[s]
      BY <1>7
    <3> QED
      BY <1>1, <1>6, <3>1, <3>2
  <2>2. DOMAIN pending' \subseteq DOMAIN ask' /\ Range(pending') \subseteq Sessions
    BY <1>1, <1>4, <1>5 DEF Refers, Range
  <2>3. \A k \in DOMAIN task' : task'[k].gen \in DOMAIN home'
    <3>1. gen[owner] \in DOMAIN home
      BY <1>2, LoadedFacts
    <3> QED
      BY <1>1, <1>3, <1>6, <3>1 DEF Refers
  <2>4. \A b \in DOMAIN ask' : ask'[b].task <= Len(task')
    <3> SUFFICES ASSUME NEW b \in DOMAIN ask PROVE ask[b].task <= Len(task')
      BY <1>5
    <3>1. ask[b].task <= Len(task) /\ ask[b].task \in Nat
      BY <1>1 DEF Refers, Asks
    <3> QED
      BY <1>1, <1>6, <3>1
  <2>5. \A g \in DOMAIN chan' : \A i \in DOMAIN chan'[g] :
          chan'[g][i].task \in DOMAIN task' /\ chan'[g][i].ask <= Len(ask')
    <3>1. DOMAIN task \subseteq DOMAIN task'
      BY <1>1, <1>6
    <3> QED
      BY <1>1, <1>3, <1>5, <3>1 DEF Refers
  <2>6. accepted' \subseteq DOMAIN ask'
    BY <1>1, <1>2, <1>5 DEF Refers
  <2> QED
    BY <2>1, <2>2, <2>3, <2>4, <2>5, <2>6 DEF Refers
<1>10. Residents'
  BY <1>1, <1>3, ResidentsStay
<1>11. Handlers'
  BY IdleHandlers
<1>12. Consent'
  BY <1>1, <1>5 DEF Consent
<1>13. SlotHasRecord'
  <2> SUFFICES ASSUME NEW s \in Sessions, slot'[s] # 0
               PROVE  slot'[s] \in DOMAIN pending' /\ pending'[slot'[s]] = s
    BY DEF SlotHasRecord
  <2>1. s # owner /\ slot'[s] = slot[s] /\ slot[s] \in DOMAIN pending /\ pending[slot[s]] = s
    BY <1>1, <1>7 DEF SlotHasRecord
  <2>2. slot[s] # a
    BY <2>1 DEF owner
  <2> QED
    BY <1>4, <2>1, <2>2
<1>14. Unregistered'
  <2>1. DOMAIN pending' \subseteq DOMAIN pending \cup (DOMAIN ask' \ DOMAIN ask)
    BY <1>4
  <2> QED
    BY <1>1, <1>3, <1>5, <2>1, UnregisteredStays
<1>15. Backed'
  <2>1. \A x \in Sessions : slot'[x] # 0 => gen'[x] # 0
    BY <1>1, <1>3, <1>7 DEF Backed, Loaded
  <2>2. \A x \in Sessions : handle[x] # 0 => handle[x] \in DOMAIN task
    BY <1>1 DEF Refers, Shape
  <2>3. \A x \in Sessions : busy[x] => handle[x] # 0
    BY <1>1 DEF Backed
  <2>4. ASSUME NEW x \in Sessions, Reports(gen[x])
        PROVE  \E i \in DOMAIN chan'[gen[x]] : chan'[gen[x]][i].type # "approval"
    BY <1>3, <2>4 DEF Reports, Asking
  <2> QED
    BY <1>1, <1>3, <1>6, <2>1, <2>2, <2>3, <2>4, BackedStays
<1> QED
  BY <1>8, <1>9, <1>10, <1>11, <1>12, <1>13, <1>14, <1>15 DEF IInv

LEMMA ApproveIInv ==
  ASSUME IInv, NEW a \in DOMAIN ask, NEW accept \in BOOLEAN, Approve(a, accept)
  PROVE  IInv'
<1>1. /\ up /\ up' = up /\ doing' = Idle /\ Matches(a) /\ Resolve(a, accept)
      /\ UNCHANGED <<storageVars, residency, seq, chan>> /\ commands' \in 0 .. MaxCommands
      /\ accepted' = (IF accept THEN accepted \cup {a} ELSE accepted)
  BY ConstantFacts DEF Approve, Command, Ready, IInv, Shape
<1> QED
  BY <1>1, ResolveIInv

LEMMA ExpireIInv ==
  ASSUME IInv, NEW a \in DOMAIN ask, Expire(a)
  PROVE  IInv'
<1>1. /\ up /\ up' = up /\ doing' = Idle /\ Matches(a) /\ Resolve(a, FALSE)
      /\ UNCHANGED <<storageVars, residency, seq, chan>> /\ commands' \in 0 .. MaxCommands
      /\ accepted' = (IF FALSE THEN accepted \cup {a} ELSE accepted)
  BY ConstantFacts DEF Expire, Due, Ready, IInv, Shape
<1> QED
  BY <1>1, ResolveIInv

-----------------------------------------------------------------------------
(* Agent events *)

\* The first event of the g-th runtime is taken off its channel.
LEMMA TailFacts ==
  ASSUME Shape, NEW g \in DOMAIN chan, chan[g] # << >>,
         chan' = [chan EXCEPT ![g] = Tail(@)]
  PROVE  /\ chan' \in Seq(Seq(Events)) /\ Len(chan') = Len(chan) /\ DOMAIN chan' = DOMAIN chan
         /\ 1 \in DOMAIN chan[g] /\ Head(chan[g]) = chan[g][1]
         /\ \A h \in DOMAIN chan : h # g => chan'[h] = chan[h]
         /\ \A i \in DOMAIN chan'[g] : i + 1 \in DOMAIN chan[g] /\ i + 1 # 1
                                       /\ chan'[g][i] = chan[g][i + 1]
         /\ \A i \in DOMAIN chan[g] : i # 1 => i - 1 \in DOMAIN chan'[g]
                                               /\ chan'[g][i - 1] = chan[g][i]
<1>1. /\ chan \in Seq(Seq(Events)) /\ Len(chan) \in Nat /\ DOMAIN chan = 1 .. Len(chan)
      /\ chan = [h \in 1 .. Len(chan) |-> chan[h]]
      /\ \A h \in DOMAIN chan : chan[h] \in Seq(Events)
  BY LenProperties, ElementOfSeq DEF Shape
<1> DEFINE q == chan[g]
<1>2. /\ q \in Seq(Events) /\ q # << >>
      /\ Head(q) = q[1] /\ Tail(q) \in Seq(Events) /\ Len(Tail(q)) = Len(q) - 1
      /\ \A i \in 1 .. Len(Tail(q)) : Tail(q)[i] = q[i + 1]
      /\ Len(q) \in Nat /\ Len(q) # 0 /\ DOMAIN q = 1 .. Len(q)
      /\ DOMAIN Tail(q) = 1 .. Len(Tail(q))
  BY <1>1, HeadTailProperties, LenProperties, EmptySeq
<1>3. /\ chan' = [chan EXCEPT ![g] = Tail(q)] /\ chan'[g] = Tail(q)
      /\ \A h \in DOMAIN chan : h # g => chan'[h] = chan[h]
  BY <1>1
<1> HIDE DEF q
<1>4. chan' \in [1 .. Len(chan) -> Seq(Events)]
  BY <1>1, <1>2, <1>3
<1>5. Len(chan) \in Nat /\ DOMAIN chan' = DOMAIN chan
  BY <1>1, <1>4
<1>6. chan' \in Seq(Seq(Events))
  BY <1>4, <1>5, SeqDef
<1>7. Len(chan') = Len(chan)
  BY <1>4, <1>5, <1>6, LenProperties
<1>8. \A i \in 1 .. Len(q) - 1 : i + 1 \in 1 .. Len(q) /\ i + 1 # 1
  BY <1>2
<1>9. \A i \in 1 .. Len(q) : i # 1 => i - 1 \in 1 .. Len(q) - 1 /\ (i - 1) + 1 = i
  BY <1>2
<1>10. 1 \in 1 .. Len(q)
  BY <1>2
<1> QED
  BY <1>2, <1>3, <1>5, <1>6, <1>7, <1>8, <1>9, <1>10 DEF q

LEMMA OneAsk ==
  ASSUME Unregistered,
         NEW g \in DOMAIN chan, NEW i \in DOMAIN chan[g], chan[g][i].type = "approval",
         NEW h \in DOMAIN chan, NEW j \in DOMAIN chan[h], chan[h][j].type = "approval",
         chan[g][i].ask = chan[h][j].ask
  PROVE  g = h /\ i = j
BY DEF Unregistered, Asking

LEMMA HandleRoutedIInv ==
  ASSUME IInv, NEW g \in DOMAIN chan, HandleRouted(g)
  PROVE  IInv'
<1> DEFINE s == home[g]
           event == Head(chan[g])
<1>1. /\ Shape /\ Refers /\ Residents /\ Consent /\ SlotHasRecord /\ Unregistered /\ Backed
      /\ Len(ask) \in Nat /\ DOMAIN ask = 1 .. Len(ask)
      /\ DOMAIN chan = DOMAIN home /\ s \in Sessions
      /\ slot \in [Sessions -> Nat] /\ busy \in [Sessions -> BOOLEAN]
      /\ handle \in [Sessions -> Nat] /\ 0 <= Len(task)
  <2>1. /\ Shape /\ Refers /\ Residents /\ Consent /\ SlotHasRecord /\ Unregistered /\ Backed
    BY DEF IInv
  <2>2. /\ Len(ask) \in Nat /\ DOMAIN ask = 1 .. Len(ask) /\ Len(task) \in Nat
        /\ DOMAIN chan = DOMAIN home
    BY <2>1, ShapeFacts
  <2>3. s \in Sessions
    BY <2>1, <2>2, ShapeFacts
  <2>4. /\ slot \in [Sessions -> Nat] /\ busy \in [Sessions -> BOOLEAN]
        /\ handle \in [Sessions -> Nat]
    BY <2>1 DEF Shape
  <2>5. 0 <= Len(task)
    BY <2>2
  <2> QED
    BY <2>1, <2>2, <2>3, <2>4, <2>5
<1>2. /\ up /\ doing' = Idle /\ chan[g] # << >> /\ chan' = [chan EXCEPT ![g] = Tail(@)]
      /\ UNCHANGED <<up, stored, active, parked, gen, home, seq, task, accepted, commands>>
  BY DEF HandleRouted, Ready, residency
<1>3. /\ chan' \in Seq(Seq(Events)) /\ Len(chan') = Len(chan) /\ DOMAIN chan' = DOMAIN chan
      /\ 1 \in DOMAIN chan[g] /\ event = chan[g][1]
      /\ \A h \in DOMAIN chan : h # g => chan'[h] = chan[h]
      /\ \A i \in DOMAIN chan'[g] : i + 1 \in DOMAIN chan[g] /\ i + 1 # 1
                                    /\ chan'[g][i] = chan[g][i + 1]
      /\ \A i \in DOMAIN chan[g] : i # 1 => i - 1 \in DOMAIN chan'[g]
                                            /\ chan'[g][i - 1] = chan[g][i]
  BY <1>1, <1>2, TailFacts
<1>4. event.task \in DOMAIN task /\ event.ask <= Len(ask) /\ event.ask \in Nat
  BY <1>1, <1>3, ShapeFacts DEF Refers, Events
<1>5. Residents' /\ Handlers'
  BY <1>1, <1>2, ResidentsStay, IdleHandlers
<1>6. /\ \A h \in DOMAIN chan' : \A i \in DOMAIN chan'[h] : \E k \in DOMAIN chan[h] :
           chan'[h][i] = chan[h][k] /\ k = IF h = g THEN i + 1 ELSE i
      /\ \A i \in DOMAIN chan'[g] : i + 1 # 1 /\ i \in Nat
  <2>1. \A i \in DOMAIN chan'[g] : i \in Nat
    <3>1. chan'[g] \in Seq(Events)
      BY <1>3, ElementOfSeq, LenProperties
    <3> QED
      BY <3>1, LenProperties
  <2> QED
    BY <1>3, <2>1
<1>7. \A h \in DOMAIN chan' : \A i \in DOMAIN chan'[h] :
        chan'[h][i].task \in DOMAIN task /\ chan'[h][i].ask <= Len(ask)
  <2> SUFFICES ASSUME NEW h \in DOMAIN chan', NEW i \in DOMAIN chan'[h]
               PROVE  chan'[h][i].task \in DOMAIN task /\ chan'[h][i].ask <= Len(ask)
    OBVIOUS
  <2>1. PICK k \in DOMAIN chan[h] : chan'[h][i] = chan[h][k]
    BY <1>6
  <2> QED
    BY <1>1, <1>3, <2>1 DEF Refers
<1> HIDE DEF s, event
\* What the step does to slots and asks, in each case.
<1>8. CASE /\ event.type = "approval" /\ Registered(event.ask, s)
           /\ ask' = [a \in DOMAIN ask |->
                        IF a = (IF Loaded(s) THEN slot[s] ELSE event.ask)
                          THEN Answer(a, "closed") ELSE ask[a]]
           /\ slot' = (IF Loaded(s) THEN [slot EXCEPT ![s] = event.ask] ELSE slot)
           /\ UNCHANGED <<listed, busy, handle>>
  <2>1. AsksKept
    <3> DEFINE one == {IF Loaded(s) THEN slot[s] ELSE event.ask}
    <3>1. ask' = [a \in DOMAIN ask |-> IF a \in one THEN Answer(a, "closed") ELSE ask[a]]
      BY <1>8
    <3> QED
      BY <1>1, <3>1, AsksKeptFacts
  <2>2. DOMAIN ask' = DOMAIN ask /\ Len(ask') = Len(ask) /\ ask' \in Seq(Asks)
    BY <1>1, <2>1, LenProperties DEF AsksKept
  <2>3. /\ event.ask \in DOMAIN ask \ DOMAIN pending
        /\ \A h \in DOMAIN chan : \A j \in DOMAIN chan[h] :
             Asking(h, j) /\ chan[h][j].ask = event.ask => g = h /\ 1 = j
    BY <1>1, <1>3, <1>8 DEF Unregistered, Asking
  <2>4. /\ DOMAIN pending' = DOMAIN pending \cup {event.ask} /\ pending'[event.ask] = s
        /\ \A b \in DOMAIN pending : pending'[b] = pending[b]
    BY <1>8, <2>3 DEF Registered
  <2>5. /\ slot' \in [Sessions -> Nat]
        /\ \A x \in Sessions : slot'[x] = slot[x] \/ (x = s /\ slot'[x] = event.ask /\ Loaded(s))
    BY <1>1, <1>4, <1>8
  <2>6. Shape'
    BY <1>1, <1>2, <1>3, <1>8, <2>2, <2>5 DEF Shape
  <2>7. Refers'
    <3>1. \A x \in Sessions : handle'[x] <= Len(task') /\ slot'[x] <= Len(ask')
      BY <1>1, <1>2, <1>4, <1>8, <2>2, <2>5 DEF Refers
    <3>2. DOMAIN pending' \subseteq DOMAIN ask' /\ Range(pending') \subseteq Sessions
      <4>1. \A b \in DOMAIN pending' : b \in DOMAIN ask' /\ pending'[b] \in Sessions
        BY <1>1, <2>2, <2>3, <2>4 DEF Refers, Range
      <4> QED
        BY <4>1 DEF Range
    <3>3. /\ \A k \in DOMAIN task' : task'[k].gen \in DOMAIN home'
          /\ accepted' \subseteq DOMAIN ask'
      BY <1>1, <1>2, <2>2 DEF Refers
    <3>4. \A a \in DOMAIN ask' : ask'[a].task <= Len(task')
      BY <1>1, <1>2, <2>1, <2>2 DEF Refers, AsksKept
    <3>5. \A h \in DOMAIN chan' : \A i \in DOMAIN chan'[h] :
            chan'[h][i].task \in DOMAIN task' /\ chan'[h][i].ask <= Len(ask')
      BY <1>2, <1>7, <2>2
    <3> QED
      BY <3>1, <3>2, <3>3, <3>4, <3>5 DEF Refers
  <2>8. Consent'
    BY <1>1, <1>2, <2>1, <2>2 DEF Consent, AsksKept
  <2>9. SlotHasRecord'
    BY <1>1, <2>3, <2>4, <2>5 DEF SlotHasRecord
  <2>10. Unregistered'
    <3>1. ASSUME NEW h \in DOMAIN chan', NEW i \in DOMAIN chan'[h], chan'[h][i].type = "approval"
          PROVE  chan'[h][i].ask \in DOMAIN ask' \ DOMAIN pending'
      <4>1. PICK k \in DOMAIN chan[h] : /\ chan'[h][i] = chan[h][k]
                                        /\ k = IF h = g THEN i + 1 ELSE i
        BY <1>6
      <4>2. h = g => k # 1
        BY <1>6, <4>1
      <4>3. chan[h][k].ask \in DOMAIN ask \ DOMAIN pending
        BY <1>1, <1>3, <3>1, <4>1 DEF Unregistered, Asking
      <4>4. chan[h][k].ask # event.ask
        BY <1>3, <2>3, <3>1, <4>1, <4>2 DEF Asking
      <4> QED
        BY <2>2, <2>4, <4>1, <4>3, <4>4
    <3>2. ASSUME NEW h \in DOMAIN chan', NEW i \in DOMAIN chan'[h], chan'[h][i].type = "approval",
                 NEW f \in DOMAIN chan', NEW j \in DOMAIN chan'[f], chan'[f][j].type = "approval",
                 chan'[f][j].ask = chan'[h][i].ask
          PROVE  h = f /\ i = j
      <4>1. PICK k \in DOMAIN chan[h] : /\ chan'[h][i] = chan[h][k]
                                        /\ k = IF h = g THEN i + 1 ELSE i
        BY <1>6
      <4>2. PICK l \in DOMAIN chan[f] : /\ chan'[f][j] = chan[f][l]
                                        /\ l = IF f = g THEN j + 1 ELSE j
        BY <1>6
      <4>3. /\ chan[h][k].type = "approval" /\ chan[f][l].type = "approval"
            /\ chan[h][k].ask = chan[f][l].ask /\ h \in DOMAIN chan /\ f \in DOMAIN chan
        BY <1>3, <3>2, <4>1, <4>2
      <4>4. h = f /\ k = l
        BY <1>1, <4>3, OneAsk
      <4> QED
        BY <1>6, <4>1, <4>2, <4>4
    <3> QED
      BY <3>1, <3>2 DEF Unregistered, Asking
  <2>11. Backed'
    <3>1. \A x \in Sessions : slot'[x] # 0 => gen'[x] # 0
      BY <1>1, <1>2, <2>5 DEF Backed, Loaded
    <3>2. ASSUME NEW x \in Sessions, busy[x], Reports(gen[x])
          PROVE  \E i \in DOMAIN chan'[gen[x]] : chan'[gen[x]][i].type # "approval"
      <4>1. gen[x] \in DOMAIN chan
        BY <1>1, <3>2, LoadedFacts
      <4>2. PICK i \in DOMAIN chan[gen[x]] : chan[gen[x]][i].type # "approval"
        BY <3>2 DEF Reports, Asking
      <4>3. CASE gen[x] = g
        <5>1. i # 1
          BY <1>3, <1>8, <4>2, <4>3
        <5> QED
          BY <1>3, <4>2, <4>3, <5>1
      <4>4. CASE gen[x] # g
        BY <1>3, <4>1, <4>2, <4>4
      <4> QED
        BY <4>3, <4>4
    <3> QED
      BY <1>1, <1>2, <1>8, <3>1, <3>2, BackedStays
  <2> QED
    BY <1>5, <2>6, <2>7, <2>8, <2>9, <2>10, <2>11 DEF IInv
<1>9. CASE /\ event.type # "approval" /\ busy' = [busy EXCEPT ![s] = FALSE]
           /\ handle' = [handle EXCEPT ![s] = 0]
           /\ listed' = (IF event.type = "completed" /\ Loaded(s) THEN stored ELSE listed)
           /\ IF event.type = "cancelled"
                THEN /\ slot' = [slot EXCEPT ![s] = 0]
                     /\ ask' = [a \in DOMAIN ask |->
                                  IF a = slot[s] THEN Answer(a, "reject") ELSE ask[a]]
                ELSE UNCHANGED <<slot, ask>>
           /\ UNCHANGED pending
  <2>1. AsksKept
    <3>1. CASE event.type = "cancelled"
      <4> DEFINE one == {slot[s]}
      <4>1. ask' = [a \in DOMAIN ask |-> IF a \in one THEN Answer(a, "reject") ELSE ask[a]]
        BY <1>9, <3>1
      <4> QED
        BY <1>1, <4>1, AsksKeptFacts
    <3>2. CASE event.type # "cancelled"
      BY <1>1, <1>9, <3>2 DEF AsksKept, Shape
    <3> QED
      BY <3>1, <3>2
  <2>2. DOMAIN ask' = DOMAIN ask /\ Len(ask') = Len(ask) /\ ask' \in Seq(Asks)
    BY <1>1, <2>1, LenProperties DEF AsksKept
  <2>3. /\ slot' \in [Sessions -> Nat] /\ \A x \in Sessions : slot'[x] = slot[x] \/ slot'[x] = 0
        /\ busy' \in [Sessions -> BOOLEAN] /\ handle' \in [Sessions -> Nat]
        /\ ~ busy'[s] /\ handle'[s] = 0
        /\ \A x \in Sessions \ {s} : busy'[x] = busy[x] /\ handle'[x] = handle[x]
    BY <1>1, <1>9
  <2>4. listed' \subseteq Sessions
    BY <1>1, <1>9 DEF Shape
  <2>5. Shape'
    BY <1>1, <1>2, <1>3, <2>2, <2>3, <2>4 DEF Shape
  <2>6. Refers'
    <3>1. ASSUME NEW x \in Sessions
          PROVE  handle'[x] <= Len(task') /\ slot'[x] <= Len(ask')
      <4>1. handle[x] <= Len(task) /\ slot[x] <= Len(ask) /\ 0 <= Len(task) /\ 0 <= Len(ask)
        BY <1>1 DEF Refers
      <4>2. handle'[x] = handle[x] \/ handle'[x] = 0
        BY <2>3
      <4> QED
        BY <1>2, <2>2, <2>3, <4>1, <4>2
    <3>2. DOMAIN pending' \subseteq DOMAIN ask' /\ Range(pending') \subseteq Sessions
      BY <1>1, <1>9, <2>2 DEF Refers
    <3>3. /\ \A k \in DOMAIN task' : task'[k].gen \in DOMAIN home'
          /\ accepted' \subseteq DOMAIN ask'
      BY <1>1, <1>2, <2>2 DEF Refers
    <3>4. \A a \in DOMAIN ask' : ask'[a].task <= Len(task')
      BY <1>1, <1>2, <2>1, <2>2 DEF Refers, AsksKept
    <3>5. \A h \in DOMAIN chan' : \A i \in DOMAIN chan'[h] :
            chan'[h][i].task \in DOMAIN task' /\ chan'[h][i].ask <= Len(ask')
      BY <1>2, <1>7, <2>2
    <3> QED
      BY <3>1, <3>2, <3>3, <3>4, <3>5 DEF Refers
  <2>7. Consent'
    BY <1>1, <1>2, <2>1, <2>2 DEF Consent, AsksKept
  <2>8. SlotHasRecord'
    BY <1>1, <1>9, <2>3 DEF SlotHasRecord
  <2>9. Unregistered'
    <3>1. ASSUME NEW h \in DOMAIN chan', NEW i \in DOMAIN chan'[h], chan'[h][i].type = "approval"
          PROVE  chan'[h][i].ask \in DOMAIN ask' \ DOMAIN pending'
      <4>1. PICK k \in DOMAIN chan[h] : chan'[h][i] = chan[h][k]
        BY <1>6
      <4> QED
        BY <1>1, <1>3, <1>9, <2>2, <3>1, <4>1 DEF Unregistered, Asking
    <3>2. ASSUME NEW h \in DOMAIN chan', NEW i \in DOMAIN chan'[h], chan'[h][i].type = "approval",
                 NEW f \in DOMAIN chan', NEW j \in DOMAIN chan'[f], chan'[f][j].type = "approval",
                 chan'[f][j].ask = chan'[h][i].ask
          PROVE  h = f /\ i = j
      <4>1. PICK k \in DOMAIN chan[h] : /\ chan'[h][i] = chan[h][k]
                                        /\ k = IF h = g THEN i + 1 ELSE i
        BY <1>6
      <4>2. PICK l \in DOMAIN chan[f] : /\ chan'[f][j] = chan[f][l]
                                        /\ l = IF f = g THEN j + 1 ELSE j
        BY <1>6
      <4>3. /\ chan[h][k].type = "approval" /\ chan[f][l].type = "approval"
            /\ chan[h][k].ask = chan[f][l].ask /\ h \in DOMAIN chan /\ f \in DOMAIN chan
        BY <1>3, <3>2, <4>1, <4>2
      <4>4. h = f /\ k = l
        BY <1>1, <4>3, OneAsk
      <4> QED
        BY <1>6, <4>1, <4>2, <4>4
    <3> QED
      BY <3>1, <3>2 DEF Unregistered, Asking
  <2>10. Backed'
    <3>1. \A x \in Sessions : slot'[x] # 0 => gen'[x] # 0
      BY <1>1, <1>2, <2>3 DEF Backed, Loaded
    <3>2. ASSUME NEW x \in Sessions \ {s}, busy[x], Reports(gen[x])
          PROVE  \E i \in DOMAIN chan'[gen[x]] : chan'[gen[x]][i].type # "approval"
      <4>1. gen[x] \in DOMAIN chan /\ home[gen[x]] = x
        BY <1>1, <3>2, LoadedFacts
      <4>2. gen[x] # g
        BY <3>2, <4>1 DEF s
      <4> QED
        BY <1>3, <3>2, <4>1, <4>2 DEF Reports, Asking
    <3>3. \A x \in Sessions : busy[x] => handle[x] # 0
      BY <1>1 DEF Backed
    <3>4. ASSUME NEW x \in Sessions
          PROVE  \/ handle'[x] = 0 /\ ~ busy'[x]
                 \/ x # s /\ handle'[x] = handle[x] /\ gen'[x] = gen[x] /\ (busy'[x] => busy[x])
      BY <1>2, <2>3
    <3> QED
      BY <1>1, <1>2, <3>1, <3>2, <3>3, <3>4, BackedStays
  <2> QED
    BY <1>5, <2>5, <2>6, <2>7, <2>8, <2>9, <2>10 DEF IInv
<1> QED
  BY <1>8, <1>9 DEF HandleRouted, s, event

-----------------------------------------------------------------------------
(* Shutdown *)

LEMMA ShutdownIInv ==
  ASSUME IInv, Shutdown
  PROVE  IInv'
<1>1. /\ Shape /\ Refers /\ Residents /\ Consent /\ up /\ doing = Idle
      /\ Len(task) \in Nat /\ DOMAIN task = 1 .. Len(task)
      /\ Len(ask) \in Nat /\ DOMAIN ask = 1 .. Len(ask)
      /\ \A t \in DOMAIN task : task[t] \in Tasks
      /\ DOMAIN chan = 1 .. Len(home) /\ Len(home) \in Nat
  BY ShapeFacts DEF IInv, Shutdown, Ready
<1>2. /\ ~ up' /\ doing' = Idle /\ UNCHANGED <<stored, listed, active, home, accepted, commands>>
      /\ parked' = << >> /\ pending' = << >> /\ chan' = [g \in DOMAIN chan |-> << >>]
      /\ gen' = [s \in Sessions |-> 0] /\ busy' = [s \in Sessions |-> FALSE]
      /\ handle' = [s \in Sessions |-> 0] /\ slot' = [s \in Sessions |-> 0]
      /\ seq' = [s \in Sessions |-> 0]
  BY <1>1 DEF Shutdown, storageVars
<1>3. PICK rejected, aborted :
        /\ ask' = [a \in DOMAIN ask |-> Answer(a, IF a \in rejected THEN "reject" ELSE "closed")]
        /\ task' = [t \in DOMAIN task |->
                      IF t \in aborted THEN [task[t] EXCEPT !.aborted = TRUE] ELSE task[t]]
  BY DEF Shutdown
<1>4. \A a \in DOMAIN ask : /\ ask'[a] \in Asks /\ ask'[a].task = ask[a].task
                            /\ ask'[a].answer = "accept" => ask[a].answer = "accept"
  <2> SUFFICES ASSUME NEW a \in DOMAIN ask
               PROVE  /\ ask'[a] \in Asks /\ ask'[a].task = ask[a].task
                      /\ ask'[a].answer = "accept" => ask[a].answer = "accept"
    OBVIOUS
  <2>1. CASE a \in rejected
    BY <1>1, <1>3, <2>1, AnswerFacts
  <2>2. CASE a \notin rejected
    BY <1>1, <1>3, <2>2, AnswerFacts
  <2> QED
    BY <2>1, <2>2
<1>5. \A t \in DOMAIN task : task'[t] \in Tasks /\ task'[t].gen = task[t].gen
  BY <1>1, <1>3 DEF Tasks
<1>6. /\ ask' \in [1 .. Len(ask) -> Asks] /\ task' \in [1 .. Len(task) -> Tasks]
      /\ chan' \in [1 .. Len(home) -> Seq(Events)]
  <2>1. << >> \in Seq(Events)
    BY EmptySeq
  <2> QED
    BY <1>1, <1>2, <1>3, <1>4, <1>5, <2>1
<1>7. /\ ask' \in Seq(Asks) /\ Len(ask') = Len(ask) /\ DOMAIN ask' = 1 .. Len(ask)
      /\ task' \in Seq(Tasks) /\ Len(task') = Len(task) /\ DOMAIN task' = 1 .. Len(task)
  BY <1>1, <1>6, SeqFacts
<1>8. chan' \in Seq(Seq(Events)) /\ Len(chan') = Len(home) /\ DOMAIN chan' = 1 .. Len(home)
  <2>1. Len(home) \in Nat /\ chan' \in [1 .. Len(home) -> Seq(Events)]
    BY <1>1, <1>6
  <2> QED
    BY <2>1, SeqFacts
<1>9. Shape'
  <2>1. /\ gen' \in [Sessions -> Nat] /\ busy' \in [Sessions -> BOOLEAN]
        /\ handle' \in [Sessions -> Nat] /\ slot' \in [Sessions -> Nat]
        /\ seq' \in [Sessions -> Nat]
    BY <1>2
  <2>2. up' \in BOOLEAN
    BY DEF Shutdown
  <2> QED
    BY <1>1, <1>2, <1>7, <1>8, <2>1, <2>2 DEF Shape
<1>10. DOMAIN << >> = {} /\ \A g \in DOMAIN chan' : DOMAIN chan'[g] = {}
  BY <1>2
<1>11. Refers'
  <2>1. \A s \in Sessions : handle'[s] <= Len(task') /\ slot'[s] <= Len(ask')
    BY <1>1, <1>2, <1>7
  <2>2. DOMAIN pending' \subseteq DOMAIN ask' /\ Range(pending') \subseteq Sessions
    BY <1>2, <1>10 DEF Range
  <2> QED
    BY <1>1, <1>2, <1>4, <1>5, <1>7, <1>10, <2>1, <2>2 DEF Refers
<1>12. Residents'
  <2>1. parked' \in Seq(Sessions \ {active}) /\ IsInjective(parked')
    BY <1>2, <1>10, EmptySeq DEF IsInjective
  <2> QED
    BY <1>1, <1>2, <2>1 DEF Residents, Loaded
<1>13. Handlers'
  BY <1>2, ConstantFacts DEF Handlers, Idle
<1>14. Consent'
  BY <1>1, <1>2, <1>4, <1>7 DEF Consent
<1>15. SlotHasRecord' /\ Backed'
  BY <1>2 DEF SlotHasRecord, Backed
<1>16. Unregistered'
  BY <1>10 DEF Unregistered
<1> QED
  BY <1>9, <1>11, <1>12, <1>13, <1>14, <1>15, <1>16 DEF IInv

-----------------------------------------------------------------------------
(* Agent tasks *)

LEMMA BecomesFacts ==
  ASSUME Shape, NEW t \in DOMAIN task, NEW state \in {"running", "waiting", "ended"},
         Becomes(t, state)
  PROVE  /\ task' \in Seq(Tasks) /\ Len(task') = Len(task) /\ DOMAIN task' = DOMAIN task
         /\ \A k \in DOMAIN task : task'[k].gen = task[k].gen /\ task'[k].aborted = task[k].aborted
         /\ \A k \in DOMAIN task : k # t => task'[k] = task[k]
         /\ task'[t].state = state
<1>1. /\ Len(task) \in Nat /\ DOMAIN task = 1 .. Len(task)
      /\ \A k \in DOMAIN task : task[k] \in Tasks
  BY ShapeFacts
<1>2. task = [k \in DOMAIN task |-> task[k]]
  BY LenProperties DEF Shape
<1>3. task' = [task EXCEPT ![t] = [task[t] EXCEPT !.state = state]]
  BY DEF Becomes
<1>4. /\ [task[t] EXCEPT !.state = state] \in Tasks
      /\ [task[t] EXCEPT !.state = state].gen = task[t].gen
      /\ [task[t] EXCEPT !.state = state].aborted = task[t].aborted
      /\ [task[t] EXCEPT !.state = state].state = state
  BY <1>1 DEF Tasks
<1> DEFINE new == [task[t] EXCEPT !.state = state]
<1> HIDE DEF new
<1>5. /\ new \in Tasks /\ new.gen = task[t].gen /\ new.aborted = task[t].aborted
      /\ new.state = state /\ task' = [task EXCEPT ![t] = new]
  BY <1>3, <1>4 DEF new
<1>6. /\ task' \in [1 .. Len(task) -> Tasks] /\ DOMAIN task' = 1 .. Len(task)
      /\ task'[t] = new /\ \A k \in DOMAIN task : k # t => task'[k] = task[k]
  BY <1>1, <1>2, <1>5
<1>7. task' \in Seq(Tasks)
  BY <1>1, <1>6, SeqDef
<1>8. Len(task') = Len(task)
  BY <1>1, <1>6, <1>7, LenProperties
<1> QED
  BY <1>1, <1>5, <1>6, <1>7, <1>8

Event(t, type, a) == [type |-> type, task |-> t, ask |-> a]

\* An event sent while the engine is up is the last of its runtime's channel.
LEMMA SentFacts ==
  ASSUME Shape, Refers, NEW t \in DOMAIN task, NEW type \in EventTypes, NEW a \in Nat,
         Sent(t, type, a)
  PROVE  /\ chan' \in Seq(Seq(Events)) /\ Len(chan') = Len(chan) /\ DOMAIN chan' = DOMAIN chan
         /\ \A g \in DOMAIN chan : \A i \in DOMAIN chan[g] :
              i \in DOMAIN chan'[g] /\ chan'[g][i] = chan[g][i]
         /\ \A g \in DOMAIN chan : \A i \in DOMAIN chan'[g] : i \notin DOMAIN chan[g] =>
              g = task[t].gen /\ i = Len(chan[g]) + 1 /\ chan'[g][i] = Event(t, type, a)
         /\ up => \E i \in DOMAIN chan'[task[t].gen] :
                    chan'[task[t].gen][i] = Event(t, type, a)
<1> DEFINE g == task[t].gen
           q == Append(chan[g], Event(t, type, a))
<1>1. /\ Len(chan) \in Nat /\ DOMAIN chan = 1 .. Len(chan)
      /\ g \in DOMAIN chan /\ chan[g] \in Seq(Events)
      /\ \A h \in DOMAIN chan : chan[h] \in Seq(Events)
      /\ t \in Nat /\ chan = [h \in DOMAIN chan |-> chan[h]] /\ chan \in Seq(Seq(Events))
  <2>1. /\ Len(chan) \in Nat /\ DOMAIN chan = 1 .. Len(chan) /\ DOMAIN home = DOMAIN chan
        /\ \A h \in DOMAIN chan : chan[h] \in Seq(Events)
        /\ t \in Nat
    BY ShapeFacts DEF Shape
  <2>2. g \in DOMAIN chan
    BY <2>1 DEF Refers
  <2>3. chan \in Seq(Seq(Events))
    BY DEF Shape
  <2>4. chan = [h \in DOMAIN chan |-> chan[h]]
    BY <2>3, LenProperties
  <2> QED
    BY <2>1, <2>2, <2>3, <2>4
<1>2. Event(t, type, a) \in Events
  BY <1>1 DEF Event, Events
<1>3. /\ q \in Seq(Events) /\ DOMAIN q = 1 .. Len(chan[g]) + 1
      /\ DOMAIN chan[g] = 1 .. Len(chan[g]) /\ Len(chan[g]) \in Nat
      /\ q[Len(chan[g]) + 1] = Event(t, type, a)
      /\ \A k \in 1 .. Len(chan[g]) : q[k] = chan[g][k]
  <2>1. chan[g] \in Seq(Events)
    BY <1>1
  <2> HIDE DEF g
  <2> QED
    BY <1>2, <2>1, AppendFacts
<1>4. CASE up
  <2>1. chan' = [chan EXCEPT ![g] = q]
    BY <1>4 DEF Sent, Event
  <2> HIDE DEF g, q
  <2>2. Len(chan) \in Nat /\ chan' \in [1 .. Len(chan) -> Seq(Events)]
    BY <1>1, <1>3, <2>1
  <2>3. chan'[g] = q /\ \A h \in DOMAIN chan : h # g => chan'[h] = chan[h]
    BY <1>1, <2>1
  <2>4. chan' \in Seq(Seq(Events)) /\ Len(chan') = Len(chan) /\ DOMAIN chan' = 1 .. Len(chan)
    BY <2>2, SeqFacts
  <2>5. DOMAIN chan' = DOMAIN chan
    BY <1>1, <2>4
  <2>6. \A i \in DOMAIN chan[g] : i \in DOMAIN q /\ q[i] = chan[g][i]
    BY <1>3
  <2>7. \A i \in DOMAIN q : i \notin DOMAIN chan[g] => i = Len(chan[g]) + 1
    BY <1>3
  <2>8. Len(chan[g]) + 1 \in DOMAIN q
    BY <1>3
  <2>9. \A h \in DOMAIN chan : \A i \in DOMAIN chan[h] :
          i \in DOMAIN chan'[h] /\ chan'[h][i] = chan[h][i]
    BY <2>3, <2>6
  <2>10. \A h \in DOMAIN chan : \A i \in DOMAIN chan'[h] : i \notin DOMAIN chan[h] =>
           h = g /\ i = Len(chan[h]) + 1 /\ chan'[h][i] = Event(t, type, a)
    BY <1>3, <2>3, <2>7
  <2>11. \E i \in DOMAIN chan'[g] : chan'[g][i] = Event(t, type, a)
    BY <1>3, <2>3, <2>8
  <2> QED
    BY <1>1, <2>3, <2>4, <2>5, <2>9, <2>10, <2>11 DEF g
<1>5. CASE ~ up
  BY <1>1, <1>5 DEF Sent
<1> QED
  BY <1>4, <1>5

\* An agent's step that asks for nothing: its task goes on, or ends with its
\* last event sent, or was aborted.
LEMMA AgentIInv ==
  ASSUME IInv, NEW t \in DOMAIN task, NEW state \in {"running", "ended"},
         Becomes(t, state),
         UNCHANGED <<engineVars, ask>>,
         \/ \E type \in EventTypes \ {"approval"} : Sent(t, type, 0)
         \/ UNCHANGED chan /\ (state = "ended" => task[t].aborted)
  PROVE  IInv'
<1>1. /\ Shape /\ Refers /\ Residents /\ Handlers /\ Consent /\ SlotHasRecord
      /\ Unregistered /\ Backed
      /\ Len(ask) \in Nat /\ DOMAIN chan = DOMAIN home
  BY ShapeFacts DEF IInv
<1>2. UNCHANGED <<up, doing, stored, listed, active, parked, gen, home, busy, handle, slot, seq,
                  pending, accepted, commands, ask>>
  BY DEF engineVars, storageVars, residency, runtimes
<1>3. /\ task' \in Seq(Tasks) /\ Len(task') = Len(task) /\ DOMAIN task' = DOMAIN task
      /\ \A k \in DOMAIN task : task'[k].gen = task[k].gen /\ task'[k].aborted = task[k].aborted
      /\ \A k \in DOMAIN task : k # t => task'[k] = task[k]
      /\ task'[t].state = state
  BY <1>1, BecomesFacts
<1>4. /\ chan' \in Seq(Seq(Events)) /\ Len(chan') = Len(chan) /\ DOMAIN chan' = DOMAIN chan
      /\ \A g \in DOMAIN chan : \A i \in DOMAIN chan[g] :
           i \in DOMAIN chan'[g] /\ chan'[g][i] = chan[g][i]
      /\ \A g \in DOMAIN chan : \A i \in DOMAIN chan'[g] : i \notin DOMAIN chan[g] =>
           chan'[g][i].type # "approval" /\ chan'[g][i].task = t /\ chan'[g][i].ask = 0
      /\ up /\ state = "ended" /\ ~ task[t].aborted =>
           \E i \in DOMAIN chan'[task[t].gen] : chan'[task[t].gen][i].type # "approval"
  <2>1. CASE UNCHANGED chan /\ (state = "ended" => task[t].aborted)
    BY <1>1, <2>1 DEF Shape
  <2>2. CASE \E type \in EventTypes \ {"approval"} : Sent(t, type, 0)
    <3> PICK type \in EventTypes \ {"approval"} : Sent(t, type, 0)
      BY <2>2
    <3>1. /\ chan' \in Seq(Seq(Events)) /\ Len(chan') = Len(chan) /\ DOMAIN chan' = DOMAIN chan
          /\ \A g \in DOMAIN chan : \A i \in DOMAIN chan[g] :
               i \in DOMAIN chan'[g] /\ chan'[g][i] = chan[g][i]
          /\ \A g \in DOMAIN chan : \A i \in DOMAIN chan'[g] : i \notin DOMAIN chan[g] =>
               chan'[g][i] = Event(t, type, 0)
          /\ up => \E i \in DOMAIN chan'[task[t].gen] : chan'[task[t].gen][i] = Event(t, type, 0)
      BY <1>1, SentFacts
    <3>2. /\ Event(t, type, 0).type # "approval" /\ Event(t, type, 0).task = t
          /\ Event(t, type, 0).ask = 0
      BY DEF Event
    <3> QED
      BY <3>1, <3>2
  <2> QED
    BY <2>1, <2>2
<1>5. Shape'
  BY <1>1, <1>2, <1>3, <1>4 DEF Shape
<1>6. Refers'
  <2>1. ASSUME NEW g \in DOMAIN chan', NEW i \in DOMAIN chan'[g]
        PROVE  chan'[g][i].task \in DOMAIN task' /\ chan'[g][i].ask <= Len(ask')
    <3>1. CASE i \in DOMAIN chan[g]
      BY <1>1, <1>2, <1>3, <1>4, <3>1 DEF Refers
    <3>2. CASE i \notin DOMAIN chan[g]
      BY <1>1, <1>2, <1>3, <1>4, <3>2
    <3> QED
      BY <3>1, <3>2
  <2> QED
    BY <1>1, <1>2, <1>3, <2>1 DEF Refers
<1>7. Residents'
  BY <1>1, <1>2, ResidentsStay
<1>8. Handlers'
  BY <1>1, <1>2, <1>3 DEF Handlers
<1>9. Consent' /\ SlotHasRecord'
  BY <1>1, <1>2 DEF Consent, SlotHasRecord
<1>10. Unregistered'
  BY <1>1, <1>2, <1>4, UnregisteredStays
<1>11. Backed'
  <2>1. \A s \in Sessions : slot'[s] # 0 => gen'[s] # 0
    BY <1>1, <1>2 DEF Backed, Loaded
  <2>2. \A s \in Sessions : handle[s] # 0 => handle[s] \in DOMAIN task
    BY <1>1, ShapeFacts DEF Refers, Shape
  <2>3. ASSUME NEW s \in Sessions, busy[s]
        PROVE  /\ up /\ handle[s] # 0 /\ ~ task[handle[s]].aborted
               /\ task[handle[s]].gen = gen[s] /\ gen[s] \in DOMAIN chan
    BY <1>1, <2>3, LoadedFacts DEF Backed, Handlers
  <2>4. ASSUME NEW s \in Sessions, busy[s], Reports(gen[s])
        PROVE  \E i \in DOMAIN chan'[gen[s]] : chan'[gen[s]][i].type # "approval"
    BY <1>4, <2>3, <2>4 DEF Reports, Asking
  <2>5. ASSUME NEW s \in Sessions, busy[s], task'[handle[s]].state = "ended"
        PROVE  \/ task[handle[s]].state = "ended"
               \/ \E i \in DOMAIN chan'[gen[s]] : chan'[gen[s]][i].type # "approval"
    <3>1. CASE handle[s] = t
      BY <1>3, <1>4, <2>3, <2>5, <3>1
    <3>2. CASE handle[s] # t
      BY <1>3, <2>2, <2>3, <2>5, <3>2
    <3> QED
      BY <3>1, <3>2
  <2>6. ASSUME NEW s \in Sessions
        PROVE  /\ handle'[s] = handle[s] /\ gen'[s] = gen[s] /\ (busy'[s] => busy[s])
               /\ handle[s] # 0 => task'[handle[s]].gen = task[handle[s]].gen
               /\ busy[s] => task'[handle[s]].aborted = task[handle[s]].aborted
    BY <1>2, <1>3, <2>2, <2>3
  <2> QED
    BY <1>1, <2>1, <2>4, <2>5, <2>6, BackedStays
<1> QED
  BY <1>5, <1>6, <1>7, <1>8, <1>9, <1>10, <1>11 DEF IInv

LEMMA ResumeIInv ==
  ASSUME IInv, NEW t \in DOMAIN task, Resume(t)
  PROVE  IInv'
<1>1. /\ UNCHANGED <<engineVars, ask>>
      /\ \/ Becomes(t, "running") /\ UNCHANGED chan
         \/ Becomes(t, "ended") /\ Sent(t, "cancelled", 0)
  BY DEF Resume
<1>2. "cancelled" \in EventTypes \ {"approval"}
  BY DEF EventTypes
<1>3. CASE Becomes(t, "running") /\ UNCHANGED chan
  BY <1>1, <1>3, AgentIInv
<1>4. CASE Becomes(t, "ended") /\ Sent(t, "cancelled", 0)
  BY <1>1, <1>2, <1>4, AgentIInv
<1> QED
  BY <1>1, <1>3, <1>4

LEMMA FinishIInv ==
  ASSUME IInv, NEW t \in DOMAIN task, Finish(t)
  PROVE  IInv'
<1>1. /\ UNCHANGED <<engineVars, ask>> /\ Becomes(t, "ended")
      /\ Sent(t, "completed", 0) \/ Sent(t, "ended", 0)
  BY DEF Finish
<1>2. /\ "completed" \in EventTypes \ {"approval"} /\ "ended" \in EventTypes \ {"approval"}
  BY DEF EventTypes
<1> QED
  BY <1>1, <1>2, AgentIInv

LEMMA AbortIInv ==
  ASSUME IInv, NEW t \in DOMAIN task, AbortTakesEffect(t)
  PROVE  IInv'
BY AgentIInv DEF AbortTakesEffect

LEMMA AskIInv ==
  ASSUME IInv, NEW t \in DOMAIN task, Ask(t)
  PROVE  IInv'
<1> DEFINE id == Len(ask) + 1
           new == [task |-> t, answer |-> "none"]
<1>1. /\ Shape /\ Refers /\ Residents /\ Handlers /\ Consent /\ SlotHasRecord
      /\ Unregistered /\ Backed
      /\ Len(ask) \in Nat /\ DOMAIN ask = 1 .. Len(ask) /\ \A a \in DOMAIN ask : ask[a] \in Asks
      /\ DOMAIN chan = DOMAIN home /\ Len(task) \in Nat /\ DOMAIN task = 1 .. Len(task)
      /\ ask \in Seq(Asks)
  BY ShapeFacts DEF IInv, Shape
<1>2. /\ Becomes(t, "waiting") /\ ask' = Append(ask, new) /\ Sent(t, "approval", id)
      /\ UNCHANGED <<up, doing, stored, listed, active, parked, gen, home, busy, handle, slot,
                     seq, pending, accepted, commands>>
  BY DEF Ask, engineVars, storageVars, residency, runtimes
<1>3. /\ task' \in Seq(Tasks) /\ Len(task') = Len(task) /\ DOMAIN task' = DOMAIN task
      /\ \A k \in DOMAIN task : task'[k].gen = task[k].gen /\ task'[k].aborted = task[k].aborted
      /\ \A k \in DOMAIN task : k # t => task'[k] = task[k]
      /\ task'[t].state = "waiting"
  BY <1>1, <1>2, BecomesFacts
<1>4. new \in Asks /\ new.task = t /\ new.answer # "accept"
  BY <1>1 DEF Asks
<1> HIDE DEF new
<1>5. /\ ask' \in Seq(Asks) /\ Len(ask') = id /\ DOMAIN ask' = 1 .. id /\ ask'[id] = new
      /\ \A a \in DOMAIN ask : ask'[a] = ask[a]
  BY <1>1, <1>2, <1>4, AppendFacts
<1>6. /\ id \in Nat \ {0} /\ id \notin DOMAIN ask /\ DOMAIN ask \subseteq DOMAIN ask'
      /\ \A a \in DOMAIN ask' : a \in DOMAIN ask \/ a = id
      /\ id \in DOMAIN ask'
  BY <1>1, <1>5
<1>7. /\ chan' \in Seq(Seq(Events)) /\ Len(chan') = Len(chan) /\ DOMAIN chan' = DOMAIN chan
      /\ \A g \in DOMAIN chan : \A i \in DOMAIN chan[g] :
           i \in DOMAIN chan'[g] /\ chan'[g][i] = chan[g][i]
      /\ \A g \in DOMAIN chan : \A i \in DOMAIN chan'[g] : i \notin DOMAIN chan[g] =>
           /\ g = task[t].gen /\ i = Len(chan[g]) + 1
           /\ chan'[g][i].task = t /\ chan'[g][i].ask = id
  <2>1. "approval" \in EventTypes /\ id \in Nat
    BY <1>6 DEF EventTypes
  <2>2. /\ chan' \in Seq(Seq(Events)) /\ Len(chan') = Len(chan) /\ DOMAIN chan' = DOMAIN chan
        /\ \A g \in DOMAIN chan : \A i \in DOMAIN chan[g] :
             i \in DOMAIN chan'[g] /\ chan'[g][i] = chan[g][i]
        /\ \A g \in DOMAIN chan : \A i \in DOMAIN chan'[g] : i \notin DOMAIN chan[g] =>
             g = task[t].gen /\ i = Len(chan[g]) + 1 /\ chan'[g][i] = Event(t, "approval", id)
    <3> HIDE DEF id
    <3> QED
      BY <1>1, <1>2, <2>1, SentFacts
  <2>3. Event(t, "approval", id).task = t /\ Event(t, "approval", id).ask = id
    BY DEF Event
  <2> HIDE DEF id
  <2> QED
    BY <2>2, <2>3
<1> HIDE DEF id
<1>8. Shape'
  BY <1>1, <1>2, <1>3, <1>5, <1>7 DEF Shape
<1>9. Refers'
  <2>1. Len(ask) <= Len(ask') /\ Len(ask') \in Nat
    BY <1>1, <1>5 DEF id
  <2>2. \A s \in Sessions : handle'[s] <= Len(task') /\ slot'[s] <= Len(ask')
    <3> SUFFICES ASSUME NEW s \in Sessions PROVE slot'[s] <= Len(ask')
      BY <1>1, <1>2, <1>3 DEF Refers
    <3>1. slot[s] <= Len(ask) /\ slot[s] \in Nat
      BY <1>1 DEF Refers, Shape
    <3> QED
      BY <1>1, <1>2, <2>1, <3>1
  <2>3. DOMAIN pending' \subseteq DOMAIN ask' /\ Range(pending') \subseteq Sessions
    BY <1>1, <1>2, <1>6 DEF Refers
  <2>4. \A a \in DOMAIN ask' : ask'[a].task <= Len(task')
    BY <1>1, <1>3, <1>4, <1>5, <1>6 DEF Refers
  <2>5. ASSUME NEW g \in DOMAIN chan', NEW i \in DOMAIN chan'[g]
        PROVE  chan'[g][i].task \in DOMAIN task' /\ chan'[g][i].ask <= Len(ask')
    <3>1. CASE i \in DOMAIN chan[g]
      <4>1. chan'[g][i] = chan[g][i] /\ chan[g][i].ask <= Len(ask) /\ chan[g][i].ask \in Nat
            /\ chan[g][i].task \in DOMAIN task
        BY <1>1, <1>7, <3>1, ShapeFacts DEF Refers, Events
      <4> QED
        BY <1>1, <1>3, <2>1, <4>1
    <3>2. CASE i \notin DOMAIN chan[g]
      BY <1>3, <1>5, <1>7, <2>1, <3>2
    <3> QED
      BY <3>1, <3>2
  <2>6. accepted' \subseteq DOMAIN ask' /\ \A k \in DOMAIN task' : task'[k].gen \in DOMAIN home'
    BY <1>1, <1>2, <1>3, <1>6 DEF Refers
  <2> QED
    BY <2>2, <2>3, <2>4, <2>5, <2>6 DEF Refers
<1>10. Residents'
  BY <1>1, <1>2, ResidentsStay
<1>11. Handlers'
  BY <1>1, <1>2, <1>3 DEF Handlers
<1>12. Consent'
  BY <1>1, <1>2, <1>4, <1>5, <1>6 DEF Consent
<1>13. SlotHasRecord'
  BY <1>1, <1>2 DEF SlotHasRecord
<1>14. Unregistered'
  <2>1. \A g \in DOMAIN chan : \A i \in DOMAIN chan[g] : chan[g][i].ask # id
    <3>1. \A g \in DOMAIN chan : \A i \in DOMAIN chan[g] :
            chan[g][i].ask <= Len(ask) /\ chan[g][i].ask \in Nat
      BY <1>1, ShapeFacts DEF Refers, Events
    <3> QED
      BY <1>1, <3>1 DEF id
  <2>2. ASSUME NEW g \in DOMAIN chan', NEW i \in DOMAIN chan'[g], chan'[g][i].type = "approval"
        PROVE  chan'[g][i].ask \in DOMAIN ask' \ DOMAIN pending'
    <3>1. CASE i \in DOMAIN chan[g]
      BY <1>1, <1>2, <1>6, <1>7, <2>2, <3>1 DEF Unregistered, Asking
    <3>2. CASE i \notin DOMAIN chan[g]
      <4>1. chan'[g][i].ask = id
        BY <1>7, <3>2
      <4>2. id \notin DOMAIN pending'
        BY <1>1, <1>2, <1>6 DEF Refers
      <4> QED
        BY <1>6, <4>1, <4>2
    <3> QED
      BY <3>1, <3>2
  <2>3. ASSUME NEW g \in DOMAIN chan', NEW i \in DOMAIN chan'[g], chan'[g][i].type = "approval",
               NEW h \in DOMAIN chan', NEW j \in DOMAIN chan'[h], chan'[h][j].type = "approval",
               chan'[h][j].ask = chan'[g][i].ask
        PROVE  g = h /\ i = j
    <3>1. CASE i \in DOMAIN chan[g] /\ j \in DOMAIN chan[h]
      <4>1. /\ chan[g][i].type = "approval" /\ chan[h][j].type = "approval"
            /\ chan[g][i].ask = chan[h][j].ask /\ g \in DOMAIN chan /\ h \in DOMAIN chan
        BY <1>7, <2>3, <3>1
      <4> QED
        BY <1>1, <3>1, <4>1, OneAsk
    <3>2. CASE i \notin DOMAIN chan[g] /\ j \notin DOMAIN chan[h]
      <4>1. g = task[t].gen /\ i = Len(chan[g]) + 1 /\ h = task[t].gen /\ j = Len(chan[h]) + 1
        BY <1>7, <2>3, <3>2
      <4> QED
        BY <4>1
    <3>3. CASE i \in DOMAIN chan[g] /\ j \notin DOMAIN chan[h]
      BY <1>7, <2>1, <2>3, <3>3
    <3>4. CASE i \notin DOMAIN chan[g] /\ j \in DOMAIN chan[h]
      BY <1>7, <2>1, <2>3, <3>4
    <3> QED
      BY <3>1, <3>2, <3>3, <3>4
  <2> QED
    BY <2>2, <2>3 DEF Unregistered, Asking
<1>15. Backed'
  <2>1. \A s \in Sessions : slot'[s] # 0 => gen'[s] # 0
    BY <1>1, <1>2 DEF Backed, Loaded
  <2>2. \A s \in Sessions : handle[s] # 0 => handle[s] \in DOMAIN task
    BY <1>1 DEF Refers, Shape
  <2>3. ASSUME NEW s \in Sessions, busy[s]
        PROVE  handle[s] # 0 /\ gen[s] \in DOMAIN chan
    BY <1>1, <2>3, LoadedFacts DEF Backed
  <2>4. ASSUME NEW s \in Sessions, busy[s], Reports(gen[s])
        PROVE  \E i \in DOMAIN chan'[gen[s]] : chan'[gen[s]][i].type # "approval"
    BY <1>7, <2>3, <2>4 DEF Reports, Asking
  <2>5. ASSUME NEW s \in Sessions, busy[s], task'[handle[s]].state = "ended"
        PROVE  task[handle[s]].state = "ended"
    BY <1>3, <2>2, <2>3, <2>5
  <2>6. ASSUME NEW s \in Sessions
        PROVE  /\ handle'[s] = handle[s] /\ gen'[s] = gen[s] /\ (busy'[s] => busy[s])
               /\ handle[s] # 0 => task'[handle[s]].gen = task[handle[s]].gen
               /\ busy[s] => task'[handle[s]].aborted = task[handle[s]].aborted
    BY <1>2, <1>3, <2>2, <2>3
  <2> QED
    BY <1>1, <2>1, <2>4, <2>5, <2>6, BackedStays
<1> QED
  BY <1>8, <1>9, <1>10, <1>11, <1>12, <1>13, <1>14, <1>15 DEF IInv

-----------------------------------------------------------------------------
(* The specification *)

LEMMA InitIInv == Init => IInv
<1> SUFFICES ASSUME Init PROVE IInv
  OBVIOUS
<1>1. /\ active \in Sessions /\ InitialSessions \subseteq Sessions
      /\ home = <<active>> /\ chan = << << >> >> /\ parked = << >> /\ pending = << >>
      /\ task = << >> /\ ask = << >> /\ accepted = {} /\ doing = Idle /\ up = TRUE
      /\ gen = [s \in Sessions |-> IF s = active THEN 1 ELSE 0]
      /\ busy = [s \in Sessions |-> FALSE] /\ handle = [s \in Sessions |-> 0]
      /\ slot = [s \in Sessions |-> 0] /\ seq = [s \in Sessions |-> 0]
      /\ stored = InitialSessions /\ listed = InitialSessions /\ commands = 0
  BY ConstantFacts DEF Init
<1>2. DOMAIN home = {1} /\ DOMAIN chan = {1} /\ home[1] = active /\ chan[1] = << >>
      /\ DOMAIN task = {} /\ DOMAIN ask = {} /\ DOMAIN parked = {} /\ DOMAIN pending = {}
      /\ DOMAIN chan[1] = {} /\ Len(task) = 0 /\ Len(ask) = 0
  BY <1>1
<1>3. Shape
  <2>1. << >> \in Seq(Tasks) /\ << >> \in Seq(Asks) /\ << >> \in Seq(Events)
    BY EmptySeq
  <2>2. home \in Seq(Sessions) /\ Len(home) = 1
    BY <1>1
  <2>3. chan \in Seq(Seq(Events)) /\ Len(chan) = 1
    BY <1>1, <2>1
  <2>4. /\ busy \in [Sessions -> BOOLEAN] /\ handle \in [Sessions -> Nat]
        /\ slot \in [Sessions -> Nat] /\ seq \in [Sessions -> Nat] /\ gen \in [Sessions -> Nat]
    BY <1>1
  <2>5. commands \in 0 .. MaxCommands /\ up \in BOOLEAN
    BY <1>1, ConstantFacts
  <2> QED
    BY <1>1, <2>1, <2>2, <2>3, <2>4, <2>5 DEF Shape
<1>4. Refers
  BY <1>1, <1>2 DEF Refers, Range
<1>5. Residents
  <2>1. parked \in Seq(Sessions \ {active}) /\ IsInjective(parked) /\ Range(parked) = {}
    BY <1>1, <1>2, EmptySeq DEF IsInjective, Range
  <2> QED
    BY <1>1, <1>2, <2>1 DEF Residents, Loaded, Range
<1>6. Handlers
  BY <1>1, ConstantFacts DEF Handlers, Idle
<1>7. Consent /\ SlotHasRecord /\ Unregistered /\ Backed
  BY <1>1, <1>2 DEF Consent, SlotHasRecord, Unregistered, Backed
<1> QED
  BY <1>3, <1>4, <1>5, <1>6, <1>7 DEF IInv

LEMMA NextIInv == IInv /\ [Next]_vars => IInv'
<1> SUFFICES ASSUME IInv, [Next]_vars PROVE IInv'
  OBVIOUS
<1>1. CASE Client
  <2>1. ASSUME NEW s \in Sessions, ActivateSession(s) PROVE IInv'
    BY <2>1, ActivateSessionIInv
  <2>2. ASSUME NEW s \in Sessions, NEW input \in Inputs, Submit(s, input) PROVE IInv'
    BY <2>2, SubmitIInv
  <2>3. ASSUME NEW s \in Sessions, NEW input \in Inputs, SubmitNew(s, input) PROVE IInv'
    BY <2>3, SubmitNewIInv
  <2>4. ASSUME NEW a \in DOMAIN ask, NEW accept \in BOOLEAN, Approve(a, accept) PROVE IInv'
    BY <2>4, ApproveIInv
  <2>5. ASSUME NEW receipt \in DOMAIN task \cup {0}, Cancel(receipt) PROVE IInv'
    BY <2>5, CancelIInv
  <2> QED
    BY <1>1, <2>1, <2>2, <2>3, <2>4, <2>5 DEF Client
<1>2. CASE Proceed
  <2>1. CASE SubmitText
    BY <2>1, SubmitTextIInv
  <2>2. CASE SubmitShell
    BY <2>2, SubmitShellIInv
  <2>3. CASE SubmitCompact \/ SubmitDiff
    BY <2>3, SubmitLocalIInv
  <2>4. CASE SubmitReload
    BY <2>4, SubmitReloadIInv
  <2>5. CASE SubmitCreate
    BY <2>5, SubmitCreateIInv
  <2>6. CASE SubmitDelete
    BY <2>6, SubmitDeleteIInv
  <2>7. CASE DropDeleted
    BY <2>7, DropDeletedIInv
  <2>8. CASE FinishCancel
    BY <2>8, FinishCancelIInv
  <2> QED
    BY <1>2, <2>1, <2>2, <2>3, <2>4, <2>5, <2>6, <2>7, <2>8 DEF Proceed
<1>3. CASE Shutdown
  BY <1>3, ShutdownIInv
<1>4. ASSUME NEW g \in DOMAIN chan, HandleRouted(g) PROVE IInv'
  BY <1>4, HandleRoutedIInv
<1>5. ASSUME NEW a \in DOMAIN ask, Expire(a) PROVE IInv'
  BY <1>5, ExpireIInv
<1>6. ASSUME NEW t \in DOMAIN task, Agent(t) PROVE IInv'
  <2>1. CASE Ask(t)
    BY <2>1, AskIInv
  <2>2. CASE Resume(t)
    BY <2>2, ResumeIInv
  <2>3. CASE Finish(t)
    BY <2>3, FinishIInv
  <2>4. CASE AbortTakesEffect(t)
    BY <2>4, AbortIInv
  <2> QED
    BY <1>6, <2>1, <2>2, <2>3, <2>4 DEF Agent
<1>7. CASE UNCHANGED vars
  <2> USE <1>7 DEF vars, storageVars, residency, runtimes
  <2>1. Shape'
    BY DEF IInv, Shape
  <2>2. Refers'
    BY DEF IInv, Refers
  <2>3. Residents'
    BY DEF IInv, Residents, Loaded
  <2>4. Handlers'
    BY DEF IInv, Handlers
  <2>5. Consent' /\ SlotHasRecord'
    BY DEF IInv, Consent, SlotHasRecord
  <2>6. Unregistered'
    BY DEF IInv, Unregistered, Asking
  <2>7. Backed'
    BY DEF IInv, Backed, Loaded, Reports, Asking
  <2> QED
    BY <2>1, <2>2, <2>3, <2>4, <2>5, <2>6, <2>7 DEF IInv
<1> QED
  BY <1>1, <1>2, <1>3, <1>4, <1>5, <1>6, <1>7 DEF Next

\* The invariant every other theorem rests on.
THEOREM InductiveInvariant == Spec => []IInv
BY InitIInv, NextIInv, PTL DEF Spec

LEMMA RetypedSeq ==
  ASSUME NEW X, NEW Y, NEW q \in Seq(X), \A i \in DOMAIN q : q[i] \in Y
  PROVE  q \in Seq(Y)
<1>1. Len(q) \in Nat /\ DOMAIN q = 1 .. Len(q) /\ q = [i \in 1 .. Len(q) |-> q[i]]
  BY LenProperties
<1>2. q \in [1 .. Len(q) -> Y]
  BY <1>1
<1> QED
  BY <1>1, <1>2, SeqFacts

LEMMA IInvTypes == IInv => TypeOK
<1> SUFFICES ASSUME IInv PROVE TypeOK
  OBVIOUS
<1>1. /\ Shape /\ Refers /\ Residents /\ Handlers
      /\ Len(home) \in Nat /\ Len(task) \in Nat /\ Len(ask) \in Nat
      /\ DOMAIN home = 1 .. Len(home) /\ DOMAIN task = 1 .. Len(task)
      /\ DOMAIN ask = 1 .. Len(ask) /\ DOMAIN chan = 1 .. Len(home)
      /\ \A t \in DOMAIN task : task[t] \in Tasks
      /\ \A a \in DOMAIN ask : ask[a] \in Asks
      /\ \A g \in DOMAIN chan : /\ chan[g] \in Seq(Events)
                                /\ \A i \in DOMAIN chan[g] : chan[g][i] \in Events
      /\ chan \in Seq(Seq(Events)) /\ task \in Seq(Tasks) /\ ask \in Seq(Asks)
  BY ShapeFacts DEF IInv, Shape
<1>2. handle \in [Sessions -> 0 .. Len(task)] /\ slot \in [Sessions -> 0 .. Len(ask)]
  <2>1. /\ handle \in [Sessions -> Nat] /\ slot \in [Sessions -> Nat]
        /\ \A s \in Sessions : handle[s] <= Len(task) /\ slot[s] <= Len(ask)
    BY <1>1 DEF Shape, Refers
  <2> QED
    BY <1>1, <2>1
<1>3. task \in Seq([kind : TaskKinds, gen : 1 .. Len(home), aborted : BOOLEAN,
                    state : {"running", "waiting", "ended"}, seq : Nat])
  <2> DEFINE R == [kind : TaskKinds, gen : 1 .. Len(home), aborted : BOOLEAN,
                   state : {"running", "waiting", "ended"}, seq : Nat]
  <2>1. \A t \in DOMAIN task : task[t].gen \in 1 .. Len(home)
    BY <1>1 DEF Refers
  <2>2. \A t \in DOMAIN task : task[t] \in R
    BY <1>1, <2>1 DEF Tasks
  <2> HIDE DEF R
  <2>3. task \in Seq(R)
    BY <1>1, <2>2, RetypedSeq
  <2> QED
    BY <2>3 DEF R
<1>4. ask \in Seq([task : 0 .. Len(task), answer : {"none", "accept", "reject", "closed"}])
  <2> DEFINE R == [task : 0 .. Len(task), answer : {"none", "accept", "reject", "closed"}]
  <2>1. \A a \in DOMAIN ask : ask[a].task <= Len(task)
    BY <1>1 DEF Refers
  <2>2. \A a \in DOMAIN ask : ask[a] \in R
    BY <1>1, <2>1 DEF Asks
  <2> HIDE DEF R
  <2>3. ask \in Seq(R)
    BY <1>1, <2>2, RetypedSeq
  <2> QED
    BY <2>3 DEF R
<1>5. chan \in Seq(Seq([type : EventTypes, task : 1 .. Len(task), ask : 0 .. Len(ask)]))
  <2> DEFINE R == [type : EventTypes, task : 1 .. Len(task), ask : 0 .. Len(ask)]
  <2>1. \A g \in DOMAIN chan : \A i \in DOMAIN chan[g] :
          chan[g][i].task \in DOMAIN task /\ chan[g][i].ask <= Len(ask)
    BY <1>1 DEF Refers
  <2>2. \A g \in DOMAIN chan : \A i \in DOMAIN chan[g] : chan[g][i] \in R
    BY <1>1, <2>1 DEF Events
  <2> HIDE DEF R
  <2>3. \A g \in DOMAIN chan : chan[g] \in Seq(R)
    BY <1>1, <2>2, RetypedSeq
  <2>4. chan \in Seq(Seq(R))
    BY <1>1, <2>3, RetypedSeq
  <2> QED
    BY <2>4 DEF R
<1>6. /\ up \in BOOLEAN /\ commands \in 0 .. MaxCommands
      /\ stored \subseteq Sessions /\ listed \subseteq Sessions
      /\ busy \in [Sessions -> BOOLEAN] /\ seq \in [Sessions -> Nat] /\ home \in Seq(Sessions)
  BY <1>1 DEF Shape
<1>7. /\ DOMAIN pending \subseteq DOMAIN ask /\ Range(pending) \subseteq Sessions
      /\ accepted \subseteq DOMAIN ask
  BY <1>1 DEF Refers
<1>8. \/ doing = Idle
      \/ /\ doing.input \in Inputs \cup {"cancel", "drop"} /\ doing.session \in Sessions
         /\ doing.task \in 0 .. Len(task) /\ doing.receipt \in 0 .. Len(task)
  BY <1>1 DEF Handlers
<1>9. /\ active \in Sessions /\ parked \in Seq(Sessions \ {active}) /\ IsInjective(parked)
      /\ up => \A s \in Sessions : Loaded(s) <=> s \in {active} \cup Range(parked)
      /\ \A s \in Sessions : Loaded(s) => gen[s] \in DOMAIN home /\ home[gen[s]] = s
  BY <1>1 DEF Residents
<1> QED
  BY <1>2, <1>3, <1>4, <1>5, <1>6, <1>7, <1>8, <1>9 DEF TypeOK

\* The state has the shape TypeOK says: a session is active, parked or
\* unloaded, and what refers to a runtime, task or approval refers to one.
THEOREM TypeCorrect == Spec => []TypeOK
BY InductiveInvariant, IInvTypes, PTL

\* Nothing runs that the user did not accept under its own approval id
\* (engine.rs resolve_approval).
THEOREM UserConsents == Spec => []Consent
<1>1. IInv => Consent
  BY DEF IInv
<1> QED
  BY <1>1, InductiveInvariant, PTL

\* Every approval a session waits for can be resolved by the client and by the
\* timer (engine.rs handle_routed, clear_session_approvals).
THEOREM RecordsKept == Spec => []SlotHasRecord
<1>1. IInv => SlotHasRecord
  BY DEF IInv
<1> QED
  BY <1>1, InductiveInvariant, PTL

\* A session that refuses requests as busy has a task at work or that task's
\* last event on its way (session.rs handle_event).
THEOREM BusyBacked == Spec => []BusyIsBacked
<1>1. IInv => BusyIsBacked
  <2> SUFFICES ASSUME IInv, NEW s \in Sessions, busy[s]
               PROVE  \/ \E t \in DOMAIN task :
                            task[t].gen = gen[s] /\ Live(t) /\ ~ task[t].aborted
                      \/ \E g \in DOMAIN chan : home[g] = s /\
                            \E i \in DOMAIN chan[g] : chan[g][i].type # "approval"
    BY DEF BusyIsBacked
  <2>1. /\ handle[s] # 0 /\ task[handle[s]].gen = gen[s] /\ ~ task[handle[s]].aborted
        /\ task[handle[s]].state = "ended" => Reports(gen[s])
    BY DEF IInv, Backed
  <2>2. gen[s] \in DOMAIN chan /\ home[gen[s]] = s
    BY LoadedFacts, ShapeFacts DEF IInv
  <2>3. handle[s] \in DOMAIN task
    BY <2>1, ShapeFacts DEF IInv, Refers, Shape
  <2>4. CASE task[handle[s]].state = "ended"
    BY <2>1, <2>2, <2>4 DEF Reports, Asking
  <2>5. CASE task[handle[s]].state # "ended"
    BY <2>1, <2>3, <2>5 DEF Live
  <2> QED
    BY <2>4, <2>5
<1> QED
  BY <1>1, InductiveInvariant, PTL

\* Switching leaves every task and every approval as it is.
LEMMA SwitchStep ==
  ASSUME IInv, Next, active' # active
  PROVE  UNCHANGED <<task, ask>>
<1>1. /\ ~ \E a \in DOMAIN ask, accept \in BOOLEAN : Approve(a, accept)
      /\ ~ \E receipt \in DOMAIN task \cup {0} : Cancel(receipt)
  BY DEF Approve, Cancel, residency
<1>2. ~ SubmitText /\ ~ SubmitShell /\ ~ SubmitCompact /\ ~ SubmitDiff /\ ~ SubmitReload
      /\ ~ DropDeleted /\ ~ FinishCancel
  BY DEF SubmitText, SubmitShell, SubmitCompact, SubmitDiff, SubmitReload, DropDeleted,
         FinishCancel, residency
<1>3. ~ Shutdown /\ (~ \E g \in DOMAIN chan : HandleRouted(g)) /\ ~ \E a \in DOMAIN ask : Expire(a)
  BY DEF Shutdown, HandleRouted, Expire, residency
<1>4. ~ \E t \in DOMAIN task : Agent(t)
  BY DEF Agent, Ask, Resume, Finish, AbortTakesEffect, engineVars, residency
<1>5. up /\ up' = up /\ \E s \in Sessions : Activated(s)
  <2>1. ASSUME NEW s \in Sessions, ActivateSession(s)
        PROVE  up /\ up' = up /\ Activated(s)
    BY <2>1 DEF ActivateSession, Command, Ready
  <2>2. ASSUME NEW s \in Sessions, NEW input \in Inputs, Submit(s, input)
        PROVE  up /\ up' = up /\ Activated(s)
    BY <2>2 DEF Submit, Command, Ready
  <2>3. ASSUME NEW s \in Sessions, NEW input \in Inputs, SubmitNew(s, input)
        PROVE  up /\ up' = up /\ Activated(s)
    BY <2>3 DEF SubmitNew, Created, Command, Ready, residency
  <2>4. ASSUME SubmitCreate
        PROVE  up /\ up' = up /\ \E s \in Sessions : Activated(s)
    BY <2>4, SecondFacts DEF SubmitCreate, Second, Created, residency
  <2>5. ASSUME SubmitDelete
        PROVE  up /\ up' = up /\ \E s \in Sessions : Activated(s)
    BY <2>5, SecondFacts DEF SubmitDelete, residency
  <2> QED
    BY <1>1, <1>2, <1>3, <1>4, <2>1, <2>2, <2>3, <2>4, <2>5 DEF Next, Client, Proceed
<1> QED
  BY <1>5, ActivatedFacts

\* Switching sessions never aborts a task and never answers an approval
\* (runtime.rs activate_session).
THEOREM SwitchQuiet == Spec => SwitchNeverInterrupts
<1>1. IInv /\ [Next]_vars =>
        [active' # active =>
           /\ \A t \in DOMAIN task : task'[t].aborted = task[t].aborted
           /\ \A a \in DOMAIN ask : ask'[a].answer = ask[a].answer]_vars
  BY SwitchStep
<1> QED
  BY <1>1, InductiveInvariant, PTL DEF Spec, SwitchNeverInterrupts

=============================================================================
