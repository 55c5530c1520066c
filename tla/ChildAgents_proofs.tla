-------------------------- MODULE ChildAgents_proofs --------------------------
(***************************************************************************)
(* Proofs about ChildAgents, for any children, rounds, profiles, channel   *)
(* capacity, budget and turn limit: a child's stored status and transcript *)
(* agree with what became of it, an end is final, no question waited on is *)
(* displaced, and what is shown of an ended child is what is stored,       *)
(* wherever processes die and start, here and in other workspaces.         *)
(***************************************************************************)
EXTENDS ChildAgents, FiniteSetTheorems, SequenceTheorems, TLAPS

-----------------------------------------------------------------------------
(* Shapes *)

USE DEF appVars, startVars

Says == Terminal \cup {"queued", "active", "approval"}
Events == [child : Children, says : Says]
Statuses == Terminal \cup {"none", "running"}
LastRows == Terminal \cup {"none", "prompt", "call", "output", "partial", "heard"}
Futures == [at : Places, limit : 0 .. MaxTurns, budget : 0 .. Budget,
            call : Tools \cup {"none"}, ending : Terminal \cup {"none"},
            reply : {"none", "yes", "no", "lost"}]

Shape ==
  /\ profile \in Profiles
  /\ round \in [Rounds -> {"new", "going", "aborting", "over"}]
  /\ child \in [Children -> Futures]
  /\ lock \in Children \cup {NoChild}
  /\ stored \in [Children -> Statuses] /\ last \in [Children -> LastRows]
  /\ shown \in [Children -> Terminal \cup {"none", "queued", "active"}]
  /\ chan \in [Sessions -> Seq(Events)]
  /\ \A s \in Sessions : Len(chan[s]) <= Capacity
  /\ late \subseteq Children /\ slot \in [Sessions -> Children \cup {NoChild}]
  /\ up \in BOOLEAN /\ disturbed \subseteq Children
  /\ start \in [by : {"none", "own", "other"}, marked : BOOLEAN, ids : SUBSET Children]

\* The row la says what the status st says, if there was room for it.
Tells(st, la) == la = st \/ (la = "heard" /\ st \in {"failed", "timed_out"})

\* What the future k of the child c, its status st and its last row la have to
\* do with each other: from where it is its status follows, except that an end
\* may also have been written by the guard or by a process that started.
Agree(c, k, st, la) ==
  /\ k.at \in {"none", "called"} => st = "none"
  /\ up /\ st = "running" => k.at \notin {"none", "called", "settled", "ended"}
  /\ k.at \notin {"none", "called", "settled", "ended"} =>
       st = "running" \/ (c \in disturbed /\ st = "failed")
  /\ k.at \in {"closing", "full", "written", "settled"} => k.ending \in Terminal
  /\ k.at = "full" => k.ending \in {"failed", "timed_out"}
  /\ k.at \in {"written", "settled"} /\ c \notin disturbed => Tells(k.ending, la)
  /\ k.at = "settled" => st = k.ending
  /\ k.at = "ended" /\ st \in Terminal \ {"cancelled"} /\ c \notin disturbed \cup Unexplained =>
       Tells(st, la)

\* A terminal event is only sent of a child that ended so.
EventTrue(event, s) ==
  /\ Home(event.child) = s
  /\ event.says \in Terminal =>
       At(event.child, "ended") /\ stored[event.child] = event.says

\* A process of this workspace starts when none runs, and finds no child running
\* when it has marked them.
OwnStart == start.by = "own" => ~ up /\ (start.marked => Running = {})

EventsTrue == \A s \in Sessions : \A n \in 1 .. Len(chan[s]) : EventTrue(chan[s][n], s)

IInv ==
  /\ Shape
  /\ \A r \in Rounds : round[r] = "new" => \A c \in Of(r) : At(c, "none")
  /\ \A c \in Children : Agree(c, child[c], stored[c], last[c])
  /\ ~ up => \A c \in Children : child[c].at \in {"none", "ended"}
  /\ OwnStart
  /\ EventsTrue
  /\ \A c \in late : At(c, "ended") /\ stored[c] = "cancelled"

-----------------------------------------------------------------------------
(* Futures, sessions and channels *)

LEMMA ConstantFacts ==
  /\ MaxTurns \in Nat \ {0} /\ Budget \in Nat \ {0} /\ Capacity \in Nat \ {0}
  /\ IsFiniteSet(Children) /\ NoChild \notin Children
  /\ \A c \in Children : RoundOf[c] \in Rounds
BY ChildAssumption

\* A round's session, and a child's.
LEMMA HomeFacts ==
  ASSUME profile \in Profiles
  PROVE  /\ \A r \in Rounds : profile.home[r] \in Sessions
         /\ \A c \in Children : Home(c) \in Sessions
BY ConstantFacts DEF Sessions, Home

LEMMA FreshFacts ==
  ASSUME NEW place \in Places
  PROVE  /\ Fresh(place) \in Futures
         /\ Fresh(place).at = place
BY ConstantFacts DEF Fresh, Futures, Tools, Terminal

\* A reply changes nothing else of a future.
LEMMA RepliedFacts ==
  ASSUME child \in [Children -> Futures], NEW d \in Children \cup {NoChild},
         NEW answer \in {"none", "yes", "no", "lost"}
  PROVE  /\ Replied(d, answer) \in [Children -> Futures]
         /\ \A c \in Children : /\ Replied(d, answer)[c].at = child[c].at
                                /\ Replied(d, answer)[c].ending = child[c].ending
         /\ \A c \in Children \ {d} : Replied(d, answer)[c] = child[c]
         /\ \A c \in Children : child[c].at # "asked" => Replied(d, answer)[c] = child[c]
         /\ \A c \in Children : child[c].at = "asked" /\ c = d =>
              Replied(d, answer)[c].reply = answer
<1>1. CASE d # NoChild /\ At(d, "asked")
  <2>1. Replied(d, answer) = [child EXCEPT ![d] = [child[d] EXCEPT !.reply = answer]]
    BY <1>1 DEF Replied
  <2>2. d \in Children /\ child[d] \in Futures /\ child[d].at = "asked"
    BY <1>1 DEF At
  <2>3. /\ [child[d] EXCEPT !.reply = answer] \in Futures
        /\ [child[d] EXCEPT !.reply = answer].at = child[d].at
        /\ [child[d] EXCEPT !.reply = answer].ending = child[d].ending
        /\ [child[d] EXCEPT !.reply = answer].reply = answer
    BY <2>2 DEF Futures
  <2> QED
    BY <2>1, <2>2, <2>3
<1>2. CASE ~ (d # NoChild /\ At(d, "asked"))
  <2>1. Replied(d, answer) = child
    BY <1>2 DEF Replied
  <2> QED
    BY <1>2, <2>1, ConstantFacts DEF At
<1> QED
  BY <1>1, <1>2

\* Sending adds one event at the end of the child's channel.
LEMMA EmitFacts ==
  ASSUME Shape, NEW c \in Children, NEW says \in Says, Emit(c, says)
  PROVE  /\ chan' \in [Sessions -> Seq(Events)]
         /\ \A s \in Sessions : Len(chan'[s]) <= Capacity
         /\ Len(chan'[Home(c)]) = Len(chan[Home(c)]) + 1
         /\ chan'[Home(c)][Len(chan[Home(c)]) + 1] = [child |-> c, says |-> says]
         /\ \A n \in 1 .. Len(chan[Home(c)]) : chan'[Home(c)][n] = chan[Home(c)][n]
         /\ \A s \in Sessions \ {Home(c)} : chan'[s] = chan[s]
<1> DEFINE h == Home(c)
           event == [child |-> c, says |-> says]
<1>1. h \in Sessions /\ chan \in [Sessions -> Seq(Events)] /\ event \in Events
  BY HomeFacts DEF Shape, Events
<1>2. chan' = [chan EXCEPT ![h] = Append(chan[h], event)] /\ Len(chan[h]) < Capacity
  BY DEF Emit
<1>3. /\ Append(chan[h], event) \in Seq(Events)
      /\ Len(Append(chan[h], event)) = Len(chan[h]) + 1
      /\ Append(chan[h], event)[Len(chan[h]) + 1] = event
      /\ \A n \in 1 .. Len(chan[h]) : Append(chan[h], event)[n] = chan[h][n]
      /\ Len(chan[h]) \in Nat
  BY <1>1, AppendProperties, LenProperties
<1> HIDE DEF h, event
<1>4. /\ chan' \in [Sessions -> Seq(Events)] /\ chan'[h] = Append(chan[h], event)
      /\ \A s \in Sessions \ {h} : chan'[s] = chan[s]
  BY <1>1, <1>2, <1>3
<1>5. \A s \in Sessions : Len(chan'[s]) <= Capacity
  BY <1>2, <1>3, <1>4, ConstantFacts DEF Shape
<1> QED
  BY <1>3, <1>4, <1>5 DEF h, event

\* Handling takes the first event away.
LEMMA TailFacts ==
  ASSUME Shape, NEW s \in Sessions, chan[s] # << >>, chan' = [chan EXCEPT ![s] = Tail(@)]
  PROVE  /\ chan' \in [Sessions -> Seq(Events)]
         /\ \A x \in Sessions : Len(chan'[x]) <= Capacity
         /\ Head(chan[s]) \in Events /\ Head(chan[s]) = chan[s][1]
         /\ Len(chan[s]) \in Nat \ {0} /\ Len(chan'[s]) = Len(chan[s]) - 1
         /\ \A n \in 1 .. Len(chan'[s]) : chan'[s][n] = chan[s][n + 1]
         /\ \A x \in Sessions \ {s} : chan'[x] = chan[x]
<1>1. chan \in [Sessions -> Seq(Events)] /\ chan[s] \in Seq(Events)
  BY DEF Shape
<1>2. /\ Head(chan[s]) \in Events /\ Head(chan[s]) = chan[s][1]
      /\ Len(chan[s]) \in Nat \ {0}
      /\ Tail(chan[s]) \in Seq(Events) /\ Len(Tail(chan[s])) = Len(chan[s]) - 1
      /\ \A n \in 1 .. Len(chan[s]) - 1 : Tail(chan[s])[n] = chan[s][n + 1]
  BY <1>1, HeadTailProperties, EmptySeq
<1>3. chan'[s] = Tail(chan[s]) /\ \A x \in Sessions \ {s} : chan'[x] = chan[x]
  BY <1>1
<1>4. chan' \in [Sessions -> Seq(Events)]
  BY <1>1, <1>2
<1>5. \A x \in Sessions : Len(chan'[x]) <= Capacity
  BY <1>2, <1>3, ConstantFacts DEF Shape
<1> QED
  BY <1>2, <1>3, <1>4, <1>5

-----------------------------------------------------------------------------
(* Steps of one child *)

\* A live child that was marked as failed stores its own end.
Remarked(c, st) ==
  c \in disturbed /\ Unsettled(c) /\ stored[c] = "failed" /\ st = child[c].ending

\* The child c goes from one await to the next: to the future k, the status st
\* and the last row la, with at most one event.
Local(c, k, st, la) ==
  /\ child[c].at \notin {"none", "ended"}
  /\ child' = [child EXCEPT ![c] = k]
  /\ stored' = [stored EXCEPT ![c] = st]
  /\ last' = [last EXCEPT ![c] = la]
  /\ k \in Futures /\ st \in Statuses /\ la \in LastRows
  /\ lock' \in Children \cup {NoChild}
  /\ Agree(c, k, st, la)
  /\ stored[c] \in Terminal => st = stored[c] \/ Remarked(c, st)
  /\ \/ chan' = chan
     \/ \E says \in Says : Emit(c, says) /\ (says \in Terminal => k.at = "ended" /\ st = says)
  /\ UNCHANGED <<profile, round, late, slot, shown, up, start, disturbed>>

\* Nothing else decides whether a child, its status and its last row agree.
LEMMA AgreeStays ==
  ASSUME UNCHANGED <<up, start, disturbed>>,
         \A c \in Children : Agree(c, child'[c], stored'[c], last'[c])
  PROVE  (\A c \in Children : Agree(c, child[c], stored[c], last[c]))'
BY DEF Agree, Unexplained

LEMMA OwnStays ==
  ASSUME OwnStart, UNCHANGED <<up, start>>,
         up \/ \A c \in Children : stored'[c] = "running" => stored[c] = "running"
  PROVE  OwnStart'
BY DEF OwnStart, Running

LEMMA LocalIInv ==
  ASSUME IInv, NEW c \in Children, NEW k, NEW st, NEW la, Local(c, k, st, la)
  PROVE  IInv'
<1>1. /\ Shape /\ child \in [Children -> Futures] /\ stored \in [Children -> Statuses]
      /\ last \in [Children -> LastRows] /\ chan \in [Sessions -> Seq(Events)]
      /\ \A s \in Sessions : Len(chan[s]) \in Nat
  BY LenProperties DEF IInv, Shape
<1>2. /\ child'[c] = k /\ stored'[c] = st /\ last'[c] = la
      /\ \A d \in Children \ {c} :
           child'[d] = child[d] /\ stored'[d] = stored[d] /\ last'[d] = last[d]
      /\ UNCHANGED <<profile, round, late, slot, shown, up, start, disturbed>>
  BY <1>1 DEF Local
<1>3. Shape'
  <2>1. /\ child' \in [Children -> Futures] /\ stored' \in [Children -> Statuses]
        /\ last' \in [Children -> LastRows]
    BY <1>1 DEF Local
  <2>2. chan' \in [Sessions -> Seq(Events)] /\ \A s \in Sessions : Len(chan'[s]) <= Capacity
    <3>1. CASE chan' = chan
      BY <1>1, <3>1 DEF Shape
    <3>2. CASE \E says \in Says : Emit(c, says)
      BY <1>1, <3>2, EmitFacts
    <3> QED
      BY <3>1, <3>2 DEF Local
  <2> QED
    BY <1>1, <2>1, <2>2 DEF Shape, Local
<1>4. ASSUME NEW r \in Rounds, round'[r] = "new", NEW d \in Of(r)
      PROVE  At(d, "none")'
  <2>1. At(d, "none") /\ d \in Children
    BY <1>2, <1>4 DEF IInv, Of
  <2> QED
    BY <1>2, <2>1 DEF Local, At
<1>5. /\ \A d \in Children : Agree(d, child'[d], stored'[d], last'[d])
      /\ up
  BY <1>2 DEF IInv, Local
<1>6. EventsTrue'
  <2>1. ASSUME NEW s, NEW event \in Events, EventTrue(event, s)
        PROVE  EventTrue(event, s)'
    BY <1>2, <2>1 DEF Local, At, Events, EventTrue, Home
  <2>2. ASSUME NEW s \in Sessions, NEW n \in 1 .. Len(chan[s]), NEW event, event = chan[s][n]
        PROVE  EventTrue(event, s)'
    <3>1. event \in Events
      BY <1>1, <2>2, ElementOfSeq
    <3> QED
      BY <2>1, <2>2, <3>1 DEF IInv, EventsTrue
  <2>3. CASE chan' = chan
    BY <2>2, <2>3 DEF EventsTrue, EventTrue, At, Home
  <2>4. ASSUME NEW says \in Says, Emit(c, says),
               says \in Terminal => k.at = "ended" /\ st = says
        PROVE  EventsTrue'
    <3>1. /\ Len(chan'[Home(c)]) = Len(chan[Home(c)]) + 1
          /\ chan'[Home(c)][Len(chan[Home(c)]) + 1] = [child |-> c, says |-> says]
          /\ \A n \in 1 .. Len(chan[Home(c)]) : chan'[Home(c)][n] = chan[Home(c)][n]
          /\ \A s \in Sessions \ {Home(c)} : chan'[s] = chan[s]
      BY <1>1, <2>4, EmitFacts
    <3>2. ASSUME NEW event, event = [child |-> c, says |-> says]
          PROVE  EventTrue(event, Home(c))'
      BY <1>2, <2>4, <3>2 DEF EventTrue, At, Home
    <3>3. ASSUME NEW s \in Sessions, NEW n \in 1 .. Len(chan'[s]),
                 NEW event, event = chan'[s][n]
          PROVE  EventTrue(event, s)'
      <4>1. CASE s = Home(c) /\ n = Len(chan[s]) + 1
        BY <1>2, <3>1, <3>2, <3>3, <4>1 DEF Home, EventTrue
      <4>2. CASE n \in 1 .. Len(chan[s]) /\ chan'[s][n] = chan[s][n]
        BY <2>2, <3>3, <4>2
      <4> QED
        BY <1>1, <3>1, <3>3, <4>1, <4>2
    <3> QED
      BY <3>3 DEF EventsTrue, EventTrue, At, Home
  <2> QED
    BY <2>3, <2>4 DEF Local
<1>7. \A d \in late' : At(d, "ended")' /\ stored'[d] = "cancelled"
  <2>1. \A d \in late : d # c /\ d \in Children
    BY <1>1 DEF IInv, Shape, Local, At
  <2> QED
    BY <1>2, <2>1 DEF IInv, At
<1> QED
  BY <1>2, <1>3, <1>4, <1>5, <1>6, <1>7, AgreeStays, OwnStays DEF IInv

\* A field or two of a future change.
LEMMA GotoFacts ==
  ASSUME child \in [Children -> Futures], NEW c \in Children, NEW place \in Places,
         Goto(c, place)
  PROVE  /\ child' = [child EXCEPT ![c] = child'[c]] /\ child'[c] \in Futures
         /\ child'[c] = [child[c] EXCEPT !.at = place]
         /\ child'[c].at = place /\ child'[c].ending = child[c].ending
<1>1. /\ [child[c] EXCEPT !.at = place] \in Futures
      /\ [child[c] EXCEPT !.at = place].at = place
      /\ [child[c] EXCEPT !.at = place].ending = child[c].ending
  BY DEF Futures
<1>2. /\ child' = [child EXCEPT ![c] = child'[c]]
      /\ child'[c] = [child[c] EXCEPT !.at = place]
  BY DEF Goto
<1> QED
  BY <1>1, <1>2

LEMMA CloseFacts ==
  ASSUME child \in [Children -> Futures], NEW c \in Children, NEW status \in Terminal,
         Close(c, status)
  PROVE  /\ child' = [child EXCEPT ![c] = child'[c]] /\ child'[c] \in Futures
         /\ child'[c].at = "closing" /\ child'[c].ending = status
<1>1. /\ [child[c] EXCEPT !.at = "closing", !.ending = status] \in Futures
      /\ [child[c] EXCEPT !.at = "closing", !.ending = status].at = "closing"
      /\ [child[c] EXCEPT !.at = "closing", !.ending = status].ending = status
  BY DEF Futures, Places
<1>2. /\ child' = [child EXCEPT ![c] = child'[c]]
      /\ child'[c] = [child[c] EXCEPT !.at = "closing", !.ending = status]
  BY DEF Close
<1> QED
  BY <1>1, <1>2

\* The same with an answer that leaves no room.
LEMMA StreamFailsFacts ==
  ASSUME child \in [Children -> Futures], NEW c \in Children, StreamFails(c)
  PROVE  /\ child' = [child EXCEPT ![c] = child'[c]] /\ child'[c] \in Futures
         /\ child'[c].at \in {"closing", "full"} /\ child'[c].ending \in {"timed_out", "failed"}
         /\ child'[c].reply = child[c].reply
<1>1. PICK status \in {"timed_out", "failed"}, place \in {"closing", "full"} :
        child' = [child EXCEPT ![c] = [child[c] EXCEPT !.at = place, !.ending = status]]
  BY DEF StreamFails
<1>2. /\ [child[c] EXCEPT !.at = place, !.ending = status] \in Futures
      /\ [child[c] EXCEPT !.at = place, !.ending = status].at = place
      /\ [child[c] EXCEPT !.at = place, !.ending = status].ending = status
      /\ [child[c] EXCEPT !.at = place, !.ending = status].reply = child[c].reply
  BY DEF Futures, Places, Terminal
<1> QED
  BY <1>1, <1>2

\* A child that runs goes on running: its status stays.
LEMMA RunningMove ==
  ASSUME IInv, NEW c \in Children,
         child[c].at \notin {"none", "called", "settled", "ended"},
         child' = [child EXCEPT ![c] = child'[c]],
         child'[c] \in Futures,
         child'[c].at \notin {"none", "called", "written", "settled", "ended"},
         child'[c].at \in {"closing", "full"} => child'[c].ending \in Terminal,
         child'[c].at = "full" => child'[c].ending \in {"failed", "timed_out"},
         UNCHANGED <<profile, round, stored, late, slot, shown, up, start, disturbed>>,
         last' = last \/ \E row \in LastRows : Row(c, row),
         lock' \in Children \cup {NoChild},
         chan' = chan \/ \E says \in Says \ Terminal : Emit(c, says)
  PROVE  Local(c, child'[c], stored'[c], last'[c])
<1>1. /\ stored \in [Children -> Statuses] /\ last \in [Children -> LastRows]
      /\ Agree(c, child[c], stored[c], last[c])
  BY DEF IInv, Shape
<1>2. /\ last' = [last EXCEPT ![c] = last'[c]] /\ last'[c] \in LastRows
      /\ stored' = [stored EXCEPT ![c] = stored'[c]] /\ stored'[c] = stored[c]
  BY <1>1 DEF Row
<1>3. stored[c] = "running" \/ (c \in disturbed /\ stored[c] = "failed")
  BY <1>1 DEF Agree
<1>4. Agree(c, child'[c], stored'[c], last'[c])
  BY <1>2, <1>3 DEF Agree
<1> QED
  BY <1>1, <1>2, <1>3, <1>4 DEF Local, Terminal

\* Every step of a child is a local one.
LEMMA ChildStepIsLocal ==
  ASSUME IInv, NEW c \in Children, ChildStep(c)
  PROVE  Local(c, child'[c], stored'[c], last'[c])
<1>1. /\ child \in [Children -> Futures] /\ stored \in [Children -> Statuses]
      /\ last \in [Children -> LastRows] /\ lock \in Children \cup {NoChild}
      /\ child[c] \in Futures /\ stored[c] \in Statuses /\ last[c] \in LastRows
      /\ Agree(c, child[c], stored[c], last[c])
  BY DEF IInv, Shape
<1>2. \A row : Row(c, row) => last' = [last EXCEPT ![c] = row] /\ last'[c] = row
  BY <1>1 DEF Row
<1>3. /\ last' = last => last' = [last EXCEPT ![c] = last'[c]] /\ last'[c] = last[c]
      /\ stored' = stored => stored' = [stored EXCEPT ![c] = stored'[c]] /\ stored'[c] = stored[c]
  BY <1>1
<1>4. {"output", "call", "prompt"} \subseteq LastRows /\ {"queued", "active", "approval"} \subseteq Says \ Terminal
  BY DEF LastRows, Says, Terminal
<1>5. CASE CallFails(c)
  <2>1. Fresh("ended") \in Futures /\ Fresh("ended").at = "ended"
    BY FreshFacts DEF Places
  <2>2. child' = [child EXCEPT ![c] = child'[c]] /\ child'[c] = Fresh("ended")
    BY <1>1, <1>5 DEF CallFails
  <2>3. child[c].at = "called" /\ UNCHANGED <<profile, round, lock, stored, last, chan, late, slot, shown, up, start, disturbed>>
    BY <1>5 DEF CallFails, At
  <2>4. Agree(c, child'[c], stored'[c], last'[c])
    BY <1>1, <1>3, <2>1, <2>2, <2>3 DEF Agree, Terminal
  <2> QED
    BY <1>1, <1>3, <2>1, <2>2, <2>3, <2>4 DEF Local
<1>6. CASE Create(c)
  <2>1. child'[c].at = "created" /\ child'[c] \in Futures /\ child' = [child EXCEPT ![c] = child'[c]]
    <3>1. "created" \in Places
      BY DEF Places
    <3> QED
      BY <1>1, <1>6, <3>1, GotoFacts DEF Create
  <2>2. /\ child[c].at = "called" /\ stored' = [stored EXCEPT ![c] = "running"]
        /\ UNCHANGED <<profile, round, lock, chan, late, slot, shown, up, start, disturbed>>
    BY <1>6 DEF Create, At
  <2>3. stored' = [stored EXCEPT ![c] = stored'[c]] /\ stored'[c] = "running"
    BY <1>1, <2>2
  <2>4. last' = [last EXCEPT ![c] = last'[c]] /\ last'[c] \in LastRows
    BY <1>2, <1>4, <1>6 DEF Create
  <2>5. Agree(c, child'[c], stored'[c], last'[c])
    BY <2>1, <2>3 DEF Agree, Terminal
  <2>6. stored[c] = "none" /\ "running" \in Statuses /\ "none" \notin Terminal
    BY <1>1, <2>2 DEF Agree, Statuses, Terminal
  <2> QED
    BY <1>1, <2>1, <2>2, <2>3, <2>4, <2>5, <2>6 DEF Local
<1>7. ASSUME NEW place \in Places \ {"none", "called", "closing", "full", "written", "settled", "ended"},
             Goto(c, place)
      PROVE  /\ child' = [child EXCEPT ![c] = child'[c]] /\ child'[c] \in Futures
             /\ child'[c].at \notin {"none", "called", "closing", "full", "written", "settled", "ended"}
  BY <1>1, <1>7, GotoFacts
<1>8. ASSUME NEW status \in Terminal, Close(c, status)
      PROVE  /\ child' = [child EXCEPT ![c] = child'[c]] /\ child'[c] \in Futures
             /\ child'[c].at = "closing" /\ child'[c].ending \in Terminal
  BY <1>1, <1>8, CloseFacts
<1>9. /\ {"queued", "turn", "tool", "lock", "locked"}
           \subseteq Places \ {"none", "called", "closing", "full", "written", "settled", "ended"}
      /\ {"turn_limit", "timed_out", "failed", "completed"} \subseteq Terminal
  BY DEF Places, Terminal
<1>10. CASE Announce(c)
  BY <1>1, <1>4, <1>7, <1>9, <1>10, RunningMove DEF Announce, At
<1>11. CASE TakePlace(c)
  BY <1>1, <1>7, <1>9, <1>11, RunningMove DEF TakePlace, At
<1>12. CASE BeginTurn(c)
  <2>1. /\ child[c].at = "turn" /\ UNCHANGED <<profile, round, lock, stored, last, late, slot, shown, up, start, disturbed>>
        /\ chan' = chan \/ \E says \in Says \ Terminal : Emit(c, says)
    BY <1>4, <1>12 DEF BeginTurn, At
  <2>2. CASE \E status \in Terminal : Close(c, status)
    BY <1>1, <1>8, <2>1, <2>2, RunningMove
  <2>3. CASE /\ ~ OutOfTurns(c)
             /\ child' = [child EXCEPT ![c].at = "streaming",
                                       ![c].limit = IF Has("limited") THEN @ - 1 ELSE @]
    <3> DEFINE left == IF Has("limited") THEN child[c].limit - 1 ELSE child[c].limit
               k == [child[c] EXCEPT !.at = "streaming", !.limit = left]
    <3>1. left \in 0 .. MaxTurns
      BY <1>1, <2>3, ConstantFacts DEF OutOfTurns, Futures
    <3>2. child' = [child EXCEPT ![c] = k]
      BY <1>1, <2>3
    <3> HIDE DEF left
    <3>3. k \in Futures /\ k.at = "streaming"
      BY <1>1, <3>1 DEF Futures, Places
    <3> HIDE DEF k
    <3>4. child' = [child EXCEPT ![c] = child'[c]] /\ child'[c] = k
      BY <1>1, <3>2
    <3> QED
      BY <1>1, <2>1, <3>3, <3>4, RunningMove
  <2> QED
    BY <1>9, <1>12, <2>2, <2>3 DEF BeginTurn
<1>13. CASE Answered(c)
  <2>1. /\ child[c].at = "streaming"
        /\ UNCHANGED <<profile, round, lock, stored, chan, late, slot, shown, up, start, disturbed>>
    BY <1>13 DEF Answered, At
  <2>2. CASE Close(c, "completed") /\ UNCHANGED last
    BY <1>1, <1>8, <1>9, <2>1, <2>2, RunningMove
  <2>3. ASSUME NEW call \in Tools \cap profile.with, NEW time \in 1 .. child[c].budget,
               child' = [child EXCEPT ![c].at = "calls", ![c].call = call,
                                      ![c].budget = Left(c, time)],
               Row(c, "call")
        PROVE  Local(c, child'[c], stored'[c], last'[c])
    <3> DEFINE k == [child[c] EXCEPT !.at = "calls", !.call = call, !.budget = Left(c, time)]
    <3>1. Left(c, time) \in 0 .. Budget
      BY <1>1, ConstantFacts DEF Left, Futures
    <3>2. child' = [child EXCEPT ![c] = k]
      BY <1>1, <2>3
    <3>3. k \in Futures /\ k.at = "calls"
      BY <1>1, <3>1 DEF Futures, Places
    <3> HIDE DEF k
    <3>4. child' = [child EXCEPT ![c] = child'[c]] /\ child'[c] = k
      BY <1>1, <3>2
    <3> QED
      BY <1>1, <1>4, <2>1, <2>3, <3>3, <3>4, RunningMove
  <2> QED
    BY <1>13, <2>2, <2>3 DEF Answered
<1>14. CASE StreamFails(c)
  <2>1. /\ child' = [child EXCEPT ![c] = child'[c]] /\ child'[c] \in Futures
        /\ child'[c].at \in {"closing", "full"} /\ child'[c].ending \in {"timed_out", "failed"}
    BY <1>1, <1>14, StreamFailsFacts
  <2> QED
    BY <1>1, <1>9, <1>14, <2>1, RunningMove DEF StreamFails, At
<1>15. Output(c) => /\ \E row \in LastRows : Row(c, row)
                    /\ lock' \in Children \cup {NoChild}
  BY <1>1, <1>4 DEF Output
<1>16. CASE Consider(c)
  BY <1>1, <1>7, <1>9, <1>15, <1>16, RunningMove DEF Consider, At
<1>17. CASE Lock(c)
  BY <1>1, <1>7, <1>9, <1>17, RunningMove DEF Lock, At
<1>18. CASE Ask(c)
  <2> DEFINE k == [child[c] EXCEPT !.at = "asked", !.reply = "none"]
  <2>1. child' = [child EXCEPT ![c] = k]
    BY <1>1, <1>18 DEF Ask
  <2>2. k \in Futures /\ k.at = "asked"
    BY <1>1 DEF Futures, Places
  <2> HIDE DEF k
  <2>3. child' = [child EXCEPT ![c] = child'[c]] /\ child'[c] = k
    BY <1>1, <2>1
  <2> QED
    BY <1>1, <1>4, <1>18, <2>2, <2>3, RunningMove DEF Ask, At
<1>19. CASE Resume(c)
  BY <1>1, <1>7, <1>9, <1>15, <1>19, RunningMove DEF Resume, At
<1>20. CASE FinishTool(c)
  BY <1>1, <1>7, <1>8, <1>9, <1>15, <1>20, RunningMove DEF FinishTool, At
<1>21. CASE WriteAnswer(c)
  <2>1. child'[c].at = "written" /\ child'[c] \in Futures
        /\ child'[c].ending = child[c].ending /\ child' = [child EXCEPT ![c] = child'[c]]
    <3>1. "written" \in Places
      BY DEF Places
    <3> QED
      BY <1>1, <1>21, <3>1, GotoFacts DEF WriteAnswer
  <2>2. /\ child[c].at \in {"closing", "full"}
        /\ Row(c, IF child[c].at = "closing" THEN child[c].ending ELSE "heard")
        /\ UNCHANGED <<profile, round, lock, stored, chan, late, slot, shown, up, start, disturbed>>
    BY <1>21 DEF WriteAnswer, At
  <2>3. /\ child[c].ending \in Terminal
        /\ stored[c] = "running" \/ (c \in disturbed /\ stored[c] = "failed")
        /\ child[c].at = "full" => child[c].ending \in {"failed", "timed_out"}
    BY <1>1, <2>2 DEF Agree
  <2>4. /\ last' = [last EXCEPT ![c] = last'[c]] /\ Tells(child[c].ending, last'[c])
        /\ last'[c] \in LastRows
    BY <1>2, <2>2, <2>3 DEF LastRows, Tells
  <2>5. Agree(c, child'[c], stored'[c], last'[c])
    BY <1>3, <2>1, <2>2, <2>3, <2>4 DEF Agree
  <2> QED
    BY <1>1, <1>3, <2>1, <2>2, <2>3, <2>4, <2>5 DEF Local
<1>22. CASE Settle(c)
  <2>1. child'[c].at = "settled" /\ child'[c] \in Futures
        /\ child'[c].ending = child[c].ending /\ child' = [child EXCEPT ![c] = child'[c]]
    <3>1. "settled" \in Places
      BY DEF Places
    <3> QED
      BY <1>1, <1>22, <3>1, GotoFacts DEF Settle
  <2>2. /\ child[c].at = "written" /\ stored' = [stored EXCEPT ![c] = child[c].ending]
        /\ UNCHANGED <<profile, round, lock, last, chan, late, slot, shown, up, start, disturbed>>
    BY <1>22 DEF Settle, At
  <2>3. /\ child[c].ending \in Terminal
        /\ c \notin disturbed => Tells(child[c].ending, last[c])
        /\ stored[c] = "running" \/ (c \in disturbed /\ stored[c] = "failed")
    BY <1>1, <2>2 DEF Agree
  <2>4. /\ stored' = [stored EXCEPT ![c] = stored'[c]] /\ stored'[c] = child[c].ending
        /\ stored'[c] \in Statuses
    BY <1>1, <2>2, <2>3 DEF Statuses
  <2>5. Agree(c, child'[c], stored'[c], last'[c])
    <3>1. child[c].ending # "running"
      BY <2>3 DEF Terminal
    <3> QED
      BY <1>3, <2>1, <2>2, <2>3, <2>4, <3>1 DEF Agree
  <2>6. stored[c] \in Terminal => Remarked(c, stored'[c])
    BY <2>2, <2>3, <2>4 DEF Remarked, Unsettled, Guarded, At, Terminal
  <2> QED
    BY <1>1, <1>3, <2>1, <2>2, <2>3, <2>4, <2>5, <2>6 DEF Local
<1>23. CASE End(c)
  <2>1. Fresh("ended") \in Futures /\ Fresh("ended").at = "ended"
    BY FreshFacts DEF Places
  <2>2. child' = [child EXCEPT ![c] = child'[c]] /\ child'[c] = Fresh("ended")
    BY <1>1, <1>23 DEF End
  <2>3. /\ child[c].at = "settled" /\ Emit(c, child[c].ending)
        /\ UNCHANGED <<profile, round, lock, stored, last, late, slot, shown, up, start, disturbed>>
    BY <1>23 DEF End, At
  <2>4. /\ child[c].ending \in Terminal /\ child[c].ending \in Says
        /\ stored[c] = child[c].ending
        /\ c \notin disturbed => Tells(child[c].ending, last[c])
    BY <1>1, <2>3 DEF Agree, Says
  <2>5. Agree(c, child'[c], stored'[c], last'[c])
    BY <1>3, <2>1, <2>2, <2>3, <2>4 DEF Agree, Terminal
  <2> QED
    BY <1>1, <1>3, <2>1, <2>2, <2>3, <2>4, <2>5 DEF Local
<1> QED
  BY <1>5, <1>6, <1>10, <1>11, <1>12, <1>13, <1>14, <1>16, <1>17, <1>18, <1>19, <1>20, <1>21,
     <1>22, <1>23 DEF ChildStep

-----------------------------------------------------------------------------
(* The other steps *)

\* An event on its way stays true while ended children stay as they are.
LEMMA EventStays ==
  ASSUME IInv, UNCHANGED profile,
         \A c \in Children : At(c, "ended") /\ stored[c] \in Terminal =>
           child'[c].at = "ended" /\ stored'[c] = stored[c],
         NEW s \in Sessions, NEW n \in 1 .. Len(chan[s]), NEW event, event = chan[s][n]
  PROVE  event \in Events /\ EventTrue(event, s)'
<1>1. event \in Events
  BY ElementOfSeq DEF IInv, Shape
<1>2. EventTrue(event, s)
  BY DEF IInv, EventsTrue
<1> QED
  BY <1>1, <1>2 DEF EventTrue, Events, At, Home

\* A step that moves no child and sends nothing.
LEMMA QuietIInv ==
  ASSUME IInv, Shape', UNCHANGED <<profile, stored, last, late, up, start, disturbed>>,
         \A c \in Children : child'[c].at = child[c].at /\ child'[c].ending = child[c].ending,
         \A r \in Rounds : round'[r] = "new" => round[r] = "new",
         \A s \in Sessions : \A n \in 1 .. Len(chan'[s]) :
           \E m \in 1 .. Len(chan[s]) : chan'[s][n] = chan[s][m]
  PROVE  IInv'
<1>1. ASSUME NEW s \in Sessions, NEW n \in 1 .. Len(chan'[s]), NEW event, event = chan'[s][n]
      PROVE  EventTrue(event, s)'
  <2>1. PICK m \in 1 .. Len(chan[s]) : event = chan[s][m]
    BY <1>1
  <2> QED
    BY <2>1, EventStays DEF At
<1>2. EventsTrue'
  BY <1>1 DEF EventsTrue, EventTrue, At, Home
<1>3. \A c \in Children : Agree(c, child'[c], stored'[c], last'[c])
  BY DEF IInv, Agree
<1>4. ASSUME NEW r \in Rounds, round'[r] = "new", NEW c \in Of(r)
      PROVE  At(c, "none")'
  BY <1>4 DEF IInv, At, Of
<1>5. \A c \in late' : At(c, "ended")' /\ stored'[c] = "cancelled"
  BY DEF IInv, At, Shape
<1> QED
  BY <1>2, <1>3, <1>4, <1>5, AgreeStays, OwnStays DEF IInv

LEMMA SpawnIInv == \A r \in Rounds : IInv /\ Spawn(r) => IInv'
<1> SUFFICES ASSUME IInv, NEW r \in Rounds, Spawn(r) PROVE IInv'
  OBVIOUS
<1>1. /\ Shape /\ round' = [round EXCEPT ![r] = "going"]
      /\ child' = [c \in Children |-> IF c \in Of(r) THEN Fresh("called") ELSE child[c]]
      /\ UNCHANGED <<profile, lock, stored, last, chan, late, slot, shown, up, start, disturbed>>
      /\ \A c \in Of(r) : At(c, "none")
      /\ up
  BY DEF IInv, Spawn
<1>2. Fresh("called") \in Futures /\ Fresh("called").at = "called"
  BY FreshFacts DEF Places
<1>3. Shape'
  BY <1>1, <1>2 DEF Shape
<1>4. ASSUME NEW q \in Rounds, round'[q] = "new", NEW c \in Of(q)
      PROVE  At(c, "none")'
  BY <1>1, <1>4 DEF IInv, Shape, At, Of
<1>5. ASSUME NEW c \in Children
      PROVE  Agree(c, child'[c], stored'[c], last'[c])
  BY <1>1, <1>2 DEF IInv, Agree, At, Terminal
<1>6. \A c \in Children : At(c, "ended") => child'[c].at = "ended"
  BY <1>1 DEF At
<1>7. ASSUME NEW s \in Sessions, NEW n \in 1 .. Len(chan'[s]), NEW event, event = chan'[s][n]
      PROVE  EventTrue(event, s)'
  BY <1>1, <1>6, <1>7, EventStays
<1>8. EventsTrue'
  BY <1>7 DEF EventsTrue, EventTrue, At, Home
<1>9. \A c \in late' : At(c, "ended")' /\ stored'[c] = "cancelled"
  BY <1>1, <1>6 DEF IInv, At, Shape
<1> QED
  BY <1>1, <1>3, <1>4, <1>5, <1>8, <1>9, AgreeStays, OwnStays DEF IInv

LEMMA CollectIInv == \A r \in Rounds : IInv /\ Collect(r) => IInv'
<1> SUFFICES ASSUME IInv, NEW r \in Rounds, Collect(r) PROVE IInv'
  OBVIOUS
<1>1. /\ round' = [round EXCEPT ![r] = "over"]
      /\ UNCHANGED <<profile, child, lock, stored, last, chan, late, slot, shown, up, start, disturbed>>
  BY DEF Collect
<1>2. Shape' /\ \A q \in Rounds : round'[q] = "new" => round[q] = "new"
  BY <1>1 DEF IInv, Shape
<1> QED
  BY <1>1, <1>2, QuietIInv

LEMMA CancelIInv == \A r \in Rounds : IInv /\ Cancel(r) => IInv'
<1> SUFFICES ASSUME IInv, NEW r \in Rounds, Cancel(r) PROVE IInv'
  OBVIOUS
<1> DEFINE h == profile.home[r]
<1>1. /\ Shape /\ round' = [round EXCEPT ![r] = "aborting"]
      /\ child' = Replied(slot[h], "no") /\ slot' = [slot EXCEPT ![h] = NoChild]
      /\ UNCHANGED <<profile, lock, stored, last, chan, late, shown, up, start, disturbed>>
  BY DEF IInv, Cancel
<1>2. h \in Sessions /\ slot[h] \in Children \cup {NoChild}
  BY <1>1, HomeFacts DEF Shape
<1> HIDE DEF h
<1>3. /\ child' \in [Children -> Futures]
      /\ \A c \in Children : child'[c].at = child[c].at /\ child'[c].ending = child[c].ending
  BY <1>1, <1>2, RepliedFacts DEF Shape
<1>4. Shape' /\ \A q \in Rounds : round'[q] = "new" => round[q] = "new"
  BY <1>1, <1>2, <1>3 DEF Shape
<1> QED
  BY <1>1, <1>3, <1>4, QuietIInv

LEMMA ReplyIInv == \A s \in Sessions : IInv /\ Reply(s) => IInv'
<1> SUFFICES ASSUME IInv, NEW s \in Sessions, Reply(s) PROVE IInv'
  OBVIOUS
<1>1. PICK answer \in {"yes", "no"} : child' = Replied(slot[s], answer)
  BY DEF Reply
<1>2. /\ Shape /\ slot[s] \in Children \cup {NoChild} /\ slot' = [slot EXCEPT ![s] = NoChild]
      /\ UNCHANGED <<profile, round, lock, stored, last, chan, late, shown, up, start, disturbed>>
  BY DEF IInv, Shape, Reply
<1>3. /\ child' \in [Children -> Futures]
      /\ \A c \in Children : child'[c].at = child[c].at /\ child'[c].ending = child[c].ending
  BY <1>1, <1>2, RepliedFacts DEF Shape
<1>4. Shape'
  BY <1>2, <1>3 DEF Shape
<1> QED
  BY <1>2, <1>3, <1>4, QuietIInv

\* What is stored for an end is what the child stored itself.
LEMMA HandleIInv ==
  ASSUME IInv, NEW s \in Sessions, Handle(s)
  PROVE  IInv' /\ UNCHANGED stored
<1> DEFINE event == Head(chan[s])
<1>1. /\ Shape /\ chan[s] # << >> /\ chan' = [chan EXCEPT ![s] = Tail(@)]
      /\ UNCHANGED <<profile, round, lock, last, late, up, start, disturbed>>
  BY DEF IInv, Handle
<1>2. /\ chan' \in [Sessions -> Seq(Events)]
      /\ \A x \in Sessions : Len(chan'[x]) <= Capacity
      /\ event \in Events /\ event = chan[s][1]
      /\ Len(chan[s]) \in Nat \ {0} /\ Len(chan'[s]) = Len(chan[s]) - 1
      /\ \A n \in 1 .. Len(chan'[s]) : chan'[s][n] = chan[s][n + 1]
      /\ \A x \in Sessions \ {s} : chan'[x] = chan[x]
  BY <1>1, TailFacts
<1>3. event.child \in Children /\ event.says \in Says /\ EventTrue(event, s)
  BY <1>2 DEF IInv, EventsTrue, Events
<1>4. \/ /\ event.says = "approval"
         /\ child' = IF slot[s] = event.child THEN child ELSE Replied(slot[s], "lost")
         /\ slot' = [slot EXCEPT ![s] = event.child]
         /\ UNCHANGED <<shown, stored>>
      \/ /\ event.says # "approval"
         /\ shown' = [shown EXCEPT ![event.child] = event.says]
         /\ stored' = IF Stores(event.says)
                        THEN [stored EXCEPT ![event.child] = WireName(event.says)]
                      ELSE stored
         /\ UNCHANGED <<child, slot>>
  BY DEF Handle
<1> HIDE DEF event
<1>5. UNCHANGED stored
  <2>1. CASE Stores(event.says) /\ event.says # "approval"
    <3>1. stored' = [stored EXCEPT ![event.child] = event.says] /\ event.says = stored[event.child]
      BY <1>3, <1>4, <2>1 DEF EventTrue, Stores, WireName
    <3>2. stored \in [Children -> Statuses]
      BY <1>1 DEF Shape
    <3> QED
      BY <3>1, <3>2
  <2>2. CASE ~ (Stores(event.says) /\ event.says # "approval")
    BY <1>4, <2>2
  <2> QED
    BY <2>1, <2>2
<1>6. /\ child' \in [Children -> Futures]
      /\ \A c \in Children : child'[c].at = child[c].at /\ child'[c].ending = child[c].ending
  <2>1. child \in [Children -> Futures] /\ slot[s] \in Children \cup {NoChild}
    BY <1>1 DEF Shape
  <2>2. CASE child' = child
    BY <2>1, <2>2
  <2>3. CASE child' = Replied(slot[s], "lost")
    BY <2>1, <2>3, RepliedFacts
  <2> QED
    BY <1>4, <2>2, <2>3
<1>7. /\ slot' \in [Sessions -> Children \cup {NoChild}]
      /\ shown' \in [Children -> Terminal \cup {"none", "queued", "active"}]
  BY <1>1, <1>3, <1>4 DEF Shape, Says
<1>8. Shape'
  BY <1>1, <1>2, <1>5, <1>6, <1>7 DEF Shape
<1>9. ASSUME NEW x \in Sessions, NEW n \in 1 .. Len(chan'[x])
      PROVE  \E m \in 1 .. Len(chan[x]) : chan'[x][n] = chan[x][m]
  <2>1. CASE x = s
    BY <1>2, <1>9, <2>1
  <2>2. CASE x # s
    BY <1>2, <1>9, <2>2
  <2> QED
    BY <2>1, <2>2
<1> QED
  BY <1>1, <1>5, <1>6, <1>8, <1>9, QuietIInv

\* The guards of a cancelled round fill the channel behind what is in it.
LEMMA FilledFacts ==
  ASSUME NEW q \in Seq(Events), Len(q) <= Capacity, NEW dropped, dropped \subseteq Children,
         NEW order, order \in SetToSeqs(dropped)
  PROVE  /\ Filled(q, order) \in Seq(Events) /\ Len(Filled(q, order)) <= Capacity
         /\ Len(q) <= Len(Filled(q, order))
         /\ \A n \in 1 .. Len(q) : Filled(q, order)[n] = q[n]
         /\ \A n \in Len(q) + 1 .. Len(Filled(q, order)) :
              Filled(q, order)[n].child \in dropped /\ Filled(q, order)[n].says = "cancelled"
         /\ Overflowing(order, Capacity - Len(q)) \subseteq dropped
         /\ \A c \in dropped \ Overflowing(order, Capacity - Len(q)) :
              \E n \in Len(q) + 1 .. Len(Filled(q, order)) : Filled(q, order)[n].child = c
<1> DEFINE new == [n \in DOMAIN order |-> [child |-> order[n], says |-> "cancelled"]]
           all == q \o new
           m == IF Len(all) < Capacity THEN Len(all) ELSE Capacity
<1>1. Cardinality(dropped) \in Nat
  BY ConstantFacts, FS_Subset, FS_CardinalityType
<1>2. order \in [1 .. Cardinality(dropped) -> dropped]
  BY DEF SetToSeqs
<1>3. /\ new \in Seq(Events) /\ Len(new) = Cardinality(dropped) /\ DOMAIN order = 1 .. Len(new)
      /\ \A n \in 1 .. Len(new) : /\ new[n] = [child |-> order[n], says |-> "cancelled"]
                                  /\ order[n] \in dropped
  <2>1. new \in [1 .. Cardinality(dropped) -> Events]
    BY <1>2 DEF Events, Says, Terminal
  <2>2. new \in Seq(Events)
    BY <1>1, <2>1, SeqDef
  <2>3. DOMAIN new = 1 .. Cardinality(dropped)
    BY <1>2
  <2>4. Len(new) = Cardinality(dropped)
    BY <1>1, <2>2, <2>3, LenProperties
  <2> QED
    BY <1>2, <2>2, <2>4
<1> HIDE DEF new
<1>4. /\ all \in Seq(Events) /\ Len(all) = Len(q) + Len(new)
      /\ \A n \in 1 .. Len(q) + Len(new) : all[n] = IF n <= Len(q) THEN q[n] ELSE new[n - Len(q)]
      /\ Len(q) \in Nat /\ Len(new) \in Nat
  BY <1>3, ConcatProperties, LenProperties
<1> HIDE DEF all
<1>5. m \in Nat /\ m <= Len(all) /\ m <= Capacity /\ Len(q) <= m
  BY <1>4, ConstantFacts
<1>6. Filled(q, order) = SubSeq(all, 1, m)
  BY DEF Filled, all, new
<1>7. m = Len(all) \/ m = Capacity
  OBVIOUS
<1> HIDE DEF m
<1>8. \A n \in 1 .. m : all[n] \in Events
  BY <1>4, <1>5, ElementOfSeq
<1>9. /\ Filled(q, order) \in Seq(Events) /\ Len(Filled(q, order)) = m
      /\ \A n \in 1 .. m : Filled(q, order)[n] = all[n]
  <2>1. /\ SubSeq(all, 1, m) \in Seq(Events)
        /\ Len(SubSeq(all, 1, m)) = IF 1 <= m THEN m - 1 + 1 ELSE 0
        /\ \A n \in 1 .. m - 1 + 1 : SubSeq(all, 1, m)[n] = all[1 + n - 1]
    BY <1>5, <1>8, SubSeqProperties
  <2> QED
    BY <1>5, <1>6, <2>1
<1>10. \A n \in 1 .. Len(q) : Filled(q, order)[n] = q[n]
  BY <1>4, <1>5, <1>9
<1>11. ASSUME NEW n \in Len(q) + 1 .. m
       PROVE  /\ n - Len(q) \in 1 .. Len(new)
              /\ Filled(q, order)[n] = [child |-> order[n - Len(q)], says |-> "cancelled"]
              /\ order[n - Len(q)] \in dropped
  BY <1>3, <1>4, <1>5, <1>9
<1>12. Overflowing(order, Capacity - Len(q)) \subseteq dropped
  <2>1. \A n \in Capacity - Len(q) + 1 .. Len(order) : order[n] \in dropped
    <3>1. order \in Seq(dropped)
      BY <1>1, <1>2, SeqDef
    <3>2. Len(order) = Len(new)
      BY <1>3, <1>4, <3>1, LenProperties
    <3> QED
      BY <1>3, <1>4, <1>5, <3>2, ConstantFacts
  <2> QED
    BY <2>1 DEF Overflowing
<1>13. \A n \in Len(q) + 1 .. m :
         Filled(q, order)[n].child \in dropped /\ Filled(q, order)[n].says = "cancelled"
  <2> TAKE n \in Len(q) + 1 .. m
  <2>1. /\ Filled(q, order)[n] = [child |-> order[n - Len(q)], says |-> "cancelled"]
        /\ order[n - Len(q)] \in dropped
    BY <1>11
  <2> QED
    BY <2>1
<1>14. ASSUME NEW c \in dropped \ Overflowing(order, Capacity - Len(q))
       PROVE  \E n \in Len(q) + 1 .. m : Filled(q, order)[n].child = c
  <2> DEFINE D == 1 .. Cardinality(dropped)
  <2>1. order \in Surjection(D, dropped)
    <3>1. order \in Injection(D, dropped)
      <4>1. \A a, b \in D : order[a] = order[b] => a = b
        BY DEF SetToSeqs
      <4>2. DOMAIN order = D
        BY <1>2
      <4> QED
        BY <1>2, <4>1, <4>2 DEF Injection, IsInjective
    <3>2. IsFiniteSet(dropped)
      BY ConstantFacts, FS_Subset
    <3>3. Cardinality(D) = Cardinality(dropped)
      BY <1>1, FS_Interval
    <3> HIDE DEF D
    <3> QED
      BY <3>1, <3>2, <3>3, FS_Injection
  <2>2. PICK i \in D : order[i] = c
    BY <2>1 DEF Surjection
  <2>3. order \in Seq(dropped) /\ Len(order) = Cardinality(dropped)
    BY <1>1, <1>2, SeqDef, LenProperties
  <2>4. i <= Capacity - Len(q)
    BY <1>1, <1>4, <1>14, <2>2, <2>3, ConstantFacts DEF Overflowing
  <2>5. Len(q) + i \in Len(q) + 1 .. m
    <3>1. i \in 1 .. Len(new) /\ Len(q) + i <= Capacity /\ Capacity \in Nat
      BY <1>1, <1>3, <1>4, <2>2, <2>4, ConstantFacts
    <3>2. Len(q) + i <= m
      BY <1>4, <1>7, <3>1
    <3> QED
      BY <1>4, <1>5, <3>1, <3>2
  <2>6. Filled(q, order)[Len(q) + i].child = c
    <3>1. Len(q) + i - Len(q) = i
      BY <1>1, <1>4, <2>2
    <3>2. Filled(q, order)[Len(q) + i] = [child |-> order[i], says |-> "cancelled"]
      <4> DEFINE n == Len(q) + i
      <4>1. n \in Len(q) + 1 .. m /\ n - Len(q) = i
        BY <2>5, <3>1
      <4> HIDE DEF n
      <4>2. Filled(q, order)[n] = [child |-> order[i], says |-> "cancelled"]
        BY <1>11, <4>1
      <4> QED
        BY <4>2 DEF n
    <3> QED
      BY <2>2, <3>2
  <2> QED
    BY <2>5, <2>6
<1> QED
  BY <1>5, <1>9, <1>10, <1>12, <1>14, <1>13

\* What an abort does to the channel of the round's session.
LEMMA AbortFacts ==
  ASSUME Shape, NEW r \in Rounds, Abort(r)
  PROVE  LET s == profile.home[r]
             dropped == {c \in Of(r) : Guarded(c)}
         IN  /\ s \in Sessions /\ dropped \subseteq Children
             /\ chan' \in [Sessions -> Seq(Events)]
             /\ \A x \in Sessions : Len(chan'[x]) <= Capacity
             /\ Len(chan[s]) \in Nat /\ Len(chan'[s]) \in Nat /\ Len(chan[s]) <= Len(chan'[s])
             /\ \A n \in 1 .. Len(chan[s]) : chan'[s][n] = chan[s][n]
             /\ \A n \in Len(chan[s]) + 1 .. Len(chan'[s]) :
                  chan'[s][n].child \in dropped /\ chan'[s][n].says = "cancelled"
             /\ \A x \in Sessions \ {s} : chan'[x] = chan[x]
             /\ late \subseteq late' /\ late' \subseteq late \cup dropped
             /\ \A c \in dropped \ late' :
                  \E n \in Len(chan[s]) + 1 .. Len(chan'[s]) : chan'[s][n].child = c
<1> DEFINE s == profile.home[r]
           dropped == {c \in Of(r) : Guarded(c)}
<1>1. s \in Sessions /\ dropped \in SUBSET Children /\ chan[s] \in Seq(Events)
      /\ Len(chan[s]) <= Capacity /\ chan \in [Sessions -> Seq(Events)]
  BY HomeFacts DEF Shape, Of
<1>2. PICK order \in SetToSeqs(dropped) :
        /\ chan' = [chan EXCEPT ![s] = Filled(@, order)]
        /\ late' = late \cup Overflowing(order, Capacity - Len(chan[s]))
  BY DEF Abort
<1> DEFINE q == chan[s]
           full == Filled(q, order)
           over == Overflowing(order, Capacity - Len(q))
<1>3. /\ full \in Seq(Events) /\ Len(full) <= Capacity /\ Len(q) <= Len(full)
      /\ \A n \in 1 .. Len(q) : full[n] = q[n]
      /\ \A n \in Len(q) + 1 .. Len(full) :
           full[n].child \in dropped /\ full[n].says = "cancelled"
      /\ over \subseteq dropped
      /\ \A c \in dropped \ over : \E n \in Len(q) + 1 .. Len(full) : full[n].child = c
  <2>1. q \in Seq(Events) /\ Len(q) <= Capacity
    BY <1>1
  <2>2. dropped \subseteq Children /\ order \in SetToSeqs(dropped)
    BY <1>1, <1>2
  <2> HIDE DEF dropped, s, q
  <2> QED
    BY <2>1, <2>2, FilledFacts
<1>4. Len(q) \in Nat /\ Len(full) \in Nat
  BY <1>1, <1>3, LenProperties
<1>5. late' = late \cup over
  BY <1>2
<1> HIDE DEF s, dropped, full, over
<1>6. /\ chan' \in [Sessions -> Seq(Events)] /\ chan'[s] = full
      /\ \A x \in Sessions \ {s} : chan'[x] = chan[x]
  BY <1>1, <1>2, <1>3 DEF full
<1>7. \A x \in Sessions : Len(chan'[x]) <= Capacity
  BY <1>3, <1>6 DEF Shape
<1> QED
  BY <1>1, <1>3, <1>4, <1>5, <1>6, <1>7 DEF s, dropped

LEMMA AbortIInv == \A r \in Rounds : IInv /\ Abort(r) => IInv'
<1> SUFFICES ASSUME IInv, NEW r \in Rounds, Abort(r) PROVE IInv'
  OBVIOUS
<1> DEFINE s == profile.home[r]
           dropped == {c \in Of(r) : Guarded(c)}
<1>1. /\ s \in Sessions /\ dropped \subseteq Children
      /\ chan' \in [Sessions -> Seq(Events)]
      /\ \A x \in Sessions : Len(chan'[x]) <= Capacity
      /\ Len(chan[s]) \in Nat /\ Len(chan'[s]) \in Nat /\ Len(chan[s]) <= Len(chan'[s])
      /\ \A n \in 1 .. Len(chan[s]) : chan'[s][n] = chan[s][n]
      /\ \A n \in Len(chan[s]) + 1 .. Len(chan'[s]) :
           chan'[s][n].child \in dropped /\ chan'[s][n].says = "cancelled"
      /\ \A x \in Sessions \ {s} : chan'[x] = chan[x]
      /\ late \subseteq late' /\ late' \subseteq late \cup dropped
  BY AbortFacts DEF IInv
<1>2. /\ Shape /\ round' = [round EXCEPT ![r] = "over"]
      /\ child' = [c \in Children |-> IF c \in Of(r) THEN Fresh("ended") ELSE child[c]]
      /\ stored' = [c \in Children |-> IF c \in dropped THEN "cancelled" ELSE stored[c]]
      /\ lock' = IF lock \in dropped THEN NoChild ELSE lock
      /\ UNCHANGED <<profile, slot, shown, up, start, disturbed>>
  BY DEF IInv, Abort
<1>3. PICK spoke \in SUBSET dropped :
        last' = [c \in Children |-> IF c \in spoke THEN "partial" ELSE last[c]]
  BY DEF Abort
<1>4. Fresh("ended") \in Futures /\ Fresh("ended").at = "ended"
  BY FreshFacts DEF Places
<1>5. \A c \in dropped : c \in Of(r) /\ child[c].at # "ended"
  BY DEF Guarded
<1>6. \A c \in Of(r) \ dropped : c \in Children /\ child[c].at \in {"none", "called", "ended"}
  BY DEF Guarded, Of
<1> HIDE DEF s, dropped
<1>7. Shape'
  <2>1. child' \in [Children -> Futures]
    BY <1>2, <1>4 DEF Shape
  <2>2. stored' \in [Children -> Statuses] /\ last' \in [Children -> LastRows]
    BY <1>2, <1>3 DEF Shape, Statuses, LastRows, Terminal
  <2>3. late' \subseteq Children
    BY <1>1, <1>2 DEF Shape
  <2>4. round' \in [Rounds -> {"new", "going", "aborting", "over"}]
    BY <1>2 DEF Shape
  <2>5. lock' \in Children \cup {NoChild}
    BY <1>2 DEF Shape
  <2> QED
    BY <1>1, <1>2, <2>1, <2>2, <2>3, <2>4, <2>5 DEF Shape
<1>8. ASSUME NEW q \in Rounds, round'[q] = "new", NEW c \in Of(q)
      PROVE  At(c, "none")'
  BY <1>2, <1>8 DEF IInv, Shape, At, Of
<1>9. ASSUME NEW c \in Children
      PROVE  Agree(c, child'[c], stored'[c], last'[c])
  <2>1. Agree(c, child[c], stored[c], last[c])
    BY DEF IInv
  <2>2. CASE c \in dropped
    BY <1>2, <1>4, <1>5, <2>2 DEF Agree, Terminal
  <2>3. CASE c \in Of(r) \ dropped
    BY <1>2, <1>3, <1>4, <1>6, <2>1, <2>3 DEF Agree, Terminal
  <2>4. CASE c \notin Of(r)
    BY <1>2, <1>3, <1>5, <2>1, <2>4
  <2> QED
    BY <2>2, <2>3, <2>4
<1>10. \A c \in Children : At(c, "ended") => child'[c].at = "ended" /\ stored'[c] = stored[c]
  BY <1>2, <1>4, <1>5 DEF At
<1>11. ASSUME NEW x \in Sessions, NEW n \in 1 .. Len(chan'[x]), NEW event, event = chan'[x][n]
       PROVE  EventTrue(event, x)'
  <2>1. CASE n \in 1 .. Len(chan[x]) /\ event = chan[x][n]
    BY <1>2, <1>10, <2>1, EventStays
  <2>2. CASE x = s /\ n \in Len(chan[s]) + 1 .. Len(chan'[s])
    <3> DEFINE c == event.child
    <3>1. c \in dropped /\ event.says = "cancelled"
      BY <1>1, <1>11, <2>2
    <3>2. c \in Children /\ c \in Of(r) /\ child'[c].at = "ended" /\ stored'[c] = "cancelled"
      BY <1>1, <1>2, <1>4, <1>5, <3>1
    <3>3. Home(c)' = s
      BY <1>2, <3>2 DEF Home, Of, s
    <3> QED
      BY <2>2, <3>1, <3>2, <3>3 DEF EventTrue, At, Home
  <2> QED
    BY <1>1, <1>11, <2>1, <2>2
<1>12. EventsTrue'
  BY <1>11 DEF EventsTrue, EventTrue, At, Home
<1>13. \A c \in late' : At(c, "ended")' /\ stored'[c] = "cancelled"
  BY <1>1, <1>2, <1>4, <1>5, <1>10 DEF IInv, At, Shape
<1>14. ~ up' => \A c \in Children : child'[c].at \in {"none", "ended"}
  BY <1>2, <1>4 DEF IInv
<1> QED
  BY <1>2, <1>7, <1>8, <1>9, <1>12, <1>13, <1>14, AgreeStays, OwnStays DEF IInv

LEMMA SendLateIInv == \A c \in Children : IInv /\ SendLate(c) => IInv'
<1> SUFFICES ASSUME IInv, NEW c \in Children, SendLate(c) PROVE IInv'
  OBVIOUS
<1>1. /\ Shape /\ Emit(c, "cancelled") /\ late' = late \ {c}
      /\ At(c, "ended") /\ stored[c] = "cancelled"
      /\ UNCHANGED <<profile, round, child, lock, stored, last, slot, shown, up, start, disturbed>>
  BY DEF IInv, SendLate
<1>2. "cancelled" \in Says
  BY DEF Says, Terminal
<1>3. /\ chan' \in [Sessions -> Seq(Events)]
      /\ \A s \in Sessions : Len(chan'[s]) <= Capacity
      /\ Len(chan'[Home(c)]) = Len(chan[Home(c)]) + 1
      /\ chan'[Home(c)][Len(chan[Home(c)]) + 1] = [child |-> c, says |-> "cancelled"]
      /\ \A n \in 1 .. Len(chan[Home(c)]) : chan'[Home(c)][n] = chan[Home(c)][n]
      /\ \A s \in Sessions \ {Home(c)} : chan'[s] = chan[s]
  BY <1>1, <1>2, EmitFacts
<1>4. Shape'
  BY <1>1, <1>3 DEF Shape
<1>5. ASSUME NEW s \in Sessions, NEW n \in 1 .. Len(chan'[s]), NEW event, event = chan'[s][n]
      PROVE  EventTrue(event, s)'
  <2>1. CASE n \in 1 .. Len(chan[s]) /\ event = chan[s][n]
    BY <1>1, <2>1, EventStays DEF At
  <2>2. CASE s = Home(c) /\ n = Len(chan[s]) + 1
    <3>1. event = [child |-> c, says |-> "cancelled"]
      BY <1>3, <1>5, <2>2
    <3>2. EventTrue(event, Home(c))'
      BY <1>1, <3>1 DEF EventTrue, At, Home
    <3> QED
      BY <1>1, <2>2, <3>2 DEF EventTrue, Home
  <2>3. Len(chan[s]) \in Nat
    BY <1>1, LenProperties DEF Shape
  <2> QED
    BY <1>3, <1>5, <2>1, <2>2, <2>3
<1>6. EventsTrue'
  BY <1>5 DEF EventsTrue, EventTrue, At, Home
<1>7. (\A d \in Children : Agree(d, child[d], stored[d], last[d]))'
  BY <1>1, AgreeStays DEF IInv
<1> QED
  BY <1>1, <1>4, <1>6, <1>7, OwnStays DEF IInv, At, Of

\* What the dead process leaves is what it had stored.
LEMMA DieIInv == IInv /\ Die => IInv'
<1> SUFFICES ASSUME IInv, Die PROVE IInv'
  OBVIOUS
<1>1. /\ Shape /\ round' = [r \in Rounds |-> IF round[r] = "new" THEN "new" ELSE "over"]
      /\ child' = [c \in Children |-> IF At(c, "none") THEN child[c] ELSE Fresh("ended")]
      /\ lock' = NoChild /\ chan' = [s \in Sessions |-> << >>] /\ late' = {}
      /\ slot' = [s \in Sessions |-> NoChild] /\ shown' = [c \in Children |-> "none"]
      /\ up' = FALSE /\ UNCHANGED <<profile, stored, last, start, disturbed>>
  BY DEF IInv, Die
<1>2. Fresh("ended") \in Futures /\ Fresh("ended").at = "ended"
  BY FreshFacts DEF Places
<1>3. << >> \in Seq(Events) /\ Len(<< >>) = 0
  BY EmptySeq
<1>4. \A s \in Sessions : chan'[s] = << >>
  BY <1>1
<1>5. Shape'
  <2>1. child' \in [Children -> Futures]
    BY <1>1, <1>2 DEF Shape
  <2>2. chan' \in [Sessions -> Seq(Events)]
    BY <1>1, <1>3
  <2>3. \A s \in Sessions : Len(chan'[s]) <= Capacity
    BY <1>3, <1>4, ConstantFacts
  <2> QED
    BY <1>1, <2>1, <2>2, <2>3 DEF Shape
<1>6. ASSUME NEW r \in Rounds, round'[r] = "new", NEW c \in Of(r)
      PROVE  At(c, "none")'
  BY <1>1, <1>6 DEF IInv, At, Of
<1>7. ASSUME NEW c \in Children
      PROVE  Agree(c, child[c], stored[c], last[c])'
  <2>1. Agree(c, child[c], stored[c], last[c])
    BY DEF IInv
  <2>2. Unexplained' = Unexplained
    BY <1>1 DEF Unexplained
  <2>3. CASE At(c, "none")
    BY <1>1, <2>1, <2>2, <2>3 DEF Agree, At
  <2>4. CASE ~ At(c, "none")
    <3>1. child'[c].at = "ended"
      BY <1>1, <1>2, <2>4
    <3>2. ASSUME stored[c] \in Terminal \ {"cancelled"}, c \notin disturbed \cup Unexplained
          PROVE  Tells(stored[c], last[c])
      BY <2>1, <3>2 DEF Agree, Terminal
    <3> QED
      BY <1>1, <2>2, <3>1, <3>2 DEF Agree
  <2> QED
    BY <2>3, <2>4
<1>8. EventsTrue'
  BY <1>3, <1>4 DEF EventsTrue
<1>9. \A c \in Children : child'[c].at \in {"none", "ended"}
  BY <1>1, <1>2 DEF At
<1>10. up
  BY DEF Die
<1> QED
  BY <1>1, <1>5, <1>6, <1>7, <1>8, <1>9, <1>10 DEF IInv, OwnStart

\* A process that starts moves no child and ends none that is not running.
LEMMA StartupQuiet ==
  ASSUME IInv, Startup
  PROVE  /\ UNCHANGED <<profile, round, child, lock, chan, late, slot, shown>>
         /\ \A c \in Children : stored'[c] = stored[c] \/ stored[c] = "running"
         /\ up' = up \/ (start.marked /\ start.ids = {} /\ stored' = stored)
BY DEF Startup, Start, Mark, Explain, Started, StartDies, Running

LEMMA StartupIInv == IInv /\ Startup => IInv'
<1> SUFFICES ASSUME IInv, Startup PROVE IInv'
  OBVIOUS
<1>1. /\ UNCHANGED <<profile, round, child, lock, chan, late, slot, shown>> /\ Shape
      /\ \A c \in Children : stored'[c] = stored[c] \/ stored[c] = "running"
  BY StartupQuiet DEF IInv
<1>2. Shape'
  <2>1. /\ stored' \in [Children -> Statuses] /\ last' \in [Children -> LastRows]
        /\ up' \in BOOLEAN /\ disturbed' \subseteq Children
    <3>1. "failed" \in Statuses /\ "failed" \in LastRows
      BY DEF Statuses, LastRows, Terminal
    <3>2. CASE Mark
      BY <1>1, <3>1, <3>2 DEF Mark, Shape, Running
    <3>3. CASE \E c \in Children : Explain(c)
      BY <1>1, <3>1, <3>3 DEF Explain, Row, Noted, Shape
    <3>4. CASE Started \/ StartDies \/ \E by \in {"own", "other"} : Start(by)
      BY <1>1, <3>4 DEF Started, StartDies, Start, Shape, Unexplained
    <3> QED
      BY <3>2, <3>3, <3>4 DEF Startup
  <2>2. start' \in [by : {"none", "own", "other"}, marked : BOOLEAN, ids : SUBSET Children]
    <3>1. start \in [by : {"none", "own", "other"}, marked : BOOLEAN, ids : SUBSET Children]
      BY <1>1 DEF Shape
    <3>2. CASE Mark
      BY <3>1, <3>2 DEF Mark
    <3>3. CASE \E c \in Children : Explain(c)
      BY <3>1, <3>3 DEF Explain
    <3>4. CASE Started \/ StartDies
      <4>1. {} \in SUBSET Children
        OBVIOUS
      <4>2. NoStart \in [by : {"none", "own", "other"}, marked : BOOLEAN, ids : SUBSET Children]
        BY <4>1 DEF NoStart
      <4> QED
        BY <3>4, <4>2 DEF Started, StartDies
    <3>5. ASSUME NEW by \in {"own", "other"}, Start(by)
          PROVE  start' \in [by : {"none", "own", "other"}, marked : BOOLEAN, ids : SUBSET Children]
      <4>1. Running \in SUBSET Children
        BY DEF Running
      <4> QED
        BY <3>5, <4>1 DEF Start
    <3> QED
      BY <3>2, <3>3, <3>4, <3>5 DEF Startup
  <2> QED
    BY <1>1, <2>1, <2>2 DEF Shape
<1>3. ASSUME NEW c \in Children
      PROVE  Agree(c, child[c], stored[c], last[c])'
  <2>1. Agree(c, child[c], stored[c], last[c]) /\ child'[c] = child[c]
    BY <1>1 DEF IInv
  <2>2. ~ up => child[c].at \in {"none", "ended"}
    BY DEF IInv
  <2>3. CASE \E by \in {"own", "other"} : Start(by)
    <3>1. UNCHANGED <<stored, last, up, disturbed>> /\ Unexplained' = {} /\ Unexplained = {}
      BY <2>3 DEF Start, NoStart, Unexplained
    <3> QED
      BY <2>1, <3>1 DEF Agree
  <2>4. CASE Mark
    <3>1. /\ stored'[c] = IF stored[c] = "running" THEN "failed" ELSE stored[c]
          /\ UNCHANGED <<last, up>> /\ disturbed \subseteq disturbed'
          /\ stored[c] = "running" /\ Guarded(c) => c \in disturbed'
          /\ stored[c] = "running" /\ c \notin start.ids => c \in disturbed'
          /\ Unexplained = {}
      BY <2>4 DEF Mark, Running, Unexplained
    <3>2. Unexplained' = start.ids
      BY <1>1, <2>4 DEF Mark, Unexplained, Shape
    <3>3. CASE stored[c] = "running"
      BY <2>1, <3>1, <3>2, <3>3 DEF Agree, Guarded, At, Terminal
    <3>4. CASE stored[c] # "running"
      BY <2>1, <3>1, <3>4 DEF Agree
    <3> QED
      BY <3>3, <3>4
  <2>5. ASSUME NEW d \in Children, Explain(d)
        PROVE  Agree(c, child[c], stored[c], last[c])'
    <3>1. /\ stored' = stored /\ up' = up /\ disturbed \subseteq disturbed'
          /\ stored[d] # "failed" => d \in disturbed'
          /\ last' = [last EXCEPT ![d] = "failed"] /\ start.marked /\ d \in start.ids
          /\ start' = [start EXCEPT !.ids = @ \ {d}]
      BY <2>5 DEF Explain, Row, Noted
    <3>2. Unexplained' = Unexplained \ {d}
      BY <1>1, <3>1 DEF Unexplained, Shape
    <3>3. CASE c = d
      <4>1. last'[c] = "failed"
        BY <1>1, <3>1, <3>3 DEF Shape
      <4>2. stored[c] = "failed" => Tells(stored[c], last'[c])
        BY <4>1 DEF Tells
      <4> QED
        BY <2>1, <3>1, <3>3, <4>2 DEF Agree
    <3>4. CASE c # d
      <4>1. last'[c] = last[c] /\ (c \in Unexplained' <=> c \in Unexplained)
        BY <1>1, <3>1, <3>2, <3>4 DEF Shape
      <4> QED
        BY <2>1, <3>1, <4>1 DEF Agree
    <3> QED
      BY <3>3, <3>4
  <2>6. CASE Started
    <3>1. UNCHANGED <<stored, last, disturbed>> /\ Unexplained' = {} /\ Unexplained = {}
      BY <2>6 DEF Started, NoStart, Unexplained
    <3>2. up' => ~ (stored[c] = "running" /\ child[c].at \in {"none", "called", "settled", "ended"})
      <4>1. CASE up
        BY <2>1, <4>1 DEF Agree
      <4>2. CASE start.by = "own"
        BY <2>6, <4>2 DEF Started, IInv, OwnStart, Running
      <4> QED
        BY <2>6, <4>1, <4>2 DEF Started
    <3> QED
      BY <2>1, <3>1, <3>2 DEF Agree
  <2>7. CASE StartDies
    <3>1. /\ UNCHANGED <<stored, last, up>> /\ disturbed' = disturbed \cup Unexplained
          /\ Unexplained' = {}
      BY <2>7 DEF StartDies, NoStart, Unexplained
    <3> QED
      BY <2>1, <3>1 DEF Agree
  <2> QED
    BY <2>3, <2>4, <2>5, <2>6, <2>7 DEF Startup
<1>4. ~ up' => ~ up
  BY StartupQuiet DEF Startup, Start, Mark, Explain, Started, StartDies
<1>5. EventsTrue'
  <2>1. ASSUME NEW s \in Sessions, NEW n \in 1 .. Len(chan'[s]), NEW event, event = chan'[s][n]
        PROVE  EventTrue(event, s)'
    <3>1. \A c \in Children : At(c, "ended") /\ stored[c] \in Terminal =>
            child'[c].at = "ended" /\ stored'[c] = stored[c]
      BY <1>1 DEF At, Terminal
    <3> QED
      BY <1>1, <2>1, <3>1, EventStays
  <2> QED
    BY <2>1 DEF EventsTrue, EventTrue, At, Home
<1>6. \A c \in late' : At(c, "ended")' /\ stored'[c] = "cancelled"
  BY <1>1 DEF IInv, At, Shape
<1>7. \A r \in Rounds : round'[r] = "new" => \A c \in Of(r) : At(c, "none")'
  BY <1>1 DEF IInv, At
<1>8. OwnStart'
  <2>1. OwnStart /\ start \in [by : {"none", "own", "other"}, marked : BOOLEAN, ids : SUBSET Children]
    BY <1>1 DEF IInv, Shape
  <2>2. CASE Started \/ StartDies
    BY <2>2 DEF Started, StartDies, NoStart, OwnStart
  <2>3. ASSUME NEW by \in {"own", "other"}, Start(by)
        PROVE  OwnStart'
    BY <2>3 DEF Start, OwnStart
  <2>4. CASE Mark
    <3>1. up' = up /\ start'.by = start.by
      BY <2>1, <2>4 DEF Mark
    <3>2. \A c \in Children : stored'[c] # "running"
      BY <2>4 DEF Mark, Running
    <3>3. Running' = {}
      BY <3>2 DEF Running
    <3> QED
      BY <2>1, <3>1, <3>3 DEF OwnStart
  <2>5. ASSUME NEW c \in Children, Explain(c)
        PROVE  OwnStart'
    <3>1. up' = up /\ stored' = stored /\ start'.by = start.by /\ start'.marked = start.marked
      BY <2>1, <2>5 DEF Explain
    <3> QED
      BY <2>1, <3>1 DEF OwnStart, Running
  <2> QED
    BY <2>2, <2>3, <2>4, <2>5 DEF Startup
<1> QED
  BY <1>1, <1>2, <1>3, <1>4, <1>5, <1>6, <1>7, <1>8 DEF IInv, Of

LEMMA InitIInv == Init => IInv
<1> SUFFICES ASSUME Init PROVE IInv
  OBVIOUS
<1>1. Fresh("none") \in Futures /\ Fresh("none").at = "none"
  BY FreshFacts DEF Places
<1>2. << >> \in Seq(Events) /\ Len(<< >>) = 0 /\ \A s \in Sessions : chan[s] = << >>
  BY EmptySeq DEF Init
<1>3. Shape
  <2>1. \A s \in Sessions : Len(chan[s]) <= Capacity
    BY <1>2, ConstantFacts
  <2> QED
    BY <1>1, <1>2, <2>1 DEF Init, Shape, Statuses, LastRows, NoStart
<1>4. \A c \in Children : child[c] = Fresh("none") /\ stored[c] = "none" /\ last[c] = "none"
  BY DEF Init
<1>5. \A c \in Children : Agree(c, child[c], stored[c], last[c])
  BY <1>1, <1>4 DEF Agree, Terminal
<1>6. EventsTrue
  BY <1>2 DEF EventsTrue
<1>7. OwnStart /\ up
  BY DEF Init, OwnStart, NoStart
<1> QED
  BY <1>1, <1>3, <1>4, <1>5, <1>6, <1>7 DEF Init, IInv, At, Of

LEMMA NextIInv == IInv /\ [Next]_vars => IInv'
<1> SUFFICES ASSUME IInv, [Next]_vars PROVE IInv'
  OBVIOUS
<1>1. ASSUME NEW r \in Rounds, Collect(r) \/ Abort(r) \/ Spawn(r) \/ Cancel(r)
      PROVE  IInv'
  BY <1>1, CollectIInv, AbortIInv, SpawnIInv, CancelIInv
<1>2. ASSUME NEW c \in Children, ChildStep(c) \/ SendLate(c)
      PROVE  IInv'
  BY <1>2, ChildStepIsLocal, LocalIInv, SendLateIInv
<1>3. ASSUME NEW s \in Sessions, Handle(s) \/ Reply(s)
      PROVE  IInv'
  BY <1>3, HandleIInv, ReplyIInv
<1>4. CASE Die
  BY <1>4, DieIInv
<1>5. CASE UNCHANGED vars
  <2>1. (\A c \in Children : Agree(c, child[c], stored[c], last[c]))'
    BY <1>5, AgreeStays DEF vars, IInv
  <2> QED
    BY <1>5, <2>1, OwnStays DEF vars, IInv, Shape, EventsTrue, EventTrue, At, Of, Home
<1>6. CASE Startup
  BY <1>6, StartupIInv
<1> QED
  BY <1>1, <1>2, <1>3, <1>4, <1>5, <1>6 DEF Next, Step

-----------------------------------------------------------------------------
(* What is stored of a child *)

\* Shapes, where a round and its children are, status and transcript against
\* the child's future, and the truth of every event on its way.
THEOREM InductiveInvariant == Spec => []IInv
<1> QED
  BY InitIInv, NextIInv, PTL DEF Spec

\* The state of every reachable instance has its shape, and no channel holds
\* more than its capacity (agent/child.rs, session.rs).
THEOREM TypeCorrect == Spec => []TypeOK
<1>1. IInv => TypeOK
  BY DEF IInv, Shape, TypeOK, Futures, Statuses, LastRows
<1> QED
  BY <1>1, InductiveInvariant, PTL

\* While the process runs, a child stored as running is alive and has not stored
\* its end; and the other way round, unless a process of another workspace
\* marked it (agent/child.rs, ChildCancellationGuard; storage/session.rs,
\* mark_running_children_interrupted).
THEOREM RunningAlive == Spec => []RunningIsAlive
<1>1. IInv => RunningIsAlive
  BY DEF IInv, Agree, RunningIsAlive, Unsettled, Guarded, At
<1> QED
  BY <1>1, InductiveInvariant, PTL

\* The transcript of a child that is over ends as its status says, wherever the
\* process died, but in the three cases TranscriptTells names (agent/child.rs,
\* the order of the last writes; storage/session.rs, the order of a start's).
THEOREM TranscriptEnds == Spec => []TranscriptTells
<1>1. IInv => TranscriptTells
  BY DEF IInv, Agree, Tells, TranscriptTells
<1> QED
  BY <1>1, InductiveInvariant, PTL

\* An end is final, except that the guard of a child that is still sending its
\* last event may turn it into "cancelled", and that a live child which another
\* process marked as failed stores its own end (app.rs, handle_routed_event
\* stores what a child's event says; storage/session.rs, set_child_status).
THEOREM EndFinal == Spec => EndIsFinal
<1> DEFINE Final == \A c \in Children :
                      stored[c] \in Terminal /\ stored'[c] # stored[c] =>
                        \/ At(c, "settled") /\ stored'[c] = "cancelled"
                        \/ c \in disturbed /\ Unsettled(c) /\ stored[c] = "failed"
                             /\ stored'[c] \in {child[c].ending, "cancelled"}
<1>1. ASSUME IInv, [Next]_vars
      PROVE  Final
  <2> SUFFICES ASSUME NEW c \in Children, stored[c] \in Terminal, stored'[c] # stored[c]
               PROVE  \/ At(c, "settled") /\ stored'[c] = "cancelled"
                      \/ c \in disturbed /\ Unsettled(c) /\ stored[c] = "failed"
                           /\ stored'[c] \in {child[c].ending, "cancelled"}
    OBVIOUS
  <2>1. Agree(c, child[c], stored[c], last[c]) /\ stored \in [Children -> Statuses]
    BY <1>1 DEF IInv, Shape
  <2>2. ASSUME NEW d \in Children, ChildStep(d)
        PROVE  /\ c \in disturbed /\ Unsettled(c) /\ stored[c] = "failed"
               /\ stored'[c] = child[c].ending
    <3>1. Local(d, child'[d], stored'[d], last'[d])
      BY <1>1, <2>2, ChildStepIsLocal
    <3>2. d = c /\ Remarked(c, stored'[c])
      BY <2>1, <3>1 DEF Local
    <3> QED
      BY <3>2 DEF Remarked
  <2>3. ASSUME NEW r \in Rounds, Abort(r)
        PROVE  /\ stored'[c] = "cancelled"
               /\ At(c, "settled") \/ (c \in disturbed /\ Unsettled(c) /\ stored[c] = "failed")
    <3>1. stored' = [d \in Children |->
                       IF d \in {x \in Of(r) : Guarded(x)} THEN "cancelled" ELSE stored[d]]
      BY <2>3 DEF Abort
    <3>2. Guarded(c) /\ stored'[c] = "cancelled"
      BY <3>1
    <3> QED
      BY <2>1, <3>2 DEF Agree, Unsettled, Guarded, At, Terminal
  <2>4. ~ Startup /\ ~ Die
    BY <2>1 DEF Startup, Start, Mark, Explain, Started, StartDies, Die, Running, Terminal
  <2>5. ASSUME NEW s \in Sessions, Handle(s)
        PROVE  FALSE
    BY <1>1, <2>5, HandleIInv
  <2> QED
    BY <1>1, <2>2, <2>3, <2>4, <2>5
    DEF Next, Step, Collect, SendLate, Reply, Spawn, Cancel, vars
<1>2. IInv /\ [Next]_vars => Final
  BY <1>1
<1>3. IInv /\ [Next]_vars => [Final]_vars
  BY <1>2
<1> QED
  BY <1>3, InductiveInvariant, PTL DEF Spec, EndIsFinal

-----------------------------------------------------------------------------
(* Questions *)

\* The n-th event on its way to session s is a question; it is c's.
Question(s, n) == chan[s][n].says = "approval"
QuestionOf(s, n, c) == Question(s, n) /\ chan[s][n].child = c

\* Who may ask holds the approval lock, so that of the questions on their way
\* or on screen at most the newest is one that a child still waits on.
AskInv ==
  /\ \A c \in Children : child[c].at \in {"locked", "asked"} => lock = c
  /\ \A s \in Sessions : \A n \in 1 .. Len(chan[s]) :
       Question(s, n) => child[chan[s][n].child].at \in {"asked", "ended"}
  /\ \A s \in Sessions : slot[s] # NoChild =>
       Home(slot[s]) = s /\ child[slot[s]].at \in {"asked", "ended"}
  /\ \A c \in Children : At(c, "asked") /\ child[c].reply # "none" =>
       /\ slot[Home(c)] # c
       /\ \A n \in 1 .. Len(chan[Home(c)]) : ~ QuestionOf(Home(c), n, c)
  /\ \A c \in Children : At(c, "asked") /\ slot[Home(c)] = c =>
       \A n \in 1 .. Len(chan[Home(c)]) : ~ Question(Home(c), n)
  /\ \A c \in Children : At(c, "asked") =>
       \A n \in 1 .. Len(chan[Home(c)]) : QuestionOf(Home(c), n, c) =>
         \A m \in n + 1 .. Len(chan[Home(c)]) : ~ Question(Home(c), m)

\* A child that is not, or no longer, asking has no question anywhere.
LEMMA NoQuestion ==
  ASSUME IInv, AskInv, NEW c \in Children,
         \/ child[c].at \notin {"asked", "ended"}
         \/ At(c, "asked") /\ child[c].reply # "none"
  PROVE  /\ \A s \in Sessions : \A n \in 1 .. Len(chan[s]) : ~ QuestionOf(s, n, c)
         /\ \A s \in Sessions : slot[s] # c
<1>1. ASSUME NEW s \in Sessions, NEW n \in 1 .. Len(chan[s]), QuestionOf(s, n, c)
      PROVE  FALSE
  <2>1. Home(c) = s
    BY <1>1 DEF IInv, EventsTrue, EventTrue, QuestionOf
  <2> QED
    BY <1>1, <2>1 DEF AskInv, QuestionOf
<1>2. ASSUME NEW s \in Sessions, slot[s] = c
      PROVE  FALSE
  BY <1>2, ConstantFacts DEF AskInv
<1> QED
  BY <1>1, <1>2

\* A step that asks nothing and shows nothing keeps AskInv.
LEMMA QuietAsk ==
  ASSUME IInv, AskInv, UNCHANGED <<profile, slot>>,
         \A s \in Sessions :
           /\ Len(chan[s]) <= Len(chan'[s]) /\ Len(chan'[s]) \in Nat
           /\ \A n \in 1 .. Len(chan[s]) : chan'[s][n] = chan[s][n]
           /\ \A n \in Len(chan[s]) + 1 .. Len(chan'[s]) : chan'[s][n].says # "approval",
         \A c \in Children :
           \/ child'[c] = child[c]
           \/ child'[c].at = "ended"
           \/ /\ child'[c].at # "asked"
              /\ \/ child[c].at \notin {"asked", "ended"}
                 \/ At(c, "asked") /\ child[c].reply # "none",
         \A c \in Children : child'[c].at \in {"locked", "asked"} => lock' = c
  PROVE  AskInv'
<1>1. /\ chan \in [Sessions -> Seq(Events)] /\ slot \in [Sessions -> Children \cup {NoChild}]
      /\ \A s \in Sessions : Len(chan[s]) \in Nat
      /\ \A c \in Children : Home(c) \in Sessions /\ Home(c)' = Home(c)
  BY HomeFacts, LenProperties DEF IInv, Shape, Home
<1>2. ASSUME NEW s \in Sessions, NEW n \in 1 .. Len(chan'[s]), chan'[s][n].says = "approval"
      PROVE  /\ n \in 1 .. Len(chan[s]) /\ chan'[s][n] = chan[s][n] /\ Question(s, n)
             /\ chan[s][n].child \in Children
  <2>1. n \in 1 .. Len(chan[s]) /\ chan'[s][n] = chan[s][n]
    BY <1>1, <1>2
  <2>2. chan[s][n] \in Events
    BY <1>1, <2>1, ElementOfSeq
  <2> QED
    BY <1>2, <2>1, <2>2 DEF Question, Events
<1>3. ASSUME NEW c \in Children, NEW s \in Sessions, NEW n \in 1 .. Len(chan[s]),
             QuestionOf(s, n, c)
      PROVE  child'[c] = child[c] \/ child'[c].at = "ended"
  BY <1>3, NoQuestion
<1>4. ASSUME NEW c \in Children, child'[c].at = "asked"
      PROVE  child'[c] = child[c] /\ At(c, "asked")
  BY <1>4 DEF At
<1>5. ASSUME NEW s \in Sessions, NEW n \in 1 .. Len(chan'[s]), chan'[s][n].says = "approval"
      PROVE  child'[chan'[s][n].child].at \in {"asked", "ended"}
  <2>1. child[chan[s][n].child].at \in {"asked", "ended"}
    BY <1>2, <1>5 DEF AskInv
  <2> QED
    BY <1>2, <1>3, <1>5, <2>1 DEF QuestionOf
<1>6. ASSUME NEW s \in Sessions, slot[s] # NoChild
      PROVE  Home(slot[s]) = s /\ slot[s] \in Children /\ child'[slot[s]].at \in {"asked", "ended"}
  BY <1>1, <1>6, NoQuestion DEF AskInv
<1>7. ASSUME NEW c \in Children, child'[c].at = "asked", NEW n \in 1 .. Len(chan'[Home(c)]),
             chan'[Home(c)][n].says = "approval"
      PROVE  /\ ~ (child'[c].reply # "none" /\ chan'[Home(c)][n].child = c)
             /\ slot[Home(c)] # c
             /\ chan'[Home(c)][n].child = c =>
                  \A m \in n + 1 .. Len(chan'[Home(c)]) : chan'[Home(c)][m].says # "approval"
  <2>1. n \in 1 .. Len(chan[Home(c)]) /\ chan'[Home(c)][n] = chan[Home(c)][n] /\ Question(Home(c), n)
    <3>1. Home(c) \in Sessions
      BY <1>1
    <3> QED
      BY <1>2, <1>7, <3>1
  <2>2. child'[c] = child[c] /\ At(c, "asked")
    BY <1>4, <1>7
  <2>3. ~ (child'[c].reply # "none" /\ chan'[Home(c)][n].child = c) /\ slot[Home(c)] # c
    BY <2>1, <2>2 DEF AskInv, QuestionOf
  <2>4. ASSUME chan'[Home(c)][n].child = c, NEW m \in n + 1 .. Len(chan'[Home(c)]),
               chan'[Home(c)][m].says = "approval"
        PROVE  FALSE
    <3>1. m \in n + 1 .. Len(chan[Home(c)]) /\ Question(Home(c), m)
      <4>1. Home(c) \in Sessions /\ Len(chan[Home(c)]) \in Nat /\ Len(chan'[Home(c)]) \in Nat
        BY <1>1
      <4>2. m \in 1 .. Len(chan'[Home(c)])
        BY <2>1, <2>4, <4>1
      <4>3. m \in 1 .. Len(chan[Home(c)]) /\ Question(Home(c), m)
        BY <1>2, <2>4, <4>1, <4>2
      <4> QED
        BY <2>1, <2>4, <4>1, <4>3
    <3> QED
      BY <2>1, <2>2, <2>4, <3>1 DEF AskInv, QuestionOf
  <2> QED
    BY <2>3, <2>4
<1>8. ASSUME NEW c \in Children, child'[c].at = "asked", child'[c].reply # "none"
      PROVE  slot[Home(c)] # c
  BY <1>4, <1>8 DEF AskInv
<1>9. \A c \in Children : Home(c)' = Home(c)
  BY <1>1
<1> QED
  BY <1>1, <1>5, <1>6, <1>7, <1>8 DEF AskInv, Question, QuestionOf, At, Home

\* Each step of a child but the question itself is such a step.
LEMMA ChildStepAsk ==
  ASSUME IInv, AskInv, NEW c \in Children, ChildStep(c), ~ Ask(c)
  PROVE  AskInv'
<1>1. /\ Local(c, child'[c], stored'[c], last'[c]) /\ Shape
      /\ child \in [Children -> Futures] /\ chan \in [Sessions -> Seq(Events)]
      /\ \A s \in Sessions : Len(chan[s]) \in Nat
  BY ChildStepIsLocal, LenProperties DEF IInv, Shape
<1>2. \A d \in Children \ {c} : child'[d] = child[d]
  BY <1>1 DEF Local
<1>3. /\ child'[c].at \notin {"asked", "locked"} \/ Lock(c)
      /\ child[c].at \notin {"asked", "ended"} \/ (At(c, "asked") /\ child[c].reply # "none")
      /\ lock' = lock \/ (lock = c /\ lock' = NoChild) \/ Lock(c)
      /\ chan' = chan \/ \E says \in Says \ {"approval"} : Emit(c, says)
  <2>1. /\ Fresh("ended").at = "ended"
        /\ {"ended", "created", "queued", "turn", "lock", "locked", "tool", "written",
            "settled"} \subseteq Places
        /\ {"completed", "failed", "turn_limit", "timed_out"} \subseteq Terminal
        /\ {"queued", "active"} \cup Terminal \subseteq Says \ {"approval"}
    BY FreshFacts DEF Places, Terminal, Says
  <2>2. /\ \A place \in Places : Goto(c, place) => child'[c].at = place
        /\ \A status \in Terminal : Close(c, status) => child'[c].at = "closing"
    BY <1>1, GotoFacts, CloseFacts
  <2>3. CASE CallFails(c)
    BY <1>1, <2>1, <2>3 DEF CallFails, At
  <2>4. CASE Create(c)
    BY <2>1, <2>2, <2>4 DEF Create, At
  <2>5. CASE Announce(c)
    BY <2>1, <2>2, <2>5 DEF Announce, At
  <2>6. CASE TakePlace(c)
    BY <2>1, <2>2, <2>6 DEF TakePlace, At
  <2>7. CASE BeginTurn(c)
    <3>1. /\ child[c].at = "turn" /\ lock' = lock
          /\ chan' = chan \/ \E says \in Says \ {"approval"} : Emit(c, says)
      BY <2>1, <2>7 DEF BeginTurn, At
    <3>2. CASE \E status \in Terminal : Close(c, status)
      BY <2>2, <3>1, <3>2
    <3>3. CASE child' = [child EXCEPT ![c].at = "streaming",
                                      ![c].limit = IF Has("limited") THEN @ - 1 ELSE @]
      <4>1. child'[c].at = "streaming"
        BY <1>1, <3>3 DEF Futures
      <4> QED
        BY <3>1, <4>1
    <3> QED
      BY <2>1, <2>7, <3>2, <3>3 DEF BeginTurn
  <2>8. CASE Answered(c)
    <3>1. /\ child[c].at = "streaming" /\ lock' = lock /\ chan' = chan
      BY <2>8 DEF Answered, At
    <3>2. CASE Close(c, "completed")
      BY <2>1, <2>2, <3>1, <3>2
    <3>3. ASSUME NEW call, NEW time,
                 child' = [child EXCEPT ![c].at = "calls", ![c].call = call,
                                        ![c].budget = Left(c, time)]
          PROVE  child'[c].at = "calls"
      BY <1>1, <3>3 DEF Futures
    <3> QED
      BY <2>8, <3>1, <3>2, <3>3 DEF Answered
  <2>9. CASE StreamFails(c)
    <3>1. child'[c].at \in {"closing", "full"}
      BY <1>1, <2>9, StreamFailsFacts
    <3> QED
      BY <2>9, <3>1 DEF StreamFails, At
  <2>10. CASE Consider(c)
    BY <2>1, <2>2, <2>10 DEF Consider, Output, At
  <2>11. CASE Lock(c)
    BY <2>1, <2>2, <2>11 DEF Lock, At
  <2>12. CASE Resume(c)
    BY <2>1, <2>2, <2>12 DEF Resume, Output, At
  <2>13. CASE FinishTool(c)
    BY <2>1, <2>2, <2>13 DEF FinishTool, Output, At
  <2>14. CASE WriteAnswer(c)
    BY <2>1, <2>2, <2>14 DEF WriteAnswer, At
  <2>15. CASE Settle(c)
    BY <2>1, <2>2, <2>15 DEF Settle, At
  <2>16. CASE End(c)
    <3>1. child[c].at = "settled" /\ child[c].ending \in Terminal
      BY <2>16 DEF End, At, IInv, Agree
    <3>2. child'[c].at = "ended"
      BY <1>1, <2>1, <2>16 DEF End
    <3> QED
      BY <2>1, <2>16, <3>1, <3>2 DEF End
  <2> QED
    BY <2>3, <2>4, <2>5, <2>6, <2>7, <2>8, <2>9, <2>10, <2>11, <2>12, <2>13, <2>14, <2>15, <2>16
    DEF ChildStep
<1>4. CASE Lock(c)
  <2>1. lock = NoChild /\ lock' = c /\ child'[c].at = "locked" /\ chan' = chan
    <3>1. "locked" \in Places
      BY DEF Places
    <3> QED
      BY <1>1, <1>4, <3>1, GotoFacts DEF Lock, MayAsk
  <2>2. \A d \in Children : child'[d].at \in {"locked", "asked"} => lock' = d
    BY <1>2, <2>1, ConstantFacts DEF AskInv
  <2> QED
    BY <1>1, <1>2, <1>3, <2>1, <2>2, QuietAsk DEF Local
<1>5. CASE ~ Lock(c)
  <2>1. \A d \in Children : child'[d].at \in {"locked", "asked"} => lock' = d
    BY <1>2, <1>3, <1>5, ConstantFacts DEF AskInv
  <2>2. ASSUME NEW s \in Sessions
        PROVE  /\ Len(chan[s]) <= Len(chan'[s]) /\ Len(chan'[s]) \in Nat
               /\ \A n \in 1 .. Len(chan[s]) : chan'[s][n] = chan[s][n]
               /\ \A n \in Len(chan[s]) + 1 .. Len(chan'[s]) : chan'[s][n].says # "approval"
    <3>1. CASE chan' = chan
      BY <1>1, <3>1
    <3>2. ASSUME NEW says \in Says \ {"approval"}, Emit(c, says)
          PROVE  /\ Len(chan[s]) <= Len(chan'[s]) /\ Len(chan'[s]) \in Nat
                 /\ \A n \in 1 .. Len(chan[s]) : chan'[s][n] = chan[s][n]
                 /\ \A n \in Len(chan[s]) + 1 .. Len(chan'[s]) : chan'[s][n].says # "approval"
      <4>1. /\ Len(chan'[Home(c)]) = Len(chan[Home(c)]) + 1
            /\ chan'[Home(c)][Len(chan[Home(c)]) + 1] = [child |-> c, says |-> says]
            /\ \A n \in 1 .. Len(chan[Home(c)]) : chan'[Home(c)][n] = chan[Home(c)][n]
            /\ \A x \in Sessions \ {Home(c)} : chan'[x] = chan[x]
        BY <1>1, <3>2, EmitFacts
      <4>2. CASE s = Home(c)
        BY <1>1, <3>2, <4>1, <4>2
      <4>3. CASE s # Home(c)
        BY <1>1, <4>1, <4>3
      <4> QED
        BY <4>2, <4>3
    <3> QED
      BY <1>3, <3>1, <3>2
  <2>3. \A d \in Children :
          \/ child'[d] = child[d]
          \/ child'[d].at = "ended"
          \/ /\ child'[d].at # "asked"
             /\ \/ child[d].at \notin {"asked", "ended"}
                \/ At(d, "asked") /\ child[d].reply # "none"
    BY <1>2, <1>3, <1>5
  <2> QED
    BY <1>1, <2>1, <2>2, <2>3, QuietAsk DEF Local
<1> QED
  BY <1>4, <1>5

\* The question itself: its child holds the lock and has no other.
LEMMA AskAsk == \A c \in Children : IInv /\ AskInv /\ Ask(c) => AskInv'
<1> SUFFICES ASSUME IInv, AskInv, NEW c \in Children, Ask(c) PROVE AskInv'
  OBVIOUS
<1> DEFINE h == Home(c)
           len == Len(chan[h])
<1>1. /\ Shape /\ child \in [Children -> Futures] /\ child[c].at = "locked"
      /\ child' = [child EXCEPT ![c].at = "asked", ![c].reply = "none"]
      /\ Emit(c, "approval") /\ UNCHANGED <<profile, lock, slot>>
  BY DEF IInv, Shape, Ask, At
<1>2. "approval" \in Says
  BY DEF Says
<1>3. /\ chan' \in [Sessions -> Seq(Events)]
      /\ Len(chan'[h]) = len + 1 /\ chan'[h][len + 1] = [child |-> c, says |-> "approval"]
      /\ \A n \in 1 .. len : chan'[h][n] = chan[h][n]
      /\ \A s \in Sessions \ {h} : chan'[s] = chan[s]
  BY <1>1, <1>2, EmitFacts
<1>4. /\ h \in Sessions /\ len \in Nat /\ chan \in [Sessions -> Seq(Events)]
      /\ \A s \in Sessions : Len(chan[s]) \in Nat
      /\ \A d \in Children : Home(d)' = Home(d)
  BY <1>1, HomeFacts, LenProperties DEF Shape, Home
<1> HIDE DEF h, len
<1>5. child'[c].at = "asked" /\ child'[c].reply = "none"
  BY <1>1 DEF Futures
<1>6. \A d \in Children \ {c} : child'[d] = child[d] /\ child[d].at \notin {"locked", "asked"}
  BY <1>1 DEF AskInv
<1>7. /\ \A s \in Sessions : \A n \in 1 .. Len(chan[s]) : ~ QuestionOf(s, n, c)
      /\ \A s \in Sessions : slot[s] # c
  BY <1>1, NoQuestion
<1>8. \A d \in Children : child'[d].at \in {"locked", "asked"} => lock' = d
  BY <1>1, <1>5, <1>6 DEF AskInv
<1>9. ASSUME NEW s \in Sessions, NEW n \in 1 .. Len(chan'[s]), chan'[s][n].says = "approval"
      PROVE  child'[chan'[s][n].child].at \in {"asked", "ended"}
  <2>1. CASE s = h /\ n = len + 1
    BY <1>3, <1>5, <2>1
  <2>2. CASE n \in 1 .. Len(chan[s]) /\ chan'[s][n] = chan[s][n]
    <3>1. chan[s][n] \in Events /\ Question(s, n)
      BY <1>4, <1>9, <2>2, ElementOfSeq DEF Question
    <3>2. child[chan[s][n].child].at \in {"asked", "ended"}
      BY <2>2, <3>1 DEF AskInv
    <3> QED
      BY <1>5, <1>6, <2>2, <3>1, <3>2 DEF Events
  <2> QED
    BY <1>3, <1>4, <1>9, <2>1, <2>2 DEF len
<1>10. ASSUME NEW s \in Sessions, slot'[s] # NoChild
       PROVE  /\ slot'[s] \in Children /\ Home(slot'[s]) = s
              /\ child'[slot'[s]].at \in {"asked", "ended"}
  <2>1. slot'[s] = slot[s] /\ slot[s] \in Children \ {c}
    BY <1>1, <1>7, <1>10 DEF Shape
  <2> QED
    BY <1>6, <1>10, <2>1 DEF AskInv
<1>11. \A d \in Children : child'[d].at = "asked" => d = c
  BY <1>6
<1>12. ASSUME NEW n \in 1 .. Len(chan'[h]), chan'[h][n].child = c,
              chan'[h][n].says = "approval", NEW m \in n + 1 .. Len(chan'[h])
       PROVE  FALSE
  <2>1. n \in 1 .. len
    BY <1>3, <1>4, <1>12
  <2> QED
    BY <1>3, <1>4, <1>7, <1>12, <2>1 DEF QuestionOf, Question, len
<1>13. \A x, n : /\ Question(x, n)' <=> chan'[x][n].says = "approval"
                 /\ \A d : QuestionOf(x, n, d)' <=>
                          chan'[x][n].says = "approval" /\ chan'[x][n].child = d
  BY DEF Question, QuestionOf
<1>14. \A d \in Children : At(d, "asked")' =>
         d = c /\ Home(d)' = h /\ child'[d].reply = "none" /\ slot'[h] # d
  BY <1>1, <1>4, <1>5, <1>7, <1>11 DEF At, h
<1>15. \A d \in Children : At(d, "asked")' =>
         \A n \in 1 .. Len(chan'[Home(d)']) : QuestionOf(Home(d), n, d)' =>
           \A m \in n + 1 .. Len(chan'[Home(d)']) : ~ Question(Home(d), m)'
  BY <1>12, <1>13, <1>14
<1>16. \A s \in Sessions : \A n \in 1 .. Len(chan'[s]) :
         Question(s, n)' => child'[chan'[s][n].child].at \in {"asked", "ended"}
  BY <1>9, <1>13
<1>17. \A s \in Sessions : slot'[s] # NoChild =>
         Home(slot[s])' = s /\ child'[slot'[s]].at \in {"asked", "ended"}
  BY <1>1, <1>10 DEF Home
<1> QED
  BY <1>4, <1>8, <1>14, <1>15, <1>16, <1>17 DEF AskInv, At

\* An answer takes the question off the screen.
LEMMA AnswerAsk ==
  ASSUME IInv, AskInv, NEW s \in Sessions, NEW answer \in {"yes", "no"},
         child' = Replied(slot[s], answer), slot' = [slot EXCEPT ![s] = NoChild],
         UNCHANGED <<profile, lock, chan>>
  PROVE  AskInv'
<1>1. /\ child \in [Children -> Futures] /\ slot \in [Sessions -> Children \cup {NoChild}]
      /\ slot[s] \in Children \cup {NoChild}
      /\ \A c \in Children : Home(c) \in Sessions /\ Home(c)' = Home(c)
  BY HomeFacts DEF IInv, Shape, Home
<1>2. /\ \A c \in Children : child'[c].at = child[c].at
      /\ \A c \in Children : child'[c] = child[c] \/ (c = slot[s] /\ At(c, "asked"))
  BY <1>1, RepliedFacts DEF At
<1>3. /\ slot'[s] = NoChild
      /\ \A x \in Sessions : slot'[x] = slot[x] \/ (x = s /\ slot'[x] = NoChild)
  BY <1>1
<1>4. ASSUME NEW x \in Sessions, NEW n \in 1 .. Len(chan[x]), Question(x, n)
      PROVE  child'[chan[x][n].child].at \in {"asked", "ended"}
  <2>1. chan[x][n] \in Events
    BY <1>4, ElementOfSeq DEF IInv, Shape
  <2> QED
    BY <1>2, <1>4, <2>1 DEF AskInv, Events
<1>5. ASSUME NEW c \in Children, child'[c].at = "asked", child'[c].reply # "none"
      PROVE  /\ slot'[Home(c)] # c
             /\ \A n \in 1 .. Len(chan[Home(c)]) : ~ QuestionOf(Home(c), n, c)
  <2>1. CASE child'[c] = child[c]
    BY <1>1, <1>3, <1>5, <2>1, ConstantFacts DEF AskInv, At
  <2>2. CASE c = slot[s] /\ At(c, "asked")
    <3>1. Home(c) = s
      BY <2>2, ConstantFacts DEF AskInv
    <3> QED
      BY <1>3, <2>2, <3>1, ConstantFacts DEF AskInv, QuestionOf
  <2> QED
    BY <1>2, <2>1, <2>2
<1>6. ASSUME NEW c \in Children, child'[c].at = "asked", slot'[Home(c)] = c
      PROVE  slot[Home(c)] = c
  BY <1>1, <1>3, <1>6, ConstantFacts
<1>7. ASSUME NEW x \in Sessions, slot'[x] # NoChild
      PROVE  /\ slot'[x] \in Children /\ Home(slot'[x]) = x
             /\ child'[slot'[x]].at \in {"asked", "ended"}
  <2>1. slot'[x] = slot[x] /\ slot[x] \in Children
    BY <1>1, <1>3, <1>7
  <2> QED
    BY <1>1, <1>2, <1>7, <2>1 DEF AskInv
<1>8. \A c \in Children : child'[c].at \in {"locked", "asked"} => lock' = c
  BY <1>2 DEF AskInv
<1>9. \A c \in Children : child'[c].at = "asked" => At(c, "asked")
  BY <1>2 DEF At
<1>10. \A x, n : /\ Question(x, n)' = Question(x, n)
                 /\ \A c : QuestionOf(x, n, c)' = QuestionOf(x, n, c)
  BY DEF Question, QuestionOf
<1>11. \A c \in Children : At(c, "asked") =>
         \A n \in 1 .. Len(chan[Home(c)]) : QuestionOf(Home(c), n, c) =>
           \A m \in n + 1 .. Len(chan[Home(c)]) : ~ Question(Home(c), m)
  BY DEF AskInv
<1>12. \A c \in Children : child'[c].at = "asked" /\ slot'[Home(c)] = c =>
         \A n \in 1 .. Len(chan[Home(c)]) : ~ Question(Home(c), n)
  BY <1>6, <1>9 DEF AskInv
<1> QED
  BY <1>1, <1>4, <1>5, <1>7, <1>8, <1>9, <1>10, <1>11, <1>12
  DEF AskInv, Question, QuestionOf, At, Home

\* A question that is shown displaces none that is waited on.
LEMMA HandleAsk ==
  ASSUME IInv, AskInv, NEW s \in Sessions, Handle(s)
  PROVE  AskInv' /\ UNCHANGED child
<1> DEFINE event == Head(chan[s])
<1>1. /\ Shape /\ chan[s] # << >> /\ chan' = [chan EXCEPT ![s] = Tail(@)]
      /\ UNCHANGED <<profile, lock>> /\ slot \in [Sessions -> Children \cup {NoChild}]
  BY DEF IInv, Shape, Handle
<1>2. /\ event \in Events /\ event = chan[s][1]
      /\ Len(chan[s]) \in Nat \ {0} /\ Len(chan'[s]) = Len(chan[s]) - 1
      /\ \A n \in 1 .. Len(chan'[s]) : chan'[s][n] = chan[s][n + 1]
      /\ \A x \in Sessions \ {s} : chan'[x] = chan[x]
  BY <1>1, TailFacts
<1>3. event.child \in Children /\ Home(event.child) = s
  BY <1>2 DEF IInv, EventsTrue, EventTrue, Events
<1>4. \/ /\ event.says = "approval"
         /\ child' = IF slot[s] = event.child THEN child ELSE Replied(slot[s], "lost")
         /\ slot' = [slot EXCEPT ![s] = event.child]
      \/ /\ event.says # "approval"
         /\ UNCHANGED <<child, slot>>
  BY DEF Handle
<1> HIDE DEF event
<1>5. event.says = "approval" =>
        /\ Question(s, 1) /\ QuestionOf(s, 1, event.child)
        /\ child[event.child].at \in {"asked", "ended"}
  BY <1>2 DEF Question, QuestionOf, AskInv
<1>6. child' = child
  <2>1. CASE event.says = "approval" /\ slot[s] # event.child
    <3>1. ~ (slot[s] # NoChild /\ At(slot[s], "asked"))
      <4> SUFFICES ASSUME slot[s] # NoChild, At(slot[s], "asked") PROVE FALSE
        OBVIOUS
      <4>1. slot[s] \in Children /\ Home(slot[s]) = s
        BY <1>1 DEF AskInv
      <4>2. ~ Question(s, 1)
        BY <1>2, <4>1 DEF AskInv
      <4> QED
        BY <1>5, <2>1, <4>2
    <3> QED
      BY <1>4, <2>1, <3>1 DEF Replied
  <2> QED
    BY <1>4, <2>1
<1>7. /\ \A c \in Children : Home(c) \in Sessions /\ Home(c)' = Home(c)
      /\ \A x \in Sessions : Len(chan[x]) \in Nat
  BY <1>1, HomeFacts, LenProperties DEF Shape, Home
<1>8. ASSUME NEW x \in Sessions, NEW n \in 1 .. Len(chan'[x])
      PROVE  \/ x = s /\ n + 1 \in 1 .. Len(chan[x]) /\ chan'[x][n] = chan[x][n + 1]
             \/ x # s /\ n \in 1 .. Len(chan[x]) /\ chan'[x][n] = chan[x][n]
  <2>1. CASE x = s
    BY <1>2, <1>8, <2>1
  <2>2. CASE x # s
    BY <1>2, <1>8, <2>2
  <2> QED
    BY <2>1, <2>2
<1>9. ASSUME NEW x \in Sessions, NEW n \in 1 .. Len(chan'[x]), chan'[x][n].says = "approval"
      PROVE  child[chan'[x][n].child].at \in {"asked", "ended"}
  BY <1>8, <1>9 DEF AskInv, Question
<1>10. ASSUME NEW x \in Sessions, slot'[x] # NoChild
       PROVE  Home(slot'[x]) = x /\ slot'[x] \in Children /\ child[slot'[x]].at \in {"asked", "ended"}
  <2>1. CASE event.says = "approval" /\ x = s
    BY <1>1, <1>3, <1>4, <1>5, <2>1
  <2>2. CASE slot'[x] = slot[x]
    BY <1>1, <1>10, <2>2 DEF AskInv
  <2> QED
    BY <1>1, <1>4, <2>1, <2>2
<1>11. ASSUME NEW c \in Children, At(c, "asked"), child[c].reply # "none"
       PROVE  /\ slot'[Home(c)] # c
              /\ \A n \in 1 .. Len(chan'[Home(c)]) :
                   ~ (chan'[Home(c)][n].says = "approval" /\ chan'[Home(c)][n].child = c)
  <2>1. /\ slot[Home(c)] # c /\ Home(c) \in Sessions
        /\ \A n \in 1 .. Len(chan[Home(c)]) : ~ QuestionOf(Home(c), n, c)
    BY <1>7, <1>11 DEF AskInv
  <2>2. ~ (event.says = "approval" /\ event.child = c)
    BY <1>2, <1>3, <1>5, <2>1
  <2>3. slot'[Home(c)] # c
    BY <1>1, <1>4, <2>1, <2>2
  <2> QED
    BY <1>8, <2>1, <2>3 DEF QuestionOf, Question
<1>12. ASSUME NEW c \in Children, At(c, "asked"), slot'[Home(c)] = c,
              NEW n \in 1 .. Len(chan'[Home(c)]), chan'[Home(c)][n].says = "approval"
       PROVE  FALSE
  <2>1. Home(c) \in Sessions
    BY <1>7
  <2>2. CASE slot[Home(c)] = c
    <3>1. \A m \in 1 .. Len(chan[Home(c)]) : ~ Question(Home(c), m)
      BY <1>12, <2>2 DEF AskInv
    <3> QED
      BY <1>8, <1>12, <2>1, <3>1 DEF Question
  <2>3. CASE slot[Home(c)] # c
    <3>1. event.says = "approval" /\ event.child = c /\ Home(c) = s
      BY <1>1, <1>3, <1>4, <1>12, <2>1, <2>3
    <3>2. \A m \in 1 + 1 .. Len(chan[s]) : ~ Question(s, m)
      BY <1>2, <1>5, <1>12, <3>1 DEF AskInv
    <3>3. n \in Nat \ {0} /\ n + 1 \in 1 .. Len(chan[s]) /\ Question(s, n + 1)
      BY <1>8, <1>12, <2>1, <3>1 DEF Question
    <3> QED
      BY <1>2, <3>2, <3>3
  <2> QED
    BY <2>2, <2>3
<1>13. ASSUME NEW c \in Children, At(c, "asked"), NEW n \in 1 .. Len(chan'[Home(c)]),
              chan'[Home(c)][n].says = "approval", chan'[Home(c)][n].child = c,
              NEW m \in n + 1 .. Len(chan'[Home(c)]), chan'[Home(c)][m].says = "approval"
       PROVE  FALSE
  <2>1. Home(c) \in Sessions /\ Len(chan[Home(c)]) \in Nat /\ Len(chan'[Home(c)]) \in Nat
    BY <1>2, <1>7
  <2>2. m \in 1 .. Len(chan'[Home(c)]) /\ n < m /\ n \in Nat /\ m \in Nat
    BY <1>13, <2>1
  <2>3. CASE Home(c) = s
    <3>1. QuestionOf(s, n + 1, c) /\ n + 1 \in 1 .. Len(chan[s])
      BY <1>2, <1>13, <2>1, <2>2, <2>3 DEF QuestionOf, Question
    <3>2. Question(s, m + 1) /\ m + 1 \in (n + 1) + 1 .. Len(chan[s])
      BY <1>2, <1>13, <2>1, <2>2, <2>3 DEF Question
    <3> QED
      BY <1>13, <2>3, <3>1, <3>2 DEF AskInv
  <2>4. CASE Home(c) # s
    <3>1. chan'[Home(c)] = chan[Home(c)]
      BY <1>2, <2>1, <2>4
    <3>2. QuestionOf(Home(c), n, c) /\ Question(Home(c), m)
      BY <1>13, <3>1 DEF QuestionOf, Question
    <3> QED
      BY <1>13, <3>1, <3>2 DEF AskInv
  <2> QED
    BY <2>3, <2>4
<1>14. /\ \A x, n : /\ Question(x, n)' <=> chan'[x][n].says = "approval"
                    /\ \A c : QuestionOf(x, n, c)' <=>
                             chan'[x][n].says = "approval" /\ chan'[x][n].child = c
       /\ \A c \in Children : At(c, "asked")' <=> At(c, "asked")
  BY <1>6 DEF Question, QuestionOf, At
<1>15. \A x \in Sessions : slot'[x] # NoChild =>
         Home(slot[x])' = x /\ child'[slot'[x]].at \in {"asked", "ended"}
  BY <1>1, <1>6, <1>10 DEF Home
<1>16. \A c \in Children : child'[c].at \in {"locked", "asked"} => lock' = c
  BY <1>1, <1>6 DEF AskInv
<1>17. \A c \in Children : At(c, "asked")' /\ child'[c].reply # "none" =>
         /\ slot'[Home(c)'] # c
         /\ \A n \in 1 .. Len(chan'[Home(c)']) : ~ QuestionOf(Home(c), n, c)'
  BY <1>6, <1>7, <1>11, <1>14
<1>18. \A c \in Children : At(c, "asked")' /\ slot'[Home(c)'] = c =>
         \A n \in 1 .. Len(chan'[Home(c)']) : ~ Question(Home(c), n)'
  BY <1>7, <1>12, <1>14
<1>19. \A c \in Children : At(c, "asked")' =>
         \A n \in 1 .. Len(chan'[Home(c)']) : QuestionOf(Home(c), n, c)' =>
           \A m \in n + 1 .. Len(chan'[Home(c)']) : ~ Question(Home(c), m)'
  BY <1>7, <1>13, <1>14
<1> QED
  BY <1>6, <1>9, <1>14, <1>15, <1>16, <1>17, <1>18, <1>19 DEF AskInv

LEMMA AbortAsk == \A r \in Rounds : IInv /\ AskInv /\ Abort(r) => AskInv'
<1> SUFFICES ASSUME IInv, AskInv, NEW r \in Rounds, Abort(r) PROVE AskInv'
  OBVIOUS
<1> DEFINE s == profile.home[r]
           dropped == {c \in Of(r) : Guarded(c)}
<1>1. /\ Shape /\ UNCHANGED <<profile, slot>> /\ \A x \in Sessions : Len(chan[x]) \in Nat
      /\ child' = [c \in Children |-> IF c \in Of(r) THEN Fresh("ended") ELSE child[c]]
      /\ lock' = IF lock \in dropped THEN NoChild ELSE lock
  BY LenProperties DEF IInv, Shape, Abort
<1>2. /\ s \in Sessions /\ Len(chan'[s]) \in Nat /\ Len(chan[s]) <= Len(chan'[s])
      /\ \A n \in 1 .. Len(chan[s]) : chan'[s][n] = chan[s][n]
      /\ \A n \in Len(chan[s]) + 1 .. Len(chan'[s]) : chan'[s][n].says = "cancelled"
      /\ \A x \in Sessions \ {s} : chan'[x] = chan[x]
  BY <1>1, AbortFacts
<1>3. dropped \subseteq Of(r)
  OBVIOUS
<1> HIDE DEF s, dropped
<1>4. Fresh("ended").at = "ended"
  BY FreshFacts DEF Places
<1>5. ASSUME NEW c \in Children
      PROVE  child'[c] = child[c] \/ child'[c].at = "ended"
  BY <1>1, <1>4
<1>6. ASSUME NEW c \in Children, child'[c].at \in {"locked", "asked"}
      PROVE  lock' = c
  <2>1. c \notin Of(r) /\ child'[c] = child[c]
    BY <1>1, <1>4, <1>6
  <2> QED
    BY <1>1, <1>3, <1>6, <2>1 DEF AskInv
<1>7. ASSUME NEW x \in Sessions
      PROVE  /\ Len(chan[x]) <= Len(chan'[x]) /\ Len(chan'[x]) \in Nat
             /\ \A n \in 1 .. Len(chan[x]) : chan'[x][n] = chan[x][n]
             /\ \A n \in Len(chan[x]) + 1 .. Len(chan'[x]) : chan'[x][n].says # "approval"
  <2>1. CASE x = s
    BY <1>1, <1>2, <2>1
  <2>2. CASE x # s
    BY <1>1, <1>2, <2>2
  <2> QED
    BY <2>1, <2>2
<1> QED
  BY <1>1, <1>5, <1>6, <1>7, QuietAsk

LEMMA SendLateAsk == \A c \in Children : IInv /\ AskInv /\ SendLate(c) => AskInv'
<1> SUFFICES ASSUME IInv, AskInv, NEW c \in Children, SendLate(c) PROVE AskInv'
  OBVIOUS
<1>1. /\ Shape /\ Emit(c, "cancelled") /\ UNCHANGED <<profile, child, lock, slot>>
      /\ \A s \in Sessions : Len(chan[s]) \in Nat
  BY LenProperties DEF IInv, Shape, SendLate
<1>2. "cancelled" \in Says
  BY DEF Says, Terminal
<1>3. /\ Len(chan'[Home(c)]) = Len(chan[Home(c)]) + 1
      /\ chan'[Home(c)][Len(chan[Home(c)]) + 1] = [child |-> c, says |-> "cancelled"]
      /\ \A n \in 1 .. Len(chan[Home(c)]) : chan'[Home(c)][n] = chan[Home(c)][n]
      /\ \A s \in Sessions \ {Home(c)} : chan'[s] = chan[s]
  BY <1>1, <1>2, EmitFacts
<1>4. ASSUME NEW s \in Sessions
      PROVE  /\ Len(chan[s]) <= Len(chan'[s]) /\ Len(chan'[s]) \in Nat
             /\ \A n \in 1 .. Len(chan[s]) : chan'[s][n] = chan[s][n]
             /\ \A n \in Len(chan[s]) + 1 .. Len(chan'[s]) : chan'[s][n].says # "approval"
  <2>1. CASE s = Home(c)
    BY <1>1, <1>3, <2>1
  <2>2. CASE s # Home(c)
    BY <1>1, <1>3, <2>2
  <2> QED
    BY <2>1, <2>2
<1>5. \A d \in Children : child'[d].at \in {"locked", "asked"} => lock' = d
  BY <1>1 DEF AskInv
<1> QED
  BY <1>1, <1>4, <1>5, QuietAsk

LEMMA SpawnAsk == \A r \in Rounds : IInv /\ AskInv /\ (Spawn(r) \/ Collect(r)) => AskInv'
<1> SUFFICES ASSUME IInv, AskInv, NEW r \in Rounds, Spawn(r) \/ Collect(r) PROVE AskInv'
  OBVIOUS
<1>1. Fresh("called").at = "called"
  BY FreshFacts DEF Places
<1>2. ASSUME NEW c \in Children
      PROVE  child'[c] = child[c] \/ (child'[c].at = "called" /\ child[c].at = "none")
  BY <1>1 DEF Spawn, Collect, IInv, Of, At
<1>3. /\ UNCHANGED <<profile, lock, chan, slot>> /\ \A s \in Sessions : Len(chan[s]) \in Nat
  BY LenProperties DEF IInv, Shape, Spawn, Collect
<1>4. \A c \in Children : child'[c].at \in {"locked", "asked"} => lock' = c
  BY <1>2, <1>3 DEF AskInv
<1>5. \A s \in Sessions :
        /\ Len(chan[s]) <= Len(chan'[s]) /\ Len(chan'[s]) \in Nat
        /\ \A n \in 1 .. Len(chan[s]) : chan'[s][n] = chan[s][n]
        /\ \A n \in Len(chan[s]) + 1 .. Len(chan'[s]) : chan'[s][n].says # "approval"
  BY <1>3
<1>6. \A c \in Children :
        \/ child'[c] = child[c]
        \/ child'[c].at # "asked" /\ child[c].at \notin {"asked", "ended"}
  BY <1>2
<1> QED
  BY <1>3, <1>4, <1>5, <1>6, QuietAsk

\* A dead process has no questions.
LEMMA DieAsk == IInv /\ Die => AskInv'
<1> SUFFICES ASSUME IInv, Die PROVE AskInv'
  OBVIOUS
<1>1. \A c \in Children : child'[c].at \in {"none", "ended"}
  BY FreshFacts DEF Die, At, Places
<1>2. \A s \in Sessions : Len(chan'[s]) = 0 /\ slot'[s] = NoChild
  BY EmptySeq DEF Die
<1> QED
  BY <1>1, <1>2 DEF AskInv, At

LEMMA InitAsk == Init => AskInv
<1> SUFFICES ASSUME Init PROVE AskInv
  OBVIOUS
<1>1. \A c \in Children : child[c].at = "none"
  BY FreshFacts DEF Init, Places
<1>2. \A s \in Sessions : Len(chan[s]) = 0 /\ slot[s] = NoChild
  BY EmptySeq DEF Init
<1> QED
  BY <1>1, <1>2 DEF AskInv, At

LEMMA NextAsk == IInv /\ AskInv /\ [Next]_vars => AskInv'
<1> SUFFICES ASSUME IInv, AskInv, [Next]_vars PROVE AskInv'
  OBVIOUS
<1>1. ASSUME NEW r \in Rounds, Collect(r) \/ Abort(r) \/ Spawn(r)
      PROVE  AskInv'
  BY <1>1, SpawnAsk, AbortAsk
<1>2. ASSUME NEW r \in Rounds, Cancel(r)
      PROVE  AskInv'
  <2>1. profile.home[r] \in Sessions
    BY HomeFacts DEF IInv, Shape
  <2> QED
    BY <1>2, <2>1, AnswerAsk DEF Cancel
<1>3. ASSUME NEW c \in Children, ChildStep(c) \/ SendLate(c)
      PROVE  AskInv'
  BY <1>3, ChildStepAsk, AskAsk, SendLateAsk
<1>4. ASSUME NEW s \in Sessions, Handle(s) \/ Reply(s)
      PROVE  AskInv'
  <2>1. CASE Reply(s)
    BY <1>4, <2>1, AnswerAsk DEF Reply
  <2> QED
    BY <1>4, <2>1, HandleAsk
<1>5. CASE Die
  BY <1>5, DieAsk
<1>6. CASE UNCHANGED vars
  BY <1>6 DEF vars, AskInv, Question, QuestionOf, At, Home
<1>7. CASE Startup
  <2>1. UNCHANGED <<profile, child, lock, chan, slot>>
    BY <1>7 DEF Startup, Start, Mark, Explain, Started, StartDies
  <2> QED
    BY <2>1 DEF AskInv, Question, QuestionOf, At, Home
<1> QED
  BY <1>1, <1>2, <1>3, <1>4, <1>5, <1>6, <1>7 DEF Next, Step

\* No step of a child loses its own reply.
LEMMA ReplyStays ==
  ASSUME IInv, NEW c \in Children, ChildStep(c)
  PROVE  child'[c].reply \in {child[c].reply, "none"}
<1>1. child \in [Children -> Futures] /\ child[c] \in Futures
  BY DEF IInv, Shape
<1>2. /\ \A place : Goto(c, place) => child'[c].reply = child[c].reply
      /\ \A status : Close(c, status) => child'[c].reply = child[c].reply
  BY <1>1 DEF Goto, Close, Futures
<1>3. \A place : child' = [child EXCEPT ![c] = Fresh(place)] => child'[c].reply = "none"
  BY <1>1 DEF Fresh
<1>4. CASE CallFails(c) \/ End(c)
  BY <1>3, <1>4 DEF CallFails, End
<1>5. CASE Create(c) \/ Announce(c) \/ TakePlace(c) \/ Consider(c) \/ Lock(c)
  BY <1>2, <1>5 DEF Create, Announce, TakePlace, Consider, Lock
<1>10. CASE StreamFails(c)
  BY <1>1, <1>10, StreamFailsFacts
<1>6. CASE BeginTurn(c)
  <2>1. CASE child' = [child EXCEPT ![c].at = "streaming",
                                    ![c].limit = IF Has("limited") THEN @ - 1 ELSE @]
    BY <1>1, <2>1 DEF Futures
  <2> QED
    BY <1>2, <1>6, <2>1 DEF BeginTurn
<1>7. CASE Answered(c)
  <2>1. ASSUME NEW call, NEW time,
               child' = [child EXCEPT ![c].at = "calls", ![c].call = call,
                                      ![c].budget = Left(c, time)]
        PROVE  child'[c].reply = child[c].reply
    BY <1>1, <2>1 DEF Futures
  <2> QED
    BY <1>2, <1>7, <2>1 DEF Answered
<1>8. CASE Ask(c)
  BY <1>1, <1>8 DEF Ask, Futures
<1>9. CASE Resume(c) \/ FinishTool(c) \/ WriteAnswer(c) \/ Settle(c)
  BY <1>2, <1>9 DEF Resume, FinishTool, WriteAnswer, Settle
<1> QED
  BY <1>4, <1>5, <1>6, <1>7, <1>8, <1>9, <1>10 DEF ChildStep

\* A question a child waits on is never displaced by another child's, whichever
\* sessions they belong to and whatever is cancelled meanwhile (agent/child.rs,
\* the approval lock; app.rs, the approval of a child).
THEOREM QuestionsStay == Spec => QuestionsKept
<1> DEFINE Kept == \A c \in Children : child'[c].reply = "lost" => child[c].reply = "lost"
<1>1. ASSUME IInv, AskInv, [Next]_vars
      PROVE  Kept
  <2> SUFFICES ASSUME NEW c \in Children, child'[c].reply = "lost"
               PROVE  child[c].reply = "lost"
    OBVIOUS
  <2>1. /\ child \in [Children -> Futures] /\ slot \in [Sessions -> Children \cup {NoChild}]
        /\ \A r \in Rounds : profile.home[r] \in Sessions
        /\ \A place : Fresh(place).reply = "none"
    BY <1>1, HomeFacts DEF IInv, Shape, Fresh
  <2>2. ASSUME NEW d \in Children, ChildStep(d)
        PROVE  child[c].reply = "lost"
    <3>1. child' = [child EXCEPT ![d] = child'[d]]
      BY <1>1, <2>2, ChildStepIsLocal DEF Local
    <3>2. child'[d].reply \in {child[d].reply, "none"}
      BY <1>1, <2>2, ReplyStays
    <3> QED
      BY <2>1, <3>1, <3>2
  <2>3. ASSUME NEW d \in Children \cup {NoChild}, NEW answer \in {"yes", "no"},
               child' = Replied(d, answer)
        PROVE  child[c].reply = "lost"
    <3>1. answer \in {"none", "yes", "no", "lost"} /\ answer # "lost"
      OBVIOUS
    <3>2. CASE d # c
      BY <2>1, <2>3, <3>1, <3>2, RepliedFacts
    <3>3. CASE d = c /\ child[c].at # "asked"
      BY <2>1, <2>3, <3>1, <3>3, RepliedFacts
    <3>4. CASE d = c /\ child[c].at = "asked"
      BY <2>1, <2>3, <3>1, <3>4, RepliedFacts
    <3> QED
      BY <3>2, <3>3, <3>4
  <2>4. ASSUME NEW r \in Rounds, Spawn(r) \/ Collect(r) \/ Cancel(r) \/ Abort(r)
        PROVE  child[c].reply = "lost"
    BY <2>1, <2>3, <2>4 DEF Spawn, Collect, Cancel, Abort
  <2>5. ASSUME NEW s \in Sessions, Handle(s) \/ Reply(s)
        PROVE  child[c].reply = "lost"
    BY <1>1, <2>1, <2>3, <2>5, HandleAsk DEF Reply
  <2>6. CASE Die \/ Startup
    BY <2>1, <2>6 DEF Die, Startup, Start, Mark, Explain, Started, StartDies
  <2> QED
    BY <1>1, <2>2, <2>4, <2>5, <2>6 DEF Next, Step, SendLate, vars
<1>2. IInv /\ AskInv /\ [Next]_vars => [Kept]_vars
  BY <1>1
<1>3. Spec => []AskInv
  <2>1. Spec => []IInv
    BY InductiveInvariant
  <2> QED
    BY <2>1, InitAsk, NextAsk, PTL DEF Spec
<1> QED
  BY <1>2, <1>3, InductiveInvariant, PTL DEF Spec, QuestionsKept

-----------------------------------------------------------------------------
(* What the application shows *)

\* The n-th event on its way to session s is c's.
EventOf(s, n, c) == chan[s][n].child = c

\* Nothing of c is on its way.
Silent(c) == \A n \in 1 .. Len(chan[Home(c)]) : ~ EventOf(Home(c), n, c)

\* The last word on its way about c is how it ended.
Told(c) ==
  \E n \in 1 .. Len(chan[Home(c)]) :
    /\ EventOf(Home(c), n, c)
    /\ \A m \in n .. Len(chan[Home(c)]) :
         EventOf(Home(c), m, c) => chan[Home(c)][m].says = stored[c]

ShownInv ==
  \A c \in Children :
    /\ child[c].at \in {"none", "called"} => Silent(c) /\ shown[c] = "none"
    /\ At(c, "ended") /\ c \notin late =>
         Told(c) \/ (Silent(c) /\ shown[c] \in {"none", stored[c]})

\* Events after those of this state.
Longer ==
  \A s \in Sessions :
    /\ Len(chan[s]) \in Nat /\ Len(chan'[s]) \in Nat /\ Len(chan[s]) <= Len(chan'[s])
    /\ \A n \in 1 .. Len(chan[s]) : chan'[s][n] = chan[s][n]

NoNew(c) ==
  \A n \in Len(chan[Home(c)]) + 1 .. Len(chan'[Home(c)]) : chan'[Home(c)][n].child # c

NewEnd(c) ==
  /\ \E n \in Len(chan[Home(c)]) + 1 .. Len(chan'[Home(c)]) : chan'[Home(c)][n].child = c
  /\ \A n \in Len(chan[Home(c)]) + 1 .. Len(chan'[Home(c)]) :
       chan'[Home(c)][n].child = c => chan'[Home(c)][n].says = stored'[c]

\* A step that handles nothing: a child that ends says so, or never said a word.
LEMMA QuietShown ==
  ASSUME IInv, ShownInv, UNCHANGED <<profile, shown>>, Longer,
         \A c \in Children : child'[c].at \in {"none", "called"} =>
           child[c].at \in {"none", "called"} /\ NoNew(c),
         \A c \in Children : child'[c].at = "ended" /\ c \notin late' =>
           \/ NewEnd(c)
           \/ NoNew(c) /\ child[c].at \in {"none", "called"}
           \/ NoNew(c) /\ child[c].at = "ended" /\ c \notin late /\ stored'[c] = stored[c]
  PROVE  ShownInv'
<1>1. \A c \in Children : Home(c) \in Sessions /\ Home(c)' = Home(c)
  BY HomeFacts DEF IInv, Shape, Home
<1> SUFFICES ASSUME NEW c \in Children
             PROVE  /\ child'[c].at \in {"none", "called"} => Silent(c)' /\ shown'[c] = "none"
                    /\ child'[c].at = "ended" /\ c \notin late' =>
                         Told(c)' \/ (Silent(c)' /\ shown'[c] \in {"none", stored'[c]})
  BY DEF ShownInv, At
<1> DEFINE h == Home(c)
<1>2. /\ Len(chan[h]) \in Nat /\ Len(chan'[h]) \in Nat /\ Len(chan[h]) <= Len(chan'[h])
      /\ \A n \in 1 .. Len(chan[h]) : chan'[h][n] = chan[h][n]
      /\ h' = h
  BY <1>1 DEF Longer
<1>3. /\ Silent(c) <=> \A n \in 1 .. Len(chan[h]) : chan[h][n].child # c
      /\ Silent(c)' <=> \A n \in 1 .. Len(chan'[h]) : chan'[h][n].child # c
  BY <1>2 DEF Silent, EventOf
<1>4. /\ Told(c) <=> \E n \in 1 .. Len(chan[h]) :
                       /\ chan[h][n].child = c
                       /\ \A m \in n .. Len(chan[h]) :
                            chan[h][m].child = c => chan[h][m].says = stored[c]
      /\ Told(c)' <=> \E n \in 1 .. Len(chan'[h]) :
                        /\ chan'[h][n].child = c
                        /\ \A m \in n .. Len(chan'[h]) :
                             chan'[h][m].child = c => chan'[h][m].says = stored'[c]
  BY <1>2 DEF Told, EventOf
<1>5. /\ NoNew(c) <=> \A n \in Len(chan[h]) + 1 .. Len(chan'[h]) : chan'[h][n].child # c
      /\ NewEnd(c) <=> /\ \E n \in Len(chan[h]) + 1 .. Len(chan'[h]) : chan'[h][n].child = c
                       /\ \A n \in Len(chan[h]) + 1 .. Len(chan'[h]) :
                            chan'[h][n].child = c => chan'[h][n].says = stored'[c]
  BY DEF NoNew, NewEnd
<1> HIDE DEF h
<1>6. ASSUME NoNew(c), Silent(c)
      PROVE  Silent(c)'
  BY <1>2, <1>3, <1>5, <1>6
<1>7. ASSUME child'[c].at \in {"none", "called"}
      PROVE  Silent(c)' /\ shown'[c] = "none"
  BY <1>6, <1>7 DEF ShownInv
<1>8. ASSUME child'[c].at = "ended", c \notin late'
      PROVE  Told(c)' \/ (Silent(c)' /\ shown'[c] \in {"none", stored'[c]})
  <2>1. CASE NewEnd(c)
    <3>1. PICK n \in Len(chan[h]) + 1 .. Len(chan'[h]) : chan'[h][n].child = c
      BY <1>5, <2>1
    <3>2. n \in 1 .. Len(chan'[h]) /\ n .. Len(chan'[h]) \subseteq Len(chan[h]) + 1 .. Len(chan'[h])
      BY <1>2, <3>1
    <3> QED
      BY <1>4, <1>5, <2>1, <3>1, <3>2
  <2>2. CASE NoNew(c) /\ child[c].at \in {"none", "called"}
    BY <1>6, <2>2 DEF ShownInv
  <2>3. CASE /\ NoNew(c) /\ child[c].at = "ended" /\ c \notin late
             /\ stored'[c] = stored[c]
    <3>1. CASE Told(c)
      <4>1. PICK n \in 1 .. Len(chan[h]) :
              /\ chan[h][n].child = c
              /\ \A m \in n .. Len(chan[h]) :
                   chan[h][m].child = c => chan[h][m].says = stored[c]
        BY <1>4, <3>1
      <4>2. n \in 1 .. Len(chan'[h]) /\ chan'[h][n].child = c
        BY <1>2, <4>1
      <4>3. ASSUME NEW m \in n .. Len(chan'[h]), chan'[h][m].child = c
            PROVE  chan'[h][m].says = stored'[c]
        <5>1. m \in n .. Len(chan[h]) /\ m \in 1 .. Len(chan[h])
          BY <1>2, <1>5, <2>3, <4>1, <4>3
        <5> QED
          BY <1>2, <2>3, <4>1, <4>3, <5>1
      <4> QED
        BY <1>4, <4>2, <4>3
    <3>2. CASE Silent(c) /\ shown[c] \in {"none", stored[c]}
      BY <1>6, <2>3, <3>2
    <3> QED
      BY <2>3, <3>1, <3>2 DEF ShownInv, At
  <2> QED
    BY <1>8, <2>1, <2>2, <2>3
<1> QED
  BY <1>7, <1>8

\* A child never starts again, and ends in one of two ways (or is dropped).
LEMMA ChildStepWhere ==
  ASSUME IInv, NEW c \in Children, ChildStep(c)
  PROVE  /\ child'[c].at \notin {"none", "called"}
         /\ child'[c].at = "ended" => CallFails(c) \/ End(c)
<1>1. child \in [Children -> Futures] /\ child[c] \in Futures
  BY DEF IInv, Shape
<1>2. /\ \A place : Goto(c, place) => child'[c].at = place
      /\ \A status : Close(c, status) => child'[c].at = "closing"
  BY <1>1 DEF Goto, Close, Futures
<1>3. \A place : child' = [child EXCEPT ![c] = Fresh(place)] => child'[c].at = place
  BY <1>1 DEF Fresh
<1>4. CASE CallFails(c) \/ End(c)
  BY <1>3, <1>4 DEF CallFails, End
<1>5. CASE Create(c) \/ Announce(c) \/ TakePlace(c) \/ Consider(c) \/ Lock(c)
  BY <1>2, <1>5 DEF Create, Announce, TakePlace, Consider, Lock
<1>10. CASE StreamFails(c)
  BY <1>1, <1>10, StreamFailsFacts
<1>6. CASE BeginTurn(c)
  <2>1. CASE child' = [child EXCEPT ![c].at = "streaming",
                                    ![c].limit = IF Has("limited") THEN @ - 1 ELSE @]
    BY <1>1, <2>1 DEF Futures
  <2> QED
    BY <1>2, <1>6, <2>1 DEF BeginTurn
<1>7. CASE Answered(c)
  <2>1. ASSUME NEW call, NEW time,
               child' = [child EXCEPT ![c].at = "calls", ![c].call = call,
                                      ![c].budget = Left(c, time)]
        PROVE  child'[c].at = "calls"
    BY <1>1, <2>1 DEF Futures
  <2> QED
    BY <1>2, <1>7, <2>1 DEF Answered
<1>8. CASE Ask(c)
  BY <1>1, <1>8 DEF Ask, Futures
<1>9. CASE Resume(c) \/ FinishTool(c) \/ WriteAnswer(c) \/ Settle(c)
  BY <1>2, <1>9 DEF Resume, FinishTool, WriteAnswer, Settle
<1> QED
  BY <1>4, <1>5, <1>6, <1>7, <1>8, <1>9, <1>10 DEF ChildStep

\* With one event of c more, or none.
LEMMA OneMore ==
  ASSUME IInv, NEW c \in Children,
         chan' = chan \/ \E says \in Says : Emit(c, says)
  PROVE  /\ Longer
         /\ \A d \in Children \ {c} : NoNew(d)
         /\ chan' = chan => NoNew(c)
         /\ \A says \in Says : Emit(c, says) /\ stored'[c] = says => NewEnd(c)
<1>1. /\ Shape /\ Home(c) \in Sessions /\ \A s \in Sessions : Len(chan[s]) \in Nat
      /\ \A d \in Children : Home(d) \in Sessions
  BY HomeFacts, LenProperties DEF IInv, Shape
<1>2. ASSUME chan' = chan
      PROVE  Longer /\ \A d \in Children : NoNew(d)
  BY <1>1, <1>2 DEF Longer, NoNew
<1>3. ASSUME NEW says \in Says, Emit(c, says)
      PROVE  /\ Longer /\ \A d \in Children \ {c} : NoNew(d)
             /\ stored'[c] = says => NewEnd(c)
  <2>1. /\ Len(chan'[Home(c)]) = Len(chan[Home(c)]) + 1
        /\ chan'[Home(c)][Len(chan[Home(c)]) + 1] = [child |-> c, says |-> says]
        /\ \A n \in 1 .. Len(chan[Home(c)]) : chan'[Home(c)][n] = chan[Home(c)][n]
        /\ \A s \in Sessions \ {Home(c)} : chan'[s] = chan[s]
    BY <1>1, <1>3, EmitFacts
  <2>2. Longer
    BY <1>1, <2>1 DEF Longer
  <2>3. ASSUME NEW d \in Children \ {c}
        PROVE  NoNew(d)
    <3>1. CASE Home(d) = Home(c)
      BY <1>1, <2>1, <3>1 DEF NoNew
    <3>2. CASE Home(d) # Home(c)
      BY <1>1, <2>1, <3>2 DEF NoNew
    <3> QED
      BY <3>1, <3>2
  <2>4. ASSUME stored'[c] = says
        PROVE  NewEnd(c)
    BY <1>1, <2>1, <2>4 DEF NewEnd
  <2> QED
    BY <2>2, <2>3, <2>4
<1> QED
  BY <1>2, <1>3

LEMMA ChildStepShown ==
  ASSUME IInv, ShownInv, NEW c \in Children, ChildStep(c)
  PROVE  ShownInv'
<1>1. /\ Local(c, child'[c], stored'[c], last'[c]) /\ Shape
      /\ child \in [Children -> Futures] /\ stored \in [Children -> Statuses]
  BY ChildStepIsLocal DEF IInv, Shape
<1>2. /\ \A d \in Children \ {c} : child'[d] = child[d] /\ stored'[d] = stored[d]
      /\ UNCHANGED <<profile, shown, late>>
      /\ chan' = chan \/ \E says \in Says : Emit(c, says)
  BY <1>1 DEF Local
<1>3. Longer /\ \A d \in Children \ {c} : NoNew(d)
  BY <1>2, OneMore
<1>4. child'[c].at \notin {"none", "called"}
  BY ChildStepWhere
<1>5. ASSUME child'[c].at = "ended"
      PROVE  NewEnd(c) \/ (NoNew(c) /\ child[c].at = "called")
  <2>1. CASE CallFails(c)
    BY <2>1, OneMore DEF CallFails, At
  <2>2. CASE End(c)
    <3>1. /\ Emit(c, child[c].ending) /\ stored'[c] = child[c].ending
          /\ child[c].ending \in Says
      BY <2>2 DEF End, At, IInv, Agree, Says
    <3> QED
      BY <1>2, <3>1, OneMore
  <2> QED
    BY <1>5, <2>1, <2>2, ChildStepWhere
<1> QED
  BY <1>2, <1>3, <1>4, <1>5, QuietShown

LEMMA SendLateShown == \A c \in Children : IInv /\ ShownInv /\ SendLate(c) => ShownInv'
<1> SUFFICES ASSUME IInv, ShownInv, NEW c \in Children, SendLate(c) PROVE ShownInv'
  OBVIOUS
<1>1. /\ c \in late /\ child[c].at = "ended" /\ stored'[c] = "cancelled"
      /\ Emit(c, "cancelled") /\ late' = late \ {c} /\ "cancelled" \in Says
      /\ UNCHANGED <<profile, child, stored, shown>>
  BY DEF IInv, SendLate, At, Says, Terminal
<1>2. Longer /\ (\A d \in Children \ {c} : NoNew(d)) /\ NewEnd(c)
  BY <1>1, OneMore
<1> QED
  BY <1>1, <1>2, QuietShown

\* Steps that send nothing and start or end no child but by spawning it.
LEMMA SilentShown ==
  ASSUME IInv, ShownInv, UNCHANGED <<profile, shown, chan, late, stored>>,
         \A c \in Children : \/ child'[c].at = child[c].at
                             \/ child[c].at = "none" /\ child'[c].at = "called"
  PROVE  ShownInv'
<1>1. Longer /\ \A c \in Children : NoNew(c)
  <2>1. \A s \in Sessions : Len(chan[s]) \in Nat
    BY LenProperties DEF IInv, Shape
  <2>2. \A c \in Children : Home(c) \in Sessions
    BY HomeFacts DEF IInv, Shape
  <2> QED
    BY <2>1, <2>2 DEF Longer, NoNew
<1> QED
  BY <1>1, QuietShown

LEMMA AbortShown == \A r \in Rounds : IInv /\ ShownInv /\ Abort(r) => ShownInv'
<1> SUFFICES ASSUME IInv, ShownInv, NEW r \in Rounds, Abort(r) PROVE ShownInv'
  OBVIOUS
<1> DEFINE s == profile.home[r]
           dropped == {c \in Of(r) : Guarded(c)}
<1>1. /\ Shape /\ UNCHANGED <<profile, shown>> /\ \A x \in Sessions : Len(chan[x]) \in Nat
      /\ child' = [c \in Children |-> IF c \in Of(r) THEN Fresh("ended") ELSE child[c]]
      /\ stored' = [c \in Children |-> IF c \in dropped THEN "cancelled" ELSE stored[c]]
      /\ \A c \in Children : Home(c) \in Sessions
  BY HomeFacts, LenProperties DEF IInv, Shape, Abort
<1>2. /\ s \in Sessions /\ Len(chan'[s]) \in Nat /\ Len(chan[s]) <= Len(chan'[s])
      /\ \A n \in 1 .. Len(chan[s]) : chan'[s][n] = chan[s][n]
      /\ \A n \in Len(chan[s]) + 1 .. Len(chan'[s]) :
           chan'[s][n].child \in dropped /\ chan'[s][n].says = "cancelled"
      /\ \A x \in Sessions \ {s} : chan'[x] = chan[x]
      /\ late \subseteq late'
      /\ \A c \in dropped \ late' :
           \E n \in Len(chan[s]) + 1 .. Len(chan'[s]) : chan'[s][n].child = c
  BY <1>1, AbortFacts
<1>3. \A c \in dropped : c \in Children /\ Home(c) = s
  BY DEF Of, Home
<1>4. \A c \in Of(r) \ dropped : child[c].at \in {"none", "called", "ended"}
  BY DEF Guarded
<1> HIDE DEF s, dropped
<1>5. Fresh("ended").at = "ended"
  BY FreshFacts DEF Places
<1>6. Longer
  <2>1. ASSUME NEW x \in Sessions
        PROVE  /\ Len(chan[x]) \in Nat /\ Len(chan'[x]) \in Nat /\ Len(chan[x]) <= Len(chan'[x])
               /\ \A n \in 1 .. Len(chan[x]) : chan'[x][n] = chan[x][n]
    <3>1. CASE x = s
      BY <1>1, <1>2, <3>1
    <3>2. CASE x # s
      BY <1>1, <1>2, <3>2
    <3> QED
      BY <3>1, <3>2
  <2> QED
    BY <2>1 DEF Longer
<1>7. ASSUME NEW c \in Children \ dropped
      PROVE  NoNew(c)
  <2>1. CASE Home(c) = s
    BY <1>2, <1>7, <2>1 DEF NoNew
  <2>2. CASE Home(c) # s
    BY <1>1, <1>2, <1>7, <2>2 DEF NoNew
  <2> QED
    BY <2>1, <2>2
<1>8. ASSUME NEW c \in dropped, c \notin late'
      PROVE  NewEnd(c)
  BY <1>1, <1>2, <1>3, <1>8 DEF NewEnd
<1>9. ASSUME NEW c \in Children, child'[c].at \in {"none", "called"}
      PROVE  child[c].at \in {"none", "called"} /\ NoNew(c)
  <2>1. c \notin Of(r) /\ child'[c] = child[c]
    BY <1>1, <1>5, <1>9
  <2>2. c \notin dropped
    BY <2>1 DEF dropped
  <2> QED
    BY <1>7, <1>9, <2>1, <2>2
<1>10. ASSUME NEW c \in Children, child'[c].at = "ended", c \notin late'
       PROVE  \/ NewEnd(c)
              \/ NoNew(c) /\ child[c].at \in {"none", "called"}
              \/ NoNew(c) /\ child[c].at = "ended" /\ c \notin late /\ stored'[c] = stored[c]
  <2>1. CASE c \in dropped
    BY <1>8, <1>10, <2>1
  <2>2. CASE c \notin dropped
    <3>1. NoNew(c) /\ c \notin late /\ stored'[c] = stored[c]
      BY <1>1, <1>2, <1>7, <1>10, <2>2
    <3>2. child[c].at \in {"none", "called", "ended"}
      BY <1>1, <1>4, <1>10, <2>2
    <3> QED
      BY <3>1, <3>2
  <2> QED
    BY <2>1, <2>2
<1> QED
  BY <1>1, <1>6, <1>9, <1>10, QuietShown

\* The last word about an ended child, once handled, is what is shown.
LEMMA HandleShown ==
  ASSUME IInv, ShownInv, NEW s \in Sessions, Handle(s)
  PROVE  ShownInv'
<1> DEFINE event == Head(chan[s])
<1>1. /\ Shape /\ chan[s] # << >> /\ chan' = [chan EXCEPT ![s] = Tail(@)]
      /\ UNCHANGED <<profile, late, stored>> /\ stored \in [Children -> Statuses]
      /\ shown \in [Children -> Terminal \cup {"none", "queued", "active"}]
      /\ \A c \in Children : child'[c].at = child[c].at
  <2>1. child \in [Children -> Futures] /\ \A x \in Sessions : slot[x] \in Children \cup {NoChild}
    BY DEF IInv, Shape
  <2>2. child' = child \/ child' = Replied(slot[s], "lost")
    BY DEF Handle
  <2>3. \A c \in Children : child'[c].at = child[c].at
    BY <2>1, <2>2, RepliedFacts
  <2> QED
    BY <2>3, HandleIInv DEF IInv, Shape, Handle
<1>2. /\ event \in Events /\ event = chan[s][1]
      /\ Len(chan[s]) \in Nat \ {0} /\ Len(chan'[s]) = Len(chan[s]) - 1
      /\ \A n \in 1 .. Len(chan'[s]) : chan'[s][n] = chan[s][n + 1]
      /\ \A x \in Sessions \ {s} : chan'[x] = chan[x]
  BY <1>1, TailFacts
<1>3. event.child \in Children /\ Home(event.child) = s
  BY <1>2 DEF IInv, EventsTrue, EventTrue, Events
<1>4. /\ event.says = "approval" => shown' = shown
      /\ event.says # "approval" => shown' = [shown EXCEPT ![event.child] = event.says]
  BY DEF Handle
<1> HIDE DEF event
<1>5. \A c \in Children : Home(c) \in Sessions /\ Home(c)' = Home(c)
  BY <1>1, HomeFacts DEF Shape, Home
<1>6. ASSUME NEW c \in Children, Silent(c)
      PROVE  Silent(c)' /\ shown'[c] = shown[c]
  <2>1. \A n \in 1 .. Len(chan[Home(c)]) : chan[Home(c)][n].child # c
    BY <1>6 DEF Silent, EventOf
  <2>2. event.child # c
    BY <1>2, <1>3, <2>1
  <2>3. \A n \in 1 .. Len(chan'[Home(c)]) : chan'[Home(c)][n].child # c
    <3>1. CASE Home(c) = s
      BY <1>2, <2>1, <3>1
    <3>2. CASE Home(c) # s
      BY <1>2, <1>5, <2>1, <3>2
    <3> QED
      BY <3>1, <3>2
  <2>4. Silent(c)'
    BY <1>5, <2>3 DEF Silent, EventOf
  <2> QED
    BY <1>1, <1>4, <2>2, <2>4
<1>7. ASSUME NEW c \in Children, Told(c)
      PROVE  Told(c)' \/ (Silent(c)' /\ shown'[c] = stored[c])
  <2>1. PICK n \in 1 .. Len(chan[Home(c)]) :
          /\ chan[Home(c)][n].child = c
          /\ \A m \in n .. Len(chan[Home(c)]) :
               chan[Home(c)][m].child = c => chan[Home(c)][m].says = stored[c]
    BY <1>7 DEF Told, EventOf
  <2>2. Told(c)' <=> \E k \in 1 .. Len(chan'[Home(c)]) :
          /\ chan'[Home(c)][k].child = c
          /\ \A m \in k .. Len(chan'[Home(c)]) :
               chan'[Home(c)][m].child = c => chan'[Home(c)][m].says = stored[c]
    <3>1. Home(c)' = Home(c) /\ stored' = stored
      BY <1>1, <1>5
    <3>2. Told(c)' <=> \E k \in 1 .. Len(chan'[Home(c)']) :
            /\ chan'[Home(c)'][k].child = c
            /\ \A m \in k .. Len(chan'[Home(c)']) :
                 chan'[Home(c)'][m].child = c => chan'[Home(c)'][m].says = stored'[c]
      BY DEF Told, EventOf
    <3> QED
      BY <3>1, <3>2
  <2>3. CASE Home(c) # s
    <3>1. chan'[Home(c)] = chan[Home(c)]
      BY <1>2, <1>5, <2>3
    <3> QED
      BY <2>1, <2>2, <3>1
  <2>4. ASSUME Home(c) = s, NEW k \in n .. Len(chan[s]), k > 1, chan[s][k].child = c
        PROVE  Told(c)'
    <3>1. k - 1 \in 1 .. Len(chan'[s]) /\ chan'[s][k - 1].child = c
      <4>1. k - 1 \in 1 .. Len(chan'[s]) /\ (k - 1) + 1 = k
        BY <1>2, <2>1, <2>4
      <4> QED
        BY <1>2, <2>4, <4>1
    <3>2. ASSUME NEW m \in k - 1 .. Len(chan'[s]), chan'[s][m].child = c
          PROVE  chan'[s][m].says = stored[c]
      <4>1. m \in 1 .. Len(chan'[s]) /\ m + 1 \in n .. Len(chan[s])
        BY <1>2, <2>1, <2>4, <3>1, <3>2
      <4> QED
        BY <1>2, <2>1, <2>4, <3>2, <4>1
    <3> QED
      BY <2>2, <2>4, <3>1, <3>2
  <2>5. CASE Home(c) = s /\ ~ (\E k \in n .. Len(chan[s]) : k > 1 /\ chan[s][k].child = c)
    <3>1. n = 1 /\ event.child = c /\ event.says = stored[c]
      BY <1>2, <2>1, <2>5
    <3>2. event.says # "approval" /\ shown'[c] = stored[c]
      BY <1>1, <1>4, <3>1 DEF Statuses, Terminal
    <3>3. \A m \in 1 .. Len(chan'[s]) : chan'[s][m].child # c
      <4>1. \A m \in 1 .. Len(chan'[s]) : m + 1 \in n .. Len(chan[s]) /\ m + 1 > 1
        BY <1>2, <3>1
      <4> QED
        BY <1>2, <2>5, <4>1
    <3>4. Silent(c)'
      BY <1>5, <2>5, <3>3 DEF Silent, EventOf
    <3> QED
      BY <3>2, <3>4
  <2> QED
    BY <2>3, <2>4, <2>5
<1>8. ASSUME NEW c \in Children, child[c].at = "ended", c \notin late
      PROVE  Told(c)' \/ (Silent(c)' /\ shown'[c] \in {"none", stored[c]})
  BY <1>6, <1>7, <1>8 DEF ShownInv, At
<1>9. ASSUME NEW c \in Children, child[c].at \in {"none", "called"}
      PROVE  Silent(c)' /\ shown'[c] = "none"
  BY <1>6, <1>9 DEF ShownInv
<1> QED
  BY <1>1, <1>8, <1>9 DEF ShownInv, At

LEMMA DieShown == IInv /\ Die => ShownInv'
<1> SUFFICES ASSUME IInv, Die PROVE ShownInv'
  OBVIOUS
<1>1. \A c \in Children : Home(c) \in Sessions /\ Home(c)' = Home(c)
  BY HomeFacts DEF IInv, Shape, Home, Die
<1>2. \A s \in Sessions : Len(chan'[s]) = 0
  BY EmptySeq DEF Die
<1>3. \A c \in Children : Silent(c)' /\ shown'[c] = "none"
  BY <1>1, <1>2 DEF Silent, Die
<1> QED
  BY <1>3 DEF ShownInv

\* A start changes only the status of running children, of which nothing that
\* is shown or on its way speaks.
LEMMA StartupShown == IInv /\ ShownInv /\ Startup => ShownInv'
<1> SUFFICES ASSUME IInv, ShownInv, Startup, NEW c \in Children
             PROVE  /\ child'[c].at \in {"none", "called"} => Silent(c)' /\ shown'[c] = "none"
                    /\ child'[c].at = "ended" /\ c \notin late' =>
                         Told(c)' \/ (Silent(c)' /\ shown'[c] \in {"none", stored'[c]})
  BY DEF ShownInv, At
<1>1. /\ UNCHANGED <<profile, child, chan, late, shown>>
      /\ stored'[c] = stored[c] \/ stored[c] = "running"
  BY DEF Startup, Start, Mark, Explain, Started, StartDies, Running
<1>2. Home(c)' = Home(c) /\ Home(c) \in Sessions
  BY <1>1, HomeFacts DEF Home, IInv, Shape
<1>3. Silent(c)' <=> Silent(c)
  BY <1>1, <1>2 DEF Silent, EventOf
<1>4. CASE stored'[c] = stored[c]
  <2>1. Told(c)' <=> Told(c)
    BY <1>1, <1>2, <1>4 DEF Told, EventOf
  <2> QED
    BY <1>1, <1>3, <1>4, <2>1 DEF ShownInv, At
<1>5. CASE stored[c] = "running"
  <2>1. ~ Told(c)
    <3>1. ASSUME NEW n \in 1 .. Len(chan[Home(c)])
          PROVE  chan[Home(c)][n].says # "running"
      <4>1. chan[Home(c)] \in Seq(Events)
        BY <1>2 DEF IInv, Shape
      <4>2. chan[Home(c)][n] \in Events
        BY <4>1, ElementOfSeq
      <4> QED
        BY <4>2 DEF Events, Says, Terminal
    <3>2. ASSUME NEW n \in 1 .. Len(chan[Home(c)]), EventOf(Home(c), n, c),
                 \A m \in n .. Len(chan[Home(c)]) :
                   EventOf(Home(c), m, c) => chan[Home(c)][m].says = stored[c]
          PROVE  FALSE
      <4>1. Len(chan[Home(c)]) \in Nat
        BY <1>2, LenProperties DEF IInv, Shape
      <4>2. n \in n .. Len(chan[Home(c)])
        BY <3>2, <4>1
      <4> QED
        BY <1>5, <3>1, <3>2, <4>2
    <3> QED
      BY <3>2 DEF Told
  <2>2. shown[c] # "running"
    BY DEF IInv, Shape, Terminal
  <2> QED
    BY <1>1, <1>3, <1>5, <2>1, <2>2 DEF ShownInv, At
<1> QED
  BY <1>1, <1>4, <1>5

LEMMA InitShown == Init => ShownInv
<1> SUFFICES ASSUME Init PROVE ShownInv
  OBVIOUS
<1>1. \A c \in Children : Home(c) \in Sessions
  BY HomeFacts DEF Init
<1>2. \A s \in Sessions : Len(chan[s]) = 0
  BY EmptySeq DEF Init
<1>3. \A c \in Children : Silent(c) /\ shown[c] = "none"
  BY <1>1, <1>2 DEF Silent, Init
<1> QED
  BY <1>3 DEF ShownInv

LEMMA NextShown == IInv /\ ShownInv /\ [Next]_vars => ShownInv'
<1> SUFFICES ASSUME IInv, ShownInv, [Next]_vars PROVE ShownInv'
  OBVIOUS
<1>1. /\ child \in [Children -> Futures] /\ \A r \in Rounds : profile.home[r] \in Sessions
      /\ slot \in [Sessions -> Children \cup {NoChild}]
  BY HomeFacts DEF IInv, Shape
<1>2. ASSUME NEW d \in Children \cup {NoChild}, NEW answer \in {"yes", "no"},
             child' = Replied(d, answer)
      PROVE  \A c \in Children : child'[c].at = child[c].at
  <2>1. answer \in {"none", "yes", "no", "lost"}
    OBVIOUS
  <2> QED
    BY <1>1, <1>2, <2>1, RepliedFacts
<1>3. ASSUME NEW r \in Rounds, Spawn(r)
      PROVE  ShownInv'
  <2>1. \A c \in Children : \/ child'[c].at = child[c].at
                            \/ child[c].at = "none" /\ child'[c].at = "called"
    BY <1>3, FreshFacts DEF Spawn, IInv, Of, At, Places
  <2> QED
    BY <1>3, <2>1, SilentShown DEF Spawn
<1>4. ASSUME NEW r \in Rounds, Collect(r)
      PROVE  ShownInv'
  BY <1>4, SilentShown DEF Collect
<1>5. ASSUME NEW r \in Rounds, Cancel(r)
      PROVE  ShownInv'
  BY <1>1, <1>2, <1>5, SilentShown DEF Cancel
<1>6. ASSUME NEW s \in Sessions, Reply(s)
      PROVE  ShownInv'
  BY <1>1, <1>2, <1>6, SilentShown DEF Reply
<1>7. CASE UNCHANGED vars
  BY <1>7, SilentShown DEF vars
<1> QED
  BY <1>3, <1>4, <1>5, <1>6, <1>7, ChildStepShown, SendLateShown, AbortShown, HandleShown,
     DieShown, StartupShown
  DEF Next, Step

\* Once a child has ended and its events are handled, what is shown of it is
\* what is stored, also where the last event had to wait for room (agent/child.rs,
\* ChildCancellationGuard::drop).
THEOREM EndShown == Spec => []EndIsShown
<1>1. IInv /\ ShownInv => EndIsShown
  BY DEF ShownInv, EndIsShown, Told, EventOf
<1>2. Spec => []ShownInv
  <2>1. Spec => []IInv
    BY InductiveInvariant
  <2> QED
    BY <2>1, InitShown, NextShown, PTL DEF Spec
<1> QED
  BY <1>1, <1>2, InductiveInvariant, PTL

=============================================================================
