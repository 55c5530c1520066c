---------------------------- MODULE ChildAgents ----------------------------
(***************************************************************************)
(* Child agents (run_child_inner, execute_child_tool and                   *)
(* ChildCancellationGuard in src/agent/child.rs) and what the application  *)
(* makes of their progress (handle_routed_event in src/app.rs).            *)
(*                                                                         *)
(* The agent_spawn calls of one answer form a round of the parent's run.   *)
(* Its children run at the same time, share the places of the session and, *)
(* with the children of every other session, one approval lock.  Events    *)
(* reach the application over the session's bounded channel.  Of the       *)
(* progress only what announces a child, a request and the end is sent; of *)
(* a child's rows only the last is kept; time is its active budget.        *)
(*                                                                         *)
(* The process may die at any time, and the database is shared with the    *)
(* processes of other workspaces: each of them, when it starts, marks the  *)
(* children it finds running.  One process starts at a time, and only the  *)
(* children of one process are modelled.                                   *)
(***************************************************************************)
EXTENDS Naturals, Sequences, FiniteSets, SequencesExt

CONSTANTS
  Children,     \* the children there may be
  Rounds,       \* rounds of agent_spawn calls
  RoundOf,      \* the round that spawns a child
  Profiles,     \* what a behaviour may be: records of
                \*   with: what may happen,  rounds: the rounds there are,
                \*   home: the session of each round,
                \*   parallel: max_parallel_children
  Capacity,     \* events the channel of a session holds
  Budget,       \* child_active_timeout_seconds
  MaxTurns,     \* max_turns where a child has one
  NoChild

ASSUME ChildAssumption ==
  /\ IsFiniteSet(Children) /\ NoChild \notin Children
  /\ RoundOf \in [Children -> Rounds]
  /\ {Capacity, Budget, MaxTurns} \subseteq Nat \ {0}
  /\ \A p \in Profiles :
       p.rounds \subseteq Rounds /\ DOMAIN p.home = Rounds /\ p.parallel \in Nat \ {0}

VARIABLES
  profile,  \* the profile of this behaviour
  round,    \* "new", "going", "aborting" or "over"
  child,    \* the futures: where each is (at), the turns it has left (limit), its
            \* active_budget, the call it deals with, the status it closes with
            \* (ending) and the answer to its question (reply)
  lock,     \* the child holding the approval lock
  stored,   \* child_status in storage
  last,     \* the last row of the child's session
  chan,     \* events on their way to the application, per session
  late,     \* children whose last event waits for room in the channel
  slot,     \* whose question the session shows
  shown,    \* app.child_status
  up,       \* is the process running?
  start,    \* the process that is starting: whose it is (by), whether it has
            \* marked the children, and those it has still to explain (ids)
  disturbed \* history: the children whose status and transcript were not marked
            \* together, or were marked while the child was alive

appVars == <<slot, shown>>
startVars == <<up, start, disturbed>>
vars == <<profile, round, child, lock, stored, last, chan, late, appVars, startVars>>

Has(feature) == feature \in profile.with
Sessions == UNION {{p.home[r] : r \in Rounds} : p \in Profiles}
Home(c) == profile.home[RoundOf[c]]
Of(r) == {c \in Children : RoundOf[c] = r}

Tools == {"read", "write", "banned"}
Terminal == {"completed", "failed", "turn_limit", "timed_out", "cancelled"}
Places == {"none", "called", "created", "queued", "turn", "streaming", "calls", "lock",
           "locked", "asked", "tool", "closing", "full", "written", "settled", "ended"}

At(c, place) == child[c].at = place

\* A future before its first poll, and one that is no more.
Fresh(place) == [at |-> place, limit |-> MaxTurns, budget |-> Budget, call |-> "none",
                 ending |-> "none", reply |-> "none"]

\* The future exists and holds a place of the session.
Working(c) == child[c].at \notin {"none", "called", "created", "queued", "ended"}

\* The future exists and its cancellation guard is armed.
Guarded(c) == child[c].at \notin {"none", "called", "ended"}

NoStart == [by |-> "none", marked |-> FALSE, ids |-> {}]

Init ==
  /\ profile \in Profiles
  /\ round = [r \in Rounds |-> "new"]
  /\ child = [c \in Children |-> Fresh("none")]
  /\ lock = NoChild
  /\ stored = [c \in Children |-> "none"] /\ last = [c \in Children |-> "none"]
  /\ chan = [s \in Sessions |-> << >>] /\ late = {}
  /\ slot = [s \in Sessions |-> NoChild]
  /\ shown = [c \in Children |-> "none"]
  /\ up = TRUE /\ start = NoStart /\ disturbed = {}

\* An event is sent, as soon as there is room.
Emit(c, says) ==
  /\ Len(chan[Home(c)]) < Capacity
  /\ chan' = [chan EXCEPT ![Home(c)] = Append(@, [child |-> c, says |-> says])]

-----------------------------------------------------------------------------
(* The parent *)

\* The approved agent_spawn calls of an answer start together.
Spawn(r) ==
  /\ up /\ round[r] = "new" /\ r \in profile.rounds
  /\ \A q \in Rounds : profile.home[q] = profile.home[r] => round[q] # "going"
  /\ round' = [round EXCEPT ![r] = "going"]
  /\ child' = [c \in Children |-> IF c \in Of(r) THEN Fresh("called") ELSE child[c]]
  /\ UNCHANGED <<profile, lock, stored, last, chan, late, appVars, startVars>>

\* Every child has its outcome; the run goes on.
Collect(r) ==
  /\ round[r] = "going" /\ \A c \in Of(r) : At(c, "ended")
  /\ round' = [round EXCEPT ![r] = "over"]
  /\ UNCHANGED <<profile, child, lock, stored, last, chan, late, appVars, startVars>>

\* The reply to c's question, if c still waits for one.
Replied(c, answer) ==
  IF c # NoChild /\ At(c, "asked") THEN [child EXCEPT ![c].reply = answer] ELSE child

\* cancel_active_request: a question on screen is answered with no, and the
\* task is aborted; it stops where it next waits.
Cancel(r) ==
  /\ Has("cancel") /\ round[r] = "going"
  /\ round' = [round EXCEPT ![r] = "aborting"]
  /\ child' = Replied(slot[profile.home[r]], "no")
  /\ slot' = [slot EXCEPT ![profile.home[r]] = NoChild]
  /\ UNCHANGED <<profile, lock, stored, last, chan, late, shown, startVars>>

\* The channel after the guards of these children sent what there is room for.
Filled(q, order) ==
  LET all == q \o [n \in DOMAIN order |-> [child |-> order[n], says |-> "cancelled"]]
  IN  SubSeq(all, 1, IF Len(all) < Capacity THEN Len(all) ELSE Capacity)

\* Mutant of Overflowing: an event there is no room for is dropped.
OverflowingLost(order, room) == {}

\* The children whose last event a task of its own sends when there is room.
Overflowing(order, room) == {order[n] : n \in room + 1 .. Len(order)}

\* The aborted task is dropped, and with it every child and its guard, which
\* saves what was heard and says that the child was cancelled.
Abort(r) ==
  /\ round[r] = "aborting"
  /\ round' = [round EXCEPT ![r] = "over"]
  /\ child' = [c \in Children |-> IF c \in Of(r) THEN Fresh("ended") ELSE child[c]]
  /\ LET s == profile.home[r]
         dropped == {c \in Of(r) : Guarded(c)}
         room == Capacity - Len(chan[s])
     IN  /\ stored' = [c \in Children |-> IF c \in dropped THEN "cancelled" ELSE stored[c]]
         /\ \E spoke \in SUBSET {c \in dropped : Working(c)} :
              last' = [c \in Children |-> IF c \in spoke THEN "partial" ELSE last[c]]
         /\ lock' = IF lock \in dropped THEN NoChild ELSE lock
         /\ \E order \in SetToSeqs(dropped) :
              /\ chan' = [chan EXCEPT ![s] = Filled(@, order)]
              /\ late' = late \cup Overflowing(order, room)
  /\ UNCHANGED <<profile, appVars, startVars>>

\* ... and now there is.
SendLate(c) ==
  /\ c \in late /\ Emit(c, "cancelled")
  /\ late' = late \ {c}
  /\ UNCHANGED <<profile, round, child, lock, stored, last, appVars, startVars>>

-----------------------------------------------------------------------------
(* A child *)

\* The future is elsewhere, and some of its locals have changed.
Goto(c, place) == child' = [child EXCEPT ![c].at = place]
Close(c, status) == child' = [child EXCEPT ![c].at = "closing", ![c].ending = status]

Row(c, row) == last' = [last EXCEPT ![c] = row]

\* Arguments, provider or storage refuse: there is an outcome but no child.
CallFails(c) ==
  /\ Has("invalid") /\ At(c, "called")
  /\ child' = [child EXCEPT ![c] = Fresh("ended")]
  /\ UNCHANGED <<profile, round, lock, stored, last, chan, late, appVars, startVars>>

\* create_child_session, and the prompt as its first row.
Create(c) ==
  /\ At(c, "called") /\ Goto(c, "created")
  /\ stored' = [stored EXCEPT ![c] = "running"] /\ Row(c, "prompt")
  /\ UNCHANGED <<profile, round, lock, chan, late, appVars, startVars>>

Announce(c) ==
  /\ At(c, "created") /\ Emit(c, "queued") /\ Goto(c, "queued")
  /\ UNCHANGED <<profile, round, lock, stored, last, late, appVars, startVars>>

\* child_slots: a place among the children of the session.
TakePlace(c) ==
  /\ At(c, "queued")
  /\ Cardinality({d \in Children : Home(d) = Home(c) /\ Working(d)}) < profile.parallel
  /\ Goto(c, "turn")
  /\ UNCHANGED <<profile, round, lock, stored, last, chan, late, appVars, startVars>>

\* Mutant of OutOfTurns: the turns left are not looked at.
OutOfTurnsNever(c) == FALSE

OutOfTurns(c) == Has("limited") /\ child[c].limit = 0

\* The top of the loop: the turn limit, the announcement of a request, and the
\* request, while there is time.
BeginTurn(c) ==
  /\ At(c, "turn")
  /\ \/ OutOfTurns(c) /\ Close(c, "turn_limit") /\ UNCHANGED chan
     \/ /\ ~ OutOfTurns(c) /\ Emit(c, "active")
        /\ IF child[c].budget = 0 THEN Close(c, "timed_out")
           ELSE child' = [child EXCEPT ![c].at = "streaming",
                                       ![c].limit = IF Has("limited") THEN @ - 1 ELSE @]
  /\ UNCHANGED <<profile, round, lock, stored, last, late, appVars, startVars>>

\* Mutant of Left: waiting for the model costs no time.
LeftAlways(c, time) == child[c].budget

\* The active budget after a request or a tool that took this time.
Left(c, time) == child[c].budget - time

\* The answer is complete: it ends the child, or asks for a tool, the first row
\* of which says so.
Answered(c) ==
  /\ At(c, "streaming")
  /\ \/ Close(c, "completed") /\ UNCHANGED last
     \/ \E call \in Tools \cap profile.with, time \in 1 .. child[c].budget :
          /\ child' = [child EXCEPT ![c].at = "calls", ![c].call = call,
                                    ![c].budget = Left(c, time)]
          /\ Row(c, "call")
  /\ UNCHANGED <<profile, round, lock, stored, chan, late, appVars, startVars>>

\* No time left, a provider error, or an answer that is too long or malformed.
\* What was heard may leave no room for a note on how the child ended.
StreamFails(c) ==
  /\ Has("fail") /\ At(c, "streaming")
  /\ \E status \in {"timed_out", "failed"}, place \in {"closing", "full"} :
       child' = [child EXCEPT ![c].at = place, ![c].ending = status]
  /\ UNCHANGED <<profile, round, lock, stored, last, chan, late, appVars, startVars>>

\* The call has an output, and the lock, if the child has it, is free again.
Output(c) ==
  /\ Row(c, "output")
  /\ lock' = IF lock = c THEN NoChild ELSE lock

\* execute_child_tool: the policy denies the call, allows it, or has the user
\* asked, which one child does at a time.
Consider(c) ==
  /\ At(c, "calls")
  /\ \/ child[c].call = "banned" /\ Output(c) /\ Goto(c, "turn")
     \/ child[c].call = "read" /\ Goto(c, "tool") /\ UNCHANGED <<lock, last>>
     \/ child[c].call = "write" /\ Goto(c, "lock") /\ UNCHANGED <<lock, last>>
  /\ UNCHANGED <<profile, round, stored, chan, late, appVars, startVars>>

\* Mutant of MayAsk: every child asks when it likes.
MayAskAnyway(c) == TRUE

\* The approval lock is free.
MayAsk(c) == lock = NoChild

Lock(c) ==
  /\ At(c, "lock") /\ MayAsk(c)
  /\ lock' = c /\ Goto(c, "locked")
  /\ UNCHANGED <<profile, round, stored, last, chan, late, appVars, startVars>>

Ask(c) ==
  /\ At(c, "locked") /\ Emit(c, "approval")
  /\ child' = [child EXCEPT ![c].at = "asked", ![c].reply = "none"]
  /\ UNCHANGED <<profile, round, lock, stored, last, late, appVars, startVars>>

\* The answer has come, or nobody can give one any more.
Resume(c) ==
  /\ At(c, "asked") /\ child[c].reply # "none"
  /\ \/ child[c].reply = "yes" /\ Goto(c, "tool") /\ UNCHANGED <<lock, last>>
     \/ child[c].reply # "yes" /\ Goto(c, "turn") /\ Output(c)
  /\ UNCHANGED <<profile, round, stored, chan, late, appVars, startVars>>

\* The tool returns in time, or the budget is used up, which ends the child.
FinishTool(c) ==
  /\ At(c, "tool") /\ Output(c)
  /\ \/ child[c].budget > 0 /\ Goto(c, "turn")
     \/ /\ child[c].budget = 0 \/ Has("fail")
        /\ Close(c, "timed_out")
  /\ UNCHANGED <<profile, round, stored, chan, late, appVars, startVars>>

\* The last row says how it went, unless append_text_bounded has no room for
\* that ...
WriteAnswer(c) ==
  /\ child[c].at \in {"closing", "full"} /\ Goto(c, "written")
  /\ Row(c, IF At(c, "closing") THEN child[c].ending ELSE "heard")
  /\ UNCHANGED <<profile, round, lock, stored, chan, late, appVars, startVars>>

\* ... then the status does ...
Settle(c) ==
  /\ At(c, "written") /\ Goto(c, "settled")
  /\ stored' = [stored EXCEPT ![c] = child[c].ending]
  /\ UNCHANGED <<profile, round, lock, last, chan, late, appVars, startVars>>

\* ... and the last event; only then is the guard disarmed.
End(c) ==
  /\ At(c, "settled") /\ Emit(c, child[c].ending)
  /\ child' = [child EXCEPT ![c] = Fresh("ended")]
  /\ UNCHANGED <<profile, round, lock, stored, last, late, appVars, startVars>>

-----------------------------------------------------------------------------
(* The application *)

\* Mutant of Stores: every progress is stored under its wire name.
StoresAll(says) == TRUE

\* Which progress is stored?
Stores(says) == says \in Terminal

WireName(says) == IF says \in Terminal THEN says ELSE "running"

\* handle_routed_event: the next event of a session.  A question replaces the
\* one on screen, whose reply is dropped.
Handle(s) ==
  /\ chan[s] # << >> /\ chan' = [chan EXCEPT ![s] = Tail(@)]
  /\ LET c == Head(chan[s]).child
         says == Head(chan[s]).says
     IN  \/ /\ says = "approval"
            /\ child' = IF slot[s] = c THEN child ELSE Replied(slot[s], "lost")
            /\ slot' = [slot EXCEPT ![s] = c]
            /\ UNCHANGED <<stored, shown>>
         \/ /\ says # "approval"
            /\ shown' = [shown EXCEPT ![c] = says]
            /\ stored' = IF Stores(says) THEN [stored EXCEPT ![c] = WireName(says)]
                         ELSE stored
            /\ UNCHANGED <<child, slot>>
  /\ UNCHANGED <<profile, round, lock, last, late, startVars>>

\* The user answers the question on screen, or it expires.
Reply(s) ==
  /\ slot[s] # NoChild
  /\ \E answer \in {"yes", "no"} : child' = Replied(slot[s], answer)
  /\ slot' = [slot EXCEPT ![s] = NoChild]
  /\ UNCHANGED <<profile, round, lock, stored, last, chan, late, shown, startVars>>

-----------------------------------------------------------------------------
(* The process dies, and processes start *)

Die ==
  /\ Has("crash") /\ up
  /\ up' = FALSE
  /\ round' = [r \in Rounds |-> IF round[r] = "new" THEN "new" ELSE "over"]
  /\ child' = [c \in Children |-> IF At(c, "none") THEN child[c] ELSE Fresh("ended")]
  /\ lock' = NoChild
  /\ chan' = [s \in Sessions |-> << >>] /\ late' = {}
  /\ slot' = [s \in Sessions |-> NoChild]
  /\ shown' = [c \in Children |-> "none"]
  /\ UNCHANGED <<profile, stored, last, start, disturbed>>

Running == {c \in Children : stored[c] = "running"}

\* AppHandle::start, here or in another workspace, opens the database and reads
\* which children are running ...
Start(by) ==
  /\ start = NoStart
  /\ (by = "own" /\ ~ up) \/ (by = "other" /\ Has("second"))
  /\ start' = [by |-> by, marked |-> FALSE, ids |-> Running]
  /\ UNCHANGED <<profile, round, child, lock, stored, last, chan, late, appVars, up, disturbed>>

\* ... marks whatever is running now, whether its process is alive or not ...
Mark ==
  /\ start.by # "none" /\ ~ start.marked
  /\ stored' = [c \in Children |-> IF c \in Running THEN "failed" ELSE stored[c]]
  /\ start' = [start EXCEPT !.marked = TRUE]
  /\ disturbed' = disturbed \cup {c \in Running : Guarded(c) \/ c \notin start.ids}
  /\ UNCHANGED <<profile, round, child, lock, last, chan, late, appVars, up>>

\* Mutant of Noted: the status changes without a word.
NotedNowhere(c) == last[c]

\* The row that explains an interruption.
Noted(c) == "failed"

\* ... explains to one child after the other what it read of them ...
Explain(c) ==
  /\ start.marked /\ c \in start.ids
  /\ Row(c, Noted(c))
  /\ start' = [start EXCEPT !.ids = @ \ {c}]
  /\ disturbed' = disturbed \cup ({c} \ {d \in Children : stored[d] = "failed"})
  /\ UNCHANGED <<profile, round, child, lock, stored, chan, late, appVars, up>>

\* ... and goes on, ...
Started ==
  /\ start.marked /\ start.ids = {}
  /\ up' = (up \/ start.by = "own")
  /\ start' = NoStart
  /\ UNCHANGED <<profile, round, child, lock, stored, last, chan, late, appVars, disturbed>>

\* The children marked and not yet explained.
Unexplained == IF start.marked THEN start.ids ELSE {}

\* ... or dies on the way: nobody explains the rest any more.
StartDies ==
  /\ start # NoStart
  /\ start' = NoStart
  /\ disturbed' = disturbed \cup Unexplained
  /\ UNCHANGED <<profile, round, child, lock, stored, last, chan, late, appVars, up>>

-----------------------------------------------------------------------------

ChildStep(c) ==
  \/ CallFails(c) \/ Create(c) \/ Announce(c) \/ TakePlace(c) \/ BeginTurn(c)
  \/ Answered(c) \/ StreamFails(c) \/ Consider(c) \/ Lock(c) \/ Ask(c) \/ Resume(c)
  \/ FinishTool(c) \/ WriteAnswer(c) \/ Settle(c) \/ End(c)

Step ==
  \/ \E r \in Rounds : Collect(r) \/ Abort(r)
  \/ \E c \in Children : ChildStep(c) \/ SendLate(c)
  \/ \E s \in Sessions : Handle(s) \/ Reply(s)

Startup ==
  \/ \E by \in {"own", "other"} : Start(by)
  \/ Mark \/ Started \/ StartDies \/ \E c \in Children : Explain(c)

Next == Step \/ Die \/ Startup \/ \E r \in Rounds : Spawn(r) \/ Cancel(r)

\* One task or another is polled as long as one can go on, requests and tools
\* return or run out of their budget, the engine drains the channels, and what
\* is asked is answered or expires.  Nothing is assumed of their order.
Fairness == WF_vars(Step)

Spec == Init /\ [][Next]_vars /\ Fairness

-----------------------------------------------------------------------------
(* Properties *)

\* The shape of the state.
TypeOK ==
  /\ profile \in Profiles
  /\ round \in [Rounds -> {"new", "going", "aborting", "over"}]
  /\ child \in [Children -> [at : Places, limit : 0 .. MaxTurns, budget : 0 .. Budget,
                             call : Tools \cup {"none"}, ending : Terminal \cup {"none"},
                             reply : {"none", "yes", "no", "lost"}]]
  /\ lock \in Children \cup {NoChild}
  /\ stored \in [Children -> Terminal \cup {"none", "running"}]
  /\ last \in [Children -> Terminal \cup {"none", "prompt", "call", "output", "partial", "heard"}]
  /\ shown \in [Children -> Terminal \cup {"none", "queued", "active"}]
  /\ \A s \in Sessions : Len(chan[s]) <= Capacity
  /\ late \subseteq Children /\ slot \in [Sessions -> Children \cup {NoChild}]
  /\ up \in BOOLEAN /\ disturbed \subseteq Children
  /\ start \in [by : {"none", "own", "other"}, marked : BOOLEAN, ids : SUBSET Children]

\* Alive and without a stored end.
Unsettled(c) == Guarded(c) /\ ~ At(c, "settled")

\* While the process runs, a child stored as running is alive and has not yet
\* stored how it ended: neither a cancel, nor a crash, nor progress that arrives
\* late leaves a child running that is not.  And a child that is alive is stored
\* as running, unless a process of another workspace, which takes what it finds
\* running for "left in the active state by a previous process"
\* (storage/session.rs:222), marked it.
RunningIsAlive ==
  \A c \in Children :
    /\ up /\ stored[c] = "running" => Unsettled(c)
    /\ Unsettled(c) => stored[c] = "running" \/ c \in disturbed

\* Once a child has ended and its events have been handled, the application
\* shows what storage holds, although the last event may find the channel full
\* (ChildCancellationGuard::drop); a new process shows the stored status.
EndIsShown ==
  \A c \in Children :
    /\ At(c, "ended") /\ c \notin late /\ shown[c] # "none"
    /\ \A n \in DOMAIN chan[Home(c)] : chan[Home(c)][n].child # c
    => shown[c] = stored[c]

\* The transcript of a child that is over, and was not cancelled, ends with a
\* row that says what its status says, wherever the process died.  Three cases
\* are known to lack that row: an answer so long that append_text_bounded drops
\* the note, which only a child that failed or timed out has; a start that dies
\* between the status and the row; and a start in another workspace.
TranscriptTells ==
  \A c \in Children \ (disturbed \cup Unexplained) :
    stored[c] \in Terminal \ {"cancelled"} /\ child[c].at \in {"settled", "ended"} =>
      \/ last[c] = stored[c]
      \/ last[c] = "heard" /\ stored[c] \in {"failed", "timed_out"}

\* A question a child waits on is never displaced by another child's: what the
\* approval lock is for.
QuestionsKept ==
  [][\A c \in Children : child'[c].reply = "lost" => child[c].reply = "lost"]_vars

\* An end is final: only the guard of a child that is still sending its last
\* event may turn it into "cancelled", and the end of a child which a process of
\* another workspace marked as failed while it was alive replaces that mark.
EndIsFinal ==
  [][\A c \in Children :
       stored[c] \in Terminal /\ stored'[c] # stored[c] =>
         \/ At(c, "settled") /\ stored'[c] = "cancelled"
         \/ c \in disturbed /\ Unsettled(c) /\ stored[c] = "failed"
              /\ stored'[c] \in {child[c].ending, "cancelled"}]_vars

\* Every round ends: no child waits for ever, for a place, for the approval lock,
\* for an answer or for room in the channel.
RoundsEnd == \A r \in Rounds : round[r] = "going" ~> round[r] = "over"
=============================================================================
