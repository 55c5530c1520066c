--------------------------- MODULE SessionEngine ---------------------------
(***************************************************************************)
(* The engine loop (src/service/engine.rs) and the application state it    *)
(* owns (src/app.rs, src/app/runtime.rs, src/session.rs): which sessions   *)
(* have a runtime, the request each runtime runs, the approvals that wait  *)
(* for the user, and the commands, agent events, timer and shutdown that   *)
(* change them.                                                            *)
(*                                                                         *)
(* The engine is one task and handles one command or event at a time; the  *)
(* agent tasks run beside it, so a handler that goes through several       *)
(* stages is several steps (`doing` says which handler is under way) and   *)
(* agent tasks may step in between.                                        *)
(*                                                                         *)
(* An approval id is identified with the ask it was given to: ids are      *)
(* fresh UUIDs.  Transcripts, prompts and storage contents are abstracted. *)
(***************************************************************************)
EXTENDS Naturals, Sequences, FiniteSets, SequencesExt

CONSTANTS
  Sessions,         \* session ids
  InitialSessions,  \* the sessions storage holds at startup
  Inputs,           \* the kinds of input clients submit
  Capacity,         \* max_background_sessions
  MaxCommands,      \* bound: commands sent in a behaviour
  MaxAsks           \* bound: approvals agents request in a behaviour

ASSUME EngineAssumption ==
  /\ InitialSessions \subseteq Sessions /\ InitialSessions # {}
  /\ Inputs \subseteq {"text", "shell", "compact", "diff", "reload",
                       "new", "delete"}
  /\ Capacity \in Nat \ {0}
  /\ MaxCommands \in Nat /\ MaxAsks \in Nat

VARIABLES
  up,        \* is the engine loop running?
  doing,     \* the handler under way between two of its stages
  stored,    \* sessions in storage
  listed,    \* app.sessions, the engine's cached copy of that list
  active,    \* app.active_session
  parked,    \* app.background, least recently parked first
  gen,       \* which runtime each session has loaded, 0 for none
  busy, handle, slot, seq,
             \* of each loaded runtime: busy, active_task (a task or 0),
             \* pending_approval (an ask or 0), request_seq
  pending,   \* engine.pending: the session of each registered approval id
  home,      \* the session every runtime built so far belongs to
  chan,      \* events each runtime's tasks sent and the engine has not handled
  task,      \* the tasks spawned so far
  ask,       \* the approvals requested so far
  accepted,  \* history: asks a client accepted by their id
  commands   \* commands sent so far

storageVars == <<stored, listed>>
residency == <<active, parked, gen, home>>
runtimes == <<busy, handle, slot, seq>>
vars == <<up, doing, stored, listed, active, parked, gen, busy, handle, slot,
          seq, pending, home, chan, task, ask, accepted, commands>>

TaskKinds == {"run", "compact", "local"}
EventTypes == {"approval", "completed", "ended", "cancelled"}

Idle == [input |-> "none"]
Doing(input, s) == [input |-> input, session |-> s, task |-> 0, receipt |-> 0]
Ready == up /\ doing = Idle

Init ==
  /\ up = TRUE
  /\ stored = InitialSessions /\ listed = InitialSessions
  /\ active \in InitialSessions /\ parked = << >>
  /\ gen = [s \in Sessions |-> IF s = active THEN 1 ELSE 0]
  /\ home = <<active>> /\ chan = << << >> >>
  /\ busy = [s \in Sessions |-> FALSE]
  /\ handle = [s \in Sessions |-> 0]
  /\ slot = [s \in Sessions |-> 0]
  /\ seq = [s \in Sessions |-> 0]
  /\ pending = << >>
  /\ task = << >> /\ ask = << >> /\ accepted = {}
  /\ doing = Idle
  /\ commands = 0

-----------------------------------------------------------------------------
(* Runtimes coming and going *)

Loaded(s) == gen[s] # 0

\* A parked runtime that may be unloaded without interrupting work.
MayEvict(s) == ~ busy[s] /\ handle[s] = 0 /\ slot[s] = 0

\* The reply sender of an approval is used or dropped at most once.
Answer(a, answer) ==
  IF ask[a].answer = "none" THEN [ask[a] EXCEPT !.answer = answer] ELSE ask[a]

\* Abort the tasks of the runtimes in S and reject the approvals they hold.
Stop(S) ==
  /\ task' = [t \in DOMAIN task |->
                IF \E s \in S : handle[s] = t
                  THEN [task[t] EXCEPT !.aborted = TRUE] ELSE task[t]]
  /\ ask' = [a \in DOMAIN ask |->
               IF \E s \in S : slot[s] = a THEN Answer(a, "reject") ELSE ask[a]]
  /\ busy' = [s \in Sessions |-> busy[s] /\ s \notin S]
  /\ handle' = [s \in Sessions |-> IF s \in S THEN 0 ELSE handle[s]]
  /\ slot' = [s \in Sessions |-> IF s \in S THEN 0 ELSE slot[s]]

\* Shut the runtimes of the sessions in S down and drop them: what replaces
\* them starts with a request sequence of 0.
Unload(S) ==
  /\ Stop(S)
  /\ seq' = [s \in Sessions |-> IF s \in S THEN 0 ELSE seq[s]]

\* build_runtime(): a new runtime, with a channel of its own.
Build(s) ==
  /\ home' = Append(home, s)
  /\ chan' = Append(chan, << >>)

\* Mutant of Evictees: the least recently parked runtime, idle or not.
EvicteesAny(s) ==
  IF s \in Range(parked) \/ Len(parked) < Capacity THEN {} ELSE {Head(parked)}

\* The runtime activating s unloads: the least recently parked idle one, when
\* parking the current runtime would exceed the capacity.
Evictees(s) ==
  IF s \in Range(parked) \/ Len(parked) < Capacity THEN {}
  ELSE {parked[i] : i \in {j \in DOMAIN parked :
                             /\ MayEvict(parked[j])
                             /\ \A k \in 1 .. j - 1 : ~ MayEvict(parked[k])}}

\* activate_session fails: every parked runtime is at work.
NoRoom(s) ==
  /\ s # active /\ s \notin Range(parked)
  /\ Len(parked) >= Capacity /\ Evictees(s) = {}

\* The background without the sessions in S, of which at most one is there.
Without(S) ==
  LET leave == {i \in DOMAIN parked : parked[i] \in S}
  IN  IF leave = {} THEN parked ELSE RemoveAt(parked, CHOOSE i \in leave : TRUE)

\* Mutant of Parked: `get` for `remove`, the target stays in the background.
ParkedKeepsTarget(s) == Append(Without(Evictees(s)), active)

\* The background after activating s, which is not the active session.
Parked(s) == Append(Without(Evictees(s) \cup {s}), active)

\* activate_session: park the current runtime, pull s out or build it.
Activated(s) ==
  IF s = active
    THEN UNCHANGED <<residency, runtimes, chan, task, ask>>
    ELSE LET out == Evictees(s)
         IN  /\ active' = s
             /\ parked' = Parked(s)
             /\ gen' = [x \in Sessions |->
                          IF x \in out THEN 0
                          ELSE IF x = s /\ ~ Loaded(s) THEN Len(home) + 1 ELSE gen[x]]
             /\ IF Loaded(s) THEN UNCHANGED <<home, chan>> ELSE Build(s)
             /\ Unload(out)

-----------------------------------------------------------------------------
(* Client commands *)

Command ==
  /\ Ready
  /\ commands < MaxCommands
  /\ commands' = commands + 1

Fresh(s) == s \notin stored \cup Range(home)

\* Bound: an input that may create a session finds an id nobody used yet.
Supplied(input, ids) == input \in {"new", "delete"} => \E s \in ids : Fresh(s)

\* ActivateSession for a listed session.
ActivateSession(s) ==
  /\ Command
  /\ s \in listed \ {active} /\ ~ NoRoom(s)
  /\ Activated(s)
  /\ UNCHANGED <<up, doing, storageVars, pending, accepted>>

\* submit_input, first stage: make the target session the active one.
Submit(s, input) ==
  /\ Command
  /\ input \in Inputs /\ Supplied(input, Sessions)
  /\ s = active \/ s \in listed
  /\ ~ NoRoom(s)
  /\ Activated(s)
  /\ doing' = Doing(input, s)
  /\ UNCHANGED <<up, storageVars, pending, accepted>>

\* create_session: stored first, then activated, which may fail.
Created(s) ==
  /\ stored' = stored \cup {s}
  /\ IF NoRoom(s) THEN UNCHANGED <<listed, residency, runtimes, chan, task, ask>>
                  ELSE Activated(s) /\ listed' = stored'

\* submit_input without a session id.
SubmitNew(s, input) ==
  /\ Command
  /\ input \in Inputs /\ "new" \in Inputs
  /\ Fresh(s) /\ Supplied(input, Sessions \ {s})
  /\ Created(s)
  /\ doing' = IF NoRoom(s) THEN Idle ELSE Doing(input, s)
  /\ UNCHANGED <<up, pending, accepted>>

\* The stage of the handler that follows the activation; the session it works
\* on is the active one.
Second(input) ==
  /\ doing.input = input
  /\ doing' = Idle
  /\ UNCHANGED <<up, accepted, commands>>

\* A task spawned in the runtime of s becomes its active_task: the previous
\* handle is dropped, which detaches its task.
Spawned(s, kind, request) ==
  /\ task' = Append(task, [kind |-> kind, gen |-> gen[s], state |-> "running",
                           aborted |-> FALSE, seq |-> request])
  /\ busy' = [busy EXCEPT ![s] = TRUE]
  /\ handle' = [handle EXCEPT ![s] = Len(task) + 1]

Occupied(s) == busy[s] \/ handle[s] # 0 \/ slot[s] # 0

\* Text for the model, also in a session deleted from storage, which takes it
\* like any other.  When it cannot be saved the sequence was bumped already.
SubmitText ==
  /\ Second("text")
  /\ \/ /\ Occupied(active)
        /\ UNCHANGED <<listed, runtimes, task>>
     \/ /\ ~ Occupied(active)
        /\ seq' = [seq EXCEPT ![active] = @ + 1]
        /\ UNCHANGED slot
        /\ \/ /\ Spawned(active, "run", seq'[active])
              /\ listed' = stored
           \/ UNCHANGED <<listed, busy, handle, task>>
  /\ UNCHANGED <<stored, residency, pending, chan, ask>>

\* Mutant of Registered: register_shell_approval is forgotten.
RegisteredAgentOnly(a, s) ==
  pending' = IF a \in DOMAIN ask
               THEN [b \in DOMAIN pending \cup {a} |-> IF b = a THEN s ELSE pending[b]]
               ELSE pending

\* The approval gets an id, with the session and a deadline on record.
Registered(a, s) ==
  pending' = [b \in DOMAIN pending \cup {a} |-> IF b = a THEN s ELSE pending[b]]

\* `!command`: a shell approval takes the slot, whatever was in it.
SubmitShell ==
  /\ Second("shell")
  /\ ask' = Append([a \in DOMAIN ask |->
                      IF slot[active] = a THEN Answer(a, "closed") ELSE ask[a]],
                   [task |-> 0, answer |-> "none"])
  /\ slot' = [slot EXCEPT ![active] = Len(ask) + 1]
  /\ Registered(Len(ask) + 1, active)
  /\ UNCHANGED <<storageVars, residency, busy, handle, seq, chan, task>>

SubmitCompact ==
  /\ Second("compact")
  /\ Spawned(active, "compact", seq[active])
  /\ UNCHANGED <<storageVars, residency, slot, seq, pending, chan, ask>>

SubmitDiff ==
  /\ Second("diff")
  /\ IF busy[active] THEN UNCHANGED <<busy, handle, task>>
                     ELSE Spawned(active, "local", seq[active])
  /\ UNCHANGED <<storageVars, residency, slot, seq, pending, chan, ask>>

\* `/undo` and `/redo`: when the head moved, the runtime is rebuilt and the old
\* one shut down; approvals registered for it stay in the table.
SubmitReload ==
  /\ Second("reload")
  /\ \/ /\ Build(active)
        /\ Unload({active})
        /\ gen' = [gen EXCEPT ![active] = Len(home) + 1]
        /\ listed' = stored
     \/ UNCHANGED <<listed, gen, home, chan, runtimes, task, ask>>
  /\ UNCHANGED <<stored, active, parked, pending>>

\* `/new` and `/fork`.
SubmitCreate ==
  /\ Second("new")
  /\ \E s \in Sessions : Fresh(s) /\ Created(s)
  /\ UNCHANGED pending

\* `/delete` deletes the active session from storage, then activates another
\* one (a new one if none is left), which may fail.
SubmitDelete ==
  /\ doing.input = "delete"
  /\ LET left == stored \ {active}
     IN  \E s \in Sessions :
           /\ IF left # {} THEN s \in left ELSE Fresh(s)
           /\ stored' = left \cup {s}
           /\ IF NoRoom(s)
                THEN /\ doing' = Idle
                     /\ UNCHANGED <<residency, runtimes, chan, task, ask>>
                ELSE /\ doing' = Doing("drop", doing.session)
                     /\ Activated(s)
  /\ UNCHANGED <<up, listed, pending, accepted, commands>>

\* Mutant of Cleared: the records of every session are cleared.
ClearedAll(s) == pending' = << >>

\* clear_session_approvals
Cleared(s) ==
  pending' = [a \in {b \in DOMAIN pending : pending[b] # s} |-> pending[a]]

\* Rest of `/delete`: unload the deleted session, which the activation parked
\* last, and clear the approvals of the session the command was sent to.
DropDeleted ==
  /\ Second("drop")
  /\ LET deleted == Last(parked)
     IN  /\ Unload({deleted})
         /\ gen' = [gen EXCEPT ![deleted] = 0]
  /\ parked' = Front(parked)
  /\ listed' = stored
  /\ Cleared(doing.session)
  /\ UNCHANGED <<stored, active, home, chan>>

\* Mutant of Matches: any approval in the owner's slot will do.
MatchesAny(a) == a \in DOMAIN pending /\ slot[pending[a]] # 0

\* Is a registered and still the approval its session waits for?
Matches(a) == a \in DOMAIN pending /\ slot[pending[a]] = a

\* resolve_approval: answer the agent, or run the accepted shell command.
Resolve(a, accept) ==
  LET owner == pending[a]
      taken == slot[owner]
      shell == ask[taken].task = 0
  IN  /\ slot' = [slot EXCEPT ![owner] = 0]
      /\ pending' = [b \in DOMAIN pending \ {a} |-> pending[b]]
      /\ ask' = [ask EXCEPT ![taken] = Answer(taken, IF accept THEN "accept" ELSE "reject")]
      /\ IF shell /\ accept THEN Spawned(owner, "local", seq[owner])
                           ELSE UNCHANGED <<busy, handle, task>>

Approve(a, accept) ==
  /\ Command
  /\ Matches(a)
  /\ Resolve(a, accept)
  /\ accepted' = IF accept THEN accepted \cup {a} ELSE accepted
  /\ UNCHANGED <<up, doing, storageVars, residency, seq, chan>>

\* The sequence a client holds, 0 for none, is the current one.
CurrentRequest(receipt) ==
  receipt # 0 => /\ task[receipt].kind = "run"
                 /\ home[task[receipt].gen] = active
                 /\ task[receipt].seq = seq[active]

\* Mutant of Cancel: `busy` is left for the aborted task to clear.
CancelLeavesBusy(receipt) ==
  /\ Command
  /\ CurrentRequest(receipt)
  /\ doing' = [input |-> "cancel", session |-> active, task |-> handle[active],
               receipt |-> receipt]
  /\ task' = [t \in DOMAIN task |->
                IF handle[active] = t
                  THEN [task[t] EXCEPT !.aborted = TRUE] ELSE task[t]]
  /\ ask' = [a \in DOMAIN ask |->
               IF slot[active] = a THEN Answer(a, "reject") ELSE ask[a]]
  /\ handle' = [handle EXCEPT ![active] = 0]
  /\ slot' = [slot EXCEPT ![active] = 0]
  /\ UNCHANGED <<up, storageVars, residency, busy, seq, pending, chan, accepted>>

\* Cancel of the active session, with the receipt of one of its requests or
\* without; the handler then waits for the aborted task.
Cancel(receipt) ==
  /\ Command
  /\ CurrentRequest(receipt)
  /\ doing' = [input |-> "cancel", session |-> active, task |-> handle[active],
               receipt |-> receipt]
  /\ Stop({active})
  /\ UNCHANGED <<up, storageVars, residency, seq, pending, chan, accepted>>

FinishCancel ==
  /\ Second("cancel")
  /\ doing.task # 0 => task[doing.task].state = "ended"
  /\ Cleared(doing.session)
  /\ UNCHANGED <<storageVars, residency, runtimes, chan, task, ask>>

-----------------------------------------------------------------------------
(* Agent events, the approval timer, shutdown *)

\* The first event a runtime's task sent goes to the runtime its session has
\* now, whichever that is; without one it is dropped with its reply sender.
HandleRouted(g) ==
  /\ Ready
  /\ g \in DOMAIN chan /\ chan[g] # << >>
  /\ chan' = [chan EXCEPT ![g] = Tail(@)]
  /\ LET s == home[g]
         event == Head(chan[g])
     IN  \/ /\ event.type = "approval"
            /\ Registered(event.ask, s)
            /\ ask' = [a \in DOMAIN ask |->
                         IF a = (IF Loaded(s) THEN slot[s] ELSE event.ask)
                           THEN Answer(a, "closed") ELSE ask[a]]
            /\ slot' = IF Loaded(s) THEN [slot EXCEPT ![s] = event.ask] ELSE slot
            /\ UNCHANGED <<listed, busy, handle>>
         \/ /\ event.type # "approval"
            /\ busy' = [busy EXCEPT ![s] = FALSE]
            /\ handle' = [handle EXCEPT ![s] = 0]
            /\ listed' = IF event.type = "completed" /\ Loaded(s) THEN stored ELSE listed
            /\ IF event.type = "cancelled"
                 THEN /\ slot' = [slot EXCEPT ![s] = 0]
                      /\ ask' = [a \in DOMAIN ask |->
                                   IF a = slot[s] THEN Answer(a, "reject") ELSE ask[a]]
                 ELSE UNCHANGED <<slot, ask>>
            /\ UNCHANGED pending
  /\ UNCHANGED <<up, doing, stored, residency, seq, task, accepted, commands>>

\* Mutant of Due: the sweep looks at the active session only.
DueIfActive(a) == Matches(a) /\ pending[a] = active

\* A registered approval whose deadline may have passed.
Due(a) == Matches(a)

\* sweep_expired_approvals, for one expired approval.
Expire(a) ==
  /\ Ready
  /\ Due(a)
  /\ Resolve(a, FALSE)
  /\ UNCHANGED <<up, doing, storageVars, residency, seq, chan, accepted, commands>>

\* shutdown(): reject what is pending, stop the runtimes of listed sessions;
\* the engine then drops its other runtimes and the events it did not handle.
Shutdown ==
  /\ Ready
  /\ up' = FALSE
  /\ LET rejected == {a \in DOMAIN pending : Matches(a)}
                       \cup {slot[s] : s \in {x \in listed : Loaded(x)}}
         aborted == {handle[s] : s \in {x \in listed : Loaded(x)}}
     IN  /\ ask' = [a \in DOMAIN ask |->
                      Answer(a, IF a \in rejected THEN "reject" ELSE "closed")]
         /\ task' = [t \in DOMAIN task |->
                       IF t \in aborted THEN [task[t] EXCEPT !.aborted = TRUE] ELSE task[t]]
  /\ active' = active /\ parked' = << >>
  /\ gen' = [s \in Sessions |-> 0]
  /\ busy' = [s \in Sessions |-> FALSE]
  /\ handle' = [s \in Sessions |-> 0]
  /\ slot' = [s \in Sessions |-> 0]
  /\ seq' = [s \in Sessions |-> 0]
  /\ pending' = << >>
  /\ chan' = [g \in DOMAIN chan |-> << >>]
  /\ UNCHANGED <<doing, storageVars, home, accepted, commands>>

-----------------------------------------------------------------------------
(* Agent tasks *)

Live(t) == task[t].state # "ended"

Sent(t, type, a) ==
  chan' = IF up THEN [chan EXCEPT ![task[t].gen] =
                        Append(@, [type |-> type, task |-> t, ask |-> a])]
                ELSE chan

Becomes(t, state) == task' = [task EXCEPT ![t].state = state]

engineVars == <<up, doing, storageVars, residency, runtimes, pending, accepted,
                commands>>

\* A tool call needs approval.  An aborted task runs on to its next await.
Ask(t) ==
  /\ up
  /\ task[t].kind = "run" /\ task[t].state = "running"
  /\ Cardinality({a \in DOMAIN ask : ask[a].task # 0}) < MaxAsks
  /\ Becomes(t, "waiting")
  /\ ask' = Append(ask, [task |-> t, answer |-> "none"])
  /\ Sent(t, "approval", Len(ask) + 1)
  /\ UNCHANGED engineVars

Waiting(t, a) == ask[a].task = t /\ task[t].state = "waiting"
                   /\ \A b \in DOMAIN ask : ask[b].task = t => b <= a

\* The answer arrives.  When the reply was dropped a child agent's tool fails
\* and its parent goes on, and a parent's own request ends as cancelled.
Resume(t) ==
  /\ ~ task[t].aborted
  /\ \E a \in DOMAIN ask :
       /\ Waiting(t, a) /\ ask[a].answer # "none"
       /\ \/ Becomes(t, "running") /\ UNCHANGED chan
          \/ /\ ask[a].answer = "closed"
             /\ Becomes(t, "ended")
             /\ Sent(t, "cancelled", 0)
  /\ UNCHANGED <<engineVars, ask>>

\* The task's last event: Completed, or Failed and LocalCommandFinished.
Finish(t) ==
  /\ task[t].state = "running"
  /\ Becomes(t, "ended")
  /\ \/ task[t].kind # "local" /\ Sent(t, "completed", 0)
     \/ task[t].kind # "compact" /\ Sent(t, "ended", 0)
  /\ UNCHANGED <<engineVars, ask>>

AbortTakesEffect(t) ==
  /\ Live(t) /\ task[t].aborted
  /\ Becomes(t, "ended")
  /\ UNCHANGED <<engineVars, chan, ask>>

-----------------------------------------------------------------------------
Client ==
  \/ \E s \in Sessions :
       \/ ActivateSession(s)
       \/ \E input \in Inputs : Submit(s, input) \/ SubmitNew(s, input)
  \/ \E a \in DOMAIN ask, accept \in BOOLEAN : Approve(a, accept)
  \/ \E receipt \in DOMAIN task \cup {0} : Cancel(receipt)

\* The engine finishes the handler it is in.
Proceed ==
  \/ SubmitText \/ SubmitShell \/ SubmitCompact \/ SubmitDiff
  \/ SubmitReload \/ SubmitCreate \/ SubmitDelete \/ DropDeleted
  \/ FinishCancel

Agent(t) == Ask(t) \/ Resume(t) \/ Finish(t) \/ AbortTakesEffect(t)

Next ==
  \/ Client \/ Proceed \/ Shutdown
  \/ \E g \in DOMAIN chan : HandleRouted(g)
  \/ \E a \in DOMAIN ask : Expire(a)
  \/ \E t \in DOMAIN task : Agent(t)

Spec == Init /\ [][Next]_vars

\* The engine goes on with the handler it is in and with queued events, and a
\* sweep late enough finds any deadline passed; an aborted task is dropped, a
\* task whose answer has come goes on.  Clients, and agents otherwise, need
\* not do anything.
Fairness ==
  /\ WF_vars(Proceed)
  /\ WF_vars(\E g \in DOMAIN chan : HandleRouted(g))
  /\ WF_vars(\E a \in DOMAIN ask : Expire(a))
  /\ WF_vars(\E t \in DOMAIN task : AbortTakesEffect(t))
  /\ WF_vars(\E t \in DOMAIN task : Resume(t))

FairSpec == Spec /\ Fairness

-----------------------------------------------------------------------------
(* Properties *)

\* The shape of the state; a session is active, parked or unloaded.
TypeOK ==
  /\ up \in BOOLEAN /\ commands \in 0..MaxCommands
  /\ doing = Idle \/ /\ doing.input \in Inputs \cup {"cancel", "drop"}
                     /\ doing.session \in Sessions
                     /\ doing.task \in 0..Len(task) /\ doing.receipt \in 0..Len(task)
  /\ stored \subseteq Sessions /\ listed \subseteq Sessions
  /\ active \in Sessions /\ parked \in Seq(Sessions \ {active})
  /\ IsInjective(parked)
  /\ up => \A s \in Sessions : Loaded(s) <=> s \in {active} \cup Range(parked)
  /\ \A s \in Sessions : Loaded(s) => gen[s] \in DOMAIN home /\ home[gen[s]] = s
  /\ busy \in [Sessions -> BOOLEAN] /\ seq \in [Sessions -> Nat]
  /\ handle \in [Sessions -> 0..Len(task)] /\ slot \in [Sessions -> 0..Len(ask)]
  /\ DOMAIN pending \subseteq DOMAIN ask /\ Range(pending) \subseteq Sessions
  /\ home \in Seq(Sessions)
  /\ chan \in Seq(Seq([type : EventTypes, task : 1..Len(task), ask : 0..Len(ask)]))
  /\ task \in Seq([kind : TaskKinds, gen : 1..Len(home), aborted : BOOLEAN,
                   state : {"running", "waiting", "ended"}, seq : Nat])
  /\ ask \in Seq([task : 0..Len(task),
                  answer : {"none", "accept", "reject", "closed"}])
  /\ accepted \subseteq DOMAIN ask

\* Nothing runs that the user did not accept under its own approval id, however
\* approvals are superseded, cancelled, expired or moved between runtimes
\* (engine.rs resolve_approval, app.rs take_pending_approval).
Consent == \A a \in DOMAIN ask : ask[a].answer = "accept" => a \in accepted

\* Every approval a session waits for has its record in the pending table, so
\* both the client and the timer can still resolve it (engine.rs
\* handle_routed, clear_session_approvals).
SlotHasRecord ==
  \A s \in Sessions : slot[s] # 0 => slot[s] \in DOMAIN pending /\ pending[slot[s]] = s

\* Switching sessions never aborts a task and never answers an approval
\* (runtime.rs activate_session, "never interrupt a busy background task").
SwitchNeverInterrupts ==
  [][active' # active =>
       /\ \A t \in DOMAIN task : task'[t].aborted = task[t].aborted
       /\ \A a \in DOMAIN ask : ask'[a].answer = ask[a].answer]_vars

\* A session that refuses new requests as busy has a task at work or that
\* task's last event on its way, so it cannot stay busy for ever (session.rs
\* handle_event, app.rs cancel_active_request).
BusyIsBacked ==
  \A s \in Sessions : busy[s] =>
    \/ \E t \in DOMAIN task :
         task[t].gen = gen[s] /\ Live(t) /\ ~ task[t].aborted
    \/ \E g \in DOMAIN chan : home[g] = s /\
         \E i \in DOMAIN chan[g] : chan[g][i].type # "approval"

Unanswered(a) ==
  /\ a \in DOMAIN ask
  /\ ask[a].task # 0 /\ ask[a].answer = "none" /\ Live(ask[a].task)

\* No agent hangs on an approval nobody can answer (engine.rs
\* sweep_expired_approvals, "so it never hangs waiting on an unanswerable
\* prompt").
EveryAskAnswered ==
  \A a \in 1..(MaxAsks + MaxCommands) : Unanswered(a) ~> ~ Unanswered(a)

\* No session stays blocked by an approval, an agent's or a shell command's,
\* that neither the client nor the timer resolves (engine.rs
\* register_shell_approval, sweep_expired_approvals).
EveryPromptResolved ==
  \A a \in 1..(MaxAsks + MaxCommands) :
    (\E s \in Sessions : slot[s] = a) ~> \A s \in Sessions : slot[s] # a
=============================================================================
