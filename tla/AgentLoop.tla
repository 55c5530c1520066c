----------------------------- MODULE AgentLoop -----------------------------
(***************************************************************************)
(* The agent of one session (src/agent/runner.rs, src/agent.rs): a user's  *)
(* request becomes a run, which asks the model, executes the tool calls it *)
(* answers with and asks again, until an answer asks for none.  What the   *)
(* run adds to the conversation it adds to the session's rows too.  The    *)
(* run may fail, be cancelled, or die with the process.  What a shell      *)
(* command of the user printed is added beside it.                         *)
(*                                                                         *)
(* A conversation is a sequence of items, each tool call an item of its    *)
(* own; the text of an item is its origin.  The rows are those a reload    *)
(* decodes; History models how they are kept.                              *)
(***************************************************************************)
EXTENDS ProviderStream

CONSTANTS
  Writes,             \* tools the policy asks about, and denies in plan mode
  Spawns,             \* agent_spawn calls
  MaxOverflowRetries  \* compaction.max_overflow_retries

ASSUME AgentAssumption ==
  /\ Writes \subseteq Tools /\ Spawns \subseteq Tools \ Writes
  /\ MaxOverflowRetries \in Nat

VARIABLES
  conversation,  \* the session's conversation in memory
  rows,          \* the session's visible rows
  storedId,      \* the stored previous_response_id, 0 if none
  partial,       \* the response whose text is stored as the partial answer, or 0
  displayed,     \* the responses that assistant entries on screen show, as far as
                 \* they are not marked as partial
  mode,          \* "build" or "plan", in the shared registry
  allowed,       \* tools the user always allows
  phase,         \* "idle", or where the run is
  run,           \* the runs so far
  items,         \* the run's conversation
  prev,          \* previous_response_id
  cursor,        \* request_cursor: the items the response already has
  retries,       \* overflow_retries
  request,       \* the request of the round
  collector,     \* the StreamCollector of the round
  pending,       \* calls of the round not yet looked at
  spawned,       \* approved agent_spawn calls of the round
  decided,       \* executed_tool_calls
  base,          \* history: where the run began, and whether it was rewritten
  verdicts,      \* history: the calls of the run that were executed or refused
  unanswered,    \* history: the runs that ended without an answer
  cut            \* history: the items a compaction or a trim took away

sessionVars == <<conversation, rows, storedId, partial, displayed>>
roundVars == <<request, collector, pending, spawned>>
runVars == <<phase, run, items, prev, cursor, retries, roundVars, decided>>
policyVars == <<mode, allowed>>
historyVars == <<base, verdicts, unanswered, cut>>
vars == <<providerVars, sessionVars, runVars, policyVars, historyVars>>

NoRequest == [prev |-> 0, items |-> << >>, local |-> << >>, run |-> 0]
NoAnswer == [text |-> 0, thought |-> FALSE, partials |-> {}, calls |-> << >>, done |-> FALSE]

Init ==
  /\ ProviderInit
  /\ conversation = << >> /\ rows = << >> /\ storedId = 0
  /\ partial = 0 /\ displayed = {}
  /\ mode = "build" /\ allowed = {}
  /\ phase = "idle" /\ run = 0 /\ items = << >> /\ prev = 0 /\ cursor = 0
  /\ retries = 0 /\ request = NoRequest /\ collector = NoAnswer
  /\ pending = << >> /\ spawned = {} /\ decided = {}
  /\ base = [items |-> 0, rows |-> 0, rewritten |-> FALSE]
  /\ verdicts = {} /\ unanswered = {} /\ cut = {}

-----------------------------------------------------------------------------
(* The end of a run *)

\* The run is over and the session idle.
Finish(next) ==
  /\ conversation' = next
  /\ phase' = "idle" /\ items' = << >> /\ prev' = 0 /\ cursor' = 0 /\ retries' = 0
  /\ request' = NoRequest /\ collector' = NoAnswer
  /\ pending' = << >> /\ spawned' = {} /\ decided' = {}
  /\ CloseStream
  /\ UNCHANGED run

\* The run ends without an answer.
NoAnswerCame == unanswered' = unanswered \cup {run}

\* save_partial: a text without a word in it is not saved, and the response id
\* is kept with it.
SavePartial(text, of) ==
  IF text = 0 THEN UNCHANGED <<partial, storedId>>
  ELSE partial' = of /\ storedId' = 0

\* The assistant entries on screen once the round's text has been forwarded.
Shown(text) == IF text = 0 THEN displayed ELSE displayed \cup {current}

\* The responses whose texts a conversation has.
EntriesOf(s) == {x.of : x \in {y \in ToSet(s) : y.k = "text"}}

\* mark_partial_if_streaming: the last of them becomes a partial one, unless
\* another entry follows it.
Interrupted(shown) ==
  \/ displayed' = shown
  \/ \E last \in shown : /\ \A other \in shown : other <= last
                         /\ displayed' = shown \ {last}

\* Err(..): the run's items are lost to the conversation in memory.
FailRun ==
  /\ SavePartial(collector.text, current)
  /\ Interrupted(Shown(collector.text))
  /\ Finish(conversation)
  /\ NoAnswerCame
  /\ UNCHANGED <<rows, base, verdicts, cut>>

-----------------------------------------------------------------------------
(* The user *)

\* submit_input: the message and the files it names become items and rows; the
\* run starts with a copy of the conversation.
Submit ==
  /\ phase = "idle" /\ run < profile.runs
  /\ \E attach \in BOOLEAN :
       LET message == <<Item("user", run + 1, 0, "none")>>
           files == IF attach THEN <<Item("file", run + 1, 0, "none")>> ELSE << >>
       IN  /\ attach => Has("files")
           /\ conversation' = conversation \o message \o files
           /\ rows' = rows \o message \o files
  /\ items' = conversation' /\ run' = run + 1 /\ phase' = "begin"
  /\ base' = [items |-> Len(items'), rows |-> Len(rows'), rewritten |-> FALSE]
  /\ verdicts' = {}
  /\ UNCHANGED <<providerVars, storedId, partial, displayed, prev, cursor, retries,
                 roundVars, decided, policyVars, unanswered, cut>>

\* switch_mode, also during a run: the stored response id is dropped.
SwitchMode ==
  /\ Has("modes")
  /\ mode' = IF mode = "build" THEN "plan" ELSE "build"
  /\ storedId' = 0
  /\ UNCHANGED <<providerVars, conversation, rows, partial, displayed, runVars, allowed,
                 historyVars>>

\* LocalCommandFinished: what a shell command printed becomes an item of the
\* conversation in memory and a row, also while a run works on its own items.
FinishShell ==
  /\ Fault("shell")
  /\ LET shell == Item("shell", run, 0, "none")
     IN  conversation' = Append(conversation, shell) /\ rows' = Append(rows, shell)
  /\ UNCHANGED <<profile, streamVars, server, storedId, partial, displayed, runVars,
                 policyVars, historyVars>>

\* streaming_assistant_text and save_partial: the last of these entries, which
\* may be an earlier answer, is saved as the partial one.
SaveShown(shown) ==
  \/ shown = {} /\ UNCHANGED <<partial, storedId>>
  \/ \E last \in shown : /\ \A other \in shown : other <= last
                         /\ partial' = last /\ storedId' = 0

\* cancel_active_request: what is on screen is saved and the task is aborted.
Cancel ==
  /\ Has("cancel") /\ phase # "idle"
  /\ \E seen \in 0 .. collector.text : SaveShown(Shown(seen)) /\ Interrupted(Shown(seen))
  /\ Finish(conversation)
  /\ NoAnswerCame
  /\ UNCHANGED <<profile, endpointVars, rows, policyVars, base, verdicts, cut>>

\* The process dies and is started again; the session is loaded from its rows.
Crash ==
  /\ Has("crash")
  /\ Finish(rows)
  /\ displayed' = EntriesOf(rows)
  /\ allowed' = {}
  /\ IF phase = "idle" THEN UNCHANGED unanswered ELSE NoAnswerCame
  /\ base' = [base EXCEPT !.rewritten = TRUE]
  /\ UNCHANGED <<profile, endpointVars, rows, storedId, partial, mode, verdicts, cut>>

-----------------------------------------------------------------------------
(* A round: the request *)

IsUser(s) == {j \in DOMAIN s : s[j].k = "user"}

\* incremental_request_cursor: what comes before the last message of the user.
IncrementalCursor(s) ==
  IF IsUser(s) = {} THEN Minus(Len(s), 1) ELSE Max(IsUser(s)) - 1

Answered(s, n) == \E m \in DOMAIN s : s[m].k = "output" /\ SameCall(s[m], s[n])
Asked(s, n) == \E m \in 1 .. n - 1 : s[m].k = "call" /\ SameCall(s[m], s[n])

\* Mutant of ReplaySafe: a call is kept whether or not it has an output.
ReplaySafeCalls(s) ==
  Kept(s, {n \in DOMAIN s : s[n].k = "output" => Asked(s, n)})

\* replay_safe_items: without the calls that have no output and the outputs
\* that follow no call.
ReplaySafe(s) ==
  Kept(s, {n \in DOMAIN s : /\ s[n].k = "call" => Answered(s, n)
                            /\ s[n].k = "output" => Asked(s, n)})

\* Where a compaction may cut: before a message of the user, or behind it all.
Boundaries(s) == {c \in DOMAIN s : c = Len(s) \/ s[c + 1].k = "user"}

Summary == Item("summary", run, 0, "none")

\* compact_context cut the first c items off: in memory the summary takes their
\* place, in the rows it is added behind those that stay visible.
Summarised(c) ==
  LET keep == Larger(Len(items) - c, 1)
  IN  /\ items' = <<Summary>> \o SubSeq(items, c + 1, Len(items))
      /\ rows' = SubSeq(rows, Minus(Len(rows), keep) + 1, Len(rows)) \o <<Summary>>

\* trim_conversation_to_budget: the first k items go, the outputs then in front
\* too, and a note says so.  The calls of a response are one item of the code.
Trimmed(k) ==
  LET rest == SubSeq(items, k + 1, Len(items))
      tail == {j \in DOMAIN rest : rest[j].k # "output"}
      kept == IF tail = {} THEN << >> ELSE SubSeq(rest, Min(tail), Len(rest))
  IN  /\ k < Len(items) /\ items[k].k = "call" => items[k + 1].k # "call"
      /\ items' = <<Item("note", run, 0, "none")>> \o kept
      /\ UNCHANGED rows

\* The history is too long: it is compacted, which drops the stored response
\* id, or, when that fails and the window is known, trimmed, which keeps id.
Shrink(id) ==
  /\ Fault("compact")
  /\ \/ storedId' = 0 /\ \E c \in Boundaries(items) : Summarised(c)
     \/ storedId' = id /\ \E k \in DOMAIN items : Trimmed(k)
  /\ base' = [base EXCEPT !.rewritten = TRUE]
  /\ cut' = cut \cup (ToSet(items) \ ToSet(items'))

\* run: compact_if_needed, and the start of run_inner.
Begin ==
  /\ phase = "begin"
  /\ Shrink(storedId) \/ UNCHANGED <<items, rows, storedId, faults, base, cut>>
  /\ prev' = IF Has("ids") THEN storedId' ELSE 0
  /\ cursor' = IF prev' = 0 THEN 0 ELSE IncrementalCursor(items')
  /\ phase' = "request"
  /\ UNCHANGED <<profile, streamVars, server, conversation, partial, displayed, run,
                 retries, roundVars, decided, policyVars, verdicts, unanswered>>

\* Mutant of NewItems: only the last item is new.
NewItemsLast == SubSeq(items, Len(items), Len(items))

\* What the endpoint does not have yet.
NewItems == SubSeq(items, cursor + 1, Len(items))

\* A request resumes the previous response or replays the conversation.
SendRequest ==
  /\ phase = "request"
  /\ request' = [prev |-> prev, run |-> run, local |-> ReplaySafe(items),
                 items |-> IF prev = 0 THEN ReplaySafe(items) ELSE NewItems]
  /\ collector' = NoAnswer /\ phase' = "stream"
  /\ OpenStream
  /\ UNCHANGED <<profile, endpointVars, sessionVars, run, items, prev, cursor, retries,
                 pending, spawned, decided, policyVars, historyVars>>

-----------------------------------------------------------------------------
(* A round: the answer *)

\* on_event: what the collector keeps of an event.
Collected(e) ==
  [collector EXCEPT
     !.text = IF e.type = "text" THEN @ + 1 ELSE @,
     !.thought = @ \/ e.type = "thinking",
     !.partials = IF e.type = "delta" THEN @ \cup {e}
                  ELSE IF e.type = "call" THEN {p \in @ : ~ SameCall(p, e)} ELSE @,
     !.calls = IF e.type = "call" THEN Append(@, e) ELSE @,
     !.done = @ \/ e.type = "done"]

\* Mutant of Exceeds: what exceeds the limit is dropped without a word.
ExceedsNever(e) == FALSE

\* Does this text exceed max_response_bytes?
Exceeds(e) == e.type = "text" /\ collector.text = MaxText

\* The next event of the stream.  A response id is stored at once; search
\* sources become items and rows, a reasoning item an item only.
Consume ==
  /\ phase = "stream" /\ chan # << >> /\ ~ collector.done /\ ~ Exceeds(Head(chan))
  /\ chan' = Tail(chan)
  /\ LET e == Head(chan)
         item == Item(e.type, e.of, 0, "none")
     IN  /\ collector' =
              IF e.type = "text" /\ collector.text = MaxText THEN collector ELSE Collected(e)
         /\ items' = IF e.type \in {"search", "reasoning"} THEN Append(items, item) ELSE items
         /\ rows' = IF e.type = "search" THEN Append(rows, item) ELSE rows
         /\ IF e.type = "id" /\ Has("ids")
              THEN prev' = e.of /\ storedId' = e.of
              ELSE UNCHANGED <<prev, storedId>>
  /\ UNCHANGED <<profile, net, attempt, emitted, spoke, decoder, frames, body, heard,
                 outcome, current, endpointVars, conversation, partial, displayed, phase,
                 run, cursor, retries, request, pending, spawned, decided, policyVars,
                 historyVars>>

\* StreamFailure::Limit: the stream is dropped and the run fails.
ConsumeTooMuch ==
  /\ phase = "stream" /\ chan # << >> /\ ~ collector.done /\ Exceeds(Head(chan))
  /\ FailRun
  /\ UNCHANGED <<profile, endpointVars, policyVars>>

\* stream() has returned and the collector has seen all its events.
Drained == phase = "stream" /\ net = "done" /\ (chan = << >> \/ collector.done)

\* Nothing of the answer has arrived.
Silent == collector.text = 0 /\ collector.partials = {} /\ collector.calls = << >>

\* Mutant of Forget: the request is sent again as it was.
ForgetNothing == UNCHANGED <<prev, cursor>>

\* The run no longer resumes a response.
Forget == prev' = 0 /\ cursor' = 0

\* The request is sent again as a full replay.
ReplayNext ==
  /\ Forget /\ phase' = "request"
  /\ request' = NoRequest /\ collector' = NoAnswer
  /\ CloseStream
  /\ UNCHANGED <<run, pending, spawned, decided>>

\* The context was too long and could be made shorter: once more.
RecoverOverflow ==
  /\ Drained /\ outcome = "overflow" /\ retries < MaxOverflowRetries
  /\ Shrink(0)
  /\ retries' = retries + 1
  /\ ReplayNext
  /\ UNCHANGED <<profile, server, conversation, partial, displayed, policyVars, verdicts,
                 unanswered>>

\* Replay the local history instead of resuming a response the endpoint may not
\* have any more: as often as the endpoint gives a new response a name and
\* then fails it.
ReplayInstead ==
  /\ Drained /\ outcome \in Errors
  /\ outcome # "overflow" \/ retries = MaxOverflowRetries
  /\ prev # 0 /\ Silent
  /\ storedId' = 0
  /\ ReplayNext
  /\ UNCHANGED <<profile, endpointVars, conversation, rows, partial, displayed, items,
                 retries, policyVars, historyVars>>

\* The error is final; a context that could not be made shorter is one.
GiveUp ==
  /\ Drained /\ outcome \in Errors
  /\ \/ outcome = "overflow" /\ retries < MaxOverflowRetries
     \/ prev = 0 \/ ~ Silent
  /\ FailRun
  /\ UNCHANGED <<profile, endpointVars, policyVars>>

\* finish_partials: the calls whose end was not announced, in any order.
FinishedCalls ==
  {collector.calls \o s : s \in SetToSeqs(collector.partials)}

\* A call's arguments are no JSON: the run fails and the answer is lost.
Malformed ==
  /\ Drained /\ outcome = "ok" /\ collector.partials # {}
  /\ Fault("malformed")
  /\ Interrupted(Shown(collector.text))
  /\ Finish(conversation)
  /\ NoAnswerCame
  /\ UNCHANGED <<profile, server, rows, storedId, partial, policyVars, base, verdicts, cut>>

\* What the answer adds to the conversation before its calls.
Answer ==
  (IF collector.thought THEN <<Item("thinking", current, 0, "none")>> ELSE << >>)
    \o (IF collector.text = 0 THEN << >> ELSE <<Item("text", current, collector.text, "none")>>)

\* The answer asks for nothing: Completed hands the items to the session, which
\* shows them anew when they have been compacted.
Complete ==
  /\ Drained /\ outcome = "ok" /\ collector.partials = {} /\ collector.calls = << >>
  /\ rows' = rows \o Answer
  /\ partial' = IF collector.text = 0 THEN partial ELSE 0
  /\ displayed' = IF \E x \in ToSet(items) : x.k = "summary" THEN EntriesOf(items \o Answer)
                  ELSE Shown(collector.text)
  /\ Finish(items \o Answer)
  /\ IF Answer = << >> THEN NoAnswerCame ELSE UNCHANGED unanswered
  /\ UNCHANGED <<profile, endpointVars, storedId, policyVars, base, verdicts, cut>>

\* The answer asks for tools: text and calls are stored before any is executed.
AcceptCalls ==
  /\ Drained /\ outcome = "ok"
  /\ \E calls \in FinishedCalls :
       LET added == Answer \o [j \in DOMAIN calls |->
                                 Item("call", calls[j].of, calls[j].n, calls[j].tool)]
       IN  /\ calls # << >>
           /\ items' = items \o added /\ rows' = rows \o added
           /\ pending' = calls
  /\ cursor' = Len(items')
  /\ partial' = IF collector.text = 0 THEN partial ELSE 0
  /\ displayed' = Shown(collector.text)
  /\ phase' = "calls" /\ request' = NoRequest /\ collector' = NoAnswer
  /\ CloseStream
  /\ UNCHANGED <<profile, endpointVars, conversation, storedId, run, prev, retries,
                 spawned, decided, policyVars, historyVars>>

-----------------------------------------------------------------------------
(* A round: the calls *)

\* policy: what the shared registry says of a tool now.
Policy(tool) ==
  LET ask == tool \in Writes \cup Spawns \/ Has("ask")
  IN  CASE tool \in Writes /\ mode = "plan" -> "deny"
        [] Has("deny") -> "deny"
        [] ask /\ tool \notin allowed -> "ask"
        [] OTHER -> "allow"

Call == Head(pending)

\* Mutant of Output: the output is not stored.
OutputUnstored(call) ==
  items' = Append(items, Item("output", call.of, call.n, call.tool)) /\ UNCHANGED rows

\* The output of a call becomes an item and a row.
Output(call) ==
  LET output == Item("output", call.of, call.n, call.tool)
  IN  items' = Append(items, output) /\ rows' = Append(rows, output)

\* Mutant of Remember: a call that was decided is not remembered.
RememberNothing(call) == UNCHANGED decided

\* complete_tool: the signature is known from now on.
Remember(call) == decided' = decided \cup {call.tool}

Judge(call) == verdicts' = verdicts \cup {[tool |-> call.tool, of |-> call.of, n |-> call.n]}

\* The same call was executed or refused before in this run.
AnswerDuplicate ==
  /\ phase = "calls" /\ pending # << >> /\ Call.tool \in decided
  /\ Output(Call) /\ pending' = Tail(pending)
  /\ UNCHANGED <<providerVars, conversation, storedId, partial, displayed, phase, run,
                 prev, cursor, retries, request, collector, spawned, decided, policyVars,
                 historyVars>>

\* A child's role, or the policy, forbids the call.
Refuse ==
  /\ phase = "calls" /\ pending # << >> /\ Call.tool \notin decided
  /\ (Has("child") /\ Call.tool \in Writes \cup Spawns) \/ Policy(Call.tool) = "deny"
  /\ Output(Call) /\ Remember(Call) /\ Judge(Call) /\ pending' = Tail(pending)
  /\ UNCHANGED <<providerVars, conversation, storedId, partial, displayed, phase, run,
                 prev, cursor, retries, request, collector, spawned, policyVars, base,
                 unanswered, cut>>

\* The user has to be asked, or need not be.
Consider ==
  /\ phase = "calls" /\ pending # << >> /\ Call.tool \notin decided
  /\ ~ (Has("child") /\ Call.tool \in Writes \cup Spawns)
  /\ \/ Policy(Call.tool) = "ask" /\ phase' = "approval"
     \/ Policy(Call.tool) = "allow" /\ phase' = "approved"
  /\ UNCHANGED <<providerVars, sessionVars, run, items, prev, cursor, retries, roundVars,
                 decided, policyVars, historyVars>>

\* The user says yes, once or for the session.
Approve ==
  /\ phase = "approval"
  /\ phase' = "approved"
  /\ \/ UNCHANGED allowed
     \/ Has("always") /\ allowed' = allowed \cup {Call.tool}
  /\ UNCHANGED <<providerVars, sessionVars, run, items, prev, cursor, retries, roundVars,
                 decided, mode, historyVars>>

\* The user says no, or the approval expires.
Reject ==
  /\ phase = "approval"
  /\ Output(Call) /\ Remember(Call) /\ Judge(Call) /\ pending' = Tail(pending)
  /\ phase' = "calls"
  /\ UNCHANGED <<providerVars, conversation, storedId, partial, displayed, run, prev,
                 cursor, retries, request, collector, spawned, policyVars, base,
                 unanswered, cut>>

\* The approval is dropped without an answer: the run ends as cancelled.
LoseApproval ==
  /\ phase = "approval" /\ Fault("closed")
  /\ Interrupted(displayed)
  /\ Finish(conversation)
  /\ NoAnswerCame
  /\ UNCHANGED <<profile, server, rows, storedId, partial, policyVars, base, verdicts, cut>>

\* begin_tool: an approved call starts, a child agent at the end of the round.
\* The mode is not looked at again.
StartTool ==
  /\ phase = "approved"
  /\ Judge(Call)
  /\ IF Call.tool \in Spawns
       THEN spawned' = spawned \cup {Call} /\ pending' = Tail(pending) /\ phase' = "calls"
       ELSE phase' = "executing" /\ UNCHANGED <<spawned, pending>>
  /\ UNCHANGED <<providerVars, sessionVars, run, items, prev, cursor, retries, request,
                 collector, decided, policyVars, base, unanswered, cut>>

\* The tool returns, with a result or an error.
FinishTool ==
  /\ phase = "executing"
  /\ Output(Call) /\ Remember(Call) /\ pending' = Tail(pending) /\ phase' = "calls"
  /\ UNCHANGED <<providerVars, conversation, storedId, partial, displayed, run, prev,
                 cursor, retries, request, collector, spawned, policyVars, historyVars>>

\* The child agents of the round run at the same time and end in any order.
FinishChild ==
  /\ phase = "calls" /\ pending = << >>
  /\ \E call \in spawned :
       /\ Output(call) /\ Remember(call)
       /\ spawned' = spawned \ {call}
  /\ UNCHANGED <<providerVars, conversation, storedId, partial, displayed, phase, run,
                 prev, cursor, retries, request, collector, pending, policyVars,
                 historyVars>>

\* All calls have their output: ask the model again.
NextRound ==
  /\ phase = "calls" /\ pending = << >> /\ spawned = {}
  /\ phase' = "request"
  /\ UNCHANGED <<providerVars, sessionVars, run, items, prev, cursor, retries, roundVars,
                 decided, policyVars, historyVars>>

-----------------------------------------------------------------------------

ProviderStep ==
  /\ Respond(request) \/ ReceiveFrame \/ ReceiveBytes \/ HandleFrame \/ EndOfBody
       \/ BreakOff \/ \E r \in DOMAIN server : FinishUnheard(r)
  /\ UNCHANGED <<sessionVars, runVars, policyVars, historyVars>>

RunnerStep ==
  \/ Begin \/ SendRequest \/ Consume \/ ConsumeTooMuch \/ RecoverOverflow
  \/ ReplayInstead \/ GiveUp \/ Malformed \/ Complete \/ AcceptCalls
  \/ AnswerDuplicate \/ Refuse \/ Consider \/ StartTool \/ FinishTool \/ FinishChild
  \/ NextRound

UserAnswers == Approve \/ Reject

Next ==
  \/ Submit \/ SwitchMode \/ FinishShell \/ Cancel \/ Crash
  \/ ProviderStep \/ RunnerStep \/ UserAnswers \/ LoseApproval

\* The runtime polls the agent's task and its stream.  The endpoint answers and
\* goes on answering, or the client's timeout ends the request; the user, or
\* the sweep of expired approvals, answers what is asked.
Fairness == WF_vars(ProviderStep) /\ WF_vars(RunnerStep) /\ WF_vars(UserAnswers)

Spec == Init /\ [][Next]_vars /\ Fairness

-----------------------------------------------------------------------------
(* Properties *)

Nothing == "none"
Kinds == {"user", "file", "text", "call", "output", "thinking", "reasoning", "search",
          "summary", "note", "shell"}
Items == [k : Kinds, of : Nat, n : Nat, tool : Tools \cup {Nothing}]

\* The shape of the state.
TypeOK ==
  /\ profile \in Profiles /\ faults \in 0 .. profile.faults
  /\ net \in {"idle", "sent", "open", "done"} /\ attempt \in 0 .. MaxAttempts
  /\ outcome \in {"none", "ok"} \cup Errors
  /\ Len(chan) <= Capacity /\ current \in 0 .. Len(server)
  /\ emitted \in BOOLEAN /\ spoke \subseteq 1 .. MaxAttempts
  /\ Len(decoder.buffer) <= MaxBuffer /\ decoder.scan <= Len(decoder.buffer)
  /\ {conversation, rows, items} \subseteq Seq(Items)
  /\ {storedId, partial, prev} \cup displayed \subseteq 0 .. Len(server)
  /\ phase \in {"idle", "begin", "request", "stream", "calls", "approval", "approved",
                "executing"}
  /\ run \in 0 .. profile.runs /\ cursor \in 0 .. Len(items)
  /\ retries \in 0 .. MaxOverflowRetries /\ collector.text \in 0 .. MaxText
  /\ mode \in {"build", "plan"} /\ allowed \subseteq Tools /\ decided \subseteq Tools
  /\ unanswered \subseteq 1 .. run

\* However the body is cut into chunks, what is decoded is what a decoder
\* finds that reads it in one piece, as far as the limits let it get
\* (SseDecoder::try_push and its scan window).
DecodedAsSent ==
  Has("wire") /\ net \in {"open", "done"} =>
    IF outcome = "protocol" THEN IsPrefix(heard, Whole(body)) ELSE heard = Whole(body)

\* A request is never repeated once an attempt has said something: the agent
\* never collects the answers of two attempts (OpenAiClient::stream).
OneAttemptSpeaks == Cardinality(spoke) <= 1

\* Two items are about the same thing.
Same(a, b) ==
  /\ a.k = b.k /\ a.of = b.of
  /\ a.k \in {"call", "output"} => a.n = b.n

\* What the run has added to the conversation.
Added ==
  IF phase = "idle" THEN SubSeq(conversation, base.items + 1, Len(conversation))
  ELSE SubSeq(items, base.items + 1, Len(items))

\* An answer the endpoint completed enters the conversation with all its text
\* and all its calls, or not at all (StreamCollector, finish_partials).
AnswerIsWhole ==
  ~ base.rewritten =>
    \A x \in ToSet(Added) :
      x.k \in {"text", "call"} /\ server[x.of].complete =>
        \A y \in ToSet(server[x.of].out) :
          y.k \in {"text", "call"} =>
            \E z \in ToSet(Added) :
              Same(z, y) /\ (z.k = "text" => z.n = server[x.of].said)

\* A full replay is a context the protocol accepts, whatever was trimmed,
\* compacted, cancelled or lost before (replay_safe_items).
PairsReplayed ==
  phase = "stream" /\ request.prev = 0 => Paired(request.items)

RunOf(x) == IF x.k \in {"text", "call", "output"} THEN server[x.of].run ELSE x.of

\* How often the endpoint has the item in front of it.
Seen(x) ==
  Cardinality({j \in DOMAIN server[current].context : Same(server[current].context[j], x)})

Resumed == net \in {"open", "done"} /\ current # 0 /\ request.prev # 0
Essential == {x \in ToSet(request.local) : x.k \in {"user", "file", "text", "call", "output"}}

\* A compaction or a trim took it away, or the other half of its pair.
WasCut(x) ==
  \E y \in cut : x = y \/ ({x.k, y.k} \subseteq {"call", "output"} /\ SameCall(x, y))

\* A resumed response has before it, once each, all the messages, files,
\* answers, calls and outputs a full replay would have sent, those of runs that
\* ended without an answer and those that were once cut off excepted
\* (incremental_request_cursor, request_cursor).  It need not have what a shell
\* command printed: that is in front of the user's message, where the cursor
\* takes everything for known ("all but the newly appended user item",
\* agent/runner.rs:351).
ResumeMissesNothing ==
  Resumed =>
    \A x \in Essential : RunOf(x) \notin unanswered /\ ~ WasCut(x) => Seen(x) = 1

\* In a run the same call is executed or refused once; only child agents asked
\* for by the same answer are not told apart (executed_tool_calls).
OneVerdict ==
  \A a, b \in verdicts :
    a.tool = b.tool => a = b \/ (a.tool \in Spawns /\ a.of = b.of)

Without(s, kind) == Kept(s, {j \in DOMAIN s : s[j].k # kind})

\* While a run goes on, the session's rows hold what it has added to its
\* items, in the same order: a reload finds what the agent was working with,
\* provider reasoning items excepted, and what shell commands printed.
AsStored ==
  phase # "idle" /\ ~ base.rewritten =>
    Without(Added, "reasoning") = Without(SubSeq(rows, base.rows + 1, Len(rows)), "shell")

\* Every run ends, however requests, streams, tools and approvals go, unless the
\* endpoint starts responses for ever: nothing bounds the answers that ask for
\* tools, nor the replays, which a comment says happen "once"
\* (agent/runner.rs:646) but ReplayInstead repeats.
RunEnds ==
  (phase # "idle" ~> phase = "idle") \/ []<><<server' # server>>_server
=============================================================================
