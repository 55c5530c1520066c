# 1H-Agent core in TLA+

A verification project for the Rust crate in `src/`: the headless core of a
coding agent. An engine task owns all application state, clients talk to it
through a handle, agent tasks talk to language models and tools, and every
change is published as an event. This document says what the parts are, which
module models which part, what is checked and what is proved.

Paths are relative to `src/src/` unless they start with `examples/`.

## 1. Inventory

### The parts and how they interact

```
 clients --commands--> AppHandle --mpsc(64)--> engine task --push--> EventBridge --> consumers
    ^                                            |   ^                 (ring, broadcast, watch)
    +---- replies (oneshot), snapshot -----------+   | router_rx (mpsc 256)
                                                 |   |
                        spawn / abort            v   |  agent_tx (mpsc 128) + forwarder per runtime
                                            agent tasks ---> child agents
                                                 |
                                              SQLite storage, files, provider HTTP
```

| part | source | state | operations | hard behaviour |
|---|---|---|---|---|
| Event bridge | `bridge.rs` | ring of envelopes, last cursor, broadcast sender, watch sender | `push`, `subscribe_from`, `subscribe_cursor_from`, `events_after`, `replay_after`, `subscribe` | pushes between the steps of a subscription, eviction while reading, lagging receivers, lost wakeups |
| Engine loop | `service/engine.rs`, `service/handle.rs`, `service.rs` | the `App`, the pending approval table, the command channel | one handler per command, routed events, approval sweep, shutdown | cancel waits inside the loop; stale receipts; expiry against answers; shutdown with work in flight |
| Session runtimes | `app.rs`, `app/runtime.rs`, `session.rs` | the active runtime and the parked ones; of each: `busy`, `active_task`, `pending_approval`, `request_seq`, conversation, display | activate, park, evict, rebuild, delete, apply an agent event | events that arrive after the request they belong to; capacity; runtimes replaced under running tasks |
| Slash commands | `commands.rs`, `app/commands.rs` | none of their own | parse and execute | storage changed before a later step fails |
| Agent runner | `agent.rs`, `agent/runner.rs`, `agent/tool_loop.rs`, `agent/events.rs` | the turn's items, calibration, usage anchor | turn loop, tools, approvals, compaction, partial output | abort at any await; retries; replay of history with half a tool call |
| Child agents | `agent/child.rs` | slots, shared budget, approval lock, child status | spawn, run, report | shared locks, budgets, the parent's abort, crash while running |
| Sessions in storage | `storage.rs`, `storage/session.rs`, `storage/schema.rs` | sessions, turns, messages, tasks, partial answers, compactions | append, fork, delete, compact, page | soft deletion, turn tree, crash between two statements |
| Undo/redo and file snapshots | `storage/snapshot.rs`, `app/runtime.rs` | head turn, pre- and post-images | undo, redo, snapshot, restore | long legal sequences; files created by the turn |
| Memories | `storage/memory.rs` | candidate, confirmed and deleted records | create, confirm, update, delete, recall | limits and stale ids |
| Provider client | `provider/` | retry state, SSE buffer | stream a response | frames across chunk boundaries, retry after partial output |
| Provider settings | `config.rs`, `secrets.rs`, `model_meta.rs`, handlers in `service/engine.rs`, `app.rs` | active and saved profiles, configuration file, active key, key cache, keyring, metadata rows, runners | choose, edit, create, remove a provider; enter a key; fetch metadata | several steps that fail one by one; late metadata; keys that must stay with their address |
| Security, tools, prompt, input, protocol, configuration's parsing | the other files | | | I/O, parsing and formatting |

What makes each correct: the bridge loses nothing silently and tells nobody to
resync without cause; the engine runs nothing the user did not accept, loses no
prompt, and leaves no session stuck; a runtime's flags describe the task that
really runs; history commands keep the visible conversation a path of the turn
tree; the items replayed to a provider pair every call with its output, and a
resumed response lacks nothing that was said or done; a stored child runs if and
only if its task does; a key reaches no provider but the one it was entered for.
Where the code keeps one of these only with exceptions, the property names them
and section 4 lists them.

`PROJECT.json` lists the same parts with their status, and every hazard at its
line.

### Plan

Order: what every client depends on first, then what decides whether something
is executed, then what is persisted, then what one task computes.

Done:

1. **`EventStream`, `EventBridge`, `LegacySubscription`, `EventBridge_proofs`**:
   the abstract stream, the bridge that implements it, the legacy subscription,
   and the proofs.
2. **`SessionEngine`, `EngineClaims`, `SessionEngine_proofs`**: engine loop,
   runtimes, approvals, and the proofs.
3. **`TurnStack`, `History`, `History_proofs`**: the
   abstract stack of turns and what is persisted of a conversation, with file
   snapshots, memories and pages, and the proofs.
4. **`SseDecoder`, `ProviderStream`, `AgentLoop`, `AgentLoop_proofs`,
   `AgentLoopResume_proofs`**: from the bytes of a response to the conversation
   that is stored, one module on top of the other, and the proofs.
5. **`ChildAgents`, `ChildAgents_proofs`**: places, budgets, approval lock,
   cancellation, restart, and the proofs.
6. **`ProviderSettings`, `ProviderSettings_proofs`**: profiles, keys, runners,
   metadata, and the proofs.

Left, in this order:

7. **`ApprovalGate`**: the abstract specification of an approval (asked, answered
   at most once and only by its own id), implemented by `SessionEngine`.
8. **`EngineEvents`**: `SessionEngine` composed with the bridge: an approval
   reported to clients is eventually reported resolved; a snapshot and the
   events after its cursor give the engine's state.
9. The runtime's conversation and display entries beside the stored ones
    (`/uncompact`, a `Completed` event of a superseded task, `/todo`).

## 2. Modules

| module | role |
|---|---|
| `EventStream` | abstract: one numbered stream, a position per consumer, resync only when behind |
| `EventBridge` | `bridge.rs` and its consumers |
| `LegacySubscription` | `EventBridge` followed by `replay_after` and `subscribe` |
| `EventBridge_proofs` | the TLAPS proofs about `EventBridge` |
| `SessionEngine` | engine loop, session runtimes, agent tasks as the engine sees them |
| `SessionEngine_proofs` | the TLAPS proofs about `SessionEngine` |
| `EngineClaims` | promises of comments that the engine does not keep, and `/delete` through `execute_command` |
| `TurnStack` | abstract: what undo and redo promise, a stack of turns per session |
| `History` | what is persisted of conversations, files and memories, and the commands that rewrite it |
| `History_proofs` | the TLAPS proofs about `History`, and that it implements `TurnStack` |
| `SseDecoder` | the incremental decoder of server-sent events |
| `ProviderStream` | one model request with its attempts, its stream, and the endpoint |
| `AgentLoop` | the agent of one session, extends `ProviderStream` |
| `AgentLoop_proofs` | the TLAPS proofs about `AgentLoop`, `ProviderStream` and `SseDecoder` |
| `AgentLoopResume_proofs` | the TLAPS proof about resumed responses, on top of those |
| `ChildAgents` | child agents, their approval lock, what the application shows of them |
| `ChildAgents_proofs` | the TLAPS proofs about `ChildAgents` |
| `ProviderSettings` | profiles, keys, metadata and the runners built from them |
| `ProviderSettings_proofs` | the TLAPS proofs about `ProviderSettings` |
| `LeastElements` | facts about least and greatest numbers and set induction, and two about sequences, for the proofs |
| `MC*` | instances for TLC |

### EventBridge

State and code: `ring`, `last_cursor` are `Ring`; `stage` is where the producer
is in `push` (ring updated, broadcast sent, watch signalled: the lock covers
only the first step); `pc`, `last`, `replay`, `live`, `lagged`, `dirty` are a
consumer's phase, its last processed cursor, the vector it fetched, the content
of its broadcast receiver, whether that receiver lost entries, and whether its
watch receiver has an unseen change.

| action | code |
|---|---|
| `PushRing`, `Broadcast`, `Signal` | the three steps of `push` |
| `Snapshot` | `state_snapshot`, answered by the engine between pushes |
| `Attach`, `ReadRing` | the two steps of `subscribe_from` / `subscribe_cursor_from` |
| `TakeReplay`, `Receive` | processing one envelope, skipping what was processed |
| `FallBack` | `recv()` returned `Lagged` |
| `Fetch`, `Wake` | `events_after`, `changed().await` |
| `Reconnect` | a connection drops anywhere |

Consumers are not part of `src/src/`; they are modelled from the rules the
handle's comments state and `examples/minimal.rs` follows: snapshot first,
subscribe from its cursor, skip cursors already processed, on lag subscribe
again from the last one, on resync start over. An event is its cursor and its
size. The broadcast channel keeps the newest `ChannelCap` entries, the watch
channel one "changed" bit per receiver, as tokio documents them.

### SessionEngine

The engine is one task, so each handler is one action, except where it awaits
or consists of stages between which other sessions' agent tasks may act
(`doing` remembers the handler): `submit_input` first activates the target,
then acts on it; `/delete` deletes, activates and unloads; `cancel` aborts and
then awaits the aborted task. Only agent tasks can step in between; they do not
read engine state.

State and code: `active` and `parked` are `app.active_session` and
`app.background` in order of `parked_at`; `gen` numbers the runtimes built, so
that the channel (`chan`) of a replaced runtime is told from its successor's;
`busy`, `handle`, `slot`, `seq` are `busy`, `active_task`, `pending_approval`,
`request_seq`; `pending` is the engine's table of approval records; `stored`
and `listed` are the sessions in storage and `app.sessions`; `task` and `ask`
record tasks and approvals with their reply channels (`none`, `accept`,
`reject`, `closed` when the sender was dropped); `accepted` is history.

| action | code |
|---|---|
| `ActivateSession`, `Submit`, `SubmitNew` | commands `ActivateSession`, `SubmitInput` (first stage) |
| `SubmitText` .. `SubmitDelete`, `DropDeleted` | second stage, by kind of input |
| `Approve`, `Expire` | `resolve_approval` from a client or the sweep |
| `Cancel`, `FinishCancel` | `cancel_session` before and after its await |
| `HandleRouted` | `handle_routed` with `handle_event` |
| `Shutdown` | `shutdown` and the drop of the engine |
| `Ask`, `Resume`, `Finish`, `AbortTakesEffect` | an agent task between its awaits |

Abstractions. A provider is configured, so a submit spawns a task. Messages,
transcripts and display are left out; of agent events only approvals and the
terminal ones change the modelled state. A deadline is not a clock: an approval
may expire at any time after it was registered. An approval id is the number of
its ask, since ids are fresh UUIDs. The events of one runtime stay in order (one
channel and one forwarder), those of different runtimes do not, and the channel
bounds (128 and 256) are not modelled. Storage calls do not fail, except that a
message may not be saved, and then no task is spawned. A deletion is soft, and
nothing on the way of a message asks for it (`app/commands.rs:48`,
`storage/session.rs:249`): as long as a deleted session is the active one, texts
make it busy and its tasks ask for approvals like any other's. Commands with
invalid arguments, which change nothing, are not actions. `/delete` of a session with children
deletes only that session here. The startup with an empty storage, whose active
session is a placeholder id, is left out: a first `SubmitNew` leads to the same
states.

### History and TurnStack

One action per storage call, since each is one transaction under the
connection's mutex, or per command where the command's calls have no await
between them. `turn`, `msg`, `visible`, `compactions`, `snaps`, `memory` are the
tables; `head`, `parent`, `deleted` the columns of `sessions`. The triggers of
`visible_history` are operators (`AfterInsert`, `AfterUpdate`, `AfterPath`) that
every action applies to what it writes, and `Migrate` is the first opening of a
database that has no such table.

| action | code |
|---|---|
| `Create`, `AppendUser`, `AppendItem`, `SavePartial`, `ClearPartial` | the calls of `storage/session.rs` |
| `Compact`, `Uncompact` | `compact_with_summary`, `restore_latest_compaction` |
| `Undo`, `Redo` | `/undo`, `/redo`: files (`restore_snapshots`), head, path |
| `Fork`, `Delete` | `fork_session`, `delete_session` with the children |
| `BeginTool`, `EndTool` | `snapshot_tool_pre`, `snapshot_tool_post` around a write |
| `Remember`, `SetStatus` | memories |
| `ReadFirstPage`, `ReadNextPage`, `StopReading` | a client that follows `has_more` |

A file's content is a number: 0 absent, even too large to be snapshotted.
Undo leaves alone a file that has no image, as the code does, although a comment
(`app/runtime.rs:247-249`) speaks of deleting files that did not exist;
`UndoRestoresFiles` therefore speaks of files that were there. `TurnStack` knows
nothing of a tree; the refinement maps a session's path to the chain of its head
and its future to the newest children below the head.

### SseDecoder, ProviderStream, AgentLoop

`SseDecoder` holds pure functions on a body of line ends and payload symbols.
`ProviderStream` adds the request: `Respond` (status), `ReceiveFrame` or
`ReceiveBytes` (a chunk), `HandleFrame` (parse and send on the channel),
`EndOfBody`, `BreakOff` (the connection or the client's timeout), each of which
may end the attempt and start the next. The endpoint is external: `server` is
what it knows of each response it started, and it accepts only contexts in which
calls and outputs are paired (`Acceptable`).

`AgentLoop` is `run_inner`. `phase` is where the run is; between two phases the
task awaits, so a cancel, the process's death or the end of a shell command may
come there.

| action | code |
|---|---|
| `Submit`, `SwitchMode`, `Cancel`, `Crash` | the user, and the end of the process |
| `FinishShell` | `LocalCommandFinished`: what a shell command of the user printed |
| `Begin`, `SendRequest` | start of a run and of a round, with compaction and trims (`Shrink`) |
| `Consume`, `ConsumeTooMuch` | an event of the stream, collected and forwarded |
| `RecoverOverflow`, `ReplayInstead`, `GiveUp` | what follows a failed stream |
| `Malformed`, `Complete`, `AcceptCalls` | what follows a complete one |
| `AnswerDuplicate`, `Refuse`, `Consider`, `Approve`, `Reject`, `LoseApproval` | a call's verdict |
| `StartTool`, `FinishTool`, `FinishChild`, `NextRound` | execution |

Abstractions: an item's text is its origin (response and position), a call's
arguments are its tool; a compaction cut may fall on any boundary the code
allows; redaction, thinking parameters, usage and calibration are left out, and
so are the prompt and what is recalled into it. Tools return something.
`displayed` has the responses that assistant entries on screen show, without those
marked as partial. `FinishShell` appends the item and the row; that an accepted
command makes the session busy and takes the handle of its task is
`SessionEngine`'s, and a second run beside one that lost its handle is not
modelled. A completed run replaces the conversation in memory by its items
(`Complete`), so output that came meanwhile is then only in the rows. History
variables: `base` is where the run began and whether a compaction, a trim or a
reload rewrote the conversation since, `verdicts` what was executed or refused,
`unanswered` the runs that ended without an answer, `cut` the items a compaction
or a trim took away. The last two are what `ResumeMissesNothing` has to except:
a stored response id outlives such runs (finding below), and nothing brings back
what was cut. It does not speak of shell output either, and `RunEnds` speaks of
endpoints that do not start responses for ever (section 4).

### ChildAgents

A child is a future of its parent's task: `child[c].at` is the await it stands
at. `Abort` drops the futures of a cancelled round one by one, with the guard's
writes; `Overflowing` and `SendLate` are the report that found the channel full.
`WriteAnswer` is the last row, without the note when the text has no room for it
(`append_text_bounded`, the place `full`). `Handle` is the engine's side, `Reply`
the answer to a question. A timeout may end any turn; time itself is the budget's
counter.

`Die` is the end of the process at any moment. A start is
`mark_running_children_interrupted` in its steps: `Start` reads which children are
running, `Mark` is the UPDATE, `Explain` the row of one child, each a transaction
of its own, and `StartDies` may come between any two. The database is one for all
workspaces and the lock is one per workspace (`service.rs:96`, `config.rs:293`), so
the process that starts may be of another workspace (`Start("other")`) and find the
children alive. `disturbed` is a history variable: the children whose status and
row were not written together, or were while the child was alive.

### ProviderSettings

Each command is one action with its failures as alternatives: a configuration
that is not written (`Save`), a keyring that does not answer (`Looked`,
`StoredKey`), storage that fails after the settings changed (the second disjunct
of `SetProvider` and `Configured`), a runner that cannot be built
(`RemoveProvider`). A key is the number of its entry and `entered` says for which
provider the user typed it. `minted` records the custom providers created so far
with the key each began with, which `promote_cached_family_key` takes from the
template. `runtimes` holds, of each
loaded session, the runner (provider, model, metadata, key) and the window it
shows. A metadata fetch ends in `FetchDone`; its notification is a command of
its own that may be lost (`try_send`) or handled late.

## 3. What the runs check

| run | instance | shows |
|---|---|---|
| `bridge` | one consumer of each kind, ring of 2 events / 3 bytes, sizes 1, 2 and 4, channel of 1, batch of 1, 4 events, 1 dropped connection | `TypeOK`, `RingIsTail`, `ResyncOnlyIfEvicted`, the refinement `ImplementsStream`, and `EveryConsumerCatchesUp` |
| `sessions` | 3 sessions (2 at start), 1 background place, all inputs, 3 commands, 2 agent approvals | `Consent`, `SlotHasRecord`, `BusyIsBacked`, `SwitchNeverInterrupts` |
| `approvals` | the same with the inputs that move, rebuild or delete runtimes | `EveryAskAnswered`, `EveryPromptResolved` |
| `history` | 3 sessions, one file, 8 sets of operations with 3 to 6 turns and 4 to 7 messages | `PathIsChain`, `VisibleIsHistory`, `HiddenIsRecoverable`, `PagesComplete`, `RecallFollowsHistory`, `UndoRestoresFiles`, `RedoRestoresFiles`, the refinement `ImplementsTurnStack` |
| `agent_loop` | 9 profiles: wire, failing requests, partial answers, response ids over three runs, runs that end without an answer, shell commands beside the runs, policy, a child's policy, overflow | `DecodedAsSent`, `OneAttemptSpeaks`, `AnswerIsWhole`, `PairsReplayed`, `ResumeMissesNothing`, `OneVerdict`, `AsStored`, `RunEnds` |
| `children` | 6 profiles: questions, questions across sessions, a round after a cancelled one, every end with a crash, the start of another workspace's process with one child and with two | `RunningIsAlive`, `EndIsShown`, `TranscriptTells`, `QuestionsKept`, `EndIsFinal`, `RoundsEnd` |
| `settings` | a built-in provider, the custom template and one custom provider, 2 keys, 2 sessions, 4 commands or restarts | `KeysStayInFamily`, `KeyringReadOnce`, `ParkedRunnersKept` |
| `legacy_subscription` | one consumer | **violated**: an event is missed |
| `stale_cancel`, `shutdown_orphan`, `execute_delete` | one or two sessions | **violated**: see Findings |
| `stored_response` | `AgentLoop`, one profile: a context that is too long and cannot be made shorter, three runs | **violated**: a resumed response lacks a message |

Every passing run but `approvals` and `settings` also checks its module's type
invariant.

Bounds of the bridge and the engine. Four events with a ring of two give every
relation of a position to the ring: up to date, inside, just at its edge,
evicted; size 4 exceeds the byte limit alone and empties the ring; a channel of
one makes every second unread event a lag. Consumers do not influence one
another, so one of each kind suffices for safety, and the proofs hold for any
number. In the engine, one background place makes every third session evict or
fail; three commands give submit-cancel-submit, submit-switch-approve and
delete-submit-answer, and two approvals let one supersede the other. A run with
four commands and the inputs text, shell, reload and delete (ten million states)
found no further behaviour of the kinds the properties speak of; it is too long
to keep.

Bounds of the others. `History`, `AgentLoop` and `ChildAgents` have profiles:
each behaviour is confined to one set of features, chosen so that features that
meet in the code are in one set and each set can be explored far enough. In
`History`, six turns with undo and redo give two branches of three; five
messages give a compaction of a compaction; two images and three tools make the
byte cap evict between two writes of one file. In `AgentLoop`, two attempts and
two faults give a retry that fails again and one that fails after speaking;
three runs let a response id survive one that was cut off or ended without an
answer; a body of six bytes
and a buffer of five let every delimiter be cut at every place and the limits be
met. In `ChildAgents`, a channel of one is full whenever anything is in it, one
place makes the second child queue, and two sessions share the approval lock.
In `ProviderSettings`, four changes give enter-switch-edit-return and
create-enter-restart-activate. Bounds that are not in the code are marked so in
the constants' comments.

`CHECK_DEADLOCK FALSE` is set because the system may stop: nobody has to push,
clients need not send commands, shutdown ends the engine, and the bounds end
every behaviour.

Fairness. Bridge: a push that has begun is finished (`push` never blocks) and
each consumer's task keeps running; nothing obliges the engine to push or a
connection to drop. Engine: the handler under way proceeds, queued events are
handled, the sweep has its turn (an interval timer of five seconds), an aborted
task ends, a task whose answer has come resumes. Nothing obliges clients, or
agents otherwise. One caveat: the engine's `select!` is biased and lists the
sweep last, so the sweep's turn is guaranteed only if events and commands pause
at times. Commands are bounded in the model, which is that assumption. Agent
loop: the runtime polls the agent's task and its stream, a request is answered or
runs into the client's timeout, and a question is answered or expires; the user
does nothing otherwise; that the endpoint starts no response for ever is a bound of
the profiles and the second alternative of `RunEnds`. Children: some task that can
go on does (weak fairness of the whole step, no order among them); every behaviour
of one process is finite, so this is enough. Nothing obliges a process to start. `History` and `ProviderSettings` have no liveness:
nothing in them waits.

Every property of a passing run has a mutant: a definition changed the way a
slip in the code would change it, under which TLC finds the property violated.
Mutants stand just before the definitions they change.

## 4. Findings

* **Legacy subscription** (`bridge.rs:252`): replay first, then subscribe misses
  what is pushed in between, although the comment says the opposite. The newer
  calls exist because of this; the comment stayed.
* **Stale cancel** (`app/runtime.rs:224`): a rebuilt runtime counts requests
  from 0 again, so an old receipt can name a new request.
* **Task outlives shutdown** (`session.rs:452` and following): terminal events do
  not say which request they end.
* **`/delete` through `execute_command`** (`service/engine.rs:1230`): the command
  acts on the active session, the clean-up on the session named.
* **A stored response lacks a message** (`agent/runner.rs:347`): an overflow that
  nothing shrinks ends the run with an error, and when no text has come
  `save_partial` leaves the stored response id alone (`agent/runner.rs:634`); a body that
  ends empty completes the run with the old id. The run's message stays in the
  conversation, and the next run resumes the old response with its own message
  only. The comment says that a persisted response contains all but the newly
  appended user item (`agent/runner.rs:351`).

Four more disagreements of a comment with the code are in the models. No run
refutes the comment; the property about that behaviour states what does hold, and
names the exception:

* A response that fails after the endpoint named it, when a stored one was resumed,
  is replayed without a count: `run_inner` clears the id and goes on
  (`agent/runner.rs:640-652`), the next `response.created` sets it again
  (`agent/runner.rs:529-535`). The comment says that the history is "replayed once"
  there. An endpoint that names a response and then fails keeps the run going for
  ever, and so does one whose every answer asks for tools, which no round limit
  ends. `ReplayInstead` has no count either, and `RunEnds` has the alternative that
  responses are started for ever; in the instance `profile.responses` bounds them.
* What a shell command printed becomes a `Context` item behind the last answer
  (`session.rs:529-537`), and the next run's cursor starts at the last user message
  (`agent.rs:99-112`). A resumed response is never sent it, although the comment
  says that the stored response contains all but the newly appended user item
  (`agent/runner.rs:351`). `ResumeMissesNothing` excepts shell output, `AsStored`
  speaks of the other rows.
* A process that starts marks the children of living processes of other workspaces
  as failed, although the comment speaks of children left "by a previous process"
  (`storage/session.rs:222`); the child goes on and overwrites the mark with its own
  end (`storage/session.rs:183`). `RunningIsAlive`, `TranscriptTells` and `EndIsFinal`
  except these children by `disturbed`. A child also goes unexplained when the start
  that marked it dies before its row, and when its answer leaves the note no room.
* A custom provider begins with the template's key, and the next custom provider
  with the same one, so one key is paired with two base URLs
  (`secrets.rs:283-293`, `service/engine.rs:1564`), although one comment has it that
  a runner "never pairs one provider's key with another provider's base URL"
  (`service/engine.rs:1458`) and another that two custom providers "must never share
  a cached key" (`secrets.rs:406`). `KeysStayInFamily` allows a custom
  provider that one key and no other.

Two facts are visible in the models and state no disagreement of their own.
`/compact` and an accepted shell command do not test whether a task runs and
overwrite `active_task` (`app/commands.rs:465`, `service/engine.rs:366`); with the
inputs `text` and `compact`, the property of `shutdown_orphan` fails in six states
through `SubmitCompact`. And nobody tells the user that the next response was
resumed without an earlier message.

## 5. What is proved

`EventBridge_proofs` proves with TLAPS, from `BridgeAssumption` only (the two
kinds of consumers are disjoint; capacities are positive naturals, the other
parameters naturals), so for any number of consumers and any limits:

* `TypeCorrect`: `Spec => []TypeOK`;
* `RingAlwaysTail`: `Spec => []RingIsTail`;
* `ResyncOnlyWhenNeeded`: `Spec => ResyncOnlyIfEvicted`;
* `BridgeImplementsStream`: `Spec => Stream!Spec`, every step is a step of the
  abstract stream or a stutter.

The argument. `TypeOK` and the ring's shape do not say that a consumer's next
event is the next of the stream. The inductive invariant `IInv` adds: what a
consumer fetched continues its position (`ReplayFollows`); what waits in a
receiver is the end of what was broadcast, which is one event less than the ring
between the first two steps of a push (`LiveIsTail`, `behind`); and for a
broadcast consumer that has not lagged, position, fetched events and waiting
events together reach the end of the stream (`NoGap`). Subscribing before
reading the ring is what makes `NoGap` hold at `ReadRing`; with the opposite
order it fails, which is the legacy finding. `OnlyReceiversHold` says where
events may wait at all. The eviction loop is handled by `EvictLeavesSuffix`: it
always stops, and what it leaves is a suffix of the ring. `EvictedMeaning` gives
the comparison `after + 1 < oldest` its meaning: fewer events are retained than
the consumer is behind. A consumer's step leaves the other consumers alone
(`OneConsumer`), so each action is proved for the consumer that moves.

`IInv` was checked by TLC as an invariant of the `bridge` instance before it was
proved.

`ProviderSettings_proofs` proves, from `SettingsAssumption` only (the ids of new
custom providers are provider ids other than the template's and the default's,
and the constants have their types), for any providers, models and sessions and
any number of keys, commands and restarts:

* `KeysGoHome`: `Spec => []KeysStayInFamily`;
* `ReadOnce`: `Spec => []KeyringReadOnce`;
* `OthersKept`: `Spec => ParkedRunnersKept`.

The argument. `KeysStayInFamily` speaks of the active secret and the runners only,
but a later command takes a key from the process cache, a restart takes it from
the keyring and the profile from the file, and a fallback takes a profile from
the saved list. So `IInv` says of all of them what it says of the runners: every
key in the cache and in the keyring was entered for the provider it is stored
for, or is the one of the template's keys that this custom provider began with
(`KeysIn`); the record of entries and beginnings only grows, so what was owned
stays owned (`Extends`); the active
secret belongs to the active profile (`SecretIn`); every runner's key to its own
provider (`RunnerIn`). The step that matters is `ConfiguredIInv`: a profile may
change under an unchanged id, and the key is kept only if the old profile and
the old secret both have that id. `KeysIn` also holds that a provider that is not
known was not read, which gives `ReadOnce`. `OthersKept` rests on `PatchedOwn`:
metadata stamped for the active profile is, for a runner with the same provider
and model, what stamping the runner itself would give. TLC checked `IInv` on the
`settings` instance, with three changes, before it was proved.

`ChildAgents_proofs` proves, from `ChildAssumption` only (finitely many children,
each of one round; capacity, budget and turn limit positive), for any rounds,
sessions and profiles and any number of crashes, starts and starts of other
workspaces' processes, every safety property of the `children` run:

* `TypeCorrect`, `RunningAlive`, `TranscriptEnds`, `EndShown`: `Spec => []TypeOK`,
  `[]RunningIsAlive`, `[]TranscriptTells`, `[]EndIsShown`;
* `EndFinal`, `QuestionsStay`: `Spec => EndIsFinal`, `Spec => QuestionsKept`.

The argument. `Agree` relates a child's future to its status and its last row at
each await, and says which of the two a start may have changed under a disturbed
child; `EventsTrue` says of an event on its way that it is in its child's
session and, if it is an end, that the child has ended and is stored so, which is
why storing it again when it is handled (`HandleIInv`) changes nothing, however
late that is. All steps of a child but the guard's are instances of one
(`Local`), so that the invariant is proved once for them (`LocalIInv`). `Filled`
and `Overflowing` split what the guards say into what fits and what must wait
(`FilledFacts`). For the questions, `AskInv`: who stands behind the approval lock
holds it, and of the questions on their way or on screen only the newest can be
one a child still waits on, since a question outlives its child when the round is
cancelled. For what is shown, `ShownInv`: the events on their way about a child
that has ended have its end as their last word (`Told`), or there is none left
and it is shown (`Silent`). TLC checked `IInv`, `AskInv` and `ShownInv` on the
`children` instance, with channels of two, before they were proved.

`SessionEngine_proofs` proves, from `EngineAssumption` only (some session is
stored at the start; the inputs are among those the engine knows; the capacity
is positive), for any sessions and any number of commands and approvals, every
safety property of the `sessions` run:

* `TypeCorrect`, `UserConsents`, `RecordsKept`, `BusyBacked`: `Spec => []TypeOK`,
  `[]Consent`, `[]SlotHasRecord`, `[]BusyIsBacked`;
* `SwitchQuiet`: `Spec => SwitchNeverInterrupts`.

The argument. `Residents` says which sessions have a runtime and that the runtime
of a session was built for it, which is why an event routed by session id never
reaches another session's runtime. `SlotHasRecord` is not inductive: an approval
that is registered must not be in anyone else's slot yet, so `Unregistered` says
that an approval on its way has no record and is on its way once. Nor is
`BusyIsBacked`: it speaks of any task of the runtime, but a task may end only if
it is the one the runtime has a handle on, so `Backed` says that the task behind
the handle is the runtime's own, was not aborted, and if it ended its last event
is in the runtime's channel. `Handlers` says what a handler knows between its
stages: the session it works on is active, the deleted one was parked last, the
cancelled one's slot is empty when its records are cleared. Steps of one kind
are proved once: those that switch sessions (`SwitchIInv`), that at most spawn a
task (`SpawnIInv`), that stop runtimes and clear records (`StopIInv`), that
resolve an approval (`ResolveIInv`) and an agent's own (`AgentIInv`). Switching
interrupts nothing because what is evicted is idle and at most one runtime
(`EvicteesFacts`), so that `Stop` of it changes no task and no approval
(`StopIdle`). TLC checked `IInv` on the `sessions` instance before it was proved.

`History_proofs` proves, from `HistoryAssumption` only (some session exists; limits are naturals, a page and what a compaction keeps
positive; a database from before the projection has room for the two messages it
starts with), for any sessions, files, sets of operations and limits, every safety
property of the `history` run:

* `TypeIsCorrect`, `FlagsFollowHeads`, `ClientsSeeTheHistory`,
  `NothingHiddenForGood`, `PagesMissNothing`, `MemoriesFollowHistory`:
  `Spec => []TypeOK`, `[]PathIsChain`, `[]VisibleIsHistory`,
  `[]HiddenIsRecoverable`, `[]PagesComplete`, `[]RecallFollowsHistory`;
* `UndoBringsBack`, `RedoBringsBack`: `Spec => UndoRestoresFiles`,
  `Spec => RedoRestoresFiles`;
* `TreeImplementsStack`: `Spec => ImplementsTurnStack`, every command on the tree
  of turns is a step of the abstract stack or a stutter.

The argument. `IInv` has six parts. `TreeInv`: parents are older than their
children and of the same session, and the flags are those of the chain of the
head. `MessageInv` with `Projected`: the triggers keep the projection equal to
what it is computed from, and a hidden message is named by a compaction that can
still be taken back. `MemoryInv`: a memory belongs to the session of its turn.
`ReaderInv`: what a reading client may still expect is visible, and it is either
in the pages it has or older than all of them. `FileInv`: as long as no image of a
session was evicted and the session was not deleted, the oldest image of a file in
a turn is what the turn's first tool found and the newest what its last tool left,
and the tool at work has the newest image of its session (`Found`, `Left`,
`AtWork`). A step touches few parts: steps are grouped by what they
leave alone (`Quiet` for the files), and each part is proved once per group. The
refinement distinguishes four kinds of steps (`Still`, `Added`, `Undone`,
`Redone`) and shows that the children a redo may choose from are those the stack
remembers.

Chains, redoable turns, page cuts and projections are recursive functions. What
is needed of them is proved by induction stated as a fact about sets:
`LeastElements` derives from the well-foundedness of inclusion that a set of
numbers that is not empty has a least element, and a proof then looks at the least
number for which its claim fails. That is also why `SseDecoder`,
`ProviderStream` and `AgentLoop` filter a sequence with `Kept`, which takes a set
of positions, and not with an operator that takes a test: the provers cannot
instantiate the latter. TLC checked `IInv` on the `history` instance before it was
proved.

`AgentLoop_proofs` and `AgentLoopResume_proofs` prove, from `SseAssumption`,
`ProviderAssumption` and `AgentAssumption` (limits are naturals; a tool's name is
neither a kind of content nor a delimiter, and an endpoint says only contents and
tools; a tool that spawns does not write), for any tools, profiles, policies and limits:

* `TypeIsCorrect`, `OneAttemptIsHeard`, `CallsAreJudgedOnce`, `ReplaysArePaired`,
  `RowsKeepUp`: `Spec => []TypeOK`, `[]OneAttemptSpeaks`, `[]OneVerdict`,
  `[]PairsReplayed`, `[]AsStored`;
* `BodiesDecodeAsSent`: `Spec => []DecodedAsSent`, for every body, every way of
  cutting it into chunks and every limit;
* `AnswersAreWhole`: `Spec => []AnswerIsWhole`;
* `ResumedLacksNothing`: `Spec => []ResumeMissesNothing`.

The argument. `IInv` follows an answer from the endpoint to the store, one part
for each place it passes. `ClientInv`: no attempt but the present one has put an event on the channel,
and the response it reads is the endpoint's newest. `ServerInv`: a call that has
been announced and not ended is the last item of its response. `DecoderInv` and
`FrameInv` say what a buffer and the decoded
frames may hold, `EventInv` and `NumberInv` what the channel may hold: events of
the response being streamed, whose calls are told apart by their numbers, the end
of a call after its beginning. `CallInv`, `VerdictInv` and `ItemInv` are about the
turn: the calls collected are those numbered events, a call waits until it gets
its one verdict and its one output, and the conversation is `Orderly` (an output
comes after its call and only once) and `KnownTo` the responses that are over, so
nothing of the response under way is in it before it is accepted. `RequestInv`
says of what was sent that calls and outputs pair, which follows from
`ReplayIsPaired`: `ReplaySafe` of any orderly conversation is paired, and a
conversation stays orderly wherever compaction or a trim cuts it. `StoredInv` says
that what the run added to its items is what it added to the rows, provider
reasoning and shell output aside, because filtering both commutes with appending
to them; `RestInv` has the types of the rest. The steps are sorted by what they do to these
places, so that each part is proved once for each kind. TLC checked the parts of
`IInv` on the `agent_loop` instance before they were proved.

For the decoder, `SseInv` says what the incremental decoder has in hand: while no
limit was met, what was heard is what the reference decoder finds in the body so
far, and the buffer is what it leaves of that body (`Left`); after a limit was
met, what was heard is a beginning of it. The reference decoder reads from the
front, so reading a longer body begins as reading the shorter one did, and goes on
with what was left. The point where a real decoder could go wrong is the scan
window: `try_push` does not look again at bytes it has looked at, except the last
few, since a delimiter may lie across two chunks. The invariant has that no
delimiter begins in the buffer before the position from which it is scanned, and
the lemmas about the window show that the first delimiter of the buffer is
therefore the first one the window finds.

For the answers, `TalliedInv` counts. What the endpoint said of a response, the
client has collected, or it waits on the channel, or it stands in a frame not yet
parsed: the texts in these three places add up to the texts said, and the calls
begun are told by consecutive numbers (`TallyInv`). `OutInv` says what an endpoint
has in front of it of its own answer, `DoneInv` that after the last event of an
answer nothing is on its way. So when the client has seen the end, the collector
holds all of it, and `WholeInv` carries that through the conversation: what the
run added of a completed response is all of that response, or the round that
brings it is not over. A text item carries the number of texts it was put together
from, which is why the property compares it with what was said.

For the resumed responses, `ResumedInv` says what the endpoint has before a
response and what the client believes it has. Two items are compared by `Same`
(kind, response or run, and the number of a call), `Knows(r)` is what was before response `r` and
what it said, an item is `Old` when its run was not given up and nothing cut it,
and `Partners` says that the other half of its call is there too, without which
no replay sends it. The parts:

* nothing twice: `DistinctInv` of conversation, rows and items, `ContextInv` of
  what the endpoint has before a response, which moreover is of earlier responses
  only; `NewInv`: what is behind the cursor is new to the response that will be
  resumed;
* nothing missing: `StoredIdInv`, the response whose id is stored has every old
  item of the conversation; `CursorInv`, the one that will be resumed has every
  old item of the run before the cursor, and those of its own calls that still
  wait for an output; `AheadInv`, the response being streamed has before it what
  the replay would send. They hold of each other in turn: `CursorInv` follows at
  the start of a run from `StoredIdInv`, `AheadInv` at each request from
  `CursorInv`, and `StoredIdInv` again when a response is named or the run ends;
* where they meet: `WithinInv`, what lasts of rows and conversation is in the
  items, and what the items have beyond the conversation is of this run, so that a
  run that is lost or a process that restarts loses nothing an earlier run
  brought; `BeginInv`, a run begins with its message at the end, which is what
  `incremental_request_cursor` looks for; `AskedInv`, which run an item is of;
  `LocalInv`, what the local replay has;
* what a shell command adds is of a kind of its own and stands in the way of none
  of these: `Recording`, `RecordedSets`;
* why a name may be trusted: `IdInv` and `NamedInv`, an id is stored before
  anything of the response is collected, or nothing is; `SpeaksInv`, a response
  that is over has said all the texts and calls that were counted.

This is the theorem that needs the exceptions: `StoredIdInv` is false of items
of a run that ended without an answer, of what a compaction took away, and of
shell output. TLC had
checked `ResumeMissesNothing` itself on the `agent_loop` instance.

Only model-checked:

* all liveness properties (`EveryConsumerCatchesUp`, `EveryAskAnswered`,
  `EveryPromptResolved`, `RunEnds`, `RoundsEnd`): liveness under fairness and
  `ENABLED` are beyond the prover.

## 6. Not modelled

Whole parts: workspace security (real paths), the tools themselves, wire types,
conformance runner and generated TypeScript, prompt text and the input buffer,
the parsers, tables and validation of configuration and model metadata, keys
from the environment and redaction, search events and citations of providers.
They are I/O or conversions of data without shared state.

Of modelled parts: display entries, usage and calibration, task lists, the
snapshot's contents, the diff view, update and search of memories, roles and
templates of children. The startup with an empty storage and the workspace lock.

Some consequences of the code are visible in the models but stated by no
property, because they are as the code has them and no document says otherwise,
or because the state they concern is not modelled:

* the engine's `select!` may starve the approval sweep (`service/engine.rs:434`);
* one pending record of an unloaded session hides every approval from a snapshot
  (`service/engine.rs:157`), and superseded records are never removed
  (`service/engine.rs:144`);
* cancelling an idle session stores the last complete answer as a partial one
  (`app.rs:307`; `displayed` in `AgentLoop`);
* a `Completed` event of a superseded task replaces the conversation
  (`session.rs:457`), and `/todo` and the agent's `todo_write` overwrite each
  other (`app/commands.rs:526`);
* the end of a body counts as a completed answer (`provider/openai.rs:541`);
* a metadata notification is lost when the command channel is full
  (`service/engine.rs:1800`), and `remove_provider` neither stamps the profile it
  falls back to nor clears the response id (`service/engine.rs:1851`);
* a profile saved through `set_provider_profile` keeps the metadata of the model
  it was copied with (`service/engine.rs:1472` says an incoming profile never
  carries any);
* a response id that cannot be cleared leaves settings changed and the runner
  old (`service/engine.rs:1480`, `app.rs:263`).
