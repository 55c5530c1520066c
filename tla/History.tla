------------------------------ MODULE History ------------------------------
(***************************************************************************)
(* What is persisted of a conversation and how commands rewrite it:        *)
(* sessions and their tree of turns, messages and the visible_history      *)
(* projection the triggers keep of them (src/storage/schema.rs), undo and  *)
(* redo with file snapshots (src/storage/snapshot.rs, src/app/runtime.rs), *)
(* fork, compaction, deletion and the partial answer                       *)
(* (src/storage/session.rs), memories (src/storage/memory.rs), and a       *)
(* client that pages through the transcript (src/service/engine.rs).       *)
(*                                                                         *)
(* Every storage call runs one transaction under the connection's mutex    *)
(* and is one step.  A tool that writes a file is two: the snapshot before *)
(* it and the image after it are separate calls with an await between.     *)
(*                                                                         *)
(* Turns are numbered in the order of created_at, messages by their id.    *)
(* Texts are abstracted; a file's content is 0 when the file is absent,    *)
(* odd when it fits the per-file snapshot limit, even when it does not.    *)
(***************************************************************************)
EXTENDS Naturals, Sequences, FiniteSets, SequencesExt, FiniteSetsExt

CONSTANTS
  Sessions,       \* session ids
  NoSession,      \* the parent of a session that has none
  Files,          \* files of the workspace tools write
  Profiles,       \* sets of operations; each behaviour uses one of the sets
  KeepCounts,     \* how many of the newest messages a compaction keeps
  PageLimit,      \* messages per page
  MaxImages,      \* max_session_bytes, in pre-images of one unit
  MaxEntries,     \* memory.max_entries
  MaxCandidates,  \* memory.max_candidates
  MaxTurns,       \* bound: turns created in a behaviour, of each profile
  MaxMessages,    \* bound: messages stored in a behaviour, of each profile
  MaxMemories,    \* bound: memories saved in a behaviour
  MaxTools        \* bound: tool calls started in a behaviour

Operations == {"create", "user", "item", "partial", "compact", "undo", "redo",
               "fork", "delete", "tool", "memory", "page", "legacy"}

\* A database that is opened has a session; the bound on messages leaves room
\* for those of a legacy one.
ASSUME HistoryAssumption ==
  /\ Sessions # {} /\ NoSession \notin Sessions
  /\ Profiles \subseteq SUBSET Operations
  /\ KeepCounts \subseteq Nat \ {0}
  /\ PageLimit \in Nat \ {0}
  /\ MaxTurns \in [Profiles -> Nat] /\ MaxMessages \in [Profiles -> Nat]
  /\ \A p \in Profiles : "legacy" \in p => MaxMessages[p] >= 2
  /\ {MaxImages, MaxEntries, MaxCandidates, MaxMemories, MaxTools} \subseteq Nat

VARIABLES
  uses,         \* the operations of this behaviour
  migrated,     \* has migrate_visible_history run?
  head,         \* head_turn_id of each session, 0 if the session is absent
  parent,       \* parent_id of each session
  deleted,      \* sessions with deleted_at set
  turn,         \* turns: session, parent turn or 0, on_active_path
  msg,          \* messages by id: session, turn or 0, kind, hidden, partial
  lastId,       \* the last message id given (AUTOINCREMENT)
  visible,      \* message ids of visible_history
  compactions,  \* of each session: the hidden_ids of its records, oldest first
  disk,         \* content of each file
  snaps,        \* file_snapshots, by the tool call they belong to
  tool,         \* of each session: the tool call it executes, or NoTool
  calls,        \* tool calls started
  touched,      \* history, of each turn: what its tools found and left
  evicted,      \* history: sessions that lost snapshots to the byte cap
  memory,       \* memory entries: session, turn, status
  reader        \* a client that fetches the pages of a transcript

sessionVars == <<head, parent, deleted, turn>>
messageVars == <<msg, lastId, visible, compactions>>
fileVars == <<disk, snaps, tool, calls, touched, evicted>>
vars == <<uses, migrated, sessionVars, messageVars, fileVars, memory, reader>>

Turns == 1 .. Len(turn)
Live(s) == head[s] # 0 /\ s \notin deleted
Row(s, t, kind) ==
  [session |-> s, turn |-> t, kind |-> kind, hidden |-> FALSE, partial |-> FALSE]
Turn(s, p) == [session |-> s, parent |-> p, active |-> TRUE]
NoTool == [file |-> "none"]
NoReader == [session |-> NoSession]

Uses(operation) == migrated /\ operation \in uses

-----------------------------------------------------------------------------
(* The turn tree *)

\* The turns from the root of t's tree to t, as the recursive queries find
\* them through parent_id.
Chain(t) ==
  LET chain[u \in 0 .. Len(turn)] ==
        IF u = 0 THEN << >> ELSE Append(chain[turn[u].parent], u)
  IN  chain[t]

\* Mutant of NewestChild: ORDER BY created_at without DESC.
OldestChild(t) ==
  LET children == {u \in Turns : turn[u].parent = t}
  IN  IF t = 0 \/ children = {} THEN 0 ELSE Min(children)

\* The turn redo advances to from t, 0 if there is none.
NewestChild(t) ==
  LET children == {u \in Turns : turn[u].parent = t}
  IN  IF t = 0 \/ children = {} THEN 0 ELSE Max(children)

\* turns.on_active_path after set_session_head.
ActivePath(ts, previous, next, deactivatePrevious) ==
  [u \in DOMAIN ts |->
     [ts[u] EXCEPT !.active =
        IF u = next THEN TRUE
        ELSE IF u = previous /\ deactivatePrevious THEN FALSE ELSE @]]

\* The messages a runtime is rebuilt from (load_messages_bounded): those of the
\* chain of turns that ends at the head.  What its limits omit is left out.
Loaded(s) ==
  {i \in DOMAIN msg :
     /\ msg[i].session = s /\ ~ msg[i].hidden /\ ~ msg[i].partial
     /\ msg[i].turn = 0 \/ msg[i].turn \in Range(Chain(head[s]))}

-----------------------------------------------------------------------------
(* The triggers that keep visible_history: a row is in it when it is neither *)
(* hidden nor partial and its turn, if it has one, is on the active path.    *)

\* Mutant of Qualifies: the path trigger forgets the hidden flag.
QualifiesHidden(row, ts) ==
  ~ row.partial /\ (row.turn = 0 \/ ts[row.turn].active)

Qualifies(row, ts) ==
  ~ row.hidden /\ ~ row.partial /\ (row.turn = 0 \/ ts[row.turn].active)

\* messages_visible_history_insert
AfterInsert(shown, id, row, ts) ==
  IF Qualifies(row, ts) THEN shown \cup {id} ELSE shown

\* messages_visible_history_update, for the rows in ids
AfterUpdate(shown, ids, rows, ts) ==
  (shown \ ids) \cup {i \in ids : Qualifies(rows[i], ts)}

\* turns_visible_history_path, for every turn whose flag changes from ts to us
AfterPath(shown, rows, ts, us) ==
  LET moved == {i \in DOMAIN rows :
                  /\ rows[i].turn \in DOMAIN ts
                  /\ ts[rows[i].turn].active # us[rows[i].turn].active}
  IN  (shown \ moved) \cup {i \in moved : Qualifies(rows[i], us)}

-----------------------------------------------------------------------------
(* A client paging backwards through a transcript *)

\* Whoever changes the history, the messages a client may still expect are
\* those that have been visible ever since it asked for the first page.
Watch ==
  reader' = IF reader.session = NoSession THEN reader
            ELSE [reader EXCEPT !.expects = @ \cap visible']

\* Mutant of Page: the cursor of the next page is the one of this page.
PageOverlap(s, before) ==
  LET older == {i \in visible : msg[i].session = s /\ (before = 0 \/ i <= before)}
      page == {i \in older : Cardinality({j \in older : j > i}) < PageLimit}
  IN  [ids |-> page, more |-> Cardinality(older) > PageLimit]

\* load_message_page(s, before, limit + 1), split by message_page.
Page(s, before) ==
  LET older == {i \in visible : msg[i].session = s /\ (before = 0 \/ i < before)}
      page == {i \in older : Cardinality({j \in older : j > i}) < PageLimit}
  IN  [ids |-> page, more |-> Cardinality(older) > PageLimit]

\* The newest page, then page after page until has_more is false.
ReadFirstPage(s) ==
  /\ Uses("page") /\ Live(s) /\ reader.session = NoSession
  /\ LET page == Page(s, 0)
     IN  reader' = [session |-> s, got |-> page.ids, more |-> page.more,
                    twice |-> FALSE,
                    expects |-> {i \in visible : msg[i].session = s}]
  /\ UNCHANGED <<uses, migrated, sessionVars, messageVars, fileVars, memory>>

ReadNextPage ==
  /\ reader.session # NoSession /\ reader.more
  /\ LET page == Page(reader.session, Min(reader.got))
     IN  reader' = [reader EXCEPT !.got = @ \cup page.ids, !.more = page.more,
                                  !.twice = page.ids \cap reader.got # {}]
  /\ UNCHANGED <<uses, migrated, sessionVars, messageVars, fileVars, memory>>

\* The request is cancelled, or the client is done.
StopReading ==
  /\ reader.session # NoSession
  /\ reader' = NoReader
  /\ UNCHANGED <<uses, migrated, sessionVars, messageVars, fileVars, memory>>

-----------------------------------------------------------------------------
(* Sessions and messages *)

NewTouched ==
  [seen |-> {}, exact |-> Files,
   first |-> [f \in Files |-> 0], last |-> [f \in Files |-> 0]]

\* A session row and its root turn, in one transaction.
NewSession(s, p) ==
  /\ head[s] = 0 /\ Len(turn) < MaxTurns[uses]
  /\ head' = [head EXCEPT ![s] = Len(turn) + 1]
  /\ parent' = [parent EXCEPT ![s] = p]
  /\ turn' = Append(turn, Turn(s, 0))
  /\ touched' = Append(touched, NewTouched)

\* create_session, or create_child_session under p.
Create(s, p) ==
  /\ Uses("create")
  /\ p # NoSession => Live(p)
  /\ NewSession(s, p)
  /\ Watch
  /\ UNCHANGED <<uses, migrated, deleted, messageVars, disk, snaps, tool, calls,
                 evicted, memory>>

\* Insert one message row; ts is the turn table the trigger sees.
Insert(row, ts) ==
  /\ lastId < MaxMessages[uses]
  /\ lastId' = lastId + 1
  /\ msg' = [i \in DOMAIN msg \cup {lastId'} |->
               IF i = lastId' THEN row ELSE msg[i]]
  /\ visible' = AfterInsert(visible, lastId', row, ts)

\* append_message of a user: a new turn under the head becomes the head.
AppendUser(s) ==
  /\ Uses("user") /\ Live(s) /\ Len(turn) < MaxTurns[uses]
  /\ turn' = ActivePath(Append(turn, Turn(s, head[s])), head[s], Len(turn) + 1, FALSE)
  /\ head' = [head EXCEPT ![s] = Len(turn) + 1]
  /\ touched' = Append(touched, NewTouched)
  /\ Insert(Row(s, Len(turn) + 1, "user"), turn')
  /\ Watch
  /\ UNCHANGED <<uses, migrated, parent, deleted, compactions, disk, snaps, tool,
                 calls, evicted, memory>>

\* append_message of the assistant, append_context, append_typed_item: on the
\* head turn, also for a task that still runs after its session was deleted.
AppendItem(s) ==
  /\ Uses("item") /\ head[s] # 0
  /\ Insert(Row(s, head[s], "item"), turn)
  /\ Watch
  /\ UNCHANGED <<uses, migrated, sessionVars, compactions, fileVars, memory>>

Partials(s) == {i \in DOMAIN msg : msg[i].session = s /\ msg[i].partial}

\* save_partial with a text: replaces the session's partial answer.
SavePartial(s) ==
  /\ Uses("partial") /\ head[s] # 0 /\ lastId < MaxMessages[uses]
  /\ LET row == [Row(s, 0, "item") EXCEPT !.partial = TRUE]
     IN  /\ lastId' = lastId + 1
         /\ msg' = [i \in (DOMAIN msg \ Partials(s)) \cup {lastId'} |->
                      IF i = lastId' THEN row ELSE msg[i]]
         /\ visible' = AfterInsert(visible \ Partials(s), lastId', row, turn)
  /\ Watch
  /\ UNCHANGED <<uses, migrated, sessionVars, compactions, fileVars, memory>>

\* clear_partial, also save_partial with a blank text.
ClearPartial(s) ==
  /\ Uses("partial") /\ Partials(s) # {}
  /\ msg' = Restrict(msg, DOMAIN msg \ Partials(s))
  /\ visible' = visible \ Partials(s)
  /\ Watch
  /\ UNCHANGED <<uses, migrated, sessionVars, lastId, compactions, fileVars, memory>>

-----------------------------------------------------------------------------
(* Compaction *)

Hide(ids, flag) ==
  [i \in DOMAIN msg |-> IF i \in ids THEN [msg[i] EXCEPT !.hidden = flag] ELSE msg[i]]

\* Mutant of Compacted: the query lost its hidden = 0.
CompactedAgain(s, keep) ==
  LET rows == {i \in DOMAIN msg : msg[i].session = s}
  IN  {i \in rows : Cardinality({j \in rows : j > i}) >= keep}

\* The messages a compaction hides: all but the newest keep, whatever turn or
\* branch they belong to.
Compacted(s, keep) ==
  LET rows == {i \in DOMAIN msg : msg[i].session = s /\ ~ msg[i].hidden}
  IN  {i \in rows : Cardinality({j \in rows : j > i}) >= keep}

\* compact_with_summary
Compact(s, keep) ==
  /\ Uses("compact") /\ Live(s) /\ lastId < MaxMessages[uses]
  /\ LET ids == Compacted(s, keep)
         row == Row(s, head[s], "summary")
     IN  /\ compactions' = [compactions EXCEPT ![s] = Append(@, ids)]
         /\ lastId' = lastId + 1
         /\ msg' = [i \in DOMAIN msg \cup {lastId'} |->
                      IF i = lastId' THEN row ELSE Hide(ids, TRUE)[i]]
         /\ visible' = AfterInsert(AfterUpdate(visible, ids, Hide(ids, TRUE), turn),
                                   lastId', row, turn)
  /\ Watch
  /\ UNCHANGED <<uses, migrated, sessionVars, fileVars, memory>>

\* The summary restore_latest_compaction hides: the newest of the session,
\* hidden or not, on whatever branch.
LastSummary(s) ==
  LET rows == {i \in DOMAIN msg : msg[i].session = s /\ msg[i].kind = "summary"}
  IN  IF rows = {} THEN {} ELSE {Max(rows)}

\* restore_latest_compaction
Uncompact(s) ==
  /\ Uses("compact") /\ Live(s) /\ compactions[s] # << >>
  /\ LET ids == Last(compactions[s]) \cap DOMAIN msg
         restored == Hide(ids, FALSE)
     IN  /\ msg' = [i \in DOMAIN msg |->
                      IF i \in LastSummary(s) THEN [restored[i] EXCEPT !.hidden = TRUE]
                      ELSE restored[i]]
         /\ visible' = AfterUpdate(visible, ids \cup LastSummary(s), msg', turn)
  /\ compactions' = [compactions EXCEPT ![s] = Front(@)]
  /\ Watch
  /\ UNCHANGED <<uses, migrated, sessionVars, lastId, fileVars, memory>>

-----------------------------------------------------------------------------
(* File snapshots *)

Large(content) == content > 0 /\ content % 2 = 0

\* The rows that remain when snapshot_file has deleted the session's oldest
\* until its pre-images fit the cap: a row goes when the images from it on do
\* not fit.
WithinCap(s, rows) ==
  LET From(c) == {d \in DOMAIN rows : /\ d >= c /\ rows[d].session = s
                                      /\ rows[d].pre # 0}
  IN  Restrict(rows, {c \in DOMAIN rows : \/ rows[c].session # s
                                          \/ Cardinality(From(c)) <= MaxImages})

\* snapshot_tool_pre, then the tool starts.  A file that is not there has no
\* canonical path: resolve_existing fails and nothing is recorded.  A file over
\* the limit is recorded without its image.
BeginTool(s, f) ==
  /\ Uses("tool") /\ Live(s) /\ tool[s] = NoTool /\ calls < MaxTools
  /\ calls' = calls + 1
  /\ tool' = [tool EXCEPT ![s] = [file |-> f, call |-> calls', turn |-> head[s],
                                  aborted |-> FALSE]]
  /\ LET image == IF Large(disk[f]) THEN 0 ELSE disk[f]
         row == [session |-> s, turn |-> head[s], file |-> f, pre |-> image, post |-> 0]
         rows == [c \in DOMAIN snaps \cup {calls'} |->
                    IF c = calls' THEN row ELSE snaps[c]]
     IN  /\ snaps' = IF disk[f] = 0 THEN snaps
                     ELSE IF image = 0 THEN rows ELSE WithinCap(s, rows)
         /\ evicted' = IF disk[f] # 0 /\ DOMAIN snaps' # DOMAIN rows
                         THEN evicted \cup {s} ELSE evicted
  /\ LET now == touched[head[s]]
     IN  touched' = [touched EXCEPT ![head[s]] =
           [now EXCEPT !.seen = @ \cup {f},
                       !.first[f] = IF f \in now.seen THEN @ ELSE disk[f],
                       !.exact = IF disk[f] = 0 \/ Large(disk[f]) THEN @ \ {f} ELSE @]]
  /\ Watch
  /\ UNCHANGED <<uses, migrated, sessionVars, messageVars, disk, memory>>

\* The tool ends: it wrote the file, deleted it or left it alone.  Then
\* snapshot_tool_post stores the image of the file, if it is there.  The tool
\* of an aborted task may still do its work, with or without the image.
EndTool(s, content, posted) ==
  /\ tool[s] # NoTool
  /\ posted \/ tool[s].aborted
  /\ LET f == tool[s].file
         t == tool[s].turn
         now == touched[t]
     IN  /\ content \in {disk[f], 0, 2 * tool[s].call + 1, 2 * tool[s].call + 2}
         /\ disk' = [disk EXCEPT ![f] = content]
         /\ snaps' = IF posted /\ content # 0
                       THEN [c \in DOMAIN snaps |->
                               IF c = tool[s].call
                                 THEN [snaps[c] EXCEPT !.post = content] ELSE snaps[c]]
                       ELSE snaps
         /\ touched' = [touched EXCEPT ![t] =
              [now EXCEPT !.last[f] = content,
                          !.exact = IF content = 0 \/ tool[s].aborted THEN @ \ {f} ELSE @]]
  /\ tool' = [tool EXCEPT ![s] = NoTool]
  /\ Watch
  /\ UNCHANGED <<uses, migrated, sessionVars, messageVars, calls, evicted, memory>>

\* The snapshots of a file by the tools of one turn.
Shots(s, t, f) ==
  {c \in DOMAIN snaps : /\ snaps[c].session = s /\ snaps[c].turn = t
                        /\ snaps[c].file = f}

\* Mutant of Backward: the snapshots of the turn are applied oldest first.
BackwardOldestFirst(s, t) ==
  [f \in Files |->
     LET shots == {c \in Shots(s, t, f) : snaps[c].pre # 0}
     IN  IF shots = {} THEN disk[f] ELSE snaps[Max(shots)].pre]

\* The files after restore_snapshots(t, Backward): the pre-images written
\* newest first, so that the oldest one stays.  A snapshot without a pre-image
\* is skipped.
Backward(s, t) ==
  [f \in Files |->
     LET shots == {c \in Shots(s, t, f) : snaps[c].pre # 0}
     IN  IF shots = {} THEN disk[f] ELSE snaps[Min(shots)].pre]

\* Mutant of Forward: redo writes the pre-images as well.
ForwardPre(s, t) ==
  [f \in Files |->
     LET shots == {c \in Shots(s, t, f) : snaps[c].pre # 0}
     IN  IF shots = {} THEN disk[f] ELSE snaps[Max(shots)].pre]

\* The files after restore_snapshots(t, Forward).
Forward(s, t) ==
  [f \in Files |->
     LET shots == {c \in Shots(s, t, f) : snaps[c].post # 0}
     IN  IF shots = {} THEN disk[f] ELSE snaps[Max(shots)].post]

\* reload_current_session and runtime shutdown abort the session's task.
Aborted(S) ==
  [s \in Sessions |->
     IF s \in S /\ tool[s] # NoTool THEN [tool[s] EXCEPT !.aborted = TRUE] ELSE tool[s]]

-----------------------------------------------------------------------------
(* Undo, redo, fork, delete *)

\* Mutant of UndoneTurns: the undone turn stays on the active path.
UndoneTurnsActive(s) == ActivePath(turn, head[s], turn[head[s]].parent, FALSE)

\* turns after undo(): the head's parent is the head, the head is off the path.
UndoneTurns(s) == ActivePath(turn, head[s], turn[head[s]].parent, TRUE)

\* The command: storage.undo, the files of the turn taken back, a new runtime.
Undo(s) ==
  /\ Uses("undo") /\ Live(s) /\ turn[head[s]].parent # 0
  /\ turn' = UndoneTurns(s)
  /\ head' = [head EXCEPT ![s] = turn[head[s]].parent]
  /\ visible' = AfterPath(visible, msg, turn, turn')
  /\ disk' = Backward(s, head[s])
  /\ tool' = Aborted({s})
  /\ Watch
  /\ UNCHANGED <<uses, migrated, parent, deleted, msg, lastId, compactions, snaps,
                 calls, touched, evicted, memory>>

Redo(s) ==
  /\ Uses("redo") /\ Live(s) /\ NewestChild(head[s]) # 0
  /\ LET child == NewestChild(head[s])
     IN  /\ turn' = ActivePath(turn, head[s], child, FALSE)
         /\ head' = [head EXCEPT ![s] = child]
         /\ disk' = Forward(s, child)
  /\ visible' = AfterPath(visible, msg, turn, turn')
  /\ tool' = Aborted({s})
  /\ Watch
  /\ UNCHANGED <<uses, migrated, parent, deleted, msg, lastId, compactions, snaps,
                 calls, touched, evicted, memory>>

\* The n-th of a set of ids.
Nth(ids, n) == CHOOSE i \in ids : Cardinality({j \in ids : j <= i}) = n

\* fork_session: every message of every branch, in order of id, on the root
\* turn of the copy.  The hidden flag is copied, the partial flag is not, nor
\* are compaction records and snapshots.
Fork(s, copy) ==
  /\ Uses("fork") /\ Live(s)
  /\ NewSession(copy, s)
  /\ LET ids == {i \in DOMAIN msg : msg[i].session = s}
         new == lastId + 1 .. lastId + Cardinality(ids)
         Copy(i) == [msg[Nth(ids, i - lastId)] EXCEPT
                       !.session = copy, !.turn = Len(turn) + 1, !.partial = FALSE]
     IN  /\ lastId + Cardinality(ids) <= MaxMessages[uses]
         /\ lastId' = lastId + Cardinality(ids)
         /\ msg' = [i \in DOMAIN msg \cup new |->
                      IF i \in new THEN Copy(i) ELSE msg[i]]
         /\ visible' = visible \cup {i \in new : Qualifies(Copy(i), turn')}
  /\ Watch
  /\ UNCHANGED <<uses, migrated, deleted, compactions, disk, snaps, tool, calls,
                 evicted, memory>>

\* The session and its descendants: the least set that holds the session and,
\* with a session, its children.
Subtree(s) ==
  {x \in Sessions :
     \A S \in SUBSET Sessions :
       s \in S /\ (\A y \in Sessions : parent[y] \in S => y \in S) => x \in S}

\* delete_session, runtimes shut down, purge_soft_deleted_snapshots.
Delete(s) ==
  /\ Uses("delete") /\ Live(s)
  /\ deleted' = deleted \cup Subtree(s)
  /\ tool' = Aborted(Subtree(s))
  /\ snaps' = Restrict(snaps, {c \in DOMAIN snaps : snaps[c].session \notin deleted'})
  /\ Watch
  /\ UNCHANGED <<uses, migrated, head, parent, turn, messageVars, disk, calls,
                 touched, evicted, memory>>

-----------------------------------------------------------------------------
(* Memories *)

Kept == {i \in DOMAIN memory : memory[i].status # "deleted"}
Candidates == {i \in Kept : memory[i].status = "candidate"}

\* The limits create_memory checks.
HasRoom(status) ==
  /\ Cardinality(Kept) < MaxEntries
  /\ status = "candidate" => Cardinality(Candidates) < MaxCandidates

\* save_memory and /memory add or candidate: the source is the session's head.
Remember(s, status) ==
  /\ Uses("memory") /\ Live(s) /\ HasRoom(status)
  /\ Len(memory) < MaxMemories
  /\ memory' = Append(memory, [session |-> s, turn |-> head[s], status |-> status])
  /\ Watch
  /\ UNCHANGED <<uses, migrated, sessionVars, messageVars, fileVars>>

\* Mutant of SetStatus: the status is stored under a name nobody reads.
SetStatusConfirmed(i, status) ==
  /\ Uses("memory") /\ i \in Kept
  /\ memory' = [memory EXCEPT ![i].status = "confirmed"]
  /\ Watch
  /\ UNCHANGED <<uses, migrated, sessionVars, messageVars, fileVars>>

\* confirm_memory, delete_memory: not for an entry that is deleted.
SetStatus(i, status) ==
  /\ Uses("memory") /\ i \in Kept
  /\ memory' = [memory EXCEPT ![i].status = status]
  /\ Watch
  /\ UNCHANGED <<uses, migrated, sessionVars, messageVars, fileVars>>

\* Mutant of Recallable: the source's turn is not looked up in the chain.
RecallableAnyTurn(i) ==
  memory[i].status = "active" /\ Live(memory[i].session)

\* recallable of list_memories: confirmed, and its source still stands.
Recallable(i) ==
  /\ memory[i].status = "active" /\ Live(memory[i].session)
  /\ memory[i].turn \in Range(Chain(head[memory[i].session]))


-----------------------------------------------------------------------------
(* Opening a database written before visible_history existed *)

\* Sessions without a head: known here by their messages.
Rootless == {s \in Sessions : head[s] = 0 /\ \E i \in DOMAIN msg : msg[i].session = s}

\* The heads and their ancestors, as the recursive UPDATE finds them.
OnSomePath ==
  {u \in Turns : \E s \in Sessions : u = head[s] \/ u \in Range(Chain(head[s]))}

\* backfill_turns gives a session without a head a root turn and puts the
\* messages without a turn on the head; then the flags and the projection are
\* rebuilt from the heads, with the triggers dropped.
Migrate ==
  /\ ~ migrated
  /\ migrated' = TRUE
  /\ \E s \in Sessions :
       \/ /\ Rootless = {s}
          /\ head' = [head EXCEPT ![s] = Len(turn) + 1]
          /\ turn' = Append(turn, Turn(s, 0))
          /\ touched' = Append(touched, NewTouched)
       \/ /\ Rootless = {} /\ head[s] # 0
          /\ turn' = [u \in Turns |-> [turn[u] EXCEPT !.active = u \in OnSomePath]]
          /\ UNCHANGED <<head, touched>>
  /\ msg' = [i \in DOMAIN msg |->
                [msg[i] EXCEPT !.turn = IF @ = 0 THEN head'[msg[i].session] ELSE @]]
  /\ visible' = {i \in DOMAIN msg : Qualifies(msg'[i], turn')}
  /\ UNCHANGED <<uses, parent, deleted, lastId, compactions, disk, snaps, tool,
                 calls, evicted, memory, reader>>

-----------------------------------------------------------------------------
(* The specification *)

\* A database with its first session, fresh from create_session.
FreshDatabase(s) ==
  /\ migrated = TRUE
  /\ turn = <<Turn(s, 0)>>
  /\ head = [x \in Sessions |-> IF x = s THEN 1 ELSE 0]
  /\ msg = << >> /\ lastId = 0

\* The turns and messages one session may have before version 9: flags that
\* mean nothing yet, messages that may be on no turn.
LegacyTurns(s, n) ==
  {[u \in 1 .. n |-> [session |-> s, parent |-> u - 1, active |-> u \in A]] :
     A \in SUBSET (1 .. n)}
LegacyRows(s, n) ==
  {[Row(s, t, "item") EXCEPT !.hidden = h] : t \in 0 .. n, h \in BOOLEAN}

\* A database written before version 9: no turns at all, or two turns, the
\* second possibly undone.
LegacyDatabase(s) ==
  /\ migrated = FALSE
  /\ \E n \in {0, 2}, m \in 1 .. 2 :
       /\ turn \in LegacyTurns(s, n)
       /\ \E t \in IF n = 0 THEN {0} ELSE 1 .. n :
            head = [x \in Sessions |-> IF x = s THEN t ELSE 0]
       /\ msg \in [1 .. m -> LegacyRows(s, n)]
       /\ lastId = m

Init ==
  /\ uses \in Profiles
  /\ LET s == CHOOSE x \in Sessions : TRUE
     IN  IF "legacy" \in uses THEN LegacyDatabase(s) ELSE FreshDatabase(s)
  /\ parent = [s \in Sessions |-> NoSession]
  /\ deleted = {}
  /\ visible = {}
  /\ compactions = [s \in Sessions |-> << >>]
  /\ disk = [f \in Files |-> 1]
  /\ snaps = << >>
  /\ tool = [s \in Sessions |-> NoTool]
  /\ calls = 0
  /\ touched = [u \in Turns |-> NewTouched]
  /\ evicted = {}
  /\ memory = << >>
  /\ reader = NoReader

Next ==
  \/ Migrate
  \/ ReadNextPage
  \/ StopReading
  \/ \E s \in Sessions :
       \/ ReadFirstPage(s)
       \/ \E p \in Sessions \cup {NoSession} : Create(s, p)
       \/ AppendUser(s)
       \/ AppendItem(s)
       \/ SavePartial(s)
       \/ ClearPartial(s)
       \/ \E keep \in KeepCounts : Compact(s, keep)
       \/ Uncompact(s)
       \/ \E f \in Files : BeginTool(s, f)
       \/ \E content \in 0 .. 2 * MaxTools + 2, posted \in BOOLEAN :
            EndTool(s, content, posted)
       \/ Undo(s)
       \/ Redo(s)
       \/ \E copy \in Sessions : Fork(s, copy)
       \/ Delete(s)
       \/ \E status \in {"active", "candidate"} : Remember(s, status)
  \/ \E i \in DOMAIN memory, status \in {"active", "deleted"} : SetStatus(i, status)

Spec == Init /\ [][Next]_vars

-----------------------------------------------------------------------------
(* Properties *)

\* Every piece of the persisted state has its shape.
TypeOK ==
  /\ uses \in Profiles /\ migrated \in BOOLEAN
  /\ head \in [Sessions -> 0 .. Len(turn)]
  /\ parent \in [Sessions -> Sessions \cup {NoSession}]
  /\ deleted \subseteq Sessions
  /\ \A u \in Turns : turn[u] \in [session : Sessions, parent : 0 .. u - 1,
                                   active : BOOLEAN]
  /\ DOMAIN msg \subseteq 1 .. lastId /\ lastId \in 0 .. MaxMessages[uses]
  /\ \A i \in DOMAIN msg :
       msg[i] \in [session : Sessions, turn : 0 .. Len(turn),
                  kind : {"user", "item", "summary"}, hidden : BOOLEAN,
                  partial : BOOLEAN]
  /\ visible \subseteq DOMAIN msg
  /\ compactions \in [Sessions -> Seq(SUBSET (1 .. lastId))]
  /\ disk \in [Files -> Nat] /\ calls \in Nat /\ DOMAIN snaps \subseteq 1 .. calls
  /\ \A c \in DOMAIN snaps :
       snaps[c] \in [session : Sessions, turn : Turns, file : Files, pre : Nat, post : Nat]
  /\ DOMAIN touched = Turns /\ evicted \subseteq Sessions
  /\ \A i \in DOMAIN memory :
       memory[i] \in [session : Sessions, turn : Turns,
                     status : {"active", "candidate", "deleted"}]

\* The flag set_session_head flips turn by turn says what the walk up from the
\* heads would say: a turn is on the active path iff it is an ancestor of its
\* session's head, through any mix of undo, redo, branching and forking.
PathIsChain ==
  migrated => \A u \in Turns :
                turn[u].active <=> u \in Range(Chain(head[turn[u].session]))

\* The projection the triggers maintain is what load_messages_bounded selects
\* with its recursive query: what a client pages through and what the model is
\* replayed are the same messages.
VisibleIsHistory ==
  migrated => visible = UNION {Loaded(s) : s \in Sessions}

\* Nothing is hidden for good: in a session that is no copy, every hidden
\* message other than a summary is in exactly one record /uncompact can still
\* take back.
HiddenIsRecoverable ==
  \A s \in Sessions : parent[s] = NoSession /\ "legacy" \notin uses =>
    LET records == compactions[s]
    IN  /\ \A i \in DOMAIN msg :
             msg[i].session = s /\ msg[i].hidden /\ msg[i].kind # "summary" =>
               \E k \in DOMAIN records : i \in records[k]
        /\ \A k, l \in DOMAIN records : \A i \in records[k] \cap records[l] :
             k = l \/ (i \in DOMAIN msg /\ msg[i].kind = "summary")

\* A client that follows has_more to the end has seen every message that was
\* visible all the while, and no message twice, whatever was appended, undone
\* or deleted between its pages.
PagesComplete ==
  reader.session # NoSession =>
    /\ ~ reader.twice
    /\ ~ reader.more => reader.expects \subseteq reader.got

\* An entry is recallable iff it is confirmed and its source is in the history
\* as shown: undoing the turn or deleting the session withholds it, redo gives
\* it back.
RecallFollowsHistory ==
  migrated => \A i \in DOMAIN memory :
    Recallable(i) <=> /\ memory[i].status = "active"
                      /\ Live(memory[i].session)
                      /\ turn[memory[i].turn].active

\* Taking a turn back brings every file its tools found and could snapshot
\* back to what they found, however many of them wrote it.
UndoRestoresFiles ==
  [][\A s \in Sessions : head[s] # 0 /\ head'[s] = turn[head[s]].parent =>
       \A f \in touched[head[s]].seen :
         LET found == touched[head[s]].first[f]
         IN  found # 0 /\ ~ Large(found) /\ s \notin evicted => disk'[f] = found]_vars

\* Putting it back brings every file to what its last tool left, for files the
\* tools found small enough and did not delete.
RedoRestoresFiles ==
  [][\A s \in Sessions : head'[s] \in Turns /\ turn[head'[s]].parent = head[s] =>
       LET now == touched[head'[s]]
       IN  \A f \in now.seen \cap now.exact :
             now.last[f] # 0 /\ s \notin evicted => disk'[f] = now.last[f]]_vars

\* The turns redo would put back after s, next one first.
Redoable(s) ==
  LET after[u \in 0 .. Len(turn)] ==
        IF NewestChild(u) = 0 THEN << >>
        ELSE <<NewestChild(u)>> \o after[NewestChild(u)]
  IN  after[head[s]]

Stack == INSTANCE TurnStack WITH
  path <- [s \in Sessions |-> Chain(head[s])],
  future <- [s \in Sessions |-> Redoable(s)]

\* The tree of turns with "newest child" behaves as a stack of undone turns:
\* undo and redo are inverse, a new message forgets what was taken back.
ImplementsTurnStack == Stack!Spec
=============================================================================
