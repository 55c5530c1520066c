----------------------------- MODULE TurnStack -----------------------------
(***************************************************************************)
(* What undo and redo promise, for every session: a stack of turns and the *)
(* turns taken back from it, as in an editor.  A new turn forgets what was *)
(* taken back; redo puts back the turn taken back last.                    *)
(***************************************************************************)
EXTENDS Naturals, Sequences, SequencesExt

CONSTANT Sessions

VARIABLES
  path,    \* of each session: its turns, oldest first; empty if not created
  future   \* of each session: the turns redo would put back, next one first

vars == <<path, future>>

Used == UNION {Range(path[s]) \cup Range(future[s]) : s \in Sessions}

\* A session's turns are all different; nothing is redoable in a session that
\* does not exist.
Init ==
  \A s \in Sessions :
    /\ IsInjective(path[s] \o future[s])
    /\ path[s] = << >> => future[s] = << >>

\* A turn nobody has used before.
Fresh(t) == t \notin Used

\* A session comes into being with one turn.
Open(s) ==
  /\ path[s] = << >>
  /\ Len(path'[s]) = 1 /\ Fresh(path'[s][1])
  /\ future' = future
  /\ path' = [path EXCEPT ![s] = path'[s]]

\* The user speaks: one turn more, nothing to redo.
Begin(s) ==
  /\ path[s] # << >>
  /\ Len(path'[s]) = Len(path[s]) + 1 /\ Fresh(Last(path'[s]))
  /\ path' = [path EXCEPT ![s] = Append(@, Last(path'[s]))]
  /\ future' = [future EXCEPT ![s] = << >>]

\* The last turn is taken back; the first one cannot be.
Undo(s) ==
  /\ Len(path[s]) > 1
  /\ path' = [path EXCEPT ![s] = Front(@)]
  /\ future' = [future EXCEPT ![s] = <<Last(path[s])>> \o @]

Redo(s) ==
  /\ future[s] # << >>
  /\ path' = [path EXCEPT ![s] = Append(@, Head(future[s]))]
  /\ future' = [future EXCEPT ![s] = Tail(@)]

Next == \E s \in Sessions : Open(s) \/ Begin(s) \/ Undo(s) \/ Redo(s)

Spec == Init /\ [][Next]_vars
=============================================================================
