---------------------------- MODULE EventStream ----------------------------
(***************************************************************************)
(* What the event bridge promises to every consumer, without rings,        *)
(* channels or locks: one totally ordered stream of events numbered from   *)
(* 1, and for each consumer a position in it.  A consumer in sync advances *)
(* one event at a time.  A consumer that has fallen behind may be told to  *)
(* resync, and then restarts at the position of a fresh snapshot.  It      *)
(* never skips an event silently and never goes back.                      *)
(***************************************************************************)
EXTENDS Naturals

CONSTANT Consumers

VARIABLES
  published,   \* number of events published so far
  seen,        \* position of each consumer: the last event it processed
  synced       \* does the consumer follow the stream, or must it resync?

vars == <<published, seen, synced>>

Init ==
  /\ published = 0
  /\ seen = [c \in Consumers |-> 0]
  /\ synced = [c \in Consumers |-> FALSE]

Publish ==
  /\ published' = published + 1
  /\ UNCHANGED <<seen, synced>>

\* The consumer takes a snapshot: its position becomes the stream's end.
Sync(c) ==
  /\ ~ synced[c]
  /\ seen' = [seen EXCEPT ![c] = published]
  /\ synced' = [synced EXCEPT ![c] = TRUE]
  /\ UNCHANGED published

Deliver(c) ==
  /\ synced[c]
  /\ seen[c] < published
  /\ seen' = [seen EXCEPT ![c] = @ + 1]
  /\ UNCHANGED <<published, synced>>

\* Only a consumer that is really behind is ever told to resync.
FallBehind(c) ==
  /\ synced[c]
  /\ seen[c] < published
  /\ synced' = [synced EXCEPT ![c] = FALSE]
  /\ UNCHANGED <<published, seen>>

Next ==
  \/ Publish
  \/ \E c \in Consumers : Sync(c) \/ Deliver(c) \/ FallBehind(c)

Spec == Init /\ [][Next]_vars
=============================================================================
