----------------------------- MODULE MCHistory -----------------------------
(* Small instances of History. *)
EXTENDS History

\* Each behaviour uses one set of operations: every set is small enough to be
\* explored with turns and messages to spare, and together they hold every
\* operation with those it interacts with.
Tree == {"user", "item", "undo", "redo"}
Compaction == {"user", "compact", "undo", "redo"}
Copies == {"user", "partial", "fork", "compact"}
Family == {"create", "fork", "item", "delete"}
Tools == {"user", "tool", "undo", "redo"}
Memories == {"user", "undo", "redo", "memory", "delete"}
Paging == {"user", "item", "undo", "page"}
Legacy == {"legacy", "user", "undo", "redo"}

SomeProfiles ==
  {Tree, Compaction, Copies, Family, Tools, Memories, Paging, Legacy}
SomeTurns ==
  [p \in SomeProfiles |-> CASE p = Tree -> 6 [] p \in {Tools, Copies} -> 3
                            [] OTHER -> 4]
SomeMessages ==
  [p \in SomeProfiles |-> CASE p = Tree -> 7 [] p = Copies -> 4
                            [] p = Paging -> 6 [] OTHER -> 5]
=============================================================================
