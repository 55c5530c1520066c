---------------------------- MODULE MCChildAgents ----------------------------
(* ChildAgents with a round of two children and a round of one, one profile  *)
(* for each kind of trouble.                                                 *)
EXTENDS ChildAgents

CONSTANTS c1, c2, c3

MCChildren == {c1, c2, c3}
MCRoundOf == [c \in MCChildren |-> IF c = c3 THEN 2 ELSE 1]

Uses(with, rounds, home, parallel) ==
  [with |-> with, rounds |-> rounds, home |-> home, parallel |-> parallel]

\* Two children of one session ask; the session may be cancelled.
Questions == Uses({"write", "cancel"}, {1}, <<"s1", "s1">>, 2)

\* Children of two sessions ask.
Sharing == Uses({"write"}, {1, 2}, <<"s1", "s2">>, 1)

\* A round after one that was cancelled, and whose events are still on their way.
Again == Uses({"invalid", "cancel"}, {1, 2}, <<"s1", "s1">>, 2)

\* Every end there is, and the process may die at any moment.
Ends == Uses({"read", "banned", "limited", "fail", "crash"}, {1, 2}, <<"s1", "s1">>, 1)

\* A process of another workspace starts at any moment.
Neighbour == Uses({"read", "fail", "cancel", "crash", "second"}, {2}, <<"s1", "s1">>, 1)

\* ... while two children run.
Neighbours == Uses({"fail", "second"}, {1}, <<"s1", "s1">>, 2)

MCProfiles == {Questions, Sharing, Again, Ends, Neighbour, Neighbours}
=============================================================================
