----------------------------- MODULE MCAgentLoop -----------------------------
(* AgentLoop with a read tool "read", a write tool "write" and child agents  *)
(* "spawn", one profile for each kind of trouble.                            *)
EXTENDS AgentLoop

Uses(with, says, runs, responses, output, fault) ==
  [with |-> with, says |-> says, runs |-> runs, responses |-> responses,
   output |-> output, faults |-> fault, body |-> 6]

MCTools == {"read", "write", "spawn"}

\* The body of one chat answer, cut at every place.
Wire == Uses({"chat", "wire"}, {}, 1, 1, 0, 0)

\* Failing requests, and streams that break, end early or fail.
Retry == Uses({"chat", "retryable", "status", "broken", "eof", "malformed"},
              {"text", "read"}, 1, 2, 2, 2)

\* Answers of every kind, whose calls are announced and then completed.
Parts == Uses({"ids", "added", "eof", "broken", "failed", "malformed"},
              {"text", "read", "thinking", "reasoning", "search"}, 1, 2, 2, 1)

\* Response ids over several runs, some of them cancelled or cut off.
Resume == Uses({"ids", "cancel", "crash", "unheard", "status"},
               {"text", "read"}, 3, 3, 1, 2)

\* Runs that end without an answer while an earlier response id is kept.
Lose == Uses({"ids", "overflow", "eof", "compact", "cancel", "unheard"},
             {"text"}, 3, 3, 1, 1)

\* Shell commands of the user, before, between and during runs.
Console == Uses({"ids", "cancel", "crash", "shell"}, {"text", "read"}, 2, 3, 1, 1)

\* Policies, approvals and repeated calls.
Gate == Uses({"chat", "modes", "always", "closed"}, MCTools, 1, 2, 2, 1)

\* The agent of a child session, under a policy that asks about everything.
Deputy == Uses({"chat", "child", "ask", "always"}, MCTools, 1, 2, 2, 0)

\* Compaction and trimming, before a run and after an overflow.
Overflow == Uses({"ids", "overflow", "compact", "files"}, {"text", "read"}, 2, 3, 1, 2)

MCProfiles == {Wire, Retry, Parts, Resume, Lose, Console, Gate, Deputy, Overflow}

\* A context that is too long and cannot be made shorter.
Stuck == {Uses({"ids", "overflow"}, {"text"}, 3, 3, 1, 1)}

\* "A persisted response already contains all but the newly appended user item"
\* (a comment in AgentRunner::run_inner): what is resumed lacks nothing.
StoredResponseLacksNothing ==
  Resumed => \A x \in Essential : Seen(x) >= 1
=============================================================================
