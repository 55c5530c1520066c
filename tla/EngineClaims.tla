---------------------------- MODULE EngineClaims ----------------------------
(***************************************************************************)
(* What comments and documentation promise of the engine and the code does *)
(* not keep: each property is checked by a run of its own, which finds the *)
(* behaviour that breaks it.                                               *)
(***************************************************************************)
EXTENDS SessionEngine

\* "When it no longer matches the session's current request the cancel is
\* stale and ignored, so it can never abort a newer request" (handle.rs
\* cancel): a cancel that carries a receipt aborts that request or nothing.
StaleCancelIgnored ==
  doing.input = "cancel" /\ doing.receipt # 0 /\ doing.task # 0
    => doing.task = doing.receipt

\* "Gracefully shuts the engine down: pending approvals are rejected, the agent
\* tree is cancelled" (handle.rs shutdown): no task outlives the engine.
ShutdownStopsEveryTask ==
  ~ up => \A t \in DOMAIN task : ~ Live(t) \/ task[t].aborted

\* execute_command with a session id does not activate that session: the
\* command works on the active one, and what follows it on the id it was given.
ExecuteDelete(s) ==
  /\ Command
  /\ Supplied("delete", Sessions)
  /\ Loaded(s) \/ s \in listed
  /\ doing' = Doing("delete", s)
  /\ UNCHANGED <<up, storageVars, residency, runtimes, pending, chan, task, ask,
                 accepted>>

ExecuteSpec ==
  /\ Init /\ [][Next \/ \E s \in Sessions : ExecuteDelete(s)]_vars
  /\ Fairness
=============================================================================
