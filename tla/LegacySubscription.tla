------------------------- MODULE LegacySubscription -------------------------
(***************************************************************************)
(* The legacy way to follow the bridge, still offered by the handle:       *)
(* `replay_after` first, then `subscribe` (src/service/handle.rs), two     *)
(* separate calls between which the engine may push.  Everything else is   *)
(* EventBridge.                                                            *)
(***************************************************************************)
EXTENDS EventBridge

\* replay_after(last): read the ring with no receiver yet.  The ring contents
\* are kept for the second call.
ReplayAfter(c) ==
  /\ pc[c] = "anchored"
  /\ replay[c] = << >>
  /\ \/ /\ Evicted(last[c])
        /\ pc' = [pc EXCEPT ![c] = "start"]
        /\ UNCHANGED replay
     \/ /\ ~ Evicted(last[c])
        /\ pc' = [pc EXCEPT ![c] = "replayed"]
        /\ replay' = [replay EXCEPT ![c] = CursorsAfter(last[c])]
  /\ UNCHANGED <<ring, last_cursor, stage, last, live, lagged, dirty, reconnects>>

\* subscribe(): create the broadcast receiver, then consume both.
Subscribe(c) ==
  /\ pc[c] = "replayed"
  /\ pc' = [pc EXCEPT ![c] = "reading"]
  /\ UNCHANGED <<ring, last_cursor, stage, last, replay, live, lagged, dirty,
                 reconnects>>

LegacyConsumer(c) ==
  \/ Snapshot(c) \/ ReplayAfter(c) \/ Subscribe(c) \/ TakeReplay(c)
  \/ Receive(c) \/ FallBack(c)

LegacyNext == Producer \/ \E c \in LiveConsumers : LegacyConsumer(c)

LegacySpec == Init /\ [][LegacyNext]_vars

-----------------------------------------------------------------------------
\* "replay first, then live ... so events pushed between the two calls are
\* never missed or duplicated" (bridge.rs, the comment of `subscribe`): a
\* consumer that follows the comment moves one event at a time.
NeverMissedOrDuplicated ==
  [][\A c \in LiveConsumers :
       (pc[c] = "reading" /\ last'[c] # last[c]) => last'[c] = last[c] + 1]_vars
=============================================================================
