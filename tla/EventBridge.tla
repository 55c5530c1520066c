---------------------------- MODULE EventBridge ----------------------------
(***************************************************************************)
(* The event bridge (src/bridge.rs): a bounded replay ring shared under a  *)
(* lock, a broadcast channel and a coalescing watch signal, written by one *)
(* producer (the engine task) and followed by any number of consumers.     *)
(*                                                                         *)
(* `push` is three steps, because the broadcast and the watch signal are   *)
(* sent after the ring lock is released; `subscribe_from` and              *)
(* `subscribe_cursor_from` are two, because the receiver is created before *)
(* the ring is read.  Consumers run on other threads, between any two.     *)
(*                                                                         *)
(* An event is its cursor and its size; what it says is not modelled.      *)
(***************************************************************************)
EXTENDS Naturals, Sequences, FiniteSets, FiniteSetsExt

CONSTANTS
  LiveConsumers,    \* consumers that use subscribe_from (broadcast)
  CursorConsumers,  \* consumers that use subscribe_cursor_from (watch)
  MaxEvents,        \* ring capacity in events
  MaxBytes,         \* ring capacity in bytes
  Sizes,            \* sizes an envelope may have
  ChannelCap,       \* capacity of the broadcast channel (256 in the code)
  BatchLimit,       \* the `limit` a cursor consumer passes to events_after
  MaxCursor,        \* bound: number of events pushed in a behaviour
  MaxReconnects     \* bound: connections dropped in a behaviour

Consumers == LiveConsumers \cup CursorConsumers

ASSUME BridgeAssumption ==
  /\ LiveConsumers \cap CursorConsumers = {}
  /\ MaxEvents \in Nat \ {0} /\ MaxBytes \in Nat \ {0}
  /\ Sizes \subseteq Nat
  /\ ChannelCap \in Nat \ {0} /\ BatchLimit \in Nat
  /\ MaxCursor \in Nat /\ MaxReconnects \in Nat

VARIABLES
  ring,         \* retained envelopes, oldest first
  last_cursor,  \* last cursor assigned, 0 before the first event
  stage,        \* where the producer is in `push`
  pc,           \* where each consumer is in its subscription
  last,         \* last cursor each consumer processed
  replay,       \* cursors fetched from the ring and not yet processed
  live,         \* cursors waiting in each broadcast receiver
  lagged,       \* has the broadcast receiver lost its oldest entries?
  dirty,        \* is there an unseen change on the watch receiver?
  reconnects    \* connections dropped so far

producerVars == <<ring, last_cursor, stage>>
consumerVars == <<pc, last, replay, live, lagged, dirty, reconnects>>
vars == <<ring, last_cursor, stage,
          pc, last, replay, live, lagged, dirty, reconnects>>

Envelope == [cursor : Nat, size : Sizes]

\* "start": must take a snapshot; "anchored": knows a cursor, no receiver;
\* "attached": receiver created, ring not yet read; "reading": following;
\* "waiting": a cursor consumer blocked on the watch signal.
Phases == {"start", "anchored", "attached", "reading", "waiting"}
Receiving(c) == pc[c] \in {"attached", "reading", "waiting"}

Init ==
  /\ ring = << >> /\ last_cursor = 0 /\ stage = "idle"
  /\ pc = [c \in Consumers |-> "start"]
  /\ last = [c \in Consumers |-> 0]
  /\ replay = [c \in Consumers |-> << >>]
  /\ live = [c \in Consumers |-> << >>]
  /\ lagged = [c \in Consumers |-> FALSE]
  /\ dirty = [c \in Consumers |-> FALSE]
  /\ reconnects = 0

-----------------------------------------------------------------------------
(* The ring *)

RingBytes(s) == MapThenSumSet(LAMBDA i : s[i].size, DOMAIN s)

Suffix(s, k) == SubSeq(s, k + 1, Len(s))

WithinLimits(s) == Len(s) <= MaxEvents /\ RingBytes(s) <= MaxBytes

\* Mutant of Evict: pop_back for pop_front.
EvictNewest(s) ==
  IF WithinLimits(s) THEN s ELSE SubSeq(s, 1, Len(s) - 1)

\* The eviction loop of `push`: drop the fewest oldest envelopes that bring
\* the ring within both limits; an oversize envelope evicts even itself.
Evict(s) ==
  LET Enough(k) == k = Len(s) \/ WithinLimits(Suffix(s, k))
      dropped == CHOOSE k \in 0..Len(s) :
                   Enough(k) /\ \A j \in 0..(k - 1) : ~ Enough(j)
  IN  Suffix(s, dropped)

\* Mutants of Evicted: off by one; the empty ring taken for an unused one.
EvictedOffByOne(after) ==
  IF ring = << >> THEN after < last_cursor ELSE after < ring[1].cursor
EvictedNeverIfEmpty(after) ==
  ring # << >> /\ after + 1 < ring[1].cursor

\* Has an event after `after` been evicted already?
Evicted(after) ==
  IF ring = << >> THEN after < last_cursor ELSE after + 1 < ring[1].cursor

\* The cursors the ring holds after `after`, oldest first.
CursorsAfter(after) ==
  LET skip == Cardinality({i \in DOMAIN ring : ring[i].cursor <= after})
  IN  [i \in 1..(Len(ring) - skip) |-> ring[skip + i].cursor]

Batch(s) == SubSeq(s, 1, Min({Max({BatchLimit, 1}), Len(s)}))

-----------------------------------------------------------------------------
(* The producer: one engine task, so one push at a time. *)

\* Under the write lock: assign the cursor, append, evict.
PushRing(size) ==
  /\ stage = "idle"
  /\ last_cursor < MaxCursor
  /\ last_cursor' = last_cursor + 1
  /\ ring' = Evict(Append(ring, [cursor |-> last_cursor + 1, size |-> size]))
  /\ stage' = "ringed"
  /\ UNCHANGED consumerVars

\* Mutant of Deposit: an unbounded channel.
DepositUnbounded(q) == Append(q, last_cursor)

\* What a broadcast receiver holds after one more send: the channel keeps the
\* newest ChannelCap entries and a receiver that needed an older one lags.
Deposit(q) ==
  LET grown == Append(q, last_cursor)
  IN  IF Len(grown) > ChannelCap THEN Tail(grown) ELSE grown

\* Mutant of Broadcast: `send(..)?`, so `push` returns when nobody listens.
BroadcastOrReturn ==
  /\ stage = "ringed"
  /\ LET receivers == {c \in LiveConsumers : Receiving(c)}
     IN  /\ live' = [c \in Consumers |->
                       IF c \in receivers THEN Deposit(live[c]) ELSE live[c]]
         /\ lagged' = [c \in Consumers |->
                         \/ lagged[c]
                         \/ c \in receivers /\ Len(live[c]) >= ChannelCap]
         /\ stage' = IF receivers = {} THEN "idle" ELSE "sent"
  /\ UNCHANGED <<ring, last_cursor, pc, last, replay, dirty, reconnects>>

Broadcast ==
  /\ stage = "ringed"
  /\ LET receivers == {c \in LiveConsumers : Receiving(c)}
     IN  /\ live' = [c \in Consumers |->
                       IF c \in receivers THEN Deposit(live[c]) ELSE live[c]]
         /\ lagged' = [c \in Consumers |->
                         \/ lagged[c]
                         \/ c \in receivers /\ Len(live[c]) >= ChannelCap]
  /\ stage' = "sent"
  /\ UNCHANGED <<ring, last_cursor, pc, last, replay, dirty, reconnects>>

Signal ==
  /\ stage = "sent"
  /\ dirty' = [c \in Consumers |->
                 dirty[c] \/ (c \in CursorConsumers /\ Receiving(c))]
  /\ stage' = "idle"
  /\ UNCHANGED <<ring, last_cursor, pc, last, replay, live, lagged, reconnects>>

-----------------------------------------------------------------------------
(* The consumers *)

\* What a consumer holds once its receiver is dropped.
Detach(c) ==
  /\ replay' = [replay EXCEPT ![c] = << >>]
  /\ live' = [live EXCEPT ![c] = << >>]
  /\ lagged' = [lagged EXCEPT ![c] = FALSE]
  /\ dirty' = [dirty EXCEPT ![c] = FALSE]

\* `snapshot()` is answered by the engine task itself, between two pushes; its
\* event_cursor is the position the state it returns corresponds to.
Snapshot(c) ==
  /\ pc[c] = "start"
  /\ stage = "idle"
  /\ pc' = [pc EXCEPT ![c] = "anchored"]
  /\ last' = [last EXCEPT ![c] = last_cursor]
  /\ UNCHANGED <<ring, last_cursor, stage, replay, live, lagged, dirty, reconnects>>

\* First half of a subscription: create the receiver.  A watch receiver starts
\* with the current value marked as seen, a broadcast receiver empty.
Attach(c) ==
  /\ pc[c] = "anchored"
  /\ pc' = [pc EXCEPT ![c] = "attached"]
  /\ Detach(c)
  /\ UNCHANGED <<ring, last_cursor, stage, last, reconnects>>

\* Second half: read the ring under its lock, or learn that `after` is gone.
ReadRing(c) ==
  /\ pc[c] = "attached"
  /\ \/ /\ Evicted(last[c])
        /\ pc' = [pc EXCEPT ![c] = "start"]
        /\ Detach(c)
     \/ /\ ~ Evicted(last[c])
        /\ pc' = [pc EXCEPT ![c] = "reading"]
        /\ replay' = [replay EXCEPT ![c] = CursorsAfter(last[c])]
        /\ UNCHANGED <<live, lagged, dirty>>
  /\ UNCHANGED <<ring, last_cursor, stage, last, reconnects>>

\* The consumer's rule for every envelope: skip it when its cursor is not
\* beyond the last one processed.
Process(c, cursor) ==
  last' = [last EXCEPT ![c] = IF cursor > @ THEN cursor ELSE @]

TakeReplay(c) ==
  /\ pc[c] = "reading"
  /\ replay[c] # << >>
  /\ Process(c, Head(replay[c]))
  /\ replay' = [replay EXCEPT ![c] = Tail(@)]
  /\ UNCHANGED <<ring, last_cursor, stage, pc, live, lagged, dirty, reconnects>>

Receive(c) ==
  /\ c \in LiveConsumers
  /\ pc[c] = "reading"
  /\ replay[c] = << >>
  /\ ~ lagged[c]
  /\ live[c] # << >>
  /\ Process(c, Head(live[c]))
  /\ live' = [live EXCEPT ![c] = Tail(@)]
  /\ UNCHANGED <<ring, last_cursor, stage, pc, replay, lagged, dirty, reconnects>>

\* recv() reports Lagged: fall back to the ring by subscribing again from the
\* last cursor processed.
FallBack(c) ==
  /\ c \in LiveConsumers
  /\ pc[c] = "reading"
  /\ replay[c] = << >>
  /\ lagged[c]
  /\ pc' = [pc EXCEPT ![c] = "anchored"]
  /\ Detach(c)
  /\ UNCHANGED <<ring, last_cursor, stage, last, reconnects>>

\* events_after(last, BatchLimit): the next batch, nothing yet (then wait on
\* the watch signal), or None: the position was evicted.
Fetch(c) ==
  /\ c \in CursorConsumers
  /\ pc[c] = "reading"
  /\ replay[c] = << >>
  /\ \/ /\ Evicted(last[c])
        /\ pc' = [pc EXCEPT ![c] = "start"]
        /\ Detach(c)
     \/ /\ ~ Evicted(last[c])
        /\ CursorsAfter(last[c]) # << >>
        /\ replay' = [replay EXCEPT ![c] = Batch(CursorsAfter(last[c]))]
        /\ UNCHANGED <<pc, live, lagged, dirty>>
     \/ /\ ~ Evicted(last[c])
        /\ CursorsAfter(last[c]) = << >>
        /\ pc' = [pc EXCEPT ![c] = "waiting"]
        /\ UNCHANGED <<replay, live, lagged, dirty>>
  /\ UNCHANGED <<ring, last_cursor, stage, last, reconnects>>

\* changed().await returns once there is a change not yet seen.
Wake(c) ==
  /\ pc[c] = "waiting"
  /\ dirty[c]
  /\ pc' = [pc EXCEPT ![c] = "reading"]
  /\ dirty' = [dirty EXCEPT ![c] = FALSE]
  /\ UNCHANGED <<ring, last_cursor, stage, last, replay, live, lagged, reconnects>>

\* The consumer's connection drops at any point; it keeps its last cursor.
Reconnect(c) ==
  /\ Receiving(c)
  /\ reconnects < MaxReconnects
  /\ reconnects' = reconnects + 1
  /\ pc' = [pc EXCEPT ![c] = "anchored"]
  /\ Detach(c)
  /\ UNCHANGED <<ring, last_cursor, stage, last>>

Producer == (\E size \in Sizes : PushRing(size)) \/ Broadcast \/ Signal

Consumer(c) ==
  \/ Snapshot(c) \/ Attach(c) \/ ReadRing(c) \/ TakeReplay(c)
  \/ Receive(c) \/ FallBack(c) \/ Fetch(c) \/ Wake(c)

Next == Producer \/ \E c \in Consumers : Consumer(c) \/ Reconnect(c)

Spec == Init /\ [][Next]_vars

\* A push that has begun finishes; each consumer's task keeps running.  Nothing
\* obliges the engine to push, or a connection to drop.
Fairness ==
  /\ WF_vars(Broadcast \/ Signal)
  /\ \A c \in Consumers : WF_vars(Consumer(c))

FairSpec == Spec /\ Fairness

-----------------------------------------------------------------------------
(* Properties *)

\* The shape of the state, and the broadcast channel's capacity.
TypeOK ==
  /\ ring \in Seq(Envelope) /\ last_cursor \in Nat
  /\ stage \in {"idle", "ringed", "sent"}
  /\ pc \in [Consumers -> Phases]
  /\ last \in [Consumers -> Nat]
  /\ replay \in [Consumers -> Seq(Nat)]
  /\ live \in [Consumers -> Seq(Nat)]
  /\ \A c \in Consumers : Len(live[c]) <= ChannelCap
  /\ lagged \in [Consumers -> BOOLEAN]
  /\ dirty \in [Consumers -> BOOLEAN]
  /\ reconnects \in Nat

\* The ring is always the newest events, every one of them: cursors are
\* consecutive and end at the last cursor assigned, whatever was evicted
\* (bridge.rs push: cursor assignment, append and eviction in one section).
RingIsTail ==
  \A i \in DOMAIN ring : ring[i].cursor + Len(ring) = last_cursor + i

\* A consumer told to resync really lost its next event: it is not in the ring
\* any more (bridge.rs subscribe_from and events_after, the comparisons of
\* `after` with the oldest cursor).
ResyncOnlyIfEvicted ==
  [][\A c \in Consumers :
       (pc[c] # "start" /\ pc'[c] = "start")
         => /\ last[c] < last_cursor
            /\ \A i \in DOMAIN ring : ring[i].cursor # last[c] + 1]_vars

\* Every consumer sees the one event stream in order, each event exactly once,
\* unless it is told to resync (bridge.rs, "rather than dropping events
\* silently").
Stream == INSTANCE EventStream WITH
  published <- last_cursor, seen <- last,
  synced <- [c \in Consumers |-> pc[c] # "start"]

ImplementsStream == Stream!Spec

\* Once the engine stops pushing, every consumer catches up with the last
\* cursor and stays there: no wakeup is lost between subscribing, reading and
\* waiting (bridge.rs subscribe_cursor_from, push's send_replace).
EveryConsumerCatchesUp == \A c \in Consumers : <>[](last[c] = last_cursor)
=============================================================================
