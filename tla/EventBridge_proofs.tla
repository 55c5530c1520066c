------------------------- MODULE EventBridge_proofs -------------------------
(***************************************************************************)
(* Proofs about EventBridge, for every number of consumers, every capacity *)
(* and every bound: type correctness, the shape of the ring, what a resync *)
(* means, and that the bridge implements EventStream.                      *)
(***************************************************************************)
EXTENDS EventBridge, SequenceTheorems, FiniteSetTheorems, WellFoundedInduction, TLAPS

-----------------------------------------------------------------------------
(* The operators the model is built from *)

\* What is left of a sequence without its first k elements.
LEMMA SuffixFacts ==
  ASSUME NEW T, NEW s \in Seq(T), NEW k \in 0..Len(s)
  PROVE  /\ Suffix(s, k) \in Seq(T)
         /\ Len(Suffix(s, k)) = Len(s) - k
         /\ \A i \in 1..(Len(s) - k) : Suffix(s, k)[i] = s[k + i]
<1>1. Len(s) \in Nat
  BY LenProperties
<1>2. \A i \in (k + 1)..Len(s) : s[i] \in T
  BY <1>1, ElementOfSeq
<1> QED
  BY <1>1, <1>2 DEF Suffix

\* The eviction loop stops, and leaves a suffix of the ring (bridge.rs push).
LEMMA EvictLeavesSuffix ==
  ASSUME NEW s \in Seq(Envelope)
  PROVE  \E k \in 0..Len(s) : Evict(s) = Suffix(s, k)
<1> DEFINE Enough(k) == k = Len(s) \/ WithinLimits(Suffix(s, k))
           E == {k \in 0..Len(s) : Enough(k)}
<1>1. Len(s) \in Nat
  BY LenProperties
<1>2. E \subseteq Nat /\ E # {}
  <2>1. Len(s) \in E
    BY <1>1
  <2> QED
    BY <2>1, <1>1
<1>3. PICK m \in E : \A j \in E : ~ (<<j, m>> \in OpToRel(<, Nat))
  <2> HIDE DEF E
  <2> QED
    BY <1>2, WFMin, NatLessThanWellFounded
<1>4. \A j \in E : ~ (j < m)
  <2>1. \A i, j \in Nat : i < j => <<i, j>> \in OpToRel(<, Nat)
    BY DEF OpToRel
  <2> HIDE DEF E
  <2> QED
    BY <1>2, <1>3, <2>1
<1>5. \E k \in 0..Len(s) : Enough(k) /\ \A j \in 0..(k - 1) : ~ Enough(j)
  <2>1. m \in 0..Len(s) /\ Enough(m)
    OBVIOUS
  <2>2. \A j \in 0..(m - 1) : ~ Enough(j)
    <3> HIDE DEF Enough
    <3> QED
      BY <1>1, <1>4, <2>1
  <2> QED
    BY <2>1, <2>2
<1> DEFINE dropped == CHOOSE k \in 0..Len(s) :
                        Enough(k) /\ \A j \in 0..(k - 1) : ~ Enough(j)
<1>6. dropped \in 0..Len(s)
  <2> HIDE DEF Enough
  <2> QED
    BY <1>5
<1>7. Evict(s) = Suffix(s, dropped)
  BY DEF Evict
<1> QED
  BY <1>6, <1>7

\* A batch is a non-empty prefix of what the ring holds.
LEMMA BatchIsPrefix ==
  ASSUME NEW s \in Seq(Nat), s # << >>
  PROVE  \E n \in 1..Len(s) : Batch(s) = SubSeq(s, 1, n)
<1>1. Len(s) \in Nat /\ Len(s) > 0
  BY EmptySeq
<1>2. \A a, b \in Nat : Max({a, b}) \in {a, b} /\ Max({a, b}) >= a /\ Max({a, b}) >= b
  <2> SUFFICES ASSUME NEW a \in Nat, NEW b \in Nat
               PROVE  Max({a, b}) \in {a, b} /\ Max({a, b}) >= a /\ Max({a, b}) >= b
    OBVIOUS
  <2>1. \E x \in {a, b} : \A y \in {a, b} : x >= y
    OBVIOUS
  <2> QED
    BY <2>1 DEF Max
<1>3. \A a, b \in Nat : Min({a, b}) \in {a, b} /\ Min({a, b}) <= a /\ Min({a, b}) <= b
  <2> SUFFICES ASSUME NEW a \in Nat, NEW b \in Nat
               PROVE  Min({a, b}) \in {a, b} /\ Min({a, b}) <= a /\ Min({a, b}) <= b
    OBVIOUS
  <2>1. \E x \in {a, b} : \A y \in {a, b} : x <= y
    OBVIOUS
  <2> QED
    BY <2>1 DEF Min
<1> DEFINE m == Max({BatchLimit, 1})
           n == Min({m, Len(s)})
<1>4. m \in Nat /\ m >= 1
  BY <1>2, BridgeAssumption
<1>5. n \in 1..Len(s)
  <2> HIDE DEF m
  <2> QED
    BY <1>1, <1>3, <1>4
<1>6. Batch(s) = SubSeq(s, 1, n)
  BY DEF Batch
<1> QED
  BY <1>5, <1>6

-----------------------------------------------------------------------------
(* The inductive invariant *)

\* The ring holds the last Len(ring) cursors.
RingShape ==
  /\ Len(ring) <= last_cursor
  /\ RingIsTail

\* Events in the ring that are not in the broadcast channel yet.
behind == IF stage = "ringed" THEN 1 ELSE 0

\* What a consumer fetched follows its position and exists.
ReplayFollows ==
  \A c \in Consumers :
    /\ last[c] + Len(replay[c]) <= last_cursor
    /\ \A i \in 1..Len(replay[c]) : replay[c][i] = last[c] + i

\* What waits in a receiver is the end of what was broadcast.
LiveIsTail ==
  \A c \in Consumers :
    /\ Len(live[c]) + behind <= last_cursor
    /\ \A i \in 1..Len(live[c]) : live[c][i] + Len(live[c]) + behind = last_cursor + i

\* Between what a broadcast consumer fetched and what waits in its receiver no
\* event is missing, unless the receiver says so.
NoGap ==
  \A c \in LiveConsumers :
    pc[c] = "reading" /\ ~ lagged[c]
      => last_cursor <= last[c] + Len(replay[c]) + Len(live[c]) + behind

\* Only the receiver of a broadcast consumer holds anything, only a consumer
\* that reads has fetched something, and only a cursor consumer waits.
OnlyReceiversHold ==
  \A c \in Consumers :
    /\ c \notin LiveConsumers \/ ~ Receiving(c) => live[c] = << >>
    /\ pc[c] # "reading" => replay[c] = << >>
    /\ pc[c] = "waiting" => c \notin LiveConsumers

IInv ==
  TypeOK /\ RingShape /\ ReplayFollows /\ LiveIsTail /\ NoGap /\ OnlyReceiversHold

\* What type correctness says of one consumer.
LEMMA ConsumerTypes ==
  ASSUME TypeOK, NEW c \in Consumers
  PROVE  /\ last[c] \in Nat /\ last_cursor \in Nat
         /\ replay[c] \in Seq(Nat) /\ Len(replay[c]) \in Nat
         /\ live[c] \in Seq(Nat) /\ Len(live[c]) \in Nat
         /\ \A i \in 1..Len(live[c]) : live[c][i] \in Nat
<1>1. /\ last[c] \in Nat /\ last_cursor \in Nat
      /\ replay[c] \in Seq(Nat) /\ live[c] \in Seq(Nat)
  BY DEF TypeOK
<1> QED
  BY <1>1, LenProperties, ElementOfSeq

\* "Evicted" means that the next event is older than all the ring holds.
LEMMA EvictedMeaning ==
  ASSUME IInv, NEW after \in Nat, after <= last_cursor
  PROVE  Evicted(after) <=> after + Len(ring) < last_cursor
<1>1. ring \in Seq(Envelope) /\ last_cursor \in Nat
  BY DEF IInv, TypeOK
<1>2. Len(ring) \in Nat
  BY <1>1, LenProperties
<1>3. CASE ring = << >>
  BY <1>1, <1>2, <1>3, EmptySeq DEF Evicted
<1>4. CASE ring # << >>
  <2>1. 1 \in DOMAIN ring /\ ring[1] \in Envelope
    BY <1>1, <1>4, EmptySeq, LenProperties, ElementOfSeq
  <2>2. ring[1].cursor \in Nat
    BY <2>1 DEF Envelope
  <2>3. ring[1].cursor + Len(ring) = last_cursor + 1
    BY <2>1 DEF IInv, RingShape, RingIsTail
  <2> QED
    BY <1>1, <1>2, <1>4, <2>2, <2>3 DEF Evicted
<1> QED
  BY <1>3, <1>4

\* Unless they were evicted, the ring gives exactly the events after a cursor.
LEMMA CursorsAfterShape ==
  ASSUME IInv, NEW after \in Nat, after <= last_cursor, ~ Evicted(after)
  PROVE  CursorsAfter(after) = [i \in 1..(last_cursor - after) |-> after + i]
<1> DEFINE old == {i \in DOMAIN ring : ring[i].cursor <= after}
<1>1. ring \in Seq(Envelope) /\ last_cursor \in Nat
  BY DEF IInv, TypeOK
<1>2. Len(ring) \in Nat /\ DOMAIN ring = 1..Len(ring)
  BY <1>1, LenProperties
<1>3. PICK k \in Nat : k <= Len(ring) /\ k + last_cursor = after + Len(ring)
  <2>1. after + Len(ring) >= last_cursor
    BY <1>1, <1>2, EvictedMeaning
  <2> DEFINE n == after + Len(ring) - last_cursor
  <2>2. n \in Nat /\ n <= Len(ring) /\ n + last_cursor = after + Len(ring)
    BY <1>1, <1>2, <2>1
  <2> QED
    BY <2>2
<1>4. \A i \in 1..Len(ring) :
        ring[i].cursor \in Nat /\ ring[i].cursor + Len(ring) = last_cursor + i
  <2> SUFFICES ASSUME NEW i \in 1..Len(ring)
               PROVE  ring[i].cursor \in Nat
                        /\ ring[i].cursor + Len(ring) = last_cursor + i
    OBVIOUS
  <2>1. ring[i] \in Envelope
    BY <1>1, ElementOfSeq
  <2> QED
    BY <1>2, <2>1 DEF IInv, RingShape, RingIsTail, Envelope
<1>5. old = 1..k
  BY <1>1, <1>2, <1>3, <1>4
<1>6. Cardinality(old) = k
  <2>1. Cardinality(1..k) = IF 1 > k THEN 0 ELSE k - 1 + 1
    BY FS_Interval
  <2>2. Cardinality(1..k) = k
    BY <2>1
  <2> QED
    BY <1>5, <2>2
<1>7. CursorsAfter(after) = [i \in 1..(Len(ring) - k) |-> ring[k + i].cursor]
  BY <1>6 DEF CursorsAfter
<1>8. Len(ring) - k = last_cursor - after
  BY <1>1, <1>2, <1>3
<1>9. \A i \in 1..(last_cursor - after) : ring[k + i].cursor = after + i
  <2> SUFFICES ASSUME NEW i \in 1..(last_cursor - after)
               PROVE  ring[k + i].cursor = after + i
    OBVIOUS
  <2>1. k + i \in 1..Len(ring)
    BY <1>1, <1>2, <1>3, <1>8
  <2>2. ring[k + i].cursor \in Nat /\ ring[k + i].cursor + Len(ring) = last_cursor + k + i
    BY <1>1, <1>2, <1>4, <2>1
  <2> QED
    BY <1>1, <1>2, <1>3, <2>2
<1> QED
  BY <1>7, <1>8, <1>9

-----------------------------------------------------------------------------
(* The invariant holds initially and every action keeps it *)

LEMMA InitIInv == Init => IInv
<1> SUFFICES ASSUME Init PROVE IInv
  OBVIOUS
<1>1. << >> \in Seq(Envelope) /\ << >> \in Seq(Nat) /\ Len(<< >>) = 0
  BY EmptySeq
<1>2. TypeOK
  BY <1>1, BridgeAssumption DEF Init, TypeOK, Phases
<1>3. RingShape
  BY <1>1 DEF Init, RingShape, RingIsTail
<1>4. ReplayFollows
  BY <1>1 DEF Init, ReplayFollows
<1>5. LiveIsTail
  BY <1>1 DEF Init, LiveIsTail, behind
<1>6. NoGap
  BY DEF Init, NoGap, Consumers
<1>7. OnlyReceiversHold
  BY DEF Init, OnlyReceiversHold
<1> QED
  BY <1>2, <1>3, <1>4, <1>5, <1>6, <1>7 DEF IInv

\* A push keeps the ring the tail of the stream, whatever it evicts.
LEMMA PushRingIInv ==
  ASSUME IInv, NEW size \in Sizes, PushRing(size)
  PROVE  IInv'
<1> DEFINE new == [cursor |-> last_cursor + 1, size |-> size]
           grown == Append(ring, new)
<1>1. /\ ring \in Seq(Envelope) /\ last_cursor \in Nat /\ stage = "idle"
      /\ Len(ring) \in Nat
  BY LenProperties DEF IInv, TypeOK, PushRing
<1>2. new \in Envelope
  BY <1>1 DEF Envelope
<1>3. /\ grown \in Seq(Envelope) /\ Len(grown) = Len(ring) + 1
      /\ grown[Len(ring) + 1] = new
      /\ \A i \in 1..Len(ring) : grown[i] = ring[i]
  BY <1>1, <1>2, AppendProperties
<1>4. \A i \in 1..Len(grown) :
        grown[i].cursor \in Nat /\ grown[i].cursor + Len(grown) = last_cursor + 1 + i
  <2> SUFFICES ASSUME NEW i \in 1..Len(grown)
               PROVE  grown[i].cursor \in Nat
                        /\ grown[i].cursor + Len(grown) = last_cursor + 1 + i
    OBVIOUS
  <2>1. CASE i = Len(ring) + 1
    BY <1>1, <1>3, <2>1
  <2>2. CASE i \in 1..Len(ring)
    <3>1. grown[i] = ring[i] /\ ring[i] \in Envelope
      BY <1>1, <1>3, <2>2, ElementOfSeq
    <3>2. ring[i].cursor + Len(ring) = last_cursor + i
      BY <1>1, <2>2 DEF IInv, RingShape, RingIsTail
    <3>3. ring[i].cursor \in Nat
      BY <3>1 DEF Envelope
    <3> HIDE DEF grown
    <3> QED
      BY <1>1, <1>3, <2>2, <3>1, <3>2, <3>3
  <2> QED
    BY <1>1, <1>3, <2>1, <2>2
<1> HIDE DEF grown
<1>5. PICK k \in 0..Len(grown) : ring' = Suffix(grown, k)
  <2>1. ring' = Evict(grown)
    BY DEF PushRing, grown
  <2> QED
    BY <1>3, <2>1, EvictLeavesSuffix
<1>6. /\ ring' \in Seq(Envelope) /\ Len(ring') = Len(grown) - k
      /\ \A i \in 1..(Len(grown) - k) : ring'[i] = grown[k + i]
  BY <1>3, <1>5, SuffixFacts
<1>7. last_cursor' = last_cursor + 1 /\ stage' = "ringed"
        /\ UNCHANGED consumerVars
  BY DEF PushRing
<1>8. TypeOK'
  BY <1>1, <1>6, <1>7 DEF IInv, TypeOK, consumerVars
<1>9. RingShape'
  <2>1. Len(ring') <= last_cursor'
    BY <1>1, <1>3, <1>6, <1>7 DEF IInv, RingShape
  <2>2. \A i \in DOMAIN ring' : ring'[i].cursor + Len(ring') = last_cursor' + i
    <3> SUFFICES ASSUME NEW i \in DOMAIN ring'
                 PROVE  ring'[i].cursor + Len(ring') = last_cursor' + i
      OBVIOUS
    <3>1. i \in 1..(Len(grown) - k)
      BY <1>6, LenProperties
    <3>2. k + i \in 1..Len(grown)
      BY <1>1, <1>3, <1>5, <3>1
    <3>3. grown[k + i].cursor \in Nat
            /\ grown[k + i].cursor + Len(grown) = last_cursor + 1 + (k + i)
      BY <1>4, <3>2
    <3>4. ring'[i] = grown[k + i]
      BY <1>6, <3>1
    <3>5. ring'[i].cursor \in Nat
            /\ ring'[i].cursor + (Len(ring) + 1) = last_cursor + 1 + (k + i)
      BY <1>3, <3>3, <3>4
    <3>6. Len(ring') = Len(ring) + 1 - k /\ last_cursor' = last_cursor + 1
      BY <1>3, <1>6, <1>7
    <3>7. i \in Nat /\ k \in Nat
      BY <1>1, <1>3, <1>5, <3>1
    <3>8. PICK x \in Nat, n \in Nat, m \in Nat :
            x = ring'[i].cursor /\ n = Len(ring) /\ m = last_cursor
      BY <1>1, <3>5
    <3>9. /\ x \in Nat /\ n \in Nat /\ m \in Nat
          /\ x + (n + 1) = m + 1 + (k + i)
      BY <3>5, <3>8
    <3>10. x + (n + 1 - k) = m + 1 + i
      BY <3>7, <3>9
    <3> QED
      BY <3>6, <3>8, <3>10
  <2> QED
    BY <2>1, <2>2 DEF RingShape, RingIsTail
<1>10. ReplayFollows'
  <2> SUFFICES ASSUME NEW c \in Consumers
               PROVE  (/\ last[c] + Len(replay[c]) <= last_cursor
                       /\ \A i \in 1..Len(replay[c]) : replay[c][i] = last[c] + i)'
    BY DEF ReplayFollows
  <2>1. replay[c] \in Seq(Nat) /\ last[c] \in Nat
    BY DEF IInv, TypeOK
  <2>2. Len(replay[c]) \in Nat
    BY <2>1, LenProperties
  <2> QED
    BY <1>1, <1>7, <2>1, <2>2 DEF IInv, ReplayFollows, consumerVars
<1>11. LiveIsTail'
  <2> SUFFICES ASSUME NEW c \in Consumers
               PROVE  (/\ Len(live[c]) + behind <= last_cursor
                       /\ \A i \in 1..Len(live[c]) :
                            live[c][i] + Len(live[c]) + behind = last_cursor + i)'
    BY DEF LiveIsTail
  <2>1. live[c] \in Seq(Nat)
    BY DEF IInv, TypeOK
  <2>2. Len(live[c]) \in Nat /\ \A i \in 1..Len(live[c]) : live[c][i] \in Nat
    BY <2>1, LenProperties, ElementOfSeq
  <2>3. behind = 0 /\ behind' = 1 /\ live' = live
    BY <1>1, <1>7 DEF behind, consumerVars
  <2> QED
    BY <1>1, <1>7, <2>2, <2>3 DEF IInv, LiveIsTail
<1>12. NoGap'
  <2> SUFFICES ASSUME NEW c \in LiveConsumers, (pc[c] = "reading" /\ ~ lagged[c])'
               PROVE  (last_cursor <= last[c] + Len(replay[c]) + Len(live[c]) + behind)'
    BY DEF NoGap
  <2>1. /\ live[c] \in Seq(Nat) /\ replay[c] \in Seq(Nat) /\ last[c] \in Nat
    BY DEF IInv, TypeOK, Consumers
  <2>2. Len(live[c]) \in Nat /\ Len(replay[c]) \in Nat
    BY <2>1, LenProperties
  <2>3. behind = 0 /\ behind' = 1
    BY <1>1, <1>7 DEF behind
  <2>4. last_cursor <= last[c] + Len(replay[c]) + Len(live[c]) + behind
    BY <1>7 DEF IInv, NoGap, consumerVars
  <2> QED
    BY <1>1, <1>7, <2>1, <2>2, <2>3, <2>4 DEF consumerVars
<1>13. OnlyReceiversHold'
  BY <1>7 DEF IInv, OnlyReceiversHold, Receiving, consumerVars
<1> QED
  BY <1>8, <1>9, <1>10, <1>11, <1>12, <1>13 DEF IInv

\* One more send keeps a receiver the end of the stream: it grows by one, or
\* loses its oldest entry when it is full.
LEMMA DepositFacts ==
  ASSUME IInv, stage = "ringed", NEW c \in Consumers
  PROVE  /\ Deposit(live[c]) \in Seq(Nat)
         /\ Len(Deposit(live[c])) <= ChannelCap
         /\ Len(Deposit(live[c])) <= last_cursor
         /\ Len(live[c]) < ChannelCap => Len(Deposit(live[c])) = Len(live[c]) + 1
         /\ \A i \in 1..Len(Deposit(live[c])) :
              Deposit(live[c])[i] + Len(Deposit(live[c])) = last_cursor + i
<1> DEFINE q == live[c]
           grown == Append(q, last_cursor)
<1>1. /\ q \in Seq(Nat) /\ Len(q) \in Nat /\ last_cursor \in Nat
      /\ \A i \in 1..Len(q) : q[i] \in Nat
  BY ConsumerTypes DEF IInv
<1>2. behind = 1
  BY DEF behind
<1>3. /\ Len(q) + 1 <= last_cursor
      /\ \A i \in 1..Len(q) : q[i] + Len(q) + 1 = last_cursor + i
  BY <1>2 DEF IInv, LiveIsTail
<1>4. Len(q) <= ChannelCap /\ ChannelCap \in Nat \ {0}
  BY BridgeAssumption DEF IInv, TypeOK
<1> HIDE DEF q
<1>5. /\ grown \in Seq(Nat) /\ Len(grown) = Len(q) + 1
      /\ grown[Len(q) + 1] = last_cursor
      /\ \A i \in 1..Len(q) : grown[i] = q[i]
  BY <1>1, AppendProperties
<1> HIDE DEF grown
<1>6. \A i \in 1..Len(grown) : grown[i] \in Nat /\ grown[i] + Len(grown) = last_cursor + i
  <2> SUFFICES ASSUME NEW i \in 1..Len(grown)
               PROVE  grown[i] \in Nat /\ grown[i] + Len(grown) = last_cursor + i
    OBVIOUS
  <2>1. CASE i = Len(q) + 1
    BY <1>1, <1>5, <2>1
  <2>2. CASE i \in 1..Len(q)
    BY <1>1, <1>3, <1>5, <2>2
  <2> QED
    BY <1>1, <1>5, <2>1, <2>2
<1>7. CASE Len(grown) > ChannelCap
  <2>1. Deposit(q) = Tail(grown)
    BY <1>7 DEF Deposit, grown
  <2>2. /\ Tail(grown) \in Seq(Nat) /\ Len(Tail(grown)) = Len(grown) - 1
        /\ \A i \in 1..Len(Tail(grown)) : Tail(grown)[i] = grown[i + 1]
    BY <1>1, <1>4, <1>5, <1>7, EmptySeq, HeadTailProperties
  <2>3. Len(q) = ChannelCap
    BY <1>1, <1>4, <1>5, <1>7
  <2>4. \A i \in 1..Len(Tail(grown)) : Tail(grown)[i] + Len(Tail(grown)) = last_cursor + i
    <3> SUFFICES ASSUME NEW i \in 1..Len(Tail(grown))
                 PROVE  Tail(grown)[i] + Len(Tail(grown)) = last_cursor + i
      OBVIOUS
    <3>1. i + 1 \in 1..Len(grown) /\ i \in Nat
      BY <1>1, <1>5, <2>2
    <3>2. grown[i + 1] \in Nat /\ grown[i + 1] + Len(grown) = last_cursor + (i + 1)
      BY <1>6, <3>1
    <3>3. Tail(grown)[i] = grown[i + 1]
      BY <2>2
    <3>4. Len(Tail(grown)) = Len(q) /\ Len(grown) = Len(q) + 1
      BY <1>1, <1>5, <2>2
    <3>5. /\ Tail(grown)[i] \in Nat
          /\ Tail(grown)[i] + (Len(q) + 1) = last_cursor + (i + 1)
      BY <3>2, <3>3, <3>4
    <3>6. \A x, n, m, j \in Nat : x + (n + 1) = m + (j + 1) => x + n = m + j
      OBVIOUS
    <3>7. Tail(grown)[i] + Len(q) = last_cursor + i
      BY <1>1, <3>1, <3>5, <3>6
    <3> QED
      BY <3>4, <3>7
  <2> QED
    BY <1>1, <1>3, <1>4, <1>5, <2>1, <2>2, <2>3, <2>4 DEF q
<1>8. CASE ~ (Len(grown) > ChannelCap)
  <2>1. Deposit(q) = grown
    BY <1>8 DEF Deposit, grown
  <2> QED
    BY <1>1, <1>3, <1>4, <1>5, <1>6, <1>8, <2>1 DEF q
<1> QED
  BY <1>7, <1>8

\* Sending to the channel keeps every receiver the end of the stream.
LEMMA BroadcastIInv ==
  ASSUME IInv, Broadcast
  PROVE  IInv'
<1> DEFINE receivers == {c \in LiveConsumers : Receiving(c)}
<1>1. /\ stage = "ringed" /\ stage' = "sent"
      /\ UNCHANGED <<ring, last_cursor, pc, last, replay, dirty, reconnects>>
      /\ live' = [c \in Consumers |->
                    IF c \in receivers THEN Deposit(live[c]) ELSE live[c]]
      /\ lagged' = [c \in Consumers |->
                      \/ lagged[c]
                      \/ c \in receivers /\ Len(live[c]) >= ChannelCap]
  BY DEF Broadcast
<1> HIDE DEF receivers
<1>2. behind = 1 /\ behind' = 0 /\ last_cursor \in Nat
  BY <1>1 DEF behind, IInv, TypeOK
<1>3. TypeOK'
  <2>1. live' \in [Consumers -> Seq(Nat)]
    BY <1>1, DepositFacts DEF IInv, TypeOK
  <2>2. \A c \in Consumers : Len(live'[c]) <= ChannelCap
    BY <1>1, DepositFacts DEF IInv, TypeOK
  <2>3. lagged' \in [Consumers -> BOOLEAN]
    BY <1>1 DEF IInv, TypeOK
  <2> QED
    BY <1>1, <2>1, <2>2, <2>3 DEF IInv, TypeOK
<1>4. RingShape'
  BY <1>1 DEF IInv, RingShape, RingIsTail
<1>5. ReplayFollows'
  BY <1>1 DEF IInv, ReplayFollows
<1>6. OnlyReceiversHold'
  BY <1>1 DEF IInv, OnlyReceiversHold, Receiving, receivers
<1>7. LiveIsTail'
  <2> SUFFICES ASSUME NEW c \in Consumers
               PROVE  (/\ Len(live[c]) + behind <= last_cursor
                       /\ \A i \in 1..Len(live[c]) :
                            live[c][i] + Len(live[c]) + behind = last_cursor + i)'
    BY DEF LiveIsTail
  <2>1. CASE c \in receivers
    <3> DEFINE d == Deposit(live[c])
    <3>1. live'[c] = d
      BY <1>1, <2>1
    <3>2. /\ d \in Seq(Nat) /\ Len(d) <= last_cursor
          /\ \A i \in 1..Len(d) : d[i] + Len(d) = last_cursor + i
      BY <1>1, DepositFacts
    <3> HIDE DEF d
    <3>3. Len(d) \in Nat /\ \A i \in 1..Len(d) : d[i] \in Nat
      BY <3>2, LenProperties, ElementOfSeq
    <3>4. Len(d) + 0 <= last_cursor
            /\ \A i \in 1..Len(d) : d[i] + Len(d) + 0 = last_cursor + i
      BY <1>2, <3>2, <3>3
    <3> QED
      BY <1>1, <1>2, <3>1, <3>4
  <2>2. CASE c \notin receivers
    <3>1. live'[c] = << >>
      BY <1>1, <2>2 DEF IInv, OnlyReceiversHold, receivers
    <3> QED
      BY <1>1, <1>2, <3>1, EmptySeq
  <2> QED
    BY <2>1, <2>2
<1>8. NoGap'
  <2> SUFFICES ASSUME NEW c \in LiveConsumers, (pc[c] = "reading" /\ ~ lagged[c])'
               PROVE  (last_cursor <= last[c] + Len(replay[c]) + Len(live[c]) + behind)'
    BY DEF NoGap
  <2>0. c \in Consumers
    BY DEF Consumers
  <2>1. c \in receivers
    BY <1>1 DEF receivers, Receiving
  <2>2. ~ lagged[c] /\ ~ (Len(live[c]) >= ChannelCap)
    BY <1>1, <2>0, <2>1
  <2>3. /\ last[c] \in Nat /\ Len(replay[c]) \in Nat /\ Len(live[c]) \in Nat
    BY <2>0, ConsumerTypes DEF IInv
  <2>4. Len(live'[c]) = Len(live[c]) + 1
    <3>1. Len(live[c]) < ChannelCap
      BY <2>2, <2>3, BridgeAssumption
    <3> QED
      BY <1>1, <2>0, <2>1, <3>1, DepositFacts
  <2>5. last_cursor <= last[c] + Len(replay[c]) + Len(live[c]) + behind
    BY <1>1, <2>2 DEF IInv, NoGap
  <2> QED
    BY <1>1, <1>2, <2>3, <2>4, <2>5
<1> QED
  BY <1>3, <1>4, <1>5, <1>6, <1>7, <1>8 DEF IInv

LEMMA SignalIInv ==
  ASSUME IInv, Signal
  PROVE  IInv'
<1>1. /\ stage = "sent" /\ stage' = "idle"
      /\ UNCHANGED <<ring, last_cursor, pc, last, replay, live, lagged, reconnects>>
      /\ dirty' = [c \in Consumers |->
                     dirty[c] \/ (c \in CursorConsumers /\ Receiving(c))]
  BY DEF Signal
<1>2. behind = 0 /\ behind' = 0
  BY <1>1 DEF behind
<1>3. TypeOK'
  BY <1>1 DEF IInv, TypeOK
<1> QED
  BY <1>1, <1>2, <1>3 DEF IInv, RingShape, RingIsTail, ReplayFollows, LiveIsTail,
     NoGap, OnlyReceiversHold, Receiving

-----------------------------------------------------------------------------
(* A consumer's step changes that consumer only *)

\* The invariant as it concerns one consumer.
ConsumerInv(c) ==
  /\ pc[c] \in Phases /\ last[c] \in Nat /\ lagged[c] \in BOOLEAN /\ dirty[c] \in BOOLEAN
  /\ replay[c] \in Seq(Nat) /\ live[c] \in Seq(Nat) /\ Len(live[c]) <= ChannelCap
  /\ last[c] + Len(replay[c]) <= last_cursor
  /\ \A i \in 1..Len(replay[c]) : replay[c][i] = last[c] + i
  /\ Len(live[c]) + behind <= last_cursor
  /\ \A i \in 1..Len(live[c]) : live[c][i] + Len(live[c]) + behind = last_cursor + i
  /\ c \in LiveConsumers /\ pc[c] = "reading" /\ ~ lagged[c]
       => last_cursor <= last[c] + Len(replay[c]) + Len(live[c]) + behind
  /\ c \notin LiveConsumers \/ ~ Receiving(c) => live[c] = << >>
  /\ pc[c] # "reading" => replay[c] = << >>
  /\ pc[c] = "waiting" => c \notin LiveConsumers

ProducerInv ==
  /\ ring \in Seq(Envelope) /\ last_cursor \in Nat
  /\ stage \in {"idle", "ringed", "sent"} /\ reconnects \in Nat
  /\ RingShape

FunctionShapes ==
  /\ pc = [c \in Consumers |-> pc[c]] /\ last = [c \in Consumers |-> last[c]]
  /\ replay = [c \in Consumers |-> replay[c]] /\ live = [c \in Consumers |-> live[c]]
  /\ lagged = [c \in Consumers |-> lagged[c]] /\ dirty = [c \in Consumers |-> dirty[c]]

LEMMA IInvByConsumer ==
  IInv <=> ProducerInv /\ FunctionShapes /\ \A c \in Consumers : ConsumerInv(c)
<1>1. IInv => ProducerInv /\ FunctionShapes
  BY DEF IInv, TypeOK, ProducerInv, FunctionShapes
<1>2. ASSUME IInv, NEW c \in Consumers PROVE ConsumerInv(c)
  BY <1>2 DEF IInv, TypeOK, ReplayFollows, LiveIsTail, NoGap, OnlyReceiversHold, ConsumerInv
<1>3. ASSUME ProducerInv, FunctionShapes, \A c \in Consumers : ConsumerInv(c) PROVE IInv
  <2>1. TypeOK
    BY <1>3 DEF ProducerInv, FunctionShapes, ConsumerInv, TypeOK
  <2>2. ReplayFollows /\ LiveIsTail /\ OnlyReceiversHold
    BY <1>3 DEF ConsumerInv, ReplayFollows, LiveIsTail, OnlyReceiversHold
  <2>3. NoGap
    BY <1>3 DEF ConsumerInv, NoGap, Consumers
  <2> QED
    BY <1>3, <2>1, <2>2, <2>3 DEF IInv, ProducerInv
<1> QED
  BY <1>1, <1>2, <1>3

LEMMA IInvByConsumerNext ==
  (IInv <=> ProducerInv /\ FunctionShapes /\ \A c \in Consumers : ConsumerInv(c))'
BY IInvByConsumer, PTL

OnlyChanges(c) ==
  /\ UNCHANGED <<ring, last_cursor, stage>> /\ reconnects' \in Nat
  /\ FunctionShapes'
  /\ \A d \in Consumers \ {c} :
       /\ pc'[d] = pc[d] /\ last'[d] = last[d] /\ replay'[d] = replay[d]
       /\ live'[d] = live[d] /\ lagged'[d] = lagged[d] /\ dirty'[d] = dirty[d]

\* It is enough to look at the consumer that moves.
LEMMA OneConsumer ==
  ASSUME IInv, NEW c \in Consumers, OnlyChanges(c), ConsumerInv(c)'
  PROVE  IInv'
<1>1. ProducerInv'
  BY DEF IInv, TypeOK, OnlyChanges, ProducerInv, RingShape, RingIsTail
<1>2. ASSUME NEW d \in Consumers \ {c} PROVE ConsumerInv(d)'
  <2>1. ConsumerInv(d)
    BY IInvByConsumer
  <2>2. /\ pc'[d] = pc[d] /\ last'[d] = last[d] /\ replay'[d] = replay[d]
        /\ live'[d] = live[d] /\ lagged'[d] = lagged[d] /\ dirty'[d] = dirty[d]
        /\ last_cursor' = last_cursor /\ behind' = behind
    BY <1>2 DEF OnlyChanges, behind
  <2> QED
    BY <2>1, <2>2 DEF ConsumerInv, Receiving
<1>3. FunctionShapes'
  BY DEF OnlyChanges
<1>4. (ProducerInv /\ FunctionShapes /\ \A d \in Consumers : ConsumerInv(d))'
  BY <1>1, <1>2, <1>3
<1> QED
  BY <1>4, IInvByConsumerNext

\* A consumer that lets its receiver go keeps the invariant.
LEMMA DetachIInv ==
  ASSUME IInv, NEW c \in Consumers, NEW p \in Phases \ {"reading", "waiting"}, Detach(c),
         pc' = [pc EXCEPT ![c] = p], reconnects' \in Nat,
         UNCHANGED <<ring, last_cursor, stage, last>>
  PROVE  IInv'
<1>1. OnlyChanges(c)
  BY DEF IInv, TypeOK, OnlyChanges, Detach, FunctionShapes
<1>2. /\ pc'[c] = p /\ last'[c] = last[c] /\ replay'[c] = << >> /\ live'[c] = << >>
      /\ lagged'[c] = FALSE /\ dirty'[c] = FALSE
      /\ last_cursor' = last_cursor /\ behind' = behind
  BY DEF IInv, TypeOK, Detach, behind
<1>3. /\ << >> \in Seq(Nat) /\ Len(<< >>) = 0
      /\ ChannelCap \in Nat /\ behind \in Nat /\ last_cursor \in Nat
  BY EmptySeq, BridgeAssumption DEF behind, IInv, TypeOK
<1>4. /\ last[c] \in Nat /\ last[c] <= last_cursor /\ behind <= last_cursor
  <2>1. ConsumerInv(c)
    BY IInvByConsumer
  <2>2. Len(replay[c]) \in Nat /\ Len(live[c]) \in Nat
    BY ConsumerTypes DEF IInv
  <2> QED
    BY <1>3, <2>1, <2>2 DEF ConsumerInv
<1>5. ConsumerInv(c)'
  <2>1. /\ last'[c] + Len(replay'[c]) <= last_cursor'
        /\ \A i \in 1..Len(replay'[c]) : replay'[c][i] = last'[c] + i
    BY <1>2, <1>3, <1>4
  <2>2. /\ Len(live'[c]) + behind' <= last_cursor'
        /\ \A i \in 1..Len(live'[c]) :
             live'[c][i] + Len(live'[c]) + behind' = last_cursor' + i
    BY <1>2, <1>3, <1>4
  <2>3. Len(live'[c]) <= ChannelCap
    BY <1>2, <1>3
  <2> QED
    BY <1>2, <1>3, <1>4, <2>1, <2>2, <2>3 DEF ConsumerInv
<1> QED
  BY <1>1, <1>5, OneConsumer

\* What the invariant says of a consumer, ready for arithmetic.
LEMMA ConsumerFacts ==
  ASSUME IInv, NEW c \in Consumers
  PROVE  /\ ConsumerInv(c)
         /\ last[c] \in Nat /\ last_cursor \in Nat /\ behind \in Nat
         /\ Len(replay[c]) \in Nat /\ Len(live[c]) \in Nat
         /\ last[c] <= last_cursor
         /\ \A i \in 1..Len(live[c]) : live[c][i] \in Nat
<1>1. ConsumerInv(c)
  BY IInvByConsumer
<1>2. /\ last[c] \in Nat /\ last_cursor \in Nat
      /\ Len(replay[c]) \in Nat /\ Len(live[c]) \in Nat
      /\ \A i \in 1..Len(live[c]) : live[c][i] \in Nat
  BY ConsumerTypes DEF IInv
<1>3. behind \in Nat
  BY DEF behind
<1>4. last[c] <= last_cursor
  BY <1>1, <1>2 DEF ConsumerInv
<1> QED
  BY <1>1, <1>2, <1>3, <1>4

LEMMA SnapshotIInv ==
  ASSUME IInv, NEW c \in Consumers, Snapshot(c)
  PROVE  IInv'
<1>1. OnlyChanges(c)
  BY DEF IInv, TypeOK, OnlyChanges, Snapshot, FunctionShapes
<1>2. /\ pc'[c] = "anchored" /\ last'[c] = last_cursor
      /\ replay'[c] = replay[c] /\ live'[c] = live[c]
      /\ lagged'[c] = lagged[c] /\ dirty'[c] = dirty[c]
      /\ last_cursor' = last_cursor /\ behind' = behind
  BY DEF IInv, TypeOK, Snapshot, behind
<1>3. replay[c] = << >> /\ live[c] = << >> /\ Len(<< >>) = 0
  BY EmptySeq DEF IInv, OnlyReceiversHold, Snapshot, Receiving
<1>4. ConsumerInv(c)'
  BY <1>2, <1>3, ConsumerFacts DEF ConsumerInv, Phases
<1> QED
  BY <1>1, <1>4, OneConsumer

LEMMA AttachIInv ==
  ASSUME IInv, NEW c \in Consumers, Attach(c)
  PROVE  IInv'
<1>1. "attached" \in Phases \ {"reading", "waiting"} /\ reconnects' \in Nat
  BY DEF Phases, Attach, IInv, TypeOK
<1> QED
  BY <1>1, DetachIInv DEF Attach

LEMMA FallBackIInv ==
  ASSUME IInv, NEW c \in Consumers, FallBack(c)
  PROVE  IInv'
<1>1. "anchored" \in Phases \ {"reading", "waiting"} /\ reconnects' \in Nat
  BY DEF Phases, FallBack, IInv, TypeOK
<1> QED
  BY <1>1, DetachIInv DEF FallBack

LEMMA ReconnectIInv ==
  ASSUME IInv, NEW c \in Consumers, Reconnect(c)
  PROVE  IInv'
<1>1. "anchored" \in Phases \ {"reading", "waiting"} /\ reconnects' \in Nat
  BY DEF Phases, Reconnect, IInv, TypeOK
<1> QED
  BY <1>1, DetachIInv DEF Reconnect

\* Reading the ring fetches exactly the events that are missing.
LEMMA ReadRingIInv ==
  ASSUME IInv, NEW c \in Consumers, ReadRing(c)
  PROVE  IInv'
<1>1. CASE Evicted(last[c])
  <2>1. "start" \in Phases \ {"reading", "waiting"} /\ reconnects' \in Nat
    BY DEF Phases, ReadRing, IInv, TypeOK
  <2> QED
    BY <1>1, <2>1, DetachIInv DEF ReadRing
<1>2. CASE ~ Evicted(last[c])
  <2> DEFINE n == last_cursor - last[c]
  <2>1. CursorsAfter(last[c]) = [i \in 1..n |-> last[c] + i]
    BY <1>2, ConsumerFacts, CursorsAfterShape
  <2>2. n \in Nat /\ last[c] + n = last_cursor
    BY ConsumerFacts
  <2>3. /\ pc' = [pc EXCEPT ![c] = "reading"]
        /\ replay' = [replay EXCEPT ![c] = CursorsAfter(last[c])]
        /\ pc[c] = "attached"
        /\ UNCHANGED <<ring, last_cursor, stage, last, live, lagged, dirty, reconnects>>
    BY <1>2 DEF ReadRing
  <2>4. OnlyChanges(c)
    BY <2>3 DEF IInv, TypeOK, OnlyChanges, FunctionShapes
  <2> HIDE DEF n
  <2>5. /\ CursorsAfter(last[c]) \in Seq(Nat) /\ Len(CursorsAfter(last[c])) = n
        /\ \A i \in 1..n : CursorsAfter(last[c])[i] = last[c] + i
    <3>1. \A i \in 1..n : last[c] + i \in Nat
      BY <2>2, ConsumerFacts
    <3> QED
      BY <2>1, <2>2, <3>1, IsASeq, LenProperties
  <2>6. /\ pc'[c] = "reading" /\ last'[c] = last[c]
        /\ replay'[c] = CursorsAfter(last[c]) /\ live'[c] = live[c]
        /\ lagged'[c] = lagged[c] /\ dirty'[c] = dirty[c]
        /\ last_cursor' = last_cursor /\ behind' = behind
    BY <2>3 DEF IInv, TypeOK, behind
  <2> HIDE DEF CursorsAfter
  <2>7. ConsumerInv(c)'
    <3>1. Receiving(c) /\ Receiving(c)'
      BY <2>3, <2>6 DEF Receiving
    <3>2. /\ last'[c] + Len(replay'[c]) <= last_cursor'
          /\ \A i \in 1..Len(replay'[c]) : replay'[c][i] = last'[c] + i
      BY <2>2, <2>5, <2>6, ConsumerFacts
    <3>3. last_cursor' <= last'[c] + Len(replay'[c]) + Len(live'[c]) + behind'
      BY <2>2, <2>5, <2>6, ConsumerFacts
    <3> QED
      BY <2>5, <2>6, <3>1, <3>2, <3>3, ConsumerFacts DEF ConsumerInv, Phases
  <2> QED
    BY <2>4, <2>7, OneConsumer
<1> QED
  BY <1>1, <1>2

LEMMA TakeReplayIInv ==
  ASSUME IInv, NEW c \in Consumers, TakeReplay(c)
  PROVE  IInv' /\ last' = [last EXCEPT ![c] = last[c] + 1]
              /\ last[c] + 1 <= last_cursor
<1> DEFINE q == replay[c]
<1>1. /\ q \in Seq(Nat) /\ q # << >> /\ Len(q) \in Nat
      /\ \A i \in 1..Len(q) : q[i] = last[c] + i
  BY ConsumerFacts DEF TakeReplay, ConsumerInv
<1>2. /\ Head(q) = last[c] + 1
      /\ Tail(q) \in Seq(Nat) /\ Len(Tail(q)) = Len(q) - 1 /\ Len(q) >= 1
      /\ \A i \in 1..Len(Tail(q)) : Tail(q)[i] = q[i + 1]
  <2> HIDE DEF q
  <2>1. Len(q) >= 1
    BY <1>1, EmptySeq
  <2> QED
    BY <1>1, <2>1, HeadTailProperties
<1>3. /\ last' = [last EXCEPT ![c] = last[c] + 1]
      /\ replay' = [replay EXCEPT ![c] = Tail(q)]
      /\ pc[c] = "reading"
      /\ UNCHANGED <<ring, last_cursor, stage, pc, live, lagged, dirty, reconnects>>
  <2>1. last[c] \in Nat
    BY ConsumerFacts
  <2>2. last[c] + 1 > last[c]
    BY <2>1
  <2> QED
    BY <1>2, <2>2 DEF TakeReplay, Process, IInv, TypeOK
<1>4. OnlyChanges(c)
  BY <1>3 DEF IInv, TypeOK, OnlyChanges, FunctionShapes
<1>5. /\ pc'[c] = pc[c] /\ last'[c] = last[c] + 1
      /\ replay'[c] = Tail(q) /\ live'[c] = live[c]
      /\ lagged'[c] = lagged[c] /\ dirty'[c] = dirty[c]
      /\ last_cursor' = last_cursor /\ behind' = behind
  BY <1>3 DEF IInv, TypeOK, behind
<1>6. ConsumerInv(c)'
  <2>1. last[c] + Len(q) <= last_cursor
    BY ConsumerFacts DEF ConsumerInv
  <2>2. Receiving(c) /\ Receiving(c)'
    BY <1>3, <1>5 DEF Receiving
  <2>3. c \in LiveConsumers /\ ~ lagged[c]
          => last_cursor <= last[c] + Len(q) + Len(live[c]) + behind
    BY <1>3, ConsumerFacts DEF ConsumerInv
  <2> HIDE DEF q
  <2>4. last'[c] + Len(replay'[c]) <= last_cursor'
    BY <1>1, <1>2, <1>5, <2>1, ConsumerFacts
  <2>5. \A i \in 1..Len(replay'[c]) : replay'[c][i] = last'[c] + i
    <3> SUFFICES ASSUME NEW i \in 1..Len(Tail(q))
                 PROVE  Tail(q)[i] = last[c] + 1 + i
      BY <1>5
    <3>1. i \in Nat /\ i + 1 \in 1..Len(q) /\ last[c] \in Nat
      BY <1>1, <1>2, ConsumerFacts
    <3>2. q[i + 1] = last[c] + (i + 1)
      BY <1>1, <3>1
    <3>3. Tail(q)[i] = q[i + 1]
      BY <1>2
    <3>4. \A x, j \in Nat : x + (j + 1) = x + 1 + j
      OBVIOUS
    <3> QED
      BY <3>1, <3>2, <3>3, <3>4
  <2>6. c \in LiveConsumers /\ ~ lagged'[c]
          => last_cursor' <= last'[c] + Len(replay'[c]) + Len(live'[c]) + behind'
    BY <1>1, <1>2, <1>5, <2>3, ConsumerFacts
  <2>7. ConsumerInv(c)
    BY ConsumerFacts
  <2>8. /\ pc'[c] \in Phases /\ last'[c] \in Nat
        /\ lagged'[c] \in BOOLEAN /\ dirty'[c] \in BOOLEAN
        /\ replay'[c] \in Seq(Nat) /\ live'[c] \in Seq(Nat)
        /\ Len(live'[c]) <= ChannelCap
    BY <1>2, <1>5, <2>7, ConsumerFacts DEF ConsumerInv
  <2>9. /\ Len(live'[c]) + behind' <= last_cursor'
        /\ \A i \in 1..Len(live'[c]) :
             live'[c][i] + Len(live'[c]) + behind' = last_cursor' + i
    BY <1>5, <2>7 DEF ConsumerInv
  <2>10. c \notin LiveConsumers => live'[c] = << >>
    BY <1>5, <2>7 DEF ConsumerInv
  <2>11. pc'[c] = "reading"
    BY <1>3, <1>5
  <2> QED
    BY <2>2, <2>4, <2>5, <2>6, <2>8, <2>9, <2>10, <2>11 DEF ConsumerInv
<1>7. last[c] + 1 <= last_cursor
  <2>1. last[c] + Len(q) <= last_cursor
    BY ConsumerFacts DEF ConsumerInv
  <2> HIDE DEF q
  <2> QED
    BY <1>1, <1>2, <2>1, ConsumerFacts
<1> QED
  BY <1>3, <1>4, <1>6, <1>7, OneConsumer

\* What a broadcast consumer receives is the next event or one it has seen.
LEMMA ReceiveIInv ==
  ASSUME IInv, NEW c \in Consumers, Receive(c)
  PROVE  IInv' /\ (last'[c] = last[c] \/ last'[c] = last[c] + 1)
              /\ last' = [last EXCEPT ![c] = last'[c]] /\ last'[c] <= last_cursor
<1> DEFINE q == live[c]
<1>1. /\ q \in Seq(Nat) /\ q # << >> /\ Len(q) \in Nat
      /\ \A i \in 1..Len(q) : q[i] \in Nat
      /\ \A i \in 1..Len(q) : q[i] + Len(q) + behind = last_cursor + i
      /\ Len(q) <= ChannelCap /\ Len(q) + behind <= last_cursor
  BY ConsumerFacts DEF Receive, ConsumerInv
<1>2. /\ c \in LiveConsumers /\ pc[c] = "reading" /\ ~ lagged[c]
      /\ replay[c] = << >> /\ Len(replay[c]) = 0
      /\ last' = [last EXCEPT ![c] = IF Head(q) > last[c] THEN Head(q) ELSE last[c]]
      /\ live' = [live EXCEPT ![c] = Tail(q)]
      /\ UNCHANGED <<ring, last_cursor, stage, pc, replay, lagged, dirty, reconnects>>
  BY EmptySeq DEF Receive, Process
<1>3. last_cursor <= last[c] + Len(q) + behind
  <2>1. last_cursor <= last[c] + Len(replay[c]) + Len(live[c]) + behind
    BY <1>2, ConsumerFacts DEF ConsumerInv
  <2> QED
    BY <1>2, <2>1, ConsumerFacts
<1> HIDE DEF q
<1>4. /\ Head(q) = q[1] /\ 1 \in 1..Len(q) /\ Len(q) >= 1
      /\ Tail(q) \in Seq(Nat) /\ Len(Tail(q)) = Len(q) - 1
      /\ \A i \in 1..Len(Tail(q)) : Tail(q)[i] = q[i + 1]
  <2>1. Len(q) >= 1
    BY <1>1, EmptySeq
  <2> QED
    BY <1>1, <2>1, HeadTailProperties
<1>5. PICK h \in Nat : Head(q) = h /\ h + Len(q) + behind = last_cursor + 1
  BY <1>1, <1>4
<1>6. h <= last[c] + 1 /\ h <= last_cursor
  BY <1>1, <1>3, <1>4, <1>5, ConsumerFacts
<1>7. /\ last'[c] = IF h > last[c] THEN h ELSE last[c]
      /\ pc'[c] = pc[c] /\ replay'[c] = replay[c] /\ live'[c] = Tail(q)
      /\ lagged'[c] = lagged[c] /\ dirty'[c] = dirty[c]
      /\ last_cursor' = last_cursor /\ behind' = behind
  BY <1>2, <1>5 DEF IInv, TypeOK, behind
<1>8. /\ last'[c] \in Nat /\ last'[c] >= h /\ last'[c] <= last_cursor
      /\ last'[c] = last[c] \/ last'[c] = last[c] + 1
  BY <1>6, <1>7, ConsumerFacts
<1>9. OnlyChanges(c)
  BY <1>2 DEF IInv, TypeOK, OnlyChanges, FunctionShapes
<1>10. ConsumerInv(c)'
  <2>1. Receiving(c) /\ Receiving(c)'
    BY <1>2, <1>7 DEF Receiving
  <2>2. /\ last'[c] + Len(replay'[c]) <= last_cursor'
        /\ \A i \in 1..Len(replay'[c]) : replay'[c][i] = last'[c] + i
    BY <1>2, <1>7, <1>8
  <2>3. Len(live'[c]) + behind' <= last_cursor' /\ Len(live'[c]) <= ChannelCap
    BY <1>1, <1>4, <1>7, ConsumerFacts, BridgeAssumption
  <2>4. \A i \in 1..Len(live'[c]) :
          live'[c][i] + Len(live'[c]) + behind' = last_cursor' + i
    <3> SUFFICES ASSUME NEW i \in 1..Len(Tail(q))
                 PROVE  Tail(q)[i] + Len(Tail(q)) + behind = last_cursor + i
      BY <1>7
    <3>1. i + 1 \in 1..Len(q) /\ i \in Nat
      BY <1>1, <1>4
    <3>2. q[i + 1] \in Nat /\ q[i + 1] + Len(q) + behind = last_cursor + (i + 1)
      BY <1>1, <3>1
    <3>3. Tail(q)[i] \in Nat /\ Tail(q)[i] + Len(q) + behind = last_cursor + (i + 1)
      BY <1>4, <3>2
    <3>4. \A x, n, b, m, j \in Nat : x + n + b = m + (j + 1) => x + (n - 1) + b = m + j
      OBVIOUS
    <3>5. Len(q) \in Nat /\ behind \in Nat /\ last_cursor \in Nat
      BY <1>1, ConsumerFacts
    <3>6. Tail(q)[i] + (Len(q) - 1) + behind = last_cursor + i
      BY <3>1, <3>3, <3>4, <3>5
    <3> QED
      BY <1>4, <3>6
  <2>5. last_cursor' <= last'[c] + Len(replay'[c]) + Len(live'[c]) + behind'
    <3>1. \A m, x, y, n, b \in Nat :
            x + n + b = m + 1 /\ y >= x => m <= y + 0 + (n - 1) + b
      OBVIOUS
    <3>2. last_cursor \in Nat /\ behind \in Nat
      BY ConsumerFacts
    <3>3. last_cursor <= last'[c] + 0 + (Len(q) - 1) + behind
      BY <1>1, <1>5, <1>8, <3>1, <3>2
    <3>4. Len(replay'[c]) = 0 /\ Len(live'[c]) = Len(q) - 1
      BY <1>2, <1>4, <1>7
    <3> QED
      BY <1>7, <3>3, <3>4
  <2> QED
    BY <1>2, <1>4, <1>7, <1>8, <2>1, <2>2, <2>3, <2>4, <2>5, ConsumerFacts DEF ConsumerInv
<1>11. last' = [last EXCEPT ![c] = last'[c]]
  BY <1>2 DEF IInv, TypeOK
<1> QED
  BY <1>8, <1>9, <1>10, <1>11, OneConsumer

\* A batch is the next events after the consumer's position.
LEMMA FetchIInv ==
  ASSUME IInv, NEW c \in Consumers, Fetch(c)
  PROVE  IInv'
<1>1. CASE Evicted(last[c])
  <2>1. "start" \in Phases \ {"reading", "waiting"} /\ reconnects' \in Nat
    BY DEF Phases, Fetch, IInv, TypeOK
  <2> QED
    BY <1>1, <2>1, DetachIInv DEF Fetch
<1>2. CASE ~ Evicted(last[c]) /\ CursorsAfter(last[c]) # << >>
  <2> DEFINE n == last_cursor - last[c]
             all == CursorsAfter(last[c])
  <2>1. all = [i \in 1..n |-> last[c] + i]
    BY <1>2, ConsumerFacts, CursorsAfterShape
  <2>2. n \in Nat /\ last[c] + n = last_cursor
    BY ConsumerFacts
  <2>3. /\ replay' = [replay EXCEPT ![c] = Batch(all)]
        /\ pc[c] = "reading" /\ c \in CursorConsumers
        /\ UNCHANGED <<ring, last_cursor, stage, pc, last, live, lagged, dirty, reconnects>>
    BY <1>2 DEF Fetch
  <2>4. OnlyChanges(c)
    BY <2>3 DEF IInv, TypeOK, OnlyChanges, FunctionShapes
  <2> HIDE DEF n
  <2>5. all \in Seq(Nat) /\ Len(all) = n /\ \A i \in 1..n : all[i] = last[c] + i
    <3>1. \A i \in 1..n : last[c] + i \in Nat
      BY <2>2, ConsumerFacts
    <3> QED
      BY <2>1, <2>2, <3>1, IsASeq, LenProperties
  <2> HIDE DEF all
  <2>6. PICK m \in 1..n : Batch(all) = SubSeq(all, 1, m)
    BY <1>2, <2>5, BatchIsPrefix DEF all
  <2>7. /\ Batch(all) \in Seq(Nat) /\ Len(Batch(all)) = m
        /\ \A i \in 1..m : Batch(all)[i] = last[c] + i
    <3>1. \A i \in 1..m : all[i] \in Nat /\ all[i] = last[c] + i
      BY <2>2, <2>5, <2>6, ConsumerFacts
    <3>2. SubSeq(all, 1, m) \in Seq(Nat) /\ Len(SubSeq(all, 1, m)) = m
            /\ \A i \in 1..m : SubSeq(all, 1, m)[i] = all[i]
      BY <2>2, <2>5, <2>6, <3>1, SubSeqProperties
    <3> QED
      BY <2>6, <3>1, <3>2
  <2>8. /\ pc'[c] = "reading" /\ last'[c] = last[c]
        /\ replay'[c] = Batch(all) /\ live'[c] = live[c]
        /\ lagged'[c] = lagged[c] /\ dirty'[c] = dirty[c]
        /\ last_cursor' = last_cursor /\ behind' = behind
    BY <2>3 DEF IInv, TypeOK, behind
  <2>9. c \notin LiveConsumers
    BY <2>3, BridgeAssumption
  <2>10. ConsumerInv(c)'
    <3>1. /\ last'[c] + Len(replay'[c]) <= last_cursor'
          /\ \A i \in 1..Len(replay'[c]) : replay'[c][i] = last'[c] + i
      BY <2>2, <2>6, <2>7, <2>8, ConsumerFacts
    <3> QED
      BY <2>7, <2>8, <2>9, <3>1, ConsumerFacts DEF ConsumerInv, Phases
  <2> QED
    BY <2>4, <2>10, OneConsumer
<1>3. CASE ~ Evicted(last[c]) /\ CursorsAfter(last[c]) = << >>
  <2>1. /\ pc' = [pc EXCEPT ![c] = "waiting"] /\ pc[c] = "reading" /\ replay[c] = << >>
        /\ c \notin LiveConsumers
        /\ UNCHANGED <<ring, last_cursor, stage, last, replay, live, lagged, dirty, reconnects>>
    BY <1>3, BridgeAssumption DEF Fetch
  <2>2. OnlyChanges(c)
    BY <2>1 DEF IInv, TypeOK, OnlyChanges, FunctionShapes
  <2>3. pc'[c] = "waiting" /\ behind' = behind
    BY <2>1 DEF IInv, TypeOK, behind
  <2>4. ConsumerInv(c)'
    BY <2>1, <2>3, ConsumerFacts DEF ConsumerInv, Phases, Receiving
  <2> QED
    BY <2>2, <2>4, OneConsumer
<1> QED
  BY <1>1, <1>2, <1>3

LEMMA WakeIInv ==
  ASSUME IInv, NEW c \in Consumers, Wake(c)
  PROVE  IInv'
<1>1. /\ pc[c] = "waiting" /\ pc' = [pc EXCEPT ![c] = "reading"]
      /\ dirty' = [dirty EXCEPT ![c] = FALSE]
      /\ UNCHANGED <<ring, last_cursor, stage, last, replay, live, lagged, reconnects>>
  BY DEF Wake
<1>2. OnlyChanges(c)
  BY <1>1 DEF IInv, TypeOK, OnlyChanges, FunctionShapes
<1>3. pc'[c] = "reading" /\ dirty'[c] = FALSE /\ behind' = behind
  BY <1>1 DEF IInv, TypeOK, behind
<1>4. c \notin LiveConsumers /\ live[c] = << >>
  BY <1>1, ConsumerFacts DEF ConsumerInv
<1>5. ConsumerInv(c)'
  BY <1>1, <1>3, <1>4, ConsumerFacts DEF ConsumerInv, Phases
<1> QED
  BY <1>2, <1>5, OneConsumer

LEMMA NextIInv == IInv /\ [Next]_vars => IInv'
<1> SUFFICES ASSUME IInv, [Next]_vars PROVE IInv'
  OBVIOUS
<1>1. ASSUME NEW size \in Sizes, PushRing(size) PROVE IInv'
  BY <1>1, PushRingIInv
<1>2. CASE Broadcast
  BY <1>2, BroadcastIInv
<1>3. CASE Signal
  BY <1>3, SignalIInv
<1>4. ASSUME NEW c \in Consumers, Consumer(c) PROVE IInv'
  BY <1>4, SnapshotIInv, AttachIInv, ReadRingIInv, TakeReplayIInv, ReceiveIInv,
     FallBackIInv, FetchIInv, WakeIInv DEF Consumer
<1>5. ASSUME NEW c \in Consumers, Reconnect(c) PROVE IInv'
  BY <1>5, ReconnectIInv
<1>6. CASE UNCHANGED vars
  BY <1>6 DEF vars, IInv, TypeOK, RingShape, RingIsTail, ReplayFollows, LiveIsTail,
     NoGap, OnlyReceiversHold, behind, Receiving
<1> QED
  BY <1>1, <1>2, <1>3, <1>4, <1>5, <1>6 DEF Next, Producer

\* The inductive invariant holds in every reachable state, whatever the
\* capacities, the consumers and the interleaving of push and subscribe.
THEOREM InductiveInvariant == Spec => []IInv
<1> QED
  BY InitIInv, NextIInv, PTL DEF Spec

-----------------------------------------------------------------------------
(* What follows from it *)

\* Every state is well formed and no receiver exceeds the broadcast channel's
\* capacity (bridge.rs BROADCAST_CAPACITY).
THEOREM TypeCorrect == Spec => []TypeOK
<1>1. IInv => TypeOK
  BY DEF IInv
<1> QED
  BY <1>1, InductiveInvariant, PTL

\* The ring is always the newest events, all of them, in order (bridge.rs push).
THEOREM RingAlwaysTail == Spec => []RingIsTail
<1>1. IInv => RingIsTail
  BY DEF IInv, RingShape
<1> QED
  BY <1>1, InductiveInvariant, PTL

\* A position is declared lost only when the event after it left the ring.
LEMMA EvictedIsGone ==
  ASSUME IInv, NEW c \in Consumers, Evicted(last[c])
  PROVE  last[c] < last_cursor /\ \A i \in DOMAIN ring : ring[i].cursor # last[c] + 1
<1>1. ring \in Seq(Envelope) /\ last_cursor \in Nat /\ last[c] \in Nat
      /\ last[c] <= last_cursor
  BY ConsumerFacts DEF IInv, TypeOK
<1>2. Len(ring) \in Nat /\ DOMAIN ring = 1..Len(ring)
  BY <1>1, LenProperties
<1>3. last[c] + Len(ring) < last_cursor
  BY <1>1, EvictedMeaning
<1>4. ASSUME NEW i \in DOMAIN ring PROVE ring[i].cursor # last[c] + 1
  <2>1. ring[i] \in Envelope
    BY <1>1, <1>2, ElementOfSeq
  <2>2. ring[i].cursor \in Nat /\ ring[i].cursor + Len(ring) = last_cursor + i
    BY <2>1 DEF Envelope, IInv, RingShape, RingIsTail
  <2> QED
    BY <1>1, <1>2, <1>3, <2>2
<1> QED
  BY <1>1, <1>2, <1>3, <1>4

\* Only a read of the ring that finds the position evicted sends a consumer
\* back to its snapshot.
LEMMA BackToStart ==
  ASSUME IInv, [Next]_vars, NEW c \in Consumers, pc[c] # "start", pc'[c] = "start"
  PROVE  Evicted(last[c]) /\ (ReadRing(c) \/ Fetch(c))
<1>1. ASSUME NEW d \in Consumers, Consumer(d) \/ Reconnect(d)
      PROVE  Evicted(last[c]) /\ (ReadRing(c) \/ Fetch(c))
  <2>1. pc \in [Consumers -> Phases]
    BY DEF IInv, TypeOK
  <2>2. CASE Snapshot(d) \/ Attach(d) \/ FallBack(d) \/ Wake(d) \/ Reconnect(d)
    BY <2>1, <2>2 DEF Snapshot, Attach, FallBack, Wake, Reconnect
  <2>3. CASE TakeReplay(d) \/ Receive(d)
    BY <2>3 DEF TakeReplay, Receive
  <2>4. CASE ReadRing(d)
    BY <2>1, <2>4 DEF ReadRing
  <2>5. CASE Fetch(d)
    BY <2>1, <2>5 DEF Fetch
  <2> QED
    BY <1>1, <2>2, <2>3, <2>4, <2>5 DEF Consumer
<1>2. CASE Producer
  BY <1>2 DEF Producer, PushRing, Broadcast, Signal, consumerVars
<1>3. CASE UNCHANGED vars
  BY <1>3 DEF vars
<1> QED
  BY <1>1, <1>2, <1>3 DEF Next

\* A consumer is told to resync only when its next event is gone (bridge.rs
\* subscribe_from and events_after return None).
THEOREM ResyncOnlyWhenNeeded == Spec => ResyncOnlyIfEvicted
<1>1. ASSUME IInv, [Next]_vars
      PROVE  [\A c \in Consumers :
                (pc[c] # "start" /\ pc'[c] = "start")
                  => /\ last[c] < last_cursor
                     /\ \A i \in DOMAIN ring : ring[i].cursor # last[c] + 1]_vars
  BY <1>1, BackToStart, EvictedIsGone
<1> QED
  BY <1>1, InductiveInvariant, PTL DEF Spec, ResyncOnlyIfEvicted

-----------------------------------------------------------------------------
(* The bridge implements the event stream *)

LEMMA InitImplements == Init => Stream!Init
BY DEF Init, Stream!Init

\* A push publishes one event.
LEMMA PushRingPublishes ==
  ASSUME IInv, NEW size \in Sizes, PushRing(size)
  PROVE  Stream!Publish
BY DEF PushRing, Stream!Publish, consumerVars

\* A snapshot synchronises the consumer.
LEMMA SnapshotSyncs ==
  ASSUME IInv, NEW c \in Consumers, Snapshot(c)
  PROVE  Stream!Sync(c)
BY DEF IInv, TypeOK, Snapshot, Stream!Sync

\* Telling a consumer to resync is falling behind, and it is behind.
LEMMA ResyncFallsBehind ==
  ASSUME IInv, NEW c \in Consumers, pc[c] # "start", Evicted(last[c]),
         pc' = [pc EXCEPT ![c] = "start"], UNCHANGED <<last_cursor, last>>
  PROVE  Stream!FallBehind(c)
BY EvictedIsGone DEF IInv, TypeOK, Stream!FallBehind

\* A step of a consumer that stays in sync and moves by no event is a stutter.
LEMMA StaysPut ==
  ASSUME IInv, NEW c \in Consumers, NEW p, pc[c] # "start", p # "start",
         pc' = [pc EXCEPT ![c] = p], UNCHANGED <<last_cursor, last>>
  PROVE  UNCHANGED Stream!vars
BY DEF IInv, TypeOK, Stream!vars

LEMMA ReadImplements ==
  ASSUME IInv, NEW c \in Consumers, ReadRing(c) \/ Fetch(c)
  PROVE  Stream!FallBehind(c) \/ UNCHANGED Stream!vars
<1>1. pc[c] # "start" /\ UNCHANGED <<last_cursor, last>>
  BY DEF ReadRing, Fetch
<1>2. \/ Evicted(last[c]) /\ pc' = [pc EXCEPT ![c] = "start"]
      \/ pc' = [pc EXCEPT ![c] = "reading"]
      \/ pc' = [pc EXCEPT ![c] = "waiting"]
      \/ UNCHANGED pc
  BY DEF ReadRing, Fetch
<1>3. CASE Evicted(last[c]) /\ pc' = [pc EXCEPT ![c] = "start"]
  BY <1>1, <1>3, ResyncFallsBehind
<1>4. CASE pc' = [pc EXCEPT ![c] = "reading"]
  BY <1>1, <1>4, StaysPut
<1>5. CASE pc' = [pc EXCEPT ![c] = "waiting"]
  BY <1>1, <1>5, StaysPut
<1>6. CASE UNCHANGED pc
  BY <1>1, <1>6 DEF Stream!vars
<1> QED
  BY <1>2, <1>3, <1>4, <1>5, <1>6

\* A consumer processes the next event, or one it has already processed.
LEMMA ProcessingDelivers ==
  ASSUME IInv, NEW c \in Consumers, TakeReplay(c) \/ Receive(c)
  PROVE  Stream!Deliver(c) \/ UNCHANGED Stream!vars
<1>1. /\ pc[c] = "reading" /\ UNCHANGED <<pc, last_cursor>>
  BY DEF TakeReplay, Receive
<1>2. /\ last' = [last EXCEPT ![c] = last'[c]] /\ last'[c] <= last_cursor
      /\ last'[c] = last[c] \/ last'[c] = last[c] + 1
  <2>1. CASE Receive(c)
    BY <2>1, ReceiveIInv
  <2>2. CASE TakeReplay(c)
    <3>1. last' = [last EXCEPT ![c] = last[c] + 1] /\ last[c] + 1 <= last_cursor
      BY <2>2, TakeReplayIInv
    <3> QED
      BY <3>1 DEF IInv, TypeOK
  <2> QED
    BY <2>1, <2>2
<1>3. last \in [Consumers -> Nat] /\ last_cursor \in Nat /\ last[c] \in Nat
  BY DEF IInv, TypeOK
<1>4. CASE last'[c] = last[c]
  <2>1. last' = last
    BY <1>2, <1>3, <1>4
  <2> QED
    BY <1>1, <2>1 DEF Stream!vars
<1>5. CASE last'[c] = last[c] + 1
  <2>1. last[c] < last_cursor /\ last' = [last EXCEPT ![c] = last[c] + 1]
    BY <1>2, <1>3, <1>5
  <2> QED
    BY <1>1, <2>1 DEF Stream!Deliver
<1> QED
  BY <1>2, <1>4, <1>5

LEMMA ConsumerImplements ==
  ASSUME IInv, NEW c \in Consumers, Consumer(c) \/ Reconnect(c)
  PROVE  [Stream!Next]_(Stream!vars)
<1>1. CASE Snapshot(c)
  BY <1>1, SnapshotSyncs DEF Stream!Next
<1>2. CASE Attach(c) \/ FallBack(c) \/ Wake(c) \/ Reconnect(c)
  <2>1. pc[c] # "start" /\ UNCHANGED <<last_cursor, last>>
    BY <1>2 DEF Attach, FallBack, Wake, Reconnect, Receiving
  <2>2. \/ pc' = [pc EXCEPT ![c] = "attached"]
        \/ pc' = [pc EXCEPT ![c] = "anchored"]
        \/ pc' = [pc EXCEPT ![c] = "reading"]
    BY <1>2 DEF Attach, FallBack, Wake, Reconnect
  <2> QED
    BY <2>1, <2>2, StaysPut
<1>3. CASE ReadRing(c) \/ Fetch(c)
  BY <1>3, ReadImplements DEF Stream!Next
<1>4. CASE TakeReplay(c) \/ Receive(c)
  BY <1>4, ProcessingDelivers DEF Stream!Next
<1> QED
  BY <1>1, <1>2, <1>3, <1>4 DEF Consumer

LEMMA NextImplements == IInv /\ [Next]_vars => [Stream!Next]_(Stream!vars)
<1> SUFFICES ASSUME IInv, [Next]_vars PROVE [Stream!Next]_(Stream!vars)
  OBVIOUS
<1>1. ASSUME NEW size \in Sizes, PushRing(size) PROVE Stream!Next
  BY <1>1, PushRingPublishes DEF Stream!Next
<1>2. CASE Broadcast \/ Signal \/ UNCHANGED vars
  BY <1>2 DEF Broadcast, Signal, vars, Stream!vars
<1>3. ASSUME NEW c \in Consumers, Consumer(c) \/ Reconnect(c)
      PROVE  [Stream!Next]_(Stream!vars)
  BY <1>3, ConsumerImplements
<1> QED
  BY <1>1, <1>2, <1>3 DEF Next, Producer

\* Every consumer sees the one stream in order and without gaps, unless it is
\* told to resync, for all ring limits, channel capacities, batch limits and
\* interleavings (bridge.rs, "rather than dropping events silently").
THEOREM BridgeImplementsStream == Spec => ImplementsStream
<1> QED
  BY InitImplements, NextImplements, InductiveInvariant, PTL
     DEF Spec, ImplementsStream, Stream!Spec
=============================================================================
