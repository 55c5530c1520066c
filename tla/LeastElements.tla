--------------------------- MODULE LeastElements ---------------------------
(***************************************************************************)
(* Least and greatest elements of sets of numbers, and induction over the  *)
(* numbers as a fact about sets: what the other proofs need to reason      *)
(* about recursive functions, ranks and "the oldest" or "the newest" row.  *)
(* The principle is derived from the well-foundedness of strict inclusion  *)
(* on finite sets.  At the end, two facts about sequences.                 *)
(***************************************************************************)
EXTENDS Integers, Sequences, FiniteSets, SequencesExt, FiniteSetsExt,
        FiniteSetTheorems, SequenceTheorems, TLAPS

-----------------------------------------------------------------------------
(* Numbers *)

\* A set of numbers that is not empty has a least element.
LEMMA LeastNat ==
  ASSUME NEW T, T \subseteq Nat, T # {}
  PROVE  \E n \in T : \A m \in T : n <= m
<1> DEFINE W == {0 .. n : n \in T}
           R == StrictSubsetOrdering(Nat)
           F == FiniteSubsetsOf(Nat)
<1>1. IsWellFoundedOn(R, F)
  BY FS_StrictSubsetOrderingWellFounded
<1>2. \A n \in Nat : IsFiniteSet(0 .. n)
  BY FS_Interval
<1>3. W \subseteq F
  BY <1>2 DEF FiniteSubsetsOf
<1>4. W # {}
  OBVIOUS
<1>5. PICK w \in W : \A v \in W : ~ (<<v, w>> \in R)
  <2> HIDE DEF W, R, F
  <2> QED
    BY <1>1, <1>3, <1>4, WFMin
<1>6. PICK n \in T : w = 0 .. n
  OBVIOUS
<1>7. ASSUME NEW m \in T
      PROVE  n <= m
  <2>1. SUFFICES ASSUME m < n PROVE FALSE
    OBVIOUS
  <2>2. 0 .. m \in W /\ 0 .. m \subseteq 0 .. n /\ 0 .. m # 0 .. n
    BY <2>1
  <2>3. <<0 .. m, w>> \in R
    BY <2>2, <1>6, <1>3 DEF StrictSubsetOrdering
  <2> QED
    BY <2>2, <2>3, <1>5
<1> QED
  BY <1>7

\* Induction: a set with 0 and the successors of its elements has all numbers.
LEMMA SetInduction ==
  ASSUME NEW T, 0 \in T, \A n \in Nat : n \in T => n + 1 \in T
  PROVE  Nat \subseteq T
<1>1. SUFFICES ASSUME NEW x \in Nat, x \notin T PROVE FALSE
  OBVIOUS
<1> DEFINE M == Nat \ T
<1>2. M \subseteq Nat /\ M # {}
  BY <1>1
<1>3. PICK n \in M : \A m \in M : n <= m
  <2> HIDE DEF M
  <2> QED
    BY <1>2, LeastNat
<1>4. n \in Nat /\ n # 0 /\ n - 1 \in Nat /\ n - 1 \notin M
  BY <1>3
<1> QED
  BY <1>3, <1>4

\* The same with all smaller numbers at hand.
LEMMA StrongInduction ==
  ASSUME NEW T, \A n \in Nat : (\A m \in 0 .. n - 1 : m \in T) => n \in T
  PROVE  Nat \subseteq T
<1>1. SUFFICES ASSUME NEW x \in Nat, x \notin T PROVE FALSE
  OBVIOUS
<1> DEFINE M == Nat \ T
<1>2. M \subseteq Nat /\ M # {}
  BY <1>1
<1>3. PICK n \in M : \A m \in M : n <= m
  <2> HIDE DEF M
  <2> QED
    BY <1>2, LeastNat
<1>4. n \in Nat /\ n \notin T /\ \A m \in 0 .. n - 1 : m \in T
  <2>1. n \in Nat /\ n \notin T
    OBVIOUS
  <2>2. ASSUME NEW m \in 0 .. n - 1
        PROVE  m \in T
    <3>1. m \in Nat /\ ~ (n <= m)
      BY <2>1
    <3> QED
      BY <1>3, <3>1
  <2> QED
    BY <2>1, <2>2
<1> QED
  BY <1>3, <1>4

\* A set of numbers with an upper bound has a greatest element.
LEMMA GreatestNat ==
  ASSUME NEW T, NEW b \in Nat, T \subseteq 0 .. b, T # {}
  PROVE  \E n \in T : \A m \in T : m <= n
<1> DEFINE U == {b - n : n \in T}
<1>1. U \subseteq Nat /\ U # {}
  <2>1. \A n \in 0 .. b : b - n \in Nat
    OBVIOUS
  <2> QED
    BY <2>1
<1>2. PICK u \in U : \A v \in U : u <= v
  <2> HIDE DEF U
  <2> QED
    BY <1>1, LeastNat
<1>3. PICK n \in T : u = b - n
  OBVIOUS
<1>4. ASSUME NEW m \in T
      PROVE  m <= n
  <2>1. b - m \in U
    OBVIOUS
  <2> QED
    BY <1>2, <1>3, <2>1
<1> QED
  BY <1>4

LEMMA MinFacts ==
  ASSUME NEW T, T \subseteq Nat, T # {}
  PROVE  Min(T) \in T /\ \A m \in T : Min(T) <= m
BY LeastNat DEF Min

LEMMA MaxFacts ==
  ASSUME NEW T, NEW b \in Nat, T \subseteq 0 .. b, T # {}
  PROVE  Max(T) \in T /\ \A m \in T : m <= Max(T)
<1>1. \E n \in T : \A m \in T : n >= m
  BY GreatestNat
<1> QED
  BY <1>1 DEF Max

\* The elements of an interval, and of its subsets, are finitely many.
LEMMA FiniteRange ==
  ASSUME NEW b \in Nat, NEW T, T \subseteq 0 .. b
  PROVE  /\ IsFiniteSet(T) /\ Cardinality(T) \in Nat
         /\ (Cardinality(T) = 0 <=> T = {})
         /\ \A U : U \subseteq T => /\ IsFiniteSet(U) /\ Cardinality(U) \in Nat
                                    /\ Cardinality(U) <= Cardinality(T)
                                    /\ (U # T => Cardinality(U) < Cardinality(T))
<1>1. IsFiniteSet(T)
  <2>1. IsFiniteSet(0 .. b) /\ T \in SUBSET (0 .. b)
    BY FS_Interval
  <2> QED
    BY <2>1, FS_Subset
<1>2. Cardinality(T) \in Nat
  BY <1>1, FS_CardinalityType
<1>3. ASSUME NEW U, U \subseteq T
      PROVE  /\ IsFiniteSet(U) /\ Cardinality(U) \in Nat
             /\ Cardinality(U) <= Cardinality(T)
             /\ (U # T => Cardinality(U) < Cardinality(T))
  <2>1. /\ IsFiniteSet(U) /\ Cardinality(U) <= Cardinality(T)
        /\ (Cardinality(T) = Cardinality(U) => T = U)
    BY <1>1, <1>3, FS_Subset
  <2>2. Cardinality(U) \in Nat
    BY <2>1, FS_CardinalityType
  <2> QED
    BY <1>2, <2>1, <2>2
<1> QED
  BY <1>1, <1>2, <1>3, FS_EmptySet

-----------------------------------------------------------------------------
(* Sequences *)

\* A function on 1 .. n is a sequence.
LEMMA FunctionIsSeq ==
  ASSUME NEW X, NEW n \in Nat, NEW f \in [1 .. n -> X]
  PROVE  f \in Seq(X) /\ Len(f) = n /\ DOMAIN f = 1 .. n
<1>1. f \in Seq(X) /\ DOMAIN f = 1 .. n
  BY SeqDef
<1> QED
  BY <1>1, LenProperties

\* One more at the end.
LEMMA OneMore ==
  ASSUME NEW X, NEW q \in Seq(X), NEW x \in X
  PROVE  /\ Append(q, x) \in Seq(X) /\ Len(Append(q, x)) = Len(q) + 1
         /\ DOMAIN Append(q, x) = 1 .. Len(q) + 1 /\ DOMAIN q = 1 .. Len(q)
         /\ Append(q, x)[Len(q) + 1] = x
         /\ \A k \in 1 .. Len(q) : Append(q, x)[k] = q[k]
         /\ Len(q) \in Nat
BY AppendProperties, LenProperties

\* One less at the end.
LEMMA AllButLast ==
  ASSUME NEW X, NEW q \in Seq(X), q # << >>
  PROVE  /\ Front(q) \in Seq(X) /\ Len(Front(q)) = Len(q) - 1
         /\ DOMAIN Front(q) = 1 .. Len(q) - 1 /\ DOMAIN q = 1 .. Len(q)
         /\ \A k \in 1 .. Len(q) - 1 : Front(q)[k] = q[k]
         /\ Len(q) \in Nat \ {0} /\ Last(q) = q[Len(q)]
<1>1. Len(q) \in Nat \ {0} /\ DOMAIN q = 1 .. Len(q)
  BY LenProperties, EmptySeq
<1>2. PICK m \in Nat : Len(q) = m + 1
  <2>1. Len(q) - 1 \in Nat /\ Len(q) = (Len(q) - 1) + 1
    BY <1>1
  <2> QED
    BY <2>1
<1>3. Len(q) - 1 = m /\ 1 .. m \subseteq 1 .. Len(q)
  BY <1>2
<1>4. \A i \in 1 .. m : q[i] \in X
  BY <1>3, ElementOfSeq
<1>5. Front(q) = SubSeq(q, 1, m)
  BY <1>3 DEF Front
<1>6. /\ SubSeq(q, 1, m) \in Seq(X)
      /\ Len(SubSeq(q, 1, m)) = IF 1 <= m THEN m - 1 + 1 ELSE 0
      /\ \A i \in 1 .. m - 1 + 1 : SubSeq(q, 1, m)[i] = q[1 + i - 1]
  BY <1>4, SubSeqProperties, 1 \in Int, m \in Int
<1> DEFINE r == SubSeq(q, 1, m)
<1> HIDE DEF r
<1>7. /\ r \in Seq(X) /\ Len(r) = IF 1 <= m THEN m - 1 + 1 ELSE 0
      /\ \A i \in 1 .. m - 1 + 1 : r[i] = q[1 + i - 1]
  BY <1>6 DEF r
<1>8. Len(r) = m
  BY <1>7
<1>9. DOMAIN r = 1 .. m
  BY <1>7, <1>8, LenProperties
<1>10. ASSUME NEW k \in 1 .. m
       PROVE  r[k] = q[k]
  <2>1. k \in 1 .. m - 1 + 1 /\ 1 + k - 1 = k
    OBVIOUS
  <2> QED
    BY <1>7, <2>1
<1> QED
  BY <1>1, <1>3, <1>5, <1>7, <1>8, <1>9, <1>10 DEF Last, r

-----------------------------------------------------------------------------
(* Ranks *)

\* A finite set of numbers has an n-th element for each n up to its size.
LEMMA Ranked ==
  ASSUME NEW b \in Nat
  PROVE  \A T \in SUBSET (0 .. b) : \A n \in 1 .. Cardinality(T) :
           \E i \in T : Cardinality({j \in T : j <= i}) = n
<1> DEFINE Good(T) == \A n \in 1 .. Cardinality(T) :
                        \E i \in T : Cardinality({j \in T : j <= i}) = n
           G == {c \in Nat : \A T \in SUBSET (0 .. c - 1) : Good(T)}
<1>1. 0 \in G
  <2>1. \A T \in SUBSET (0 .. 0 - 1) : T = {}
    OBVIOUS
  <2>2. ASSUME NEW T \in SUBSET (0 .. 0 - 1)
        PROVE  Good(T)
    <3>1. Cardinality(T) = 0
      BY <2>1, FS_EmptySet
    <3> QED
      BY <3>1
  <2> QED
    BY <2>2
<1>2. ASSUME NEW c \in Nat, c \in G
      PROVE  c + 1 \in G
  <2> SUFFICES ASSUME NEW T \in SUBSET (0 .. c), NEW n \in 1 .. Cardinality(T)
               PROVE  \E i \in T : Cardinality({j \in T : j <= i}) = n
    BY (c + 1) - 1 = c
  <2> DEFINE V == T \ {c}
  <2>1. /\ IsFiniteSet(T) /\ Cardinality(T) \in Nat
        /\ V \in SUBSET (0 .. c - 1) /\ Cardinality(V) \in Nat
    <3> HIDE DEF Good
    <3>1. V \subseteq T /\ V \subseteq 0 .. c - 1
      OBVIOUS
    <3> HIDE DEF V
    <3> QED
      BY <3>1, FiniteRange
  <2>2. Good(V)
    BY <1>2, <2>1
  <2>3. CASE c \notin T
    <3>1. V = T
      BY <2>3
    <3> QED
      BY <2>2, <3>1
  <2>4. CASE c \in T
    <3>1. Cardinality(V) = Cardinality(T) - 1
      BY <2>1, <2>4, FS_RemoveElement
    <3>2. CASE n = Cardinality(T)
      <4>1. {j \in T : j <= c} = T
        <5>1. \A j \in T : j <= c
          OBVIOUS
        <5> HIDE DEF Good
        <5> QED
          BY <5>1
      <4> QED
        BY <2>4, <3>2, <4>1
    <3>3. CASE n \in 1 .. Cardinality(V)
      <4>1. PICK i \in V : Cardinality({j \in V : j <= i}) = n
        BY <2>2, <3>3
      <4>2. {j \in T : j <= i} = {j \in V : j <= i}
        BY <2>1, <4>1
      <4> QED
        BY <4>1, <4>2
    <3> QED
      BY <2>1, <3>1, <3>2, <3>3
  <2> QED
    BY <2>3, <2>4
<1>3. Nat \subseteq G
  <2> HIDE DEF G
  <2> QED
    BY <1>1, <1>2, SetInduction
<1>4. b + 1 \in G /\ (b + 1) - 1 = b
  BY <1>3
<1> QED
  BY <1>4

-----------------------------------------------------------------------------
(* Sequences *)

\* A queue without its head.
LEMMA TailFacts ==
  ASSUME NEW X, NEW q \in Seq(X), q # << >>
  PROVE  /\ Tail(q) \in Seq(X) /\ Len(q) \in Nat \ {0} /\ Len(Tail(q)) = Len(q) - 1
         /\ DOMAIN q = 1 .. Len(q) /\ DOMAIN Tail(q) = 1 .. Len(q) - 1
         /\ Head(q) = q[1] /\ q[1] \in X
         /\ \A i \in 1 .. Len(q) - 1 : Tail(q)[i] = q[i + 1]
<1>1. Len(q) \in Nat \ {0} /\ DOMAIN q = 1 .. Len(q)
  BY EmptySeq, LenProperties
<1>2. /\ Tail(q) \in Seq(X) /\ Len(Tail(q)) = Len(q) - 1
      /\ \A i \in 1 .. Len(Tail(q)) : Tail(q)[i] = q[i + 1]
  BY HeadTailProperties
<1>3. DOMAIN Tail(q) = 1 .. Len(Tail(q))
  BY <1>2, LenProperties
<1>4. q[1] \in X /\ Head(q) = q[1]
  <2>1. 1 \in 1 .. Len(q)
    BY <1>1
  <2> QED
    BY <2>1, ElementOfSeq
<1> QED
  BY <1>1, <1>2, <1>3, <1>4

\* A sequence followed by another.
LEMMA ConcatFacts ==
  ASSUME NEW X, NEW q \in Seq(X), NEW r \in Seq(X)
  PROVE  /\ q \o r \in Seq(X) /\ Len(q) \in Nat /\ Len(r) \in Nat
         /\ Len(q \o r) = Len(q) + Len(r)
         /\ DOMAIN q = 1 .. Len(q) /\ DOMAIN r = 1 .. Len(r)
         /\ DOMAIN (q \o r) = 1 .. Len(q) + Len(r)
         /\ \A i \in 1 .. Len(q) : (q \o r)[i] = q[i]
         /\ \A i \in 1 .. Len(r) : (q \o r)[Len(q) + i] = r[i]
         /\ \A i \in Len(q) + 1 .. Len(q) + Len(r) : (q \o r)[i] = r[i - Len(q)]
<1>1. /\ Len(q) \in Nat /\ Len(r) \in Nat /\ DOMAIN q = 1 .. Len(q) /\ DOMAIN r = 1 .. Len(r)
  BY LenProperties
<1> DEFINE c == q \o r
<1>2. /\ c \in Seq(X) /\ Len(c) = Len(q) + Len(r)
      /\ \A i \in 1 .. Len(q) + Len(r) : c[i] = IF i <= Len(q) THEN q[i] ELSE r[i - Len(q)]
  BY ConcatProperties
<1>3. DOMAIN c = 1 .. Len(c)
  BY <1>2, LenProperties
<1> HIDE DEF c
<1>4. \A i \in 1 .. Len(r) : c[Len(q) + i] = r[i]
  <2> SUFFICES ASSUME NEW i \in 1 .. Len(r)
               PROVE  c[Len(q) + i] = r[i]
    OBVIOUS
  <2>1. Len(q) + i \in 1 .. Len(q) + Len(r) /\ ~ (Len(q) + i <= Len(q)) /\ (Len(q) + i) - Len(q) = i
    BY <1>1
  <2> QED
    BY <1>2, <2>1
<1> QED
  BY <1>1, <1>2, <1>3, <1>4 DEF c
=============================================================================
