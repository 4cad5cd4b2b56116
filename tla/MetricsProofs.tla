---------------------------- MODULE MetricsProofs ----------------------------
(***************************************************************************)
(* What writing one metric, and writing several of them in order, does to  *)
(* the maps: the lemmas both repositories rest on.  Puts is recursive, and *)
(* the facts about it are proved by induction over the natural numbers,    *)
(* which is stated here with a set for the property, not an operator.      *)
(***************************************************************************)
EXTENDS Metrics, FiniteSetTheorems, TLAPS

\* The segments 1 .. n are ordered like their lengths, and finite sets are well
\* founded under inclusion.
LEMMA LeastNatural ==
    ASSUME NEW T \in SUBSET Nat, T # {}
    PROVE  \E n \in T : \A k \in T : ~(k < n)
<1> DEFINE Upto(n) == 1 .. n
           Uptos == {Upto(n) : n \in T}
<1>1. Uptos \subseteq FiniteSubsetsOf(Nat) /\ Uptos # {}
  <2>1. ASSUME NEW n \in T PROVE Upto(n) \in SUBSET Nat /\ IsFiniteSet(Upto(n))
    BY FS_Interval
  <2> QED
    BY <2>1 DEF FiniteSubsetsOf
<1>2. PICK U \in Uptos : \A V \in Uptos : <<V, U>> \notin StrictSubsetOrdering(Nat)
  <2> HIDE DEF Uptos
  <2> QED
    BY <1>1, FS_StrictSubsetOrderingWellFounded, WFMin
<1>3. PICK n \in T : U = Upto(n)
  OBVIOUS
<1>4. ASSUME NEW k \in T, k < n PROVE FALSE
  <2>1. n \in U /\ n \notin Upto(k)
    BY <1>3, <1>4
  <2>2. Upto(k) \subseteq U /\ Upto(k) # U /\ Upto(k) \in Uptos
    BY <1>3, <1>4, <2>1
  <2>3. Upto(k) \in SUBSET Nat /\ U \in SUBSET Nat
    BY <1>3
  <2> HIDE DEF Upto, Uptos
  <2>4. <<Upto(k), U>> \in StrictSubsetOrdering(Nat)
    BY <2>2, <2>3 DEF StrictSubsetOrdering
  <2> QED
    BY <1>2, <2>2, <2>4
<1> QED
  BY <1>3, <1>4

\* A set of natural numbers with 0 and the successors of its members has all.
LEMMA Induction ==
    ASSUME NEW T \in SUBSET Nat, 0 \in T, \A n \in T : n + 1 \in T
    PROVE  T = Nat
<1> SUFFICES ASSUME Nat \ T # {} PROVE FALSE
  OBVIOUS
<1>1. PICK n \in Nat \ T : \A k \in Nat \ T : ~(k < n)
  BY LeastNatural
<1>2. n # 0 /\ n - 1 \in Nat /\ n - 1 < n
  BY <1>1
<1>3. n - 1 \in T
  BY <1>1, <1>2
<1> QED
  BY <1>1, <1>2, <1>3

-----------------------------------------------------------------------------
\* int64 addition stays in the word.
LEMMA WrapInWord ==
    ASSUME NEW x \in Int
    PROVE  Wrap(x) \in Int64
<1>1. HalfRange \in Nat /\ HalfRange > 0
  BY MetricsAssumption
<1>2. 2 * HalfRange \in Nat /\ 2 * HalfRange > 0 /\ x + HalfRange \in Int
  BY <1>1
<1>3. (x + HalfRange) % (2 * HalfRange) \in 0 .. 2 * HalfRange - 1
  BY <1>2
<1> QED
  BY <1>1, <1>3 DEF Wrap, Int64

\* Writing a metric that has a value yields a value.
LEMMA WrittenInWord ==
    ASSUME NEW m \in Metric, m.type \in Kinds, m.val # Nil,
           NEW old \in Values
    PROVE  Written(m, old) \in Int64 /\ Written(m, old) \in Values
<1>1. m.val \in Int64 /\ Int64 \subseteq Int /\ Int64 \subseteq Values
  BY MetricsAssumption DEF Metric, Int64, Values
<1>2. CASE m.type = "gauge"
  BY <1>1, <1>2 DEF Written
<1>3. CASE m.type = "counter"
  <2> DEFINE base == IF old = Absent THEN 0 ELSE old
  <2>1. base \in Int
    <3>1. CASE old = Absent
      BY <3>1
    <3>2. CASE old # Absent
      <4>1. old \in Int
        BY <1>1, <3>2 DEF Values
      <4> QED
        BY <3>2, <4>1
    <3> QED
      BY <3>1, <3>2
  <2>0. m.val \in Int
    BY <1>1
  <2>2. Written(m, old) = Wrap(base + m.val)
    BY <1>3 DEF Written
  <2> HIDE DEF base
  <2>3. base + m.val \in Int
    BY <2>0, <2>1
  <2>4. Wrap(base + m.val) \in Int64
    BY <2>3, WrapInWord
  <2> QED
    BY <1>1, <2>2, <2>4
<1> QED
  BY <1>2, <1>3 DEF Kinds

\* Writing such a metric keeps the type of the maps.
LEMMA PutInMaps ==
    ASSUME NEW m \in Metric, m.type \in Kinds, m.val # Nil,
           NEW f \in [Keys -> Values]
    PROVE  Put(f, m) \in [Keys -> Values]
<1>1. Key(m) \in Keys
  BY DEF Key, Keys, Metric
<1>2. Written(m, f[Key(m)]) \in Values
  BY <1>1, WrittenInWord
<1> QED
  BY <1>1, <1>2 DEF Put

-----------------------------------------------------------------------------
\* The recursive definition of Puts has a solution: functions on 0 .. k that
\* satisfy it exist for every k.
LEMMA PutsDef ==
    ASSUME NEW maps, NEW ms, Len(ms) \in Nat
    PROVE  Puts(maps, ms) =
              [i \in 0 .. Len(ms) |->
                  IF i = 0 THEN maps ELSE PutKnown(Puts(maps, ms)[i - 1], ms[i])]
<1> DEFINE Step(g, i) == IF i = 0 THEN maps ELSE PutKnown(g[i - 1], ms[i])
           IsPuts(g, k) == g = [i \in 0 .. k |-> Step(g, i)]
           Made == {k \in Nat : \E g : IsPuts(g, k)}
<1>1. 0 \in Made
  <2> DEFINE g == [i \in 0 .. 0 |-> maps]
  <2>1. g = [i \in 0 .. 0 |-> Step(g, i)]
    OBVIOUS
  <2> QED
    BY <2>1
<1>2. ASSUME NEW k \in Made PROVE k + 1 \in Made
  <2>1. PICK g : IsPuts(g, k)
    OBVIOUS
  <2> DEFINE h == [i \in 0 .. k + 1 |-> IF i = k + 1 THEN PutKnown(g[k], ms[k + 1]) ELSE g[i]]
  <2>2. ASSUME NEW i \in 0 .. k + 1 PROVE h[i] = Step(h, i)
    <3>1. \A j \in 0 .. k : h[j] = g[j]
      OBVIOUS
    <3>2. CASE i \in 0 .. k
      <4>1. h[i] = g[i] /\ g[i] = Step(g, i) /\ (i # 0 => i - 1 \in 0 .. k)
        BY <2>1, <3>1, <3>2
      <4> QED
        BY <3>1, <4>1
    <3>3. CASE i = k + 1
      BY <3>1, <3>3
    <3> QED
      BY <3>2, <3>3
  <2>3. IsPuts(h, k + 1)
    BY <2>2
  <2> HIDE DEF IsPuts, h
  <2> QED
    BY <2>3
<1>3. \E g : IsPuts(g, Len(ms))
  <2> HIDE DEF IsPuts
  <2>1. Made = Nat
    BY <1>1, <1>2, Induction
  <2> QED
    BY <2>1
<1> QED
  BY <1>3 DEF Puts

\* Each metric is written over what the ones in front of it have left.
LEMMA PutsNext ==
    ASSUME NEW maps, NEW ms, Len(ms) \in Nat
    PROVE  /\ Puts(maps, ms)[0] = maps
           /\ \A i \in 0 .. Len(ms) - 1 :
                Puts(maps, ms)[i + 1] = PutKnown(Puts(maps, ms)[i], ms[i + 1])
<1> DEFINE P == Puts(maps, ms)
<1>1. P = [i \in 0 .. Len(ms) |-> IF i = 0 THEN maps ELSE PutKnown(P[i - 1], ms[i])]
  BY PutsDef
<1> HIDE DEF P
<1>2. P[0] = maps
  BY <1>1
<1>3. ASSUME NEW i \in 0 .. Len(ms) - 1
      PROVE  P[i + 1] = PutKnown(P[i], ms[i + 1])
  <2>1. i + 1 \in 0 .. Len(ms) /\ i + 1 # 0 /\ (i + 1) - 1 = i
    OBVIOUS
  <2> QED
    BY <1>1, <2>1
<1> QED
  BY <1>2, <1>3 DEF P

\* The first n of the metrics ms carry values, as far as they are known.
Valued(ms, n) == \A i \in 1 .. n : Known(ms[i]) => ms[i].val # Nil

\* Metrics with values keep the type of the maps.
LEMMA PutsInMaps ==
    ASSUME NEW maps \in [Keys -> Values], NEW ms \in Seq(Metric),
           NEW n \in 0 .. Len(ms), Valued(ms, n)
    PROVE  Puts(maps, ms)[n] \in [Keys -> Values]
<1> DEFINE P == Puts(maps, ms)
           Typed == {i \in Nat : i <= n => P[i] \in [Keys -> Values]}
<1>0. Len(ms) \in Nat
  OBVIOUS
<1>1. 0 \in Typed
  BY <1>0, PutsNext
<1>2. ASSUME NEW i \in Typed PROVE i + 1 \in Typed
  <2>1. SUFFICES ASSUME i + 1 <= n PROVE P[i + 1] \in [Keys -> Values]
    OBVIOUS
  <2>2. P[i] \in [Keys -> Values] /\ i \in 0 .. Len(ms) - 1
    BY <1>0, <2>1
  <2>3. P[i + 1] = PutKnown(P[i], ms[i + 1])
    BY <1>0, <2>2, PutsNext
  <2>4. ms[i + 1] \in Metric /\ (Known(ms[i + 1]) => ms[i + 1].val # Nil)
    BY <1>0, <2>1, <2>2 DEF Valued
  <2> HIDE DEF P
  <2> QED
    BY <2>2, <2>3, <2>4, PutInMaps DEF PutKnown, Known
<1>3. Typed = Nat
  <2> HIDE DEF Typed
  <2>1. Typed \subseteq Nat
    BY DEF Typed
  <2> QED
    BY <1>1, <1>2, <2>1, Induction
<1> QED
  BY <1>0, <1>3

\* Writing a metric changes the value under its key and no other.
LEMMA PutKnownAt ==
    ASSUME NEW f \in [Keys -> Values], NEW m \in Metric, NEW key \in Keys
    PROVE  PutKnown(f, m)[key] =
              IF Known(m) /\ Key(m) = key THEN Written(m, f[key]) ELSE f[key]
<1>1. CASE Known(m)
  BY <1>1 DEF PutKnown, Put
<1>2. CASE ~Known(m)
  BY <1>2 DEF PutKnown
<1> QED
  BY <1>1, <1>2

\* Two stores that agree on the keys R agree there after the same metrics, if
\* these have their keys in R.
LEMMA PutsLocal ==
    ASSUME NEW maps \in [Keys -> Values], NEW other \in [Keys -> Values],
           NEW ms \in Seq(Metric), NEW n \in 0 .. Len(ms), Valued(ms, n),
           NEW R \in SUBSET Keys, \A key \in R : maps[key] = other[key],
           \A i \in 1 .. n : Known(ms[i]) => Key(ms[i]) \in R
    PROVE  \A key \in R : Puts(maps, ms)[n][key] = Puts(other, ms)[n][key]
<1> DEFINE P == Puts(maps, ms)
           Q == Puts(other, ms)
           Same == {i \in Nat : i <= n => \A key \in R : P[i][key] = Q[i][key]}
<1>0. Len(ms) \in Nat
  OBVIOUS
<1>1. 0 \in Same
  BY <1>0, PutsNext
<1>2. ASSUME NEW i \in Same PROVE i + 1 \in Same
  <2>1. SUFFICES ASSUME i + 1 <= n, NEW key \in R PROVE P[i + 1][key] = Q[i + 1][key]
    OBVIOUS
  <2>2. /\ i \in 0 .. Len(ms) - 1 /\ i \in 0 .. Len(ms) /\ P[i][key] = Q[i][key]
        /\ ms[i + 1] \in Metric /\ Valued(ms, i)
    BY <1>0, <2>1 DEF Valued
  <2>3. P[i] \in [Keys -> Values] /\ Q[i] \in [Keys -> Values]
    BY <2>2, PutsInMaps
  <2>4. P[i + 1] = PutKnown(P[i], ms[i + 1]) /\ Q[i + 1] = PutKnown(Q[i], ms[i + 1])
    BY <1>0, <2>2, PutsNext
  <2> HIDE DEF P, Q
  <2>5. Known(ms[i + 1]) /\ Key(ms[i + 1]) = key
        => P[i + 1][key] = Written(ms[i + 1], P[i][key])
           /\ Q[i + 1][key] = Written(ms[i + 1], Q[i][key])
    BY <2>2, <2>3, <2>4, PutKnownAt
  <2>6. ~(Known(ms[i + 1]) /\ Key(ms[i + 1]) = key)
        => P[i + 1][key] = P[i][key] /\ Q[i + 1][key] = Q[i][key]
    BY <2>2, <2>3, <2>4, PutKnownAt
  <2> QED
    BY <2>2, <2>5, <2>6
<1>3. Same = Nat
  <2> HIDE DEF Same
  <2>1. Same \subseteq Nat
    BY DEF Same
  <2> QED
    BY <1>1, <1>2, <2>1, Induction
<1> QED
  BY <1>0, <1>3

\* Metrics leave the keys alone that none of them has.
LEMMA PutsElsewhere ==
    ASSUME NEW maps \in [Keys -> Values],
           NEW ms \in Seq(Metric), NEW n \in 0 .. Len(ms), Valued(ms, n),
           NEW key \in Keys, \A i \in 1 .. n : Known(ms[i]) => Key(ms[i]) # key
    PROVE  Puts(maps, ms)[n][key] = maps[key]
<1> DEFINE P == Puts(maps, ms)
           Kept == {i \in Nat : i <= n => P[i][key] = maps[key]}
<1>0. Len(ms) \in Nat
  OBVIOUS
<1>1. 0 \in Kept
  BY <1>0, PutsNext
<1>2. ASSUME NEW i \in Kept PROVE i + 1 \in Kept
  <2>1. SUFFICES ASSUME i + 1 <= n PROVE P[i + 1][key] = maps[key]
    OBVIOUS
  <2>2. /\ i \in 0 .. Len(ms) - 1 /\ i \in 0 .. Len(ms) /\ P[i][key] = maps[key]
        /\ ms[i + 1] \in Metric /\ Valued(ms, i) /\ i + 1 \in 1 .. n
    BY <1>0, <2>1 DEF Valued
  <2>3. P[i] \in [Keys -> Values]
    BY <2>2, PutsInMaps
  <2>4. P[i + 1] = PutKnown(P[i], ms[i + 1])
    BY <1>0, <2>2, PutsNext
  <2> HIDE DEF P
  <2> QED
    BY <2>2, <2>3, <2>4, PutKnownAt
<1>3. Kept = Nat
  <2> HIDE DEF Kept
  <2>1. Kept \subseteq Nat
    BY DEF Kept
  <2> QED
    BY <1>1, <1>2, <2>1, Induction
<1> QED
  BY <1>0, <1>3
=============================================================================
