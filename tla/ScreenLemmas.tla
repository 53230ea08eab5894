---------------------------- MODULE ScreenLemmas ----------------------------
(***************************************************************************)
(* The promises of ScreenPromises, for every text, every menu and every    *)
(* capacity in the proportions of the code's.                              *)
(*                                                                         *)
(* A recursive function is a CHOOSE; that there is something to choose is  *)
(* shown once, for every recursion whose measure decreases.                *)
(***************************************************************************)
EXTENDS ScreenPromises, FiniteSetTheorems, SequenceTheorems, WellFoundedInduction, TLAPS

----------------------------------------------------------------------------
(* Induction, and functions defined by recursion *)

\* What holds of zero, and of n + 1 if it holds of n, holds of every number.
LEMMA Induction ==
  ASSUME NEW S, 0 \in S, \A n \in Nat : n \in S => n + 1 \in S
  PROVE  \A n \in Nat : n \in S
<1> DEFINE R == OpToRel(<, Nat)
           rest == Nat \ S
<1> SUFFICES ASSUME rest # {} PROVE FALSE
  OBVIOUS
<1>1. PICK m \in rest : \A n \in rest : <<n, m>> \notin R
  BY NatLessThanWellFounded, WFMin, Zenon
<1>2. m \in Nat /\ m \notin S /\ m # 0 /\ m - 1 \in Nat /\ m - 1 < m
  <2> HIDE DEF R
  <2>1. m \in Nat /\ m \notin S
    BY <1>1
  <2> QED
    BY <2>1
<1>3. m - 1 \in S
  <2>1. ASSUME m - 1 \notin S PROVE FALSE
    <3>1. m - 1 \in rest
      BY <1>2, <2>1
    <3>2. <<m - 1, m>> \notin R
      BY <1>1, <3>1
    <3> QED
      BY <1>2, <3>2 DEF OpToRel
  <2> QED
    BY <2>1
<1>4. m - 1 + 1 \in S
  BY <1>2, <1>3
<1> QED
  BY <1>2, <1>4

\* The same up to a bound.
LEMMA InductionTo ==
  ASSUME NEW N \in Nat, NEW S, 0 \in S,
         \A n \in 0 .. N : n \in S /\ n < N => n + 1 \in S
  PROVE  \A n \in 0 .. N : n \in S
<1> DEFINE T == {n \in Nat : n <= N => n \in S}
<1>1. 0 \in T
  OBVIOUS
<1>2. \A n \in Nat : n \in T => n + 1 \in T
  OBVIOUS
<1> HIDE DEF T
<1>3. \A n \in Nat : n \in T
  BY <1>1, <1>2, Induction
<1> QED
  BY <1>3 DEF T

LEMMA LeastOf ==
  ASSUME NEW S \in SUBSET Nat, S # {}
  PROVE  \E m \in S : \A n \in S : m <= n
<1> DEFINE R == OpToRel(<, Nat)
<1>1. PICK m \in S : \A n \in S : <<n, m>> \notin R
  BY NatLessThanWellFounded, WFMin, Zenon
<1>2. ASSUME NEW n \in S PROVE m <= n
  <2>1. ~(n < m)
    BY <1>1, Zenon DEF OpToRel
  <2> QED
    BY <2>1
<1> QED
  BY <1>2

LEMMA GreatestOf ==
  ASSUME NEW N \in Nat, NEW S \in SUBSET (0 .. N), S # {}
  PROVE  \E m \in S : \A n \in S : n <= m
<1> DEFINE T == {N - n : n \in S}
<1>1. T \in SUBSET Nat /\ T # {}
  <2>1. \A n \in S : N - n \in Nat
    OBVIOUS
  <2> QED
    BY <2>1
<1>2. PICK t \in T : \A n \in T : t <= n
  BY <1>1, LeastOf
<1>3. PICK m \in S : t = N - m
  BY <1>2
<1>4. ASSUME NEW n \in S PROVE n <= m
  <2>1. N - m <= N - n
    BY <1>2, <1>3
  <2> QED
    BY <2>1
<1> QED
  BY <1>4

\* What holds of everything if it holds of all that measures less.
LEMMA MeasureInduction ==
  ASSUME NEW D, NEW m \in [D -> Nat], NEW S,
         \A d \in D : (\A e \in D : m[e] < m[d] => e \in S) => d \in S
  PROVE  D \subseteq S
<1> DEFINE T == {n \in Nat : \A d \in D : m[d] < n => d \in S}
<1>1. 0 \in T
  OBVIOUS
<1>2. \A n \in Nat : n \in T => n + 1 \in T
  OBVIOUS
<1> HIDE DEF T
<1>3. \A n \in Nat : n \in T
  BY <1>1, <1>2, Induction
<1>4. ASSUME NEW d \in D PROVE d \in S
  <2>1. m[d] + 1 \in T
    BY <1>3
  <2> QED
    BY <2>1 DEF T
<1> QED
  BY <1>4

(***************************************************************************)
(* A function is defined by its values at smaller arguments: there is one  *)
(* that satisfies the equation, with values in V.  G gives the value at an *)
(* argument from a function that is right at the smaller ones.             *)
(***************************************************************************)
IsRecursion(D, V, m, N, G) ==
  /\ V # {} /\ N \in Nat
  /\ m \in [D -> Nat] /\ \A d \in D : m[d] < N
  /\ G \in [D \X [D -> V] -> V]
  /\ \A d \in D : \A f, g \in [D -> V] :
       (\A e \in D : m[e] < m[d] => f[e] = g[e]) => G[<<d, f>>] = G[<<d, g>>]

LEMMA RecursionIsSound ==
  ASSUME NEW D, NEW V, NEW m, NEW N, NEW G, IsRecursion(D, V, m, N, G)
  PROVE  \E f \in [D -> V] : \A d \in D : f[d] = G[<<d, f>>]
<1> USE DEF IsRecursion
<1> DEFINE Right(f, n) == \A d \in D : m[d] < n => f[d] = G[<<d, f>>]
           S == {n \in Nat : \E f \in [D -> V] : Right(f, n)}
<1>1. 0 \in S
  <2>1. PICK v \in V : TRUE
    OBVIOUS
  <2>2. [d \in D |-> v] \in [D -> V]
    BY <2>1
  <2>3. \A f : Right(f, 0)
    OBVIOUS
  <2> QED
    BY <2>2, <2>3, Zenon
<1>2. ASSUME NEW n \in Nat, n \in S PROVE n + 1 \in S
  <2>1. PICK f \in [D -> V] : Right(f, n)
    BY <1>2
  <2> DEFINE g == [d \in D |-> IF m[d] < n THEN f[d] ELSE G[<<d, f>>]]
  <2>2. \A d \in D : G[<<d, f>>] \in V
    OBVIOUS
  <2>3. g \in [D -> V]
    BY <2>2
  <2>4. ASSUME NEW d \in D, m[d] < n + 1 PROVE g[d] = G[<<d, g>>]
    <3>1. g[d] = G[<<d, f>>]
      BY <2>1
    <3>2. \A e \in D : m[e] < m[d] => f[e] = g[e]
      BY <2>4
    <3> HIDE DEF g
    <3> QED
      BY <2>3, <3>1, <3>2
  <2> HIDE DEF g
  <2>5. Right(g, n + 1)
    BY <2>4
  <2> QED
    BY <2>3, <2>5
<1> HIDE DEF S
<1>3. N \in S
  BY <1>1, <1>2, Induction
<1>4. PICK f \in [D -> V] : Right(f, N)
  BY <1>3 DEF S
<1> QED
  BY <1>4

----------------------------------------------------------------------------
(* Texts *)

LEMMA TakeIs ==
  ASSUME NEW Rune, NEW s \in Seq(Rune), NEW n \in 0 .. Len(s)
  PROVE  /\ Take(s, n) \in Seq(Rune)
         /\ Len(Take(s, n)) = n
         /\ \A i \in 1 .. n : Take(s, n)[i] = s[i]
<1>1. \A i \in 1 .. n : s[i] \in Rune
  OBVIOUS
<1>2. n \in Int /\ 1 \in Int /\ n - 1 + 1 = n
  OBVIOUS
<1>3. /\ SubSeq(s, 1, n) \in Seq(Rune)
      /\ Len(SubSeq(s, 1, n)) = IF 1 <= n THEN n - 1 + 1 ELSE 0
      /\ \A i \in 1 .. n - 1 + 1 : SubSeq(s, 1, n)[i] = s[1 + i - 1]
  BY <1>1, <1>2, SubSeqProperties
<1> QED
  BY <1>3 DEF Take

LEMMA TakeTake ==
  ASSUME NEW Rune, NEW s \in Seq(Rune), NEW n \in 0 .. Len(s), NEW k \in 0 .. n
  PROVE  Take(Take(s, n), k) = Take(s, k)
<1>1. k \in 0 .. Len(s) /\ Take(s, n) \in Seq(Rune) /\ Len(Take(s, n)) = n
  BY TakeIs
<1>2. /\ Take(Take(s, n), k) \in Seq(Rune) /\ Len(Take(Take(s, n), k)) = k
      /\ \A i \in 1 .. k : Take(Take(s, n), k)[i] = Take(s, n)[i]
  BY <1>1, TakeIs
<1>3. /\ Take(s, k) \in Seq(Rune) /\ Len(Take(s, k)) = k
      /\ \A i \in 1 .. k : Take(s, k)[i] = s[i]
  BY <1>1, TakeIs
<1>4. \A i \in 1 .. n : Take(s, n)[i] = s[i]
  BY TakeIs
<1>5. \A i \in 1 .. k : Take(Take(s, n), k)[i] = Take(s, k)[i]
  BY <1>2, <1>3, <1>4
<1> QED
  BY <1>2, <1>3, <1>5, SeqEqual

LEMMA TakeAll ==
  ASSUME NEW Rune, NEW s \in Seq(Rune)
  PROVE  Take(s, Len(s)) = s
BY SubSeqFull DEF Take

LEMMA TakeNone ==
  ASSUME NEW Rune, NEW s \in Seq(Rune)
  PROVE  Take(s, 0) = <<>>
BY SubSeqEmpty DEF Take

LEMMA TakeOfConcat ==
  ASSUME NEW Rune, NEW s \in Seq(Rune), NEW t \in Seq(Rune), NEW n \in 0 .. Len(s)
  PROVE  Take(s \o t, n) = Take(s, n)
<1>1. s \o t \in Seq(Rune) /\ n \in 0 .. Len(s \o t)
      /\ \A i \in 1 .. n : (s \o t)[i] = s[i]
  BY ConcatProperties
<1>2. /\ Take(s \o t, n) \in Seq(Rune) /\ Len(Take(s \o t, n)) = n
      /\ \A i \in 1 .. n : Take(s \o t, n)[i] = (s \o t)[i]
  BY <1>1, TakeIs
<1>3. /\ Take(s, n) \in Seq(Rune) /\ Len(Take(s, n)) = n
      /\ \A i \in 1 .. n : Take(s, n)[i] = s[i]
  BY TakeIs
<1> QED
  BY <1>1, <1>2, <1>3, SeqEqual

\* A text is what is taken of it and what is left.
LEMMA TakeAndRest ==
  ASSUME NEW Rune, NEW s \in Seq(Rune), NEW n \in 0 .. Len(s)
  PROVE  /\ SubSeq(s, n + 1, Len(s)) \in Seq(Rune)
         /\ Len(SubSeq(s, n + 1, Len(s))) = Len(s) - n
         /\ s = Take(s, n) \o SubSeq(s, n + 1, Len(s))
<1>1. Len(s) \in Nat /\ n + 1 \in Int /\ Len(s) \in Int
      /\ \A i \in n + 1 .. Len(s) : s[i] \in Rune
  OBVIOUS
<1>2. /\ SubSeq(s, n + 1, Len(s)) \in Seq(Rune)
      /\ Len(SubSeq(s, n + 1, Len(s))) =
           IF n + 1 <= Len(s) THEN Len(s) - (n + 1) + 1 ELSE 0
      /\ \A i \in 1 .. Len(s) - (n + 1) + 1 :
           SubSeq(s, n + 1, Len(s))[i] = s[n + 1 + i - 1]
  BY <1>1, SubSeqProperties
<1> DEFINE rest == SubSeq(s, n + 1, Len(s))
<1>3. rest \in Seq(Rune) /\ Len(rest) = Len(s) - n
      /\ \A i \in 1 .. Len(s) - n : rest[i] = s[n + i]
  BY <1>1, <1>2
<1> HIDE DEF rest
<1>4. /\ Take(s, n) \in Seq(Rune) /\ Len(Take(s, n)) = n
      /\ \A i \in 1 .. n : Take(s, n)[i] = s[i]
  BY TakeIs
<1>5. /\ Take(s, n) \o rest \in Seq(Rune) /\ Len(Take(s, n) \o rest) = Len(s)
      /\ \A i \in 1 .. Len(s) : (Take(s, n) \o rest)[i] =
            IF i <= n THEN Take(s, n)[i] ELSE rest[i - n]
  BY <1>1, <1>3, <1>4, ConcatProperties
<1>6. \A i \in 1 .. Len(s) : (Take(s, n) \o rest)[i] = s[i]
  BY <1>1, <1>3, <1>4, <1>5
<1>7. s = Take(s, n) \o rest
  BY <1>5, <1>6, SeqEqual
<1> QED
  BY <1>3, <1>7 DEF rest

----------------------------------------------------------------------------
(* Costs *)

LEMMA CountIs ==
  ASSUME NEW Rune, NEW s \in Seq(Rune), NEW R
  PROVE  Count(s, R) \in Nat /\ Count(s, R) <= Len(s)
<1> DEFINE I == {i \in DOMAIN s : s[i] \in R}
<1>1. Len(s) \in Nat /\ 1 \in Int /\ Len(s) \in Int /\ DOMAIN s = 1 .. Len(s)
  OBVIOUS
<1>2. I \in SUBSET (1 .. Len(s))
  BY <1>1
<1> HIDE DEF I
<1>3. IsFiniteSet(1 .. Len(s)) /\ Cardinality(1 .. Len(s)) = Len(s)
  <2>1. /\ IsFiniteSet(1 .. Len(s))
        /\ Cardinality(1 .. Len(s)) = IF 1 > Len(s) THEN 0 ELSE Len(s) - 1 + 1
    BY <1>1, FS_Interval, Zenon
  <2> QED
    BY <1>1, <2>1
<1>4. IsFiniteSet(I) /\ Cardinality(I) <= Cardinality(1 .. Len(s))
  BY <1>2, <1>3, FS_Subset, Zenon
<1>5. Cardinality(I) \in Nat
  BY <1>4, FS_CardinalityType
<1>6. Count(s, R) = Cardinality(I)
  BY DEF Count, I
<1> QED
  BY <1>3, <1>4, <1>5, <1>6

LEMMA CountConcat ==
  ASSUME NEW Rune, NEW s \in Seq(Rune), NEW t \in Seq(Rune), NEW R
  PROVE  Count(s \o t, R) = Count(s, R) + Count(t, R)
<1> DEFINE m == Len(s)
           I == {i \in DOMAIN s : s[i] \in R}
           J == {i \in DOMAIN t : t[i] \in R}
           K == {i \in DOMAIN (s \o t) : (s \o t)[i] \in R}
           L == {i + m : i \in J}
<1>1. /\ m \in Nat /\ Len(t) \in Nat /\ DOMAIN s = 1 .. m /\ DOMAIN t = 1 .. Len(t)
      /\ s \o t \in Seq(Rune) /\ Len(s \o t) = m + Len(t)
      /\ \A i \in 1 .. m + Len(t) : (s \o t)[i] = IF i <= m THEN s[i] ELSE t[i - m]
  BY ConcatProperties
<1>2. DOMAIN (s \o t) = 1 .. m + Len(t)
  BY <1>1
<1>3. K = I \cup L
  <2>1. ASSUME NEW k \in K PROVE k \in I \cup L
    <3>1. CASE k <= m
      BY <1>1, <1>2, <3>1
    <3>2. CASE k > m
      <4>1. k - m \in J /\ k = (k - m) + m
        BY <1>1, <1>2, <3>2
      <4> QED
        BY <4>1
    <3> QED
      BY <1>1, <1>2, <3>1, <3>2
  <2>2. ASSUME NEW k \in I PROVE k \in K
    BY <1>1, <1>2
  <2>3. ASSUME NEW j \in J PROVE j + m \in K
    <3>1. j \in 1 .. Len(t) /\ t[j] \in R
      BY <1>1
    <3>2. j + m \in 1 .. m + Len(t) /\ ~(j + m <= m) /\ j + m - m = j
      BY <1>1, <3>1
    <3>3. (s \o t)[j + m] = t[j]
      BY <1>1, <3>2
    <3> QED
      BY <1>2, <3>1, <3>2, <3>3
  <2> QED
    BY <2>1, <2>2, <2>3
<1>4. I \cap L = {}
  BY <1>1
<1>5. IsFiniteSet(I) /\ IsFiniteSet(J)
  <2>1. I \in SUBSET (1 .. m) /\ J \in SUBSET (1 .. Len(t))
    BY <1>1
  <2>2. IsFiniteSet(1 .. m) /\ IsFiniteSet(1 .. Len(t))
    BY <1>1, FS_Interval
  <2> HIDE DEF I, J, m
  <2> QED
    BY <2>1, <2>2, FS_Subset
<1>6. IsFiniteSet(L) /\ Cardinality(L) = Cardinality(J)
  <2> DEFINE f == [j \in J |-> j + m]
  <2>1. f \in Bijection(J, L)
    <3>1. f \in [J -> L]
      OBVIOUS
    <3>2. \A a, b \in J : f[a] = f[b] => a = b
      BY <1>1
    <3>3. \A l \in L : \E j \in J : f[j] = l
      OBVIOUS
    <3> HIDE DEF f, J, L
    <3> QED
      BY <3>1, <3>2, <3>3 DEF Bijection, Injection, Surjection, IsInjective
  <2>2. ExistsBijection(J, L)
    BY <2>1 DEF ExistsBijection
  <2> HIDE DEF J, L
  <2> QED
    BY <1>5, <2>2, FS_Bijection
<1>7. Cardinality(K) = Cardinality(I) + Cardinality(L) - Cardinality({})
  <2> HIDE DEF I, J, K, L, m
  <2> QED
    BY <1>3, <1>4, <1>5, <1>6, FS_Union
<1>8. Cardinality(I) \in Nat /\ Cardinality(L) \in Nat /\ Cardinality({}) = 0
  <2> HIDE DEF I, L
  <2> QED
    BY <1>5, <1>6, FS_CardinalityType, FS_EmptySet
<1>9. Count(s \o t, R) = Cardinality(K) /\ Count(s, R) = Cardinality(I) /\ Count(t, R) = Cardinality(J)
  BY DEF Count
<1> HIDE DEF I, J, K, L, m
<1> QED
  BY <1>6, <1>7, <1>8, <1>9

\* The parts of the assumption on the constants.
LEMMA Capacities ==
  /\ MaxSeptets \in Nat /\ MaxUCS2Units \in Nat
  /\ MaxUCS2Units >= 5 /\ MaxSeptets >= 2 * MaxUCS2Units - 3
  /\ MaxWordLookback \in Nat /\ MinLabelRunes \in Nat \ {0}
BY ScreenAssumption, Zenon

LEMMA Alphabets ==
  /\ "." \in Basic /\ " " \in Basic /\ "\n" \in Basic /\ Basic \cap (Extended \cup Astral) = {}
  /\ " " \in Breaks /\ "\n" \in Breaks /\ Breaks \subseteq Spaces /\ "." \notin Spaces
BY ScreenAssumption, Zenon

LEMMA EncodingIs ==
  ASSUME NEW Rune, NEW s \in Seq(Rune)
  PROVE  /\ EncodingOf(s) = "gsm7" <=> \A i \in 1 .. Len(s) : s[i] \in Basic \cup Extended
         /\ EncodingOf(s) \in {"gsm7", "ucs2"}
<1>1. DOMAIN s = 1 .. Len(s)
  OBVIOUS
<1>2. ToSet(s) \subseteq Basic \cup Extended
        <=> \A i \in 1 .. Len(s) : s[i] \in Basic \cup Extended
  BY <1>1 DEF ToSet
<1> QED
  BY <1>2 DEF EncodingOf

LEMMA EncodingConcat ==
  ASSUME NEW Rune, NEW s \in Seq(Rune), NEW t \in Seq(Rune)
  PROVE  EncodingOf(s \o t) = "gsm7"
           <=> EncodingOf(s) = "gsm7" /\ EncodingOf(t) = "gsm7"
<1>1. /\ s \o t \in Seq(Rune) /\ Len(s \o t) = Len(s) + Len(t)
      /\ Len(s) \in Nat /\ Len(t) \in Nat
      /\ \A i \in 1 .. Len(s) + Len(t) :
           (s \o t)[i] = IF i <= Len(s) THEN s[i] ELSE t[i - Len(s)]
  BY ConcatProperties
<1>2. ASSUME \A i \in 1 .. Len(s) + Len(t) : (s \o t)[i] \in Basic \cup Extended
      PROVE  /\ \A i \in 1 .. Len(s) : s[i] \in Basic \cup Extended
             /\ \A i \in 1 .. Len(t) : t[i] \in Basic \cup Extended
  <2>1. ASSUME NEW i \in 1 .. Len(s) PROVE s[i] \in Basic \cup Extended
    BY <1>1, <1>2
  <2>2. ASSUME NEW i \in 1 .. Len(t) PROVE t[i] \in Basic \cup Extended
    <3>1. /\ i + Len(s) \in 1 .. Len(s) + Len(t) /\ ~(i + Len(s) <= Len(s))
          /\ i + Len(s) - Len(s) = i
      BY <1>1
    <3> QED
      BY <1>1, <1>2, <3>1
  <2> QED
    BY <2>1, <2>2
<1>3. ASSUME \A i \in 1 .. Len(s) : s[i] \in Basic \cup Extended,
             \A i \in 1 .. Len(t) : t[i] \in Basic \cup Extended,
             NEW i \in 1 .. Len(s) + Len(t)
      PROVE  (s \o t)[i] \in Basic \cup Extended
  <2>1. CASE i <= Len(s)
    BY <1>1, <1>3, <2>1
  <2>2. CASE i > Len(s)
    <3>1. i - Len(s) \in 1 .. Len(t)
      BY <1>1, <2>2
    <3> QED
      BY <1>1, <1>3, <2>2, <3>1
  <2> QED
    BY <1>1, <2>1, <2>2
<1> QED
  BY <1>1, <1>2, <1>3, EncodingIs

LEMMA CostIs ==
  ASSUME NEW Rune, NEW s \in Seq(Rune)
  PROVE  /\ ScreenCost(s) \in Nat /\ Len(s) <= ScreenCost(s)
         /\ ScreenCost(s) <= 2 * Len(s)
         /\ Budget(s) \in Nat /\ Budget(s) <= Greatest(MaxSeptets, MaxUCS2Units)
<1>1. /\ Count(s, Extended) \in Nat /\ Count(s, Extended) <= Len(s)
      /\ Count(s, Astral) \in Nat /\ Count(s, Astral) <= Len(s) /\ Len(s) \in Nat
  BY CountIs
<1> QED
  BY <1>1, Capacities DEF ScreenCost, Budget, Greatest

\* Nothing of a text in one septet each costs two.
LEMMA BasicCost ==
  ASSUME NEW t \in Seq(Basic)
  PROVE  EncodingOf(t) = "gsm7" /\ Count(t, Extended) = 0 /\ Count(t, Astral) = 0
<1>1. EncodingOf(t) = "gsm7"
  BY EncodingIs
<1>2. Basic \cap (Extended \cup Astral) = {}
  BY Alphabets, Zenon
<1>3. {i \in DOMAIN t : t[i] \in Extended} = {} /\ {i \in DOMAIN t : t[i] \in Astral} = {}
  BY <1>2
<1>4. Count(t, Extended) = 0 /\ Count(t, Astral) = 0
  BY <1>3, FS_EmptySet DEF Count
<1> QED
  BY <1>1, <1>4

(***************************************************************************)
(* If a text, a marker and a reserve fit a screen, so do a prefix of the   *)
(* text, the marker and the reserve: also where what is cut off had forced *)
(* the other encoding, in which a rune may cost twice as much of the       *)
(* budget.  This is what the binary searches of render.go rest on.         *)
(***************************************************************************)
LEMMA PrefixFits ==
  ASSUME NEW Rune, NEW p \in Seq(Rune), NEW q \in Seq(Rune), NEW t \in Seq(Basic),
         NEW reserve \in Nat, reserve + Len(t) >= 1,
         ScreenCost(p \o q \o t) + reserve <= Budget(p \o q \o t)
  PROVE  ScreenCost(p \o t) + reserve <= Budget(p \o t)
<1> DEFINE R == Rune \cup Basic
           pq == p \o q
           whole == p \o q \o t
           cut == p \o t
<1>1. p \in Seq(R) /\ q \in Seq(R) /\ t \in Seq(R)
  OBVIOUS
<1>2. /\ pq \in Seq(R) /\ whole \in Seq(R) /\ cut \in Seq(R)
      /\ Len(pq) = Len(p) + Len(q) /\ Len(whole) = Len(pq) + Len(t)
      /\ Len(cut) = Len(p) + Len(t)
      /\ Len(p) \in Nat /\ Len(q) \in Nat /\ Len(t) \in Nat
  BY <1>1, ConcatProperties
<1> HIDE DEF R
<1>3. \A C : /\ Count(whole, C) = Count(pq, C) + Count(t, C)
             /\ Count(pq, C) = Count(p, C) + Count(q, C)
             /\ Count(cut, C) = Count(p, C) + Count(t, C)
             /\ Count(p, C) \in Nat /\ Count(p, C) <= Len(p)
             /\ Count(q, C) \in Nat /\ Count(t, C) \in Nat
  BY <1>1, <1>2, CountConcat, CountIs
<1>4. /\ EncodingOf(whole) = "gsm7" => EncodingOf(cut) = "gsm7"
      /\ EncodingOf(pq) = "gsm7" <=> EncodingOf(p) = "gsm7" /\ EncodingOf(q) = "gsm7"
      /\ EncodingOf(whole) = "gsm7" <=> EncodingOf(pq) = "gsm7"
      /\ EncodingOf(cut) = "gsm7" <=> EncodingOf(p) = "gsm7"
  <2>1. EncodingOf(t) = "gsm7"
    BY BasicCost
  <2>2. EncodingOf(pq) = "gsm7" <=> EncodingOf(p) = "gsm7" /\ EncodingOf(q) = "gsm7"
    BY <1>1, EncodingConcat
  <2>3. EncodingOf(cut) = "gsm7" <=> EncodingOf(p) = "gsm7" /\ EncodingOf(t) = "gsm7"
    BY <1>1, EncodingConcat
  <2> HIDE DEF pq
  <2>4. EncodingOf(pq \o t) = "gsm7" <=> EncodingOf(pq) = "gsm7" /\ EncodingOf(t) = "gsm7"
    BY <1>1, <1>2, EncodingConcat
  <2> QED
    BY <2>1, <2>2, <2>3, <2>4 DEF pq
<1>5. ScreenCost(whole) + reserve <= Budget(whole)
  OBVIOUS
<1> HIDE DEF pq, whole, cut
<1>6. CASE EncodingOf(whole) = "gsm7"
  BY <1>2, <1>3, <1>4, <1>5, <1>6, Capacities, SMTT(30) DEF ScreenCost, Budget, cut
<1>7. CASE EncodingOf(cut) # "gsm7"
  BY <1>2, <1>3, <1>4, <1>5, <1>7, Capacities, SMTT(30) DEF ScreenCost, Budget, cut
<1>8. CASE EncodingOf(whole) # "gsm7" /\ EncodingOf(cut) = "gsm7"
  <2>1. EncodingOf(q) # "gsm7"
    BY <1>4, <1>8
  <2>2. Len(q) # 0
    BY <1>2, <2>1, EncodingIs
  <2>3. Count(t, Extended) = 0
    BY BasicCost
  <2>4. Len(p) + Len(q) + Len(t) + reserve <= MaxUCS2Units
    BY <1>2, <1>3, <1>5, <1>8, Capacities, SMTT(30) DEF ScreenCost, Budget
  <2>5. ScreenCost(cut) = Len(p) + Len(t) + Count(p, Extended) /\ Budget(cut) = MaxSeptets
    BY <1>2, <1>3, <1>8, <2>3 DEF ScreenCost, Budget
  <2>6. ScreenCost(cut) + reserve <= Budget(cut)
    BY <1>2, <1>3, <2>2, <2>4, <2>5, Capacities, SMTT(30)
  <2> QED
    BY <2>6 DEF cut
<1> QED
  BY <1>6, <1>7, <1>8

----------------------------------------------------------------------------
(* The binary search *)

LEMMA SearchIsRecursive ==
  ASSUME NEW N \in Nat, NEW most \in 0 .. N, NEW fits \in [0 .. N -> BOOLEAN]
  PROVE  \E h :
    /\ Search(fits, most) = h[<<0, most>>]
    /\ \A lo, hi \in 0 .. most :
         /\ lo >= hi => h[<<lo, hi>>] = lo
         /\ lo < hi => h[<<lo, hi>>] =
              IF fits[(lo + hi + 1) \div 2] THEN h[<<(lo + hi + 1) \div 2, hi>>]
              ELSE h[<<lo, (lo + hi + 1) \div 2 - 1>>]
<1> DEFINE D == (0 .. most) \X (0 .. most)
           V == 0 .. most
           mid(p) == (p[1] + p[2] + 1) \div 2
           m == [p \in D |-> IF p[1] >= p[2] THEN 0 ELSE p[2] - p[1]]
           G == [x \in D \X [D -> V] |->
                   IF x[1][1] >= x[1][2] THEN x[1][1]
                   ELSE IF fits[mid(x[1])] THEN x[2][<<mid(x[1]), x[1][2]>>]
                   ELSE x[2][<<x[1][1], mid(x[1]) - 1>>]]
<1>1. \A p \in D : p[1] \in 0 .. most /\ p[2] \in 0 .. most /\ p = <<p[1], p[2]>>
  OBVIOUS
<1>2. \A p \in D : p[1] < p[2] =>
        /\ mid(p) \in p[1] + 1 .. p[2]
        /\ <<mid(p), p[2]>> \in D /\ <<p[1], mid(p) - 1>> \in D
        /\ m[<<mid(p), p[2]>>] < m[p] /\ m[<<p[1], mid(p) - 1>>] < m[p]
  <2> SUFFICES ASSUME NEW p \in D, p[1] < p[2]
               PROVE  /\ mid(p) \in p[1] + 1 .. p[2]
                      /\ <<mid(p), p[2]>> \in D /\ <<p[1], mid(p) - 1>> \in D
                      /\ m[<<mid(p), p[2]>>] < m[p] /\ m[<<p[1], mid(p) - 1>>] < m[p]
    OBVIOUS
  <2>1. mid(p) \in p[1] + 1 .. p[2]
    BY <1>1
  <2> HIDE DEF mid
  <2>2. <<mid(p), p[2]>> \in D /\ <<p[1], mid(p) - 1>> \in D
    BY <1>1, <2>1
  <2>3. m[<<mid(p), p[2]>>] < m[p] /\ m[<<p[1], mid(p) - 1>>] < m[p]
    BY <1>1, <2>1, <2>2
  <2> QED
    BY <2>1, <2>2, <2>3
<1>3. m \in [D -> Nat] /\ \A p \in D : m[p] < N + 1
  BY <1>1
<1>4. G \in [D \X [D -> V] -> V]
  <2> SUFFICES ASSUME NEW p \in D, NEW f \in [D -> V] PROVE G[<<p, f>>] \in V
    OBVIOUS
  <2>1. CASE p[1] >= p[2]
    BY <1>1, <2>1
  <2>2. CASE p[1] < p[2]
    <3>1. <<mid(p), p[2]>> \in D /\ <<p[1], mid(p) - 1>> \in D
      BY <1>2, <2>2
    <3> HIDE DEF mid, D
    <3>2. f[<<mid(p), p[2]>>] \in V /\ f[<<p[1], mid(p) - 1>>] \in V
      BY <3>1
    <3> QED
      BY <1>1, <2>2, <3>2
  <2>3. p[1] >= p[2] \/ p[1] < p[2]
    BY <1>1
  <2> QED
    BY <2>1, <2>2, <2>3, Zenon
<1>5. ASSUME NEW p \in D, NEW f \in [D -> V], NEW g \in [D -> V],
             \A e \in D : m[e] < m[p] => f[e] = g[e]
      PROVE  G[<<p, f>>] = G[<<p, g>>]
  <2>1. CASE p[1] >= p[2]
    BY <2>1
  <2>2. CASE p[1] < p[2]
    <3>1. /\ f[<<mid(p), p[2]>>] = g[<<mid(p), p[2]>>]
          /\ f[<<p[1], mid(p) - 1>>] = g[<<p[1], mid(p) - 1>>]
      BY <1>2, <1>5, <2>2
    <3> HIDE DEF mid, D
    <3> QED
      BY <3>1
  <2> QED
    BY <1>1, <2>1, <2>2
<1>6. PICK f \in [D -> V] : \A p \in D : f[p] = G[<<p, f>>]
  <2>1. V # {}
    <3>1. 0 \in V
      OBVIOUS
    <3> QED
      BY <3>1
  <2> DEFINE bound == N + 1
  <2>3. bound \in Nat /\ \A d \in D : m[d] < bound
    BY <1>3
  <2> HIDE DEF D, V, m, G, bound
  <2>2. \A p \in D : \A f, g \in [D -> V] :
          (\A e \in D : m[e] < m[p] => f[e] = g[e]) => G[<<p, f>>] = G[<<p, g>>]
    BY <1>5
  <2>4. m \in [D -> Nat]
    BY <1>3
  <2>5. IsRecursion(D, V, m, bound, G)
    BY <1>4, <2>1, <2>2, <2>3, <2>4 DEF IsRecursion
  <2> QED
    BY <2>5, RecursionIsSound
<1> DEFINE Defined(h) ==
             h = [p \in (0 .. most) \X (0 .. most) |->
                    LET lo == p[1]
                        hi == p[2]
                        mid_1 == (lo + hi + 1) \div 2
                    IN IF lo >= hi THEN lo
                       ELSE IF fits[mid_1] THEN h[<<mid_1, hi>>]
                       ELSE h[<<lo, mid_1 - 1>>]]
<1>7. \A p \in D : f[p] = IF p[1] >= p[2] THEN p[1]
                          ELSE IF fits[mid(p)] THEN f[<<mid(p), p[2]>>]
                          ELSE f[<<p[1], mid(p) - 1>>]
  <2> HIDE DEF mid, D, V
  <2> QED
    BY <1>6
<1>8. Defined(f)
  <2>1. f = [p \in D |-> f[p]]
    BY <1>6
  <2> QED
    BY <1>7, <2>1
<1>9. (\E h : Defined(h)) => \E h : Defined(h) /\ Search(fits, most) = h[<<0, most>>]
  BY Zenon DEF Search
<1>10. PICK h : Defined(h) /\ Search(fits, most) = h[<<0, most>>]
  BY <1>8, <1>9, Zenon
<1>11. \A lo, hi \in 0 .. most :
         /\ lo >= hi => h[<<lo, hi>>] = lo
         /\ lo < hi => h[<<lo, hi>>] =
              IF fits[(lo + hi + 1) \div 2] THEN h[<<(lo + hi + 1) \div 2, hi>>]
              ELSE h[<<lo, (lo + hi + 1) \div 2 - 1>>]
  <2> TAKE lo, hi \in 0 .. most
  <2> DEFINE q == <<lo, hi>>
  <2>1. q \in D /\ q[1] = lo /\ q[2] = hi
    OBVIOUS
  <2>2. \A p \in D : h[p] = IF p[1] >= p[2] THEN p[1]
                           ELSE IF fits[mid(p)] THEN h[<<mid(p), p[2]>>]
                           ELSE h[<<p[1], mid(p) - 1>>]
    BY <1>10
  <2> HIDE DEF q, D
  <2>3. h[q] = IF lo >= hi THEN lo
               ELSE IF fits[(lo + hi + 1) \div 2] THEN h[<<(lo + hi + 1) \div 2, hi>>]
               ELSE h[<<lo, (lo + hi + 1) \div 2 - 1>>]
    BY <2>1, <2>2
  <2> QED
    BY <2>3 DEF q
<1> QED
  BY <1>10, <1>11

\* It ends at one that fits, or at none, and all above it do not fit as long as
\* what fits is all that lies below the largest that does.
LEMMA SearchIs ==
  ASSUME NEW N \in Nat, NEW most \in 0 .. N, NEW fits \in [0 .. N -> BOOLEAN]
  PROVE  /\ Search(fits, most) \in 0 .. most
         /\ Search(fits, most) = 0 \/ fits[Search(fits, most)]
         /\ (\A n \in 0 .. most : fits[n] => \A k \in 0 .. n : fits[k])
              => \A k \in Search(fits, most) + 1 .. most : ~fits[k]
<1> DEFINE D == (0 .. most) \X (0 .. most)
           Mid(lo, hi) == (lo + hi + 1) \div 2
           m == [p \in D |-> IF p[1] >= p[2] THEN 0 ELSE p[2] - p[1]]
           Down == \A n \in 0 .. most : fits[n] => \A k \in 0 .. n : fits[k]
<1>1. PICK h : /\ Search(fits, most) = h[<<0, most>>]
               /\ \A lo, hi \in 0 .. most :
                    /\ lo >= hi => h[<<lo, hi>>] = lo
                    /\ lo < hi => h[<<lo, hi>>] =
                         IF fits[Mid(lo, hi)] THEN h[<<Mid(lo, hi), hi>>]
                         ELSE h[<<lo, Mid(lo, hi) - 1>>]
  BY SearchIsRecursive
<1> DEFINE Found(n, lo, hi) ==
             /\ n \in 0 .. most /\ lo <= n
             /\ lo <= hi => n <= hi
             /\ n = lo \/ fits[n]
             /\ Down => \A k \in n + 1 .. hi : ~fits[k]
           S == {p \in D : Found(h[p], p[1], p[2])}
<1>2. ASSUME NEW lo \in 0 .. most, NEW hi \in 0 .. most, lo < hi
      PROVE  Mid(lo, hi) \in lo + 1 .. hi
  BY <1>2
<1>3. m \in [D -> Nat] /\ \A lo, hi \in 0 .. most :
        m[<<lo, hi>>] = IF lo >= hi THEN 0 ELSE hi - lo
  OBVIOUS
<1> HIDE DEF Down, Mid, m
<1>4. ASSUME NEW p \in D, \A e \in D : m[e] < m[p] => e \in S
      PROVE  p \in S
  <2>1. PICK lo \in 0 .. most, hi \in 0 .. most : p = <<lo, hi>>
    OBVIOUS
  <2> SUFFICES Found(h[p], lo, hi)
    BY <2>1
  <2>2. CASE lo >= hi
    <3>1. h[p] = lo
      BY <1>1, <2>1, <2>2
    <3> QED
      BY <2>2, <3>1
  <2>3. CASE lo < hi /\ fits[Mid(lo, hi)]
    <3>1. PICK mid \in lo + 1 .. hi : mid = Mid(lo, hi)
      BY <1>2, <2>3
    <3>2. <<mid, hi>> \in D /\ m[<<mid, hi>>] < m[p]
      <4>1. mid \in 0 .. most
        OBVIOUS
      <4>2. m[<<mid, hi>>] = IF mid >= hi THEN 0 ELSE hi - mid
        BY <1>3, <4>1
      <4>3. m[p] = hi - lo
        BY <1>3, <2>1, <2>3
      <4> QED
        BY <2>3, <4>1, <4>2, <4>3
    <3>3. Found(h[<<mid, hi>>], mid, hi)
      BY <1>4, <3>2
    <3>4. h[p] = h[<<mid, hi>>] /\ fits[mid]
      BY <1>1, <2>1, <2>3, <3>1
    <3>5. Found(h[p], mid, hi)
      BY <3>3, <3>4
    <3>6. h[p] = lo \/ fits[h[p]]
      BY <3>4, <3>5
    <3> QED
      BY <2>3, <3>5, <3>6
  <2>4. CASE lo < hi /\ ~fits[Mid(lo, hi)]
    <3>1. PICK mid \in lo + 1 .. hi : mid = Mid(lo, hi)
      BY <1>2, <2>4
    <3>2. <<lo, mid - 1>> \in D /\ m[<<lo, mid - 1>>] < m[p]
      BY <1>3, <2>1, <2>4
    <3>3. Found(h[<<lo, mid - 1>>], lo, mid - 1)
      BY <1>4, <3>2
    <3>4. h[p] = h[<<lo, mid - 1>>] /\ ~fits[mid]
      BY <1>1, <2>1, <2>4, <3>1
    <3> DEFINE n == h[p]
    <3>5. n \in 0 .. most /\ lo <= n /\ n <= mid - 1 /\ (n = lo \/ fits[n])
      BY <3>1, <3>3, <3>4
    <3>6. ASSUME Down, NEW k \in n + 1 .. hi PROVE ~fits[k]
      <4>1. CASE k < mid
        BY <3>1, <3>3, <3>4, <3>5, <3>6, <4>1
      <4>2. CASE k >= mid
        BY <3>1, <3>4, <3>5, <3>6, <4>2 DEF Down
      <4> QED
        BY <3>1, <3>5, <4>1, <4>2
    <3> QED
      BY <3>1, <3>5, <3>6
  <2> QED
    BY <2>2, <2>3, <2>4
<1>5. D \subseteq S
  <2> HIDE DEF D, S
  <2> QED
    BY <1>3, <1>4, MeasureInduction
<1>6. Found(h[<<0, most>>], 0, most)
  BY <1>5
<1> QED
  BY <1>1, <1>6 DEF Down

----------------------------------------------------------------------------
(* Cutting *)

LEMMA MaxIs ==
  ASSUME NEW N \in Nat, NEW S \in SUBSET (0 .. N), S # {}
  PROVE  Max(S) \in S /\ \A n \in S : n <= Max(S)
<1>1. \E m \in S : \A n \in S : m >= n
  <2>1. PICK m \in S : \A n \in S : n <= m
    BY GreatestOf
  <2> QED
    BY <2>1
<1>2. Max(S) \in S /\ \A n \in S : Max(S) >= n
  BY <1>1 DEF Max
<1> QED
  BY <1>2

\* What is trimmed is the space a text ends with.
LEMMA TrimRightIs ==
  ASSUME NEW Rune, NEW s \in Seq(Rune)
  PROVE  \E n \in 0 .. Len(s) :
           /\ TrimRight(s) = Take(s, n)
           /\ n > 0 => s[n] \notin Spaces
           /\ \A i \in n + 1 .. Len(s) : s[i] \in Spaces
<1> DEFINE I == {i \in 1 .. Len(s) : s[i] \notin Spaces}
           n == IF I # {} THEN Max(I) ELSE 0
<1>1. TrimRight(s) = Take(s, n)
  BY DEF TrimRight, SelectLastInSeq
<1>2. I # {} => Max(I) \in I /\ \A i \in I : i <= Max(I)
  <2>1. Len(s) \in Nat /\ I \in SUBSET (0 .. Len(s))
    OBVIOUS
  <2> HIDE DEF I
  <2> QED
    BY <2>1, MaxIs
<1>3. n \in 0 .. Len(s) /\ (n > 0 => s[n] \notin Spaces)
      /\ \A i \in n + 1 .. Len(s) : s[i] \in Spaces
  <2> HIDE DEF n
  <2>1. CASE I = {}
    BY <2>1 DEF n
  <2>2. CASE I # {}
    <3>1. n \in I /\ \A i \in I : i <= n
      BY <1>2, <2>2 DEF n
    <3>2. \A i \in n + 1 .. Len(s) : i \notin I /\ i \in 1 .. Len(s)
      BY <3>1
    <3> QED
      BY <3>1, <3>2
  <2> QED
    BY <2>1, <2>2
<1> HIDE DEF n
<1> QED
  BY <1>1, <1>3

LEMMA EllipsisIs ==
  Ellipsis \in Seq(Basic) /\ Len(Ellipsis) = 3
<1>1. "." \in Basic
  BY Alphabets, Zenon
<1> QED
  BY <1>1 DEF Ellipsis

LEMMA MarkedIs ==
  ASSUME NEW Rune, NEW p \in Seq(Rune)
  PROVE  p \o Ellipsis \in Seq(Rune \cup Basic) /\ Len(p \o Ellipsis) = Len(p) + 3
<1>1. p \in Seq(Rune \cup Basic) /\ Ellipsis \in Seq(Rune \cup Basic) /\ Len(Ellipsis) = 3
  BY EllipsisIs
<1>2. /\ p \o Ellipsis \in Seq(Rune \cup Basic)
      /\ Len(p \o Ellipsis) = Len(p) + Len(Ellipsis)
  BY <1>1, ConcatProperties, Zenon
<1> QED
  BY <1>1, <1>2, Zenon

\* What is left of the first m runes once the space they end with is trimmed.
IsTrimmed(s, m, n) ==
  /\ n \in 0 .. m
  /\ \A i \in n + 1 .. m : s[i] \in Spaces
  /\ n > 0 => s[n] \notin Spaces

\* What Truncate keeps of a text of which m runes have room before the marker:
\* all, or what comes before a space just after them or in the lookback.
IsKept(s, m, n) ==
  LET floor == Greatest(m - MaxWordLookback, m \div 2)
  IN \/ s[m + 1] \in Spaces /\ IsTrimmed(s, m, n)
     \/ /\ s[m + 1] \notin Spaces
        /\ \E p \in floor + 1 .. m : /\ s[p] \in Spaces
                                     /\ \A i \in p + 1 .. m : s[i] \notin Spaces
                                     /\ IsTrimmed(s, p - 1, n)
     \/ /\ s[m + 1] \notin Spaces
        /\ \A i \in floor + 1 .. m : s[i] \notin Spaces
        /\ n = m

LEMMA TrimIs ==
  ASSUME NEW Rune, NEW s \in Seq(Rune), NEW m \in 0 .. Len(s)
  PROVE  \E n \in 0 .. m : IsTrimmed(s, m, n) /\ TrimRight(Take(s, m)) = Take(s, n)
<1> DEFINE t == Take(s, m)
<1>1. t \in Seq(Rune) /\ Len(t) = m /\ \A i \in 1 .. m : t[i] = s[i]
  BY TakeIs
<1> HIDE DEF t
<1>2. PICK n \in 0 .. m : /\ TrimRight(t) = Take(t, n)
                          /\ n > 0 => t[n] \notin Spaces
                          /\ \A i \in n + 1 .. m : t[i] \in Spaces
  BY <1>1, TrimRightIs
<1>3. IsTrimmed(s, m, n)
  BY <1>1, <1>2 DEF IsTrimmed
<1>4. Take(t, n) = Take(s, n)
  BY <1>2, TakeTake DEF t
<1> QED
  BY <1>2, <1>3, <1>4 DEF t

\* A text too long for its limit is cut to what is kept, with the marker.
LEMMA TruncateKeeps ==
  ASSUME NEW Rune, NEW s \in Seq(Rune), NEW limit \in 4 .. Len(s) - 1
  PROVE  \E n \in 0 .. limit - 3 :
           IsKept(s, limit - 3, n) /\ Truncate(s, limit) = Take(s, n) \o Ellipsis
<1> DEFINE m == limit - 3
           cut == Take(s, limit - Len(Ellipsis))
           floor == Greatest(Len(cut) - MaxWordLookback, Len(cut) \div 2)
           space == SelectLastInSubSeq(cut, floor + 1, Len(cut), LAMBDA r : r \in Spaces)
           kept == IF s[Len(cut) + 1] \in Spaces THEN TrimRight(cut)
                   ELSE IF space > 0 THEN TrimRight(Take(cut, space - 1))
                   ELSE cut
<1>1. Truncate(s, limit) = kept \o Ellipsis
  <2>1. ~(limit <= 0) /\ ~(Len(s) <= limit) /\ ~(limit <= Len(Ellipsis))
    BY EllipsisIs
  <2> QED
    BY <2>1, Zenon DEF Truncate
<1>2. /\ m \in 1 .. Len(s) /\ cut = Take(s, m)
      /\ cut \in Seq(Rune) /\ Len(cut) = m
      /\ \A i \in 1 .. m : cut[i] = s[i]
  BY EllipsisIs, TakeIs
<1> HIDE DEF cut
<1>3. floor \in Nat /\ floor = Greatest(m - MaxWordLookback, m \div 2)
  <2>1. floor = Greatest(m - MaxWordLookback, m \div 2)
    BY <1>2
  <2>2. Greatest(m - MaxWordLookback, m \div 2) \in Nat
    BY <1>2, Capacities DEF Greatest
  <2> QED
    BY <2>1, <2>2
<1>4. \/ /\ space = 0
         /\ \A i \in floor + 1 .. m : s[i] \notin Spaces
      \/ /\ space \in floor + 1 .. m /\ s[space] \in Spaces
         /\ \A i \in space + 1 .. m : s[i] \notin Spaces
  <2> DEFINE I == {i \in floor + 1 .. Len(cut) : cut[i] \in Spaces}
  <2>1. space = IF I # {} THEN Max(I) ELSE 0
    BY DEF SelectLastInSubSeq
  <2> HIDE DEF floor, space
  <2>2. ASSUME NEW i \in floor + 1 .. m PROVE i \in I <=> s[i] \in Spaces
    <3>1. i \in 1 .. m /\ i \in floor + 1 .. Len(cut)
      <4>1. floor \in Nat /\ m \in Nat /\ Len(cut) = m
        <5>1. floor \in Nat
          BY <1>3, Zenon
        <5>2. m \in Nat /\ Len(cut) = m
          BY <1>2
        <5> QED
          BY <5>1, <5>2, Zenon
      <4> HIDE DEF m
      <4> QED
        BY <4>1
    <3>2. cut[i] = s[i]
      BY <1>2, <3>1
    <3> QED
      BY <3>1, <3>2, Zenon
  <2>3. m \in Nat /\ I \in SUBSET (0 .. m) /\ I \subseteq floor + 1 .. m
    BY <1>2, <1>3
  <2> HIDE DEF I
  <2>4. I # {} => Max(I) \in I /\ \A i \in I : i <= Max(I)
    BY <2>3, MaxIs
  <2>5. CASE I = {}
    BY <2>1, <2>2, <2>5
  <2>6. CASE I # {}
    <3>1. space \in I /\ \A i \in I : i <= space
      BY <2>1, <2>4, <2>6
    <3>2. space \in floor + 1 .. m
      BY <2>3, <3>1
    <3>3. ASSUME NEW i \in space + 1 .. m PROVE s[i] \notin Spaces
      <4>1. i \in floor + 1 .. m /\ ~(i <= space)
        BY <1>3, <2>3, <3>2
      <4> QED
        BY <2>2, <3>1, <4>1
    <3> QED
      BY <2>2, <3>1, <3>2, <3>3
  <2> QED
    BY <2>5, <2>6
<1> HIDE DEF space
<1>5. CASE s[m + 1] \in Spaces
  <2>1. PICK n \in 0 .. m : IsTrimmed(s, m, n) /\ TrimRight(Take(s, m)) = Take(s, n)
    BY <1>2, TrimIs
  <2>2. kept = Take(s, n)
    BY <1>2, <1>5, <2>1
  <2> QED
    BY <1>1, <1>5, <2>1, <2>2, Zenon DEF IsKept
<1>6. CASE s[m + 1] \notin Spaces /\ space \in floor + 1 .. m
  <2>1. space > 0 /\ space - 1 \in 0 .. m /\ space - 1 \in 0 .. Len(s)
    BY <1>2, <1>3, <1>6
  <2>2. PICK n \in 0 .. space - 1 : /\ IsTrimmed(s, space - 1, n)
                                    /\ TrimRight(Take(s, space - 1)) = Take(s, n)
    BY <2>1, TrimIs
  <2>3. Take(cut, space - 1) = Take(s, space - 1)
    BY <1>2, <2>1, TakeTake
  <2>4. kept = Take(s, n)
    BY <1>2, <1>6, <2>1, <2>2, <2>3
  <2>5. n \in 0 .. m
    BY <2>1, <2>2
  <2>6. s[space] \in Spaces /\ \A i \in space + 1 .. m : s[i] \notin Spaces
    BY <1>3, <1>4, <1>6
  <2>7. space \in Greatest(m - MaxWordLookback, m \div 2) + 1 .. m
    BY <1>3, <1>6
  <2>8. IsKept(s, m, n)
    BY <1>6, <2>2, <2>6, <2>7, Zenon DEF IsKept
  <2> QED
    BY <1>1, <2>4, <2>5, <2>8
<1>7. CASE s[m + 1] \notin Spaces /\ space = 0
  <2>1. kept = cut
    BY <1>2, <1>7
  <2>2. \A i \in Greatest(m - MaxWordLookback, m \div 2) + 1 .. m : s[i] \notin Spaces
    BY <1>3, <1>4, <1>7
  <2>3. IsKept(s, m, m) /\ m \in 0 .. m
    <3>1. m \in 0 .. m
      BY <1>2
    <3> QED
      BY <1>7, <2>2, <3>1, Zenon DEF IsKept
  <2> QED
    BY <1>1, <1>2, <2>1, <2>3
<1> QED
  BY <1>4, <1>5, <1>6, <1>7

\* A text cut less short keeps no less.
LEMMA KeptGrows ==
  ASSUME NEW Rune, NEW s \in Seq(Rune),
         NEW m2 \in 1 .. Len(s) - 1, NEW m1 \in 1 .. m2,
         NEW n1 \in 0 .. m1, NEW n2 \in 0 .. m2,
         IsKept(s, m1, n1), IsKept(s, m2, n2)
  PROVE  n1 <= n2
<1> DEFINE Floor(m) == Greatest(m - MaxWordLookback, m \div 2)
<1>1. CASE m1 = m2 \/ n2 = m2
  <2>1. CASE n2 = m2
    BY <2>1
  <2>2. CASE m1 = m2
    BY <2>2, Capacities DEF IsKept, IsTrimmed, Greatest
  <2> QED
    BY <1>1, <2>1, <2>2
<1>2. CASE m1 < m2 /\ n2 # m2
  <2> DEFINE Hi == Floor(m2)
             Lo == Floor(m1)
  <2>1. Lo <= Hi /\ Lo \in Nat /\ Hi \in Nat
    BY Capacities DEF Greatest
  <2>2. /\ \/ s[m1 + 1] \in Spaces /\ IsTrimmed(s, m1, n1)
           \/ /\ s[m1 + 1] \notin Spaces
              /\ \E p \in Lo + 1 .. m1 : /\ s[p] \in Spaces
                                         /\ \A i \in p + 1 .. m1 : s[i] \notin Spaces
                                         /\ IsTrimmed(s, p - 1, n1)
           \/ /\ s[m1 + 1] \notin Spaces
              /\ \A i \in Lo + 1 .. m1 : s[i] \notin Spaces
              /\ n1 = m1
        /\ \/ s[m2 + 1] \in Spaces /\ IsTrimmed(s, m2, n2)
           \/ /\ s[m2 + 1] \notin Spaces
              /\ \E p \in Hi + 1 .. m2 : /\ s[p] \in Spaces
                                         /\ \A i \in p + 1 .. m2 : s[i] \notin Spaces
                                         /\ IsTrimmed(s, p - 1, n2)
    BY <1>2, Zenon DEF IsKept
  <2> HIDE DEF Lo, Hi
  <2>3. \/ n1 > 0 /\ s[n1] \notin Spaces
        \/ n1 = 0
        \/ n1 = m1 /\ s[m1 + 1] \notin Spaces
    BY <2>2 DEF IsTrimmed
  <2>4. CASE IsTrimmed(s, m2, n2)
    BY <1>2, <2>3, <2>4 DEF IsTrimmed
  <2>5. ASSUME NEW p \in Hi + 1 .. m2, s[p] \in Spaces,
               \A i \in p + 1 .. m2 : s[i] \notin Spaces,
               IsTrimmed(s, p - 1, n2)
        PROVE  n1 <= n2
    <3>1. CASE m1 < p
      <4>1. CASE n1 = m1 /\ s[m1 + 1] \notin Spaces
        <5>1. m1 + 1 # p
          BY <2>5, <4>1
        <5> QED
          BY <2>1, <2>5, <3>1, <4>1, <5>1 DEF IsTrimmed
      <4>2. CASE n1 = 0 \/ (n1 > 0 /\ s[n1] \notin Spaces)
        BY <2>1, <2>5, <3>1, <4>2 DEF IsTrimmed
      <4> QED
        BY <2>3, <4>1, <4>2
    <3>2. CASE p <= m1
      <4>1. /\ p \in Lo + 1 .. m1 /\ s[m1 + 1] \notin Spaces
            /\ \A i \in p + 1 .. m1 : s[i] \notin Spaces
        BY <1>2, <2>1, <2>5, <3>2
      <4>2. PICK q \in Lo + 1 .. m1 : /\ s[q] \in Spaces
                                      /\ \A i \in q + 1 .. m1 : s[i] \notin Spaces
                                      /\ IsTrimmed(s, q - 1, n1)
        BY <2>2, <2>5, <4>1
      <4>3. q = p
        BY <2>1, <2>5, <4>1, <4>2
      <4> QED
        BY <2>1, <2>5, <4>2, <4>3 DEF IsTrimmed
    <3> QED
      BY <2>1, <3>1, <3>2
  <2> QED
    BY <2>2, <2>4, <2>5
<1> QED
  BY <1>1, <1>2

\* A text is cut to some of its start with the marker after it, or to some of
\* the marker where there is no room for more.
LEMMA TruncateIs ==
  ASSUME NEW Rune, NEW s \in Seq(Rune), NEW limit \in Nat
  PROVE  \/ limit = 0 /\ Truncate(s, limit) = <<>>
         \/ limit > 0 /\ Len(s) <= limit /\ Truncate(s, limit) = s
         \/ /\ Len(s) > limit /\ limit \in 1 .. 3
            /\ Truncate(s, limit) = Take(Ellipsis, limit)
         \/ /\ Len(s) > limit /\ limit > 3
            /\ \E n \in 0 .. limit - 3 : Truncate(s, limit) = Take(s, n) \o Ellipsis
<1>1. CASE limit <= 3 \/ Len(s) <= limit
  <2>1. limit <= 0 => Truncate(s, limit) = <<>>
    BY Zenon DEF Truncate
  <2>2. ~(limit <= 0) /\ Len(s) <= limit => Truncate(s, limit) = s
    BY Zenon DEF Truncate
  <2>3. ~(limit <= 0) /\ ~(Len(s) <= limit) /\ limit <= Len(Ellipsis)
          => Truncate(s, limit) = Take(Ellipsis, limit)
    BY Zenon DEF Truncate
  <2> QED
    BY <1>1, <2>1, <2>2, <2>3, EllipsisIs
<1>2. CASE limit > 3 /\ Len(s) > limit
  <2>1. limit \in 4 .. Len(s) - 1
    BY <1>2
  <2>2. \E n \in 0 .. limit - 3 : Truncate(s, limit) = Take(s, n) \o Ellipsis
    BY <2>1, TruncateKeeps
  <2> QED
    BY <1>2, <2>2
<1> QED
  BY <1>1, <1>2

LEMMA ShorterFits ==
  ASSUME NEW Rune, NEW s \in Seq(Rune), NEW n \in 0 .. Len(s), NEW k \in 0 .. n,
         NEW t \in Seq(Basic), NEW reserve \in Nat, reserve + Len(t) >= 1,
         ScreenCost(Take(s, n) \o t) + reserve <= Budget(Take(s, n) \o t)
  PROVE  ScreenCost(Take(s, k) \o t) + reserve <= Budget(Take(s, k) \o t)
<1> DEFINE p == Take(s, k)
           whole == Take(s, n)
           q == SubSeq(whole, k + 1, Len(whole))
<1>1. whole \in Seq(Rune) /\ Len(whole) = n
  BY TakeIs
<1>2. Take(whole, k) = p
  BY TakeTake
<1> HIDE DEF whole
<1>3. p \in Seq(Rune) /\ q \in Seq(Rune) /\ whole = p \o q
  BY <1>1, <1>2, TakeIs, TakeAndRest
<1>4. ScreenCost(p \o q \o t) + reserve <= Budget(p \o q \o t)
  BY <1>3 DEF whole
<1> HIDE DEF p, q
<1>5. ScreenCost(p \o t) + reserve <= Budget(p \o t)
  BY <1>3, <1>4, PrefixFits
<1> QED
  BY <1>5 DEF p

----------------------------------------------------------------------------
(* Texts that fit *)

LEMMA LeastIs ==
  ASSUME NEW n \in Nat
  PROVE  /\ Least(n, MaxSeptets) \in 0 .. n
         /\ Least(n, MaxSeptets) <= MaxSeptets
         /\ n < MaxSeptets => Least(n, MaxSeptets) = n
         /\ Least(n, MaxSeptets) < n => Least(n, MaxSeptets) = MaxSeptets
BY Capacities DEF Least

(***************************************************************************)
(* The search of Shrink: of a text that does not fit, the longest start    *)
(* that fits with its marker has at least one rune, and not all of them.   *)
(***************************************************************************)
LEMMA ShrinkSearch ==
  ASSUME NEW Rune, NEW s \in Seq(Rune), ~FitsScreen(s), NEW lo,
         lo = Search([n \in 0 .. Len(s) |-> FitsScreen(Take(s, n) \o Ellipsis)],
                     Least(Len(s), MaxSeptets))
  PROVE  /\ lo \in 1 .. Len(s) - 1
         /\ \A k \in 0 .. lo : FitsScreen(Take(s, k) \o Ellipsis)
<1> DEFINE fits == [n \in 0 .. Len(s) |-> FitsScreen(Take(s, n) \o Ellipsis)]
           most == Least(Len(s), MaxSeptets)
<1>1. Len(s) \in Nat /\ most \in 0 .. Len(s)
  BY LeastIs
<1>2. fits \in [0 .. Len(s) -> BOOLEAN]
  BY DEF FitsScreen
<1>3. ASSUME NEW n \in 0 .. Len(s), FitsScreen(Take(s, n) \o Ellipsis), NEW k \in 0 .. n
      PROVE  FitsScreen(Take(s, k) \o Ellipsis)
  <2>1. /\ ScreenCost(Take(s, n) \o Ellipsis) + 0 <= Budget(Take(s, n) \o Ellipsis)
        /\ 0 \in Nat /\ 0 + Len(Ellipsis) >= 1 /\ Ellipsis \in Seq(Basic)
    <3>1. Take(s, n) \o Ellipsis \in Seq(Rune \cup Basic)
      BY TakeIs, MarkedIs, Zenon
    <3>2. ScreenCost(Take(s, n) \o Ellipsis) \in Nat
      BY <3>1, CostIs
    <3> QED
      BY <1>3, <3>2, EllipsisIs DEF FitsScreen
  <2>2. ScreenCost(Take(s, k) \o Ellipsis) + 0 <= Budget(Take(s, k) \o Ellipsis)
    BY <1>3, <2>1, ShorterFits
  <2>3. Take(s, k) \o Ellipsis \in Seq(Rune \cup Basic)
    <3>1. k \in 0 .. Len(s)
      BY <1>3
    <3> QED
      BY <3>1, TakeIs, MarkedIs, Zenon
  <2>4. ScreenCost(Take(s, k) \o Ellipsis) \in Nat
    BY <2>3, CostIs
  <2> QED
    BY <2>2, <2>4 DEF FitsScreen
<1>4. \A n \in 0 .. most : fits[n] => \A k \in 0 .. n : fits[k]
  BY <1>1, <1>3
<1>5. /\ lo \in 0 .. most /\ (lo = 0 \/ fits[lo])
      /\ \A k \in lo + 1 .. most : ~fits[k]
  <2>1. lo = Search(fits, most)
    OBVIOUS
  <2> HIDE DEF fits, most
  <2> QED
    BY <1>1, <1>2, <1>4, <2>1, SearchIs
<1>7. Len(s) >= 1
  <2> SUFFICES ASSUME Len(s) = 0 PROVE FALSE
    BY <1>1
  <2>1. ScreenCost(s) <= 0 /\ ScreenCost(s) \in Nat
    BY CostIs
  <2>2. Budget(s) \in Nat
    BY CostIs
  <2> QED
    BY <2>1, <2>2 DEF FitsScreen
<1>8. FitsScreen(Take(s, 1) \o Ellipsis)
  <2> DEFINE t == Take(s, 1)
  <2>1. /\ t \in Seq(Rune \cup Basic) /\ Len(t) = 1 /\ Ellipsis \in Seq(Rune \cup Basic)
        /\ t \o Ellipsis \in Seq(Rune \cup Basic) /\ Len(t \o Ellipsis) = Len(t) + 3
    <3>1. 1 \in 0 .. Len(s)
      BY <1>1, <1>7
    <3>2. t \in Seq(Rune) /\ Len(t) = 1
      BY <3>1, TakeIs
    <3> HIDE DEF t
    <3>3. t \o Ellipsis \in Seq(Rune \cup Basic) /\ Len(t \o Ellipsis) = Len(t) + 3
      BY <3>2, MarkedIs, Zenon
    <3> QED
      BY <3>2, <3>3, EllipsisIs
  <2> HIDE DEF t
  <2>2. /\ t \o Ellipsis \in Seq(Rune \cup Basic) /\ Len(t \o Ellipsis) = 4
    BY <2>1
  <2>3. \A C : Count(t \o Ellipsis, C) = Count(t, C) + Count(Ellipsis, C)
    BY <2>1, CountConcat
  <2>4. \A C : Count(t, C) \in Nat /\ Count(t, C) <= 1
    BY <2>1, CountIs
  <2>5. Count(Ellipsis, Extended) = 0 /\ Count(Ellipsis, Astral) = 0
    BY EllipsisIs, BasicCost
  <2>6. FitsScreen(t \o Ellipsis)
    BY <2>2, <2>3, <2>4, <2>5, Capacities DEF FitsScreen, ScreenCost, Budget
  <2> QED
    BY <2>6 DEF t

<1>9. lo >= 1
  <2>1. 1 \in 0 .. most
    BY <1>1, <1>7, LeastIs, Capacities
  <2>2. fits[1]
    BY <1>1, <1>8, <2>1
  <2> HIDE DEF fits, most
  <2> QED
    BY <1>1, <1>5, <2>1, <2>2
<1>10. fits[lo] /\ lo \in 0 .. Len(s)
  <2> HIDE DEF fits, most
  <2> QED
    BY <1>1, <1>5, <1>9
<1>11. \A k \in 0 .. lo : FitsScreen(Take(s, k) \o Ellipsis)
  <2>1. FitsScreen(Take(s, lo) \o Ellipsis)
    BY <1>10
  <2> QED
    BY <1>3, <1>10, <2>1
<1>12. lo # Len(s)
  <2> SUFFICES ASSUME lo = Len(s) PROVE FALSE
    OBVIOUS
  <2>1. FitsScreen(s \o Ellipsis)
    BY <1>10, <1>11, TakeAll
  <2>2. /\ s \in Seq(Rune \cup Basic) /\ Ellipsis \in Seq(Rune \cup Basic)
    BY EllipsisIs
  <2>3. /\ \A C : Count(s \o Ellipsis, C) = Count(s, C) + Count(Ellipsis, C)
        /\ \A C : Count(s, C) \in Nat
        /\ EncodingOf(s \o Ellipsis) = "gsm7" <=> EncodingOf(s) = "gsm7"
        /\ Len(s \o Ellipsis) = Len(s) + 3
    <3>1. \A C : Count(s \o Ellipsis, C) = Count(s, C) + Count(Ellipsis, C)
      BY <2>2, CountConcat
    <3>2. \A C : Count(s, C) \in Nat
      BY CountIs
    <3>3. EncodingOf(s \o Ellipsis) = "gsm7" <=> EncodingOf(s) = "gsm7"
      BY <2>2, EncodingConcat, EllipsisIs, BasicCost
    <3>4. Len(s \o Ellipsis) = Len(s) + 3
      BY <2>2, EllipsisIs, ConcatProperties
    <3> QED
      BY <3>1, <3>2, <3>3, <3>4
  <2>4. Count(Ellipsis, Extended) = 0 /\ Count(Ellipsis, Astral) = 0
    BY EllipsisIs, BasicCost
  <2> QED
    BY <1>1, <2>1, <2>3, <2>4, Capacities DEF FitsScreen, ScreenCost, Budget
<1> QED
  BY <1>9, <1>10, <1>11, <1>12

(***************************************************************************)
(* The backstop of every screen: shrunk, any text fits and is not lost     *)
(* (render.go:29-62).                                                      *)
(***************************************************************************)
THEOREM EveryTextShrinks ==
  ASSUME NEW Rune, NEW text \in Seq(Rune)
  PROVE  ShrinksToFit(text)
<1> DEFINE lo == Search([n \in 0 .. Len(text) |-> FitsScreen(Take(text, n) \o Ellipsis)],
                        Least(Len(text), MaxSeptets))
           shrunk == Shrink(text)
<1>1. CASE FitsScreen(text)
  BY <1>1 DEF ShrinksToFit, Shrink
<1>2. CASE ~FitsScreen(text)
  <2>1. lo \in 1 .. Len(text) - 1 /\ \A k \in 0 .. lo : FitsScreen(Take(text, k) \o Ellipsis)
    <3> HIDE DEF lo
    <3>1. lo = Search([n \in 0 .. Len(text) |-> FitsScreen(Take(text, n) \o Ellipsis)],
                        Least(Len(text), MaxSeptets))
      BY DEF lo
    <3> QED
      BY <1>2, <3>1, ShrinkSearch
  <2>2. shrunk = Truncate(Take(text, lo + 1), lo)
    <3>1. shrunk = IF lo = 0 THEN <<>> ELSE Truncate(Take(text, lo + 1), lo)
      BY <1>2, Zenon DEF Shrink
    <3> HIDE DEF lo
    <3> QED
      BY <2>1, <3>1
  <2> HIDE DEF lo, shrunk
  <2> DEFINE longer == Take(text, lo + 1)
  <2>3. lo + 1 \in 0 .. Len(text) /\ longer \in Seq(Rune) /\ Len(longer) = lo + 1
    BY <2>1, TakeIs
  <2>4. \/ lo \in 1 .. 3 /\ shrunk = Take(Ellipsis, lo)
        \/ lo > 3 /\ \E n \in 0 .. lo - 3 : shrunk = Take(longer, n) \o Ellipsis
    <3> HIDE DEF longer
    <3>1. lo \in Nat /\ lo > 0 /\ ~(Len(longer) <= lo)
      BY <2>1, <2>3
    <3>2. shrunk = Truncate(longer, lo)
      BY <2>2 DEF longer
    <3>3. \/ lo = 0 /\ Truncate(longer, lo) = <<>>
          \/ lo > 0 /\ Len(longer) <= lo /\ Truncate(longer, lo) = longer
          \/ /\ Len(longer) > lo /\ lo \in 1 .. 3
             /\ Truncate(longer, lo) = Take(Ellipsis, lo)
          \/ /\ Len(longer) > lo /\ lo > 3
             /\ \E n \in 0 .. lo - 3 : Truncate(longer, lo) = Take(longer, n) \o Ellipsis
      BY <2>3, <3>1, TruncateIs
    <3> QED
      BY <3>1, <3>2, <3>3
  <2>5. CASE lo \in 1 .. 3 /\ shrunk = Take(Ellipsis, lo)
    <3>1. shrunk \in Seq(Basic) /\ Len(shrunk) <= 3
      <4>1. lo \in 0 .. Len(Ellipsis)
        BY <2>5, EllipsisIs
      <4>2. Take(Ellipsis, lo) \in Seq(Basic) /\ Len(Take(Ellipsis, lo)) = lo
        BY <4>1, EllipsisIs, TakeIs
      <4> QED
        BY <2>5, <4>2
    <3>2. ScreenCost(shrunk) <= 3 /\ Budget(shrunk) = MaxSeptets
      BY <3>1, BasicCost DEF ScreenCost, Budget
    <3>3. FitsScreen(shrunk)
      <4>1. ScreenCost(shrunk) \in Nat
        BY <3>1, CostIs
      <4> QED
        BY <3>2, <4>1, Capacities DEF FitsScreen
    <3>4. \E n \in 1 .. Len(Ellipsis) : shrunk = Take(Ellipsis, n)
      BY <2>5, EllipsisIs
    <3> QED
      BY <3>3, <3>4 DEF ShrinksToFit, shrunk
  <2>6. CASE lo > 3 /\ \E n \in 0 .. lo - 3 : shrunk = Take(longer, n) \o Ellipsis
    <3>1. PICK n \in 0 .. lo - 3 : shrunk = Take(longer, n) \o Ellipsis
      BY <2>6
    <3>2. n \in 0 .. lo + 1 /\ n \in 0 .. lo /\ n \in 0 .. Len(text)
      BY <2>1, <2>6
    <3>3. Take(longer, n) = Take(text, n)
      BY <2>3, <3>2, TakeTake
    <3>4. FitsScreen(shrunk)
      BY <2>1, <3>1, <3>2, <3>3
    <3> QED
      BY <3>1, <3>2, <3>3, <3>4 DEF ShrinksToFit, shrunk
  <2> QED
    BY <2>4, <2>5, <2>6
<1> QED
  BY <1>1, <1>2

----------------------------------------------------------------------------
(* Pages *)

LEMMA ShorterFitsBesideReserve ==
  ASSUME NEW Rune, NEW s \in Seq(Rune), NEW n \in 0 .. Len(s), NEW k \in 0 .. n,
         NEW reserve \in Nat \ {0},
         ScreenCost(Take(s, n)) + reserve <= Budget(Take(s, n))
  PROVE  ScreenCost(Take(s, k)) + reserve <= Budget(Take(s, k))
<1>1. /\ Take(s, n) \in Seq(Rune) /\ Take(s, k) \in Seq(Rune)
      /\ <<>> \in Seq(Basic) /\ reserve + Len(<<>>) >= 1
  <2>1. k \in 0 .. Len(s)
    OBVIOUS
  <2> QED
    BY <2>1, TakeIs
<1>2. Take(s, n) \o <<>> = Take(s, n) /\ Take(s, k) \o <<>> = Take(s, k)
  BY <1>1, ConcatEmptySeq
<1>3. ScreenCost(Take(s, n) \o <<>>) + reserve <= Budget(Take(s, n) \o <<>>)
  BY <1>2
<1>4. ScreenCost(Take(s, k) \o <<>>) + reserve <= Budget(Take(s, k) \o <<>>)
  BY <1>1, <1>3, ShorterFits
<1> QED
  BY <1>2, <1>4

LEMMA FitRunesIs ==
  ASSUME NEW Rune, NEW s \in Seq(Rune), NEW reserve \in Nat \ {0}
  PROVE  /\ FitRunes(s, reserve) \in 0 .. Len(s)
         /\ FitRunes(s, reserve) > 0 =>
              \A k \in 0 .. FitRunes(s, reserve) :
                ScreenCost(Take(s, k)) + reserve <= Budget(Take(s, k))
         /\ \A k \in FitRunes(s, reserve) + 1 .. Len(s) :
              ~(ScreenCost(Take(s, k)) + reserve <= Budget(Take(s, k)))
<1> DEFINE Fits(n) == ScreenCost(Take(s, n)) + reserve <= Budget(Take(s, n))
           fits == [n \in 0 .. Len(s) |-> Fits(n)]
           most == Least(Len(s), MaxSeptets)
           fit == FitRunes(s, reserve)
<1>1. Len(s) \in Nat /\ most \in 0 .. Len(s)
  BY LeastIs
<1>2. ASSUME NEW n \in 0 .. Len(s), Fits(n), NEW k \in 0 .. n PROVE Fits(k)
  BY <1>2, ShorterFitsBesideReserve
<1>3. fit = Search(fits, most)
  BY Zenon DEF FitRunes
<1>4. ASSUME NEW k \in most + 1 .. Len(s) PROVE ~Fits(k)
  <2>1. /\ k \in 0 .. Len(s) /\ k > MaxSeptets
    BY <1>1, LeastIs, Capacities, SMTT(30)
  <2>2. Take(s, k) \in Seq(Rune) /\ Len(Take(s, k)) = k
    BY <2>1, TakeIs
  <2>3. /\ ScreenCost(Take(s, k)) \in Nat /\ k <= ScreenCost(Take(s, k))
        /\ Budget(Take(s, k)) \in Nat /\ Budget(Take(s, k)) <= MaxSeptets
    BY <2>2, CostIs, Capacities DEF Greatest
  <2> QED
    BY <2>1, <2>3, Capacities
<1> HIDE DEF Fits, most, fit
<1>5. fits \in [0 .. Len(s) -> BOOLEAN]
  BY DEF Fits
<1>6. \A n \in 0 .. most : fits[n] => \A k \in 0 .. n : fits[k]
  BY <1>1, <1>2
<1>7. /\ fit \in 0 .. most /\ (fit = 0 \/ fits[fit])
      /\ \A k \in fit + 1 .. most : ~fits[k]
  <2> HIDE DEF fits
  <2> QED
    BY <1>1, <1>3, <1>5, <1>6, SearchIs
<1>8. fit \in 0 .. Len(s) /\ (fit > 0 => Fits(fit))
  BY <1>1, <1>7
<1>9. fit > 0 => \A k \in 0 .. fit : Fits(k)
  BY <1>2, <1>8
<1>10. \A k \in fit + 1 .. Len(s) : ~Fits(k)
  <2> TAKE k \in fit + 1 .. Len(s)
  <2>1. CASE k <= most
    <3>1. ~fits[k] /\ k \in 0 .. Len(s)
      BY <1>1, <1>7, <1>8, <2>1, SMTT(30)
    <3> QED
      BY <3>1
  <2>2. CASE k > most
    BY <1>1, <1>4, <1>8, <2>2
  <2> QED
    BY <1>1, <1>8, <2>1, <2>2
<1> QED
  BY <1>8, <1>9, <1>10 DEF Fits, fit

(***************************************************************************)
(* The binary search finds the longest start of any text that fits beside  *)
(* a reserve (render.go:178-202).                                          *)
(***************************************************************************)
THEOREM EverySearchIsExact ==
  ASSUME NEW Rune, NEW text \in Seq(Rune), NEW reserve \in Nat \ {0}
  PROVE  SearchIsExact(text, reserve)
<1> DEFINE n == FitRunes(text, reserve)
<1>1. /\ n \in 0 .. Len(text)
      /\ n > 0 => ScreenCost(Take(text, n)) + reserve <= Budget(Take(text, n))
      /\ \A k \in n + 1 .. Len(text) :
           ~(ScreenCost(Take(text, k)) + reserve <= Budget(Take(text, k)))
  BY FitRunesIs
<1> HIDE DEF n
<1> QED
  BY <1>1 DEF SearchIsExact, n

\* A full window is split within it, and after at least one rune.
LEMMA LastIndexIs ==
  ASSUME NEW Rune, NEW window \in Seq(Rune), NEW sep, Len(sep) \in Nat
  PROVE  LastIndex(window, sep) \in 0 .. Len(window)
<1> DEFINE at == {i \in 1 .. Len(window) - Len(sep) :
                    SubSeq(window, i + 1, i + Len(sep)) = sep}
<1>1. LastIndex(window, sep) =
        IF at = {} THEN 0 ELSE CHOOSE i \in at : \A j \in at : j <= i
  BY Zenon DEF LastIndex
<1>2. Len(window) \in Nat /\ at \in SUBSET (0 .. Len(window))
  OBVIOUS
<1> HIDE DEF at
<1>3. CASE at = {}
  BY <1>1, <1>2, <1>3
<1>4. CASE at # {}
  <2>1. \E i \in at : \A j \in at : j <= i
    BY <1>2, <1>4, GreatestOf
  <2>2. LastIndex(window, sep) \in at
    BY <1>1, <1>4, <2>1
  <2> QED
    BY <1>2, <2>2
<1> QED
  BY <1>3, <1>4

LEMMA BreakPointIs ==
  ASSUME NEW Rune, NEW window \in Seq(Rune)
  PROVE  /\ BreakPoint(window) \in 0 .. Len(window)
         /\ window # <<>> => BreakPoint(window) > 0
<1> DEFINE ends == [n \in 1 .. 3 |->
                 LastIndex(window, << <<"\n", "\n">>, <<"\n">>, <<" ">> >>[n])]
           late == {n \in 1 .. 3 : ends[n] > 0 /\ ends[n] >= Len(window) \div 3}
<1>1. BreakPoint(window) = IF late = {} THEN Len(window)
                           ELSE ends[CHOOSE n \in late : \A m \in late : n <= m]
  BY Zenon DEF BreakPoint
<1>2. \A n \in 1 .. 3 : ends[n] \in 0 .. Len(window)
  <2> TAKE n \in 1 .. 3
  <2>1. Len(<< <<"\n", "\n">>, <<"\n">>, <<" ">> >>[n]) \in Nat
    <3>1. \A a, b : Len(<< <<a, a>>, <<a>>, <<b>> >>[n]) \in Nat
      OBVIOUS
    <3> QED
      BY <3>1, Zenon
  <2> QED
    BY <2>1, LastIndexIs
<1> HIDE DEF ends
<1>3. late \in SUBSET Nat
  OBVIOUS
<1>4. late # {} => \E n \in late : \A m \in late : n <= m
  BY <1>3, LeastOf
<1>5. late # {} => BreakPoint(window) \in 0 .. Len(window) /\ BreakPoint(window) > 0
  <2> SUFFICES ASSUME late # {} PROVE BreakPoint(window) \in 0 .. Len(window) /\ BreakPoint(window) > 0
    OBVIOUS
  <2>1. PICK n \in late : BreakPoint(window) = ends[n]
    BY <1>1, <1>4
  <2> QED
    BY <1>2, <2>1
<1>6. Len(window) \in Nat /\ (window # <<>> => Len(window) > 0)
  OBVIOUS
<1> HIDE DEF late
<1> QED
  BY <1>1, <1>5, <1>6

\* What follows the first at runes.
Rest(s, at) == SubSeq(s, at + 1, Len(s))

LEMMA RestIs ==
  ASSUME NEW Rune, NEW s \in Seq(Rune), NEW at \in 0 .. Len(s)
  PROVE  /\ Rest(s, at) \in Seq(Rune)
         /\ Len(Rest(s, at)) = Len(s) - at
         /\ \A i \in 1 .. Len(s) - at : Rest(s, at)[i] = s[at + i]
<1>1. Len(s) \in Nat /\ at + 1 \in Int /\ Len(s) \in Int
      /\ \A i \in at + 1 .. Len(s) : s[i] \in Rune
  OBVIOUS
<1>2. /\ SubSeq(s, at + 1, Len(s)) \in Seq(Rune)
      /\ Len(SubSeq(s, at + 1, Len(s))) =
           IF at + 1 <= Len(s) THEN Len(s) - (at + 1) + 1 ELSE 0
      /\ \A i \in 1 .. Len(s) - (at + 1) + 1 :
           SubSeq(s, at + 1, Len(s))[i] = s[at + 1 + i - 1]
  BY <1>1, SubSeqProperties
<1> DEFINE rest == SubSeq(s, at + 1, Len(s))
<1>3. rest \in Seq(Rune) /\ Len(rest) = Len(s) - at
      /\ \A i \in 1 .. Len(s) - at : rest[i] = s[at + i]
  BY <1>1, <1>2
<1> HIDE DEF rest
<1> QED
  BY <1>3 DEF Rest, rest

\* A window is the start of what follows.
LEMMA WindowIs ==
  ASSUME NEW Rune, NEW s \in Seq(Rune), NEW at \in 0 .. Len(s), NEW end \in at .. Len(s)
  PROVE  SubSeq(s, at + 1, end) = Take(Rest(s, at), end - at)
<1>1. /\ at + 1 \in Int /\ end \in Int /\ \A i \in at + 1 .. end : s[i] \in Rune
      /\ end - (at + 1) + 1 = end - at
  OBVIOUS
<1> DEFINE window == SubSeq(s, at + 1, end)
<1>2. /\ window \in Seq(Rune)
      /\ Len(window) = IF at + 1 <= end THEN end - (at + 1) + 1 ELSE 0
      /\ \A i \in 1 .. end - (at + 1) + 1 : window[i] = s[at + 1 + i - 1]
  BY <1>1, SubSeqProperties
<1> HIDE DEF window
<1>3. /\ window \in Seq(Rune) /\ Len(window) = end - at
      /\ \A i \in 1 .. end - at : window[i] = s[at + i]
  BY <1>1, <1>2
<1>4. /\ Rest(s, at) \in Seq(Rune) /\ end - at \in 0 .. Len(Rest(s, at))
      /\ \A i \in 1 .. end - at : Rest(s, at)[i] = s[at + i]
  BY RestIs
<1>5. /\ Take(Rest(s, at), end - at) \in Seq(Rune)
      /\ Len(Take(Rest(s, at), end - at)) = end - at
      /\ \A i \in 1 .. end - at : Take(Rest(s, at), end - at)[i] = Rest(s, at)[i]
  BY <1>4, TakeIs
<1>6. window = Take(Rest(s, at), end - at)
  BY <1>3, <1>4, <1>5, SeqEqual
<1> QED
  BY <1>6 DEF window

\* A page is the start of what follows, without the space before the break, and
\* is empty only if no rune fits beside the reserve.
LEMMA PageAtIs ==
  ASSUME NEW Rune, NEW runes \in Seq(Rune), NEW at \in 0 .. Len(runes), at < Len(runes),
         NEW reserve \in Nat \ {0}, NEW next, next = PageAt(runes, at, reserve)
  PROVE  /\ next.runes \in 0 .. Len(runes) - at
         /\ \E n \in 0 .. next.runes :
              /\ next.page = Take(Rest(runes, at), n)
              /\ next.runes > 0 => n > 0
              /\ \A i \in n + 1 .. next.runes : Rest(runes, at)[i] \in Spaces
         /\ next.runes > 0 => ScreenCost(next.page) + reserve <= Budget(next.page)
         /\ next.runes = 0 => \* the first rune does not fit
              ~(ScreenCost(Take(Rest(runes, at), 1)) + reserve <=
                  Budget(Take(Rest(runes, at), 1)))
<1> DEFINE rest == Rest(runes, at)
           end == Least(at + MaxSeptets, Len(runes))
           window == SubSeq(runes, at + 1, end)
           fit == FitRunes(window, reserve)
           full == Take(window, fit)
           cut == BreakPoint(full)
           page == TrimRight(Take(window, cut))
<1>1. /\ rest \in Seq(Rune) /\ Len(rest) = Len(runes) - at
      /\ at \in Nat /\ Len(runes) \in Nat
  BY RestIs
<1>2. end \in at + 1 .. Len(runes)
  BY <1>1, Capacities DEF Least
<1>3. next = IF \/ fit = Len(window) /\ at + Len(window) = Len(runes)
                \/ page = <<>>
             THEN [page |-> full, runes |-> fit]
             ELSE [page |-> page, runes |-> cut]
  BY Zenon DEF PageAt
<1>4. window = Take(rest, end - at)
  <2>1. end \in at .. Len(runes)
    BY <1>1, <1>2
  <2> HIDE DEF end
  <2> QED
    BY <2>1, WindowIs
<1> HIDE DEF rest, end, window
<1>5. /\ window \in Seq(Rune) /\ Len(window) = end - at /\ end - at \in 0 .. Len(rest)
      /\ \A n \in 0 .. Len(window) : Take(window, n) = Take(rest, n)
  <2>1. end - at \in 0 .. Len(rest)
    BY <1>1, <1>2
  <2>2. window \in Seq(Rune) /\ Len(window) = end - at
    BY <1>1, <1>4, <2>1, TakeIs
  <2>3. \A n \in 0 .. end - at : Take(window, n) = Take(rest, n)
    BY <1>1, <1>4, <2>1, TakeTake
  <2> QED
    BY <2>1, <2>2, <2>3
<1> DEFINE Fits(n) == ScreenCost(Take(window, n)) + reserve <= Budget(Take(window, n))
<1>6. /\ fit \in 0 .. Len(window)
      /\ fit > 0 => \A k \in 0 .. fit : Fits(k)
      /\ \A k \in fit + 1 .. Len(window) : ~Fits(k)
  BY <1>5, FitRunesIs
<1> HIDE DEF Fits, fit
<1>7. full \in Seq(Rune) /\ Len(full) = fit
  BY <1>5, <1>6, TakeIs
<1>8. cut \in 0 .. fit /\ (fit > 0 => cut > 0)
  <2> HIDE DEF full
  <2>1. cut \in 0 .. Len(full) /\ (full # <<>> => cut > 0)
    BY <1>7, BreakPointIs
  <2> QED
    BY <1>7, <2>1
<1> HIDE DEF full, cut
<1>9. /\ Take(window, cut) \in Seq(Rune) /\ Len(Take(window, cut)) = cut
      /\ \A i \in 1 .. cut : Take(window, cut)[i] = window[i]
  <2>1. cut \in 0 .. Len(window)
    BY <1>5, <1>6, <1>8
  <2> QED
    BY <1>5, <2>1, TakeIs
<1>10. PICK n \in 0 .. cut : /\ page = Take(window, n)
                             /\ \A i \in n + 1 .. cut : window[i] \in Spaces
  <2> DEFINE word == Take(window, cut)
  <2> HIDE DEF word
  <2>1. PICK n \in 0 .. Len(word) : /\ TrimRight(word) = Take(word, n)
                                    /\ \A i \in n + 1 .. Len(word) : word[i] \in Spaces
    BY <1>9, TrimRightIs DEF word
  <2>2. n \in 0 .. cut /\ cut \in 0 .. Len(window)
    BY <1>5, <1>6, <1>8, <1>9, <2>1 DEF word
  <2>3. Take(word, n) = Take(window, n)
    BY <1>5, <2>2, TakeTake DEF word
  <2>4. \A i \in n + 1 .. cut : window[i] \in Spaces
    BY <1>9, <2>1, <2>2 DEF word
  <2>5. page = Take(window, n)
    BY <2>1, <2>3 DEF word
  <2> QED
    BY <2>2, <2>4, <2>5
<1>11. \A i \in 1 .. Len(window) : window[i] = rest[i]
  BY <1>1, <1>4, <1>5, TakeIs
<1>12. Take(window, 0) = <<>>
  BY <1>5, TakeNone
<1> HIDE DEF page
<1>13. ASSUME next = [page |-> full, runes |-> fit]
       PROVE  /\ next.runes \in 0 .. Len(rest)
              /\ \E k \in 0 .. next.runes :
                   /\ next.page = Take(rest, k)
                   /\ next.runes > 0 => k > 0
                   /\ \A i \in k + 1 .. next.runes : rest[i] \in Spaces
              /\ next.runes > 0 => ScreenCost(next.page) + reserve <= Budget(next.page)
  <2>1. next.runes = fit /\ next.page = full
    BY <1>13
  <2>2. full = Take(rest, fit)
    BY <1>5, <1>6 DEF full
  <2>3. fit > 0 => ScreenCost(full) + reserve <= Budget(full)
    BY <1>6 DEF Fits, full
  <2>4. fit \in 0 .. Len(rest)
    BY <1>5, <1>6
  <2> QED
    BY <2>1, <2>2, <2>3, <2>4
<1>14. ASSUME next = [page |-> page, runes |-> cut], page # <<>>
       PROVE  /\ next.runes \in 1 .. Len(rest)
              /\ \E k \in 0 .. next.runes :
                   /\ next.page = Take(rest, k)
                   /\ next.runes > 0 => k > 0
                   /\ \A i \in k + 1 .. next.runes : rest[i] \in Spaces
              /\ next.runes > 0 => ScreenCost(next.page) + reserve <= Budget(next.page)
  <2>1. next.runes = cut /\ next.page = page
    BY <1>14
  <2>2. n > 0 /\ n <= cut /\ cut <= fit /\ fit <= Len(window) /\ cut \in 1 .. Len(rest)
    BY <1>5, <1>6, <1>8, <1>10, <1>12, <1>14
  <2>3. page = Take(rest, n)
    BY <1>5, <1>6, <1>8, <1>10, <2>2
  <2>4. ScreenCost(page) + reserve <= Budget(page)
    BY <1>6, <1>10, <2>2 DEF Fits
  <2>5. \A i \in n + 1 .. cut : rest[i] \in Spaces
    BY <1>6, <1>10, <1>11, <2>2
  <2> QED
    BY <1>10, <2>1, <2>2, <2>3, <2>4, <2>5
<1>15. /\ next.runes \in 0 .. Len(rest)
       /\ \E k \in 0 .. next.runes :
            /\ next.page = Take(rest, k)
            /\ next.runes > 0 => k > 0
            /\ \A i \in k + 1 .. next.runes : rest[i] \in Spaces
       /\ next.runes > 0 => ScreenCost(next.page) + reserve <= Budget(next.page)
  BY <1>3, <1>13, <1>14
<1>16. next.runes = 0 =>
         ~(ScreenCost(Take(rest, 1)) + reserve <= Budget(Take(rest, 1)))
  <2> SUFFICES ASSUME next.runes = 0
               PROVE  ~(ScreenCost(Take(rest, 1)) + reserve <= Budget(Take(rest, 1)))
    OBVIOUS
  <2>1. next = [page |-> full, runes |-> fit]
    BY <1>3, <1>14
  <2>2. fit = 0
    BY <2>1
  <2>3. 1 \in fit + 1 .. Len(window) /\ Take(window, 1) = Take(rest, 1)
    BY <1>2, <1>5, <2>2
  <2> QED
    BY <1>6, <2>3 DEF Fits
<1> QED
  BY <1>1, <1>15, <1>16 DEF rest

(***************************************************************************)
(* Paginate goes through the runes of the trimmed body: it skips space at  *)
(* the start of a page, and gives up where nothing fits beside the reserve.*)
(***************************************************************************)
ArePages(pages, Rune, runes, reserve) ==
  /\ pages \in [0 .. Len(runes) -> Seq(Seq(Rune))]
  /\ pages[Len(runes)] = <<>>
  /\ \A at \in 0 .. Len(runes) - 1 :
       pages[at] =
         IF runes[at + 1] \in Spaces THEN pages[at + 1]
         ELSE IF PageAt(runes, at, reserve).runes = 0 THEN <<>>
         ELSE <<PageAt(runes, at, reserve).page>>
                \o pages[at + PageAt(runes, at, reserve).runes]

NoPageFits(body, reserve) ==
  \/ reserve >= MaxUCS2Units /\ EncodingOf(body) = "ucs2"
  \/ reserve >= MaxSeptets

LEMMA PaginateIs ==
  ASSUME NEW Rune, NEW body \in Seq(Rune), NEW reserve \in Nat \ {0}
  PROVE  \E pages :
    /\ ArePages(pages, Rune, TrimRight(body), reserve)
    /\ Paginate(body, reserve) = IF NoPageFits(body, reserve) THEN <<>> ELSE pages[0]
<1> DEFINE runes == TrimRight(body)
<1>1. runes \in Seq(Rune) /\ Len(runes) \in Nat
  <2>1. \E n \in 0 .. Len(body) : TrimRight(body) = Take(body, n)
    BY TrimRightIs
  <2> QED
    BY <2>1, TakeIs
<1> DEFINE last == Len(runes)
           D == 0 .. last
           V == Seq(Seq(Rune))
           P(at) == PageAt(runes, at, reserve)
           m == [at \in D |-> last - at]
           bound == last + 1
           Step(at, f) == IF at = last THEN <<>>
                          ELSE IF runes[at + 1] \in Spaces THEN f[at + 1]
                          ELSE IF P(at).runes = 0 THEN <<>>
                          ELSE <<P(at).page>> \o f[at + P(at).runes]
           G == [x \in D \X [D -> V] |-> Step(x[1], x[2])]
<1>2. ASSUME NEW at \in D, at < last
      PROVE  /\ P(at).runes \in 0 .. last - at
             /\ P(at).page \in Seq(Rune)
  <2> DEFINE next == P(at)
  <2>1. next = PageAt(runes, at, reserve)
    OBVIOUS
  <2> HIDE DEF next
  <2>2. /\ next.runes \in 0 .. last - at
        /\ \E n \in 0 .. next.runes : next.page = Take(Rest(runes, at), n)
    BY <1>1, <1>2, <2>1, PageAtIs
  <2>3. Rest(runes, at) \in Seq(Rune) /\ Len(Rest(runes, at)) = last - at
    BY <1>1, RestIs
  <2>4. PICK n \in 0 .. next.runes : next.page = Take(Rest(runes, at), n)
    BY <2>2
  <2>5. n \in 0 .. Len(Rest(runes, at))
    BY <1>1, <2>2, <2>3
  <2>6. next.page \in Seq(Rune)
    BY <2>3, <2>4, <2>5, TakeIs
  <2> QED
    BY <2>2, <2>6 DEF next
<1> HIDE DEF P
<1>3. ASSUME NEW at \in D, NEW f, \A e \in D : m[e] < m[at] => f[e] \in V
      PROVE  Step(at, f) \in V
  <2>1. CASE at = last
    BY <2>1
  <2>2. CASE at < last /\ P(at).runes = 0
    <3>1. f[at + 1] \in V
      BY <1>1, <1>3, <2>2
    <3>2. <<>> \in V
      OBVIOUS
    <3> HIDE DEF V
    <3> QED
      BY <2>2, <3>1, <3>2
  <2>3. CASE at < last /\ P(at).runes # 0
    <3>1. /\ at + 1 \in D /\ at + P(at).runes \in D
          /\ last - (at + 1) < last - at /\ last - (at + P(at).runes) < last - at
      BY <1>1, <1>2, <2>3
    <3>2. f[at + 1] \in V /\ f[at + P(at).runes] \in V
      <4> HIDE DEF V
      <4> QED
        BY <1>3, <3>1
    <3>3. <<P(at).page>> \in V
      BY <1>2, <2>3
    <3>4. <<P(at).page>> \o f[at + P(at).runes] \in V
      BY <3>2, <3>3
    <3> HIDE DEF V
    <3> QED
      BY <2>3, <3>2, <3>4
  <2> QED
    BY <1>1, <2>1, <2>2, <2>3
<1>4. ASSUME NEW at \in D, NEW f \in [D -> V], NEW g \in [D -> V],
             \A e \in D : m[e] < m[at] => f[e] = g[e]
      PROVE  Step(at, f) = Step(at, g)
  <2>1. CASE at = last
    BY <2>1
  <2>2. CASE at < last /\ P(at).runes = 0
    <3>1. f[at + 1] = g[at + 1]
      BY <1>1, <1>4, <2>2
    <3> QED
      BY <2>2, <3>1
  <2>3. CASE at < last /\ P(at).runes # 0
    <3>1. /\ at + 1 \in D /\ at + P(at).runes \in D
          /\ last - (at + 1) < last - at /\ last - (at + P(at).runes) < last - at
      BY <1>1, <1>2, <2>3
    <3>2. f[at + 1] = g[at + 1] /\ f[at + P(at).runes] = g[at + P(at).runes]
      BY <1>4, <3>1
    <3> QED
      BY <2>3, <3>2
  <2> QED
    BY <1>1, <2>1, <2>2, <2>3
<1>5. m \in [D -> Nat] /\ bound \in Nat /\ \A at \in D : m[at] < bound
  BY <1>1
<1>6. V # {}
  <2>1. <<>> \in V
    OBVIOUS
  <2> QED
    BY <2>1
<1> HIDE DEF V, Step, D
<1>7. G \in [D \X [D -> V] -> V]
      /\ \A at \in D : \A f \in [D -> V] : G[<<at, f>>] = Step(at, f)
  <2>1. \A at \in D : \A f \in [D -> V] : Step(at, f) \in V
    BY <1>3
  <2> QED
    BY <2>1
<1>8. \A at \in D : \A f, g \in [D -> V] :
        (\A e \in D : m[e] < m[at] => f[e] = g[e]) => G[<<at, f>>] = G[<<at, g>>]
  BY <1>4, <1>7
<1> HIDE DEF m, G, bound
<1>9. IsRecursion(D, V, m, bound, G)
  BY <1>5, <1>6, <1>7, <1>8 DEF IsRecursion
<1>10. PICK f \in [D -> V] : \A at \in D : f[at] = G[<<at, f>>]
  BY <1>9, RecursionIsSound
<1>11. \A at \in D : f[at] = Step(at, f)
  BY <1>7, <1>10
<1> DEFINE Defined(h) ==
      h = [at \in 0 .. Len(TrimRight(body)) |->
            LET next == PageAt(TrimRight(body), at, reserve)
            IN CASE at = Len(TrimRight(body)) -> <<>>
                 [] at < Len(TrimRight(body)) /\ TrimRight(body)[at + 1] \in Spaces -> h[at + 1]
                 [] OTHER -> IF next.runes = 0 THEN <<>>
                             ELSE <<next.page>> \o
                                  h[Least(at + next.runes, Len(TrimRight(body)))]]
           Meets(h, at) ==
             h[at] = CASE at = last -> <<>>
                       [] at < last /\ runes[at + 1] \in Spaces -> h[at + 1]
                       [] OTHER -> IF P(at).runes = 0 THEN <<>>
                                   ELSE <<P(at).page>> \o h[Least(at + P(at).runes, last)]
<1>12. ASSUME NEW h, NEW at \in D PROVE Meets(h, at) <=> h[at] = Step(at, h)
  <2>1. CASE at = last
    BY <2>1 DEF Step
  <2>2. CASE at < last
    <3>1. Least(at + P(at).runes, last) = at + P(at).runes
      BY <1>1, <1>2, <2>2 DEF Least, D
    <3> QED
      BY <1>1, <2>2, <3>1 DEF Step
  <2> QED
    BY <1>1, <2>1, <2>2 DEF D
<1>13. ASSUME NEW h
       PROVE  Defined(h) <=> h = [at \in D |->
                                   CASE at = last -> <<>>
                                     [] at < last /\ runes[at + 1] \in Spaces -> h[at + 1]
                                     [] OTHER -> IF P(at).runes = 0 THEN <<>>
                                                 ELSE <<P(at).page>> \o
                                                      h[Least(at + P(at).runes, last)]]
  BY DEF P, D
<1>14. Defined(f)
  <2> HIDE DEF Defined
  <2>1. \A at \in D : Meets(f, at)
    BY <1>11, <1>12
  <2>2. f = [at \in D |-> f[at]]
    BY <1>10
  <2> QED
    BY <1>13, <2>1, <2>2
<1>15. (\E h : Defined(h)) =>
         \E h : /\ Defined(h)
                /\ Paginate(body, reserve) =
                     IF NoPageFits(body, reserve) THEN <<>> ELSE h[0]
  BY Zenon DEF Paginate, NoPageFits
<1>16. PICK h : /\ Defined(h)
                /\ Paginate(body, reserve) =
                     IF NoPageFits(body, reserve) THEN <<>> ELSE h[0]
  BY <1>14, <1>15, Zenon
<1> HIDE DEF Defined
<1>17. DOMAIN h = D /\ \A at \in D : h[at] = Step(at, h)
  <2>1. DOMAIN h = D /\ \A at \in D : Meets(h, at)
    BY <1>13, <1>16
  <2> QED
    BY <1>12, <2>1
<1>18. h \in [D -> V]
  <2> DEFINE S == {at \in D : h[at] \in V}
  <2>1. ASSUME NEW at \in D, \A e \in D : m[e] < m[at] => e \in S PROVE at \in S
    <3>1. \A e \in D : m[e] < m[at] => h[e] \in V
      BY <2>1
    <3>2. Step(at, h) \in V
      BY <1>3, <3>1
    <3> QED
      BY <1>17, <3>2
  <2> HIDE DEF S
  <2>2. D \subseteq S
    BY <1>5, <2>1, MeasureInduction
  <2>3. \A at \in D : h[at] \in V
    BY <2>2 DEF S
  <2>4. h = [at \in D |-> h[at]]
    BY <1>13, <1>16
  <2> QED
    BY <2>3, <2>4
<1>19. h[last] = <<>>
  <2>1. last \in D
    BY <1>1 DEF D
  <2> QED
    BY <1>17, <2>1 DEF Step
<1>20. ASSUME NEW at \in 0 .. last - 1
       PROVE  h[at] = IF runes[at + 1] \in Spaces THEN h[at + 1]
                      ELSE IF P(at).runes = 0 THEN <<>>
                      ELSE <<P(at).page>> \o h[at + P(at).runes]
  <2>1. at \in D /\ at # last
    BY <1>1 DEF D
  <2> QED
    BY <1>17, <2>1 DEF Step
<1>21. ArePages(h, Rune, runes, reserve)
  BY <1>18, <1>19, <1>20 DEF P, D, V, ArePages
<1> HIDE DEF D, V, P, Step, Meets, m, bound, G
<1> QED
  BY <1>16, <1>21

\* What holds of the end of a text, and at any place if it holds at all behind
\* it, holds at the start.
LEMMA BackwardInduction ==
  ASSUME NEW N \in Nat, NEW S,
         \A n \in 0 .. N : (\A k \in n + 1 .. N : k \in S) => n \in S
  PROVE  \A n \in 0 .. N : n \in S
<1> DEFINE D == 0 .. N
           m == [n \in D |-> N - n]
<1>1. m \in [D -> Nat]
  OBVIOUS
<1>2. ASSUME NEW n \in D, \A e \in D : m[e] < m[n] => e \in S PROVE n \in S
  <2>1. ASSUME NEW k \in n + 1 .. N PROVE k \in S
    <3>1. k \in D /\ m[k] < m[n]
      OBVIOUS
    <3> QED
      BY <1>2, <3>1
  <2> QED
    BY <2>1
<1> HIDE DEF m, D
<1>3. D \subseteq S
  BY <1>1, <1>2, MeasureInduction
<1> QED
  BY <1>3 DEF D

(***************************************************************************)
(* Every page of any text fits beside the reserve (render.go:117-122).     *)
(***************************************************************************)
THEOREM EveryPageFits ==
  ASSUME NEW Rune, NEW text \in Seq(Rune), NEW reserve \in Nat \ {0}
  PROVE  PagesFitBeside(text, reserve)
<1> DEFINE runes == TrimRight(text)
           Fits(page) == page # <<>> /\ ScreenCost(page) + reserve <= Budget(page)
           P(at) == PageAt(runes, at, reserve)
<1>1. runes \in Seq(Rune) /\ Len(runes) \in Nat
  <2>1. \E n \in 0 .. Len(text) : TrimRight(text) = Take(text, n)
    BY TrimRightIs
  <2> QED
    BY <2>1, TakeIs
<1>2. PICK pages : /\ ArePages(pages, Rune, runes, reserve)
                   /\ Paginate(text, reserve) =
                        IF NoPageFits(text, reserve) THEN <<>> ELSE pages[0]
  BY PaginateIs
<1> HIDE DEF runes
<1> USE DEF ArePages
<1>3. ASSUME NEW at \in 0 .. Len(runes) - 1, P(at).runes # 0
      PROVE  /\ P(at).runes \in 1 .. Len(runes) - at
             /\ Fits(P(at).page) /\ P(at).page \in Seq(Rune)
  <2> DEFINE next == P(at)
  <2>1. next = PageAt(runes, at, reserve)
    OBVIOUS
  <2> HIDE DEF next
  <2>2. at \in 0 .. Len(runes) /\ at < Len(runes)
    BY <1>1
  <2>3. /\ next.runes \in 0 .. Len(runes) - at
        /\ \E n \in 0 .. next.runes : /\ next.page = Take(Rest(runes, at), n)
                                      /\ next.runes > 0 => n > 0
        /\ next.runes > 0 => ScreenCost(next.page) + reserve <= Budget(next.page)
    BY <1>1, <2>1, <2>2, PageAtIs
  <2>4. next.runes # 0
    BY <1>3 DEF next
  <2>5. next.runes \in 1 .. Len(runes) - at
    BY <1>1, <2>2, <2>3, <2>4
  <2>6. PICK n \in 1 .. next.runes : next.page = Take(Rest(runes, at), n)
    BY <2>3, <2>5
  <2>7. Rest(runes, at) \in Seq(Rune) /\ n \in 0 .. Len(Rest(runes, at))
    BY <1>1, <2>2, <2>5, RestIs
  <2>8. next.page \in Seq(Rune) /\ Len(next.page) = n
    BY <2>6, <2>7, TakeIs
  <2>9. Fits(next.page)
    BY <2>3, <2>5, <2>8
  <2> QED
    BY <2>5, <2>8, <2>9 DEF next
<1> HIDE DEF P, Fits
<1> DEFINE S == {at \in 0 .. Len(runes) :
                   \A i \in 1 .. Len(pages[at]) : Fits(pages[at][i])}
<1>4. ASSUME NEW at \in 0 .. Len(runes), \A k \in at + 1 .. Len(runes) : k \in S
      PROVE  at \in S
  <2> SUFFICES ASSUME NEW i \in 1 .. Len(pages[at]) PROVE Fits(pages[at][i])
    OBVIOUS
  <2>1. CASE at = Len(runes)
    BY <1>2, <2>1
  <2>2. CASE at < Len(runes) /\ runes[at + 1] \in Spaces
    <3>1. at \in 0 .. Len(runes) - 1 /\ at + 1 \in at + 1 .. Len(runes)
      BY <1>1, <2>2
    <3>2. pages[at] = pages[at + 1]
      BY <1>2, <2>2, <3>1
    <3>3. at + 1 \in S
      BY <1>4, <3>1
    <3> QED
      BY <3>2, <3>3
  <2>3. CASE at < Len(runes) /\ runes[at + 1] \notin Spaces /\ P(at).runes = 0
    <3>1. at \in 0 .. Len(runes) - 1
      BY <1>1, <2>3
    <3>2. pages[at] = <<>>
      BY <1>2, <2>3, <3>1 DEF P
    <3> QED
      BY <3>2
  <2>4. CASE at < Len(runes) /\ runes[at + 1] \notin Spaces /\ P(at).runes # 0
    <3> DEFINE page == P(at).page
               behind == at + P(at).runes
    <3>1. at \in 0 .. Len(runes) - 1
      BY <1>1, <2>4
    <3>2. behind \in at + 1 .. Len(runes) /\ Fits(page) /\ page \in Seq(Rune)
      BY <1>1, <1>3, <2>4, <3>1
    <3>3. pages[at] = <<page>> \o pages[behind]
      BY <1>2, <2>4, <3>1 DEF P
    <3> HIDE DEF page, behind
    <3>4. behind \in S /\ pages[behind] \in Seq(Seq(Rune)) /\ <<page>> \in Seq(Seq(Rune))
      BY <1>2, <1>4, <3>2
    <3>5. /\ Len(pages[at]) = 1 + Len(pages[behind]) /\ Len(pages[behind]) \in Nat
          /\ pages[at][i] = IF i <= 1 THEN <<page>>[i] ELSE pages[behind][i - 1]
      BY <3>3, <3>4
    <3>6. CASE i = 1
      BY <3>2, <3>5, <3>6
    <3>7. CASE i # 1
      <4>1. i - 1 \in 1 .. Len(pages[behind])
        BY <3>5, <3>7
      <4> QED
        BY <3>4, <3>5, <3>7, <4>1
    <3> QED
      BY <3>6, <3>7
  <2> QED
    BY <1>1, <2>1, <2>2, <2>3, <2>4
<1>5. 0 \in S
  <2> HIDE DEF S
  <2>1. \A at \in 0 .. Len(runes) : at \in S
    BY <1>1, <1>4, BackwardInduction
  <2> QED
    BY <1>1, <2>1
<1>6. \A i \in 1 .. Len(Paginate(text, reserve)) : Fits(Paginate(text, reserve)[i])
  BY <1>2, <1>5
<1>7. DOMAIN Paginate(text, reserve) = 1 .. Len(Paginate(text, reserve))
  <2>1. Paginate(text, reserve) \in Seq(Seq(Rune))
    BY <1>1, <1>2
  <2> QED
    BY <2>1
<1>8. \A page \in ToSet(Paginate(text, reserve)) : Fits(page)
  BY <1>6, <1>7 DEF ToSet
<1> QED
  BY <1>8 DEF PagesFitBeside, Fits

----------------------------------------------------------------------------
(* What a recursion along a text puts together *)

IsPrimitive(h, N, V, base, step) ==
  /\ h \in [0 .. N -> V] /\ h[0] = base
  /\ \A n \in 1 .. N : h[n] = step[<<n, h[n - 1]>>]

LEMMA PrimitiveRecursion ==
  ASSUME NEW N \in Nat, NEW V, NEW base \in V, NEW step \in [(1 .. N) \X V -> V]
  PROVE  \E h : IsPrimitive(h, N, V, base, step)
<1> DEFINE D == 0 .. N
           m == [n \in D |-> n]
           bound == N + 1
           G == [x \in D \X [D -> V] |->
                   IF x[1] = 0 THEN base ELSE step[<<x[1], x[2][x[1] - 1]>>]]
<1>1. V # {} /\ bound \in Nat /\ m \in [D -> Nat] /\ \A n \in D : m[n] < bound
  OBVIOUS
<1>2. G \in [D \X [D -> V] -> V]
  <2> SUFFICES ASSUME NEW n \in D, NEW f \in [D -> V]
               PROVE  (IF n = 0 THEN base ELSE step[<<n, f[n - 1]>>]) \in V
    OBVIOUS
  <2>1. n # 0 => n \in 1 .. N /\ f[n - 1] \in V
    OBVIOUS
  <2> QED
    BY <2>1
<1>3. \A n \in D : \A f \in [D -> V] :
        G[<<n, f>>] = IF n = 0 THEN base ELSE step[<<n, f[n - 1]>>]
  OBVIOUS
<1> HIDE DEF G
<1>4. \A n \in D : \A f, g \in [D -> V] :
        (\A e \in D : m[e] < m[n] => f[e] = g[e]) => G[<<n, f>>] = G[<<n, g>>]
  <2> SUFFICES ASSUME NEW n \in D, NEW f \in [D -> V], NEW g \in [D -> V],
                      \A e \in D : m[e] < m[n] => f[e] = g[e]
               PROVE  G[<<n, f>>] = G[<<n, g>>]
    OBVIOUS
  <2>1. n # 0 => f[n - 1] = g[n - 1]
    OBVIOUS
  <2> QED
    BY <1>3, <2>1
<1>5. IsRecursion(D, V, m, bound, G)
  <2> HIDE DEF D, m, bound
  <2> QED
    BY <1>1, <1>2, <1>4 DEF IsRecursion
<1>6. PICK h \in [D -> V] : \A n \in D : h[n] = G[<<n, h>>]
  <2> HIDE DEF D, m, bound
  <2> QED
    BY <1>5, RecursionIsSound
<1>7. ASSUME NEW n \in D
      PROVE  h[n] = IF n = 0 THEN base ELSE step[<<n, h[n - 1]>>]
  BY <1>3, <1>6, Zenon
<1>8. h[0] = base /\ \A n \in 1 .. N : h[n] = step[<<n, h[n - 1]>>]
  <2>1. 0 \in D /\ \A n \in 1 .. N : n \in D /\ n # 0
    OBVIOUS
  <2> HIDE DEF D
  <2> QED
    BY <1>7, <2>1
<1> QED
  BY <1>6, <1>8 DEF IsPrimitive

\* h puts together what w has at each place.
Puts(h, N, w) ==
  h[0] = <<>> /\ \A n \in 1 .. N : h[n] = h[n - 1] \o w[n]

IsFold(h, N, w, Rune) ==
  h \in [0 .. N -> Seq(Rune)] /\ Puts(h, N, w)

LEMMA FoldExists ==
  ASSUME NEW N \in Nat, NEW Rune, NEW w \in [1 .. N -> Seq(Rune)]
  PROVE  \E h : IsFold(h, N, w, Rune)
<1> DEFINE V == Seq(Rune)
           step == [x \in (1 .. N) \X V |-> x[2] \o w[x[1]]]
           base == <<>>
<1>1. base \in V
  OBVIOUS
<1>2. step \in [(1 .. N) \X V -> V]
  <2> SUFFICES ASSUME NEW n \in 1 .. N, NEW v \in V PROVE v \o w[n] \in V
    OBVIOUS
  <2> QED
    OBVIOUS
<1>3. \A n \in 1 .. N : \A v \in V : step[<<n, v>>] = v \o w[n]
  OBVIOUS
<1> HIDE DEF V, step, base
<1>4. PICK h : IsPrimitive(h, N, V, base, step)
  BY <1>1, <1>2, PrimitiveRecursion
<1>5. \A n \in 1 .. N : h[n - 1] \in V /\ h[n] = step[<<n, h[n - 1]>>]
  BY <1>4 DEF IsPrimitive
<1>6. \A n \in 1 .. N : h[n] = h[n - 1] \o w[n]
  BY <1>3, <1>5
<1>7. h[0] = <<>> /\ h \in [0 .. N -> Seq(Rune)]
  BY <1>4 DEF IsPrimitive, base, V
<1> QED
  BY <1>6, <1>7 DEF IsFold, Puts

LEMMA FoldIs ==
  ASSUME NEW N \in Nat, NEW Rune, NEW w \in [1 .. N -> Seq(Rune)],
         NEW h, h = [n \in 0 .. N |-> h[n]], Puts(h, N, w)
  PROVE  IsFold(h, N, w, Rune)
<1> DEFINE IsText(n) == h[n] \in Seq(Rune)
           S == {n \in 0 .. N : IsText(n)}
<1>1. IsText(0)
  <2>1. h[0] = <<>>
    BY Zenon DEF Puts
  <2> QED
    BY <2>1
<1>2. ASSUME NEW n \in 0 .. N - 1, IsText(n) PROVE IsText(n + 1)
  <2>1. n + 1 \in 1 .. N /\ (n + 1) - 1 = n
    OBVIOUS
  <2>2. h[n + 1] = h[(n + 1) - 1] \o w[n + 1]
    BY <2>1, Zenon DEF Puts
  <2>3. h[n + 1] = h[n] \o w[n + 1]
    BY <2>1, <2>2, Zenon
  <2> DEFINE a == h[n]
             b == w[n + 1]
  <2>4. a \in Seq(Rune) /\ b \in Seq(Rune)
    BY <1>2
  <2>5. h[n + 1] = a \o b
    BY <2>3
  <2> HIDE DEF a, b
  <2>6. a \o b \in Seq(Rune)
    BY <2>4
  <2> QED
    BY <2>5, <2>6, Zenon
<1> HIDE DEF IsText
<1>3. 0 \in S /\ \A n \in 0 .. N : n \in S /\ n < N => n + 1 \in S
  BY <1>1, <1>2
<1> HIDE DEF S
<1>4. \A n \in 0 .. N : n \in S
  BY <1>3, InductionTo
<1>5. \A n \in 0 .. N : h[n] \in Seq(Rune)
  BY <1>4 DEF S, IsText
<1>6. [n \in 0 .. N |-> h[n]] \in [0 .. N -> Seq(Rune)]
  BY <1>5, Zenon
<1>7. h \in [0 .. N -> Seq(Rune)]
  BY <1>6, Zenon
<1> QED
  BY <1>7 DEF IsFold

LEMMA FlattenIs ==
  ASSUME NEW Rune, NEW ss \in Seq(Seq(Rune))
  PROVE  \E h : IsFold(h, Len(ss), ss, Rune) /\ FlattenSeq(ss) = h[Len(ss)]
<1> DEFINE N == Len(ss)
           Defined(h) == h = [i \in 1 .. Len(ss) |->
                                IF i = 1 THEN ss[i] ELSE h[i - 1] \o ss[i]]
<1>1. N \in Nat /\ ss \in [1 .. N -> Seq(Rune)]
  OBVIOUS
<1>2. \E h : Defined(h)
  <2>1. PICK f : IsFold(f, N, ss, Rune)
    BY <1>1, FoldExists
  <2> DEFINE g == [i \in 1 .. N |-> f[i]]
  <2>2. /\ f \in [0 .. N -> Seq(Rune)] /\ f[0] = <<>>
        /\ \A i \in 1 .. N : f[i] = f[i - 1] \o ss[i]
    BY <2>1 DEF IsFold, Puts
  <2>3. ASSUME NEW i \in 1 .. N
        PROVE  g[i] = IF i = 1 THEN ss[i] ELSE g[i - 1] \o ss[i]
    <3> DEFINE b == ss[i]
    <3>1. f[i] = f[i - 1] \o b /\ b \in Seq(Rune)
      BY <1>1, <2>2
    <3>2. CASE i = 1
      <4>1. f[i - 1] = <<>>
        BY <2>2, <3>2
      <4> HIDE DEF b
      <4>2. <<>> \o b = b
        BY <3>1, ConcatEmptySeq
      <4>3. f[i] = b
        BY <3>1, <4>1, <4>2, Zenon
      <4> QED
        BY <3>2, <4>3 DEF b
    <3>3. CASE i # 1
      <4>1. i - 1 \in 1 .. N
        BY <3>3
      <4>2. g[i - 1] = f[i - 1] /\ g[i] = f[i]
        BY <4>1
      <4> HIDE DEF g
      <4> QED
        BY <3>1, <3>3, <4>2, Zenon
    <3> QED
      BY <3>2, <3>3
  <2>4. Defined(g)
    <3>1. g = [i \in 1 .. N |-> g[i]]
      OBVIOUS
    <3>2. [i \in 1 .. N |-> g[i]] =
            [i \in 1 .. N |-> IF i = 1 THEN ss[i] ELSE g[i - 1] \o ss[i]]
      <4> HIDE DEF g
      <4> QED
        BY <2>3, Zenon
    <3> HIDE DEF g
    <3> QED
      BY <3>1, <3>2, Zenon
  <2> QED
    BY <2>4, Zenon
<1>3. (\E h : Defined(h)) =>
        \E h : Defined(h) /\ FlattenSeq(ss) = IF Len(ss) = 0 THEN ss ELSE h[Len(ss)]
  BY Zenon DEF FlattenSeq
<1>4. PICK h : Defined(h) /\ FlattenSeq(ss) = IF Len(ss) = 0 THEN ss ELSE h[Len(ss)]
  BY <1>2, <1>3, Zenon
<1> DEFINE k == [i \in 0 .. N |-> IF i = 0 THEN <<>> ELSE h[i]]
<1>5. ASSUME NEW i \in 1 .. N PROVE k[i] = k[i - 1] \o ss[i]
  <2> DEFINE b == ss[i]
  <2>1. k[i] = h[i]
    OBVIOUS
  <2>2. h[i] = IF i = 1 THEN b ELSE h[i - 1] \o b
    BY <1>4, Zenon
  <2>3. k[i - 1] = IF i = 1 THEN <<>> ELSE h[i - 1]
    OBVIOUS
  <2>4. b \in Seq(Rune)
    BY <1>1
  <2> HIDE DEF b, k
  <2>5. <<>> \o b = b
    BY <2>4, ConcatEmptySeq
  <2>6. k[i] = k[i - 1] \o b
    BY <2>1, <2>2, <2>3, <2>5, Zenon
  <2> QED
    BY <2>6 DEF b
<1>6. k[0] = <<>> /\ k = [i \in 0 .. N |-> k[i]]
  OBVIOUS
<1>7. FlattenSeq(ss) = k[N]
  <2>1. CASE N = 0
    BY <1>4, <2>1
  <2>2. CASE N # 0
    BY <1>1, <1>4, <2>2
  <2> QED
    BY <2>1, <2>2
<1> HIDE DEF k
<1>8. Puts(k, N, ss)
  BY <1>5, <1>6, Zenon DEF Puts
<1>9. IsFold(k, N, ss, Rune)
  BY <1>1, <1>6, <1>8, FoldIs
<1> QED
  BY <1>7, <1>9

LEMMA FlattenConcat ==
  ASSUME NEW Rune, NEW u \in Seq(Seq(Rune)), NEW v \in Seq(Seq(Rune))
  PROVE  FlattenSeq(u \o v) = FlattenSeq(u) \o FlattenSeq(v)
<1> DEFINE M == Len(u)
           N == Len(v)
           w == u \o v
<1>1. /\ M \in Nat /\ N \in Nat /\ w \in Seq(Seq(Rune)) /\ Len(w) = M + N
      /\ \A i \in 1 .. M : w[i] = u[i]
      /\ \A j \in 1 .. N : w[M + j] = v[j]
  <2>1. /\ M \in Nat /\ N \in Nat /\ w \in Seq(Seq(Rune)) /\ Len(w) = M + N
        /\ \A i \in 1 .. M + N : w[i] = IF i <= M THEN u[i] ELSE v[i - M]
    BY ConcatProperties
  <2> HIDE DEF w, M, N
  <2>2. ASSUME NEW i \in 1 .. M PROVE w[i] = u[i]
    BY <2>1
  <2>3. ASSUME NEW j \in 1 .. N PROVE w[M + j] = v[j]
    <3>1. M + j \in 1 .. M + N /\ ~(M + j <= M) /\ (M + j) - M = j
      BY <2>1
    <3> QED
      BY <2>1, <3>1
  <2> QED
    BY <2>1, <2>2, <2>3
<1>2. /\ u \in [1 .. M -> Seq(Rune)] /\ v \in [1 .. N -> Seq(Rune)]
  OBVIOUS
<1>3. w \in [1 .. M + N -> Seq(Rune)]
  <2> HIDE DEF w, M, N
  <2> QED
    BY <1>1
<1>4. PICK f : IsFold(f, M, u, Rune) /\ FlattenSeq(u) = f[M]
  BY FlattenIs
<1>5. PICK g : IsFold(g, N, v, Rune) /\ FlattenSeq(v) = g[N]
  BY FlattenIs
<1> HIDE DEF w, M, N
<1>6. PICK h : IsFold(h, Len(w), w, Rune) /\ FlattenSeq(w) = h[Len(w)]
  BY <1>1, FlattenIs
<1>7. IsFold(h, M + N, w, Rune) /\ FlattenSeq(w) = h[M + N]
  BY <1>1, <1>6
<1>8. h[M + N] = f[M] \o g[N]
  <2>1. /\ w \in [1 .. M + N -> Seq(Rune)]
        /\ u \in [1 .. M -> Seq(Rune)] /\ v \in [1 .. N -> Seq(Rune)]
        /\ M \in Nat /\ N \in Nat
        /\ \A i \in 1 .. M : w[i] = u[i]
        /\ \A j \in 1 .. N : w[M + j] = v[j]
        /\ h \in [0 .. M + N -> Seq(Rune)]
        /\ f \in [0 .. M -> Seq(Rune)]
        /\ g \in [0 .. N -> Seq(Rune)]
        /\ h[0] = <<>> /\ f[0] = <<>> /\ g[0] = <<>>
        /\ \A n \in 1 .. M + N : h[n] = h[n - 1] \o w[n]
        /\ \A n \in 1 .. M : f[n] = f[n - 1] \o u[n]
        /\ \A n \in 1 .. N : g[n] = g[n - 1] \o v[n]
    BY <1>1, <1>2, <1>3, <1>4, <1>5, <1>7 DEF IsFold, Puts
  <2>0. M \in Nat /\ N \in Nat
    BY <2>1
  <2> DEFINE Behind(n) == h[M + n] = f[M] \o g[n]
             S == {n \in 0 .. M : h[n] = f[n]}
             T == {n \in 0 .. N : Behind(n)}
  <2>2. 0 \in S
    BY <2>1
  <2>3. ASSUME NEW n \in 0 .. M, n \in S, n < M PROVE n + 1 \in S
    <3>1. n + 1 \in 1 .. M /\ n + 1 \in 1 .. M + N /\ (n + 1) - 1 = n
      BY <2>0, <2>3
    <3>2. h[n + 1] = h[n] \o w[n + 1] /\ f[n + 1] = f[n] \o u[n + 1]
      BY <2>1, <3>1
    <3>3. h[n] = f[n] /\ w[n + 1] = u[n + 1]
      BY <2>0, <2>1, <2>3, <3>1
    <3>4. h[n + 1] = f[n + 1]
      BY <3>2, <3>3, Zenon
    <3> QED
      BY <3>1, <3>4
  <2> HIDE DEF S
  <2>4. h[M] = f[M]
    <3>1. \A n \in 0 .. M : n \in S
      BY <2>0, <2>2, <2>3, InductionTo
    <3> QED
      BY <2>0, <3>1 DEF S
  <2>5. Behind(0)
    <3>1. f[M] \in Seq(Rune) /\ h[M + 0] = f[M] /\ g[0] = <<>>
      BY <2>1, <2>4
    <3> DEFINE a == f[M]
    <3> HIDE DEF a
    <3>2. a \o <<>> = a
      BY <3>1, ConcatEmptySeq DEF a
    <3> QED
      BY <3>1, <3>2 DEF a
  <2>6. ASSUME NEW n \in 0 .. N - 1, Behind(n) PROVE Behind(n + 1)
    <3> DEFINE a == f[M]
               b == g[n]
               c == v[n + 1]
    <3>1. a \in Seq(Rune) /\ b \in Seq(Rune) /\ c \in Seq(Rune)
      <4>1. M \in 0 .. M /\ n \in 0 .. N /\ n + 1 \in 1 .. N
        BY <2>0
      <4> QED
        BY <2>1, <4>1, Zenon
    <3>2. h[M + n] = a \o b
      BY <2>6
    <3>3. g[n + 1] = b \o c
      <4>1. n + 1 \in 1 .. N /\ (n + 1) - 1 = n
        BY <2>0
      <4> QED
        BY <2>1, <4>1
    <3>4. h[M + (n + 1)] = h[M + n] \o c
      <4>1. M + (n + 1) \in 1 .. M + N /\ (M + (n + 1)) - 1 = M + n
        BY <2>0
      <4>2. w[M + (n + 1)] = c
        BY <2>0, <2>1
      <4>3. h[M + (n + 1)] = h[(M + (n + 1)) - 1] \o w[M + (n + 1)]
        BY <2>1, <4>1
      <4> QED
        BY <4>1, <4>2, <4>3
    <3>5. Behind(n + 1) <=> h[M + (n + 1)] = a \o g[n + 1]
      OBVIOUS
    <3> HIDE DEF a, b, c, Behind
    <3>6. (a \o b) \o c = a \o (b \o c)
      BY <3>1, ConcatAssociative, SMTT(30)
    <3> QED
      BY <3>2, <3>3, <3>4, <3>5, <3>6
  <2> HIDE DEF Behind
  <2>7. 0 \in T /\ \A n \in 0 .. N : n \in T /\ n < N => n + 1 \in T
    BY <2>0, <2>5, <2>6
  <2> HIDE DEF T
  <2>8. Behind(N)
    <3>1. \A n \in 0 .. N : n \in T
      BY <2>0, <2>7, InductionTo
    <3> QED
      BY <2>0, <3>1 DEF T
  <2> QED
    BY <2>8 DEF Behind
<1> QED
  BY <1>4, <1>5, <1>7, <1>8 DEF w

LEMMA FlattenIsText ==
  ASSUME NEW Rune, NEW ss \in Seq(Seq(Rune))
  PROVE  FlattenSeq(ss) \in Seq(Rune)
<1>1. PICK h : IsFold(h, Len(ss), ss, Rune) /\ FlattenSeq(ss) = h[Len(ss)]
  BY FlattenIs
<1>2. h \in [0 .. Len(ss) -> Seq(Rune)] /\ Len(ss) \in 0 .. Len(ss)
  BY <1>1 DEF IsFold
<1> QED
  BY <1>1, <1>2, Zenon

LEMMA FlattenOne ==
  ASSUME NEW Rune, NEW s \in Seq(Rune)
  PROVE  FlattenSeq(<<s>>) = s
<1> DEFINE ss == <<s>>
<1>1. ss \in Seq(Seq(Rune)) /\ Len(ss) = 1 /\ ss[1] = s
  OBVIOUS
<1> HIDE DEF ss
<1>2. PICK h : IsFold(h, Len(ss), ss, Rune) /\ FlattenSeq(ss) = h[Len(ss)]
  BY <1>1, FlattenIs
<1>3. h[0] = <<>> /\ h[1] = h[1 - 1] \o ss[1]
  BY <1>1, <1>2 DEF IsFold, Puts
<1>4. h[1] = <<>> \o s
  BY <1>1, <1>3
<1>5. <<>> \o s = s
  BY ConcatEmptySeq
<1> QED
  BY <1>1, <1>2, <1>4, <1>5 DEF ss

LEMMA FlattenNothing ==
  ASSUME NEW ss, NEW N \in Nat, ss \in [1 .. N -> {<<>>}]
  PROVE  FlattenSeq(ss) = <<>>
<1>1. ss \in Seq(Seq({})) /\ Len(ss) = N
  <2> DEFINE nothing == <<>>
  <2>1. nothing \in Seq({}) /\ \A i \in 1 .. N : ss[i] = nothing
    OBVIOUS
  <2> HIDE DEF nothing
  <2>2. ss \in [1 .. N -> Seq({})]
    BY <2>1
  <2> QED
    BY <2>2
<1>2. PICK h : IsFold(h, N, ss, {}) /\ FlattenSeq(ss) = h[N]
  BY <1>1, FlattenIs
<1>3. h \in [0 .. N -> Seq({})] /\ N \in 0 .. N
  BY <1>2 DEF IsFold
<1>4. h[N] \in Seq({})
  BY <1>3, Zenon
<1> QED
  BY <1>2, <1>4

----------------------------------------------------------------------------
(* What is read of a text *)

InkOf(r) == IF r \in Spaces THEN <<>> ELSE <<r>>
Inks(s) == [i \in DOMAIN s |-> InkOf(s[i])]

LEMMA InksAre ==
  ASSUME NEW Rune, NEW s \in Seq(Rune)
  PROVE  /\ Inks(s) \in Seq(Seq(Rune)) /\ Len(Inks(s)) = Len(s)
         /\ \A i \in 1 .. Len(s) : Inks(s)[i] = InkOf(s[i])
         /\ Inked(s) = FlattenSeq(Inks(s))
<1>1. Len(s) \in Nat /\ DOMAIN s = 1 .. Len(s) /\ \A i \in 1 .. Len(s) : s[i] \in Rune
  OBVIOUS
<1>2. Inked(s) = FlattenSeq(Inks(s))
  BY DEF Inked, Inks, InkOf
<1>3. \A r \in Rune : InkOf(r) \in Seq(Rune)
  BY DEF InkOf
<1>4. Inks(s) \in [1 .. Len(s) -> Seq(Rune)]
  BY <1>1, <1>3 DEF Inks
<1>5. Inks(s) \in Seq(Seq(Rune)) /\ Len(Inks(s)) = Len(s)
  <2> DEFINE ss == Inks(s)
             N == Len(s)
  <2>1. ss \in [1 .. N -> Seq(Rune)] /\ N \in Nat
    BY <1>1, <1>4
  <2> HIDE DEF ss, N
  <2>2. ss \in Seq(Seq(Rune)) /\ Len(ss) = N
    BY <2>1
  <2> QED
    BY <2>2 DEF ss, N
<1>6. \A i \in 1 .. Len(s) : Inks(s)[i] = InkOf(s[i])
  BY <1>1 DEF Inks
<1> QED
  BY <1>2, <1>5, <1>6

LEMMA InkedIsText ==
  ASSUME NEW Rune, NEW s \in Seq(Rune)
  PROVE  Inked(s) \in Seq(Rune)
BY InksAre, FlattenIsText, Zenon

LEMMA InkedConcat ==
  ASSUME NEW Rune, NEW s \in Seq(Rune), NEW t \in Seq(Rune)
  PROVE  Inked(s \o t) = Inked(s) \o Inked(t)
<1> DEFINE st == s \o t
           a == Inks(s)
           b == Inks(t)
           ab == Inks(st)
<1>1. /\ st \in Seq(Rune) /\ Len(st) = Len(s) + Len(t)
      /\ Len(s) \in Nat /\ Len(t) \in Nat
      /\ \A i \in 1 .. Len(s) + Len(t) : st[i] = IF i <= Len(s) THEN s[i] ELSE t[i - Len(s)]
  BY ConcatProperties
<1> HIDE DEF st
<1>2. /\ ab \in Seq(Seq(Rune)) /\ Len(ab) = Len(st)
      /\ \A i \in 1 .. Len(st) : ab[i] = InkOf(st[i])
      /\ Inked(st) = FlattenSeq(ab)
  BY <1>1, InksAre
<1>3. /\ a \in Seq(Seq(Rune)) /\ Len(a) = Len(s)
      /\ \A i \in 1 .. Len(s) : a[i] = InkOf(s[i])
      /\ Inked(s) = FlattenSeq(a)
  BY InksAre
<1>4. /\ b \in Seq(Seq(Rune)) /\ Len(b) = Len(t)
      /\ \A i \in 1 .. Len(t) : b[i] = InkOf(t[i])
      /\ Inked(t) = FlattenSeq(b)
  BY InksAre
<1> HIDE DEF a, b, ab
<1>5. ab = a \o b
  <2> DEFINE Text == Seq(Rune)
             both == a \o b
  <2>1. a \in Seq(Text) /\ b \in Seq(Text) /\ ab \in Seq(Text)
    BY <1>2, <1>3, <1>4
  <2> HIDE DEF Text
  <2>2. /\ both \in Seq(Text) /\ Len(both) = Len(a) + Len(b)
        /\ \A i \in 1 .. Len(a) + Len(b) : both[i] = IF i <= Len(a) THEN a[i] ELSE b[i - Len(a)]
    BY <2>1, ConcatProperties
  <2> HIDE DEF both
  <2>3. ASSUME NEW i \in 1 .. Len(s) + Len(t) PROVE ab[i] = both[i]
    <3>1. CASE i <= Len(s)
      <4>1. i \in 1 .. Len(s)
        BY <1>1, <3>1
      <4> QED
        BY <1>1, <1>2, <1>3, <1>4, <2>2, <3>1, <4>1
    <3>2. CASE i > Len(s)
      <4>1. i - Len(s) \in 1 .. Len(t) /\ ~(i <= Len(s))
        BY <1>1, <3>2
      <4> QED
        BY <1>1, <1>2, <1>3, <1>4, <2>2, <4>1
    <3> QED
      BY <1>1, <3>1, <3>2
  <2>4. Len(ab) = Len(s) + Len(t) /\ Len(both) = Len(s) + Len(t)
    BY <1>1, <1>2, <1>3, <1>4, <2>2
  <2>5. ab = both
    BY <2>1, <2>2, <2>3, <2>4, SeqEqual
  <2> QED
    BY <2>5 DEF both
<1>6. FlattenSeq(ab) = FlattenSeq(a) \o FlattenSeq(b)
  BY <1>3, <1>4, <1>5, FlattenConcat
<1> QED
  BY <1>2, <1>3, <1>4, <1>6 DEF st

\* Space is not read.
LEMMA InkedSpaces ==
  ASSUME NEW Rune, NEW s \in Seq(Rune), \A i \in 1 .. Len(s) : s[i] \in Spaces
  PROVE  Inked(s) = <<>>
<1> DEFINE ss == Inks(s)
           N == Len(s)
<1>1. /\ ss \in Seq(Seq(Rune)) /\ Len(ss) = N /\ N \in Nat
      /\ \A i \in 1 .. N : ss[i] = InkOf(s[i])
      /\ Inked(s) = FlattenSeq(ss)
  BY InksAre
<1>2. ASSUME NEW i \in 1 .. N PROVE ss[i] = <<>>
  BY <1>1 DEF InkOf
<1> HIDE DEF ss, N
<1>3. ss \in [1 .. N -> {<<>>}]
  <2> DEFINE nothing == <<>>
             Text == Seq(Rune)
  <2>1. ss \in Seq(Text) /\ \A i \in 1 .. N : ss[i] = nothing
    BY <1>1, <1>2
  <2> HIDE DEF nothing, Text
  <2>2. ss \in [1 .. N -> {nothing}]
    BY <1>1, <2>1
  <2> QED
    BY <2>2 DEF nothing
<1>4. FlattenSeq(ss) = <<>>
  BY <1>1, <1>3, FlattenNothing
<1> QED
  BY <1>1, <1>4

\* Space at its end is not read.
LEMMA InkedPrefix ==
  ASSUME NEW Rune, NEW s \in Seq(Rune), NEW n \in 0 .. Len(s),
         \A i \in n + 1 .. Len(s) : s[i] \in Spaces
  PROVE  Inked(s) = Inked(Take(s, n))
<1> DEFINE p == Take(s, n)
           q == SubSeq(s, n + 1, Len(s))
<1>1. /\ q \in Seq(Rune) /\ Len(q) = Len(s) - n /\ s = p \o q
      /\ \A i \in 1 .. Len(s) - n : q[i] = s[n + i]
  BY TakeAndRest
<1>2. p \in Seq(Rune)
  BY TakeIs
<1> HIDE DEF p, q
<1>3. Inked(s) = Inked(p) \o Inked(q)
  BY <1>1, <1>2, InkedConcat
<1>4. Inked(q) = <<>>
  <2>1. ASSUME NEW i \in 1 .. Len(q) PROVE q[i] \in Spaces
    <3>1. n + i \in n + 1 .. Len(s) /\ i \in 1 .. Len(s) - n
      BY <1>1
    <3> QED
      BY <1>1, <3>1
  <2> QED
    BY <1>1, <2>1, InkedSpaces
<1>5. Inked(p) \o <<>> = Inked(p)
  <2> DEFINE ink == Inked(p)
  <2>1. ink \in Seq(Rune)
    BY <1>2, InkedIsText
  <2> HIDE DEF ink
  <2>2. ink \o <<>> = ink
    BY <2>1, ConcatEmptySeq
  <2> QED
    BY <2>2 DEF ink
<1> QED
  BY <1>3, <1>4, <1>5 DEF p

\* What follows a place is so many runes more, and what follows them.
LEMMA RestSplits ==
  ASSUME NEW Rune, NEW s \in Seq(Rune), NEW at \in 0 .. Len(s), NEW n \in 0 .. Len(s) - at
  PROVE  Rest(s, at) = Take(Rest(s, at), n) \o Rest(s, at + n)
<1> DEFINE rest == Rest(s, at)
           behind == SubSeq(rest, n + 1, Len(rest))
           later == Rest(s, at + n)
<1>1. /\ rest \in Seq(Rune) /\ Len(rest) = Len(s) - at
      /\ \A i \in 1 .. Len(s) - at : rest[i] = s[at + i]
  BY RestIs
<1>2. at + n \in 0 .. Len(s) /\ Len(s) - (at + n) = Len(s) - at - n
      /\ at \in Nat /\ n \in Nat /\ Len(s) \in Nat
  OBVIOUS
<1>3. /\ later \in Seq(Rune) /\ Len(later) = Len(s) - at - n
      /\ \A i \in 1 .. Len(s) - at - n : later[i] = s[(at + n) + i]
  BY <1>2, RestIs
<1> HIDE DEF rest, later
<1>4. /\ behind \in Seq(Rune) /\ Len(behind) = Len(rest) - n
      /\ rest = Take(rest, n) \o behind
  BY <1>1, TakeAndRest
<1>5. \A i \in 1 .. Len(rest) - n : behind[i] = rest[n + i]
  BY <1>1
<1> HIDE DEF behind
<1>6. ASSUME NEW i \in 1 .. Len(later) PROVE later[i] = behind[i]
  <2>1. /\ i \in 1 .. Len(rest) - n /\ n + i \in 1 .. Len(s) - at
        /\ at + (n + i) = (at + n) + i /\ i \in 1 .. Len(s) - at - n
    BY <1>1, <1>2, <1>3
  <2> QED
    BY <1>1, <1>3, <1>5, <2>1
<1>7. later = behind
  BY <1>1, <1>3, <1>4, <1>6, SeqEqual
<1> QED
  BY <1>4, <1>7 DEF rest, later

(***************************************************************************)
(* The pages of any text, one after the other, hold all of it but space:   *)
(* from any place on, they hold what is read from there on (render.go:     *)
(* 117-168).                                                               *)
(***************************************************************************)
THEOREM PagesKeepTheText ==
  ASSUME NEW Rune, NEW text \in Seq(Rune), NEW reserve \in Nat \ {0}
  PROVE  PagesKeep(text, reserve)
<1> SUFFICES ASSUME reserve + 2 <= Least(MaxUCS2Units, MaxSeptets)
             PROVE  Inked(FlattenSeq(Paginate(text, reserve))) = Inked(text)
  BY Zenon DEF PagesKeep
<1> DEFINE runes == TrimRight(text)
           P(at) == PageAt(runes, at, reserve)
<1>1. /\ runes \in Seq(Rune) /\ Len(runes) \in Nat
      /\ Inked(text) = Inked(runes)
  <2>1. PICK n \in 0 .. Len(text) : /\ runes = Take(text, n)
                                    /\ \A i \in n + 1 .. Len(text) : text[i] \in Spaces
    BY TrimRightIs
  <2> HIDE DEF runes
  <2>2. runes \in Seq(Rune) /\ Len(runes) \in Nat
    BY <2>1, TakeIs
  <2>3. Inked(text) = Inked(runes)
    BY <2>1, InkedPrefix
  <2> QED
    BY <2>2, <2>3
<1>2. reserve + 2 <= MaxSeptets /\ reserve + 2 <= MaxUCS2Units
  BY Capacities DEF Least
<1>3. PICK pages : /\ ArePages(pages, Rune, runes, reserve)
                   /\ Paginate(text, reserve) = pages[0]
  <2>1. ~NoPageFits(text, reserve)
    BY <1>2, Capacities DEF NoPageFits
  <2> QED
    BY <2>1, PaginateIs
<1> HIDE DEF runes
<1> USE DEF ArePages
<1>4. ASSUME NEW at \in 0 .. Len(runes) - 1
      PROVE  /\ P(at).runes \in 1 .. Len(runes) - at
             /\ P(at).page \in Seq(Rune)
             /\ Inked(P(at).page) = Inked(Take(Rest(runes, at), P(at).runes))
  <2> DEFINE next == P(at)
             rest == Rest(runes, at)
  <2>1. next = PageAt(runes, at, reserve)
    OBVIOUS
  <2> HIDE DEF next
  <2>2. at \in 0 .. Len(runes) /\ at < Len(runes)
    BY <1>1
  <2>3. /\ next.runes \in 0 .. Len(runes) - at
        /\ \E n \in 0 .. next.runes :
             /\ next.page = Take(rest, n)
             /\ \A i \in n + 1 .. next.runes : rest[i] \in Spaces
        /\ next.runes = 0 => ~(ScreenCost(Take(rest, 1)) + reserve <= Budget(Take(rest, 1)))
    BY <1>1, <2>1, <2>2, PageAtIs
  <2>4. rest \in Seq(Rune) /\ Len(rest) = Len(runes) - at
    BY <1>1, <2>2, RestIs
  <2> HIDE DEF rest
  <2>5. next.runes # 0
    <3> DEFINE one == Take(rest, 1)
    <3>1. one \in Seq(Rune) /\ Len(one) = 1
      <4>1. 1 \in 0 .. Len(rest)
        BY <1>1, <2>2, <2>4
      <4> QED
        BY <2>4, <4>1, TakeIs
    <3> HIDE DEF one
    <3>2. ScreenCost(one) \in Nat /\ ScreenCost(one) <= 2
      <4>1. ScreenCost(one) \in Nat /\ ScreenCost(one) <= 2 * Len(one)
        BY <3>1, CostIs
      <4> QED
        BY <3>1, <4>1
    <3>3. Budget(one) = MaxSeptets \/ Budget(one) = MaxUCS2Units
      BY DEF Budget
    <3>4. ScreenCost(one) + reserve <= Budget(one)
      BY <1>2, <3>2, <3>3, Capacities
    <3> QED
      BY <2>3, <3>4 DEF one
  <2>6. PICK n \in 0 .. next.runes :
          /\ next.page = Take(rest, n)
          /\ \A i \in n + 1 .. next.runes : rest[i] \in Spaces
    BY <2>3
  <2>7. next.runes \in 1 .. Len(runes) - at /\ next.runes \in 0 .. Len(rest)
        /\ n \in 0 .. Len(rest)
    BY <1>1, <2>2, <2>3, <2>4, <2>5
  <2>8. next.page \in Seq(Rune)
    BY <2>4, <2>6, <2>7, TakeIs
  <2> DEFINE used == Take(rest, next.runes)
  <2>9. /\ used \in Seq(Rune) /\ Len(used) = next.runes
        /\ \A i \in 1 .. next.runes : used[i] = rest[i]
        /\ Take(used, n) = next.page
    BY <2>4, <2>6, <2>7, TakeIs, TakeTake
  <2> HIDE DEF used
  <2>10. Inked(used) = Inked(next.page)
    <3>1. \A i \in n + 1 .. Len(used) : used[i] \in Spaces
      BY <2>6, <2>7, <2>9
    <3>2. n \in 0 .. Len(used)
      BY <2>9
    <3> QED
      BY <2>9, <3>1, <3>2, InkedPrefix
  <2> QED
    BY <2>7, <2>8, <2>10 DEF next, rest, used
<1> HIDE DEF P
<1> DEFINE S == {at \in 0 .. Len(runes) :
                   Inked(FlattenSeq(pages[at])) = Inked(Rest(runes, at))}
<1>5. ASSUME NEW at \in 0 .. Len(runes), \A k \in at + 1 .. Len(runes) : k \in S
      PROVE  at \in S
  <2>1. CASE at = Len(runes)
    <3> DEFINE rest == Rest(runes, at)
               none == pages[at]
    <3>1. none = <<>>
      BY <1>3, <2>1
    <3>2. FlattenSeq(none) = <<>>
      <4>1. none \in [1 .. 0 -> {<<>>}]
        BY <3>1
      <4> HIDE DEF none
      <4> QED
        BY <4>1, FlattenNothing
    <3>3. rest \in Seq(Rune) /\ Len(rest) = 0
      BY <1>1, <2>1, RestIs
    <3> HIDE DEF rest, none
    <3>4. rest = <<>>
      BY <3>3
    <3>5. Inked(FlattenSeq(none)) = Inked(rest)
      BY <3>2, <3>4, Zenon
    <3> QED
      BY <3>5 DEF rest, none
  <2>2. CASE at < Len(runes) /\ runes[at + 1] \in Spaces
    <3> DEFINE rest == Rest(runes, at)
               one == Take(rest, 1)
               later == Rest(runes, at + 1)
    <3>1. at \in 0 .. Len(runes) - 1 /\ at + 1 \in at + 1 .. Len(runes)
          /\ at + 1 \in 0 .. Len(runes) /\ 1 \in 0 .. Len(runes) - at
          /\ 1 \in 1 .. Len(runes) - at
      BY <1>1, <2>2
    <3>2. pages[at] = pages[at + 1]
      BY <1>3, <2>2, <3>1
    <3>3. rest = one \o later
      BY <1>1, <3>1, RestSplits
    <3>4. /\ rest \in Seq(Rune) /\ Len(rest) = Len(runes) - at
          /\ rest[1] = runes[at + 1] /\ later \in Seq(Rune)
      BY <1>1, <3>1, RestIs
    <3> HIDE DEF rest, later
    <3>5. one \in Seq(Rune) /\ Len(one) = 1 /\ one[1] \in Spaces
      <4>1. 1 \in 0 .. Len(rest) /\ 1 \in 1 .. 1
        BY <3>1, <3>4
      <4> QED
        BY <2>2, <3>4, <4>1, TakeIs
    <3> HIDE DEF one
    <3>6. Inked(one) = <<>>
      <4>1. \A i \in 1 .. Len(one) : one[i] \in Spaces
        BY <3>5
      <4> QED
        BY <3>5, <4>1, InkedSpaces
    <3>7. Inked(rest) = Inked(later)
      <4> DEFINE ink == Inked(later)
      <4>1. Inked(rest) = Inked(one) \o ink
        BY <3>3, <3>4, <3>5, InkedConcat
      <4>2. ink \in Seq(Rune)
        BY <3>4, InkedIsText
      <4> HIDE DEF ink
      <4>3. <<>> \o ink = ink
        BY <4>2, ConcatEmptySeq
      <4>4. Inked(rest) = ink
        BY <3>6, <4>1, <4>3
      <4> QED
        BY <4>4 DEF ink
    <3>8. Inked(FlattenSeq(pages[at + 1])) = Inked(later)
      BY <1>5, <3>1 DEF later
    <3> QED
      BY <3>2, <3>7, <3>8 DEF rest
  <2>3. CASE at < Len(runes) /\ runes[at + 1] \notin Spaces
    <3> DEFINE rest == Rest(runes, at)
               used == Take(rest, P(at).runes)
               page == P(at).page
               behind == at + P(at).runes
               later == Rest(runes, behind)
    <3>1. at \in 0 .. Len(runes) - 1
      BY <1>1, <2>3
    <3>2. P(at).runes \in 1 .. Len(runes) - at /\ page \in Seq(Rune)
          /\ Inked(page) = Inked(used)
      BY <1>4, <3>1
    <3>3. pages[at] = <<page>> \o pages[behind]
      <4>1. /\ runes[at + 1] \notin Spaces /\ P(at).runes # 0
        BY <1>1, <2>3, <3>1, <3>2
      <4>2. pages[at] =
              IF runes[at + 1] \in Spaces THEN pages[at + 1]
              ELSE IF P(at).runes = 0 THEN <<>>
              ELSE <<P(at).page>> \o pages[at + P(at).runes]
        BY <1>3, <3>1, Zenon DEF P
      <4> QED
        BY <4>1, <4>2
    <3>4. behind \in at + 1 .. Len(runes) /\ behind \in 0 .. Len(runes)
          /\ P(at).runes \in 0 .. Len(runes) - at
      BY <1>1, <3>2
    <3>5. rest = used \o later
      BY <1>1, <3>4, RestSplits
    <3>6. /\ rest \in Seq(Rune) /\ Len(rest) = Len(runes) - at /\ later \in Seq(Rune)
      BY <1>1, <3>4, RestIs
    <3> HIDE DEF rest, later
    <3>7. used \in Seq(Rune)
      BY <3>4, <3>6, TakeIs
    <3>8. Inked(FlattenSeq(pages[behind])) = Inked(later)
      BY <1>5, <3>4 DEF later
    <3> HIDE DEF used, page
    <3> DEFINE first == <<page>>
               others == pages[behind]
    <3>9. first \in Seq(Seq(Rune)) /\ others \in Seq(Seq(Rune))
      BY <1>3, <3>2, <3>4
    <3>10. FlattenSeq(first) = page
      BY <3>2, FlattenOne
    <3> HIDE DEF first, others
    <3>11. FlattenSeq(first \o others) = page \o FlattenSeq(others)
      BY <3>9, <3>10, FlattenConcat
    <3>12. FlattenSeq(others) \in Seq(Rune)
      BY <3>9, FlattenIsText
    <3>13. Inked(page \o FlattenSeq(others)) = Inked(page) \o Inked(FlattenSeq(others))
      BY <3>2, <3>12, InkedConcat
    <3>14. Inked(rest) = Inked(used) \o Inked(later)
      BY <3>5, <3>6, <3>7, InkedConcat
    <3>15. Inked(FlattenSeq(pages[at])) = Inked(rest)
      BY <3>2, <3>3, <3>8, <3>11, <3>13, <3>14, Zenon DEF first, others, page, used
    <3> QED
      BY <3>15 DEF rest
  <2> QED
    BY <1>1, <2>1, <2>2, <2>3
<1>6. 0 \in S
  <2> HIDE DEF S
  <2>1. \A at \in 0 .. Len(runes) : at \in S
    BY <1>1, <1>5, BackwardInduction
  <2> QED
    BY <1>1, <2>1
<1>7. Rest(runes, 0) = runes
  BY <1>1, SubSeqFull DEF Rest
<1> QED
  BY <1>1, <1>3, <1>6, <1>7

----------------------------------------------------------------------------
(* Labels *)

\* What a run of separators becomes.
Gap == " "

\* What JoinFields makes of the n-th rune behind what it made of those before.
Joins(s, seps, n, before) ==
  IF s[n] \in seps THEN before
  ELSE IF before # <<>> /\ s[n - 1] \in seps THEN before \o <<Gap, s[n]>>
  ELSE before \o <<s[n]>>

IsJoin(h, Rune, s, seps) ==
  /\ h \in [0 .. Len(s) -> Seq(Rune)] /\ h[0] = <<>>
  /\ \A n \in 1 .. Len(s) : h[n] = Joins(s, seps, n, h[n - 1])

LEMMA JoinFieldsIs ==
  ASSUME NEW Rune, Gap \in Rune, NEW s \in Seq(Rune), NEW seps
  PROVE  \E h : IsJoin(h, Rune, s, seps) /\ JoinFields(s, seps) = h[Len(s)]
<1> DEFINE N == Len(s)
           V == Seq(Rune)
           base == <<>>
           step == [x \in (1 .. N) \X V |-> Joins(s, seps, x[1], x[2])]
           Defined(h) == h = [n \in 0 .. Len(s) |->
             IF n = 0 THEN <<>>
             ELSE LET before == h[n - 1]
                  IN IF s[n] \in seps THEN before
                     ELSE IF before # <<>> /\ s[n - 1] \in seps
                     THEN before \o <<Gap, s[n]>>
                     ELSE before \o <<s[n]>>]
<1>1. N \in Nat /\ base \in V /\ \A n \in 1 .. N : s[n] \in Rune
  OBVIOUS
<1>2. ASSUME NEW n \in 1 .. N, NEW v \in V PROVE Joins(s, seps, n, v) \in V
  <2> DEFINE r == s[n]
             one == <<r>>
             two == <<Gap, r>>
  <2>1. one \in Seq(Rune) /\ two \in Seq(Rune)
    <3>1. r \in Rune
      BY <1>1
    <3> HIDE DEF r
    <3> QED
      BY <3>1
  <2> HIDE DEF one, two
  <2>2. v \o one \in V /\ v \o two \in V
    BY <2>1
  <2>3. Joins(s, seps, n, v) =
          IF s[n] \in seps THEN v
          ELSE IF v # <<>> /\ s[n - 1] \in seps THEN v \o two ELSE v \o one
    BY DEF Joins, one, two
  <2> HIDE DEF V
  <2> QED
    BY <2>2, <2>3
<1>3. step \in [(1 .. N) \X V -> V]
  <2> HIDE DEF V
  <2> QED
    BY <1>2
<1>4. \A n \in 1 .. N : \A v \in V : step[<<n, v>>] = Joins(s, seps, n, v)
  OBVIOUS
<1> HIDE DEF step, V, N, base
<1>5. PICK f : IsPrimitive(f, N, V, base, step)
  BY <1>1, <1>3, PrimitiveRecursion
<1>6. f \in [0 .. N -> V] /\ f[0] = base
      /\ \A n \in 1 .. N : f[n] = Joins(s, seps, n, f[n - 1])
  <2>1. ASSUME NEW n \in 1 .. N PROVE f[n - 1] \in V
    <3>1. n - 1 \in 0 .. N
      BY <1>1
    <3> QED
      BY <1>5, <3>1 DEF IsPrimitive
  <2> QED
    BY <1>4, <1>5, <2>1 DEF IsPrimitive
<1>7. ASSUME NEW h
      PROVE  Defined(h) <=> h = [n \in 0 .. N |->
                                   IF n = 0 THEN <<>> ELSE Joins(s, seps, n, h[n - 1])]
  BY DEF Joins, N
<1> HIDE DEF Defined
<1>8. Defined(f)
  <2>1. f = [n \in 0 .. N |-> f[n]]
    BY <1>6
  <2>2. \A n \in 0 .. N : f[n] = IF n = 0 THEN <<>> ELSE Joins(s, seps, n, f[n - 1])
    BY <1>1, <1>6 DEF base
  <2> QED
    BY <1>7, <2>1, <2>2, Zenon
<1>9. (\E h : Defined(h)) => \E h : Defined(h) /\ JoinFields(s, seps) = h[Len(s)]
  BY Zenon DEF JoinFields, Defined, Gap
<1>10. PICK h : Defined(h) /\ JoinFields(s, seps) = h[N]
  BY <1>8, <1>9, Zenon DEF N
<1>11. h = [n \in 0 .. N |-> IF n = 0 THEN <<>> ELSE Joins(s, seps, n, h[n - 1])]
  BY <1>7, <1>10
<1>12. h[0] = <<>> /\ \A n \in 1 .. N : h[n] = Joins(s, seps, n, h[n - 1])
  <2>1. 0 \in 0 .. N /\ \A n \in 1 .. N : n \in 0 .. N /\ n # 0
    BY <1>1
  <2> QED
    BY <1>11, <2>1
<1> DEFINE S == {n \in 0 .. N : h[n] \in V}
<1>13. 0 \in S /\ \A n \in 0 .. N : n \in S /\ n < N => n + 1 \in S
  <2>1. 0 \in S
    BY <1>1, <1>12 DEF base
  <2>2. ASSUME NEW n \in 0 .. N, n \in S, n < N PROVE n + 1 \in S
    <3>1. n + 1 \in 1 .. N /\ (n + 1) - 1 = n /\ n + 1 \in 0 .. N
      BY <1>1, <2>2
    <3>2. h[n + 1] = Joins(s, seps, n + 1, h[n]) /\ h[n] \in V
      BY <1>12, <2>2, <3>1
    <3>3. h[n + 1] \in V
      BY <1>2, <3>1, <3>2
    <3> QED
      BY <3>1, <3>3
  <2> QED
    BY <2>1, <2>2
<1>14. h \in [0 .. N -> V]
  <2> HIDE DEF S
  <2>1. \A n \in 0 .. N : n \in S
    BY <1>1, <1>13, InductionTo
  <2>2. \A n \in 0 .. N : h[n] \in V
    BY <2>1 DEF S
  <2>3. h = [n \in 0 .. N |-> h[n]]
    BY <1>11, <1>1
  <2> QED
    BY <2>2, <2>3
<1>15. IsJoin(h, Rune, s, seps)
  BY <1>12, <1>14 DEF IsJoin, N, V
<1> QED
  BY <1>10, <1>15 DEF N

LEMMA JoinFieldsIsText ==
  ASSUME NEW Rune, Gap \in Rune, NEW s \in Seq(Rune), NEW seps
  PROVE  JoinFields(s, seps) \in Seq(Rune)
<1>1. PICK h : IsJoin(h, Rune, s, seps) /\ JoinFields(s, seps) = h[Len(s)]
  BY JoinFieldsIs
<1>2. h \in [0 .. Len(s) -> Seq(Rune)] /\ Len(s) \in 0 .. Len(s)
  BY <1>1 DEF IsJoin
<1> QED
  BY <1>1, <1>2, Zenon

\* Each break is one blank between two runes that are none.
IsOneLine(s) ==
  \A i \in 1 .. Len(s) :
    s[i] \in Breaks => s[i] = Gap /\ 1 < i /\ i < Len(s) /\ s[i - 1] \notin Breaks

LEMMA GapIs ==
  Gap \in Basic /\ Gap \in Breaks
BY Alphabets, Zenon DEF Gap

LEMMA AppendTwo ==
  ASSUME NEW Rune, NEW a \in Seq(Rune), NEW q \in Rune, NEW r \in Rune
  PROVE  /\ a \o <<q, r>> \in Seq(Rune) /\ Len(a \o <<q, r>>) = Len(a) + 2
         /\ (a \o <<q, r>>)[Len(a) + 1] = q /\ (a \o <<q, r>>)[Len(a) + 2] = r
         /\ \A i \in 1 .. Len(a) : (a \o <<q, r>>)[i] = a[i]
<1> DEFINE two == <<q, r>>
<1>1. two \in Seq(Rune) /\ Len(two) = 2 /\ two[1] = q /\ two[2] = r
  OBVIOUS
<1> HIDE DEF two
<1>2. /\ a \o two \in Seq(Rune) /\ Len(a \o two) = Len(a) + 2
      /\ (a \o two)[Len(a) + 1] = q /\ (a \o two)[Len(a) + 2] = r
      /\ \A i \in 1 .. Len(a) : (a \o two)[i] = a[i]
  <2> DEFINE w == a \o two
  <2>1. /\ w \in Seq(Rune) /\ Len(w) = Len(a) + Len(two)
        /\ \A i \in 1 .. Len(a) + Len(two) :
             w[i] = IF i <= Len(a) THEN a[i] ELSE two[i - Len(a)]
    BY <1>1, ConcatProperties, Zenon
  <2> HIDE DEF w
  <2>0. Len(a) \in Nat
    OBVIOUS
  <2>2. /\ Len(a) + 1 \in 1 .. Len(a) + Len(two) /\ Len(a) + 2 \in 1 .. Len(a) + Len(two)
        /\ (Len(a) + 1) - Len(a) = 1 /\ (Len(a) + 2) - Len(a) = 2
        /\ ~(Len(a) + 1 <= Len(a)) /\ ~(Len(a) + 2 <= Len(a))
    BY <1>1, <2>0
  <2>3. w[Len(a) + 1] = q /\ w[Len(a) + 2] = r
    BY <1>1, <2>1, <2>2
  <2>4. \A i \in 1 .. Len(a) : w[i] = a[i]
    BY <1>1, <2>0, <2>1
  <2> QED
    BY <1>1, <2>1, <2>3, <2>4 DEF w
<1> QED
  BY <1>2 DEF two

LEMMA JoinsOneLine ==
  ASSUME NEW Rune, Gap \in Rune, NEW v \in Seq(Rune), IsOneLine(v),
         NEW r \in Rune, r \notin Breaks
  PROVE  IsOneLine(v \o <<r>>) /\ (v # <<>> => IsOneLine(v \o <<Gap, r>>))
<1>1. /\ Len(v) \in Nat
      /\ \A i \in 1 .. Len(v) : v[i] \in Breaks =>
           v[i] = Gap /\ 1 < i /\ i < Len(v) /\ v[i - 1] \notin Breaks
  BY DEF IsOneLine
<1>2. IsOneLine(v \o <<r>>)
  <2> DEFINE w == v \o <<r>>
  <2>1. /\ Len(w) = Len(v) + 1 /\ w[Len(v) + 1] = r
        /\ \A i \in 1 .. Len(v) : w[i] = v[i]
    OBVIOUS
  <2> HIDE DEF w
  <2>2. ASSUME NEW i \in 1 .. Len(w), w[i] \in Breaks
        PROVE  w[i] = Gap /\ 1 < i /\ i < Len(w) /\ w[i - 1] \notin Breaks
    <3>1. i \in 1 .. Len(v)
      BY <1>1, <2>1, <2>2
    <3>2. v[i] = Gap /\ 1 < i /\ i < Len(v) /\ v[i - 1] \notin Breaks
      BY <1>1, <2>1, <2>2, <3>1
    <3>3. i - 1 \in 1 .. Len(v)
      BY <1>1, <3>1, <3>2
    <3> QED
      BY <1>1, <2>1, <3>1, <3>2, <3>3
  <2> QED
    BY <2>2 DEF IsOneLine, w
<1>3. ASSUME v # <<>> PROVE IsOneLine(v \o <<Gap, r>>)
  <2> DEFINE w == v \o <<Gap, r>>
  <2>1. /\ Len(w) = Len(v) + 2 /\ w[Len(v) + 1] = Gap /\ w[Len(v) + 2] = r
        /\ \A i \in 1 .. Len(v) : w[i] = v[i]
    OBVIOUS
  <2> HIDE DEF w
  <2>2. Len(v) \in 1 .. Len(v)
    BY <1>1, <1>3
  <2>3. ASSUME NEW i \in 1 .. Len(w), w[i] \in Breaks
        PROVE  w[i] = Gap /\ 1 < i /\ i < Len(w) /\ w[i - 1] \notin Breaks
    <3>1. CASE i \in 1 .. Len(v)
      <4>1. v[i] = Gap /\ 1 < i /\ i < Len(v) /\ v[i - 1] \notin Breaks
        BY <1>1, <2>1, <2>3, <3>1
      <4>2. i - 1 \in 1 .. Len(v)
        BY <1>1, <3>1, <4>1
      <4> QED
        BY <1>1, <2>1, <3>1, <4>1, <4>2
    <3>2. CASE i = Len(v) + 1
      <4>1. v[Len(v)] \notin Breaks
        BY <1>1, <2>2
      <4> QED
        BY <1>1, <2>1, <2>2, <3>2, <4>1
    <3> QED
      BY <1>1, <2>1, <2>3, <3>1, <3>2
  <2> QED
    BY <2>3 DEF IsOneLine, w
<1> QED
  BY <1>2, <1>3

\* OneLine makes one line of any text,
LEMMA OneLineIsOneLine ==
  ASSUME NEW Rune, Gap \in Rune, NEW s \in Seq(Rune)
  PROVE  IsOneLine(OneLine(s))
<1>1. PICK h : IsJoin(h, Rune, s, Breaks) /\ JoinFields(s, Breaks) = h[Len(s)]
  BY JoinFieldsIs
<1>2. /\ h \in [0 .. Len(s) -> Seq(Rune)] /\ h[0] = <<>>
      /\ \A n \in 1 .. Len(s) : h[n] = Joins(s, Breaks, n, h[n - 1])
  BY <1>1 DEF IsJoin
<1> DEFINE N == Len(s)
           S == {n \in 0 .. N : IsOneLine(h[n])}
<1>3. N \in Nat /\ \A n \in 1 .. N : s[n] \in Rune
  OBVIOUS
<1>4. 0 \in S
  BY <1>2, <1>3 DEF IsOneLine
<1>5. ASSUME NEW n \in 0 .. N, n \in S, n < N PROVE n + 1 \in S
  <2> DEFINE v == h[n]
             r == s[n + 1]
  <2>1. n + 1 \in 1 .. N /\ (n + 1) - 1 = n /\ n + 1 \in 0 .. N
    BY <1>3, <1>5
  <2>2. v \in Seq(Rune) /\ IsOneLine(v) /\ r \in Rune
    BY <1>2, <1>3, <1>5, <2>1
  <2>3. h[n + 1] = Joins(s, Breaks, n + 1, v)
    BY <1>2, <2>1
  <2>4. h[n + 1] = v \/ (r \notin Breaks /\ h[n + 1] = v \o <<r>>)
        \/ (r \notin Breaks /\ v # <<>> /\ h[n + 1] = v \o <<Gap, r>>)
    <3> HIDE DEF v
    <3> QED
      BY <2>3, Zenon DEF Joins
  <2> HIDE DEF v, r
  <2>5. IsOneLine(h[n + 1])
    <3>1. CASE r \notin Breaks
      <4>1. IsOneLine(v \o <<r>>) /\ (v # <<>> => IsOneLine(v \o <<Gap, r>>))
        BY <2>2, <3>1, JoinsOneLine
      <4> QED
        BY <2>2, <2>4, <4>1, Zenon
    <3>2. CASE r \in Breaks
      BY <2>2, <2>4, <3>2, Zenon
    <3> QED
      BY <3>1, <3>2
  <2> QED
    BY <2>1, <2>5
<1> HIDE DEF S, N
<1>6. \A n \in 0 .. N : n \in S
  BY <1>3, <1>4, <1>5, InductionTo
<1>7. IsOneLine(h[N])
  <2>1. N \in 0 .. N
    BY <1>3
  <2> QED
    BY <1>6, <2>1 DEF S
<1> QED
  BY <1>1, <1>7 DEF OneLine, N

\* and leaves one line as it is.
LEMMA OneLineIsItself ==
  ASSUME NEW Rune, Gap \in Rune, NEW s \in Seq(Rune), IsOneLine(s)
  PROVE  OneLine(s) = s
<1>1. PICK h : IsJoin(h, Rune, s, Breaks) /\ JoinFields(s, Breaks) = h[Len(s)]
  BY JoinFieldsIs
<1>2. /\ h \in [0 .. Len(s) -> Seq(Rune)] /\ h[0] = <<>>
      /\ \A n \in 1 .. Len(s) : h[n] = Joins(s, Breaks, n, h[n - 1])
  BY <1>1 DEF IsJoin
<1>3. \A i \in 1 .. Len(s) : s[i] \in Breaks =>
        s[i] = Gap /\ 1 < i /\ i < Len(s) /\ s[i - 1] \notin Breaks
  BY DEF IsOneLine
<1> DEFINE N == Len(s)
           Behind(n) == n > 0 /\ s[n] \in Breaks
           Made(n) == Take(s, IF Behind(n) THEN n - 1 ELSE n)
           S == {n \in 0 .. N : h[n] = Made(n)}
<1>4. N \in Nat /\ \A n \in 1 .. N : s[n] \in Rune
  OBVIOUS
<1>5. 0 \in S
  <2>1. Take(s, 0) = <<>>
    BY TakeNone
  <2> QED
    BY <1>2, <1>4, <2>1
<1>6. ASSUME NEW n \in 0 .. N, n \in S, n < N PROVE n + 1 \in S
  <2> DEFINE v == h[n]
             r == s[n + 1]
  <2>1. n + 1 \in 1 .. N /\ (n + 1) - 1 = n /\ n + 1 \in 0 .. N /\ n \in Nat
    BY <1>4, <1>6
  <2>2. v \in Seq(Rune) /\ v = Made(n) /\ r \in Rune
    BY <1>2, <1>4, <1>6, <2>1
  <2>3. h[n + 1] = Joins(s, Breaks, n + 1, v)
    BY <1>2, <2>1
  <2>4. h[n + 1] = IF r \in Breaks THEN v
                   ELSE IF v # <<>> /\ s[n] \in Breaks THEN v \o <<Gap, r>>
                   ELSE v \o <<r>>
    <3>1. s[(n + 1) - 1] = s[n]
      BY <2>1
    <3> HIDE DEF v
    <3> QED
      BY <2>3, <3>1, Zenon DEF Joins
  <2> HIDE DEF v
  <2>5. CASE r \in Breaks
    <3>1. ~Behind(n) /\ Behind(n + 1)
      BY <1>3, <2>1, <2>5
    <3>2. Made(n) = Take(s, n) /\ Made(n + 1) = Take(s, n)
      BY <2>1, <3>1
    <3> QED
      BY <2>1, <2>2, <2>4, <2>5, <3>2
  <2>6. CASE r \notin Breaks /\ Behind(n)
    <3> DEFINE a == Take(s, n - 1)
               b == Take(s, n + 1)
    <3>1. n > 1 /\ n < N /\ s[n] = Gap /\ n - 1 \in 0 .. N /\ n \in 1 .. N
      BY <1>3, <1>4, <2>1, <2>6
    <3>2. ~Behind(n + 1)
      BY <2>6
    <3>3. v = a /\ Made(n + 1) = b
      BY <2>2, <2>6, <3>2
    <3>4. /\ a \in Seq(Rune) /\ Len(a) = n - 1 /\ \A i \in 1 .. n - 1 : a[i] = s[i]
      BY <3>1, TakeIs
    <3>5. /\ b \in Seq(Rune) /\ Len(b) = n + 1 /\ \A i \in 1 .. n + 1 : b[i] = s[i]
      BY <2>1, TakeIs
    <3> HIDE DEF a, b
    <3>6. a # <<>> /\ s[n] \in Breaks
      BY <2>6, <3>1, <3>4
    <3>7. h[n + 1] = a \o <<Gap, r>>
      BY <2>4, <2>6, <3>3, <3>6
    <3>8. a \o <<Gap, r>> = b
      <4> DEFINE w == a \o <<Gap, r>>
      <4>1. /\ w \in Seq(Rune) /\ Len(w) = n + 1 /\ w[n] = Gap /\ w[n + 1] = r
            /\ \A i \in 1 .. n - 1 : w[i] = a[i]
        <5> HIDE DEF r, N, Made, Behind
        <5>1. /\ w \in Seq(Rune) /\ Len(w) = Len(a) + 2
              /\ w[Len(a) + 1] = Gap /\ w[Len(a) + 2] = r
              /\ \A i \in 1 .. Len(a) : w[i] = a[i]
          <6>1. a \in Seq(Rune) /\ r \in Rune /\ Gap \in Rune
            BY <2>2, <3>4
          <6> QED
            BY <6>1, AppendTwo
        <5> HIDE DEF w
        <5>2. Len(a) + 1 = n /\ Len(a) + 2 = n + 1
          BY <2>1, <3>4
        <5> QED
          BY <3>4, <5>1, <5>2
      <4> HIDE DEF w
      <4>2. \A i \in 1 .. n + 1 : w[i] = b[i]
        BY <2>1, <3>1, <3>4, <3>5, <4>1
      <4>3. w = b
        BY <3>5, <4>1, <4>2, SeqEqual
      <4> QED
        BY <4>3 DEF w
    <3>9. h[n + 1] = Made(n + 1)
      BY <3>3, <3>7, <3>8, Zenon
    <3> QED
      BY <2>1, <3>9
  <2>7. CASE r \notin Breaks /\ ~Behind(n)
    <3> DEFINE a == Take(s, n)
               b == Take(s, n + 1)
    <3>1. ~Behind(n + 1)
      BY <2>7
    <3>2. v = a /\ Made(n + 1) = b
      BY <2>2, <2>7, <3>1
    <3>3. /\ a \in Seq(Rune) /\ Len(a) = n /\ \A i \in 1 .. n : a[i] = s[i]
      BY TakeIs
    <3>4. /\ b \in Seq(Rune) /\ Len(b) = n + 1 /\ \A i \in 1 .. n + 1 : b[i] = s[i]
      BY <2>1, TakeIs
    <3> HIDE DEF a, b
    <3>5. ~(a # <<>> /\ s[n] \in Breaks)
      BY <2>1, <2>7, <3>3
    <3>6. h[n + 1] = a \o <<r>>
      BY <2>4, <2>7, <3>2, <3>5, Zenon
    <3>7. a \o <<r>> = b
      <4> DEFINE w == a \o <<r>>
      <4>1. /\ w \in Seq(Rune) /\ Len(w) = n + 1 /\ w[n + 1] = r
            /\ \A i \in 1 .. n : w[i] = a[i]
        <5> HIDE DEF r, N, Made, Behind
        <5>1. w \in Seq(Rune) /\ Len(w) = Len(a) + 1 /\ w[Len(a) + 1] = r
              /\ \A i \in 1 .. Len(a) : w[i] = a[i]
          BY <2>2, <3>3
        <5> HIDE DEF w
        <5> QED
          BY <3>3, <5>1
      <4> HIDE DEF w
      <4>2. \A i \in 1 .. n + 1 : w[i] = b[i]
        BY <2>1, <3>3, <3>4, <4>1
      <4>3. w = b
        BY <3>4, <4>1, <4>2, SeqEqual
      <4> QED
        BY <4>3 DEF w
    <3>8. h[n + 1] = Made(n + 1)
      BY <3>2, <3>6, <3>7, Zenon
    <3> QED
      BY <2>1, <3>8
  <2> QED
    BY <2>5, <2>6, <2>7
<1> HIDE DEF S
<1>7. \A n \in 0 .. N : n \in S
  <2> HIDE DEF N
  <2> QED
    BY <1>4, <1>5, <1>6, InductionTo
<1>8. h[N] = Made(N)
  BY <1>4, <1>7 DEF S
<1>9. ~Behind(N)
  BY <1>3, <1>4
<1>10. Made(N) = s
  BY <1>9, TakeAll
<1> QED
  BY <1>1, <1>8, <1>10, Zenon DEF OneLine

\* A line cut anywhere, with the marker behind it, is one line.
LEMMA CutIsOneLine ==
  ASSUME NEW Rune, NEW s \in Seq(Rune), IsOneLine(s), NEW n \in 0 .. Len(s)
  PROVE  IsOneLine(Take(s, n) \o Ellipsis)
<1> DEFINE p == Take(s, n)
           m == Ellipsis
           w == p \o m
<1>1. \A i \in 1 .. Len(s) : s[i] \in Breaks =>
        s[i] = Gap /\ 1 < i /\ i < Len(s) /\ s[i - 1] \notin Breaks
  BY DEF IsOneLine
<1>2. /\ p \in Seq(Rune) /\ Len(p) = n /\ n \in Nat /\ \A i \in 1 .. n : p[i] = s[i]
  BY TakeIs
<1>3. m \in Seq(Basic) /\ Len(m) = 3 /\ \A i \in 1 .. 3 : m[i] \notin Breaks
  <2>1. "." \notin Breaks
    BY Alphabets, Zenon
  <2> QED
    BY <2>1, EllipsisIs DEF Ellipsis
<1> HIDE DEF p, m
<1>4. /\ Len(w) = n + 3 /\ \A i \in 1 .. n + 3 : w[i] = IF i <= n THEN p[i] ELSE m[i - n]
  <2>1. p \in Seq(Rune \cup Basic) /\ m \in Seq(Rune \cup Basic)
    BY <1>2, <1>3
  <2>2. /\ Len(w) = Len(p) + Len(m)
        /\ \A i \in 1 .. Len(p) + Len(m) : w[i] = IF i <= Len(p) THEN p[i] ELSE m[i - Len(p)]
    BY <2>1, ConcatProperties
  <2> HIDE DEF w
  <2> QED
    BY <1>2, <1>3, <2>2
<1> HIDE DEF w
<1>5. ASSUME NEW i \in 1 .. Len(w), w[i] \in Breaks
      PROVE  w[i] = Gap /\ 1 < i /\ i < Len(w) /\ w[i - 1] \notin Breaks
  <2>1. i <= n
    <3> SUFFICES ASSUME i > n PROVE FALSE
      BY <1>2, <1>4
    <3>1. i - n \in 1 .. 3 /\ i \in 1 .. n + 3 /\ ~(i <= n)
      BY <1>2, <1>4
    <3> QED
      BY <1>3, <1>4, <1>5, <3>1
  <2>2. i \in 1 .. n /\ i \in 1 .. n + 3 /\ i \in 1 .. Len(s)
    BY <1>2, <1>4, <2>1
  <2>3. w[i] = s[i]
    BY <1>2, <1>4, <2>1, <2>2
  <2>4. s[i] = Gap /\ 1 < i /\ s[i - 1] \notin Breaks
    BY <1>1, <1>5, <2>2, <2>3
  <2>5. i - 1 \in 1 .. n /\ i - 1 \in 1 .. n + 3 /\ i - 1 <= n /\ i < n + 3
    BY <1>2, <2>2, <2>4
  <2>6. w[i - 1] = s[i - 1]
    BY <1>2, <1>4, <2>5
  <2> QED
    BY <1>4, <2>3, <2>4, <2>5, <2>6
<1> QED
  BY <1>5 DEF IsOneLine, w, p, m

LEMMA MarkerIsOneLine ==
  ASSUME NEW n \in 0 .. 3
  PROVE  IsOneLine(Take(Ellipsis, n))
<1> DEFINE m == Ellipsis
           p == Take(m, n)
<1>1. m \in Seq(Basic) /\ Len(m) = 3 /\ \A i \in 1 .. 3 : m[i] \notin Breaks
  <2>1. "." \notin Breaks
    BY Alphabets, Zenon
  <2> QED
    BY <2>1, EllipsisIs DEF Ellipsis
<1> HIDE DEF m
<1>2. Len(p) = n /\ \A i \in 1 .. n : p[i] = m[i]
  <2>1. n \in 0 .. Len(m)
    BY <1>1
  <2> QED
    BY <1>1, <2>1, TakeIs
<1> HIDE DEF p
<1>3. \A i \in 1 .. Len(p) : p[i] \notin Breaks
  BY <1>1, <1>2
<1> QED
  BY <1>3 DEF IsOneLine, p, m

\* Truncated, a text keeps to its limit and its alphabet.
LEMMA TruncateIsText ==
  ASSUME NEW Rune, "." \in Rune, NEW s \in Seq(Rune), NEW limit \in Nat
  PROVE  /\ Truncate(s, limit) \in Seq(Rune) /\ Len(Truncate(s, limit)) <= limit
<1> DEFINE out == Truncate(s, limit)
<1>1. Ellipsis \in Seq(Rune) /\ Len(Ellipsis) = 3
  BY EllipsisIs DEF Ellipsis
<1>2. CASE limit = 0 /\ out = <<>>
  <2> HIDE DEF out
  <2>1. <<>> \in Seq(Rune) /\ Len(<<>>) = 0
    OBVIOUS
  <2>2. out \in Seq(Rune) /\ Len(out) <= limit
    BY <1>2, <2>1
  <2> QED
    BY <2>2 DEF out
<1>3. CASE Len(s) <= limit /\ out = s
  BY <1>3
<1>4. CASE limit \in 1 .. 3 /\ out = Take(Ellipsis, limit)
  <2>1. limit \in 0 .. Len(Ellipsis) 
    BY <1>1, <1>4
  <2>2. Take(Ellipsis, limit) \in Seq(Rune) /\ Len(Take(Ellipsis, limit)) = limit
    BY <1>1, <2>1, TakeIs
  <2> QED
    BY <1>4, <2>1, <2>2
<1>5. CASE Len(s) > limit /\ limit > 3 /\ \E n \in 0 .. limit - 3 : out = Take(s, n) \o Ellipsis
  <2>1. PICK n \in 0 .. limit - 3 : out = Take(s, n) \o Ellipsis
    BY <1>5
  <2>2. n \in 0 .. Len(s)
    BY <1>5, <2>1
  <2> DEFINE p == Take(s, n)
             m == Ellipsis
  <2>3. p \in Seq(Rune) /\ Len(p) = n
    BY <2>2, TakeIs
  <2> HIDE DEF p, m
  <2>5. p \o m \in Seq(Rune) /\ Len(p \o m) = n + 3
    <3>1. m \in Seq(Rune) /\ Len(m) = 3
      BY <1>1 DEF m
    <3>2. p \o m \in Seq(Rune) /\ Len(p \o m) = Len(p) + Len(m)
      BY <2>3, <3>1, ConcatProperties
    <3> QED
      BY <2>3, <3>1, <3>2
  <2> QED
    BY <1>5, <2>1, <2>5 DEF p, m
<1> HIDE DEF out
<1>6. (limit = 0 /\ out = <<>>) \/ (Len(s) <= limit /\ out = s)
      \/ (limit \in 1 .. 3 /\ out = Take(Ellipsis, limit))
      \/ (Len(s) > limit /\ limit > 3 /\ \E n \in 0 .. limit - 3 : out = Take(s, n) \o Ellipsis)
  BY TruncateIs DEF out
<1> QED
  BY <1>2, <1>3, <1>4, <1>5, <1>6 DEF out

\* Truncated, a line stays a line.
LEMMA TruncateALine ==
  ASSUME NEW Rune, NEW s \in Seq(Rune), IsOneLine(s), NEW limit \in Nat
  PROVE  IsOneLine(Truncate(s, limit))
<1> DEFINE out == Truncate(s, limit)
<1>1. CASE out = <<>> \/ out = s
  BY <1>1 DEF IsOneLine
<1>2. CASE limit \in 1 .. 3 /\ out = Take(Ellipsis, limit)
  BY <1>2, MarkerIsOneLine
<1>3. CASE Len(s) > limit /\ limit > 3 /\ \E n \in 0 .. limit - 3 : out = Take(s, n) \o Ellipsis
  <2>1. PICK n \in 0 .. limit - 3 : out = Take(s, n) \o Ellipsis
    BY <1>3
  <2>2. n \in 0 .. Len(s)
    BY <1>3, <2>1
  <2>3. IsOneLine(Take(s, n) \o Ellipsis)
    BY <2>2, CutIsOneLine
  <2> QED
    BY <2>1, <2>3
<1> HIDE DEF out
<1>4. out = <<>> \/ out = s
      \/ (limit \in 1 .. 3 /\ out = Take(Ellipsis, limit))
      \/ (Len(s) > limit /\ limit > 3 /\ \E n \in 0 .. limit - 3 : out = Take(s, n) \o Ellipsis)
  BY TruncateIs DEF out
<1> QED
  BY <1>1, <1>2, <1>3, <1>4 DEF out

LEMMA MinIs ==
  ASSUME NEW N \in Nat, NEW S \in SUBSET (0 .. N), S # {}
  PROVE  Min(S) \in S /\ \A n \in S : Min(S) <= n
<1>1. \E m \in S : \A n \in S : m <= n
  BY LeastOf
<1>2. Min(S) \in S /\ \A n \in S : Min(S) <= n
  BY <1>1 DEF Min
<1> QED
  BY <1>2

\* What TrimSpace leaves of a line is a line of the same runes.
LEMMA TrimSpaceALine ==
  ASSUME NEW Rune, NEW s \in Seq(Rune), IsOneLine(s)
  PROVE  TrimSpace(s) \in Seq(Rune) /\ IsOneLine(TrimSpace(s))
<1> DEFINE I == {i \in 1 .. Len(s) : s[i] \notin Spaces}
           first == IF I # {} THEN Min(I) ELSE 0
           rest == SubSeq(s, first, Len(s))
<1>1. TrimSpace(s) = IF first = 0 THEN <<>> ELSE TrimRight(rest)
  BY Zenon DEF TrimSpace, SelectInSeq
<1>2. I \in SUBSET (0 .. Len(s)) /\ Len(s) \in Nat
  OBVIOUS
<1>3. I # {} => Min(I) \in I
  <2> HIDE DEF I
  <2> QED
    BY <1>2, MinIs
<1>4. first # 0 => first \in 1 .. Len(s) /\ s[first] \notin Spaces
  BY <1>3
<1>5. Breaks \subseteq Spaces
  BY Alphabets, Zenon
<1> HIDE DEF first
<1>6. CASE first = 0
  BY <1>1, <1>6 DEF IsOneLine
<1>7. CASE first # 0
  <2> DEFINE at == first - 1
  <2>1. at \in 0 .. Len(s) /\ first = at + 1 /\ 1 \in 1 .. Len(s) - at
        /\ at \in Nat /\ s[at + 1] \notin Spaces
    BY <1>2, <1>4, <1>7
  <2> HIDE DEF at
  <2>2. /\ rest \in Seq(Rune) /\ Len(rest) = Len(s) - at
        /\ \A i \in 1 .. Len(s) - at : rest[i] = s[at + i]
    BY <2>1, RestIs DEF Rest
  <2> HIDE DEF rest
  <2>3. PICK n \in 0 .. Len(rest) : TrimRight(rest) = Take(rest, n) /\ (n > 0 => rest[n] \notin Spaces)
    BY <2>2, TrimRightIs
  <2> DEFINE out == Take(rest, n)
  <2>4. /\ out \in Seq(Rune) /\ Len(out) = n /\ \A i \in 1 .. n : out[i] = rest[i]
    BY <2>2, <2>3, TakeIs
  <2> HIDE DEF out
  <2>5. \A i \in 1 .. Len(s) : s[i] \in Breaks =>
          s[i] = Gap /\ 1 < i /\ i < Len(s) /\ s[i - 1] \notin Breaks
    BY DEF IsOneLine
  <2>6. ASSUME NEW i \in 1 .. Len(out), out[i] \in Breaks
        PROVE  out[i] = Gap /\ 1 < i /\ i < Len(out) /\ out[i - 1] \notin Breaks
    <3>1. /\ i \in 1 .. n /\ i \in 1 .. Len(s) - at /\ at + i \in 1 .. Len(s) /\ n > 0
      BY <1>2, <2>1, <2>2, <2>3, <2>4
    <3>2. out[i] = s[at + i]
      BY <2>2, <2>4, <3>1
    <3>3. i # 1
      BY <1>5, <2>1, <2>6, <3>2
    <3>4. i # n
      BY <1>5, <2>3, <2>4, <2>6, <3>1
    <3>5. i - 1 \in 1 .. n /\ i - 1 \in 1 .. Len(s) - at /\ (at + i) - 1 = at + (i - 1)
      BY <2>1, <3>1, <3>3
    <3>6. out[i - 1] = s[(at + i) - 1]
      BY <2>2, <2>4, <3>5
    <3>7. s[at + i] = Gap /\ s[(at + i) - 1] \notin Breaks
      BY <2>5, <2>6, <3>1, <3>2
    <3> QED
      BY <2>4, <3>1, <3>2, <3>3, <3>4, <3>6, <3>7
  <2>7. IsOneLine(out)
    BY <2>6 DEF IsOneLine
  <2> QED
    BY <1>1, <1>7, <2>3, <2>4, <2>7 DEF out
<1> QED
  BY <1>6, <1>7

LEMMA ToGSMIs ==
  ASSUME NEW Rune, NEW s \in Seq(Rune)
  PROVE  ToGSM(s) \in Seq(Basic \cup Extended)
<1> DEFINE G == Basic \cup Extended
           Piece(r) == IF EncodingOf(<<r>>) = "gsm7" THEN <<r>>
                       ELSE IF r \in DOMAIN Transliterations THEN Transliterations[r]
                       ELSE <<Gap>>
           pieces == [i \in DOMAIN s |-> Piece(s[i])]
<1>1. CASE EncodingOf(s) = "gsm7"
  <2>1. \A i \in 1 .. Len(s) : s[i] \in G
    BY <1>1, EncodingIs
  <2>2. s \in Seq(G)
    BY <2>1
  <2>3. ToGSM(s) = s
    BY <1>1, Zenon DEF ToGSM
  <2> QED
    BY <2>2, <2>3
<1>2. CASE EncodingOf(s) # "gsm7"
  <2>1. ToGSM(s) = JoinFields(FlattenSeq(pieces), Spaces)
    BY <1>2, Zenon DEF ToGSM, Gap
  <2>2. ASSUME NEW r \in Rune PROVE Piece(r) \in Seq(G)
    <3>1. CASE EncodingOf(<<r>>) = "gsm7"
      <4> DEFINE one == <<r>>
      <4>1. one \in Seq(Rune) /\ Len(one) = 1 /\ one[1] = r
        OBVIOUS
      <4> HIDE DEF one
      <4>2. EncodingOf(one) = "gsm7"
        BY <3>1 DEF one
      <4>3. \A i \in 1 .. Len(one) : one[i] \in G
        BY <4>1, <4>2, EncodingIs
      <4>4. r \in G
        BY <4>1, <4>3
      <4> HIDE DEF G
      <4> QED
        BY <3>1, <4>4
    <3>2. CASE EncodingOf(<<r>>) # "gsm7" /\ r \in DOMAIN Transliterations
      <4>1. Transliterations[r] \in Seq(G)
        BY <3>2, ScreenAssumption, Zenon
      <4> HIDE DEF G
      <4> QED
        BY <3>2, <4>1, Zenon
    <3>3. CASE EncodingOf(<<r>>) # "gsm7" /\ r \notin DOMAIN Transliterations
      <4>1. Gap \in G
        BY GapIs
      <4> HIDE DEF G
      <4> QED
        BY <3>3, <4>1
    <3> QED
      BY <3>1, <3>2, <3>3, Zenon
  <2>3. Gap \in G
    BY GapIs
  <2> HIDE DEF Piece, G
  <2>4. pieces \in Seq(Seq(G))
    <3> DEFINE N == Len(s)
    <3>1. N \in Nat /\ pieces \in [1 .. N -> Seq(G)]
      BY <2>2
    <3> HIDE DEF pieces, N
    <3> QED
      BY <3>1
  <2> HIDE DEF pieces
  <2>5. FlattenSeq(pieces) \in Seq(G)
    BY <2>4, FlattenIsText
  <2>6. JoinFields(FlattenSeq(pieces), Spaces) \in Seq(G)
    BY <2>3, <2>5, JoinFieldsIsText
  <2> QED
    BY <2>1, <2>6 DEF G
<1> QED
  BY <1>1, <1>2

(***************************************************************************)
(* Any text at all becomes a label of one line in GSM 03.38 within its     *)
(* limit, if what stands in for an unreadable one is such a line itself,   *)
(* as the "Post" of main.go:173 and 320 is (gsm.go:35-94).                             *)
(***************************************************************************)
THEOREM EveryLabelIsOneGSMLine ==
  ASSUME NEW Rune, NEW text \in Seq(Rune), NEW limit \in Nat,
         NEW fallback \in Seq(Basic \cup Extended), fallback = OneLine(fallback)
  PROVE  OneGSMLine(text, limit, fallback)
<1> DEFINE G == Basic \cup Extended
           line == OneLine(ToGSM(text))
           out == TrimSpace(line)
           kept == IF Len(out) < 2 THEN fallback ELSE out
           label == Label(text, limit, fallback)
<1>1. Gap \in G /\ "." \in G
  <2>1. "." \in Basic
    BY Alphabets, Zenon
  <2> QED
    BY <2>1, GapIs
<1>2. ToGSM(text) \in Seq(G) /\ fallback \in Seq(G)
  BY ToGSMIs
<1> HIDE DEF G
<1>3. line \in Seq(G) /\ IsOneLine(line)
  <2> DEFINE gsm == ToGSM(text)
  <2> HIDE DEF gsm
  <2>1. OneLine(gsm) \in Seq(G)
    BY <1>1, <1>2, JoinFieldsIsText DEF OneLine, gsm
  <2>2. IsOneLine(OneLine(gsm))
    BY <1>1, <1>2, OneLineIsOneLine DEF gsm
  <2> QED
    BY <2>1, <2>2 DEF gsm
<1> HIDE DEF line
<1>4. out \in Seq(G) /\ IsOneLine(out)
  BY <1>3, TrimSpaceALine
<1> HIDE DEF out
<1>5. IsOneLine(fallback)
  <2>1. IsOneLine(OneLine(fallback))
    BY <1>1, <1>2, OneLineIsOneLine
  <2> QED
    BY <2>1
<1>6. kept \in Seq(G) /\ IsOneLine(kept)
  BY <1>2, <1>4, <1>5, Zenon
<1>7. label = Truncate(kept, limit)
  BY Zenon DEF Label, out, line
<1> HIDE DEF kept, label
<1>8. label \in Seq(G) /\ Len(label) <= limit /\ IsOneLine(label)
  BY <1>1, <1>6, <1>7, TruncateIsText, TruncateALine
<1>9. OneLine(label) = label
  BY <1>1, <1>8, OneLineIsItself
<1>10. EncodingOf(label) = "gsm7"
  <2>1. \A i \in 1 .. Len(label) : label[i] \in Basic \cup Extended
    BY <1>8 DEF G
  <2> QED
    BY <1>8, <2>1, EncodingIs
<1> QED
  BY <1>8, <1>9, <1>10 DEF OneGSMLine, label

----------------------------------------------------------------------------
(* Labels with room for more runes *)

\* What a text so far is followed by, if the last of its n runes is a break.
Pending(s, n, before) ==
  IF before # <<>> /\ s[n] \in Breaks THEN before \o <<Gap>> ELSE before

LEMMA JoinsPending ==
  ASSUME NEW Rune, Gap \in Rune, NEW s, NEW n, NEW before \in Seq(Rune),
         s[n] \in Rune
  PROVE  /\ Pending(s, n - 1, before) \in Seq(Rune)
         /\ Joins(s, Breaks, n, before) =
              IF s[n] \in Breaks THEN before ELSE Pending(s, n - 1, before) \o <<s[n]>>
<1> DEFINE r == s[n]
           gap == <<Gap>>
<1>1. gap \in Seq(Rune) /\ <<r>> \in Seq(Rune) /\ before \o gap \in Seq(Rune)
  OBVIOUS
<1>2. before \o <<Gap, r>> = (before \o gap) \o <<r>>
  <2> DEFINE both == <<Gap, r>>
             whole == gap \o <<r>>
  <2>1. whole = both
    <3>1. /\ whole \in Seq(Rune) /\ Len(whole) = 2 /\ whole[1] = Gap /\ whole[2] = r
      OBVIOUS
    <3>2. both \in Seq(Rune) /\ Len(both) = 2 /\ both[1] = Gap /\ both[2] = r
      OBVIOUS
    <3> HIDE DEF whole, both
    <3>3. Len(whole) = Len(both) /\ \A i \in 1 .. Len(whole) : whole[i] = both[i]
      BY <3>1, <3>2
    <3> QED
      BY <3>1, <3>2, <3>3, SeqEqual, Zenon
  <2>2. (before \o gap) \o <<r>> = before \o whole
    <3> DEFINE one == <<r>>
    <3>1. gap \in Seq(Rune) /\ one \in Seq(Rune)
      BY <1>1
    <3> HIDE DEF gap, one
    <3>2. (before \o gap) \o one = before \o (gap \o one)
      BY <3>1, ConcatAssociative, SMTT(30)
    <3> QED
      BY <3>2 DEF one
  <2> QED
    BY <2>1, <2>2, Zenon
<1> QED
  BY <1>1, <1>2, Zenon DEF Joins, Pending

\* A rune that no break is before, or at, is put after what there is.
LEMMA JoinsNext ==
  ASSUME NEW Rune, Gap \in Rune, NEW w, NEW n, NEW before \in Seq(Rune),
         w[n] \in Rune, w[n] \notin Breaks, w[n - 1] \notin Breaks
  PROVE  Joins(w, Breaks, n, before) = before \o <<w[n]>>
BY JoinsPending, Zenon DEF Pending

\* Every text of d is followed by one that starts with it.
Grows(d, N, Rune) ==
  /\ d \in [0 .. N -> Seq(Rune)]
  /\ \A k \in 1 .. N : \E q \in Seq(Rune) : d[k] = d[k - 1] \o q

\* Marked, what a line is made of grows with every rune before the marker.
LEMMA MarkedLines ==
  ASSUME NEW Rune, Gap \in Rune, "." \in Rune, NEW s \in Seq(Rune)
  PROVE  \E d : /\ Grows(d, Len(s), Rune)
                /\ \A k \in 0 .. Len(s) :
                     OneLine(Take(s, k) \o Ellipsis) = d[k] \o Ellipsis
<1>1. PICK h : IsJoin(h, Rune, s, Breaks)
  BY JoinFieldsIs
<1>2. /\ h \in [0 .. Len(s) -> Seq(Rune)] /\ h[0] = <<>>
      /\ \A n \in 1 .. Len(s) : h[n] = Joins(s, Breaks, n, h[n - 1])
  BY <1>1 DEF IsJoin
<1> DEFINE N == Len(s)
           d == [k \in 0 .. N |-> Pending(s, k, h[k])]
<1>3. N \in Nat /\ \A n \in 1 .. N : s[n] \in Rune
  OBVIOUS
<1>4. d \in [0 .. N -> Seq(Rune)]
  <2>1. \A k \in 0 .. N : h[k] \in Seq(Rune) /\ h[k] \o <<Gap>> \in Seq(Rune)
    BY <1>2
  <2>2. \A k \in 0 .. N : Pending(s, k, h[k]) \in Seq(Rune)
    BY <2>1, Zenon DEF Pending
  <2> QED
    BY <2>2
<1>5. ASSUME NEW k \in 1 .. N PROVE \E q \in Seq(Rune) : d[k] = d[k - 1] \o q
  <2> DEFINE v == h[k - 1]
  <2>1. k - 1 \in 0 .. N /\ k \in 0 .. N /\ v \in Seq(Rune) /\ s[k] \in Rune
    BY <1>2, <1>3
  <2>2. /\ Pending(s, k - 1, v) \in Seq(Rune)
        /\ h[k] = IF s[k] \in Breaks THEN v ELSE Pending(s, k - 1, v) \o <<s[k]>>
    BY <1>2, <2>1, JoinsPending
  <2>3. d[k - 1] = Pending(s, k - 1, v) /\ d[k] = Pending(s, k, h[k])
    BY <2>1
  <2> HIDE DEF v, d
  <2>4. CASE s[k] \notin Breaks
    <3>1. d[k] = d[k - 1] \o <<s[k]>>
      BY <2>2, <2>3, <2>4, Zenon DEF Pending
    <3>2. <<s[k]>> \in Seq(Rune)
      BY <2>1
    <3> QED
      BY <3>1, <3>2, Zenon
  <2>5. CASE s[k] \in Breaks /\ d[k - 1] = v
    <3>1. d[k] = d[k - 1] \o <<>> \/ d[k] = d[k - 1] \o <<Gap>>
      <4>1. v \o <<>> = v
        BY <2>1, ConcatEmptySeq
      <4> QED
        BY <2>2, <2>3, <2>5, <4>1, Zenon DEF Pending
    <3>2. <<>> \in Seq(Rune) /\ <<Gap>> \in Seq(Rune)
      OBVIOUS
    <3> QED
      BY <3>1, <3>2, Zenon
  <2>6. CASE s[k] \in Breaks /\ d[k - 1] = v \o <<Gap>> /\ v # <<>>
    <3>1. d[k] = d[k - 1]
      BY <2>2, <2>3, <2>6, Zenon DEF Pending
    <3>2. d[k - 1] \o <<>> = d[k - 1] /\ <<>> \in Seq(Rune)
      BY <2>2, <2>3, ConcatEmptySeq
    <3> QED
      BY <3>1, <3>2, Zenon
  <2> QED
    BY <2>3, <2>4, <2>5, <2>6, Zenon DEF Pending
<1>6. ASSUME NEW k \in 0 .. N PROVE OneLine(Take(s, k) \o Ellipsis) = d[k] \o Ellipsis
  <2> DEFINE w == Take(s, k) \o Ellipsis
             e == Pending(s, k, h[k])
             dot == "."
  <2>1. /\ w \in Seq(Rune) /\ Len(w) = k + 3
        /\ \A i \in 1 .. k : w[i] = s[i]
        /\ \A i \in k + 1 .. k + 3 : w[i] = dot
    <3>1. Take(s, k) \in Seq(Rune) /\ Len(Take(s, k)) = k /\ \A i \in 1 .. k : Take(s, k)[i] = s[i]
      BY TakeIs
    <3>2. Ellipsis \in Seq(Rune) /\ Len(Ellipsis) = 3 /\ \A i \in 1 .. 3 : Ellipsis[i] = dot
      BY DEF Ellipsis
    <3> DEFINE t == Take(s, k)
    <3> HIDE DEF dot
    <3>3. /\ w \in Seq(Rune) /\ Len(w) = Len(t) + Len(Ellipsis)
          /\ \A i \in 1 .. Len(t) + Len(Ellipsis) :
               w[i] = IF i <= Len(t) THEN t[i] ELSE Ellipsis[i - Len(t)]
      BY <3>1, <3>2, ConcatProperties, Zenon
    <3> HIDE DEF w
    <3>4. ASSUME NEW i \in 1 .. k PROVE w[i] = s[i]
      BY <3>1, <3>3
    <3>5. ASSUME NEW i \in k + 1 .. k + 3 PROVE w[i] = dot
      <4>1. i \in 1 .. k + 3 /\ ~(i <= k) /\ i - k \in 1 .. 3
        OBVIOUS
      <4>2. Len(t) = k /\ Len(Ellipsis) = 3
        BY <3>1, <3>2
      <4>3. w[i] = Ellipsis[i - k]
        BY <3>3, <4>1, <4>2
      <4> QED
        BY <3>2, <4>1, <4>3
    <3>6. w \in Seq(Rune) /\ Len(w) = k + 3
      BY <3>1, <3>2, <3>3
    <3> QED
      BY <3>4, <3>5, <3>6
  <2> HIDE DEF w
  <2>2. PICK g : IsJoin(g, Rune, w, Breaks) /\ JoinFields(w, Breaks) = g[Len(w)]
    BY <2>1, JoinFieldsIs
  <2>3. /\ g \in [0 .. k + 3 -> Seq(Rune)] /\ g[0] = <<>>
        /\ \A n \in 1 .. k + 3 : g[n] = Joins(w, Breaks, n, g[n - 1])
    BY <2>1, <2>2 DEF IsJoin
  <2> DEFINE S == {n \in 0 .. k : g[n] = h[n]}
  <2>4. 0 \in S
    BY <1>2, <2>3
  <2>5. ASSUME NEW n \in 0 .. k, n \in S, n < k PROVE n + 1 \in S
    <3>1. /\ n + 1 \in 1 .. N /\ n + 1 \in 1 .. k + 3 /\ (n + 1) - 1 = n /\ n \in 0 .. N
          /\ w[n + 1] = s[n + 1]
      BY <1>3, <2>1, <2>5
    <3>2. /\ g[n + 1] = Joins(w, Breaks, n + 1, h[n]) /\ h[n + 1] = Joins(s, Breaks, n + 1, h[n])
      BY <1>2, <2>3, <2>5, <3>1
    <3>3. h[n] # <<>> => w[n] = s[n]
      BY <1>2, <2>1, <2>5
    <3>4. w[(n + 1) - 1] = w[n] /\ s[(n + 1) - 1] = s[n]
      BY <3>1
    <3>5. Joins(w, Breaks, n + 1, h[n]) = Joins(s, Breaks, n + 1, h[n])
      BY <3>1, <3>3, <3>4, Zenon DEF Joins
    <3>6. n + 1 \in 0 .. k
      BY <2>5
    <3> QED
      BY <3>2, <3>5, <3>6
  <2>6. g[k] = h[k]
    <3>1. k \in Nat /\ k \in 0 .. k
      OBVIOUS
    <3> HIDE DEF S
    <3>2. \A n \in 0 .. k : n \in S
      BY <2>4, <2>5, <3>1, InductionTo
    <3> QED
      BY <3>1, <3>2 DEF S
  <2>7. dot \in Rune /\ dot \notin Breaks
    BY Alphabets, Zenon
  <2>8. /\ e \in Seq(Rune) /\ d[k] = e
        /\ h[k] # <<>> => w[k] = s[k]
    <3>1. h[k] # <<>> => k \in 1 .. k
      BY <1>2
    <3> QED
      BY <1>4, <2>1, <3>1
  <2> HIDE DEF dot, d
  <2>9. g[k + 1] = e \o <<dot>>
    <3>1. g[k + 1] = Joins(w, Breaks, k + 1, h[k]) /\ w[k + 1] = dot /\ (k + 1) - 1 = k
      BY <2>1, <2>3, <2>6
    <3>2. h[k] \in Seq(Rune) /\ w[k + 1] \in Rune
      BY <1>2, <2>7, <3>1
    <3>3. Joins(w, Breaks, k + 1, h[k]) =
            IF w[k + 1] \in Breaks THEN h[k] ELSE Pending(w, (k + 1) - 1, h[k]) \o <<w[k + 1]>>
      BY <3>2, JoinsPending, Zenon
    <3>5. g[k + 1] = Pending(w, k, h[k]) \o <<dot>>
      BY <2>7, <3>1, <3>3, Zenon
    <3>4. Pending(w, k, h[k]) = e
      BY <2>8, Zenon DEF Pending
    <3> QED
      BY <3>4, <3>5
  <2>10. ASSUME NEW j \in {1, 2} PROVE g[k + j + 1] = g[k + j] \o <<dot>>
    <3>1. /\ k + j + 1 \in 1 .. k + 3 /\ (k + j + 1) - 1 = k + j /\ k + j \in k + 1 .. k + 3
          /\ k + j + 1 \in k + 1 .. k + 3 /\ k + j \in 0 .. k + 3
      OBVIOUS
    <3>2. /\ g[k + j + 1] = Joins(w, Breaks, k + j + 1, g[k + j])
          /\ w[k + j + 1] = dot /\ w[k + j] = dot /\ g[k + j] \in Seq(Rune)
      BY <2>1, <2>3, <3>1
    <3> DEFINE m == k + j + 1
               v == g[k + j]
    <3>3. w[m] = dot /\ w[m - 1] = dot /\ v \in Seq(Rune) /\ g[m] = Joins(w, Breaks, m, v)
      BY <3>1, <3>2
    <3> HIDE DEF m, v
    <3>4. Joins(w, Breaks, m, v) = v \o <<w[m]>>
      <4>1. w[m] \in Rune /\ w[m] \notin Breaks /\ w[m - 1] \notin Breaks
        BY <2>7, <3>3, Zenon
      <4> QED
        <5>1. Gap \in Rune /\ v \in Seq(Rune)
          BY <3>3
        <5>2. ASSUME w[m] \in Rune, w[m] \notin Breaks, w[m - 1] \notin Breaks
              PROVE  Joins(w, Breaks, m, v) = v \o <<w[m]>>
          BY <5>1, <5>2, JoinsNext, Zenon
        <5> QED
          BY <4>1, <5>2, Zenon
    <3>5. g[m] = v \o <<dot>>
      BY <3>3, <3>4, Zenon
    <3> QED
      BY <3>5 DEF m, v
  <2>11. g[k + 3] = ((e \o <<dot>>) \o <<dot>>) \o <<dot>>
    <3>1. g[k + 2] = g[k + 1] \o <<dot>>
      <4>1. k + 1 + 1 = k + 2
        OBVIOUS
      <4>2. g[k + 1 + 1] = g[k + 1] \o <<dot>>
        BY <2>10
      <4> QED
        BY <4>1, <4>2
    <3>2. g[k + 3] = g[k + 2] \o <<dot>>
      <4>1. k + 2 + 1 = k + 3
        OBVIOUS
      <4>2. g[k + 2 + 1] = g[k + 2] \o <<dot>>
        BY <2>10
      <4> QED
        BY <4>1, <4>2
    <3> QED
      BY <2>9, <3>1, <3>2
  <2>12. g[k + 3] = e \o Ellipsis
    <3> DEFINE one == <<dot>>
               two == one \o one
               three == two \o one
    <3>1. one \in Seq(Rune) /\ two \in Seq(Rune)
      BY <2>7
    <3>2. three = Ellipsis
      <4>1. Len(one) = 1 /\ one[1] = dot
        OBVIOUS
      <4>2. Len(two) = 2 /\ two[1] = dot /\ two[2] = dot
        BY <2>7
      <4> HIDE DEF two
      <4>3. /\ three \in Seq(Rune) /\ Len(three) = 3
            /\ three[1] = dot /\ three[2] = dot /\ three[3] = dot
        <5> HIDE DEF one
        <5>1. /\ three \in Seq(Rune) /\ Len(three) = Len(two) + Len(one)
              /\ \A i \in 1 .. Len(two) + Len(one) :
                   three[i] = IF i <= Len(two) THEN two[i] ELSE one[i - Len(two)]
          BY <3>1, ConcatProperties, Zenon
        <5> HIDE DEF three
        <5> QED
          BY <4>1, <4>2, <5>1
      <4>4. /\ Ellipsis \in Seq(Rune) /\ Len(Ellipsis) = 3
            /\ Ellipsis[1] = dot /\ Ellipsis[2] = dot /\ Ellipsis[3] = dot
        BY <2>7 DEF Ellipsis, dot
      <4> HIDE DEF three
      <4>5. Len(three) = Len(Ellipsis) /\ \A i \in 1 .. Len(three) : three[i] = Ellipsis[i]
        BY <4>3, <4>4
      <4> QED
        BY <4>3, <4>4, <4>5, SeqEqual, Zenon
    <3> HIDE DEF one
    <3>3. (e \o one) \o one = e \o two
      BY <2>8, <3>1, ConcatAssociative, SMTT(30)
    <3> HIDE DEF two
    <3>4. (e \o two) \o one = e \o three
      BY <2>8, <3>1, ConcatAssociative, SMTT(30)
    <3> QED
      BY <2>11, <3>2, <3>3, <3>4 DEF one
  <2> QED
    BY <2>1, <2>2, <2>8, <2>12 DEF OneLine, w
<1> HIDE DEF d
<1>7. Grows(d, N, Rune)
  BY <1>4, <1>5 DEF Grows
<1> QED
  BY <1>6, <1>7

\* Then each starts with all before it.
HasGrown(d, N, Rune) ==
  \A j \in 0 .. N : \A k \in j .. N : \E q \in Seq(Rune) : d[k] = d[j] \o q

LEMMA GrowsOn ==
  ASSUME NEW Rune, NEW N \in Nat, NEW d, Grows(d, N, Rune)
  PROVE  HasGrown(d, N, Rune)
<1> USE DEF Grows, HasGrown
<1> TAKE j \in 0 .. N
<1> DEFINE Grown(n) == \E q \in Seq(Rune) : d[n] = d[j] \o q
           S == {n \in 0 .. N : n >= j => Grown(n)}
<1>1. Grown(j)
  <2>1. d[j] = d[j] \o <<>> /\ <<>> \in Seq(Rune)
    BY ConcatEmptySeq
  <2> QED
    BY <2>1, Zenon
<1>2. ASSUME NEW n \in j .. N - 1, Grown(n) PROVE Grown(n + 1)
  <2>1. n + 1 \in 1 .. N /\ (n + 1) - 1 = n /\ n \in 0 .. N /\ j \in 0 .. N
    OBVIOUS
  <2>2. PICK q1 \in Seq(Rune) : d[n] = d[j] \o q1
    BY <1>2
  <2>3. PICK q2 \in Seq(Rune) : d[n + 1] = d[n] \o q2
    BY <2>1
  <2> DEFINE a == d[j]
  <2>4. a \in Seq(Rune)
    BY <2>1
  <2> HIDE DEF a
  <2>5. (a \o q1) \o q2 = a \o (q1 \o q2)
    BY <2>4, ConcatAssociative, SMTT(30)
  <2>6. q1 \o q2 \in Seq(Rune)
    OBVIOUS
  <2>7. d[n + 1] = d[j] \o (q1 \o q2)
    BY <2>2, <2>3, <2>5, Zenon DEF a
  <2> QED
    BY <2>6, <2>7, Zenon
<1> HIDE DEF Grown
<1>3. 0 \in S
  <2>1. 0 >= j => j = 0
    OBVIOUS
  <2> QED
    BY <1>1, <2>1
<1>4. ASSUME NEW n \in 0 .. N, n \in S, n < N PROVE n + 1 \in S
  <2>1. CASE n + 1 <= j
    <3>1. n + 1 >= j => n + 1 = j
      BY <2>1
    <3> QED
      BY <1>1, <1>4, <3>1
  <2>2. CASE n >= j
    BY <1>2, <1>4, <2>2
  <2> QED
    BY <2>1, <2>2
<1> HIDE DEF S
<1>5. \A n \in 0 .. N : n \in S
  BY <1>3, <1>4, InductionTo
<1>6. \A k \in j .. N : k \in 0 .. N /\ k >= j
  OBVIOUS
<1> QED
  BY <1>5, <1>6 DEF S, Grown

\* What is after a text in one septet each adds its length, and no more.
LEMMA BasicTail ==
  ASSUME NEW Rune, NEW p \in Seq(Rune), NEW t \in Seq(Basic)
  PROVE  ScreenCost(p \o t) = ScreenCost(p) + Len(t) /\ Budget(p \o t) = Budget(p)
<1> DEFINE R == Rune \cup Basic
           w == p \o t
<1>1. p \in Seq(R) /\ t \in Seq(R)
  OBVIOUS
<1> HIDE DEF R
<1>2. w \in Seq(R) /\ Len(w) = Len(p) + Len(t) /\ Len(p) \in Nat /\ Len(t) \in Nat
  BY <1>1, ConcatProperties
<1>3. \A C : Count(w, C) = Count(p, C) + Count(t, C) /\ Count(p, C) \in Nat
  BY <1>1, CountConcat, CountIs
<1>4. EncodingOf(w) = "gsm7" <=> EncodingOf(p) = "gsm7"
  BY <1>1, BasicCost, EncodingConcat
<1>5. Count(t, Extended) = 0 /\ Count(t, Astral) = 0
  BY BasicCost
<1> HIDE DEF w
<1>6. Budget(w) = Budget(p)
  BY <1>4 DEF Budget
<1>7. ScreenCost(w) = ScreenCost(p) + Len(t)
  <2>1. /\ Count(w, Extended) = Count(p, Extended) /\ Count(p, Extended) \in Nat
        /\ Count(w, Astral) = Count(p, Astral) /\ Count(p, Astral) \in Nat
    BY <1>3, <1>5
  <2> QED
    BY <1>2, <1>4, <2>1 DEF ScreenCost
<1> QED
  BY <1>6, <1>7 DEF w

LEMMA FewerDotsFit ==
  ASSUME NEW Rune, NEW p \in Seq(Rune), NEW m \in 0 .. 3, NEW n \in 0 .. m,
         FitsScreen(p \o Take(Ellipsis, m))
  PROVE  FitsScreen(p \o Take(Ellipsis, n))
<1> DEFINE more == Take(Ellipsis, m)
           less == Take(Ellipsis, n)
<1>1. more \in Seq(Basic) /\ less \in Seq(Basic) /\ Len(more) = m /\ Len(less) = n
  <2>1. m \in 0 .. Len(Ellipsis) /\ n \in 0 .. Len(Ellipsis) /\ Ellipsis \in Seq(Basic)
    BY EllipsisIs
  <2> QED
    BY <2>1, TakeIs
<1> HIDE DEF more, less
<1>2. /\ ScreenCost(p \o more) = ScreenCost(p) + m /\ Budget(p \o more) = Budget(p)
      /\ ScreenCost(p \o less) = ScreenCost(p) + n /\ Budget(p \o less) = Budget(p)
  BY <1>1, BasicTail
<1>3. ScreenCost(p) \in Nat /\ Budget(p) \in Nat
  BY CostIs
<1>4. ScreenCost(p) + m <= Budget(p)
  BY <1>2 DEF FitsScreen, more
<1> QED
  BY <1>2, <1>3, <1>4 DEF FitsScreen, less

LEMMA LessMarkedFits ==
  ASSUME NEW Rune, Basic \subseteq Rune, NEW lead \in Seq(Rune),
         NEW a \in Seq(Rune), NEW q \in Seq(Rune),
         FitsScreen(lead \o ((a \o q) \o Ellipsis))
  PROVE  FitsScreen(lead \o (a \o Ellipsis))
<1> DEFINE e == Ellipsis
           p == lead \o a
<1>1. e \in Seq(Basic) /\ e \in Seq(Rune) /\ Len(e) = 3
  BY EllipsisIs
<1> HIDE DEF e
<1>2. (p \o q) \o e = lead \o ((a \o q) \o e)
  <2>1. p \o q = lead \o (a \o q)
    BY ConcatAssociative, SMTT(30)
  <2> DEFINE aq == a \o q
  <2>2. aq \in Seq(Rune)
    OBVIOUS
  <2> HIDE DEF aq
  <2>3. (lead \o aq) \o e = lead \o (aq \o e)
    BY <1>1, <2>2, ConcatAssociative, SMTT(30)
  <2> QED
    BY <2>1, <2>3, Zenon DEF aq
<1>3. p \o e = lead \o (a \o e)
  BY <1>1, ConcatAssociative, SMTT(30)
<1>4. p \in Seq(Rune)
  OBVIOUS
<1> HIDE DEF p
<1>5. ScreenCost(p \o q \o e) + 0 <= Budget(p \o q \o e)
  <2>1. FitsScreen(p \o q \o e)
    BY <1>2, Zenon DEF e
  <2>2. p \o q \o e \in Seq(Rune)
    BY <1>1, <1>4
  <2> DEFINE w == p \o q \o e
  <2> HIDE DEF w
  <2>3. ScreenCost(w) \in Nat
    BY <2>2, CostIs DEF w
  <2> QED
    BY <2>1, <2>3 DEF FitsScreen, w
<1>6. ScreenCost(p \o e) + 0 <= Budget(p \o e)
  <2>1. 0 + Len(e) >= 1 /\ 0 \in Nat
    BY <1>1
  <2> QED
    BY <1>1, <1>4, <1>5, <2>1, PrefixFits
<1>7. FitsScreen(p \o e)
  <2>1. p \o e \in Seq(Rune)
    BY <1>1, <1>4
  <2> DEFINE w == p \o e
  <2> HIDE DEF w
  <2>2. ScreenCost(w) \in Nat
    BY <2>1, CostIs DEF w
  <2> QED
    BY <1>6, <2>2 DEF FitsScreen, w
<1> QED
  BY <1>3, <1>7, Zenon DEF e

\* What a line shows of a text with room for n of its runes.
Shown(s, n) == OneLine(Truncate(s, n))

\* With room for more runes, no less is shown, and what is before it has room
\* for less if it has for more.
LEMMA MoreIsShown ==
  ASSUME NEW Rune, Basic \subseteq Rune, NEW lead \in Seq(Rune), NEW s \in Seq(Rune),
         NEW n2 \in 0 .. Len(s) - 1, NEW n1 \in 0 .. n2
  PROVE  /\ Len(Shown(s, n1)) <= Len(Shown(s, n2))
         /\ FitsScreen(lead \o Shown(s, n2)) => FitsScreen(lead \o Shown(s, n1))
<1> DEFINE N == Len(s)
           e == Ellipsis
<1>1. /\ Gap \in Rune /\ "." \in Rune /\ e \in Seq(Rune) /\ e \in Seq(Basic) /\ Len(e) = 3
      /\ N \in Nat
  <2>1. "." \in Basic
    BY Alphabets, Zenon
  <2> QED
    BY <2>1, GapIs, EllipsisIs
<1>2. ASSUME NEW n \in 0 .. 3, n < N
      PROVE  Shown(s, n) = Take(e, n) /\ Len(Take(e, n)) = n
  <2>1. Truncate(s, n) = Take(e, n)
    <3>1. CASE n = 0
      <4>1. Truncate(s, n) = <<>>
        BY <3>1, TruncateIs
      <4> QED
        BY <1>1, <3>1, <4>1, TakeNone
    <3>2. CASE n > 0
      BY <1>1, <1>2, <3>2, TruncateIs
    <3> QED
      BY <3>1, <3>2
  <2> DEFINE dots == Take(e, n)
  <2>2. dots \in Seq(Rune) /\ Len(dots) = n
    <3>1. n \in 0 .. Len(e)
      BY <1>1
    <3> QED
      BY <1>1, <3>1, TakeIs
  <2>3. IsOneLine(dots)
    BY MarkerIsOneLine
  <2> HIDE DEF dots
  <2>4. OneLine(dots) = dots
    BY <1>1, <2>2, <2>3, OneLineIsItself
  <2> QED
    BY <2>1, <2>2, <2>4 DEF dots, Shown
<1>3. PICK d : /\ Grows(d, N, Rune)
               /\ \A k \in 0 .. N : OneLine(Take(s, k) \o e) = d[k] \o e
  BY <1>1, MarkedLines
<1> HIDE DEF N, e
<1>4. ASSUME NEW n \in 4 .. N - 1
      PROVE  \E k \in 0 .. n - 3 : /\ IsKept(s, n - 3, k) /\ k \in 0 .. N
                                   /\ Shown(s, n) = d[k] \o e
  <2>1. PICK k \in 0 .. n - 3 : IsKept(s, n - 3, k) /\ Truncate(s, n) = Take(s, k) \o e
    BY <1>1, TruncateKeeps DEF N, e
  <2>2. k \in 0 .. N
    BY <1>1
  <2> QED
    BY <1>3, <2>1, <2>2, Zenon DEF Shown
<1>5. \A k \in 0 .. N : d[k] \in Seq(Rune) /\ Len(d[k] \o e) = Len(d[k]) + 3
  <2> TAKE k \in 0 .. N
  <2> DEFINE a == d[k]
  <2>1. a \in Seq(Rune)
    BY <1>3 DEF Grows
  <2> HIDE DEF a
  <2>2. Len(a \o e) = Len(a) + Len(e)
    BY <1>1, <2>1, ConcatProperties
  <2> QED
    BY <1>1, <2>1, <2>2 DEF a
<1>6. CASE n2 <= 3
  <2>1. /\ Shown(s, n2) = Take(e, n2) /\ Len(Take(e, n2)) = n2
        /\ Shown(s, n1) = Take(e, n1) /\ Len(Take(e, n1)) = n1
    <3>1. n2 \in 0 .. 3 /\ n1 \in 0 .. 3 /\ n1 < N /\ n2 < N
      BY <1>1, <1>6 DEF N
    <3> QED
      BY <1>2, <3>1
  <2>2. n2 \in 0 .. 3
    BY <1>6, <1>1 DEF N
  <2>3. FitsScreen(lead \o Take(e, n2)) => FitsScreen(lead \o Take(e, n1))
    BY <2>2, FewerDotsFit DEF e
  <2> QED
    BY <2>1, <2>3
<1>7. CASE n2 > 3
  <2>1. n2 \in 4 .. N - 1
    BY <1>1, <1>7 DEF N
  <2>2. PICK k2 \in 0 .. n2 - 3 : /\ IsKept(s, n2 - 3, k2) /\ k2 \in 0 .. N
                                  /\ Shown(s, n2) = d[k2] \o e
    BY <1>4, <2>1
  <2> DEFINE a2 == d[k2]
  <2>3. a2 \in Seq(Rune) /\ Len(a2 \o e) = Len(a2) + 3
    BY <1>5, <2>2
  <2>4. CASE n1 <= 3
    <3>1. Shown(s, n1) = Take(e, n1) /\ Len(Take(e, n1)) = n1
      <4>1. n1 \in 0 .. 3 /\ n1 < N
        BY <1>1, <2>4 DEF N
      <4> QED
        BY <1>2, <4>1
    <3> HIDE DEF a2
    <3>2. n1 <= Len(a2 \o e)
      BY <2>3, <2>4
    <3>3. ASSUME FitsScreen(lead \o (a2 \o e)) PROVE FitsScreen(lead \o Take(e, n1))
      <4>1. FitsScreen(lead \o ((<<>> \o a2) \o e)) /\ <<>> \in Seq(Rune)
        BY <2>3, <3>3, ConcatEmptySeq
      <4>2. FitsScreen(lead \o (<<>> \o e))
        BY <2>3, <4>1, LessMarkedFits DEF e
      <4>3. <<>> \o e = Take(e, 3)
        BY <1>1, ConcatEmptySeq, TakeAll
      <4>4. FitsScreen(lead \o Take(e, 3))
        BY <4>2, <4>3
      <4>5. 3 \in 0 .. 3 /\ n1 \in 0 .. 3
        BY <2>4
      <4> QED
        BY <4>4, <4>5, FewerDotsFit DEF e
    <3> QED
      BY <2>2, <3>1, <3>2, <3>3 DEF a2
  <2>5. CASE n1 > 3
    <3>1. n1 \in 4 .. N - 1
      BY <1>1, <2>5 DEF N
    <3>2. PICK k1 \in 0 .. n1 - 3 : /\ IsKept(s, n1 - 3, k1) /\ k1 \in 0 .. N
                                    /\ Shown(s, n1) = d[k1] \o e
      BY <1>4, <3>1
    <3>3. k1 <= k2
      <4>1. n2 - 3 \in 1 .. Len(s) - 1 /\ n1 - 3 \in 1 .. n2 - 3
        BY <1>7, <2>5
      <4> QED
        BY <2>2, <3>2, <4>1, KeptGrows
    <3>4. PICK q \in Seq(Rune) : d[k2] = d[k1] \o q
      <4>1. k2 \in k1 .. N
        BY <2>2, <3>2, <3>3
      <4> QED
        <5>1. HasGrown(d, N, Rune)
          BY <1>1, <1>3, GrowsOn
        <5> QED
          BY <3>2, <4>1, <5>1, Zenon DEF HasGrown
    <3> DEFINE a1 == d[k1]
    <3>5. a1 \in Seq(Rune) /\ Len(a1 \o e) = Len(a1) + 3 /\ a2 = a1 \o q
      BY <1>5, <3>2, <3>4
    <3> HIDE DEF a1, a2
    <3>6. Len(a1 \o e) <= Len(a2 \o e)
      BY <2>3, <3>5
    <3>7. ASSUME FitsScreen(lead \o (a2 \o e)) PROVE FitsScreen(lead \o (a1 \o e))
      <4>1. FitsScreen(lead \o ((a1 \o q) \o e))
        BY <3>5, <3>7, Zenon
      <4> QED
        BY <3>5, <4>1, LessMarkedFits DEF e
    <3> QED
      BY <2>2, <3>2, <3>6, <3>7 DEF a1, a2
  <2> QED
    BY <2>4, <2>5
<1> QED
  BY <1>1, <1>6, <1>7 DEF N

----------------------------------------------------------------------------
(* Menus *)

NewLine == "\n"
Stop == <<".", " ">>

LEMMA Separators ==
  /\ NewLine \in Basic /\ NewLine \in Breaks /\ NewLine # Gap
  /\ Stop \in Seq(Basic) /\ Len(Stop) = 2 /\ \A i \in 1 .. 2 : Stop[i] # NewLine
<1>1. NewLine \in Basic /\ NewLine \in Breaks /\ "." \in Basic /\ "." \notin Breaks
  BY Alphabets, Zenon DEF NewLine
<1>2. NewLine # Gap
  BY Zenon DEF NewLine, Gap
<1>3. Stop = <<".", Gap>>
  BY Zenon DEF Stop, Gap
<1>4. Stop \in Seq(Basic) /\ Len(Stop) = 2 /\ Stop[1] = "." /\ Stop[2] = Gap
  BY <1>1, <1>3, GapIs
<1> QED
  BY <1>1, <1>2, <1>4

\* The texts that start no line at their end.
EndsClear(s) == s = <<>> \/ s[Len(s)] # NewLine

Offers(s) ==
  [i \in DOMAIN s |-> IF s[i] = NewLine THEN <<Append(s, NewLine)[i + 1]>> ELSE <<>>]

LEMMA OffersAre ==
  ASSUME NEW Rune, NewLine \in Rune, NEW s \in Seq(Rune)
  PROVE  /\ Offers(s) \in Seq(Seq(Rune)) /\ Len(Offers(s)) = Len(s)
         /\ \A i \in 1 .. Len(s) :
              /\ s[i] # NewLine => Offers(s)[i] = <<>>
              /\ s[i] = NewLine =>
                   Offers(s)[i] = <<IF i = Len(s) THEN NewLine ELSE s[i + 1]>>
         /\ Offered(s) = FlattenSeq(Offers(s))
<1> DEFINE N == Len(s)
           Next(i) == IF i = N THEN NewLine ELSE s[i + 1]
           ss == [i \in 1 .. N |-> IF s[i] = NewLine THEN <<Next(i)>> ELSE <<>>]
<1>1. N \in Nat /\ DOMAIN s = 1 .. N /\ \A i \in 1 .. N : Next(i) \in Rune
  OBVIOUS
<1>2. \A i \in 1 .. N : Append(s, NewLine)[i + 1] = Next(i)
  <2> DEFINE w == Append(s, NewLine)
  <2>1. \A i \in 1 .. N + 1 : w[i] = IF i = N + 1 THEN NewLine ELSE s[i]
    OBVIOUS
  <2> HIDE DEF w
  <2>2. ASSUME NEW i \in 1 .. N PROVE w[i + 1] = Next(i)
    <3>1. i + 1 \in 1 .. N + 1 /\ (i + 1 = N + 1 <=> i = N)
      <4>1. N \in Nat
        BY <1>1
      <4> HIDE DEF N
      <4> QED
        BY <4>1
    <3> QED
      BY <2>1, <3>1
  <2> QED
    BY <2>2 DEF w
<1> HIDE DEF N, Next
<1>3. Offers(s) = ss
  BY <1>1, <1>2 DEF Offers
<1>4. ss \in [1 .. N -> Seq(Rune)]
  BY <1>1
<1>5. \A i \in 1 .. N : /\ s[i] # NewLine => ss[i] = <<>>
                        /\ s[i] = NewLine => ss[i] = <<Next(i)>>
  OBVIOUS
<1> HIDE DEF ss
<1>6. ss \in Seq(Seq(Rune)) /\ Len(ss) = N
  BY <1>1, <1>4
<1>7. Offered(s) = FlattenSeq(Offers(s))
  BY Zenon DEF Offered, Offers, NewLine
<1> QED
  BY <1>3, <1>5, <1>6, <1>7 DEF N, Next

LEMMA OfferedIsText ==
  ASSUME NEW Rune, NewLine \in Rune, NEW s \in Seq(Rune)
  PROVE  Offered(s) \in Seq(Rune)
BY OffersAre, FlattenIsText, Zenon

\* What a text offers below another is offered after what that one offers.
LEMMA OfferedConcat ==
  ASSUME NEW Rune, NewLine \in Rune, NEW s \in Seq(Rune), NEW t \in Seq(Rune), EndsClear(s)
  PROVE  Offered(s \o t) = Offered(s) \o Offered(t)
<1> DEFINE st == s \o t
           a == Offers(s)
           b == Offers(t)
           ab == Offers(st)
<1>1. /\ st \in Seq(Rune) /\ Len(st) = Len(s) + Len(t)
      /\ Len(s) \in Nat /\ Len(t) \in Nat
      /\ \A i \in 1 .. Len(s) + Len(t) : st[i] = IF i <= Len(s) THEN s[i] ELSE t[i - Len(s)]
  BY ConcatProperties
<1> HIDE DEF st
<1>2. /\ ab \in Seq(Seq(Rune)) /\ Len(ab) = Len(st)
      /\ \A i \in 1 .. Len(st) :
           /\ st[i] # NewLine => ab[i] = <<>>
           /\ st[i] = NewLine => ab[i] = <<IF i = Len(st) THEN NewLine ELSE st[i + 1]>>
      /\ Offered(st) = FlattenSeq(ab)
  BY <1>1, OffersAre
<1>3. /\ a \in Seq(Seq(Rune)) /\ Len(a) = Len(s)
      /\ \A i \in 1 .. Len(s) :
           /\ s[i] # NewLine => a[i] = <<>>
           /\ s[i] = NewLine => a[i] = <<IF i = Len(s) THEN NewLine ELSE s[i + 1]>>
      /\ Offered(s) = FlattenSeq(a)
  BY OffersAre
<1>4. /\ b \in Seq(Seq(Rune)) /\ Len(b) = Len(t)
      /\ \A i \in 1 .. Len(t) :
           /\ t[i] # NewLine => b[i] = <<>>
           /\ t[i] = NewLine => b[i] = <<IF i = Len(t) THEN NewLine ELSE t[i + 1]>>
      /\ Offered(t) = FlattenSeq(b)
  BY OffersAre
<1>5. Len(s) > 0 => s[Len(s)] # NewLine
  BY DEF EndsClear
<1> HIDE DEF a, b, ab
<1>6. ab = a \o b
  <2> DEFINE Text == Seq(Rune)
             both == a \o b
  <2>1. a \in Seq(Text) /\ b \in Seq(Text) /\ ab \in Seq(Text)
    BY <1>2, <1>3, <1>4
  <2> HIDE DEF Text
  <2>2. /\ both \in Seq(Text) /\ Len(both) = Len(a) + Len(b)
        /\ \A i \in 1 .. Len(a) + Len(b) : both[i] = IF i <= Len(a) THEN a[i] ELSE b[i - Len(a)]
    BY <2>1, ConcatProperties
  <2> HIDE DEF both
  <2>3. ASSUME NEW i \in 1 .. Len(s) + Len(t) PROVE ab[i] = both[i]
    <3>1. CASE i <= Len(s)
      <4>1. i \in 1 .. Len(s) /\ i \in 1 .. Len(st) /\ i \in Nat
        BY <1>1, <3>1
      <4>2. st[i] = s[i] /\ both[i] = a[i]
        BY <1>1, <1>3, <1>4, <2>2, <3>1
      <4>3. CASE s[i] # NewLine
        BY <1>2, <1>3, <4>1, <4>2, <4>3
      <4>4. CASE s[i] = NewLine
        <5>1. i # Len(s)
          BY <1>5, <4>1, <4>4
        <5>2. i + 1 \in 1 .. Len(s) + Len(t) /\ i + 1 <= Len(s) /\ i # Len(st)
          BY <1>1, <4>1, <5>1
        <5>3. st[i + 1] = s[i + 1]
          BY <1>1, <5>2
        <5>4. ab[i] = <<st[i + 1]>>
          BY <1>2, <4>1, <4>2, <4>4, <5>2
        <5>5. a[i] = <<s[i + 1]>>
          BY <1>3, <4>1, <4>4, <5>1
        <5> QED
          BY <4>2, <5>3, <5>4, <5>5
      <4> QED
        BY <4>3, <4>4
    <3>2. CASE i > Len(s)
      <4> DEFINE j == i - Len(s)
      <4>1. j \in 1 .. Len(t) /\ ~(i <= Len(s)) /\ i \in 1 .. Len(st)
            /\ (i = Len(st) <=> j = Len(t))
        BY <1>1, <3>2
      <4>2. st[i] = t[j] /\ both[i] = b[j]
        BY <1>1, <1>3, <1>4, <2>2, <4>1
      <4>3. CASE i = Len(st)
        BY <1>2, <1>4, <4>1, <4>2, <4>3
      <4>4. CASE i # Len(st)
        <5>1. /\ i + 1 \in 1 .. Len(s) + Len(t) /\ ~(i + 1 <= Len(s))
              /\ (i + 1) - Len(s) = j + 1
          BY <1>1, <4>1, <4>4
        <5>2. st[i + 1] = t[j + 1]
          BY <1>1, <5>1
        <5> HIDE DEF j
        <5> QED
          BY <1>2, <1>4, <4>1, <4>2, <4>4, <5>2
      <4> QED
        BY <4>3, <4>4
    <3> QED
      BY <1>1, <3>1, <3>2
  <2>4. Len(ab) = Len(s) + Len(t) /\ Len(both) = Len(s) + Len(t)
    BY <1>1, <1>2, <1>3, <1>4, <2>2
  <2>5. ab = both
    BY <2>1, <2>2, <2>3, <2>4, SeqEqual
  <2> QED
    BY <2>5 DEF both
<1>7. FlattenSeq(ab) = FlattenSeq(a) \o FlattenSeq(b)
  BY <1>3, <1>4, <1>6, FlattenConcat
<1> QED
  BY <1>2, <1>3, <1>4, <1>7 DEF st

LEMMA NothingIsOffered ==
  ASSUME NEW Rune, NewLine \in Rune, NEW s \in Seq(Rune),
         \A i \in 1 .. Len(s) : s[i] # NewLine
  PROVE  Offered(s) = <<>>
<1> DEFINE ss == Offers(s)
           N == Len(s)
<1>1. /\ ss \in Seq(Seq(Rune)) /\ Len(ss) = N /\ N \in Nat
      /\ \A i \in 1 .. N : ss[i] = <<>>
      /\ Offered(s) = FlattenSeq(ss)
  BY OffersAre
<1> HIDE DEF ss, N
<1>2. ss \in [1 .. N -> {<<>>}]
  <2> DEFINE nothing == <<>>
             Text == Seq(Rune)
  <2>1. ss \in Seq(Text) /\ \A i \in 1 .. N : ss[i] = nothing
    BY <1>1
  <2> HIDE DEF nothing, Text
  <2>2. ss \in [1 .. N -> {nothing}]
    BY <1>1, <2>1
  <2> QED
    BY <2>2 DEF nothing
<1>3. FlattenSeq(ss) = <<>>
  BY <1>1, <1>2, FlattenNothing
<1> QED
  BY <1>1, <1>3

\* One line that starts with a key offers the key.
LEMMA OfferedLine ==
  ASSUME NEW Rune, NewLine \in Rune, NEW s \in Seq(Rune), Len(s) >= 2,
         s[1] = NewLine, \A i \in 2 .. Len(s) : s[i] # NewLine
  PROVE  Offered(s) = <<s[2]>>
<1> DEFINE ss == Offers(s)
           N == Len(s)
           key == <<s[2]>>
           first == <<key>>
           others == [i \in 1 .. N - 1 |-> <<>>]
<1>1. N \in Nat /\ N >= 2 /\ s[2] \in Rune /\ 1 \in 1 .. N /\ 1 + 1 = 2
  OBVIOUS
<1>2. /\ ss \in Seq(Seq(Rune)) /\ Len(ss) = N
      /\ ss[1] = key
      /\ \A i \in 2 .. N : ss[i] = <<>>
      /\ Offered(s) = FlattenSeq(ss)
  <2>1. /\ ss \in Seq(Seq(Rune)) /\ Len(ss) = N
        /\ \A i \in 1 .. N :
             /\ s[i] # NewLine => ss[i] = <<>>
             /\ s[i] = NewLine => ss[i] = <<IF i = N THEN NewLine ELSE s[i + 1]>>
        /\ Offered(s) = FlattenSeq(ss)
    BY OffersAre
  <2>2. \A i \in 2 .. N : i \in 1 .. N /\ s[i] # NewLine
    BY <1>1
  <2> HIDE DEF ss, N
  <2>3. ss[1] = key
    BY <1>1, <2>1
  <2> QED
    BY <2>1, <2>2, <2>3
<1>3. key \in Seq(Rune)
  BY <1>1
<1>4. first \in Seq(Seq(Rune)) /\ Len(first) = 1 /\ first[1] = key
  <2> HIDE DEF key
  <2> QED
    BY <1>3
<1>5. others \in Seq(Seq(Rune)) /\ Len(others) = N - 1
      /\ \A i \in 1 .. N - 1 : others[i] = <<>>
  <2> HIDE DEF N
  <2>1. N - 1 \in Nat /\ <<>> \in Seq(Rune)
    BY <1>1
  <2>2. others \in [1 .. N - 1 -> Seq(Rune)] /\ \A i \in 1 .. N - 1 : others[i] = <<>>
    BY <2>1
  <2> HIDE DEF others
  <2> QED
    BY <2>1, <2>2
<1>6. Offered(s) = FlattenSeq(ss)
  BY <1>2
<1> HIDE DEF ss, N, others, first, key
<1>7. ss = first \o others
  <2> DEFINE Text == Seq(Rune)
             both == first \o others
  <2>1. ss \in Seq(Text) /\ first \in Seq(Text) /\ others \in Seq(Text)
    BY <1>2, <1>4, <1>5
  <2> HIDE DEF Text
  <2>2. /\ both \in Seq(Text) /\ Len(both) = Len(first) + Len(others)
        /\ \A i \in 1 .. Len(first) + Len(others) :
             both[i] = IF i <= Len(first) THEN first[i] ELSE others[i - Len(first)]
    BY <2>1, ConcatProperties
  <2> HIDE DEF both
  <2>3. Len(both) = N
    BY <1>1, <1>4, <1>5, <2>2
  <2>4. ASSUME NEW i \in 1 .. N PROVE ss[i] = both[i]
    <3>1. CASE i = 1
      BY <1>1, <1>2, <1>4, <1>5, <2>2, <3>1
    <3>2. CASE i # 1
      <4>1. i \in 2 .. N /\ i - 1 \in 1 .. N - 1 /\ ~(i <= 1)
        BY <1>1, <3>2
      <4>2. ss[i] = <<>> /\ others[i - 1] = <<>>
        BY <1>2, <1>5, <4>1
      <4>3. i \in 1 .. Len(first) + Len(others) /\ Len(first) = 1
        BY <1>1, <1>4, <1>5, <4>1
      <4>4. both[i] = others[i - 1]
        BY <2>2, <4>1, <4>3
      <4> QED
        BY <4>2, <4>4
    <3> QED
      BY <3>1, <3>2
  <2>5. ss = both
    <3>1. Len(ss) = Len(both) /\ \A i \in 1 .. Len(ss) : ss[i] = both[i]
      <4>1. Len(ss) = N
        BY <1>2, <2>1
      <4> QED
        BY <2>3, <2>4, <4>1, Zenon
    <3> QED
      BY <2>1, <2>2, <3>1, SeqEqual, Zenon
  <2> QED
    BY <2>5 DEF both
<1>8. FlattenSeq(ss) = FlattenSeq(first) \o FlattenSeq(others)
  BY <1>4, <1>5, <1>7, FlattenConcat
<1>9. FlattenSeq(first) = key
  BY <1>3, FlattenOne DEF first
<1>10. FlattenSeq(others) = <<>>
  <2>1. N - 1 \in Nat
    BY <1>1
  <2>2. others \in [1 .. N - 1 -> {<<>>}]
    BY DEF others
  <2> QED
    BY <2>1, <2>2, FlattenNothing
<1>11. key \o <<>> = key
  BY <1>3, ConcatEmptySeq
<1> QED
  BY <1>6, <1>8, <1>9, <1>10, <1>11 DEF key

\* The items of a menu: a key is some runes, no break, and a label any text.
ItemsOf(Rune) == [key : Seq(Rune \ Breaks) \ {<<>>}, label : Seq(Rune)]

LEMMA KeyIs ==
  ASSUME NEW Rune, NEW item \in ItemsOf(Rune)
  PROVE  /\ item.key \in Seq(Rune) /\ Len(item.key) \in Nat /\ Len(item.key) >= 1
         /\ item.key[1] \in Rune
         /\ \A i \in 1 .. Len(item.key) : item.key[i] \notin Breaks
         /\ item = [key |-> item.key, label |-> item.label]
<1> DEFINE key == item.key
           Clear == Rune \ Breaks
<1>1. key \in Seq(Clear) /\ key # <<>> /\ item = [key |-> item.key, label |-> item.label]
  BY DEF ItemsOf
<1>2. \A r \in Clear : r \in Rune /\ r \notin Breaks
  OBVIOUS
<1> HIDE DEF key, Clear
<1>3. Len(key) \in Nat /\ Len(key) >= 1 /\ key \in [1 .. Len(key) -> Clear]
  BY <1>1
<1>4. \A i \in 1 .. Len(key) : key[i] \in Rune /\ key[i] \notin Breaks
  BY <1>2, <1>3
<1>5. key \in Seq(Rune)
  BY <1>3, <1>4
<1>6. key[1] \in Rune
  BY <1>3, <1>4
<1> QED
  BY <1>1, <1>3, <1>4, <1>5, <1>6 DEF key

\* What a line starts with, whatever its label.
Lead(item) == <<NewLine>> \o item.key \o Stop

LEMMA LineParts ==
  ASSUME NEW Rune, Basic \subseteq Rune, NEW item \in ItemsOf(Rune)
  PROVE  Lead(item) \in Seq(Rune) /\ Line(item) = Lead(item) \o OneLine(item.label)
<1> DEFINE key == item.key
           label == OneLine(item.label)
           start == <<NewLine>>
<1>1. NewLine \in Rune /\ Gap \in Rune /\ Stop \in Seq(Rune) /\ start \in Seq(Rune)
  BY Separators, GapIs
<1>3. key \in Seq(Rune) /\ \A i \in 1 .. Len(key) : key[i] \notin Breaks
  BY KeyIs
<1>4. OneLine(key) = key
  <2> HIDE DEF key
  <2>1. IsOneLine(key)
    BY <1>3 DEF IsOneLine
  <2> QED
    BY <1>1, <1>3, <2>1, OneLineIsItself
<1>5. Line(item) = start \o key \o Stop \o label
  <2>1. Line(item) = start \o OneLine(key) \o Stop \o label
    BY Zenon DEF Line, NewLine, Stop
  <2> HIDE DEF start, key, label
  <2> QED
    BY <1>4, <2>1
<1>6. start \o key \o Stop \in Seq(Rune)
  <2> HIDE DEF start, key
  <2> QED
    BY <1>1, <1>3
<1> QED
  BY <1>5, <1>6 DEF Lead

\* The line of an item offers its key and nothing else.
LEMMA LineIs ==
  ASSUME NEW Rune, Basic \subseteq Rune, NEW item \in ItemsOf(Rune)
  PROVE  /\ Line(item) \in Seq(Rune) /\ Len(Line(item)) >= 2 /\ EndsClear(Line(item))
         /\ Offered(Line(item)) = <<item.key[1]>>
<1> DEFINE key == item.key
           label == OneLine(item.label)
           start == <<NewLine>>
<1>1. NewLine \in Rune /\ Gap \in Rune /\ Stop \in Seq(Rune)
  BY Separators, GapIs
<1> DEFINE r == key[1]
           K == Len(key)
<1>3. /\ key \in Seq(Rune) /\ K \in Nat /\ K >= 1 /\ r \in Rune
      /\ \A i \in 1 .. K : key[i] # NewLine
  BY KeyIs, Separators
<1>4. r # NewLine
  BY <1>3
<1>5. label \in Seq(Rune) /\ \A i \in 1 .. Len(label) : label[i] # NewLine
  <2> DEFINE text == item.label
  <2>1. text \in Seq(Rune)
    BY DEF ItemsOf
  <2> HIDE DEF text
  <2>2. OneLine(text) \in Seq(Rune)
    BY <1>1, <2>1, JoinFieldsIsText DEF OneLine
  <2>3. IsOneLine(OneLine(text))
    BY <1>1, <2>1, OneLineIsOneLine
  <2>4. \A i \in 1 .. Len(OneLine(text)) : OneLine(text)[i] # NewLine
    BY <2>3, Separators DEF IsOneLine
  <2> QED
    BY <2>2, <2>4 DEF text
<1>6. Line(item) = start \o key \o Stop \o label
  BY LineParts DEF Lead
<1>7. start \in Seq(Rune) /\ Len(start) = 1 /\ start[1] = NewLine
  BY <1>1
<1>8. Len(Stop) = 2 /\ \A i \in 1 .. 2 : Stop[i] # NewLine
  BY Separators
<1> HIDE DEF start, key, label, r
<1> DEFINE one == start \o key
           two == one \o Stop
           line == two \o label
<1>9. /\ one \in Seq(Rune) /\ Len(one) = K + 1 /\ one[1] = NewLine /\ one[2] = r
      /\ \A i \in 2 .. K + 1 : one[i] # NewLine
  <2>1. /\ one \in Seq(Rune) /\ Len(one) = Len(start) + Len(key)
        /\ \A i \in 1 .. Len(start) + Len(key) :
             one[i] = IF i <= Len(start) THEN start[i] ELSE key[i - Len(start)]
    BY <1>3, <1>7, ConcatProperties
  <2> HIDE DEF one
  <2>2. Len(one) = K + 1 /\ one[1] = NewLine
    BY <1>3, <1>7, <2>1
  <2>3. \A i \in 2 .. K + 1 : one[i] = key[i - 1]
    BY <1>3, <1>7, <2>1
  <2>4. \A i \in 2 .. K + 1 : i - 1 \in 1 .. K
    BY <1>3
  <2>5. one[2] = r
    BY <1>3, <2>3 DEF r
  <2> HIDE DEF K
  <2> QED
    BY <1>3, <2>1, <2>2, <2>3, <2>4, <2>5
<1> HIDE DEF one, K
<1>10. /\ two \in Seq(Rune) /\ Len(two) = K + 3 /\ two[1] = NewLine /\ two[2] = r
       /\ \A i \in 2 .. K + 3 : two[i] # NewLine
  <2>1. /\ two \in Seq(Rune) /\ Len(two) = Len(one) + Len(Stop)
        /\ \A i \in 1 .. Len(one) + Len(Stop) :
             two[i] = IF i <= Len(one) THEN one[i] ELSE Stop[i - Len(one)]
    BY <1>1, <1>9, ConcatProperties
  <2> HIDE DEF two
  <2>2. \A i \in 2 .. K + 3 : i \in 2 .. K + 1 \/ (i - (K + 1) \in 1 .. 2 /\ ~(i <= K + 1))
    BY <1>3
  <2>3. Len(two) = K + 3 /\ two[1] = NewLine /\ two[2] = r
    BY <1>3, <1>8, <1>9, <2>1
  <2>4. \A i \in 2 .. K + 3 : i \in 1 .. Len(one) + Len(Stop)
    BY <1>3, <1>8, <1>9
  <2> QED
    BY <1>3, <1>8, <1>9, <2>1, <2>2, <2>3, <2>4
<1> HIDE DEF two
<1>11. /\ line \in Seq(Rune) /\ Len(line) >= 4 /\ line[1] = NewLine /\ line[2] = r
       /\ \A i \in 2 .. Len(line) : line[i] # NewLine
  <2>1. /\ line \in Seq(Rune) /\ Len(line) = Len(two) + Len(label)
        /\ \A i \in 1 .. Len(two) + Len(label) :
             line[i] = IF i <= Len(two) THEN two[i] ELSE label[i - Len(two)]
    BY <1>5, <1>10, ConcatProperties
  <2> HIDE DEF line
  <2>2. Len(label) \in Nat
    BY <1>5
  <2>3. ASSUME NEW i \in 2 .. Len(line) PROVE line[i] # NewLine
    <3>1. CASE i <= K + 3
      <4>1. i \in 2 .. K + 3 /\ i \in 1 .. Len(two) + Len(label)
        BY <1>3, <1>10, <2>1, <2>2, <3>1
      <4> QED
        BY <1>10, <2>1, <3>1, <4>1
    <3>2. CASE i > K + 3
      <4>1. i - (K + 3) \in 1 .. Len(label) /\ ~(i <= K + 3)
            /\ i \in 1 .. Len(two) + Len(label)
        BY <1>3, <1>10, <2>1, <2>2, <3>2
      <4> QED
        BY <1>5, <1>10, <2>1, <4>1
    <3> QED
      BY <1>3, <3>1, <3>2
  <2> QED
    BY <1>3, <1>10, <2>1, <2>2, <2>3
<1>12. line = Line(item)
  BY <1>6 DEF line, two, one
<1> HIDE DEF line
<1>13. Offered(line) = <<r>>
  BY <1>1, <1>3, <1>11, OfferedLine
<1>14. EndsClear(line)
  <2>1. Len(line) \in 2 .. Len(line)
    BY <1>11
  <2> QED
    BY <1>11, <2>1 DEF EndsClear
<1> QED
  BY <1>11, <1>12, <1>13, <1>14 DEF key, r

\* A line put below a text.
LEMMA LinePut ==
  ASSUME NEW Rune, Basic \subseteq Rune, NEW s \in Seq(Rune), EndsClear(s),
         NEW item \in ItemsOf(Rune)
  PROVE  /\ s \o Line(item) \in Seq(Rune) /\ EndsClear(s \o Line(item))
         /\ Offered(s \o Line(item)) = Offered(s) \o <<item.key[1]>>
         /\ Len(s \o Line(item)) >= Len(s)
         /\ \A n \in 0 .. Len(s) : Take(s \o Line(item), n) = Take(s, n)
<1> DEFINE line == Line(item)
           w == s \o line
<1>1. NewLine \in Rune
  BY Separators
<1>2. /\ line \in Seq(Rune) /\ Len(line) >= 2 /\ EndsClear(line)
      /\ Offered(line) = <<item.key[1]>>
  BY LineIs
<1> HIDE DEF line
<1>3. /\ w \in Seq(Rune) /\ Len(w) = Len(s) + Len(line)
      /\ \A i \in 1 .. Len(s) + Len(line) : w[i] = IF i <= Len(s) THEN s[i] ELSE line[i - Len(s)]
  BY <1>2, ConcatProperties
<1>4. Offered(w) = Offered(s) \o <<item.key[1]>>
  BY <1>1, <1>2, OfferedConcat
<1>5. \A n \in 0 .. Len(s) : Take(w, n) = Take(s, n)
  BY <1>2, TakeOfConcat
<1> HIDE DEF w
<1>6. EndsClear(w) /\ Len(w) >= Len(s)
  <2>1. Len(s) \in Nat /\ Len(line) \in Nat
    BY <1>2
  <2>2. /\ Len(w) \in 1 .. Len(s) + Len(line) /\ ~(Len(w) <= Len(s))
        /\ Len(w) - Len(s) = Len(line)
    BY <1>2, <1>3, <2>1
  <2>3. w[Len(w)] = line[Len(line)]
    BY <1>3, <2>2
  <2>4. line[Len(line)] # NewLine
    BY <1>2 DEF EndsClear
  <2> QED
    BY <2>1, <2>2, <2>3, <2>4 DEF EndsClear
<1> QED
  BY <1>3, <1>4, <1>5, <1>6 DEF w, line

\* A label shortened to fit, fits.
LEMMA LongestLabelIs ==
  ASSUME NEW Rune, Basic \subseteq Rune, NEW rendered \in Seq(Rune), NEW item \in ItemsOf(Rune)
  PROVE  LET short == LongestLabelThatFits(rendered, item)
         IN /\ short \in Seq(Rune)
            /\ short # <<>> => FitsScreen(rendered \o Line([item EXCEPT !.label = short]))
<1> DEFINE label == item.label
           Cut(n) == [item EXCEPT !.label = Truncate(@, n)]
           fits == [n \in 0 .. Len(label) |-> FitsScreen(rendered \o Line(Cut(n)))]
           lo == Search(fits, Len(label))
           kept == Truncate(label, lo)
           short == LongestLabelThatFits(rendered, item)
<1>1. "." \in Rune /\ Gap \in Rune /\ label \in Seq(Rune) /\ Len(label) \in Nat
  <2>1. "." \in Basic
    BY Alphabets, Zenon
  <2> QED
    BY <2>1, GapIs DEF ItemsOf
<1>2. short = IF lo < MinLabelRunes THEN <<>> ELSE OneLine(Cut(lo).label)
  BY Zenon DEF LongestLabelThatFits
<1>3. lo \in 0 .. Len(label) /\ (lo = 0 \/ fits[lo])
  <2> DEFINE N == Len(label)
  <2>1. fits \in [0 .. N -> BOOLEAN] /\ N \in Nat /\ N \in 0 .. N
    BY <1>1 DEF FitsScreen
  <2> HIDE DEF fits, N
  <2>2. Search(fits, N) \in 0 .. N /\ (Search(fits, N) = 0 \/ fits[Search(fits, N)])
    BY <2>1, SearchIs
  <2> QED
    BY <2>2 DEF N
<1>4. lo \in Nat /\ kept \in Seq(Rune)
  <2> HIDE DEF lo, label
  <2>1. lo \in Nat
    BY <1>1, <1>3
  <2> QED
    BY <1>1, <2>1, TruncateIsText
<1>5. item.key \in Seq(Rune \ Breaks) \ {<<>>} /\ item = [key |-> item.key, label |-> label]
  BY DEF ItemsOf
<1>6. Cut(lo).label = kept /\ Cut(lo).key = item.key
  <2> HIDE DEF lo
  <2> QED
    BY <1>5
<1> DEFINE one == OneLine(kept)
<1> HIDE DEF kept
<1>7. one \in Seq(Rune) /\ OneLine(one) = one
  <2>1. one \in Seq(Rune)
    BY <1>1, <1>4, JoinFieldsIsText DEF OneLine
  <2>2. IsOneLine(one)
    BY <1>1, <1>4, OneLineIsOneLine
  <2> HIDE DEF one
  <2> QED
    BY <1>1, <2>1, <2>2, OneLineIsItself
<1>8. CASE lo < MinLabelRunes
  <2>1. short = <<>>
    BY <1>2, <1>8
  <2> QED
    BY <2>1
<1>9. CASE ~(lo < MinLabelRunes)
  <2>1. short = one
    BY <1>2, <1>6, <1>9
  <2>2. lo # 0
    BY <1>9, Capacities
  <2>3. FitsScreen(rendered \o Line(Cut(lo)))
    BY <1>3, <2>2
  <2>4. Line(Cut(lo)) = Line([item EXCEPT !.label = one])
    <3> DEFINE there == [item EXCEPT !.label = one]
               here == Cut(lo)
    <3>1. there.key = item.key /\ there.label = one
      BY <1>5
    <3>2. here.key = item.key /\ here.label = kept
      BY <1>6
    <3> HIDE DEF there, here
    <3>3. OneLine(there.label) = OneLine(here.label)
      BY <1>7, <3>1, <3>2 DEF one
    <3>4. Line(here) = Line(there)
      BY <3>1, <3>2, <3>3, Zenon DEF Line
    <3> QED
      BY <3>4 DEF here, there
  <2>5. FitsScreen(rendered \o Line([item EXCEPT !.label = one]))
    BY <2>3, <2>4, Zenon
  <2> HIDE DEF one
  <2> QED
    BY <1>7, <2>1, <2>5
<1> QED
  BY <1>8, <1>9

\* What Menu makes of the n-th item below what it made of those before.
MenuStep(items, n, above) ==
  LET item == items[n]
      short == LongestLabelThatFits(above.text, item)
  IN IF above.full THEN above
     ELSE IF FitsScreen(above.text \o Line(item))
     THEN [above EXCEPT !.text = @ \o Line(item)]
     ELSE IF short = <<>> THEN [above EXCEPT !.full = TRUE]
     ELSE [above EXCEPT !.text = @ \o Line([item EXCEPT !.label = short])]

MenusOf(Rune) == [text : Seq(Rune), full : BOOLEAN]

\* A step puts down the item's line, a shorter one with its key, or none.
LEMMA MenuStepIs ==
  ASSUME NEW Rune, Basic \subseteq Rune, NEW items \in Seq(ItemsOf(Rune)),
         NEW n \in 1 .. Len(items), NEW above \in MenusOf(Rune)
  PROVE  LET next == MenuStep(items, n, above)
         IN /\ next \in MenusOf(Rune)
            /\ \/ next = above /\ above.full
               \/ next = [text |-> above.text, full |-> TRUE]
               \/ \E item \in ItemsOf(Rune) :
                    /\ item.key = items[n].key
                    /\ FitsScreen(above.text \o Line(item))
                    /\ next = [text |-> above.text \o Line(item), full |-> above.full]
                    /\ ~above.full
<1> DEFINE item == items[n]
           text == above.text
           short == LongestLabelThatFits(text, item)
           cut == [item EXCEPT !.label = short]
           next == MenuStep(items, n, above)
<1>1. /\ item \in ItemsOf(Rune) /\ text \in Seq(Rune) /\ above.full \in BOOLEAN
      /\ above = [text |-> text, full |-> above.full] /\ above.text = text
  BY DEF MenusOf
<1>2. next = IF above.full THEN above
             ELSE IF FitsScreen(text \o Line(item))
             THEN [above EXCEPT !.text = @ \o Line(item)]
             ELSE IF short = <<>> THEN [above EXCEPT !.full = TRUE]
             ELSE [above EXCEPT !.text = @ \o Line(cut)]
  BY Zenon DEF MenuStep
<1> HIDE DEF item, text, next, short
<1>3. /\ short \in Seq(Rune)
      /\ short # <<>> => FitsScreen(text \o Line(cut))
  BY <1>1, LongestLabelIs DEF short
<1>4. cut \in ItemsOf(Rune) /\ cut.key = item.key
  BY <1>1, <1>3 DEF ItemsOf
<1> HIDE DEF cut
<1>5. ASSUME NEW it \in ItemsOf(Rune) PROVE text \o Line(it) \in Seq(Rune)
  <2>1. Line(it) \in Seq(Rune)
    BY LineIs
  <2> QED
    BY <1>1, <2>1
<1>6. CASE above.full
  BY <1>1, <1>2, <1>6 DEF MenusOf, text, item, next
<1>7. CASE ~above.full /\ FitsScreen(text \o Line(item))
  <2> DEFINE put == text \o Line(item)
  <2>1. put \in Seq(Rune)
    BY <1>1, <1>5
  <2>2. next = [above EXCEPT !.text = put]
    BY <1>1, <1>2, <1>7
  <2> HIDE DEF put
  <2>3. next = [text |-> put, full |-> above.full]
    BY <1>1, <2>2
  <2>4. next \in MenusOf(Rune)
    BY <1>1, <2>1, <2>3 DEF MenusOf
  <2> QED
    BY <1>1, <1>7, <2>3, <2>4, Zenon DEF put, text, item, next
<1>8. CASE ~above.full /\ ~FitsScreen(text \o Line(item)) /\ short = <<>>
  <2>1. next = [above EXCEPT !.full = TRUE]
    BY <1>2, <1>8
  <2>2. next = [text |-> text, full |-> TRUE]
    BY <1>1, <2>1
  <2>3. next \in MenusOf(Rune)
    BY <1>1, <2>2 DEF MenusOf
  <2> QED
    BY <2>2, <2>3 DEF text, next
<1>9. CASE ~above.full /\ ~FitsScreen(text \o Line(item)) /\ short # <<>>
  <2> DEFINE put == text \o Line(cut)
  <2>1. put \in Seq(Rune)
    BY <1>4, <1>5
  <2>2. next = [above EXCEPT !.text = put]
    BY <1>1, <1>2, <1>9
  <2> HIDE DEF put
  <2>3. next = [text |-> put, full |-> above.full]
    BY <1>1, <2>2
  <2>4. next \in MenusOf(Rune)
    BY <1>1, <2>1, <2>3 DEF MenusOf
  <2> QED
    BY <1>3, <1>4, <1>9, <2>3, <2>4, Zenon DEF put, text, item, next
<1> QED
  BY <1>6, <1>7, <1>8, <1>9

LEMMA MenuIs ==
  ASSUME NEW Rune, Basic \subseteq Rune, NEW title \in Seq(Rune),
         NEW items \in Seq(ItemsOf(Rune))
  PROVE  \E h :
           /\ h \in [0 .. Len(items) -> MenusOf(Rune)]
           /\ h[0] = [text |-> title, full |-> FALSE]
           /\ \A n \in 1 .. Len(items) : h[n] = MenuStep(items, n, h[n - 1])
           /\ Menu(title, items) = h[Len(items)].text
<1> DEFINE N == Len(items)
           V == MenusOf(Rune)
           base == [text |-> title, full |-> FALSE]
           step == [x \in (1 .. N) \X V |-> MenuStep(items, x[1], x[2])]
           Defined(h) == h = [n \in 0 .. Len(items) |->
             IF n = 0 THEN [text |-> title, full |-> FALSE]
             ELSE LET above == h[n - 1]
                      item == items[n]
                      short == LongestLabelThatFits(above.text, item)
                  IN IF above.full THEN above
                     ELSE IF FitsScreen(above.text \o Line(item))
                     THEN [above EXCEPT !.text = @ \o Line(item)]
                     ELSE IF short = <<>> THEN [above EXCEPT !.full = TRUE]
                     ELSE [above EXCEPT !.text = @ \o Line([item EXCEPT !.label = short])]]
<1>1. N \in Nat /\ base \in V
  BY DEF MenusOf
<1>2. \A n \in 1 .. N : \A v \in V : MenuStep(items, n, v) \in V
  BY MenuStepIs
<1> HIDE DEF V, N, base
<1>3. step \in [(1 .. N) \X V -> V]
  BY <1>2
<1>4. \A n \in 1 .. N : \A v \in V : step[<<n, v>>] = MenuStep(items, n, v)
  OBVIOUS
<1> HIDE DEF step
<1>5. PICK f : IsPrimitive(f, N, V, base, step)
  BY <1>1, <1>3, PrimitiveRecursion
<1>6. f \in [0 .. N -> V] /\ f[0] = base
      /\ \A n \in 1 .. N : f[n] = MenuStep(items, n, f[n - 1])
  <2>1. ASSUME NEW n \in 1 .. N PROVE f[n - 1] \in V
    <3>1. n - 1 \in 0 .. N
      BY <1>1
    <3> QED
      BY <1>5, <3>1 DEF IsPrimitive
  <2> QED
    BY <1>4, <1>5, <2>1 DEF IsPrimitive
<1>7. ASSUME NEW h
      PROVE  Defined(h) <=> h = [n \in 0 .. N |->
                                   IF n = 0 THEN base ELSE MenuStep(items, n, h[n - 1])]
  BY DEF MenuStep, N, base
<1> HIDE DEF Defined
<1>8. Defined(f)
  <2>1. f = [n \in 0 .. N |-> f[n]]
    BY <1>6
  <2>2. \A n \in 0 .. N : f[n] = IF n = 0 THEN base ELSE MenuStep(items, n, f[n - 1])
    BY <1>1, <1>6
  <2> QED
    BY <1>7, <2>1, <2>2, Zenon
<1>9. (\E h : Defined(h)) => \E h : Defined(h) /\ Menu(title, items) = h[Len(items)].text
  BY Zenon DEF Menu, Defined
<1>10. PICK h : Defined(h) /\ Menu(title, items) = h[N].text
  BY <1>8, <1>9, Zenon DEF N
<1>11. h = [n \in 0 .. N |-> IF n = 0 THEN base ELSE MenuStep(items, n, h[n - 1])]
  BY <1>7, <1>10
<1>12. h[0] = base /\ \A n \in 1 .. N : h[n] = MenuStep(items, n, h[n - 1])
  <2>1. 0 \in 0 .. N /\ \A n \in 1 .. N : n \in 0 .. N /\ n # 0
    BY <1>1
  <2> QED
    BY <1>11, <2>1
<1> DEFINE S == {n \in 0 .. N : h[n] \in V}
<1>13. 0 \in S /\ \A n \in 0 .. N : n \in S /\ n < N => n + 1 \in S
  <2>1. 0 \in S
    BY <1>1, <1>12
  <2>2. ASSUME NEW n \in 0 .. N, n \in S, n < N PROVE n + 1 \in S
    <3>1. n + 1 \in 1 .. N /\ (n + 1) - 1 = n /\ n + 1 \in 0 .. N
      BY <1>1, <2>2
    <3>2. h[n + 1] = MenuStep(items, n + 1, h[n]) /\ h[n] \in V
      BY <1>12, <2>2, <3>1
    <3>3. h[n + 1] \in V
      BY <1>2, <3>1, <3>2
    <3> QED
      BY <3>1, <3>3
  <2> QED
    BY <2>1, <2>2
<1>14. h \in [0 .. N -> V]
  <2> HIDE DEF S
  <2>1. \A n \in 0 .. N : n \in S
    BY <1>1, <1>13, InductionTo
  <2>2. \A n \in 0 .. N : h[n] \in V
    BY <2>1 DEF S
  <2>3. h = [n \in 0 .. N |-> h[n]]
    BY <1>11, <1>1
  <2> QED
    BY <2>2, <2>3
<1> QED
  BY <1>10, <1>12, <1>14 DEF N, V, base

(***************************************************************************)
(* Every menu below a title that fits, fits, and offers the first so many  *)
(* of its items in their order, one line each, whatever their labels hold: *)
(* what is put together so far does, and is full if it lacks one           *)
(* (render.go:261-294).                                                    *)
(***************************************************************************)
THEOREM EveryMenuOffersItsFirstItems ==
  ASSUME NEW Rune, Basic \subseteq Rune,
         NEW title \in Seq(Rune \ {NewLine}), FitsScreen(title),
         NEW items \in Seq(ItemsOf(Rune))
  PROVE  OffersFirstItems(title, items)
<1> DEFINE N == Len(items)
           keys == KeysOf(items)
           M == Len(title)
           Starts(text) == M <= Len(text) /\ Take(text, M) = title
           Good(m, n) == /\ FitsScreen(m.text) /\ EndsClear(m.text) /\ Starts(m.text)
                         /\ \E k \in 0 .. n : /\ m.full \/ k = n
                                              /\ Offered(m.text) = Take(keys, k)
<1>1. N \in Nat /\ M \in Nat /\ NewLine \in Rune /\ title \in Seq(Rune)
  BY Separators
<1>2. /\ keys \in Seq(Rune) /\ Len(keys) = N
      /\ \A n \in 1 .. N : keys[n] = items[n].key[1]
  <2>1. \A n \in 1 .. N : items[n].key[1] \in Rune
    <3>1. \A item \in ItemsOf(Rune) : item.key[1] \in Rune
      BY KeyIs
    <3> QED
      BY <3>1
  <2>2. keys = [n \in 1 .. N |-> items[n].key[1]]
    BY DEF KeysOf
  <2> HIDE DEF keys, N
  <2>3. keys \in [1 .. N -> Rune] /\ \A n \in 1 .. N : keys[n] = items[n].key[1]
    BY <2>1, <2>2
  <2> QED
    BY <1>1, <2>3
<1>3. PICK h : /\ h \in [0 .. N -> MenusOf(Rune)]
               /\ h[0] = [text |-> title, full |-> FALSE]
               /\ \A n \in 1 .. N : h[n] = MenuStep(items, n, h[n - 1])
               /\ Menu(title, items) = h[N].text
  BY <1>1, MenuIs
<1> HIDE DEF N, keys
<1>4. Good(h[0], 0)
  <2>1. Offered(title) = <<>>
    <3>1. \A i \in 1 .. Len(title) : title[i] # NewLine
      OBVIOUS
    <3> QED
      BY <1>1, <3>1, NothingIsOffered
  <2>2. Take(keys, 0) = <<>>
    BY <1>2, TakeNone
  <2>3. EndsClear(title)
    <3>1. title # <<>> => M \in 1 .. M
      BY <1>1
    <3> QED
      BY <3>1 DEF EndsClear
  <2>4. Take(title, M) = title
    BY <1>1, TakeAll
  <2> DEFINE m == h[0]
  <2>5. m.text = title
    BY <1>3
  <2> HIDE DEF m
  <2>6. FitsScreen(m.text) /\ EndsClear(m.text) /\ Offered(m.text) = Take(keys, 0)
    BY <2>1, <2>2, <2>3, <2>5
  <2>7. Starts(m.text)
    BY <1>1, <2>4, <2>5
  <2> HIDE DEF Starts
  <2>8. 0 \in 0 .. 0
    OBVIOUS
  <2>9. Good(m, 0)
    BY <2>6, <2>7, <2>8
  <2> QED
    BY <2>9 DEF m
<1>5. ASSUME NEW n \in 0 .. N, n < N, Good(h[n], n) PROVE Good(h[n + 1], n + 1)
  <2> DEFINE above == h[n]
             next == h[n + 1]
  <2>1. n + 1 \in 1 .. N /\ (n + 1) - 1 = n /\ n \in Nat
    BY <1>1, <1>5
  <2>2. above \in MenusOf(Rune) /\ next = MenuStep(items, n + 1, above)
    BY <1>3, <2>1
  <2>3. Good(above, n)
    BY <1>5
  <2> SUFFICES Good(next, n + 1)
    OBVIOUS
  <2> HIDE DEF above, next
  <2>4. \/ next = above /\ above.full
        \/ next = [text |-> above.text, full |-> TRUE]
        \/ \E item \in ItemsOf(Rune) :
             /\ item.key = items[n + 1].key
             /\ FitsScreen(above.text \o Line(item))
             /\ next = [text |-> above.text \o Line(item), full |-> above.full]
             /\ ~above.full
    BY <2>1, <2>2, MenuStepIs, ZenonT(60) DEF N
  <2>5. PICK k \in 0 .. n : (above.full \/ k = n) /\ Offered(above.text) = Take(keys, k)
    BY <2>3
  <2>6. k \in 0 .. n + 1
    BY <2>1
  <2>7. CASE next = above /\ above.full
    BY <2>3, <2>5, <2>6, <2>7
  <2>8. CASE next = [text |-> above.text, full |-> TRUE]
    <3>1. next.text = above.text /\ next.full
      BY <2>8
    <3> QED
      BY <2>3, <2>5, <2>6, <3>1
  <2>9. ASSUME NEW item \in ItemsOf(Rune), item.key = items[n + 1].key,
               FitsScreen(above.text \o Line(item)),
               next = [text |-> above.text \o Line(item), full |-> above.full],
               ~above.full
        PROVE  Good(next, n + 1)
    <3> DEFINE text == above.text
    <3>1. text \in Seq(Rune) /\ EndsClear(text) /\ Starts(text)
      BY <2>2, <2>3 DEF MenusOf
    <3>2. next.text = text \o Line(item)
      BY <2>9
    <3> HIDE DEF text
    <3>3. /\ next.text \in Seq(Rune) /\ EndsClear(next.text)
          /\ Offered(next.text) = Offered(text) \o <<item.key[1]>>
          /\ Len(next.text) >= Len(text)
          /\ \A i \in 0 .. Len(text) : Take(next.text, i) = Take(text, i)
      <4> DEFINE put == text \o Line(item)
      <4>1. /\ put \in Seq(Rune) /\ EndsClear(put)
            /\ Offered(put) = Offered(text) \o <<item.key[1]>>
            /\ Len(put) >= Len(text)
            /\ \A i \in 0 .. Len(text) : Take(put, i) = Take(text, i)
        BY <3>1, LinePut
      <4>2. next.text = put
        BY <3>2
      <4> HIDE DEF put
      <4> QED
        BY <4>1, <4>2
    <3>4. Starts(next.text)
      <4>1. Len(text) \in Nat /\ Len(next.text) \in Nat
        BY <3>1, <3>3
      <4> HIDE DEF M
      <4>2. M \in 0 .. Len(text) /\ M <= Len(next.text)
        BY <1>1, <3>1, <3>3, <4>1
      <4> QED
        BY <3>1, <3>3, <4>2
    <3>5. Offered(next.text) = Take(keys, n + 1)
      <4> DEFINE a == Take(keys, n)
                 b == Take(keys, n + 1)
                 r == keys[n + 1]
      <4>1. n \in 0 .. Len(keys) /\ n + 1 \in 0 .. Len(keys) /\ n + 1 \in 1 .. N
        BY <1>2, <2>1
      <4>2. /\ a \in Seq(Rune) /\ Len(a) = n /\ \A i \in 1 .. n : a[i] = keys[i]
        BY <1>2, <4>1, TakeIs
      <4>3. /\ b \in Seq(Rune) /\ Len(b) = n + 1 /\ \A i \in 1 .. n + 1 : b[i] = keys[i]
        BY <1>2, <4>1, TakeIs
      <4>4. item.key[1] = r /\ r \in Rune
        BY <1>2, <2>9, <4>1
      <4>5. Offered(text) = a
        BY <2>5, <2>9 DEF text
      <4> HIDE DEF a, b, r
      <4> DEFINE w == a \o <<r>>
      <4>6. /\ w \in Seq(Rune) /\ Len(w) = Len(a) + 1 /\ w[Len(a) + 1] = r
            /\ \A i \in 1 .. Len(a) : w[i] = a[i]
        BY <4>2, <4>4
      <4> HIDE DEF w
      <4>7. \A i \in 1 .. n + 1 : w[i] = b[i]
        BY <2>1, <4>2, <4>3, <4>6 DEF r
      <4>8. w = b
        BY <4>2, <4>3, <4>6, <4>7, SeqEqual
      <4> QED
        BY <3>3, <4>4, <4>5, <4>8 DEF w, b
    <3>6. n + 1 \in 0 .. n + 1
      BY <2>1
    <3>7. FitsScreen(next.text)
      BY <2>9, <3>2 DEF text
    <3> HIDE DEF Starts
    <3> QED
      BY <3>3, <3>4, <3>5, <3>6, <3>7
  <2> HIDE DEF Good
  <2> QED
    BY <2>4, <2>7, <2>8, <2>9
<1> HIDE DEF Good
<1> DEFINE S == {n \in 0 .. N : Good(h[n], n)}
<1>6. 0 \in S /\ \A n \in 0 .. N : n \in S /\ n < N => n + 1 \in S
  <2>1. \A n \in 0 .. N : n < N => n + 1 \in 0 .. N
    BY <1>1
  <2>2. 0 \in 0 .. N
    BY <1>1
  <2> QED
    BY <1>4, <1>5, <2>1, <2>2
<1>7. Good(h[N], N)
  <2> HIDE DEF S
  <2>1. \A n \in 0 .. N : n \in S
    BY <1>1, <1>6, InductionTo
  <2>2. N \in 0 .. N
    BY <1>1
  <2> QED
    BY <2>1, <2>2 DEF S
<1> DEFINE screen == Menu(title, items)
<1>8. screen \in Seq(Rune) /\ FitsScreen(screen) /\ Starts(screen)
      /\ \E k \in 0 .. N : Offered(screen) = Take(keys, k)
  <2>1. h[N] \in MenusOf(Rune)
    BY <1>1, <1>3
  <2> QED
    BY <1>3, <1>7, <2>1 DEF Good, MenusOf
<1>9. IsPrefix(title, screen)
  <2>1. Take(title, M) = title
    BY <1>1, TakeAll
  <2> HIDE DEF screen
  <2> QED
    BY <1>8, <2>1 DEF IsPrefix, Take
<1>10. IsPrefix(Offered(screen), keys)
  <2>1. PICK k \in 0 .. N : Offered(screen) = Take(keys, k)
    BY <1>8
  <2> DEFINE some == Take(keys, k)
  <2>2. some \in Seq(Rune) /\ Len(some) = k /\ k \in 0 .. k /\ k <= Len(keys)
    BY <1>1, <1>2, TakeIs
  <2>3. Take(some, k) = Take(keys, k)
    BY <1>2, <2>2, TakeAll
  <2> HIDE DEF some, screen
  <2>4. IsPrefix(some, keys)
    BY <2>2, <2>3 DEF IsPrefix, Take
  <2> QED
    BY <2>1, <2>4 DEF some
<1> QED
  BY <1>8, <1>9, <1>10 DEF OffersFirstItems, keys, screen

\* No longer truncation of a label that does not fit would fit.
LEMMA LongestLabelIsLongest ==
  ASSUME NEW Rune, Basic \subseteq Rune, NEW rendered \in Seq(Rune),
         NEW item \in ItemsOf(Rune), ~FitsScreen(rendered \o Line(item)),
         NEW n \in MinLabelRunes .. Len(item.label),
         FitsScreen(rendered \o Line([item EXCEPT !.label = Truncate(@, n)]))
  PROVE  Len(OneLine(Truncate(item.label, n))) <= Len(LongestLabelThatFits(rendered, item))
<1> DEFINE label == item.label
           Cut(m) == [item EXCEPT !.label = Truncate(@, m)]
           fits == [m \in 0 .. Len(label) |-> FitsScreen(rendered \o Line(Cut(m)))]
           N == Len(label)
           lo == Search(fits, N)
           short == LongestLabelThatFits(rendered, item)
           lead == rendered \o Lead(item)
<1>1. label \in Seq(Rune) /\ N \in Nat /\ "." \in Rune /\ Gap \in Rune
  <2>1. "." \in Basic
    BY Alphabets, Zenon
  <2> QED
    BY <2>1, GapIs DEF ItemsOf
<1>2. short = IF lo < MinLabelRunes THEN <<>> ELSE OneLine(Cut(lo).label)
  BY Zenon DEF LongestLabelThatFits
<1>3. /\ item.key \in Seq(Rune \ Breaks) \ {<<>>}
      /\ item = [key |-> item.key, label |-> label]
  BY DEF ItemsOf
<1>4. ASSUME NEW m \in 0 .. N
      PROVE  /\ Cut(m) \in ItemsOf(Rune) /\ Cut(m).key = item.key
             /\ Cut(m).label = Truncate(label, m)
  <2> DEFINE kept == Truncate(label, m)
  <2>1. kept \in Seq(Rune)
    <3> HIDE DEF label
    <3> QED
      BY <1>1, TruncateIsText
  <2>2. Cut(m) = [key |-> item.key, label |-> kept]
    <3>1. Cut(m) = [item EXCEPT !.label = kept]
      BY <1>3
    <3> HIDE DEF kept
    <3> QED
      BY <1>3, <3>1
  <2> HIDE DEF kept
  <2> QED
    BY <1>3, <2>1, <2>2 DEF ItemsOf, kept
<1>5. lead \in Seq(Rune)
  <2>1. Lead(item) \in Seq(Rune)
    BY LineParts
  <2> QED
    BY <2>1
<1>6. ASSUME NEW m \in 0 .. N
      PROVE  fits[m] <=> FitsScreen(lead \o Shown(label, m))
  <2> DEFINE cut == Cut(m)
             own == Lead(item)
             shown == Shown(label, m)
  <2>1. /\ cut \in ItemsOf(Rune) /\ cut.key = item.key /\ cut.label = Truncate(label, m)
        /\ fits[m] = FitsScreen(rendered \o Line(cut))
    BY <1>4
  <2> HIDE DEF cut
  <2>2. Line(cut) = own \o shown /\ own \in Seq(Rune)
    <3>1. Line(cut) = Lead(cut) \o OneLine(cut.label) /\ Lead(cut) \in Seq(Rune)
      BY <2>1, LineParts
    <3>2. Lead(cut) = own
      BY <2>1, Zenon DEF Lead
    <3> QED
      BY <2>1, <3>1, <3>2, Zenon DEF Shown
  <2>3. shown \in Seq(Rune)
    <3> DEFINE kept == Truncate(label, m)
    <3>1. kept \in Seq(Rune)
      <4> HIDE DEF label
      <4> QED
        BY <1>1, TruncateIsText
    <3> HIDE DEF kept
    <3>2. OneLine(kept) \in Seq(Rune)
      BY <1>1, <3>1, JoinFieldsIsText DEF OneLine
    <3> QED
      BY <3>2 DEF Shown, kept
  <2> HIDE DEF own, shown
  <2>4. rendered \o (own \o shown) = (rendered \o own) \o shown
    BY <2>2, <2>3, ConcatAssociative, SMTT(30)
  <2> QED
    BY <2>1, <2>2, <2>4, Zenon DEF own, shown
<1>7. ~fits[N]
  <2>1. Truncate(label, N) = label
    <3> HIDE DEF label
    <3>1. N = 0 => label = <<>>
      BY <1>1
    <3> QED
      BY <1>1, <3>1, TruncateIs
  <2>2. Cut(N) = item
    <3> DEFINE kept == Truncate(label, N)
    <3>1. Cut(N) = [item EXCEPT !.label = kept]
      BY <1>3
    <3> QED
      BY <1>3, <2>1, <3>1
  <2> QED
    BY <1>1, <2>2
<1>8. n \in 1 .. N /\ fits[n] /\ fits \in [0 .. N -> BOOLEAN] /\ MinLabelRunes \in Nat \ {0}
  <2>1. MinLabelRunes \in Nat \ {0}
    BY Capacities
  <2>2. n \in 1 .. N
    BY <1>1, <2>1
  <2>3. fits[n]
    BY <2>2
  <2>4. fits \in [0 .. N -> BOOLEAN]
    BY DEF FitsScreen
  <2> QED
    BY <2>1, <2>2, <2>3, <2>4
<1> HIDE DEF fits, lead
<1>9. ASSUME NEW m2 \in 0 .. N, fits[m2], NEW m1 \in 0 .. m2
      PROVE  fits[m1] /\ Len(Shown(label, m1)) <= Len(Shown(label, m2))
  <2>1. m2 \in 0 .. Len(label) - 1 /\ m1 \in 0 .. N
    BY <1>1, <1>7, <1>9
  <2> HIDE DEF label
  <2>2. /\ Len(Shown(label, m1)) <= Len(Shown(label, m2))
        /\ FitsScreen(lead \o Shown(label, m2)) => FitsScreen(lead \o Shown(label, m1))
    BY <1>1, <1>5, <2>1, MoreIsShown
  <2>3. fits[m2] <=> FitsScreen(lead \o Shown(label, m2))
    BY <1>6
  <2>4. fits[m1] <=> FitsScreen(lead \o Shown(label, m1))
    BY <1>6, <2>1
  <2> QED
    BY <1>9, <2>2, <2>3, <2>4
<1> HIDE DEF label, N
<1>10. /\ lo \in 0 .. N /\ (lo = 0 \/ fits[lo])
       /\ \A k \in lo + 1 .. N : ~fits[k]
  <2>1. N \in 0 .. N /\ \A m \in 0 .. N : fits[m] => \A k \in 0 .. m : fits[k]
    BY <1>1, <1>9
  <2> QED
    BY <1>1, <1>8, <2>1, SearchIs
<1> HIDE DEF lo
<1>11. n <= lo
  <2>1. ~(n \in lo + 1 .. N)
    BY <1>8, <1>10
  <2> QED
    BY <1>8, <1>10, <2>1
<1>12. fits[lo] /\ n \in 0 .. lo /\ ~(lo < MinLabelRunes)
  BY <1>8, <1>10, <1>11
<1>13. Len(Shown(label, n)) <= Len(Shown(label, lo))
  BY <1>9, <1>10, <1>12
<1>14. short = Shown(label, lo)
  <2>1. Cut(lo).label = Truncate(label, lo)
    BY <1>4, <1>10
  <2> QED
    BY <1>2, <1>12, <2>1 DEF Shown
<1> QED
  BY <1>13, <1>14 DEF Shown, label

LEMMA MenuIsText ==
  ASSUME NEW Rune, Basic \subseteq Rune, NEW title \in Seq(Rune),
         NEW items \in Seq(ItemsOf(Rune))
  PROVE  Menu(title, items) \in Seq(Rune)
<1>1. PICK h : /\ h \in [0 .. Len(items) -> MenusOf(Rune)]
               /\ h[0] = [text |-> title, full |-> FALSE]
               /\ \A n \in 1 .. Len(items) : h[n] = MenuStep(items, n, h[n - 1])
               /\ Menu(title, items) = h[Len(items)].text
  BY MenuIs
<1>2. h[Len(items)] \in MenusOf(Rune)
  BY <1>1
<1> QED
  BY <1>1, <1>2 DEF MenusOf

(***************************************************************************)
(* A label that does not fit is shortened no more than it must be,         *)
(* whatever the menu above it and the words and encodings in it: with room *)
(* for more runes Truncate never keeps fewer, and what is shown of it only *)
(* grows, so that a length fits if a longer one does (render.go:225-248).  *)
(***************************************************************************)
THEOREM EveryLabelIsLongest ==
  ASSUME NEW Rune, Basic \subseteq Rune, NEW title \in Seq(Rune),
         NEW items \in Seq(ItemsOf(Rune))
  PROVE  ShortensNoMore(title, items)
<1> SUFFICES ASSUME items # <<>> PROVE ShortensNoMore(title, items)
  BY Zenon DEF ShortensNoMore
<1> DEFINE item == items[Len(items)]
           first == Take(items, Len(items) - 1)
           above == Menu(title, first)
           Cut(n) == [item EXCEPT !.label = Truncate(@, n)]
<1>1. item \in ItemsOf(Rune) /\ first \in Seq(ItemsOf(Rune))
  <2>1. Len(items) \in 1 .. Len(items) /\ Len(items) - 1 \in 0 .. Len(items)
    OBVIOUS
  <2> QED
    BY <2>1, TakeIs
<1> HIDE DEF first, item
<1>2. above \in Seq(Rune)
  BY <1>1, MenuIsText
<1> HIDE DEF above
<1>3. ASSUME ~FitsScreen(above \o Line(item)),
             NEW n \in MinLabelRunes .. Len(item.label),
             FitsScreen(above \o Line(Cut(n)))
      PROVE  Len(OneLine(Cut(n).label)) <= Len(LongestLabelThatFits(above, item))
  <2>1. Len(OneLine(Truncate(item.label, n))) <= Len(LongestLabelThatFits(above, item))
    BY <1>1, <1>2, <1>3, LongestLabelIsLongest
  <2>2. Cut(n).label = Truncate(item.label, n)
    BY <1>1 DEF ItemsOf
  <2> QED
    BY <2>1, <2>2
<1> QED
  BY <1>3, Zenon DEF ShortensNoMore, above, first, item

LEMMA ClearConcat ==
  ASSUME NEW Rune, NEW s \in Seq(Rune), NEW t \in Seq(Rune), EndsClear(s), EndsClear(t)
  PROVE  EndsClear(s \o t)
<1> DEFINE w == s \o t
<1>1. /\ Len(w) = Len(s) + Len(t) /\ Len(s) \in Nat /\ Len(t) \in Nat /\ w \in Seq(Rune)
      /\ \A i \in 1 .. Len(s) + Len(t) : w[i] = IF i <= Len(s) THEN s[i] ELSE t[i - Len(s)]
  BY ConcatProperties
<1> HIDE DEF w
<1>2. CASE Len(t) = 0
  <2>1. s = <<>> => Len(w) = 0
    BY <1>1, <1>2
  <2>2. s # <<>> => Len(w) \in 1 .. Len(s) + Len(t) /\ Len(w) <= Len(s) /\ Len(w) = Len(s)
    BY <1>1, <1>2
  <2> QED
    BY <1>1, <2>1, <2>2 DEF EndsClear, w
<1>3. CASE Len(t) # 0
  <2>1. /\ Len(w) \in 1 .. Len(s) + Len(t) /\ ~(Len(w) <= Len(s))
        /\ Len(w) - Len(s) = Len(t)
    BY <1>1, <1>3
  <2>2. w[Len(w)] = t[Len(t)]
    BY <1>1, <2>1
  <2> QED
    BY <1>3, <2>2 DEF EndsClear, w
<1> QED
  BY <1>2, <1>3

\* The lines of items offer their keys, in order.
LEMMA LinesAre ==
  ASSUME NEW Rune, Basic \subseteq Rune, NEW items \in Seq(ItemsOf(Rune))
  PROVE  /\ Lines(items) \in Seq(Rune) /\ EndsClear(Lines(items))
         /\ Offered(Lines(items)) = KeysOf(items)
<1> DEFINE N == Len(items)
           keys == KeysOf(items)
           lines == [i \in DOMAIN items |-> Line(items[i])]
<1>1. N \in Nat /\ NewLine \in Rune /\ DOMAIN items = 1 .. N
      /\ \A i \in 1 .. N : items[i] \in ItemsOf(Rune)
  BY Separators
<1>2. /\ keys \in Seq(Rune) /\ Len(keys) = N
      /\ \A n \in 1 .. N : keys[n] = items[n].key[1]
  <2>1. \A n \in 1 .. N : items[n].key[1] \in Rune
    <3>1. \A item \in ItemsOf(Rune) : item.key[1] \in Rune
      BY KeyIs
    <3> QED
      BY <3>1
  <2>2. keys = [n \in 1 .. N |-> items[n].key[1]]
    BY DEF KeysOf
  <2> HIDE DEF keys, N
  <2>3. keys \in [1 .. N -> Rune] /\ \A n \in 1 .. N : keys[n] = items[n].key[1]
    BY <2>1, <2>2
  <2> QED
    BY <1>1, <2>3
<1>3. lines \in Seq(Seq(Rune)) /\ Len(lines) = N /\ \A i \in 1 .. N : lines[i] = Line(items[i])
  <2>1. \A i \in 1 .. N : Line(items[i]) \in Seq(Rune)
    BY <1>1, LineIs
  <2> HIDE DEF N
  <2>2. lines \in [1 .. N -> Seq(Rune)] /\ \A i \in 1 .. N : lines[i] = Line(items[i])
    BY <1>1, <2>1
  <2> HIDE DEF lines
  <2> QED
    BY <1>1, <2>2
<1>4. Lines(items) = FlattenSeq(lines)
  BY DEF Lines
<1> HIDE DEF lines, keys, N
<1>5. PICK h : IsFold(h, N, lines, Rune) /\ FlattenSeq(lines) = h[N]
  BY <1>3, FlattenIs
<1>6. /\ h \in [0 .. N -> Seq(Rune)] /\ h[0] = <<>>
      /\ \A n \in 1 .. N : h[n] = h[n - 1] \o lines[n]
  BY <1>5 DEF IsFold, Puts
<1> DEFINE Good(n) == EndsClear(h[n]) /\ Offered(h[n]) = Take(keys, n)
           S == {n \in 0 .. N : Good(n)}
<1>7. Good(0)
  <2>1. Take(keys, 0) = <<>>
    BY <1>2, TakeNone
  <2> DEFINE none == h[0]
  <2>2. none \in Seq(Rune) /\ none = <<>>
    BY <1>1, <1>6
  <2> HIDE DEF none
  <2>5. \A i \in 1 .. Len(none) : none[i] # NewLine
    BY <2>2
  <2>3. Offered(none) = <<>>
    BY <1>1, <2>2, <2>5, NothingIsOffered
  <2>4. EndsClear(none)
    BY <2>2 DEF EndsClear
  <2> QED
    BY <2>1, <2>3, <2>4 DEF none
<1>8. ASSUME NEW n \in 0 .. N, n < N, Good(n) PROVE Good(n + 1)
  <2> DEFINE text == h[n]
             next == h[n + 1]
             item == items[n + 1]
  <2>1. n + 1 \in 1 .. N /\ (n + 1) - 1 = n /\ n \in Nat
    BY <1>1, <1>8
  <2>2. text \in Seq(Rune) /\ next = text \o Line(item) /\ item \in ItemsOf(Rune)
    BY <1>1, <1>3, <1>6, <2>1
  <2>3. EndsClear(text) /\ Offered(text) = Take(keys, n)
    BY <1>8
  <2> SUFFICES EndsClear(next) /\ Offered(next) = Take(keys, n + 1)
    OBVIOUS
  <2>4. item.key[1] = keys[n + 1] /\ keys[n + 1] \in Rune
    BY <1>2, <2>1
  <2> HIDE DEF text, next, item
  <2>5. EndsClear(next) /\ Offered(next) = Offered(text) \o <<item.key[1]>>
    BY <2>2, <2>3, LinePut
  <2> DEFINE a == Take(keys, n)
             b == Take(keys, n + 1)
             r == keys[n + 1]
  <2>6. n \in 0 .. Len(keys) /\ n + 1 \in 0 .. Len(keys) /\ n + 1 \in 1 .. N
    BY <1>2, <2>1
  <2>7. /\ a \in Seq(Rune) /\ Len(a) = n /\ \A i \in 1 .. n : a[i] = keys[i]
    BY <1>2, <2>6, TakeIs
  <2>8. /\ b \in Seq(Rune) /\ Len(b) = n + 1 /\ \A i \in 1 .. n + 1 : b[i] = keys[i]
    BY <1>2, <2>6, TakeIs
  <2>9. r \in Rune /\ item.key[1] = r /\ Offered(text) = a
    BY <2>3, <2>4
  <2> HIDE DEF a, b, r
  <2> DEFINE w == a \o <<r>>
  <2>10. /\ w \in Seq(Rune) /\ Len(w) = Len(a) + 1 /\ w[Len(a) + 1] = r
         /\ \A i \in 1 .. Len(a) : w[i] = a[i]
    BY <2>7, <2>9
  <2> HIDE DEF w
  <2>11. \A i \in 1 .. n + 1 : w[i] = b[i]
    BY <2>1, <2>7, <2>8, <2>10, SMTT(30) DEF r
  <2>12. w = b
    BY <2>7, <2>8, <2>10, <2>11, SeqEqual
  <2> QED
    BY <2>5, <2>9, <2>12 DEF w, b
<1> HIDE DEF Good
<1>9. 0 \in S /\ \A n \in 0 .. N : n \in S /\ n < N => n + 1 \in S
  <2>1. \A n \in 0 .. N : n < N => n + 1 \in 0 .. N
    BY <1>1
  <2>2. 0 \in 0 .. N
    BY <1>1
  <2> QED
    BY <1>7, <1>8, <2>1, <2>2
<1>10. Good(N)
  <2> HIDE DEF S
  <2>1. \A n \in 0 .. N : n \in S
    BY <1>1, <1>9, InductionTo
  <2>2. N \in 0 .. N
    BY <1>1
  <2> QED
    BY <2>1, <2>2 DEF S
<1>11. Take(keys, N) = keys
  BY <1>2, TakeAll
<1>12. h[N] \in Seq(Rune)
  BY <1>1, <1>6
<1> QED
  BY <1>4, <1>5, <1>10, <1>11, <1>12 DEF Good, keys

\* One item more is one line more.
LEMMA LinesOfTake ==
  ASSUME NEW Rune, Basic \subseteq Rune, NEW items \in Seq(ItemsOf(Rune)),
         NEW n \in 0 .. Len(items) - 1
  PROVE  Lines(Take(items, n + 1)) = Lines(Take(items, n)) \o Line(items[n + 1])
<1> DEFINE It == ItemsOf(Rune)
           a == Take(items, n)
           b == Take(items, n + 1)
           last == items[n + 1]
           L(s) == [i \in DOMAIN s |-> Line(s[i])]
           one == <<Line(last)>>
<1>1. n \in 0 .. Len(items) /\ n + 1 \in 0 .. Len(items) /\ n + 1 \in 1 .. Len(items)
      /\ n \in Nat /\ items \in Seq(It) /\ last \in It
  OBVIOUS
<1> HIDE DEF It
<1>2. /\ a \in Seq(It) /\ Len(a) = n /\ \A i \in 1 .. n : a[i] = items[i]
      /\ b \in Seq(It) /\ Len(b) = n + 1 /\ \A i \in 1 .. n + 1 : b[i] = items[i]
  BY <1>1, TakeIs
<1>3. Line(last) \in Seq(Rune)
  BY <1>1, LineIs DEF It
<1> HIDE DEF a, b, last
<1>4. ASSUME NEW s \in Seq(It)
      PROVE  /\ L(s) \in Seq(Seq(Rune)) /\ Len(L(s)) = Len(s)
             /\ \A i \in 1 .. Len(s) : L(s)[i] = Line(s[i])
  <2> DEFINE N == Len(s)
             ls == L(s)
  <2>1. N \in Nat /\ DOMAIN s = 1 .. N /\ \A i \in 1 .. N : s[i] \in It
    OBVIOUS
  <2>2. \A i \in 1 .. N : Line(s[i]) \in Seq(Rune)
    BY <2>1, LineIs DEF It
  <2> HIDE DEF N
  <2>3. ls \in [1 .. N -> Seq(Rune)] /\ \A i \in 1 .. N : ls[i] = Line(s[i])
    BY <2>1, <2>2
  <2> HIDE DEF ls
  <2>4. ls \in Seq(Seq(Rune)) /\ Len(ls) = N
    BY <2>1, <2>3
  <2> QED
    BY <2>3, <2>4 DEF ls, N
<1>5. one \in Seq(Seq(Rune)) /\ Len(one) = 1 /\ one[1] = Line(last)
  BY <1>3
<1>6. \A s : Lines(s) = FlattenSeq(L(s))
  BY DEF Lines
<1> HIDE DEF one, L
<1> DEFINE la == L(a)
           lb == L(b)
           both == la \o one
           Text == Seq(Rune)
<1>7. /\ la \in Seq(Text) /\ Len(la) = n /\ \A i \in 1 .. n : la[i] = Line(a[i])
      /\ lb \in Seq(Text) /\ Len(lb) = n + 1 /\ \A i \in 1 .. n + 1 : lb[i] = Line(b[i])
      /\ one \in Seq(Text)
  BY <1>2, <1>4, <1>5
<1> HIDE DEF la, lb, Text
<1>8. /\ both \in Seq(Text) /\ Len(both) = Len(la) + Len(one)
      /\ \A i \in 1 .. Len(la) + Len(one) :
           both[i] = IF i <= Len(la) THEN la[i] ELSE one[i - Len(la)]
  BY <1>7, ConcatProperties
<1> HIDE DEF both
<1>9. ASSUME NEW i \in 1 .. n + 1 PROVE both[i] = lb[i]
  <2>1. both[i] = IF i <= n THEN la[i] ELSE one[i - n]
    BY <1>5, <1>7, <1>8
  <2>2. CASE i <= n
    <3>1. i \in 1 .. n
      BY <1>1, <2>2
    <3> QED
      BY <1>2, <1>7, <2>1, <2>2, <3>1
  <2>3. CASE ~(i <= n)
    <3>1. i = n + 1 /\ i - n = 1
      BY <1>1, <2>3
    <3>2. b[i] = last
      BY <1>2, <3>1 DEF last
    <3> QED
      BY <1>5, <1>7, <2>1, <2>3, <3>1, <3>2
  <2> QED
    BY <2>2, <2>3
<1>10. both = lb
  BY <1>1, <1>5, <1>7, <1>8, <1>9, SeqEqual
<1>11. FlattenSeq(both) = FlattenSeq(la) \o FlattenSeq(one)
  BY <1>7, FlattenConcat DEF both, Text
<1>12. FlattenSeq(one) = Line(last)
  BY <1>3, FlattenOne DEF one
<1> QED
  BY <1>6, <1>10, <1>11, <1>12 DEF la, lb, a, b, last

\* In what order texts are put together makes no difference to their fitting.
LEMMA OrderIsFree ==
  ASSUME NEW Rune, NEW p \in Seq(Rune), NEW q \in Seq(Rune), NEW r \in Seq(Rune)
  PROVE  FitsScreen((p \o q) \o r) <=> FitsScreen((p \o r) \o q)
<1> DEFINE pq == p \o q
           pr == p \o r
           pqr == pq \o r
           prq == pr \o q
<1>1. pq \in Seq(Rune) /\ pr \in Seq(Rune) /\ Len(pq) = Len(p) + Len(q)
      /\ Len(pr) = Len(p) + Len(r)
      /\ Len(p) \in Nat /\ Len(q) \in Nat /\ Len(r) \in Nat
  BY ConcatProperties
<1>2. /\ EncodingOf(pq) = "gsm7" <=> EncodingOf(p) = "gsm7" /\ EncodingOf(q) = "gsm7"
      /\ EncodingOf(pr) = "gsm7" <=> EncodingOf(p) = "gsm7" /\ EncodingOf(r) = "gsm7"
  BY EncodingConcat
<1>3. \A C : /\ Count(pq, C) = Count(p, C) + Count(q, C)
             /\ Count(pr, C) = Count(p, C) + Count(r, C)
             /\ Count(p, C) \in Nat /\ Count(q, C) \in Nat /\ Count(r, C) \in Nat
  BY CountConcat, CountIs
<1> HIDE DEF pq, pr
<1>4. pqr \in Seq(Rune) /\ prq \in Seq(Rune)
      /\ Len(pqr) = Len(pq) + Len(r) /\ Len(prq) = Len(pr) + Len(q)
  BY <1>1, ConcatProperties
<1>5. /\ EncodingOf(pqr) = "gsm7" <=> EncodingOf(pq) = "gsm7" /\ EncodingOf(r) = "gsm7"
      /\ EncodingOf(prq) = "gsm7" <=> EncodingOf(pr) = "gsm7" /\ EncodingOf(q) = "gsm7"
  BY <1>1, EncodingConcat
<1>6. \A C : /\ Count(pqr, C) = Count(pq, C) + Count(r, C)
             /\ Count(prq, C) = Count(pr, C) + Count(q, C)
  BY <1>1, CountConcat
<1> HIDE DEF pqr, prq
<1>7. Len(pqr) = Len(prq) /\ (EncodingOf(pqr) = "gsm7" <=> EncodingOf(prq) = "gsm7")
  BY <1>1, <1>2, <1>4, <1>5
<1>8. \A C : Count(pqr, C) = Count(prq, C)
  BY <1>3, <1>6
<1>9. FitsScreen(pqr) <=> FitsScreen(prq)
  BY <1>7, <1>8 DEF FitsScreen, ScreenCost, Budget
<1> QED
  BY <1>9 DEF pqr, prq, pq, pr

LEMMA EndsWith ==
  ASSUME NEW Rune, NEW p \in Seq(Rune), NEW s \in Seq(Rune)
  PROVE  IsSuffix(s, p \o s)
<1> DEFINE w == p \o s
           back == Reverse(s)
           all == Reverse(w)
<1>1. /\ w \in Seq(Rune) /\ Len(w) = Len(p) + Len(s) /\ Len(p) \in Nat /\ Len(s) \in Nat
      /\ \A i \in 1 .. Len(p) + Len(s) : w[i] = IF i <= Len(p) THEN p[i] ELSE s[i - Len(p)]
  BY ConcatProperties
<1> HIDE DEF w
<1>2. ASSUME NEW t \in Seq(Rune)
      PROVE  /\ Reverse(t) \in Seq(Rune) /\ Len(Reverse(t)) = Len(t)
             /\ \A i \in 1 .. Len(t) : Reverse(t)[i] = t[(Len(t) - i) + 1]
  <2>1. \A i \in 1 .. Len(t) : (Len(t) - i) + 1 \in 1 .. Len(t)
    OBVIOUS
  <2>2. \A i \in 1 .. Len(t) : t[(Len(t) - i) + 1] \in Rune
    BY <2>1
  <2>3. Reverse(t) \in [1 .. Len(t) -> Rune]
    BY <2>2 DEF Reverse
  <2> QED
    BY <2>3 DEF Reverse
<1>3. /\ back \in Seq(Rune) /\ Len(back) = Len(s)
      /\ \A i \in 1 .. Len(s) : back[i] = s[(Len(s) - i) + 1]
      /\ all \in Seq(Rune) /\ Len(all) = Len(w)
      /\ \A i \in 1 .. Len(w) : all[i] = w[(Len(w) - i) + 1]
  BY <1>1, <1>2
<1> HIDE DEF back, all
<1>4. \A i \in 1 .. Len(s) : all[i] = back[i]
  <2> SUFFICES ASSUME NEW i \in 1 .. Len(s) PROVE all[i] = back[i]
    OBVIOUS
  <2> DEFINE j == (Len(w) - i) + 1
  <2>1. j \in 1 .. Len(p) + Len(s) /\ ~(j <= Len(p)) /\ j - Len(p) = (Len(s) - i) + 1
        /\ i \in 1 .. Len(w)
    BY <1>1
  <2>2. all[i] = w[j]
    BY <1>3, <2>1
  <2>3. w[j] = s[j - Len(p)]
    BY <1>1, <2>1
  <2> QED
    BY <1>3, <2>1, <2>2, <2>3
<1>5. Len(back) \in 0 .. Len(back) /\ Len(back) \in 0 .. Len(all) /\ Len(back) <= Len(all)
  BY <1>1, <1>3
<1>6. /\ Take(back, Len(back)) \in Seq(Rune) /\ Len(Take(back, Len(back))) = Len(back)
      /\ \A i \in 1 .. Len(back) : Take(back, Len(back))[i] = back[i]
  BY <1>3, <1>5, TakeIs
<1>7. /\ Take(all, Len(back)) \in Seq(Rune) /\ Len(Take(all, Len(back))) = Len(back)
      /\ \A i \in 1 .. Len(back) : Take(all, Len(back))[i] = all[i]
  BY <1>3, <1>5, TakeIs
<1>8. Take(back, Len(back)) = Take(all, Len(back))
  BY <1>3, <1>4, <1>6, <1>7, SeqEqual
<1> QED
  BY <1>5, <1>8 DEF IsSuffix, IsPrefix, Take, back, all, w

ShownAbove(title, items, footer, n) ==
  title \o Lines(Take(items, n)) \o Lines(footer)

IsShown(title, items, footer, n) ==
  /\ \A m \in 1 .. n : FitsScreen(ShownAbove(title, items, footer, m))
  /\ n < Len(items) => ~FitsScreen(ShownAbove(title, items, footer, n + 1))

\* As many items are shown as fit above the footer.
LEMMA MenuFitIs ==
  ASSUME NEW title, NEW items, NEW footer, Len(items) \in Nat,
         FitsScreen(ShownAbove(title, items, footer, 0))
  PROVE  \E n \in 0 .. Len(items) :
           /\ IsShown(title, items, footer, n)
           /\ MenuFit(title, items, footer) =
                [text |-> ShownAbove(title, items, footer, n), shown |-> n]
<1> DEFINE N == Len(items)
           fits(n) == FitsScreen(ShownAbove(title, items, footer, n))
           ends == {n \in 0 .. N : n = N \/ ~fits(n + 1)}
           shown == CHOOSE n \in 0 .. N : IsShown(title, items, footer, n)
<1>1. \E n \in 0 .. N : IsShown(title, items, footer, n)
  <2> HIDE DEF fits
  <2>1. N \in ends /\ ends \in SUBSET Nat
    OBVIOUS
  <2>2. ends # {}
    BY <2>1
  <2>3. PICK n \in ends : \A m \in ends : n <= m
    BY <2>1, <2>2, LeastOf
  <2>4. \A m \in 1 .. n : fits(m)
    <3> SUFFICES ASSUME NEW m \in 1 .. n, ~fits(m) PROVE FALSE
      OBVIOUS
    <3>1. m - 1 \in 0 .. N /\ (m - 1) + 1 = m /\ m - 1 < n /\ n \in Nat
      BY <2>3
    <3>2. m - 1 \in ends
      BY <3>1
    <3>3. n <= m - 1
      <4> HIDE DEF ends
      <4> QED
        BY <2>3, <3>2
    <3> QED
      BY <3>1, <3>3
  <2>5. n < N => ~fits(n + 1)
    BY <2>3
  <2>6. n \in 0 .. N
    BY <2>3
  <2> QED
    BY <2>4, <2>5, <2>6 DEF IsShown, fits
<1>2. shown \in 0 .. N /\ IsShown(title, items, footer, shown)
  BY <1>1, Zenon
<1>3. MenuFit(title, items, footer) =
        [text |-> ShownAbove(title, items, footer, shown), shown |-> shown]
  BY Zenon DEF MenuFit, IsShown, ShownAbove
<1> HIDE DEF shown
<1> QED
  BY <1>2, <1>3

(***************************************************************************)
(* Whatever the items and the footer, if title and footer fit a screen by  *)
(* themselves: the footer is the end of the screen, above it are as many   *)
(* of the first items as fit, and the screen offers just these             *)
(* (MenuScreenFit, render.go:296-330).                                     *)
(***************************************************************************)
THEOREM EveryFooterStays ==
  ASSUME NEW Rune, Basic \subseteq Rune,
         NEW title \in Seq(Rune \ {NewLine}),
         NEW items \in Seq(ItemsOf(Rune)), NEW footer \in Seq(ItemsOf(Rune)),
         FitsScreen(title \o Lines(footer))
  PROVE  KeepsFooter(title, items, footer)
<1> DEFINE F == Lines(footer)
           T(n) == Take(items, n)
           L(n) == Lines(T(n))
           fit == MenuFit(title, items, footer)
<1>1. /\ NewLine \in Rune /\ title \in Seq(Rune) /\ Len(items) \in Nat
      /\ \A i \in 1 .. Len(title) : title[i] # NewLine
  BY Separators
<1>2. F \in Seq(Rune) /\ EndsClear(F) /\ Offered(F) = KeysOf(footer)
  BY LinesAre
<1>3. \A n \in 0 .. Len(items) : T(n) \in Seq(ItemsOf(Rune)) /\ Len(T(n)) = n
  <2> DEFINE It == ItemsOf(Rune)
  <2>1. items \in Seq(It)
    OBVIOUS
  <2> HIDE DEF It
  <2>2. \A n \in 0 .. Len(items) : T(n) \in Seq(It) /\ Len(T(n)) = n
    BY <2>1, TakeIs
  <2> QED
    BY <2>2 DEF It
<1>4. ASSUME NEW n \in 0 .. Len(items)
      PROVE  L(n) \in Seq(Rune) /\ EndsClear(L(n)) /\ Offered(L(n)) = KeysOf(T(n))
  <2> DEFINE some == T(n)
  <2>1. some \in Seq(ItemsOf(Rune))
    BY <1>3
  <2> HIDE DEF some
  <2>2. Lines(some) \in Seq(Rune) /\ EndsClear(Lines(some))
        /\ Offered(Lines(some)) = KeysOf(some)
    BY <2>1, LinesAre
  <2> QED
    BY <2>2 DEF some
<1>5. FitsScreen(ShownAbove(title, items, footer, 0))
  <2>1. T(0) = <<>>
    <3> DEFINE It == ItemsOf(Rune)
    <3>1. items \in Seq(It)
      OBVIOUS
    <3> HIDE DEF It
    <3> QED
      BY <3>1, TakeNone
  <2>2. L(0) = <<>>
    <3> DEFINE none == [i \in DOMAIN T(0) |-> Line(T(0)[i])]
    <3>1. none \in [1 .. 0 -> {<<>>}]
      BY <2>1
    <3>2. 0 \in Nat
      OBVIOUS
    <3>3. L(0) = FlattenSeq(none)
      BY DEF Lines
    <3> HIDE DEF none, L
    <3> QED
      BY <3>1, <3>2, <3>3, FlattenNothing
  <2>3. title \o <<>> = title
    BY <1>1
  <2> QED
    BY <2>2, <2>3 DEF ShownAbove
<1>6. PICK k \in 0 .. Len(items) :
        /\ IsShown(title, items, footer, k)
        /\ fit = [text |-> ShownAbove(title, items, footer, k), shown |-> k]
  BY <1>1, <1>5, MenuFitIs
<1> DEFINE text == ShownAbove(title, items, footer, k)
<1>7. fit.text = text /\ fit.shown = k
  BY <1>6
<1>8. FitsScreen(text)
  <2>1. CASE k = 0
    BY <1>5, <2>1
  <2>2. CASE k # 0
    <3>1. k \in 1 .. k
      BY <1>1, <2>2
    <3> QED
      BY <1>6, <3>1 DEF IsShown
  <2> QED
    BY <2>1, <2>2
<1> DEFINE Lk == L(k)
           above == title \o Lk
<1>9. Lk \in Seq(Rune) /\ EndsClear(Lk) /\ Offered(Lk) = KeysOf(T(k))
  BY <1>4
<1>10. EndsClear(title) /\ Offered(title) = <<>>
  BY <1>1, NothingIsOffered DEF EndsClear
<1>11. text = above \o F
  BY DEF ShownAbove
<1> HIDE DEF F, Lk, text
<1>12. above \in Seq(Rune) /\ EndsClear(above)
  BY <1>1, <1>9, <1>10, ClearConcat
<1>13. Offered(above) = Offered(title) \o Offered(Lk)
  BY <1>1, <1>9, <1>10, OfferedConcat
<1>14. Offered(above) = Offered(Lk)
  <2>1. Offered(Lk) \in Seq(Rune)
    BY <1>1, <1>9, OfferedIsText
  <2> HIDE DEF above
  <2> QED
    BY <1>10, <1>13, <2>1
<1> HIDE DEF above
<1>15. Offered(text) = KeysOf(T(k)) \o KeysOf(footer)
  <2>1. Offered(above \o F) = Offered(above) \o Offered(F)
    BY <1>1, <1>2, <1>12, OfferedConcat
  <2> QED
    BY <1>2, <1>9, <1>11, <1>14, <2>1
<1>16. IsSuffix(F, text)
  BY <1>2, <1>11, <1>12, EndsWith
<1>17. k < Len(items) => ~FitsScreen(text \o Line(items[k + 1]))
  <2> SUFFICES ASSUME k < Len(items) PROVE ~FitsScreen(text \o Line(items[k + 1]))
    OBVIOUS
  <2> DEFINE l == Line(items[k + 1])
  <2>1. k \in 0 .. Len(items) - 1 /\ k + 1 \in 1 .. Len(items)
    BY <1>1
  <2>2. l \in Seq(Rune)
    <3>1. items[k + 1] \in ItemsOf(Rune)
      BY <2>1
    <3> QED
      BY <3>1, LineIs
  <2>3. L(k + 1) = Lk \o l
    BY <2>1, LinesOfTake DEF Lk
  <2>4. ~FitsScreen((title \o L(k + 1)) \o F)
    BY <1>6 DEF IsShown, ShownAbove, F
  <2> HIDE DEF l, L
  <2>5. title \o (Lk \o l) = above \o l
    BY <1>1, <1>9, <2>2, ConcatAssociative, SMTT(30) DEF above
  <2>6. FitsScreen((above \o F) \o l) <=> FitsScreen((above \o l) \o F)
    BY <1>2, <1>12, <2>2, OrderIsFree
  <2> QED
    BY <1>11, <2>3, <2>4, <2>5, <2>6 DEF l
<1> HIDE DEF fit
<1> QED
  BY <1>7, <1>8, <1>15, <1>16, <1>17 DEF KeepsFooter, fit, F

----------------------------------------------------------------------------
(* What a screen holds *)

Holds(s, t, Rune) == \E a \in Seq(Rune), b \in Seq(Rune) : s = (a \o t) \o b

LEMMA HeldFurther ==
  ASSUME NEW Rune, NEW s \in Seq(Rune), NEW t \in Seq(Rune), NEW p \in Seq(Rune),
         Holds(s, t, Rune)
  PROVE  Holds(p \o s, t, Rune) /\ Holds(s \o p, t, Rune)
<1>1. PICK a \in Seq(Rune), b \in Seq(Rune) : s = (a \o t) \o b
  BY Zenon DEF Holds
<1> DEFINE at == a \o t
           pa == p \o a
           bp == b \o p
<1>2. at \in Seq(Rune) /\ pa \in Seq(Rune) /\ bp \in Seq(Rune)
  OBVIOUS
<1>3. p \o at = pa \o t
  BY ConcatAssociative, SMTT(30)
<1> HIDE DEF at, pa, bp
<1>4. p \o (at \o b) = (p \o at) \o b
  BY <1>2, ConcatAssociative, SMTT(30)
<1>5. (at \o b) \o p = at \o (b \o p)
  BY <1>2, ConcatAssociative, SMTT(30)
<1>6. p \o s = (pa \o t) \o b
  BY <1>1, <1>3, <1>4, Zenon DEF at
<1>7. s \o p = (a \o t) \o bp
  BY <1>1, <1>5, Zenon DEF at, bp
<1> QED
  BY <1>2, <1>6, <1>7, Zenon DEF Holds

LEMMA HeldWithin ==
  ASSUME NEW Rune, NEW s \in Seq(Rune), NEW t \in Seq(Rune), NEW u \in Seq(Rune),
         Holds(t, u, Rune), Holds(s, t, Rune)
  PROVE  Holds(s, u, Rune)
<1>1. PICK a \in Seq(Rune), b \in Seq(Rune) : s = (a \o t) \o b
  BY Zenon DEF Holds
<1>2. Holds(a \o t, u, Rune) /\ a \o t \in Seq(Rune)
  BY HeldFurther
<1> QED
  BY <1>1, <1>2, HeldFurther

LEMMA HeldIsRead ==
  ASSUME NEW Rune, NEW s \in Seq(Rune), NEW t \in Seq(Rune), Holds(s, t, Rune)
  PROVE  \E i \in 0 .. Len(s) - Len(t) : SubSeq(s, i + 1, i + Len(t)) = t
<1>1. PICK a \in Seq(Rune), b \in Seq(Rune) : s = (a \o t) \o b
  BY Zenon DEF Holds
<1> DEFINE at == a \o t
           i == Len(a)
           n == Len(t)
<1>2. /\ at \in Seq(Rune) /\ Len(at) = Len(a) + Len(t)
      /\ \A j \in 1 .. Len(a) + Len(t) : at[j] = IF j <= Len(a) THEN a[j] ELSE t[j - Len(a)]
      /\ Len(a) \in Nat /\ Len(t) \in Nat /\ Len(b) \in Nat
  BY ConcatProperties
<1> HIDE DEF at
<1>4. s = at \o b
  BY <1>1, Zenon DEF at
<1>3. /\ Len(s) = Len(at) + Len(b)
      /\ \A j \in 1 .. Len(at) + Len(b) :
           s[j] = IF j <= Len(at) THEN at[j] ELSE b[j - Len(at)]
  <2>1. ASSUME NEW c \in Seq(Rune), s = c \o b
        PROVE  /\ Len(s) = Len(c) + Len(b)
               /\ \A j \in 1 .. Len(c) + Len(b) :
                    s[j] = IF j <= Len(c) THEN c[j] ELSE b[j - Len(c)]
    BY <2>1, ConcatProperties, SMTT(30)
  <2> QED
    BY <1>2, <1>4, <2>1, Zenon
<1>5. /\ i \in Nat /\ n \in Nat /\ Len(s) = i + n + Len(b)
      /\ \A j \in 1 .. n : s[i + j] = t[j]
  BY <1>2, <1>3
<1> HIDE DEF i
<1>6. i \in 0 .. Len(s) - n
  BY <1>2, <1>5
<1> DEFINE sub == SubSeq(s, i + 1, i + n)
<1>7. /\ sub \in Seq(Rune) /\ Len(sub) = n
      /\ \A j \in 1 .. n : sub[j] = s[i + j]
  BY <1>2, <1>5
<1> HIDE DEF sub
<1>8. sub = t
  BY <1>5, <1>7, SeqEqual
<1> QED
  BY <1>6, <1>8 DEF sub

\* The items of a menu are read with their keys.
LEMMA LinesHoldKeys ==
  ASSUME NEW Rune, Basic \subseteq Rune, NEW items \in Seq(ItemsOf(Rune)),
         NEW i \in 1 .. Len(items)
  PROVE  Holds(Lines(items), Lead(items[i]), Rune)
<1> DEFINE N == Len(items)
           It == ItemsOf(Rune)
           d == [n \in 0 .. N |-> Lines(Take(items, n))]
           item == items[i]
<1>1. N \in Nat /\ items \in Seq(It) /\ \A n \in 1 .. N : items[n] \in It
  OBVIOUS
<1> HIDE DEF It
<1>2. \A n \in 0 .. N : Take(items, n) \in Seq(It)
  BY <1>1, TakeIs
<1>3. \A n \in 0 .. N : Lines(Take(items, n)) \in Seq(Rune)
  BY <1>2, LinesAre DEF It
<1>4. \A n \in 0 .. N : d[n] = Lines(Take(items, n))
  OBVIOUS
<1>5. d \in [0 .. N -> Seq(Rune)]
  BY <1>3
<1> HIDE DEF d
<1>6. ASSUME NEW k \in 1 .. N
      PROVE  d[k] = d[k - 1] \o Line(items[k]) /\ Line(items[k]) \in Seq(Rune)
  <2>1. k - 1 \in 0 .. N - 1 /\ k - 1 \in 0 .. N /\ k \in 0 .. N /\ (k - 1) + 1 = k
    BY <1>1
  <2>2. Lines(Take(items, (k - 1) + 1)) = Lines(Take(items, k - 1)) \o Line(items[(k - 1) + 1])
    BY <2>1, LinesOfTake
  <2>3. Line(items[k]) \in Seq(Rune)
    BY <1>1, LineIs DEF It
  <2> QED
    BY <1>4, <2>1, <2>2, <2>3
<1>7. HasGrown(d, N, Rune)
  <2>1. Grows(d, N, Rune)
    BY <1>5, <1>6 DEF Grows
  <2> HIDE DEF N
  <2> QED
    BY <1>1, <2>1, GrowsOn
<1>8. i \in 1 .. N /\ i \in 0 .. N /\ i - 1 \in 0 .. N /\ N \in i .. N
  BY <1>1
<1>9. PICK q \in Seq(Rune) : d[N] = d[i] \o q
  BY <1>7, <1>8 DEF HasGrown
<1>10. /\ Lead(item) \in Seq(Rune) /\ Line(item) = Lead(item) \o OneLine(item.label)
       /\ Line(item) \in Seq(Rune)
  BY <1>1, LineParts, LineIs DEF It
<1>11. OneLine(item.label) \in Seq(Rune)
  <2>1. item.label \in Seq(Rune) /\ Gap \in Rune
    BY <1>1, GapIs DEF It, ItemsOf
  <2> QED
    BY <2>1, JoinFieldsIsText DEF OneLine
<1> HIDE DEF item
<1> DEFINE lead == Lead(item)
           rest == OneLine(item.label)
           line == Line(item)
<1>12. Holds(line, lead, Rune)
  <2>1. line = (<<>> \o lead) \o rest /\ <<>> \in Seq(Rune)
    <3> HIDE DEF lead, rest, line
    <3> QED
      BY <1>10, <1>11, ConcatEmptySeq DEF lead, rest, line
  <2> QED
    BY <1>11, <2>1, Zenon DEF Holds
<1>13. Holds(d[N], line, Rune)
  <2>1. d[N] = (d[i - 1] \o line) \o q /\ d[i - 1] \in Seq(Rune)
    BY <1>5, <1>6, <1>8, <1>9 DEF item
  <2> QED
    BY <2>1, Zenon DEF Holds
<1>14. d[N] = Lines(items) /\ d[N] \in Seq(Rune)
  <2>1. Take(items, N) = items
    BY <1>1, TakeAll
  <2> QED
    BY <1>1, <1>4, <1>5, <2>1
<1> QED
  BY <1>10, <1>12, <1>13, <1>14, HeldWithin DEF item

\* What is above a line fits if both do, and what is below it.
LEMMA AboveALineFits ==
  ASSUME NEW Rune, Basic \subseteq Rune, NEW p \in Seq(Rune), NEW q \in Seq(Rune),
         FitsScreen(p \o (<<NewLine>> \o q))
  PROVE  FitsScreen(p)
<1> DEFINE nl == <<NewLine>>
           pq == p \o q
           pn == p \o nl
<1>1. nl \in Seq(Basic) /\ Len(nl) = 1 /\ nl \in Seq(Rune)
  BY Separators
<1> HIDE DEF nl
<1>2. pq \in Seq(Rune) /\ pn \in Seq(Rune)
  BY <1>1
<1>3. p \o (nl \o q) = pn \o q
  BY <1>1, ConcatAssociative, SMTT(30)
<1>4. FitsScreen(pq \o nl)
  <2>1. FitsScreen(pn \o q)
    BY <1>3 DEF nl
  <2> QED
    BY <1>1, <2>1, OrderIsFree
<1>5. ScreenCost(pq \o nl) \in Nat
  <2>1. pq \o nl \in Seq(Rune)
    BY <1>1, <1>2
  <2> QED
    BY <2>1, CostIs
<1>6. ScreenCost(pn) + 0 <= Budget(pn)
  <2>1. ScreenCost(p \o q \o nl) + 0 <= Budget(p \o q \o nl) /\ 0 + Len(nl) >= 1 /\ 0 \in Nat
    BY <1>1, <1>4, <1>5 DEF FitsScreen
  <2> HIDE DEF pn, pq
  <2>2. ScreenCost(p \o nl) + 0 <= Budget(p \o nl)
    BY <1>1, <2>1, PrefixFits
  <2> QED
    BY <2>2 DEF pn
<1>7. ScreenCost(pn) = ScreenCost(p) + Len(nl) /\ Budget(pn) = Budget(p)
  BY <1>1, BasicTail
<1>8. ScreenCost(p) \in Nat /\ Budget(p) \in Nat
  BY CostIs
<1> HIDE DEF pn
<1> QED
  BY <1>1, <1>6, <1>7, <1>8 DEF FitsScreen

LEMMA BelowALineFits ==
  ASSUME NEW Rune, Basic \subseteq Rune, NEW p \in Seq(Rune), NEW q \in Seq(Rune),
         FitsScreen((p \o <<NewLine>>) \o q)
  PROVE  FitsScreen(q)
<1> DEFINE nl == <<NewLine>>
           pn == p \o nl
<1>1. nl \in Seq(Rune)
  BY Separators
<1> HIDE DEF nl
<1>2. pn \in Seq(Rune) /\ <<>> \in Seq(Rune) /\ <<>> \o pn = pn /\ <<>> \o q = q
  BY <1>1, ConcatEmptySeq
<1>3. FitsScreen(pn \o q)
  BY DEF nl
<1> HIDE DEF pn
<1>4. FitsScreen(q \o pn)
  <2>1. FitsScreen((<<>> \o pn) \o q)
    BY <1>2, <1>3
  <2>2. FitsScreen((<<>> \o q) \o pn)
    BY <1>2, <2>1, OrderIsFree
  <2> QED
    BY <1>2, <2>2
<1>5. q \o pn = (q \o p) \o nl
  BY <1>1, ConcatAssociative, SMTT(30) DEF pn
<1>6. FitsScreen((q \o nl) \o p)
  BY <1>1, <1>4, <1>5, OrderIsFree
<1>7. (q \o nl) \o p = q \o (nl \o p)
  BY <1>1, ConcatAssociative, SMTT(30)
<1> QED
  BY <1>6, <1>7, AboveALineFits DEF nl

LEMMA LineStarts ==
  ASSUME NEW Rune, Basic \subseteq Rune, NEW item \in ItemsOf(Rune)
  PROVE  \E q \in Seq(Rune) : Line(item) = <<NewLine>> \o q
<1> DEFINE nl == <<NewLine>>
           key == item.key
           text == item.label
           label == OneLine(text)
           rest == key \o (Stop \o label)
<1>1. nl \in Seq(Rune) /\ Stop \in Seq(Rune) /\ Gap \in Rune
  BY Separators, GapIs
<1>2. key \in Seq(Rune) /\ text \in Seq(Rune)
  <2>2. key \in Seq(Rune)
    BY KeyIs
  <2>3. text \in Seq(Rune)
    BY DEF ItemsOf
  <2> QED
    BY <2>2, <2>3
<1> HIDE DEF key, text
<1>3. label \in Seq(Rune)
  BY <1>1, <1>2, JoinFieldsIsText DEF OneLine
<1>4. Line(item) = ((nl \o key) \o Stop) \o label
  BY LineParts, Zenon DEF Lead, nl, key, label, text
<1> HIDE DEF nl, label
<1>5. rest \in Seq(Rune)
  BY <1>1, <1>2, <1>3
<1>6. ((nl \o key) \o Stop) \o label = (nl \o key) \o (Stop \o label)
  <2> DEFINE a == nl \o key
  <2>1. a \in Seq(Rune)
    BY <1>1, <1>2
  <2> HIDE DEF a
  <2>2. (a \o Stop) \o label = a \o (Stop \o label)
    BY <1>1, <1>3, <2>1, ConcatAssociative, SMTT(30)
  <2> QED
    BY <2>2 DEF a
<1>7. (nl \o key) \o (Stop \o label) = nl \o (key \o (Stop \o label))
  <2> DEFINE b == Stop \o label
  <2>1. b \in Seq(Rune)
    BY <1>1, <1>3
  <2> HIDE DEF b
  <2>2. (nl \o key) \o b = nl \o (key \o b)
    BY <1>1, <1>2, <2>1, ConcatAssociative, SMTT(30)
  <2> QED
    BY <2>2 DEF b
<1>8. Line(item) = nl \o rest
  BY <1>4, <1>6, <1>7, Zenon DEF rest
<1> QED
  BY <1>5, <1>8, Zenon DEF nl

\* Items that fit are all there.
LEMMA MenuIsWhole ==
  ASSUME NEW Rune, Basic \subseteq Rune, NEW title \in Seq(Rune),
         NEW items \in Seq(ItemsOf(Rune)), FitsScreen(title \o Lines(items))
  PROVE  Menu(title, items) = title \o Lines(items)
<1> DEFINE N == Len(items)
           It == ItemsOf(Rune)
           L(n) == Lines(Take(items, n))
           S == {n \in 0 .. N : FitsScreen(title \o L(n))}
<1>1. N \in Nat /\ items \in Seq(It) /\ \A n \in 1 .. N : items[n] \in It
  OBVIOUS
<1> HIDE DEF It
<1>2. \A n \in 0 .. N : L(n) \in Seq(Rune)
  <2>1. \A n \in 0 .. N : Take(items, n) \in Seq(It)
    BY <1>1, TakeIs
  <2> QED
    BY <2>1, LinesAre DEF It
<1>3. ASSUME NEW n \in 0 .. N, n < N
      PROVE  L(n + 1) = L(n) \o Line(items[n + 1]) /\ items[n + 1] \in It /\ n + 1 \in 1 .. N
  <2>1. n \in 0 .. Len(items) - 1 /\ n + 1 \in 1 .. N
    BY <1>1, <1>3
  <2> QED
    BY <1>1, <2>1, LinesOfTake
<1>4. L(N) = Lines(items) /\ L(0) = <<>>
  <2>1. Take(items, N) = items /\ Take(items, 0) = <<>>
    BY <1>1, TakeAll, TakeNone
  <2>2. Lines(<<>>) = <<>>
    <3>1. Lines(<<>>) = FlattenSeq([j \in DOMAIN <<>> |-> Line(<<>>[j])])
      BY Zenon DEF Lines
    <3> DEFINE none == [j \in DOMAIN <<>> |-> Line(<<>>[j])]
    <3>2. none \in [1 .. 0 -> {<<>>}] /\ 0 \in Nat
      OBVIOUS
    <3> HIDE DEF none
    <3>3. FlattenSeq(none) = <<>>
      BY <3>2, FlattenNothing
    <3> QED
      BY <3>1, <3>3 DEF none
  <2> QED
    BY <2>1, <2>2
<1> HIDE DEF L
<1>5. ASSUME NEW n \in 0 .. N, \A k \in n + 1 .. N : k \in S PROVE n \in S
  <2>1. CASE n = N
    BY <1>4, <2>1
  <2>2. CASE n < N
    <3> DEFINE item == items[n + 1]
               p == title \o L(n)
    <3>1. item \in It /\ L(n + 1) = L(n) \o Line(item) /\ n + 1 \in n + 1 .. N
      BY <1>1, <1>3, <2>2
    <3>2. FitsScreen(title \o L(n + 1))
      BY <1>5, <3>1
    <3> HIDE DEF item
    <3>3. PICK q \in Seq(Rune) : Line(item) = <<NewLine>> \o q
      BY <3>1, LineStarts DEF It
    <3>4. L(n) \in Seq(Rune) /\ p \in Seq(Rune) /\ <<NewLine>> \o q \in Seq(Rune)
      <4>1. NewLine \in Rune
        BY Separators
      <4> QED
        BY <1>2, <4>1
    <3>5. title \o (L(n) \o (<<NewLine>> \o q)) = p \o (<<NewLine>> \o q)
      <4> DEFINE a == L(n)
                 b == <<NewLine>> \o q
      <4>1. a \in Seq(Rune) /\ b \in Seq(Rune)
        BY <3>4
      <4> HIDE DEF a, b
      <4>2. title \o (a \o b) = (title \o a) \o b
        BY <4>1, ConcatAssociative, SMTT(30)
      <4> QED
        BY <4>2, Zenon DEF a, b
    <3>6. FitsScreen(p \o (<<NewLine>> \o q))
      BY <3>1, <3>2, <3>3, <3>5, Zenon
    <3> HIDE DEF p
    <3>7. FitsScreen(p)
      BY <3>4, <3>6, AboveALineFits
    <3> QED
      BY <3>7 DEF p
  <2> QED
    BY <1>1, <2>1, <2>2
<1>6. \A n \in 0 .. N : FitsScreen(title \o L(n))
  <2> HIDE DEF S, N
  <2>1. \A n \in 0 .. N : n \in S
    BY <1>1, <1>5, BackwardInduction
  <2> QED
    BY <2>1 DEF S
<1>7. PICK h : /\ h \in [0 .. N -> MenusOf(Rune)]
               /\ h[0] = [text |-> title, full |-> FALSE]
               /\ \A n \in 1 .. N : h[n] = MenuStep(items, n, h[n - 1])
               /\ Menu(title, items) = h[N].text
  BY MenuIs
<1> DEFINE W == {n \in 0 .. N : h[n] = [text |-> title \o L(n), full |-> FALSE]}
<1>8. 0 \in W
  <2>1. title \o L(0) = title
    BY <1>4, ConcatEmptySeq
  <2> QED
    BY <1>1, <1>7, <2>1
<1>9. ASSUME NEW n \in 0 .. N, n \in W, n < N PROVE n + 1 \in W
  <2> DEFINE item == items[n + 1]
             above == [text |-> title \o L(n), full |-> FALSE]
             text == title \o L(n)
  <2>1. n + 1 \in 0 .. N /\ n + 1 \in 1 .. N /\ (n + 1) - 1 = n /\ item \in It
        /\ L(n + 1) = L(n) \o Line(item)
    BY <1>1, <1>3, <1>9
  <2>2. h[n + 1] = MenuStep(items, n + 1, above)
    BY <1>7, <1>9, <2>1
  <2>3. title \o L(n + 1) = text \o Line(item)
    <3> DEFINE a == L(n)
               b == Line(item)
    <3>1. a \in Seq(Rune) /\ b \in Seq(Rune)
      BY <1>2, <2>1, LineIs DEF It
    <3> HIDE DEF a, b
    <3>2. title \o (a \o b) = (title \o a) \o b
      BY <3>1, ConcatAssociative, SMTT(30)
    <3> QED
      BY <2>1, <3>2, Zenon DEF a, b
  <2>4. FitsScreen(text \o Line(item))
    BY <1>6, <2>1, <2>3
  <2> HIDE DEF text
  <2>5. above = [text |-> text, full |-> FALSE]
    BY DEF text
  <2> HIDE DEF above
  <2>6. MenuStep(items, n + 1, above) = [text |-> text \o Line(item), full |-> FALSE]
    <3>1. ~above.full /\ above.text = text
      BY <2>5
    <3>2. MenuStep(items, n + 1, above) = [above EXCEPT !.text = @ \o Line(item)]
      BY <2>4, <3>1 DEF MenuStep
    <3> QED
      BY <2>5, <3>2
  <2>7. h[n + 1] = [text |-> title \o L(n + 1), full |-> FALSE]
    BY <2>2, <2>3, <2>6
  <2> QED
    BY <2>1, <2>7
<1>10. \A n \in 0 .. N : n \in W
  <2> HIDE DEF W, N
  <2> QED
    BY <1>1, <1>8, <1>9, InductionTo
<1>11. h[N] = [text |-> title \o L(N), full |-> FALSE]
  BY <1>1, <1>10
<1> QED
  BY <1>4, <1>7, <1>11
=============================================================================
