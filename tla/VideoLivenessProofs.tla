------------------------- MODULE VideoLivenessProofs -------------------------
(***************************************************************************)
(* Proofs about VideoLiveness, for videos of any length, any settings and  *)
(* any outputs of the networks.                                            *)
(***************************************************************************)
EXTENDS VideoLiveness, FiniteSetTheorems, SequenceTheorems, WellFoundedInduction, TLAPS

-----------------------------------------------------------------------------
(* Extremes of finite collections.  The set of natural numbers at which a      *)
(* statement fails has a least element: this takes the place of induction.     *)

LEMMA Least ==
  ASSUME NEW T, T \subseteq Nat, T # {}
  PROVE  \E m \in T : \A k \in T : m <= k
<1>1. PICK m \in T : \A k \in T : ~(<<k, m>> \in OpToRel(<, Nat))
  BY WFMin, NatLessThanWellFounded
<1>2. \A k \in T : ~(k < m)
  BY <1>1 DEF OpToRel
<1>3. m \in Nat /\ \A k \in T : k \in Nat
  OBVIOUS
<1> QED
  BY <1>2, <1>3

\* Among finitely many integers one is the largest.
LEMMA Largest ==
  ASSUME NEW n \in Nat, NEW f \in [1 .. n -> Int], NEW I \in SUBSET (1 .. n), I # {}
  PROVE  \E i \in I : \A j \in I : f[j] <= f[i]
<1> DEFINE HasLargest(J) == \E i \in J : \A j \in J : f[j] <= f[i]
           T == {m \in Nat : \E J \in SUBSET (1 .. n) :
                                J # {} /\ J \subseteq 1 .. m /\ ~HasLargest(J)}
<1> SUFFICES ASSUME ~HasLargest(I) PROVE FALSE
  OBVIOUS
<1>1. n \in T
  OBVIOUS
<1>2. PICK m \in T : \A k \in T : m <= k
  BY <1>1, Least
<1>3. PICK J \in SUBSET (1 .. n) : J # {} /\ J \subseteq 1 .. m /\ ~HasLargest(J)
  BY <1>2
<1>4. m \in Nat \ {0}
  <2>1. m \in Nat
    OBVIOUS
  <2>2. PICK j \in J : j \in 1 .. m
    BY <1>3
  <2> QED
    BY <2>1, <2>2
<1>5. m - 1 \in Nat /\ ~(m <= m - 1)
  BY <1>4
<1>6. ASSUME NEW K \in SUBSET (1 .. n), K # {}, K \subseteq 1 .. (m - 1)
      PROVE  HasLargest(K)
  <2> SUFFICES ASSUME ~HasLargest(K) PROVE m - 1 \in T
    BY <1>2, <1>5
  <2> QED
    BY <1>5, <1>6
<1>7. CASE m \notin J
  <2>1. J \subseteq 1 .. (m - 1)
    <3>1. ASSUME NEW j \in J PROVE j \in 1 .. (m - 1)
      <4>1. j \in 1 .. m /\ j # m
        BY <1>3, <1>7
      <4> QED
        BY <1>4, <4>1
    <3> QED
      BY <3>1
  <2> QED
    BY <1>3, <1>6, <2>1
<1>8. CASE J = {m}
  BY <1>3, <1>8
<1>9. CASE m \in J /\ J # {m}
  <2>1. J \ {m} \subseteq 1 .. (m - 1) /\ J \ {m} # {}
    <3>1. ASSUME NEW j \in J \ {m} PROVE j \in 1 .. (m - 1)
      <4>1. j \in 1 .. m /\ j # m
        BY <1>3
      <4> QED
        BY <1>4, <4>1
    <3> QED
      BY <3>1, <1>3, <1>9
  <2>2. PICK i \in J \ {m} : \A j \in J \ {m} : f[j] <= f[i]
    BY <1>6, <2>1
  <2>3. f[i] \in Int /\ f[m] \in Int /\ \A j \in J : f[j] \in Int
    BY <1>9
  <2>4. CASE f[m] <= f[i]
    <3>1. \A j \in J : f[j] <= f[i]
      BY <2>2, <2>4
    <3> QED
      BY <1>3, <2>2, <3>1
  <2>5. CASE f[i] <= f[m]
    <3>1. \A j \in J : f[j] <= f[m]
      BY <2>2, <2>3, <2>5
    <3> QED
      BY <1>3, <1>9, <3>1
  <2> QED
    BY <2>3, <2>4, <2>5
<1> QED
  BY <1>7, <1>8, <1>9

\* One is the smallest.
LEMMA Smallest ==
  ASSUME NEW n \in Nat, NEW f \in [1 .. n -> Int], NEW I \in SUBSET (1 .. n), I # {}
  PROVE  \E i \in I : \A j \in I : f[i] <= f[j]
<1> DEFINE g == [i \in 1 .. n |-> -f[i]]
<1>1. g \in [1 .. n -> Int]
  OBVIOUS
<1> HIDE DEF g
<1>2. PICK i \in I : \A j \in I : g[j] <= g[i]
  BY <1>1, Largest
<1>3. \A j \in I : g[j] = -f[j] /\ f[j] \in Int
  BY DEF g
<1> QED
  BY <1>2, <1>3

-----------------------------------------------------------------------------
(* Ranks. *)

\* The elements of a sequence of integers, and the places of those up to v.
LEMMA Places ==
  ASSUME NEW s \in Seq(Int)
  PROVE  /\ DOMAIN s = 1 .. Len(s) /\ Len(s) \in Nat /\ s \in [1 .. Len(s) -> Int]
         /\ Cardinality(1 .. Len(s)) = Len(s)
         /\ \A I \in SUBSET DOMAIN s : IsFiniteSet(I) /\ Cardinality(I) \in 0 .. Len(s)
<1>1. DOMAIN s = 1 .. Len(s) /\ Len(s) \in Nat /\ s \in [1 .. Len(s) -> Int]
  OBVIOUS
<1>2. IsFiniteSet(1 .. Len(s)) /\ Cardinality(1 .. Len(s)) = Len(s)
  BY <1>1, FS_Interval
<1>3. ASSUME NEW I \in SUBSET DOMAIN s
      PROVE  IsFiniteSet(I) /\ Cardinality(I) \in 0 .. Len(s)
  BY <1>1, <1>2, FS_Subset, FS_CardinalityType
<1> QED
  BY <1>1, <1>2, <1>3

\* The k-th smallest element exists.
LEMMA RankedIs ==
  ASSUME NEW s \in Seq(Int), NEW k \in 1 .. Len(s)
  PROVE  /\ \E i \in DOMAIN s : Ranked(s, k) = s[i]
         /\ Cardinality({i \in DOMAIN s : s[i] < Ranked(s, k)}) < k
         /\ Cardinality({i \in DOMAIN s : s[i] <= Ranked(s, k)}) >= k
<1> DEFINE Below(v) == {i \in DOMAIN s : s[i] < v}
           UpTo(v) == {i \in DOMAIN s : s[i] <= v}
           P(v) == Cardinality(Below(v)) < k /\ Cardinality(UpTo(v)) >= k
           U == {i \in DOMAIN s : Cardinality(UpTo(s[i])) >= k}
<1>1. /\ DOMAIN s = 1 .. Len(s) /\ Len(s) \in Nat /\ s \in [1 .. Len(s) -> Int]
      /\ \A i \in DOMAIN s : s[i] \in Int
      /\ \A I \in SUBSET DOMAIN s : IsFiniteSet(I) /\ Cardinality(I) \in 0 .. Len(s)
  BY Places
<1>2. U # {}
  <2>1. PICK i \in DOMAIN s : \A j \in DOMAIN s : s[j] <= s[i]
    BY <1>1, Largest
  <2>2. UpTo(s[i]) = 1 .. Len(s)
    BY <1>1, <2>1
  <2>3. Cardinality(UpTo(s[i])) = Len(s)
    <3>1. Cardinality(1 .. Len(s)) = Len(s)
      BY Places
    <3> QED
      BY <2>2, <3>1
  <2> QED
    BY <1>1, <2>3
<1>3. PICK i \in U : \A j \in U : s[i] <= s[j]
  BY <1>1, <1>2, Smallest
<1>4. Cardinality(Below(s[i])) < k
  <2> SUFFICES ASSUME Cardinality(Below(s[i])) >= k PROVE FALSE
    BY <1>1
  <2>1. Below(s[i]) # {}
    <3>1. Cardinality(Below(s[i])) \in Nat /\ Cardinality(Below(s[i])) # 0
      BY <1>1
    <3> QED
      BY <3>1, FS_EmptySet
  <2>2. PICK j \in Below(s[i]) : \A l \in Below(s[i]) : s[l] <= s[j]
    BY <1>1, <2>1, Largest
  <2>3. UpTo(s[j]) = Below(s[i])
    BY <1>1, <1>3, <2>2
  <2>4. j \in U /\ s[j] < s[i]
    BY <2>2, <2>3
  <2> QED
    BY <1>1, <1>3, <2>4
<1>5. P(s[i]) /\ s[i] \in {s[j] : j \in DOMAIN s}
  BY <1>3, <1>4
<1>6. Ranked(s, k) = CHOOSE v \in {s[j] : j \in DOMAIN s} : P(v)
  BY DEF Ranked
<1> HIDE DEF P
<1>7. Ranked(s, k) \in {s[j] : j \in DOMAIN s} /\ P(Ranked(s, k))
  BY <1>5, <1>6
<1> QED
  BY <1>7 DEF P

\* The higher the rank, the larger the element.
LEMMA RanksOrder ==
  ASSUME NEW s \in Seq(Int), NEW k \in 1 .. Len(s), NEW l \in 1 .. Len(s), k <= l
  PROVE  Ranked(s, k) <= Ranked(s, l)
<1> DEFINE a == Ranked(s, k)
           b == Ranked(s, l)
           Below == {i \in DOMAIN s : s[i] < a}
           UpTo == {i \in DOMAIN s : s[i] <= b}
<1>1. Cardinality(Below) < k /\ Cardinality(UpTo) >= l
  BY RankedIs
<1>2. a \in Int /\ b \in Int /\ \A i \in DOMAIN s : s[i] \in Int
  BY RankedIs, Places
<1>3. CASE b < a
  <2>1. UpTo \subseteq Below
    BY <1>2, <1>3
  <2>2. IsFiniteSet(Below) /\ Cardinality(Below) \in Nat /\ Cardinality(UpTo) \in Nat
    BY Places
  <2>3. Cardinality(UpTo) <= Cardinality(Below)
    BY <2>1, <2>2, FS_Subset
  <2> QED
    BY <1>1, <2>2, <2>3
<1> QED
  BY <1>2, <1>3

\* The smallest is no larger than any.
LEMMA RankedOne ==
  ASSUME NEW s \in Seq(Int), Len(s) # 0
  PROVE  \A i \in DOMAIN s : Ranked(s, 1) <= s[i]
<1> DEFINE v == Ranked(s, 1)
           Below == {i \in DOMAIN s : s[i] < v}
<1>1. 1 \in 1 .. Len(s)
  BY Places
<1>2. Cardinality(Below) < 1 /\ v \in Int /\ \A i \in DOMAIN s : s[i] \in Int
  BY <1>1, RankedIs, Places
<1>3. IsFiniteSet(Below) /\ Cardinality(Below) \in Nat
  BY Places
<1>4. Below = {}
  <2>1. Cardinality(Below) = 0
    BY <1>2, <1>3
  <2> QED
    BY <1>3, <2>1, FS_EmptySet
<1> QED
  BY <1>2, <1>4

-----------------------------------------------------------------------------
(* The motion scores. *)

\* A sequence of some integers is one of integers.
LEMMA SeqOfInts ==
  ASSUME NEW S \in SUBSET Int, NEW t \in Seq(S)
  PROVE  t \in Seq(Int) /\ \A i \in DOMAIN t : t[i] \in S
<1>1. t \in [1 .. Len(t) -> S] /\ Len(t) \in Nat /\ DOMAIN t = 1 .. Len(t)
  OBVIOUS
<1>2. \A i \in 1 .. Len(t) : t[i] \in S
  BY <1>1
<1>3. t \in [1 .. Len(t) -> Int]
  BY <1>1, <1>2
<1> QED
  BY <1>1, <1>2, <1>3, SeqDef

\* The median of the first three frames is one of them.
LEMMA BaselineIs ==
  ASSUME NEW S \in SUBSET Int, NEW s \in Seq(S), Len(s) >= 5
  PROVE  Baseline(s) \in S
<1> DEFINE t == SubSeq(s, 1, 3)
<1>1. t \in Seq(S) /\ Len(t) = 3
  OBVIOUS
<1> HIDE DEF t
<1>2. t \in Seq(Int) /\ 2 \in 1 .. Len(t)
  BY <1>1, SeqOfInts
<1>3. \E i \in DOMAIN t : Ranked(t, 2) = t[i]
  BY <1>2, RankedIs
<1>4. \A i \in DOMAIN t : t[i] \in S
  BY <1>1, SeqOfInts
<1> QED
  BY <1>3, <1>4 DEF Baseline, t

\* The peak is the first of the largest deltas.
LEMMA PeakIs ==
  ASSUME NEW s \in Seq(Int), Len(s) >= 5, NEW act
  PROVE  /\ Peak(s, act) \in Later(s)
         /\ \A j \in Later(s) : \/ Delta(s, j, act) < Delta(s, Peak(s, act), act)
                                \/ /\ Delta(s, j, act) = Delta(s, Peak(s, act), act)
                                   /\ Peak(s, act) <= j
<1> DEFINE n == Len(s)
           d == [i \in 1 .. n |-> Delta(s, i, act)]
           First(i) == \A j \in Later(s) :
                          Delta(s, j, act) < Delta(s, i, act)
                          \/ (Delta(s, j, act) = Delta(s, i, act) /\ i <= j)
           Best == {i \in Later(s) : \A j \in Later(s) : d[j] <= d[i]}
<1>1. n \in Nat /\ Later(s) \subseteq 1 .. n /\ 4 \in Later(s) /\ Later(s) \subseteq Nat
  BY DEF Later
<1>2. /\ \A i \in 1 .. n : d[i] = Delta(s, i, act) /\ Delta(s, i, act) \in Int
      /\ d \in [1 .. n -> Int]
  <2>1. Baseline(s) \in Int
    BY BaselineIs
  <2>2. \A i \in 1 .. n : s[i] \in Int
    BY Places
  <2> QED
    BY <2>1, <2>2 DEF Delta
<1> HIDE DEF d, n
<1>3. Best # {} /\ Best \subseteq Nat
  BY <1>1, <1>2, Largest
<1>4. PICK i \in Best : \A k \in Best : i <= k
  BY <1>3, Least
<1>5. ASSUME NEW j \in Later(s)
      PROVE  d[j] < d[i] \/ (d[j] = d[i] /\ i <= j)
  <2>1. d[j] \in Int /\ d[i] \in Int /\ d[j] <= d[i]
    BY <1>1, <1>2
  <2>2. CASE d[j] = d[i]
    <3>1. j \in Best
      BY <2>2
    <3> QED
      BY <1>4, <2>2, <3>1
  <2> QED
    BY <2>1, <2>2
<1>6. i \in Later(s) /\ First(i)
  BY <1>1, <1>2, <1>5
<1>7. Peak(s, act) = CHOOSE k \in Later(s) : First(k)
  BY DEF Peak
<1> HIDE DEF First
<1>8. Peak(s, act) \in Later(s) /\ First(Peak(s, act))
  BY <1>6, <1>7
<1> QED
  BY <1>8 DEF First

\* A delta that reaches the whole turn is worth the whole score.
LEMMA FullTurn ==
  ASSUME NEW d \in Int, NEW t \in Nat \ {0}, d >= t
  PROVE  LesserOf(100, (100 * d) \div t) = 100
<1>1. (100 * d) \div t \in Int /\ (100 * d) \div t >= 100
  <2> DEFINE q == (100 * d) \div t
  <2>1. q \in Int /\ 100 * d < q * t + t
    BY SMTT(30)
  <2> HIDE DEF q
  <2>2. CASE q <= 99
    <3>1. q * t <= 99 * t
      BY <2>1, <2>2, SMTT(30)
    <3>2. q * t \in Int
      BY <2>1
    <3> QED
      BY <2>1, <3>1, <3>2
  <2> QED
    BY <2>1, <2>2 DEF q
<1> QED
  BY <1>1 DEF LesserOf

\* score_turn accepts exactly the turns.
LEMMA TurnDecides ==
  ASSUME NEW s \in Seq(Int), NEW act
  PROVE  ScoreTurn(s, act) >= Moved <=> Len(s) >= 5 /\ Turned(s, act)
<1> USE VideoAssumption
<1>1. CASE Len(s) < 5
  BY <1>1, Places DEF ScoreTurn
<1>2. CASE Len(s) >= 5
  <2> DEFINE p == Peak(s, act)
             d == Delta(s, p, act)
             Near(j) == Magnitude(s[j] - Baseline(s)) <= Neutral
  <2>1. /\ p \in Later(s) /\ DOMAIN s = 1 .. Len(s) /\ Len(s) \in Nat
        /\ \A i \in Later(s) : Delta(s, i, act) \in Int
        /\ \A j \in Later(s) : \/ Delta(s, j, act) < d
                               \/ Delta(s, j, act) = d /\ p <= j
    <3>1. Baseline(s) \in Int /\ DOMAIN s = 1 .. Len(s) /\ \A i \in DOMAIN s : s[i] \in Int
      BY <1>2, BaselineIs, Places
    <3>2. Later(s) \subseteq DOMAIN s
      BY <3>1 DEF Later
    <3>3. \A i \in Later(s) : Delta(s, i, act) \in Int
      BY <3>1, <3>2 DEF Delta
    <3> QED
      BY <1>2, <3>1, <3>3, PeakIs, Places
  <2>2. ScoreTurn(s, act) = IF d >= Turn /\ \E j \in After(s, p) : Near(j)
                            THEN LesserOf(100, (100 * d) \div Turn) ELSE 0
    BY <1>2, <2>1 DEF ScoreTurn
  <2>3. Turned(s, act) <=> d >= Turn /\ \E j \in After(s, p) : Near(j)
    <3> HIDE DEF p
    <3>1. ASSUME Turned(s, act) PROVE d >= Turn /\ \E j \in After(s, p) : Near(j)
      <4>1. PICK i \in Later(s), j \in DOMAIN s :
               /\ i < j /\ Delta(s, i, act) >= Turn /\ Near(j)
               /\ \A k \in Later(s) : Delta(s, k, act) <= Delta(s, i, act)
        BY <3>1 DEF Turned
      <4>2. d <= Delta(s, i, act) /\ d \in Int /\ Delta(s, i, act) \in Int
        BY <2>1, <4>1
      <4> HIDE DEF d, Near
      <4>3. d = Delta(s, i, act) /\ p <= i
        BY <2>1, <4>2
      <4>4. j \in After(s, p)
        BY <2>1, <4>1, <4>3 DEF After, Later
      <4> QED
        BY <4>1, <4>3, <4>4
    <3>2. ASSUME d >= Turn, NEW j \in After(s, p), Near(j) PROVE Turned(s, act)
      <4>1. j \in DOMAIN s /\ p < j
        BY <2>1 DEF After, Later
      <4>2. \A k \in Later(s) : Delta(s, k, act) <= d
        BY <2>1
      <4> QED
        BY <2>1, <3>2, <4>1, <4>2 DEF Turned
    <3> QED
      BY <3>1, <3>2
  <2>4. d >= Turn => LesserOf(100, (100 * d) \div Turn) = 100
    <3>1. d \in Int
      BY <2>1
    <3> QED
      BY <3>1, FullTurn
  <2> HIDE DEF d, p, Near
  <2> QED
    BY <1>2, <2>2, <2>3, <2>4
<1> QED
  BY <1>1, <1>2, Places

\* The score of a blink whose eyes were open by b and least open by `least`.
BlinkScore(b, least) == LesserOf(100, (10000 * (b - least)) \div (b * (100 - Closed)))

\* An eye as closed as the setting asks is worth the whole score.
LEMMA FullBlink ==
  ASSUME NEW b \in Nat \ {0}, NEW e \in Nat, NEW least \in Nat, least <= e,
         100 * e <= Closed * b
  PROVE  BlinkScore(b, least) = 100
<1> USE VideoAssumption
<1> DEFINE t == b * (100 - Closed)
           c == Closed * b
<1>1. c \in Nat /\ t = 100 * b - c
  OBVIOUS
<1>2. t \in Nat \ {0}
  <2>1. 100 - Closed \in Nat /\ 100 - Closed > 0
    OBVIOUS
  <2> QED
    BY <2>1, SMTT(30)
<1>3. 100 * e <= c
  OBVIOUS
<1> HIDE DEF t, c
<1>4. 100 * (b - least) \in Int /\ 100 * (b - least) >= t
  BY <1>1, <1>3
<1>5. LesserOf(100, (100 * (100 * (b - least))) \div t) = 100
  BY <1>2, <1>4, FullTurn
<1>6. 10000 * (b - least) = 100 * (100 * (b - least))
  OBVIOUS
<1> QED
  BY <1>5, <1>6 DEF t, BlinkScore

\* score_blink accepts exactly the blinks.
LEMMA BlinkDecides ==
  ASSUME NEW s \in Seq(Nat)
  PROVE  ScoreBlink(s) >= Moved <=> Len(s) >= 5 /\ Blinked(s)
<1> USE VideoAssumption
<1> DEFINE b == Baseline(s)
           Shut == {i \in Later(s) : IsClosed(s, i)}
<1>1. Len(s) \in Nat /\ DOMAIN s = 1 .. Len(s) /\ \A i \in DOMAIN s : s[i] \in Nat
  OBVIOUS
<1>2. CASE Len(s) < 5
  BY <1>1, <1>2 DEF ScoreBlink
<1>3. CASE Len(s) >= 5 /\ b <= 0
  <2>1. b \in Nat
    BY <1>3, BaselineIs
  <2> QED
    BY <1>3, <2>1 DEF ScoreBlink, Blinked
<1>4. CASE Len(s) >= 5 /\ Shut = {}
  BY <1>4 DEF ScoreBlink, Blinked
<1>5. CASE Len(s) >= 5 /\ b > 0 /\ Shut # {}
  <2>1. b \in Nat \ {0}
    BY <1>5, BaselineIs
  <2>2. Shut \subseteq Nat /\ Shut \subseteq DOMAIN s /\ \A i \in Shut : i >= 4
    BY <1>1 DEF Later
  <2> DEFINE IsFirst(i) == IsClosed(s, i) /\ \A j \in 4 .. i - 1 : ~IsClosed(s, j)
             first == CHOOSE i \in Later(s) : IsFirst(i)
             rest == SubSeq(s, first, Len(s))
             least == Ranked(rest, 1)
             score == BlinkScore(b, least)
  <2>3. first \in Shut /\ \A i \in Shut : first <= i
    <3>1. PICK m \in Shut : \A k \in Shut : m <= k
      BY <1>5, <2>2, Least
    <3>2. IsFirst(m)
      <4>1. ASSUME NEW j \in 4 .. m - 1, IsClosed(s, j) PROVE FALSE
        <5>1. m \in Nat /\ m <= Len(s)
          BY <1>1, <2>2
        <5>2. j \in Later(s) /\ ~(m <= j)
          BY <1>1, <5>1 DEF Later
        <5> QED
          BY <3>1, <4>1, <5>2
      <4> QED
        BY <4>1
    <3>3. first \in Later(s) /\ IsFirst(first)
      <4> HIDE DEF IsFirst
      <4> QED
        BY <3>2
    <3> HIDE DEF first
    <3>4. ASSUME NEW i \in Shut, i < first PROVE FALSE
      <4>1. i \in 4 .. first - 1
        BY <2>2, <3>3, <3>4 DEF Later
      <4> QED
        BY <3>3, <4>1
    <3>5. first \in Nat /\ \A i \in Shut : i \in Nat
      BY <2>2, <3>3
    <3> QED
      BY <3>3, <3>4, <3>5
  <2> HIDE DEF first
  <2>4. least \in Nat /\ least <= s[first] /\ s[first] \in Nat
    <3>1. first \in 1 .. Len(s) /\ s[first] \in Nat
      BY <1>1, <2>2, <2>3
    <3>2. rest \in Seq(Nat) /\ Len(rest) = Len(s) - first + 1 /\ rest[1] = s[first]
      BY <1>1, <3>1
    <3> HIDE DEF rest
    <3>3. Len(rest) \in Nat /\ Len(rest) # 0 /\ 1 \in 1 .. Len(rest) /\ DOMAIN rest = 1 .. Len(rest)
      BY <1>1, <3>1, <3>2
    <3>4. rest \in Seq(Int) /\ \A i \in DOMAIN rest : rest[i] \in Nat
      BY <3>2, SeqOfInts
    <3>5. \E i \in DOMAIN rest : least = rest[i]
      BY <3>3, <3>4, RankedIs
    <3>6. least <= rest[1]
      BY <3>3, <3>4, RankedOne
    <3> QED
      BY <3>1, <3>2, <3>4, <3>5, <3>6
  <2>5. score = 100
    <3>1. 100 * s[first] <= Closed * b
      BY <2>3 DEF IsClosed
    <3> DEFINE e == s[first]
    <3>2. e \in Nat /\ least \in Nat /\ least <= e /\ 100 * e <= Closed * b /\ b \in Nat \ {0}
      BY <2>1, <2>4, <3>1
    <3> HIDE DEF least, b, e
    <3> QED
      BY <3>2, FullBlink
  <2>6. ScoreBlink(s) = IF \E j \in After(s, first) : IsReopened(s, j) THEN score ELSE 0
    <3>1. ~(Len(s) < 5 \/ Baseline(s) <= 0 \/ ~(\E i \in Later(s) : IsClosed(s, i)))
      BY <1>1, <1>5, <2>1
    <3>2. ScoreBlink(s) = IF \E j \in After(s, first) : IsReopened(s, j)
                          THEN LesserOf(100, (10000 * (b - least)) \div (b * (100 - Closed)))
                          ELSE 0
      BY ONLY <3>1, SMTT(60) DEF ScoreBlink, first
    <3> HIDE DEF least, b
    <3> QED
      BY <3>2 DEF BlinkScore
  <2>7. Blinked(s) <=> \E j \in After(s, first) : IsReopened(s, j)
    <3>1. ASSUME Blinked(s) PROVE \E j \in After(s, first) : IsReopened(s, j)
      <4>1. PICK i \in Later(s), j \in DOMAIN s : i < j /\ IsClosed(s, i) /\ IsReopened(s, j)
        BY <3>1 DEF Blinked
      <4>2. i \in Shut /\ first <= i /\ first \in Nat /\ i \in Nat /\ j \in Nat /\ j <= Len(s)
        BY <1>1, <2>2, <2>3, <4>1
      <4>3. j \in After(s, first)
        BY <1>1, <4>1, <4>2 DEF After
      <4> QED
        BY <4>1, <4>3
    <3>2. ASSUME NEW j \in After(s, first), IsReopened(s, j) PROVE Blinked(s)
      <4>1. first \in Nat /\ first \in Later(s) /\ IsClosed(s, first)
        BY <2>2, <2>3
      <4>2. j \in DOMAIN s /\ first < j
        BY <1>1, <4>1 DEF After
      <4> QED
        BY <1>5, <3>2, <4>1, <4>2 DEF Blinked
    <3> QED
      BY <3>1, <3>2
  <2> HIDE DEF score
  <2> QED
    BY <1>5, <2>5, <2>6, <2>7
<1> QED
  <2>1. Len(s) >= 5 => b \in Nat
    BY BaselineIs
  <2> QED
    BY <1>1, <1>2, <1>3, <1>4, <1>5, <2>1

-----------------------------------------------------------------------------
(* The passive score. *)

LEMMA Tenth ==
  ASSUME NEW m \in Nat
  PROVE  m \div 10 \in Nat /\ m % 10 \in 0 .. 9 /\ 10 * (m \div 10) <= m
  OBVIOUS

\* The percentile lies between two ranks, which are next to each other or the same.
LEMMA PercentileIs ==
  ASSUME NEW s \in Seq(Score), s # <<>>
  PROVE  \E part \in 0 .. 9, k, l \in 1 .. Len(s) :
            /\ k <= l /\ l <= (Len(s) - 1) \div 10 + 2
            /\ Percentile(s) = (10 - part) * Ranked(s, k) + part * Ranked(s, l)
<1> DEFINE n == Len(s)
           below == (n - 1) \div 10
           part == (n - 1) % 10
           top == LesserOf(below + 2, n)
<1>1. n \in Nat \ {0}
  OBVIOUS
<1>2. below \in Nat /\ part \in 0 .. 9 /\ 10 * below <= n - 1
  <2>1. n - 1 \in Nat
    BY <1>1
  <2> HIDE DEF n
  <2> QED
    BY <2>1, Tenth
<1>3. Percentile(s) = (10 - part) * Ranked(s, below + 1) + part * Ranked(s, top)
  BY DEF Percentile
<1> HIDE DEF below, part
<1>4. below + 1 \in 1 .. n /\ top \in 1 .. n /\ below + 1 <= top /\ top <= below + 2
  <2> HIDE DEF n
  <2> QED
    BY <1>1, <1>2 DEF LesserOf
<1> HIDE DEF top
<1> QED
  BY <1>2, <1>3, <1>4 DEF below

\* Scores are integers.
LEMMA ScoresAre ==
  ASSUME NEW s \in Seq(Score)
  PROVE  s \in Seq(Int) /\ \A i \in DOMAIN s : s[i] \in Int
<1>1. Score \in SUBSET Int
  BY VideoAssumption
<1> QED
  BY <1>1, SeqOfInts

LEMMA PercentileInt ==
  ASSUME NEW s \in Seq(Score), s # <<>>
  PROVE  Percentile(s) \in Int
<1>1. PICK part \in 0 .. 9, k, l \in 1 .. Len(s) :
         Percentile(s) = (10 - part) * Ranked(s, k) + part * Ranked(s, l)
  BY PercentileIs
<1>2. Ranked(s, k) \in Int /\ Ranked(s, l) \in Int
  BY ScoresAre, RankedIs
<1> QED
  BY <1>1, <1>2

\* A percentile as high as the threshold lies on a frame that is, with at most one
\* frame in ten, and one more, below.
LEMMA PercentileBounds ==
  ASSUME NEW s \in Seq(Score), s # <<>>, Percentile(s) >= 10 * Live
  PROVE  Cardinality({i \in DOMAIN s : s[i] < Live}) <= 1 + (Len(s) - 1) \div 10
<1>1. PICK part \in 0 .. 9, k, l \in 1 .. Len(s) :
         /\ k <= l /\ l <= (Len(s) - 1) \div 10 + 2
         /\ Percentile(s) = (10 - part) * Ranked(s, k) + part * Ranked(s, l)
  BY PercentileIs
<1> DEFINE a == Ranked(s, k)
           b == Ranked(s, l)
           Spoofed == {i \in DOMAIN s : s[i] < Live}
           Lower == {i \in DOMAIN s : s[i] < b}
<1>2. Live \in Nat /\ s \in Seq(Int) /\ \A i \in DOMAIN s : s[i] \in Int
  BY VideoAssumption, ScoresAre
<1>3. a \in Int /\ b \in Int /\ a <= b /\ Cardinality(Lower) < l
  BY <1>1, <1>2, RankedIs, RanksOrder
<1>4. IsFiniteSet(Lower) /\ Cardinality(Lower) \in Nat /\ Cardinality(Spoofed) \in Nat
  BY <1>2, Places
<1>5. (10 - part) * a + part * b >= 10 * Live
  BY <1>1
<1> HIDE DEF a, b
<1>6. b >= Live
  <2>1. part = 0 \/ part = 1 \/ part = 2 \/ part = 3 \/ part = 4
        \/ part = 5 \/ part = 6 \/ part = 7 \/ part = 8 \/ part = 9
    OBVIOUS
  <2> QED
    BY <1>2, <1>3, <1>5, <2>1
<1>7. Spoofed \subseteq Lower
  BY <1>2, <1>3, <1>6
<1>8. Cardinality(Spoofed) <= Cardinality(Lower)
  BY <1>4, <1>7, FS_Subset
<1>9. (Len(s) - 1) \div 10 \in Int /\ l \in Int
  <2>1. Len(s) - 1 \in Nat
    OBVIOUS
  <2> QED
    BY <2>1, Tenth
<1> HIDE DEF Lower
<1> QED
  BY <1>1, <1>3, <1>4, <1>8, <1>9

-----------------------------------------------------------------------------
(* Theorems. *)

\* The locals hold what the networks return, a motion and a score of each frame.
Typed ==
    /\ motion \in Seq(Int) /\ (action = "blink" => motion \in Seq(Nat))
    /\ passive \in Seq(Score)

IInv == Typed /\ VerdictIsRight /\ FewSpoofedFrames

LEMMA InitIInv == Init => IInv
  BY DEF Init, IInv, Typed, VerdictIsRight, FewSpoofedFrames, Judged

LEMMA NextTyped == Typed /\ [Next]_vars => Typed'
<1> SUFFICES ASSUME Typed, [Next]_vars PROVE Typed'
  OBVIOUS
<1> USE DEF Typed
<1>1. ASSUME NEW codes, Raise(codes) PROVE Typed'
  BY <1>1 DEF Raise
<1>2. ASSUME NEW m \in Values, NEW p \in Score, Sample(m, p) PROVE Typed'
  BY <1>2, VideoAssumption DEF Sample, Values
<1>3. ASSUME UNCHANGED <<action, motion, passive>> PROVE Typed'
  BY <1>3
<1> QED
  BY <1>1, <1>2, <1>3
  DEF Next, Reject, OpenVideo, Skip, RefuseFrame, TooLong, Judge, vars

\* What a verdict says of the frames it is made of.
LEMMA VerdictSays ==
  ASSUME Typed, passive # <<>>
  PROVE  /\ Verdict = "verified" <=>
               /\ Percentile(passive) >= 10 * Live
               /\ Len(motion) >= 5
               /\ IF action = "blink" THEN Blinked(motion) ELSE Turned(motion, action)
         /\ Verdict = "verified" =>
               Cardinality({i \in DOMAIN passive : passive[i] < Live})
                 <= 1 + (Len(passive) - 1) \div 10
<1>1. ScoreMotion >= Moved <=>
        /\ Len(motion) >= 5
        /\ IF action = "blink" THEN Blinked(motion) ELSE Turned(motion, action)
  BY TurnDecides, BlinkDecides DEF Typed, ScoreMotion
<1>2. ~(Percentile(passive) < 10 * Live) <=> Percentile(passive) >= 10 * Live
  BY PercentileInt, VideoAssumption DEF Typed
<1>3. Verdict = "verified" <=> Percentile(passive) >= 10 * Live /\ ScoreMotion >= Moved
  BY <1>2 DEF Verdict
<1>4. Verdict = "verified" => Cardinality({i \in DOMAIN passive : passive[i] < Live})
                                <= 1 + (Len(passive) - 1) \div 10
  BY <1>3, PercentileBounds DEF Typed
<1> QED
  BY <1>1, <1>3, <1>4

LEMMA NextIInv == IInv /\ [Next]_vars => IInv'
<1> SUFFICES ASSUME IInv, [Next]_vars PROVE IInv'
  OBVIOUS
<1>1. Typed' /\ Typed
  BY NextTyped DEF IInv
<1>2. ASSUME NEW codes, "verified" \notin codes, Raise(codes) PROVE IInv'
  BY <1>1, <1>2 DEF Raise, IInv, VerdictIsRight, FewSpoofedFrames, Judged
<1>3. ASSUME outcome' = "reading" PROVE IInv'
  BY <1>1, <1>3 DEF IInv, VerdictIsRight, FewSpoofedFrames, Judged
<1>4. CASE UNCHANGED vars
  BY <1>4 DEF IInv, Typed, VerdictIsRight, FewSpoofedFrames, Judged, vars
<1>5. CASE /\ outcome' = Verdict /\ Len(passive) >= MinFrames
           /\ UNCHANGED <<action, decoded, motion, passive>>
  <2>1. passive # <<>>
    BY <1>5, VideoAssumption
  <2>2. VerdictIsRight'
    BY <1>1, <1>5, <2>1, VerdictSays
    DEF VerdictIsRight, Blinked, Turned, IsClosed, IsReopened, Delta, Baseline
  <2>3. FewSpoofedFrames'
    BY <1>1, <1>5, <2>1, VerdictSays DEF FewSpoofedFrames
  <2> QED
    BY <1>1, <2>2, <2>3 DEF IInv
<1>6. CASE Reject \/ RefuseFrame \/ TooLong
  BY <1>2, <1>6 DEF Reject, RefuseFrame, TooLong, BadFrame
<1>7. CASE OpenVideo
  BY <1>2, <1>3, <1>7 DEF OpenVideo
<1>8. CASE Skip \/ \E m \in Values, p \in Score : Sample(m, p)
  BY <1>3, <1>8 DEF Skip, Sample, Readable
<1>9. CASE Judge
  BY <1>2, <1>5, <1>9 DEF Judge
<1> QED
  BY <1>4, <1>6, <1>7, <1>8, <1>9 DEF Next

THEOREM AlwaysIInv == Spec => []IInv
<1> QED
  BY InitIInv, NextIInv, PTL DEF Spec

\* A video is verified exactly when its motion is the one that was asked for and its
\* passive score suffices, however long it is and whatever the settings.
THEOREM VerdictsAreRight == Spec => []VerdictIsRight
<1>1. IInv => VerdictIsRight
  BY DEF IInv
<1> QED
  BY <1>1, AlwaysIInv, PTL

\* Of the frames of a verified video at most one in ten, and one more, look spoofed.
THEOREM FewAreSpoofed == Spec => []FewSpoofedFrames
<1>1. IInv => FewSpoofedFrames
  BY DEF IInv
<1> QED
  BY <1>1, AlwaysIInv, PTL
=============================================================================
