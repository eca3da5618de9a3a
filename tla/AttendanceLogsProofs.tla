------------------------- MODULE AttendanceLogsProofs -------------------------
(***************************************************************************)
(* Proofs about AttendanceLogs, for any number of verdicts, failures and   *)
(* filters, any size of a page, length of a day and local time.            *)
(***************************************************************************)
EXTENDS AttendanceLogs, FiniteSetTheorems, SequenceTheorems, TLAPS

-----------------------------------------------------------------------------
(* Arithmetic and counting. *)

\* The quotient of a natural number.
LEMMA Quotient ==
  ASSUME NEW a \in Nat, NEW d \in Nat \ {0}, NEW q \in Nat
  PROVE  a \div d = q <=> q * d <= a /\ a < q * d + d
  BY Z3T(30)

LEMMA QuotientNat ==
  ASSUME NEW a \in Nat, NEW d \in Nat \ {0}
  PROVE  /\ a \div d \in Nat
         /\ (a \div d) * d <= a /\ a < (a \div d) * d + d
  BY SMTT(30)

LEMMA MultipleOrder ==
  ASSUME NEW a \in Nat, NEW b \in Nat, NEW d \in Nat \ {0}, a * d < b * d + d
  PROVE  a <= b
  BY SMTT(30)

\* The pages hold all rows, no page is empty, and more rows have more pages.
LEMMA PagesNeeded ==
  ASSUME NEW n \in Nat
  PROVE  /\ TotalPages(n) \in Nat /\ n <= TotalPages(n) * Limit
         /\ \A m \in Nat : m <= n => TotalPages(m) <= TotalPages(n)
<1> USE LogAssumption
<1>1. \A m \in Nat : /\ TotalPages(m) \in Nat
                     /\ TotalPages(m) * Limit <= m + Limit - 1
                     /\ m + Limit - 1 < TotalPages(m) * Limit + Limit
  BY QuotientNat DEF TotalPages
<1>2. n <= TotalPages(n) * Limit
  BY <1>1
<1>3. ASSUME NEW m \in Nat, m <= n PROVE TotalPages(m) <= TotalPages(n)
  <2> DEFINE x == TotalPages(m) * Limit
             y == TotalPages(n) * Limit
  <2>1. /\ x \in Nat /\ y \in Nat /\ x <= m + Limit - 1
        /\ n + Limit - 1 < y + Limit
    BY <1>1
  <2> HIDE DEF x, y
  <2>2. x < y + Limit
    BY <1>3, <2>1
  <2> QED
    BY <1>1, <2>2, MultipleOrder DEF x, y
<1> QED
  BY <1>1, <1>2, <1>3

\* The two ways of saying that a row is of the day the totals are asked for.
LEMMA TodayIsSameDay ==
  ASSUME NEW r, r.stamp \in Nat, began \in Nat
  PROVE  Today(r) <=> SameDay(r.stamp, began)
  BY LogAssumption, Quotient, QuotientNat DEF Today, SameDay

LEMMA Smaller ==
  ASSUME NEW S, NEW T, IsFiniteSet(T), S \subseteq T
  PROVE  IsFiniteSet(S) /\ Cardinality(S) \in Nat /\ Cardinality(T) \in Nat
         /\ Cardinality(S) <= Cardinality(T)
  BY FS_Subset, FS_CardinalityType

\* A part of what was added is no more than what was added.
LEMMA Added ==
  ASSUME NEW S, NEW T, NEW U, IsFiniteSet(T), IsFiniteSet(U), S \subseteq T, T \ S \subseteq U
  PROVE  Cardinality(T) <= Cardinality(S) + Cardinality(U)
<1>1. IsFiniteSet(S) /\ Cardinality(S) \in Nat
  BY Smaller
<1>2. IsFiniteSet(T \ S) /\ Cardinality(T \ S) \in Nat /\ Cardinality(T \ S) <= Cardinality(U)
      /\ Cardinality(U) \in Nat
  BY Smaller
<1>3. S \cap (T \ S) = {} /\ S \cup (T \ S) = T
  OBVIOUS
<1>4. Cardinality(T) = Cardinality(S) + Cardinality(T \ S) - 0
  BY <1>1, <1>2, <1>3, FS_Union, FS_EmptySet
<1> QED
  BY <1>1, <1>2, <1>4

-----------------------------------------------------------------------------
(* What is invariant. *)

\* The rows ahead of r in the administrator's list, whatever order ties are given.
Ahead(r) == {s \in Found \ {r} : s.stamp >= r.stamp}

\* A row not shown yet is behind all pages shown, because new rows only push it
\* back; on the last page it would have to be behind rows the total does not count.
Walking ==
    /\ reader = "idle" => page = 1 /\ shown = {} /\ stats = <<>>
    /\ reader = "finding" /\ ~gap => total = Cardinality(Found)
    /\ reader \in {"asking", "finding"} =>
          \A r \in Selected(filter, before) :
             r \in shown \/ Tied(r) \/ Cardinality(Ahead(r)) >= (page - 1) * Limit
    /\ reader = "shown" =>
          \A r \in Selected(filter, before) :
             \/ r \in shown \/ Tied(r)
             \/ /\ Cardinality(Ahead(r)) >= page * Limit
                /\ gap \/ page * Limit < total

\* Each count is that of the rows at the beginning, and of rows logged since.
Counting ==
    /\ stats \in Seq(Nat)
    /\ reader = "counting" => Len(stats) < 4
    /\ reader = "told" => Len(stats) = 4
    /\ reader \in {"counting", "told"} =>
          \A i \in 1 .. Len(stats) :
             LET c == Cardinality(Counted(Counts[i], before))
             IN  /\ c <= stats[i]
                 /\ stats[i] <= c + Cardinality(rows \ before)

IInv == TypeOK /\ IsFiniteSet(rows) /\ Walking /\ Counting

-----------------------------------------------------------------------------
LEMMA InitIInv == Init => IInv
<1> SUFFICES ASSUME Init PROVE IInv
  OBVIOUS
<1> USE LogAssumption DEF Init
<1>1. IsFiniteSet(rows) /\ Cardinality(rows) = 0
  BY FS_EmptySet
<1>2. TypeOK
  <2>1. draft \in [Check -> Row] /\ writer \in [Check -> {"idle", "inserting", "answering"}]
    BY DEF Row
  <2>2. page \in 1 .. 1 + TotalPages(Cardinality(rows)) /\ total \in 0 .. Cardinality(rows)
    <3>1. TotalPages(Cardinality(rows)) \in Nat
      BY <1>1, PagesNeeded
    <3> QED
      BY <1>1, <3>1
  <2>3. stats \in UNION {[1 .. n -> 0 .. Cardinality(rows)] : n \in 0 .. 4}
    <3>1. stats \in [1 .. 0 -> 0 .. Cardinality(rows)]
      OBVIOUS
    <3> QED
      BY <3>1
  <2>4. now \in 0 .. MaxTime /\ began \in 0 .. MaxTime /\ fails \in 0 .. MaxFails
    OBVIOUS
  <2>5. /\ rows \subseteq Row /\ shown \subseteq rows /\ before \subseteq rows
        /\ filter \in Filters \cup {NoFilter} /\ gap \in BOOLEAN
        /\ reader \in {"idle", "asking", "finding", "shown", "counting", "told"}
    OBVIOUS
  <2> QED
    BY <2>1, <2>2, <2>3, <2>4, <2>5 DEF TypeOK
<1>3. Walking
  BY DEF Walking
<1>4. Counting
  BY DEF Counting
<1> QED
  BY <1>1, <1>2, <1>3, <1>4 DEF IInv

\* Rows are only added.
LEMMA RowsGrow ==
  ASSUME IInv, [Next]_vars
  PROVE  /\ rows \subseteq rows' /\ IsFiniteSet(rows') /\ rows' \subseteq Row
         /\ Cardinality(rows) \in Nat /\ Cardinality(rows') \in Nat
         /\ Cardinality(rows) <= Cardinality(rows')
         /\ TotalPages(Cardinality(rows)) <= TotalPages(Cardinality(rows'))
<1> USE DEF IInv
<1>1. rows' = rows \/ \E c \in Check : rows' = rows \cup {draft[c]}
  BY DEF Next, Tick, Log, Insert, InsertFails, BeginWalk, Count, Find, Aggregate, AskAgain,
         NextPage, BeginStats, CountStat, vars, writeVars
<1>2. rows \subseteq rows' /\ IsFiniteSet(rows') /\ rows' \subseteq Row
  <2>1. IsFiniteSet(rows) /\ \A c \in Check : IsFiniteSet(rows \cup {draft[c]})
    BY FS_AddElement
  <2>2. rows' \subseteq Row
    BY <1>1 DEF TypeOK
  <2> QED
    BY <1>1, <2>1, <2>2
<1>3. /\ Cardinality(rows) \in Nat /\ Cardinality(rows') \in Nat
      /\ Cardinality(rows) <= Cardinality(rows')
  BY <1>2, Smaller
<1> QED
  BY <1>2, <1>3, PagesNeeded

\* What the administrator is shown is among the rows her filter selects.
LEMMA PagesAreFound ==
  ASSUME IInv, NEW S \in Pages
  PROVE  S \subseteq Found /\ Found \subseteq rows
  BY DEF Pages, kSubset, Found, Selected

LEMMA FoundCounted ==
  ASSUME IInv
  PROVE  /\ IsFiniteSet(Found) /\ Found \subseteq rows
         /\ Cardinality(Found) \in 0 .. Cardinality(rows)
<1>1. Found \subseteq rows
  BY DEF Found, Selected
<1> QED
  BY <1>1, Smaller DEF IInv

\* Counts that were right stay right as rows are added.
LEMMA StatsType ==
  ASSUME NEW n \in Nat, NEW m \in Nat, n <= m,
         NEW x \in UNION {[1 .. k -> 0 .. n] : k \in 0 .. 4}
  PROVE  x \in UNION {[1 .. k -> 0 .. m] : k \in 0 .. 4}
<1>1. PICK k \in 0 .. 4 : x \in [1 .. k -> 0 .. n]
  OBVIOUS
<1>2. 0 .. n \subseteq 0 .. m
  OBVIOUS
<1>3. x \in [1 .. k -> 0 .. m]
  BY <1>1, <1>2
<1> QED
  BY <1>3

LEMMA NextTypeOK == IInv /\ [Next]_vars => TypeOK'
<1> SUFFICES ASSUME IInv, [Next]_vars PROVE TypeOK'
  OBVIOUS
<1> USE LogAssumption DEF writeVars, pageVars, statVars
<1>a. /\ rows \subseteq rows' /\ rows' \subseteq Row
      /\ Cardinality(rows) \in Nat /\ Cardinality(rows') \in Nat
      /\ Cardinality(rows) <= Cardinality(rows')
      /\ TotalPages(Cardinality(rows)) \in Nat /\ TotalPages(Cardinality(rows')) \in Nat
      /\ TotalPages(Cardinality(rows)) <= TotalPages(Cardinality(rows'))
  BY RowsGrow, PagesNeeded
<1>b. TypeOK
  BY DEF IInv
\* What only rows bound.
<1>c. ASSUME stats' = stats
      PROVE  stats' \in UNION {[1 .. n -> 0 .. Cardinality(rows')] : n \in 0 .. 4}
  BY <1>a, <1>b, <1>c, StatsType DEF TypeOK
<1>d. ASSUME page' = page PROVE page' \in 1 .. 1 + TotalPages(Cardinality(rows'))
  BY <1>a, <1>b, <1>d DEF TypeOK
<1>e. ASSUME total' = total PROVE total' \in 0 .. Cardinality(rows')
  BY <1>a, <1>b, <1>e DEF TypeOK
<1>1. CASE Tick
  BY <1>1, <1>a, <1>b, <1>c, <1>d, <1>e DEF Tick, TypeOK
<1>2. ASSUME NEW c \in Check, NEW v \in BOOLEAN, Log(c, v) PROVE TypeOK'
  BY <1>2, <1>a, <1>b, <1>c, <1>d, <1>e DEF Log, TypeOK, Row
<1>3. ASSUME NEW c \in Check, Insert(c) PROVE TypeOK'
  BY <1>3, <1>a, <1>b, <1>c, <1>d, <1>e DEF Insert, TypeOK
<1>4. ASSUME NEW c \in Check, InsertFails(c) PROVE TypeOK'
  BY <1>4, <1>a, <1>b, <1>c, <1>d, <1>e DEF InsertFails, TypeOK
<1>5. CASE BeginWalk
  BY <1>5, <1>a, <1>b, <1>c, <1>d, <1>e DEF BeginWalk, TypeOK
<1>6. CASE Count
  BY <1>6, <1>a, <1>b, <1>c, <1>d, FoundCounted DEF Count, TypeOK
<1>7. CASE Find
  BY <1>7, <1>a, <1>b, <1>c, <1>d, <1>e, PagesAreFound DEF Find, TypeOK
<1>8. CASE Aggregate
  BY <1>8, <1>a, <1>b, <1>c, <1>d, FoundCounted, PagesAreFound DEF Aggregate, TypeOK
<1>9. CASE AskAgain
  BY <1>9, <1>a, <1>b, <1>c, <1>d, <1>e DEF AskAgain, TypeOK
<1>10. CASE NextPage
  <2>1. page' \in 1 .. 1 + TotalPages(Cardinality(rows'))
    <3>1. total \in Nat /\ total <= Cardinality(rows) /\ page \in Nat
      BY <1>a, <1>b DEF TypeOK
    <3>2. TotalPages(total) \in Nat /\ TotalPages(total) <= TotalPages(Cardinality(rows))
      BY <1>a, <3>1, PagesNeeded
    <3>3. page < TotalPages(total) /\ page' = page + 1
      BY <1>10 DEF NextPage, HasNext
    <3> QED
      BY <1>a, <3>1, <3>2, <3>3
  <2> QED
    BY <1>10, <1>a, <1>b, <1>c, <1>e, <2>1 DEF NextPage, TypeOK
<1>11. CASE BeginStats
  BY <1>11, <1>a, <1>b, <1>c, <1>d, <1>e DEF BeginStats, TypeOK
<1>12. CASE CountStat
  <2>1. stats' \in UNION {[1 .. n -> 0 .. Cardinality(rows')] : n \in 0 .. 4}
    <3> DEFINE x == Cardinality(Counted(Counts[Len(stats) + 1], rows))
    <3>1. x \in 0 .. Cardinality(rows)
      BY Smaller DEF Counted, IInv
    <3>2. PICK n \in 0 .. 4 : stats \in [1 .. n -> 0 .. Cardinality(rows)]
      BY <1>b DEF TypeOK
    <3>3. n < 4
      BY <1>12, <3>2 DEF IInv, Counting, CountStat
    <3>4. stats' = Append(stats, x) /\ rows' = rows
      BY <1>12 DEF CountStat
    <3> HIDE DEF x
    <3>5. stats' \in [1 .. n + 1 -> 0 .. Cardinality(rows')]
      <4> DEFINE D == 0 .. Cardinality(rows)
      <4>1. x \in D /\ stats \in [1 .. n -> D] /\ n \in Nat
        BY <3>1, <3>2
      <4> HIDE DEF D
      <4>2. stats \in Seq(D) /\ Len(stats) = n
        BY <4>1
      <4>3. Append(stats, x) \in Seq(D) /\ Len(Append(stats, x)) = n + 1
        BY <4>1, <4>2, AppendProperties
      <4>4. Append(stats, x) \in [1 .. n + 1 -> D]
        BY <4>3, LenProperties
      <4> QED
        BY <3>4, <4>4 DEF D
    <3> QED
      BY <3>3, <3>5, SMTT(30)
  <2> QED
    BY <1>12, <1>a, <1>b, <1>d, <1>e, <2>1 DEF CountStat, TypeOK
<1>13. CASE UNCHANGED vars
  BY <1>13, <1>b DEF vars, TypeOK
<1> QED
  BY <1>1, <1>2, <1>3, <1>4, <1>5, <1>6, <1>7, <1>8, <1>9, <1>10, <1>11, <1>12, <1>13 DEF Next

\* A count is off by no more than the rows logged since the beginning.
LEMMA CountOff ==
  ASSUME IInv, NEW name
  PROVE  LET c == Cardinality(Counted(name, before))
             d == Cardinality(Counted(name, rows))
         IN  /\ c \in Nat /\ d \in Nat /\ c <= d /\ Cardinality(rows \ before) \in Nat
             /\ d <= c + Cardinality(rows \ before)
<1>1. before \subseteq rows /\ IsFiniteSet(rows)
  BY DEF IInv, TypeOK
<1>2. /\ Counted(name, before) \subseteq Counted(name, rows)
      /\ Counted(name, rows) \subseteq rows
      /\ Counted(name, rows) \ Counted(name, before) \subseteq rows \ before
  BY <1>1 DEF Counted
<1>3. IsFiniteSet(rows \ before) /\ Cardinality(rows \ before) \in Nat
  BY <1>1, Smaller
<1>4. IsFiniteSet(Counted(name, rows))
  BY <1>1, <1>2, Smaller
<1>5. /\ Cardinality(Counted(name, before)) \in Nat /\ Cardinality(Counted(name, rows)) \in Nat
      /\ Cardinality(Counted(name, before)) <= Cardinality(Counted(name, rows))
  BY <1>2, <1>4, Smaller
<1>6. Cardinality(Counted(name, rows))
        <= Cardinality(Counted(name, before)) + Cardinality(rows \ before)
  BY <1>2, <1>3, <1>4, Added
<1> QED
  BY <1>3, <1>5, <1>6

LEMMA NextCounting == IInv /\ [Next]_vars => Counting'
<1> SUFFICES ASSUME IInv, [Next]_vars PROVE Counting'
  OBVIOUS
<1> USE LogAssumption DEF writeVars, pageVars, statVars
<1>a. Counting
  BY DEF IInv
<1>b. /\ Cardinality(rows \ before) \in Nat
      /\ UNCHANGED before => /\ Cardinality(rows' \ before') \in Nat
                             /\ Cardinality(rows \ before) <= Cardinality(rows' \ before')
  <2>1. rows \subseteq rows' /\ IsFiniteSet(rows')
    BY RowsGrow
  <2>2. IsFiniteSet(rows \ before) /\ IsFiniteSet(rows' \ before)
        /\ rows \ before \subseteq rows' \ before
    BY <2>1, Smaller DEF IInv
  <2> QED
    BY <2>2, Smaller
<1>c. \A i \in 1 .. Len(stats) : Cardinality(Counted(Counts[i], before)) \in Nat
  BY CountOff
\* The counts are kept while rows are added.
<1>1. ASSUME UNCHANGED <<stats, before, began>>,
             reader' = reader \/ reader' \notin {"counting", "told"}
      PROVE  Counting'
  <2>1. ASSUME reader \in {"counting", "told"}, NEW i \in 1 .. Len(stats)
        PROVE  /\ Cardinality(Counted(Counts[i], before)) <= stats[i]
               /\ stats[i] <= Cardinality(Counted(Counts[i], before))
                                + Cardinality(rows' \ before')
    <3>1. /\ stats[i] \in Nat /\ Cardinality(Counted(Counts[i], before)) <= stats[i]
          /\ stats[i] <= Cardinality(Counted(Counts[i], before)) + Cardinality(rows \ before)
      <4>1. stats \in Seq(Nat)
        BY <1>a DEF Counting
      <4>2. stats[i] \in Nat
        BY <4>1, ElementOfSeq
      <4> QED
        BY <1>a, <2>1, <4>2 DEF Counting
    <3> QED
      BY <1>1, <1>b, <1>c, <3>1
  <2>2. \A i : Counted(Counts[i], before)' = Counted(Counts[i], before)
    BY <1>1 DEF Counted, Today, Counts
  <2> QED
    BY <1>1, <1>a, <2>1, <2>2 DEF Counting
<1>2. CASE BeginWalk
  BY <1>2, <1>a DEF BeginWalk, Counting
<1>3. CASE BeginStats
  BY <1>3, <1>a DEF BeginStats, Counting, IInv, Walking
<1>4. CASE CountStat
  <2> DEFINE d == Cardinality(Counted(Counts[Len(stats) + 1], rows))
  <2>1. /\ reader = "counting" /\ stats' = Append(stats, d)
        /\ reader' = IF Len(stats') = 4 THEN "told" ELSE "counting"
        /\ UNCHANGED <<rows, before, began>>
    BY <1>4 DEF CountStat, Counts
  <2>2. d \in Nat /\ stats \in Seq(Nat) /\ Len(stats) \in Nat /\ Len(stats) < 4
    BY <1>a, <2>1, CountOff DEF Counting
  <2> HIDE DEF d
  <2>3. /\ stats' \in Seq(Nat) /\ Len(stats') = Len(stats) + 1
        /\ \A i \in 1 .. Len(stats) : stats'[i] = stats[i]
        /\ stats'[Len(stats) + 1] = d
    BY <2>1, <2>2, AppendProperties
  <2>4. \A i : Counted(Counts[i], before)' = Counted(Counts[i], before)
    BY <2>1 DEF Counted, Today, Counts
  <2>5. ASSUME NEW i \in 1 .. Len(stats')
        PROVE  /\ Cardinality(Counted(Counts[i], before)) <= stats'[i]
               /\ stats'[i] <= Cardinality(Counted(Counts[i], before))
                                 + Cardinality(rows \ before)
    <3>1. CASE i \in 1 .. Len(stats)
      BY <1>a, <2>1, <2>3, <3>1 DEF Counting
    <3>2. CASE i = Len(stats) + 1
      BY <2>3, <3>2, CountOff DEF d
    <3> QED
      BY <2>2, <2>3, <3>1, <3>2
  <2>6. reader' = "counting" => Len(stats') < 4
    BY <2>1, <2>2, <2>3
  <2>7. reader' \in {"counting", "told"} /\ (reader' = "told" => Len(stats') = 4)
    BY <2>1
  <2> QED
    BY <2>1, <2>3, <2>4, <2>5, <2>6, <2>7 DEF Counting
<1>5. CASE UNCHANGED vars
  BY <1>1, <1>5 DEF vars
<1> QED
  BY <1>1, <1>2, <1>3, <1>4, <1>5
  DEF Next, Tick, Log, Insert, InsertFails, Count, Find, Aggregate, AskAgain, NextPage

\* The page that is shown takes in every row that had reached it.
LEMMA PageReached ==
  ASSUME IInv, NEW S \in Pages, NEW r \in Found, r \notin S, ~Tied(r),
         Cardinality(Ahead(r)) >= Skipped
  PROVE  /\ Cardinality(Ahead(r)) >= Skipped + Limit
         /\ Cardinality(Found) > Skipped + Limit
<1> USE LogAssumption
<1> DEFINE n == Cardinality(Found)
           above == LeastOf(Skipped, n)
           size == LeastOf(Limit, n - above)
<1>1. /\ IsFiniteSet(Found) /\ n \in Nat /\ Found \subseteq rows
      /\ \A s \in Found : s.stamp \in Nat
  <2>1. IsFiniteSet(Found) /\ n \in Nat /\ Found \subseteq rows
    BY FoundCounted
  <2>2. \A s \in rows : s.stamp \in Nat
    BY DEF IInv, TypeOK, Row
  <2> QED
    BY <2>1, <2>2
<1>2. PICK A \in kSubset(above, Found \ S) :
         Precede(A, Found \ A) /\ Precede(S, (Found \ A) \ S)
  BY DEF Pages
<1>3. /\ A \subseteq Found \ S /\ Cardinality(A) = above
      /\ S \subseteq Found /\ Cardinality(S) = size
  BY DEF Pages, kSubset
<1>4. page \in Nat \ {0} /\ Skipped \in Nat
  BY DEF IInv, TypeOK, Skipped
<1>5. IsFiniteSet(A) /\ IsFiniteSet(S) /\ IsFiniteSet(Ahead(r)) /\ IsFiniteSet(A \cup S)
  <2>1. Ahead(r) \subseteq Found /\ A \subseteq Found /\ A \cup S \subseteq Found
    BY <1>3 DEF Ahead
  <2> QED
    BY <1>1, <1>3, <2>1, Smaller
<1>6. \A s \in Found \ {r} : s.stamp # r.stamp
  BY <1>1 DEF Tied
<1>7. r \notin A
  <2> SUFFICES ASSUME r \in A PROVE FALSE
    OBVIOUS
  <2>1. Ahead(r) \subseteq A \ {r}
    <3> SUFFICES ASSUME NEW s \in Ahead(r), s \notin A PROVE FALSE
      BY DEF Ahead
    <3>1. s \in Found \ A /\ s.stamp >= r.stamp /\ s # r
      BY DEF Ahead
    <3>2. r.stamp >= s.stamp
      BY <1>2, <3>1 DEF Precede
    <3> QED
      BY <1>1, <1>6, <3>1, <3>2
  <2>2. Cardinality(A \ {r}) = Cardinality(A) - 1 /\ IsFiniteSet(A \ {r})
    BY <1>5, FS_RemoveElement
  <2>3. Cardinality(Ahead(r)) \in Nat /\ Cardinality(Ahead(r)) <= Cardinality(A) - 1
    BY <2>1, <2>2, Smaller
  <2>4. above <= Skipped
    BY <1>1, <1>4 DEF LeastOf
  <2>5. Cardinality(A) \in Nat
    BY <1>5, Smaller
  <2> QED
    BY <1>3, <1>4, <2>3, <2>4, <2>5
<1>8. A \cup S \subseteq Ahead(r)
  <2>1. r \in Found \ A /\ r \in (Found \ A) \ S
    BY <1>7
  <2> QED
    BY <1>2, <1>3, <2>1 DEF Precede, Ahead
<1>9. Cardinality(A \cup S) = above + size
  <2>1. A \cap S = {}
    BY <1>3
  <2>2. Cardinality(A \cup S) = Cardinality(A) + Cardinality(S) - 0
    BY <1>5, <2>1, FS_Union, FS_EmptySet
  <2>3. Cardinality(A) \in Nat /\ Cardinality(S) \in Nat
    BY <1>5, Smaller
  <2> QED
    BY <1>3, <2>2, <2>3
<1>10. /\ Cardinality(Ahead(r)) \in Nat /\ Cardinality(A \cup S) \in Nat
       /\ Cardinality(A \cup S) <= Cardinality(Ahead(r))
  BY <1>5, <1>8, Smaller
<1>11. Cardinality(Ahead(r)) < n
  <2>1. Ahead(r) \subseteq Found \ {r}
    BY DEF Ahead
  <2>2. Cardinality(Found \ {r}) = n - 1 /\ IsFiniteSet(Found \ {r})
    BY <1>1, FS_RemoveElement
  <2>3. Cardinality(Ahead(r)) <= n - 1
    BY <2>1, <2>2, Smaller
  <2> QED
    BY <1>1, <1>10, <2>3
<1>12. above + size < n
  BY <1>1, <1>9, <1>10, <1>11
<1>13. above + size = Skipped + Limit
  BY <1>1, <1>4, <1>12 DEF LeastOf
<1> QED
  BY <1>1, <1>4, <1>9, <1>10, <1>11, <1>13

\* A row falls back as rows are added, never forward, and stays tied.
LEMMA FallsBack ==
  ASSUME IInv, [Next]_vars, filter' = filter, NEW r
  PROVE  /\ Cardinality(Ahead(r)) \in Nat /\ Cardinality(Ahead(r))' \in Nat
         /\ Cardinality(Ahead(r)) <= Cardinality(Ahead(r))'
         /\ Tied(r) => Tied(r)'
<1>1. rows \subseteq rows' /\ IsFiniteSet(rows')
  BY RowsGrow
<1>2. Found \subseteq Found' /\ Found' \subseteq rows'
  <2>1. \A q : InDates(filter, q)' = InDates(filter, q) /\ InCalendar(filter, q)' = InCalendar(filter, q)
    BY DEF InDates, InCalendar, Holds
  <2> QED
    BY <1>1, <2>1 DEF Found, Selected, Holds
<1>3. Ahead(r) \subseteq Ahead(r)' /\ Ahead(r)' \subseteq rows'
  BY <1>2 DEF Ahead
<1>4. IsFiniteSet(Ahead(r)')
  BY <1>1, <1>3, Smaller
<1>5. /\ Cardinality(Ahead(r)) \in Nat /\ Cardinality(Ahead(r)') \in Nat
      /\ Cardinality(Ahead(r)) <= Cardinality(Ahead(r)')
  BY <1>3, <1>4, Smaller
<1>6. Tied(r) => Tied(r)'
  BY <1>1 DEF Tied
<1> QED
  BY <1>5, <1>6

\* A row the filter selects of those at the beginning is still found.
LEMMA StillFound ==
  ASSUME IInv, NEW r \in Selected(filter, before)
  PROVE  r \in Found
  BY DEF IInv, TypeOK, Selected, Found

\* A page is shown, with a total that counted everything found, or with a gap.
LEMMA ShowsPage ==
  ASSUME IInv, reader \in {"asking", "finding"}, reader' = "shown",
         NEW S \in Pages, shown' = shown \cup S,
         UNCHANGED <<now, rows, filter, page, before, stats>>,
         gap' \/ total' = Cardinality(Found)
  PROVE  Walking'
<1> USE LogAssumption
<1>1. page \in Nat \ {0} /\ total \in Nat /\ Cardinality(Found) \in Nat
  BY FoundCounted DEF IInv, TypeOK
<1>2. Skipped = (page - 1) * Limit /\ Skipped \in Nat /\ Skipped + Limit = page * Limit
  BY <1>1 DEF Skipped
<1>3. ASSUME NEW r \in Selected(filter, before)
      PROVE  \/ r \in shown' \/ Tied(r)
             \/ /\ Cardinality(Ahead(r)) >= page * Limit
                /\ gap' \/ page * Limit < total'
  <2>1. CASE r \in shown \/ r \in S \/ Tied(r)
    BY <2>1
  <2>2. CASE r \notin shown /\ r \notin S /\ ~Tied(r)
    <3>1. r \in Found /\ Cardinality(Ahead(r)) >= Skipped
      BY <1>2, <2>2, StillFound DEF IInv, Walking
    <3>2. Cardinality(Ahead(r)) >= Skipped + Limit /\ Cardinality(Found) > Skipped + Limit
      BY <2>2, <3>1, PageReached
    <3> QED
      BY <1>1, <1>2, <3>2
  <2> QED
    BY <2>1, <2>2
<1>4. \A f, T, q : Selected(f, T)' = Selected(f, T) /\ Tied(q)' = Tied(q) /\ Ahead(q)' = Ahead(q)
  BY DEF Selected, Tied, Ahead, Found, InDates, InCalendar, Holds
<1> QED
  BY <1>3, <1>4 DEF Walking

LEMMA NextWalking == IInv /\ [Next]_vars => Walking'
<1> SUFFICES ASSUME IInv, [Next]_vars PROVE Walking'
  OBVIOUS
<1> USE LogAssumption DEF writeVars, pageVars, statVars
<1>a. Walking /\ page \in Nat \ {0} /\ page * Limit \in Nat /\ (page - 1) * Limit \in Nat
  BY DEF IInv, TypeOK
<1>s. UNCHANGED <<filter, before>> => Selected(filter, before)' = Selected(filter, before)
  BY DEF Selected, InDates, InCalendar, Holds
<1>c. ASSUME filter' = filter, shown' = shown, NEW r, NEW x \in Nat,
             r \in shown \/ Tied(r) \/ Cardinality(Ahead(r)) >= x
      PROVE  r \in shown' \/ Tied(r)' \/ Cardinality(Ahead(r))' >= x
  BY <1>c, FallsBack
\* The administrator rests while rows are added.
<1>1. ASSUME UNCHANGED <<filter, page, total, shown, before, stats, reader>>,
             reader = "finding" => gap' \/ (gap' = gap /\ rows' = rows),
             reader = "shown" => gap' = gap
      PROVE  Walking'
  <2>1. CASE reader \in {"asking", "finding"}
    <3>1. ~gap' /\ reader = "finding" => total' = Cardinality(Found)'
      BY <1>1, <1>a DEF Walking, Found, Selected, InDates, InCalendar, Holds
    <3>2. \A r \in Selected(filter, before)' :
             r \in shown' \/ Tied(r)' \/ Cardinality(Ahead(r))' >= (page' - 1) * Limit
      BY <1>1, <1>a, <1>c, <1>s, <2>1 DEF Walking
    <3> QED
      BY <1>1, <2>1, <3>1, <3>2 DEF Walking
  <2>2. CASE reader = "shown"
    <3>1. ASSUME NEW r \in Selected(filter, before)', r \notin shown', ~Tied(r)'
          PROVE  /\ Cardinality(Ahead(r))' >= page' * Limit
                 /\ gap' \/ page' * Limit < total'
      <4>1. r \in Selected(filter, before) /\ r \notin shown /\ ~Tied(r)
        BY <1>1, <1>s, <3>1, FallsBack
      <4>2. Cardinality(Ahead(r)) >= page * Limit /\ (gap \/ page * Limit < total)
        BY <1>a, <2>2, <4>1 DEF Walking
      <4> QED
        BY <1>1, <1>a, <2>2, <4>2, FallsBack
    <3> QED
      BY <1>1, <2>2, <3>1 DEF Walking
  <2>3. CASE reader \notin {"asking", "finding", "shown"}
    BY <1>1, <1>a, <2>3 DEF Walking
  <2> QED
    BY <2>1, <2>2, <2>3
<1>2. CASE Tick \/ \E c \in Check : (\E v \in BOOLEAN : Log(c, v)) \/ InsertFails(c)
  BY <1>1, <1>2 DEF Tick, Log, InsertFails
<1>3. ASSUME NEW c \in Check, Insert(c) PROVE Walking'
  <2>1. gap \in BOOLEAN
    BY DEF IInv, TypeOK
  <2>2. reader = "finding" => gap'
    BY <1>3 DEF Insert
  <2>3. reader = "shown" => gap' = gap
    BY <1>3, <2>1 DEF Insert
  <2> QED
    BY <1>1, <1>3, <2>2, <2>3 DEF Insert
<1>4. CASE BeginWalk
  <2>1. /\ reader' = "asking" /\ page' = 1 /\ rows' = rows
    BY <1>4, <1>a DEF BeginWalk, Walking
  <2>2. ASSUME NEW r PROVE Cardinality(Ahead(r))' >= 0
    <3>1. Ahead(r)' \subseteq rows
      BY <2>1 DEF Ahead, Found, Selected
    <3> QED
      BY <3>1, Smaller DEF IInv
  <2>3. (page' - 1) * Limit = 0
    BY <2>1
  <2> QED
    BY <2>1, <2>2, <2>3 DEF Walking
<1>5. CASE Count
  <2>1. /\ reader = "asking" /\ reader' = "finding" /\ total' = Cardinality(Found)
        /\ UNCHANGED <<rows, filter, page, shown, before>>
    BY <1>5 DEF Count
  <2>2. Found' = Found
    BY <2>1 DEF Found, Selected, InDates, InCalendar, Holds
  <2>3. \A r \in Selected(filter, before)' :
           r \in shown' \/ Tied(r)' \/ Cardinality(Ahead(r))' >= (page' - 1) * Limit
    BY <1>a, <1>c, <1>s, <2>1 DEF Walking
  <2> QED
    BY <2>1, <2>2, <2>3 DEF Walking
<1>6. CASE Find
  <2>1. gap' \/ total' = Cardinality(Found)
    BY <1>6, <1>a DEF Find, Walking
  <2> QED
    BY <1>6, <2>1, ShowsPage DEF Find
<1>7. CASE Aggregate
  BY <1>7, ShowsPage DEF Aggregate
<1>8. CASE AskAgain
  <2>1. /\ reader \in {"asking", "finding"} /\ reader' = "asking"
        /\ UNCHANGED <<filter, page, shown, before>>
    BY <1>8 DEF AskAgain
  <2>2. \A r \in Selected(filter, before)' :
           r \in shown' \/ Tied(r)' \/ Cardinality(Ahead(r))' >= (page' - 1) * Limit
    BY <1>a, <1>c, <1>s, <2>1 DEF Walking
  <2> QED
    BY <2>1, <2>2 DEF Walking
<1>9. CASE NextPage
  <2>1. /\ reader = "shown" /\ reader' = "asking" /\ page' = page + 1
        /\ UNCHANGED <<filter, shown, before>>
    BY <1>9 DEF NextPage
  <2>2. (page' - 1) * Limit = page * Limit
    BY <1>a, <2>1
  <2>3. \A r \in Selected(filter, before) :
           r \in shown \/ Tied(r) \/ Cardinality(Ahead(r)) >= page * Limit
    BY <1>a, <2>1 DEF Walking
  <2>4. \A r \in Selected(filter, before)' :
           r \in shown' \/ Tied(r)' \/ Cardinality(Ahead(r))' >= (page' - 1) * Limit
    BY <1>a, <1>c, <1>s, <2>1, <2>2, <2>3
  <2> QED
    BY <2>1, <2>4 DEF Walking
<1>10. CASE BeginStats \/ CountStat
  BY <1>10 DEF BeginStats, CountStat, Walking
<1>11. CASE UNCHANGED vars
  BY <1>1, <1>11 DEF vars
<1> QED
  BY <1>2, <1>3, <1>4, <1>5, <1>6, <1>7, <1>8, <1>9, <1>10, <1>11 DEF Next

THEOREM AlwaysIInv == Spec => []IInv
<1>1. IInv /\ [Next]_vars => IInv'
  BY NextTypeOK, NextWalking, NextCounting, RowsGrow DEF IInv
<1> QED
  BY InitIInv, <1>1, PTL DEF Spec

\* Every variable keeps its type, and no page is asked for beyond the last one.
THEOREM TypeCorrect == Spec => []TypeOK
<1>1. IInv => TypeOK
  BY DEF IInv
<1> QED
  BY <1>1, AlwaysIInv, PTL

\* Whoever pages to the end has seen every row her filter selects of those that were
\* there when she began, but for rows of the same millisecond and for a row logged
\* between the count and the find of the last page.
THEOREM PagesMissNothing == Spec => []PagesShowAll
<1>1. IInv => PagesShowAll
  <2> SUFFICES ASSUME IInv, AtEnd, NEW r \in Selected(filter, before),
                      r \notin shown, ~Tied(r), ~gap
               PROVE  FALSE
    BY DEF PagesShowAll
  <2>1. page * Limit < total
    BY DEF IInv, Walking, AtEnd
  <2>2. page \in Nat \ {0} /\ total \in Nat
    BY FoundCounted DEF IInv, TypeOK
  <2>3. TotalPages(total) \in Nat /\ total <= TotalPages(total) * Limit
    BY <2>2, PagesNeeded
  <2>4. ~(page < TotalPages(total))
    BY DEF AtEnd, HasNext
  <2>5. TotalPages(total) * Limit <= page * Limit
    BY <2>2, <2>3, <2>4, LogAssumption
  <2> QED
    BY <2>1, <2>2, <2>3, <2>5, LogAssumption
<1> QED
  BY <1>1, AlwaysIInv, PTL

\* Rows are verified or not.
LEMMA Parts ==
  ASSUME NEW S, IsFiniteSet(S)
  PROVE  /\ Cardinality({r \in S : r.verified}) \in Nat
         /\ Cardinality(Unverified(S)) \in Nat
         /\ Cardinality(S) = Cardinality({r \in S : r.verified}) + Cardinality(Unverified(S))
<1> DEFINE V == {r \in S : r.verified}
<1>1. V \subseteq S /\ Unverified(S) \subseteq S /\ V \cup Unverified(S) = S
      /\ V \cap Unverified(S) = {}
  BY DEF Unverified
<1> HIDE DEF V
<1>2. IsFiniteSet(V) /\ IsFiniteSet(Unverified(S))
      /\ Cardinality(V) \in Nat /\ Cardinality(Unverified(S)) \in Nat
  BY <1>1, Smaller
<1>3. Cardinality(S) = Cardinality(V) + Cardinality(Unverified(S)) - 0
  BY <1>1, <1>2, FS_Union, FS_EmptySet
<1> QED
  BY <1>2, <1>3 DEF V

\* The failures computed from four separate counts are off by no more than the rows
\* logged meanwhile.
THEOREM TotalsAreClose == Spec => []StatsOff
<1>1. IInv => StatsOff
  <2> SUFFICES ASSUME IInv, reader = "told"
               PROVE  LET logged == Cardinality(rows \ before)
                      IN /\ Distance(stats[1] - stats[2], Cardinality(Unverified(before))) <= logged
                         /\ Distance(stats[3] - stats[4],
                              Cardinality({r \in Unverified(before) : SameDay(r.stamp, began)}))
                                <= logged
    BY DEF StatsOff
  <2> DEFINE logged == Cardinality(rows \ before)
             C(i) == Cardinality(Counted(Counts[i], before))
             today == {r \in before : Today(r)}
  <2>1. before \subseteq rows /\ IsFiniteSet(before) /\ IsFiniteSet(today) /\ logged \in Nat
    <3>1. before \subseteq rows /\ rows \ before \subseteq rows
      BY DEF IInv, TypeOK
    <3>2. today \subseteq rows
      BY <3>1
    <3> QED
      BY <3>1, <3>2, Smaller DEF IInv
  <2>2. \A i \in 1 .. 4 : /\ stats[i] \in Nat /\ C(i) \in Nat
                          /\ C(i) <= stats[i] /\ stats[i] <= C(i) + logged
    <3>1. stats \in Seq(Nat) /\ Len(stats) = 4
      BY DEF IInv, Counting
    <3>2. \A i \in 1 .. 4 : stats[i] \in Nat
      BY <3>1, ElementOfSeq
    <3> QED
      BY <3>1, <3>2, CountOff DEF IInv, Counting
  <2>3. /\ Counted(Counts[1], before) = before
        /\ Counted(Counts[2], before) = {r \in before : r.verified}
        /\ Counted(Counts[3], before) = today
        /\ Counted(Counts[4], before) = {r \in today : r.verified}
    BY DEF Counted, Counts
  <2>4. Unverified(today) = {r \in Unverified(before) : SameDay(r.stamp, began)}
    <3>1. \A r \in before : r.stamp \in Nat
      BY DEF IInv, TypeOK, Row
    <3>2. began \in Nat
      BY DEF IInv, TypeOK
    <3> QED
      BY <3>1, <3>2, TodayIsSameDay DEF Unverified
  <2>5. /\ C(1) = C(2) + Cardinality(Unverified(before))
        /\ Cardinality(Unverified(before)) \in Nat
    BY <2>1, <2>3, Parts
  <2>6. C(3) = C(4) + Cardinality(Unverified(today)) /\ Cardinality(Unverified(today)) \in Nat
    BY <2>1, <2>3, Parts
  <2> HIDE DEF logged, C, today
  <2>7. Distance(stats[1] - stats[2], Cardinality(Unverified(before))) <= logged
    <3>1. /\ stats[1] \in Nat /\ C(1) \in Nat
          /\ C(1) <= stats[1] /\ stats[1] <= C(1) + logged
      BY <2>2
    <3>2. /\ stats[2] \in Nat /\ C(2) \in Nat
          /\ C(2) <= stats[2] /\ stats[2] <= C(2) + logged
      BY <2>2
    <3> QED
      BY <2>1, <3>1, <3>2, <2>5 DEF Distance
  <2>8. Distance(stats[3] - stats[4], Cardinality(Unverified(today))) <= logged
    <3>1. /\ stats[3] \in Nat /\ C(3) \in Nat
          /\ C(3) <= stats[3] /\ stats[3] <= C(3) + logged
      BY <2>2
    <3>2. /\ stats[4] \in Nat /\ C(4) \in Nat
          /\ C(4) <= stats[4] /\ stats[4] <= C(4) + logged
      BY <2>2
    <3> QED
      BY <2>1, <3>1, <3>2, <2>6 DEF Distance
  <2> QED
    BY <2>4, <2>7, <2>8 DEF logged
<1> QED
  BY <1>1, AlwaysIInv, PTL
=============================================================================
