------------------------- MODULE CandleWindows_proofs -------------------------
(***************************************************************************)
(* Proofs about CandleWindows: what a verified watermark says, for any      *)
(* length of a day and any stored candles.                                 *)
(***************************************************************************)
EXTENDS CandleWindows, FiniteSetTheorems, WellFoundedInduction, TLAPS

LEMMA PositiveDay == DayBars \in Nat \ {0}
BY WindowAssumption DEF WindowAssumption

-----------------------------------------------------------------------------
(* Minima and maxima.                                                      *)

LEMMA LeastOf ==
    ASSUME NEW S \in SUBSET Nat, S # {}
    PROVE  Min(S) \in S /\ \A x \in S : Min(S) <= x
<1>1. \E x \in S : \A y \in S : ~ (<<y, x>> \in OpToRel(<, Nat))
  BY WFMin, NatLessThanWellFounded
<1>2. PICK x \in S : \A y \in S : ~ (y < x)
  BY <1>1 DEF OpToRel
<1>3. \A y \in S : x <= y
  BY <1>2
<1> QED BY <1>3 DEF Min

LEMMA GreatestOf ==
    ASSUME NEW n \in Nat, NEW S \in SUBSET (-1 .. n), S # {}
    PROVE  Max(S) \in S /\ \A x \in S : x <= Max(S)
<1> DEFINE T == {n - x : x \in S}
<1>0. \A x \in S : x \in Int /\ x <= n /\ n - x \in Nat
  OBVIOUS
<1>1. T \in SUBSET Nat /\ T # {}
  BY <1>0
<1>2. Min(T) \in T /\ \A x \in T : Min(T) <= x
  <2> HIDE DEF T
  <2> QED BY <1>1, LeastOf
<1>3. PICK m \in S : Min(T) = n - m
  BY <1>2
<1>4. \A y \in S : y <= m
  <2> TAKE y \in S
  <2>1. n - y \in T /\ n - m <= n - y
    BY <1>2, <1>3
  <2> QED BY <1>0, <2>1
<1> QED BY <1>4 DEF Max

LEMMA MinOfTwo ==
    ASSUME NEW a \in Int, NEW b \in Int
    PROVE  Min({a, b}) = IF a <= b THEN a ELSE b
<1>1. \E x \in {a, b} : \A y \in {a, b} : x <= y
  OBVIOUS
<1>2. Min({a, b}) \in {a, b} /\ Min({a, b}) <= a /\ Min({a, b}) <= b
  BY <1>1 DEF Min
<1> QED BY <1>2

LEMMA MaxOfTwo ==
    ASSUME NEW a \in Int, NEW b \in Int
    PROVE  Max({a, b}) = IF a >= b THEN a ELSE b
<1>1. \E x \in {a, b} : \A y \in {a, b} : x >= y
  OBVIOUS
<1>2. Max({a, b}) \in {a, b} /\ Max({a, b}) >= a /\ Max({a, b}) >= b
  BY <1>1 DEF Max
<1> QED BY <1>2

-----------------------------------------------------------------------------
(* Days.                                                                   *)

LEMMA NextDay ==
    ASSUME NEW d \in Int
    PROVE  DayStart(d) \in Int /\ DayStart(d + 1) = DayStart(d) + DayBars
BY PositiveDay DEF DayStart

LEMMA DaysInOrder ==
    ASSUME NEW m \in Int, NEW n \in Int, m <= n
    PROVE  DayStart(m) <= DayStart(n)
<1>1. PICK k \in Nat : n = m + k
  BY n - m \in Nat, n = m + (n - m)
<1>2. k * DayBars \in Nat
  BY PositiveDay
<1>3. (m + k) * DayBars = m * DayBars + k * DayBars
  BY PositiveDay
<1>4. m * DayBars \in Int
  BY PositiveDay
<1> QED BY <1>1, <1>2, <1>3, <1>4 DEF DayStart

LEMMA WithinDay ==
    ASSUME NEW s \in Int
    PROVE  DayOf(s) \in Int /\ DayStart(DayOf(s)) <= s /\ s < DayStart(DayOf(s) + 1)
<1> DEFINE d == s \div DayBars
<1>1. /\ d \in Int /\ s % DayBars \in 0 .. DayBars - 1
      /\ s = DayBars * d + (s % DayBars)
  BY PositiveDay
<1>2. DayStart(d) = DayBars * d
  BY <1>1, PositiveDay DEF DayStart
<1>3. DayStart(d + 1) = DayStart(d) + DayBars /\ DayStart(d) \in Int
  BY <1>1, NextDay
<1> HIDE DEF d
<1>4. DayStart(d) <= s /\ s < DayStart(d) + DayBars
  BY <1>1, <1>2, <1>3, PositiveDay
<1> QED BY <1>1, <1>3, <1>4 DEF d, DayOf

LEMMA OnlyDay ==
    ASSUME NEW s \in Int, NEW d \in Int, DayStart(d) <= s, s < DayStart(d + 1)
    PROVE  DayOf(s) = d
<1> DEFINE e == DayOf(s)
<1>1. e \in Int /\ DayStart(e) <= s /\ s < DayStart(e + 1)
  BY WithinDay
<1>2. DayStart(e) \in Int /\ DayStart(e + 1) \in Int /\ DayStart(d) \in Int /\ DayStart(d + 1) \in Int
  BY <1>1, NextDay, PositiveDay
<1> HIDE DEF e
<1>3. ~ (e + 1 <= d)
  BY <1>1, <1>2, DaysInOrder
<1>4. ~ (d + 1 <= e)
  BY <1>1, <1>2, DaysInOrder
<1>5. e = d
  BY <1>1, <1>3, <1>4
<1> QED BY <1>5 DEF e

LEMMA DayOfInOrder ==
    ASSUME NEW a \in Int, NEW b \in Int, a <= b
    PROVE  DayOf(a) <= DayOf(b)
<1> DEFINE d == DayOf(a)
           e == DayOf(b)
<1>1. /\ d \in Int /\ DayStart(d) <= a /\ a < DayStart(d + 1)
      /\ e \in Int /\ DayStart(e) <= b /\ b < DayStart(e + 1)
  BY WithinDay
<1>2. DayStart(d) \in Int /\ DayStart(e + 1) \in Int
  BY <1>1, NextDay, PositiveDay
<1> HIDE DEF d, e
<1>3. ~ (e + 1 <= d)
  BY <1>1, <1>2, DaysInOrder
<1>4. d <= e
  BY <1>1, <1>3
<1> QED BY <1>4 DEF d, e

-----------------------------------------------------------------------------
(* Complete days.                                                          *)

\* The end of a day is in the day, unless the range has ended before.
LEMMA EndOfDay ==
    ASSUME NEW d \in Int, NEW end \in Int
    PROVE  /\ DayEnd(d, end) \in Int
           /\ DayEnd(d, end) <= end /\ DayEnd(d, end) <= DayStart(d + 1)
           /\ \A s \in Int : s < end /\ s < DayStart(d + 1) => s < DayEnd(d, end)
<1>1. DayStart(d + 1) \in Int
  BY NextDay, PositiveDay
<1>2. DayEnd(d, end) = IF DayStart(d + 1) <= end THEN DayStart(d + 1) ELSE end
  BY <1>1, MinOfTwo DEF DayEnd
<1> QED BY <1>1, <1>2

\* Nothing that is stored is older than a listing time.
Listed(have, lt) == lt \in SUBSET Nat /\ \A s \in have, t \in lt : t <= s

\* The count of a day starts in the day, and either at its start or at a slot
\* below which nothing is stored.
LEMMA BaseOfDay ==
    ASSUME NEW have \in SUBSET Nat, NEW d \in Int, NEW end \in Int, NEW lt, Listed(have, lt),
           DayStart(d) < end
    PROVE  LET b == Base(have, d, end, lt)
           IN  /\ b \in Int /\ DayStart(d) <= b
               /\ b = DayStart(d) \/ \A s \in have : b <= s
<1> DEFINE listed == lt \cap (DayStart(d) .. DayEnd(d, end) - 1)
           b == Base(have, d, end, lt)
<1>1. DayStart(d) \in Int /\ DayEnd(d, end) \in Int
  BY NextDay, EndOfDay
<1>2. CASE listed # {}
  <2>1. listed \in SUBSET Nat /\ listed \subseteq lt
    BY DEF Listed
  <2>2. Min(listed) \in listed
    <3> HIDE DEF listed
    <3> QED BY <1>2, <2>1, LeastOf
  <2>3. b = Min(listed)
    BY <1>2 DEF Base
  <2>4. b \in DayStart(d) .. DayEnd(d, end) - 1 /\ b \in lt
    BY <2>2, <2>3
  <2> HIDE DEF b, listed
  <2>5. b \in Int /\ DayStart(d) <= b /\ \A s \in have : b <= s
    BY <1>1, <2>4 DEF Listed
  <2> QED BY <2>5 DEF b
<1>3. CASE listed = {} /\ have # {} /\ DayOf(Min(have)) = d
  <2>1. Min(have) \in have /\ \A s \in have : Min(have) <= s
    BY <1>3, LeastOf
  <2>2. b = Min(have)
    BY <1>3 DEF Base
  <2> HIDE DEF b
  <2>3. DayOf(b) = d
    BY <1>3, <2>2, Zenon
  <2>5. b \in Int /\ \A s \in have : b <= s
    <3>1. PICK x \in have : x = Min(have)
      BY <2>1
    <3> QED BY <2>1, <2>2, <3>1
  <2>4. DayStart(d) <= b
    BY <2>3, <2>5, WithinDay
  <2> QED BY <2>4, <2>5 DEF b
<1>4. CASE listed = {} /\ ~(have # {} /\ DayOf(Min(have)) = d)
  <2>1. b = DayStart(d)
    BY <1>4 DEF Base
  <2> HIDE DEF b
  <2> QED BY <1>1, <2>1 DEF b
<1> QED BY <1>2, <1>3, <1>4

\* A complete day has every slot from where its count starts.
LEMMA CompleteDay ==
    ASSUME NEW have \in SUBSET Nat, NEW d \in Int, NEW end \in Int, NEW lt, Listed(have, lt),
           DayStart(d) < end, \A s \in have : s < end,
           Complete(have, d, end, lt)
    PROVE  Base(have, d, end, lt) .. DayEnd(d, end) - 1 \subseteq have
<1> DEFINE b == Base(have, d, end, lt)
           e == DayEnd(d, end)
           H == {s \in have : DayOf(s) = d}
           T == b .. e - 1
<1>1. b \in Int /\ DayStart(d) <= b /\ (b = DayStart(d) \/ \A s \in have : b <= s)
  BY BaseOfDay
<1>2. e \in Int /\ \A s \in Int : s < end /\ s < DayStart(d + 1) => s < e
  BY EndOfDay
<1>3. Cardinality(H) >= IF e <= b THEN 0 ELSE e - b
  BY DEF Complete, DayCount, ExpectedBars
<1> HIDE DEF b, e
<1>4. H \subseteq T
  <2> SUFFICES ASSUME NEW s \in H PROVE s \in T
    OBVIOUS
  <2>1. s \in have /\ s \in Int /\ DayStart(d) <= s /\ s < DayStart(d + 1)
    BY WithinDay
  <2>2. b <= s /\ s < e
    BY <1>1, <1>2, <2>1
  <2> QED BY <1>1, <1>2, <2>1, <2>2
<1>5. IsFiniteSet(T) /\ Cardinality(T) = IF b > e - 1 THEN 0 ELSE e - 1 - b + 1
  <2>1. e - 1 \in Int
    BY <1>2
  <2> QED BY <1>1, <2>1, FS_Interval
<1> HIDE DEF H, T
<1>6. /\ IsFiniteSet(H) /\ Cardinality(H) <= Cardinality(T)
      /\ Cardinality(T) = Cardinality(H) => T = H
  BY <1>4, <1>5, FS_Subset
<1>7. Cardinality(H) \in Nat /\ Cardinality(T) \in Nat
  BY <1>5, <1>6, FS_CardinalityType
<1>8. Cardinality(T) = Cardinality(H)
  BY <1>1, <1>2, <1>3, <1>5, <1>6, <1>7
<1>9. T \subseteq have
  BY <1>6, <1>8 DEF H
<1> QED BY <1>9 DEF T, b, e

\* A day without candles that is not the first of the stored ones is not complete.
LEMMA EmptyDay ==
    ASSUME NEW have \in SUBSET Nat, NEW d \in Int, NEW end \in Int, NEW lt, Listed(have, lt),
           DayStart(d) < end, \A s \in have : d < DayOf(s)
    PROVE  ~Complete(have, d, end, lt)
<1> DEFINE b == Base(have, d, end, lt)
           e == DayEnd(d, end)
           listed == lt \cap (DayStart(d) .. e - 1)
<1>1. DayStart(d) \in Int /\ e \in Int /\ DayStart(d) < e
  <2>1. DayStart(d) \in Int /\ DayStart(d) < DayStart(d + 1)
    BY NextDay, PositiveDay
  <2> QED BY <2>1, EndOfDay
<1>2. b \in Int /\ b < e
  <2>1. CASE listed # {}
    <3>1. listed \in SUBSET Nat
      BY DEF Listed
    <3>2. Min(listed) \in listed
      <4> HIDE DEF listed
      <4> QED BY <2>1, <3>1, LeastOf
    <3>3. b = Min(listed)
      BY <2>1 DEF Base
    <3> QED BY <1>1, <3>2, <3>3
  <2>2. CASE listed = {}
    <3>1. have # {} => DayOf(Min(have)) # d
      <4> SUFFICES ASSUME have # {} PROVE DayOf(Min(have)) # d
        OBVIOUS
      <4>1. Min(have) \in have
        BY LeastOf
      <4>2. d < DayOf(Min(have)) /\ DayOf(Min(have)) \in Int
        <5> DEFINE m == Min(have)
        <5>1. m \in have /\ m \in Int
          <6>1. PICK x \in have : x = Min(have)
            BY <4>1
          <6> QED BY <6>1
        <5> HIDE DEF m
        <5>2. d < DayOf(m) /\ DayOf(m) \in Int
          BY <5>1, WithinDay
        <5> QED BY <5>2 DEF m
      <4> QED BY <4>2
    <3>2. b = DayStart(d)
      BY <2>2, <3>1 DEF Base
    <3> QED BY <1>1, <3>2
  <2> QED BY <2>1, <2>2
<1>3. {s \in have : DayOf(s) = d} = {}
  <2>1. \A s \in have : DayOf(s) \in Int /\ d < DayOf(s)
    BY WithinDay
  <2>2. \A s \in have : DayOf(s) # d
    BY <2>1
  <2> QED BY <2>2
<1>4. DayCount(have, d) = 0
  BY <1>3, FS_EmptySet DEF DayCount
<1>5. ExpectedBars(b, e) = e - b
  <2> HIDE DEF b, e
  <2> QED BY <1>1, <1>2 DEF ExpectedBars
<1>6. ~ (DayCount(have, d) >= ExpectedBars(b, e))
  <2> HIDE DEF b, e
  <2> QED BY <1>1, <1>2, <1>4, <1>5
<1> QED BY <1>6 DEF Complete

-----------------------------------------------------------------------------
(* Missing windows.                                                        *)

\* Every missing day is in a window.
LEMMA MergeCovers ==
    ASSUME NEW lo \in Int, NEW hi \in Int, NEW days \in SUBSET (lo .. hi), NEW d \in days,
           NEW end
    PROVE  \E w \in Merge(days, end) : w.from <= DayStart(d)
<1> DEFINE Down == {n \in 0 .. d - lo : d - n .. d \subseteq days}
           Up   == {n \in 0 .. hi - d : d .. d + n \subseteq days}
<1>1. d \in Int /\ d - lo \in Nat /\ hi - d \in Nat
  OBVIOUS
<1>2. 0 \in Down /\ 0 \in Up
  BY <1>1
<1>3. Down \in SUBSET (-1 .. d - lo) /\ Up \in SUBSET (-1 .. hi - d)
  BY <1>1
<1>4. Max(Down) \in Down /\ \A x \in Down : x <= Max(Down)
  <2> HIDE DEF Down
  <2> QED BY <1>1, <1>2, <1>3, GreatestOf
<1>5. Max(Up) \in Up /\ \A x \in Up : x <= Max(Up)
  <2> HIDE DEF Up
  <2> QED BY <1>1, <1>2, <1>3, GreatestOf
<1>6. PICK m \in Down : m = Max(Down)
  BY <1>4
<1>7. PICK n \in Up : n = Max(Up)
  BY <1>5
<1> DEFINE a == d - m
           c == d + n
<1>8. /\ a \in Int /\ c \in Int /\ a <= d /\ d <= c
      /\ \A x \in Int : a <= x /\ x <= d => x \in days
      /\ \A x \in Int : d <= x /\ x <= c => x \in days
  <2>1. m \in Nat /\ d - m .. d \subseteq days
    BY <1>1
  <2>2. n \in Nat /\ d .. d + n \subseteq days
    BY <1>1
  <2> QED BY <1>1, <2>1, <2>2
<1>9. a - 1 \notin days
  <2> SUFFICES ASSUME a - 1 \in days PROVE FALSE
    OBVIOUS
  <2>1. m \in Int /\ m + 1 \in 0 .. d - lo
    BY <1>1, <1>6
  <2>2. d - (m + 1) .. d \subseteq days
    BY <1>1, <1>6, <1>8
  <2>3. m + 1 \in Down
    BY <2>1, <2>2
  <2> HIDE DEF Down
  <2> QED BY <1>4, <1>6, <2>1, <2>3
<1>10. c + 1 \notin days
  <2> SUFFICES ASSUME c + 1 \in days PROVE FALSE
    OBVIOUS
  <2>1. n \in Int /\ n + 1 \in 0 .. hi - d
    BY <1>1, <1>7
  <2>2. d .. d + (n + 1) \subseteq days
    BY <1>1, <1>7, <1>8
  <2>3. n + 1 \in Up
    BY <2>1, <2>2
  <2> HIDE DEF Up
  <2> QED BY <1>5, <1>7, <2>1, <2>3
<1> HIDE DEF a, c
<1>11. a .. c \subseteq days /\ a \in days /\ c \in days /\ a <= c
  BY <1>1, <1>8
<1>12. {a - 1, c + 1} \cap days = {}
  BY <1>9, <1>10
<1> DEFINE w == [from |-> DayStart(a), to |-> DayEnd(c, end)]
<1>13. w \in Merge(days, end)
  <2>1. <<a, c>> \in {r \in days \X days : /\ r[1] .. r[2] \subseteq days
                                          /\ {r[1] - 1, r[2] + 1} \cap days = {}
                                          /\ r[1] <= r[2]}
    BY <1>11, <1>12
  <2> QED BY <2>1 DEF Merge
<1>14. w.from <= DayStart(d)
  BY <1>1, <1>8, DaysInOrder
<1> QED BY <1>13, <1>14

\* A window starts with a missing day.
LEMMA WindowStart ==
    ASSUME NEW days, NEW end, NEW w \in Merge(days, end)
    PROVE  \E d, e \in days : w = [from |-> DayStart(d), to |-> DayEnd(e, end)]
BY DEF Merge

\* What VerifiedUpto finds below is in no window.
LEMMA UptoIsLeast ==
    ASSUME NEW windows, \A w \in windows : w.from \in Nat, NEW end \in Nat
    PROVE  /\ VerifiedUpto(windows, end) \in Nat
           /\ \A w \in windows : VerifiedUpto(windows, end) <= w.from
           /\ windows = {} => VerifiedUpto(windows, end) = end
           /\ windows # {} => \E w \in windows : VerifiedUpto(windows, end) = w.from
<1> DEFINE S == {w.from : w \in windows}
<1>1. CASE windows = {}
  BY <1>1 DEF VerifiedUpto
<1>2. CASE windows # {}
  <2>1. S \in SUBSET Nat /\ S # {}
    BY <1>2
  <2>2. Min(S) \in S /\ \A x \in S : Min(S) <= x
    <3> HIDE DEF S
    <3> QED BY <2>1, LeastOf
  <2>3. PICK w \in windows : Min(S) = w.from
    BY <2>2
  <2>4. VerifiedUpto(windows, end) = Min(S)
    BY <1>2 DEF VerifiedUpto
  <2>5. \A u \in windows : Min(S) <= u.from
    BY <2>2
  <2> QED BY <1>2, <2>3, <2>4, <2>5
<1> QED BY <1>1, <1>2

\* The days of a range that starts at a slot.
LEMMA WindowTypes ==
    ASSUME NEW stored, NEW start \in Nat, NEW end \in Nat,
           NEW verified \in Int, NEW lt,
           NEW w \in FindMissingWindows(stored, start, end, verified, lt)
    PROVE  /\ w \in [from : 0 .. end - 1, to : 0 .. end]
           /\ verified < end
           /\ \E d \in MissingDays(stored, CheckFrom(start, verified), end, lt) : w.from = DayStart(d)
<1> DEFINE from == CheckFrom(start, verified)
           days == MissingDays(stored, from, end, lt)
<1>1. ~ verified >= end /\ w \in Merge(days, end)
  BY DEF FindMissingWindows
<1>2. PICK d \in days, e \in days : w = [from |-> DayStart(d), to |-> DayEnd(e, end)]
  BY <1>1, WindowStart
<1>3. from \in Nat
  BY MaxOfTwo DEF CheckFrom
<1>4. days \subseteq DayOf(from) .. DayOf(end - 1)
  BY DEF MissingDays
<1> HIDE DEF days, from
<1>5. /\ DayOf(from) \in Int /\ DayOf(end - 1) \in Int
      /\ 0 <= DayOf(from)
      /\ DayStart(DayOf(end - 1)) <= end - 1
  <2>1. DayOf(0) = 0
    BY PositiveDay DEF DayOf
  <2> QED BY <1>3, <2>1, WithinDay, DayOfInOrder
<1>6. \A x \in days : x \in Nat /\ x <= DayOf(end - 1)
  BY <1>4, <1>5
<1>7. DayStart(0) = 0
  BY PositiveDay DEF DayStart
<1>8. \A x \in days : DayStart(x) \in Nat /\ DayStart(x) <= end - 1
  <2> TAKE x \in days
  <2>1. DayStart(x) \in Int /\ DayStart(DayOf(end - 1)) \in Int
    BY <1>5, <1>6, NextDay
  <2>2. DayStart(0) <= DayStart(x) /\ DayStart(x) <= DayStart(DayOf(end - 1))
    BY <1>5, <1>6, DaysInOrder
  <2> QED BY <1>5, <1>7, <2>1, <2>2
<1>9. DayEnd(e, end) \in Nat /\ DayEnd(e, end) <= end
  <2>1. DayStart(e) \in Nat /\ DayStart(e + 1) = DayStart(e) + DayBars
    BY <1>6, <1>8, NextDay
  <2>2. DayStart(e + 1) \in Nat
    BY <2>1, PositiveDay
  <2> QED BY <2>2, MinOfTwo DEF DayEnd
<1>10. verified < end
  BY <1>1
<1> QED BY <1>2, <1>8, <1>9, <1>10 DEF days, from

\* Below the watermark that follows from the missing windows there is no hole,
\* except the head of the first day, where the oldest stored candle counts as
\* the first there is (_group_missing_windows, candles.py:190).
THEOREM NoHoleIsVerified ==
    ASSUME NEW stored \in SUBSET Nat, NEW start \in Nat, NEW end \in Nat,
           NEW verified \in Int, NEW lt, Listed(stored, lt),
           NEW s \in Int, CheckFrom(start, verified) <= s,
           s < VerifiedUpto(FindMissingWindows(stored, start, end, verified, lt), end)
    PROVE  \/ s \in stored
           \/ /\ DayOf(s) = DayOf(CheckFrom(start, verified))
              /\ (CheckFrom(start, verified) .. s) \cap stored = {}
              /\ \E u \in stored : s < u /\ u < end
<1> DEFINE from == CheckFrom(start, verified)
           windows == FindMissingWindows(stored, start, end, verified, lt)
           days == MissingDays(stored, from, end, lt)
           have == InRange(stored, from, end)
           upto == VerifiedUpto(windows, end)
           d == DayOf(s)
           d0 == DayOf(from)
<1>1. from \in Nat /\ verified <= from
  BY MaxOfTwo DEF CheckFrom
<1>2. \A w \in windows : /\ w.from \in Nat /\ w.from <= end - 1 /\ verified < end
  BY WindowTypes
<1>3. /\ upto \in Nat /\ \A w \in windows : upto <= w.from
      /\ windows = {} => upto = end
      /\ windows # {} => \E w \in windows : upto = w.from
  <2> HIDE DEF windows
  <2> QED BY <1>2, UptoIsLeast
<1>4. upto <= end
  <2> HIDE DEF windows, upto
  <2> QED BY <1>2, <1>3
<1>5. from <= s /\ s < upto /\ s < end /\ s \in Nat
  <2>1. from <= s /\ s < upto
    OBVIOUS
  <2> HIDE DEF from, windows, upto
  <2> QED BY <1>1, <1>3, <1>4, <2>1
<1>6. verified < end
  <2> HIDE DEF from
  <2> QED BY <1>1, <1>5
<1>7. windows = Merge(days, end)
  BY <1>6 DEF FindMissingWindows
<1>8. have \in SUBSET Nat /\ \A u \in have : u < end /\ from <= u
  BY DEF InRange
<1>9. Listed(have, lt)
  BY DEF InRange, Listed
<1>10. \A u \in stored : from <= u /\ u < end => u \in have
  BY DEF InRange
<1>11. have \subseteq stored
  BY DEF InRange
<1>12. days = {x \in d0 .. DayOf(end - 1) : ~Complete(have, x, end, lt)}
  BY DEF MissingDays
<1> HIDE DEF have, days, windows, upto, from
<1>13. /\ d \in Int /\ DayStart(d) <= s /\ s < DayStart(d + 1)
       /\ d0 \in Int /\ DayStart(d0) <= from /\ d0 <= d
       /\ DayOf(end - 1) \in Int /\ d <= DayOf(end - 1)
  BY <1>1, <1>5, WithinDay, DayOfInOrder
<1> HIDE DEF d, d0
<1>14. \A x \in days : ~ DayStart(x) <= s
  <2> SUFFICES ASSUME NEW x \in days, DayStart(x) <= s PROVE FALSE
    OBVIOUS
  <2>1. days \in SUBSET (d0 .. DayOf(end - 1)) /\ x \in Int
    BY <1>12, <1>13
  <2>2. PICK w \in windows : w.from <= DayStart(x)
    BY <1>7, <1>13, <2>1, MergeCovers
  <2>3. DayStart(x) \in Int
    BY <2>1, NextDay
  <2> QED BY <1>2, <1>3, <1>5, <2>2, <2>3
<1>15. Complete(have, d, end, lt) /\ Complete(have, d0, end, lt)
  <2>1. DayStart(d0) <= s
    <3>1. DayStart(d0) \in Int
      BY <1>13, NextDay
    <3> QED BY <1>1, <1>5, <1>13, <3>1
  <2>2. d \notin days /\ d0 \notin days
    BY <1>13, <1>14, <2>1
  <2> QED BY <1>12, <1>13, <2>2
<1> DEFINE b == Base(have, d, end, lt)
<1>16. DayStart(d) \in Int /\ DayStart(d) < end
  BY <1>5, <1>13, NextDay
<1>17. b \in Int /\ DayStart(d) <= b /\ (b = DayStart(d) \/ \A u \in have : b <= u)
  BY <1>8, <1>9, <1>13, <1>16, BaseOfDay
<1>18. \A u \in Int : b <= u /\ u < DayEnd(d, end) => u \in have
  <2>1. b .. DayEnd(d, end) - 1 \subseteq have
    BY <1>8, <1>9, <1>13, <1>15, <1>16, CompleteDay
  <2>2. DayEnd(d, end) \in Int
    BY <1>13, EndOfDay
  <2> HIDE DEF b
  <2> QED BY <1>17, <2>1, <2>2
<1>19. s < DayEnd(d, end)
  BY <1>5, <1>13, EndOfDay
<1> HIDE DEF b
<1>20. CASE b <= s
  BY <1>5, <1>11, <1>18, <1>19, <1>20
<1>21. CASE s < b
  <2>1. \A u \in have : b <= u
    BY <1>13, <1>16, <1>17, <1>21
  <2>2. (from .. s) \cap stored = {}
    <3> SUFFICES ASSUME NEW u \in stored, from <= u, u <= s PROVE FALSE
      BY <1>1, <1>5
    <3>1. u \in have /\ u \in Nat
      BY <1>5, <1>10
    <3> QED BY <1>5, <1>17, <1>21, <2>1, <3>1
  <2>3. d0 = d
    <3> SUFFICES ASSUME d0 < d PROVE FALSE
      BY <1>13
    <3>1. \A u \in have : d0 < DayOf(u)
      <4> TAKE u \in have
      <4>1. u \in Nat /\ b <= u /\ DayStart(d) <= u
        BY <1>8, <1>16, <1>17, <2>1
      <4>2. DayOf(u) \in Int /\ u < DayStart(DayOf(u) + 1)
        BY <4>1, WithinDay
      <4>3. ~ (DayOf(u) + 1 <= d)
        <5> DEFINE e == DayOf(u)
        <5>1. e \in Int /\ u < DayStart(e + 1)
          BY <4>2
        <5> HIDE DEF e
        <5>2. DayStart(e + 1) \in Int
          BY <5>1, NextDay
        <5>3. ~ (e + 1 <= d)
          BY <1>13, <1>16, <4>1, <5>1, <5>2, DaysInOrder
        <5> QED BY <5>3 DEF e
      <4> QED BY <1>13, <4>2, <4>3
    <3>2. DayStart(d0) \in Int /\ DayStart(d0) < end
      BY <1>1, <1>5, <1>13, NextDay
    <3> QED BY <1>8, <1>9, <1>13, <1>15, <3>1, <3>2, EmptyDay
  <2>4. \E u \in have : s < u /\ u < end
    <3>1. have # {}
      <4> SUFFICES ASSUME have = {} PROVE FALSE
        OBVIOUS
      <4> QED BY <1>8, <1>9, <1>13, <1>15, <1>16, EmptyDay
    <3>2. PICK u \in have : TRUE
      BY <3>1
    <3> QED BY <1>5, <1>8, <1>17, <1>21, <2>1, <3>2
  <2> QED BY <1>11, <2>2, <2>3, <2>4 DEF d, d0, from
<1> QED BY <1>5, <1>17, <1>20, <1>21
=============================================================================
