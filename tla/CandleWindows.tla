--------------------------- MODULE CandleWindows ----------------------------
(***************************************************************************)
(* The arithmetic of CandleDownloader: which windows of a candle series    *)
(* are missing in the database, and how a window is cut into tasks.  Time  *)
(* is counted in bars: slot s is the candle that opens at s, the day d is  *)
(* the slots d * DayBars .. (d+1) * DayBars - 1, and a range [a, b) is     *)
(* exclusive of b, as the "ts >= :s AND ts < :e" of the queries.           *)
(***************************************************************************)
EXTENDS Integers, FiniteSets, FiniteSetsExt

CONSTANTS DayBars,   \* candles of a UTC day
          PageSize   \* max_candles_per_request

ASSUME WindowAssumption == {DayBars, PageSize} \subseteq Nat \ {0}

\* No candle, no watermark.
NoSlot == -1

DayOf(s)       == s \div DayBars
DayStart(d)    == d * DayBars
DayEnd(d, end) == Min({DayStart(d + 1), end})

ExpectedBars(a, b) == IF b <= a THEN 0 ELSE b - a

InRange(stored, a, b) == {s \in stored : a <= s /\ s < b}

DayCount(have, d) == Cardinality({s \in have : DayOf(s) = d})

\* Where the count of a day starts: on the day of the listing the listing
\* time, on the day of the oldest stored candle that candle (the comment calls
\* it the fallback for an unknown listing time), otherwise the day itself.
\* lt holds the listing time, or is empty.
Base(have, d, end, lt) ==
    LET listed == lt \cap (DayStart(d) .. DayEnd(d, end) - 1)
    IN  IF listed # {} THEN Min(listed)
        ELSE IF have # {} /\ DayOf(Min(have)) = d THEN Min(have)
        ELSE DayStart(d)

\* Mutant: one candle of a day may be missing.
NearlyComplete(have, d, end, lt) ==
    DayCount(have, d) + 1 >= ExpectedBars(Base(have, d, end, lt), DayEnd(d, end))

Complete(have, d, end, lt) ==
    DayCount(have, d) >= ExpectedBars(Base(have, d, end, lt), DayEnd(d, end))

MissingDays(stored, from, end, lt) ==
    LET have == InRange(stored, from, end)
    IN  {d \in DayOf(from) .. DayOf(end - 1) : ~Complete(have, d, end, lt)}

\* Adjacent days become one window.
Merge(days, end) ==
    {[from |-> DayStart(d[1]), to |-> DayEnd(d[2], end)] :
        d \in {r \in days \X days : /\ r[1] .. r[2] \subseteq days
                                    /\ {r[1] - 1, r[2] + 1} \cap days = {}
                                    /\ r[1] <= r[2]}}

CheckFrom(start, verified) == Max({start, verified})

FindMissingWindows(stored, start, end, verified, lt) ==
    IF verified >= end
    THEN {}
    ELSE Merge(MissingDays(stored, CheckFrom(start, verified), end, lt), end)

\* One task per day.
SplitDays(windows) ==
    UNION {{[from |-> s, to |-> Min({s + DayBars, w.to})] :
               s \in {u \in w.from .. w.to - 1 : (u - w.from) % DayBars = 0}} : w \in windows}

\* Mutant: an end that counts as included.
VerifiedUptoInclusive(windows, end) ==
    IF windows = {} THEN end + 1 ELSE Min({w.from : w \in windows})

\* The watermark a run may set: the start of the first window, else its end.
VerifiedUpto(windows, end) ==
    IF windows = {} THEN end ELSE Min({w.from : w \in windows})

\* The k newest candles of a set: what one call of the REST API returns.
Newest(S, k) == {s \in S : Cardinality({u \in S : u > s}) < k}

Page(available, after) == Newest({s \in available : s < after}, PageSize)
=============================================================================
