--------------------------- MODULE JobTimesProofs ---------------------------
(***************************************************************************)
(* The two functions that say when a job runs.  Next finds the first match *)
(* in every zone without changes of its offset, for every calendar with    *)
(* more than one month, every expression and every horizon.  nextBackoff   *)
(* is exact for every setting that does not overflow.                      *)
(***************************************************************************)
EXTENDS Cron, JobBackoff, LeastNumber, TLAPS

\* What Next needs of package time: the start of the next month, day or hour is
\* ahead, and until then it is the same month, day or hour.
ExactAt(z, u) ==
    /\ NextMonth(z, u) \in Int /\ NextMonth(z, u) > u
    /\ NextDay(z, u) \in Int /\ NextDay(z, u) > u
    /\ NextHour(z, u) \in Int /\ NextHour(z, u) > u
    /\ \A v \in u..NextMonth(z, u) - 1 : Month(z, v) = Month(z, u)
    /\ \A v \in u..NextDay(z, u) - 1 : DayOf(z, v) = DayOf(z, u)
    /\ \A v \in u..NextHour(z, u) - 1 : Hour(z, v) = Hour(z, u)

Exact == \A z \in Zones : \A u \in Int : ExactAt(z, u)

\* Everything behind the candidate has been looked at or ruled out.
IInv ==
    /\ zone \in Zones /\ after \in Int /\ t \in Int
    /\ pc = "search" => t >= first /\ \A u \in first..t - 1 : ~Matches(u)
    /\ ResultIsFirst

-----------------------------------------------------------------------------
\* Nothing matches before the next candidate of a skip.
LEMMA SkipIInv ==
    ASSUME IInv, pc = "search", NEW n \in Int, n > t, MoveTo(n),
           \A v \in t..n - 1 : ~Matches(v)
    PROVE  IInv'
<1>1. /\ t' = n /\ sched' = sched /\ zone' = zone /\ after' = after /\ pc' = pc
      /\ result' = result
    BY DEF MoveTo
<1>2. first' = first /\ deadline' = deadline
    BY <1>1 DEF first, deadline
<1>3. \A u : Matches(u)' <=> Matches(u)
    BY <1>1 DEF Matches, MonthMatches, DayMatches, HourMatches, MinuteMatches
<1>4. after \in Int /\ t \in Int /\ first \in Int /\ t >= first
      /\ \A u \in first..t - 1 : ~Matches(u)
    BY DEF IInv, first
<1> HIDE DEF Matches
<1>5. \A u \in first..n - 1 : ~Matches(u)
    BY <1>4
<1>6. ResultIsFirst'
    BY <1>1 DEF ResultIsFirst
<1> QED  BY <1>1, <1>2, <1>3, <1>4, <1>5, <1>6 DEF IInv

\* Every step of the search keeps the invariant.
LEMMA StepIInv == Exact /\ IInv /\ [SearchStep]_cronVars => IInv'
<1> SUFFICES ASSUME Exact, IInv, [SearchStep]_cronVars PROVE IInv'
    OBVIOUS
<1>1. t \in Int /\ zone \in Zones /\ after \in Int /\ first \in Int
    BY DEF IInv, first
<1>2. ExactAt(zone, t)
    BY <1>1 DEF Exact
<1>3. CASE UNCHANGED cronVars
    BY <1>3 DEF IInv, ResultIsFirst, cronVars, first, deadline, Matches, MonthMatches,
                DayMatches, HourMatches, MinuteMatches
<1>4. CASE Reject
    BY <1>1, <1>4 DEF IInv, Reject, ResultIsFirst
<1>5. CASE Begin
    <2>1. t' = first /\ first' = first /\ pc' = "search" /\ zone' = zone /\ after' = after
        BY <1>5 DEF Begin, first
    <2>2. ResultIsFirst'
        BY <2>1 DEF ResultIsFirst
    <2> QED  BY <1>1, <2>1, <2>2 DEF IInv
<1>6. CASE SkipMonth
    <2>1. \A v \in t..NextMonth(zone, t) - 1 : ~Matches(v)
        BY <1>2, <1>6 DEF ExactAt, SkipMonth, MonthMatches, Matches
    <2> QED  BY <1>2, <1>6, <2>1, SkipIInv DEF ExactAt, SkipMonth, Searching
<1>7. CASE SkipDay
    <2>1. \A v \in t..NextDay(zone, t) - 1 : DayMatches(v) = DayMatches(t)
        BY <1>2 DEF ExactAt, DayMatches
    <2>2. \A v \in t..NextDay(zone, t) - 1 : ~Matches(v)
        BY <1>7, <2>1 DEF SkipDay, Matches
    <2> QED  BY <1>2, <1>7, <2>2, SkipIInv DEF ExactAt, SkipDay, Searching
<1>8. CASE SkipHour
    <2>1. \A v \in t..NextHour(zone, t) - 1 : ~Matches(v)
        BY <1>2, <1>8 DEF ExactAt, SkipHour, HourMatches, Matches
    <2> QED  BY <1>2, <1>8, <2>1, SkipIInv DEF ExactAt, SkipHour, Searching
<1>9. CASE SkipMinute
    <2>1. \A v \in t..(t + 1) - 1 : ~Matches(v)
        BY <1>1, <1>9 DEF SkipMinute, Matches
    <2> QED  BY <1>1, <1>9, <2>1, SkipIInv DEF SkipMinute, Searching
<1>10. CASE Found \/ GiveUp
    <2>1. /\ pc = "search" /\ pc' = "done"
          /\ UNCHANGED <<sched, zone, after, t>>
          /\ \/ t <= deadline /\ Matches(t) /\ result' = t
             \/ t > deadline /\ result' = deadline
        BY <1>10 DEF Found, GiveUp, Return, Searching
    <2>2. first' = first /\ deadline' = deadline
        BY <2>1 DEF first, deadline
    <2>3. \A u : Matches(u)' <=> Matches(u)
        BY <2>1 DEF Matches, MonthMatches, DayMatches, HourMatches, MinuteMatches
    <2>4. t >= first /\ \A u \in first..t - 1 : ~Matches(u)
        BY <2>1 DEF IInv
    <2>5. deadline \in Int /\ deadline >= first
        BY <1>1, CronAssumption DEF deadline
    <2>6. ResultIsFirst'
        <3>1. CASE t <= deadline /\ Matches(t) /\ result' = t
            BY <1>1, <2>1, <2>2, <2>3, <2>4, <2>5, <3>1 DEF ResultIsFirst
        <3>2. CASE t > deadline /\ result' = deadline
            BY <1>1, <2>1, <2>2, <2>3, <2>4, <2>5, <3>2 DEF ResultIsFirst
        <3> QED  BY <2>1, <3>1, <3>2
    <2> QED  BY <1>1, <2>1, <2>6 DEF IInv
<1> QED  BY <1>3, <1>4, <1>5, <1>6, <1>7, <1>8, <1>9, <1>10 DEF SearchStep

-----------------------------------------------------------------------------
(* Zones whose offset never changes *)

FixedZones ==
    \A z \in Zones : z.before \in Int /\ z.after = z.before

TwoMonths ==
    \E i, j \in 1..Len(Calendar) : Calendar[i].month # Calendar[j].month

\* In such a zone wall-clock time is a constant ahead of UTC.
LEMMA FixedOffset ==
    ASSUME FixedZones, NEW z \in Zones
    PROVE  /\ z.before \in Int
           /\ \A u : Local(z, u) = u + z.before /\ Date(z, u) = u - z.before
BY DEF FixedZones, Local, Date, Offset

\* A day is within its bounds.
LEMMA DayBounds ==
    ASSUME NEW x \in Int
    PROVE  /\ DayLen \in Nat \ {0}
           /\ x \div DayLen \in Int
           /\ DayLen * (x \div DayLen) <= x
           /\ x < DayLen * (x \div DayLen + 1)
<1>1. DayLen \in Nat \ {0}
    BY CronAssumption, Z3 DEF DayLen
<1> HIDE DEF DayLen
<1> QED  BY <1>1, DivBounds

\* Among the days of a cycle behind any day there is a first one of another month.
LEMMA MonthEnds ==
    ASSUME TwoMonths, NEW day \in Int
    PROVE  LET days == day + 1..day + Len(Calendar)
               new(n) == CalendarDay(n).month # CalendarDay(day).month
           IN  \E n \in days : new(n) /\ \A k \in days : k < n => ~new(k)
<1> DEFINE days == day + 1..day + Len(Calendar)
           new(n) == CalendarDay(n).month # CalendarDay(day).month
           S == {n \in days : new(n)}
<1>1. Len(Calendar) \in Nat \ {0}
    BY CronAssumption DEF TwoMonths
<1>2. PICK i \in 1..Len(Calendar) : Calendar[i].month # CalendarDay(day).month
    BY DEF TwoMonths
<1>3. PICK n \in days : n % Len(Calendar) = i - 1
    <2>1. i - 1 \in 0..Len(Calendar) - 1
        BY <1>1, <1>2
    <2> QED  BY <1>1, <2>1, RemainderOccurs
<1>4. new(n)
    <2>1. (n % Len(Calendar)) + 1 = i
        BY <1>1, <1>2, <1>3
    <2> QED  BY <1>2, <2>1 DEF CalendarDay
<1>5. S # {} /\ S \in SUBSET Int /\ \A x \in S : day <= x
    BY <1>1, <1>3, <1>4
<1>6. PICK m \in S : \A k \in S : m <= k
    BY <1>5, LeastInteger
<1>7. m \in days /\ new(m) /\ m \in Int
    BY <1>1, <1>6
<1>8. \A k \in days : k < m => ~new(k)
    BY <1>1, <1>6, <1>7
<1> QED  BY <1>7, <1>8

\* Package time gives Next what it needs.
LEMMA FixedIsExact == FixedZones /\ TwoMonths => Exact
<1> SUFFICES ASSUME FixedZones, TwoMonths, NEW z \in Zones, NEW u \in Int
             PROVE  ExactAt(z, u)
    BY DEF Exact
<1> DEFINE o == z.before
           x == u + o
<1>1. o \in Int /\ \A v : Local(z, v) = v + o /\ Date(z, v) = v - o
    BY FixedOffset
<1> HIDE DEF o
<1>2. x \in Int
    BY <1>1
<1>3. HourLen \in Nat \ {0} /\ Len(Calendar) \in Nat
    BY CronAssumption
<1> DEFINE H == x \div HourLen
           D == x \div DayLen
<1>4. H \in Int /\ HourLen * H <= x /\ x < HourLen * (H + 1)
    BY <1>2, <1>3, DivBounds
<1>5. DayLen \in Nat \ {0} /\ D \in Int /\ DayLen * D <= x /\ x < DayLen * (D + 1)
    BY <1>2, DayBounds
<1>6. NextHour(z, u) = HourLen * (H + 1) - o
    BY <1>1 DEF NextHour
<1>7. NextDay(z, u) = DayLen * (D + 1) - o /\ DayOf(z, u) = D
    BY <1>1 DEF NextDay, DayOf
<1> HIDE DEF H, D, x
<1>8. /\ NextHour(z, u) \in Int /\ NextHour(z, u) > u
      /\ \A v \in u..NextHour(z, u) - 1 : Hour(z, v) = Hour(z, u)
    <2> DEFINE w == HourLen * (H + 1)
    <2>1. w \in Int /\ HourLen * H \in Int
        BY <1>3, <1>4
    <2>2. NextHour(z, u) \in Int /\ NextHour(z, u) > u
        BY <1>1, <1>4, <1>6, <2>1 DEF x
    <2>3. ASSUME NEW v \in u..NextHour(z, u) - 1
          PROVE  (v + o) \div HourLen = H
        <3>1. v + o \in Int /\ HourLen * H <= v + o /\ v + o < w
            BY <1>1, <1>2, <1>4, <1>6, <2>1 DEF x
        <3> QED  BY <1>3, <1>4, <3>1, DivUnique
    <2>4. (u + o) \div HourLen = H
        BY DEF H, x
    <2> QED  BY <1>1, <2>2, <2>3, <2>4 DEF Hour
<1>9. /\ NextDay(z, u) \in Int /\ NextDay(z, u) > u
      /\ \A v \in u..NextDay(z, u) - 1 : DayOf(z, v) = DayOf(z, u)
    <2> DEFINE w == DayLen * (D + 1)
    <2>1. w \in Int /\ DayLen * D \in Int
        BY <1>5
    <2>2. NextDay(z, u) \in Int /\ NextDay(z, u) > u
        BY <1>1, <1>5, <1>7, <2>1 DEF x
    <2>3. ASSUME NEW v \in u..NextDay(z, u) - 1
          PROVE  (v + o) \div DayLen = D
        <3>1. v + o \in Int /\ DayLen * D <= v + o /\ v + o < w
            BY <1>1, <1>2, <1>5, <1>7, <2>1 DEF x
        <3> QED  BY <1>5, <3>1, DivUnique
    <2> QED  BY <1>1, <1>7, <2>2, <2>3 DEF DayOf
<1>10. /\ NextMonth(z, u) \in Int /\ NextMonth(z, u) > u
       /\ \A v \in u..NextMonth(z, u) - 1 : Month(z, v) = Month(z, u)
    <2> DEFINE days == D + 1..D + Len(Calendar)
               new(n) == CalendarDay(n).month # CalendarDay(D).month
               Ends(n) == new(n) /\ \A k \in days : k < n => ~new(k)
               m == CHOOSE n \in days : Ends(n)
    <2>1. \E n \in days : Ends(n)
        BY <1>5, MonthEnds
    <2>2. m \in days /\ Ends(m)
        BY <2>1
    <2>3. NextMonth(z, u) = DayLen * m - o
        BY <1>1, <1>7 DEF NextMonth
    <2> HIDE DEF m
    <2>4. m \in Int /\ D + 1 <= m /\ Len(Calendar) \in Nat /\ m <= D + Len(Calendar)
        BY <1>3, <1>5, <2>2
    <2>5. DayLen * (D + 1) <= DayLen * m /\ DayLen * m \in Int /\ DayLen * (D + 1) \in Int
          /\ DayLen * D \in Int
        BY <1>5, <2>4, MultipleLeq
    <2>6. NextMonth(z, u) \in Int /\ NextMonth(z, u) > u
        BY <1>1, <1>5, <2>3, <2>5 DEF x
    <2>7. ASSUME NEW v \in u..NextMonth(z, u) - 1
          PROVE  CalendarDay((v + o) \div DayLen).month = CalendarDay(D).month
        <3> DEFINE d == (v + o) \div DayLen
        <3>1. v + o \in Int /\ v + o < DayLen * m /\ DayLen * D <= v + o
            BY <1>1, <1>2, <1>5, <2>3, <2>5, <2>6 DEF x
        <3>2. d \in Int /\ DayLen * d <= v + o /\ v + o < DayLen * (d + 1)
            BY <3>1, DayBounds
        <3> HIDE DEF d
        <3>3. DayLen * d < DayLen * m /\ DayLen * D < DayLen * (d + 1)
            <4>1. DayLen * d \in Int /\ DayLen * (d + 1) \in Int
                BY <1>5, <3>2
            <4> QED  BY <2>5, <3>1, <3>2, <4>1
        <3>4. d < m
            BY <1>5, <2>4, <3>2, <3>3, FactorLess
        <3>5. D < d + 1
            BY <1>5, <3>2, <3>3, FactorLess
        <3>6. d = D \/ d \in days
            BY <1>5, <2>4, <3>2, <3>4, <3>5
        <3>7. d \in days => ~new(d)
            BY <2>2, <3>4
        <3> QED  BY <3>6, <3>7 DEF d
    <2> QED  BY <1>1, <1>7, <2>6, <2>7 DEF Month, DayOf
<1> QED  BY <1>8, <1>9, <1>10 DEF ExactAt

\* cron.go:127.  In every zone without changes of its offset, and for every
\* calendar with two months, every expression, start and horizon, what Next
\* returns is the first matching minute, or the end of the horizon when it holds
\* none.
THEOREM NextIsFirst == FixedZones /\ TwoMonths => (CronSpec => []ResultIsFirst)
<1> SUFFICES ASSUME FixedZones, TwoMonths PROVE CronSpec => []ResultIsFirst
    OBVIOUS
<1>1. Exact
    BY FixedIsExact
<1>2. SearchInit => IInv
    BY CronAssumption DEF SearchInit, IInv, ResultIsFirst
<1>3. IInv /\ [SearchStep]_cronVars => IInv'
    BY <1>1, StepIInv
<1>4. IInv => ResultIsFirst
    BY DEF IInv
<1> QED  BY <1>2, <1>3, <1>4, PTL DEF CronSpec

-----------------------------------------------------------------------------
(* nextBackoff *)

\* The recursive function is a function, and satisfies its equation.
LEMMA Pow2Equation ==
    /\ Pow2[0] = 1
    /\ \A n \in Nat : Pow2[n] \in Nat \ {0} /\ Pow2[n + 1] = 2 * Pow2[n]
<1> DEFINE step == [n \in Nat |-> [x \in Nat |-> 2 * x]]
<1>1. step \in [Nat -> [Nat -> Nat]] /\ 1 \in Nat
    OBVIOUS
<1>2. \A n \in Nat, x \in Nat : step[n][x] = 2 * x
    OBVIOUS
<1> HIDE DEF step
<1>3. PICK f : IsIteration(Nat, 1, step, f)
    BY <1>1, IterationExists
<1>4. /\ f \in [Nat -> Nat]
      /\ f = [n \in Nat |-> IF n = 0 THEN 1 ELSE step[n - 1][f[n - 1]]]
    BY <1>3 DEF IsIteration
<1>5. f = [n \in Nat |-> IF n = 0 THEN 1 ELSE 2 * f[n - 1]]
    <2>1. \A n \in Nat : f[n] = IF n = 0 THEN 1 ELSE step[n - 1][f[n - 1]]
        BY <1>4
    <2>2. \A n \in Nat : n # 0 => n - 1 \in Nat /\ f[n - 1] \in Nat
        BY <1>4
    <2>3. \A n \in Nat : f[n] = IF n = 0 THEN 1 ELSE 2 * f[n - 1]
        BY <1>2, <2>1, <2>2
    <2>4. f = [n \in Nat |-> f[n]]
        BY <1>4
    <2> HIDE <1>4
    <2> QED  BY <2>3, <2>4
<1>6. Pow2 = [n \in Nat |-> IF n = 0 THEN 1 ELSE 2 * Pow2[n - 1]]
    BY <1>5 DEF Pow2
<1>7. \A n \in Nat : Pow2[n] = IF n = 0 THEN 1 ELSE 2 * Pow2[n - 1]
    BY <1>6
<1> DEFINE S == {n \in Nat : Pow2[n] \in Nat \ {0}}
<1>8. 0 \in S /\ \A n \in Nat : n \in S => n + 1 \in S
    <2>1. \A n \in Nat : n + 1 # 0 /\ n + 1 - 1 = n /\ n + 1 \in Nat
        OBVIOUS
    <2>2. \A n \in Nat : Pow2[n + 1] = 2 * Pow2[n]
        BY <1>7, <2>1
    <2> QED  BY <1>7, <2>2
<1>9. \A n \in Nat : n \in S
    <2> HIDE DEF S
    <2> QED  BY <1>8, Induction
<1>10. \A n \in Nat : n + 1 # 0 /\ n + 1 - 1 = n /\ n + 1 \in Nat
    OBVIOUS
<1> QED  BY <1>7, <1>9, <1>10

\* A larger exponent, a larger power.
LEMMA Pow2Grows ==
    ASSUME NEW m \in Nat, NEW n \in Nat, m < n
    PROVE  Pow2[m] < Pow2[n]
<1> DEFINE S == {k \in Nat : Pow2[m] < Pow2[m + 1 + k]}
<1>1. 0 \in S
    BY Pow2Equation
<1>2. ASSUME NEW k \in Nat, k \in S PROVE k + 1 \in S
    <2>1. m + 1 + k \in Nat /\ m + 1 + (k + 1) = (m + 1 + k) + 1
        OBVIOUS
    <2>2. /\ Pow2[m + 1 + k] \in Nat /\ Pow2[m] \in Nat
          /\ Pow2[(m + 1 + k) + 1] = 2 * Pow2[m + 1 + k]
        BY <2>1, Pow2Equation
    <2> QED  BY <1>2, <2>1, <2>2
<1> HIDE DEF S
<1>3. \A k \in Nat : k \in S
    BY <1>1, <1>2, Induction
<1>4. n - m - 1 \in Nat /\ m + 1 + (n - m - 1) = n
    OBVIOUS
<1> QED  BY <1>3, <1>4 DEF S

-----------------------------------------------------------------------------
\* The arithmetic does not leave its range: a Base of less than 2^(63 - 20)
\* nanoseconds, which is 2 hours and 26 minutes.
NoOverflow ==
    \A b \in Bases \cup {DefaultBase} : b * Pow2[ShiftCap] < Pow2[Bits - 1]

BackoffInv == base \in Bases /\ max \in Maxes /\ attempt \in Nat

LEMMA BackoffTypes ==
    ASSUME BackoffInv
    PROVE  /\ Base \in Nat \ {0} /\ Max \in Nat \ {0}
           /\ Base \in Bases \cup {DefaultBase}
BY BackoffAssumption DEF BackoffInv, Base, Max

\* The multiplier is the power, up to the cap.
LEMMA MultIsPower ==
    ASSUME NEW a \in Nat \ {0}
    PROVE  Mult(a) = Pow2[Smaller(a - 1, ShiftCap)]
<1>1. ShiftCap \in Nat /\ Bits \in Nat /\ ShiftCap < Bits /\ a - 1 \in Nat
    BY BackoffAssumption
<1>2. Pow2[a - 1] \in Nat \ {0} /\ Pow2[ShiftCap] \in Nat \ {0}
    BY <1>1, Pow2Equation
<1>3. CASE a - 1 <= ShiftCap
    <2>1. Pow2[a - 1] <= Pow2[ShiftCap]
        BY <1>1, <1>2, <1>3, Pow2Grows
    <2> QED  BY <1>1, <1>2, <1>3, <2>1 DEF Mult, Smaller
<1>4. CASE a - 1 > ShiftCap
    <2>1. Pow2[a - 1] > Pow2[ShiftCap]
        BY <1>1, <1>2, <1>4, Pow2Grows
    <2> QED  BY <1>1, <1>2, <1>4, <2>1 DEF Mult, Smaller
<1> QED  BY <1>1, <1>3, <1>4

\* What fits is not changed.
LEMMA WrapFits ==
    ASSUME NEW x \in Nat, x < Pow2[Bits - 1]
    PROVE  Wrap(x) = x
<1> DEFINE h == Pow2[Bits - 1]
<1>1. h \in Nat \ {0} /\ Pow2[Bits] = 2 * h
    <2>1. Bits - 1 \in Nat /\ (Bits - 1) + 1 = Bits
        BY BackoffAssumption
    <2> QED  BY <2>1, Pow2Equation
<1>2. x < h
    OBVIOUS
<1>3. Wrap(x) = ((x + h) % Pow2[Bits]) - h
    BY DEF Wrap
<1> HIDE DEF h
<1>4. (x + h) % (2 * h) = x + h
    BY <1>1, <1>2, Z3
<1> QED  BY <1>1, <1>3, <1>4

LEMMA DelayExact ==
    ASSUME NoOverflow, BackoffInv
    PROVE  DelayIsExact
<1> DEFINE a == IF attempt < 1 THEN 1 ELSE attempt
           e == Smaller(a - 1, ShiftCap)
           longest == Smaller(Max, Base * Pow2[e])
<1>1. /\ a \in Nat \ {0} /\ e \in Nat /\ e <= ShiftCap /\ ShiftCap \in Nat
      /\ e = IF attempt < 1 THEN 0 ELSE Smaller(attempt - 1, ShiftCap)
    BY BackoffAssumption DEF BackoffInv, Smaller
<1>2. Base \in Nat \ {0} /\ Max \in Nat \ {0} /\ Base * Pow2[ShiftCap] < Pow2[Bits - 1]
    BY BackoffTypes DEF NoOverflow
<1>3. Pow2[e] \in Nat \ {0} /\ Pow2[ShiftCap] \in Nat /\ Pow2[e] <= Pow2[ShiftCap]
    <2>1. Pow2[e] \in Nat \ {0} /\ Pow2[ShiftCap] \in Nat
        BY <1>1, Pow2Equation
    <2>2. e = ShiftCap \/ e < ShiftCap
        BY <1>1
    <2>3. e < ShiftCap => Pow2[e] < Pow2[ShiftCap]
        BY <1>1, Pow2Grows
    <2> HIDE DEF e
    <2> QED  BY <2>1, <2>2, <2>3
<1>4. Pow2[Bits - 1] \in Nat
    BY Pow2Equation, BackoffAssumption
<1>5. /\ Base * Pow2[e] \in Nat /\ Base <= Base * Pow2[e]
      /\ Base * Pow2[e] < Pow2[Bits - 1]
      /\ Pow2[e] * Base = Base * Pow2[e]
    <2>1. Base * Pow2[e] <= Base * Pow2[ShiftCap]
        BY <1>2, <1>3, MultipleLeq
    <2>2. Base * 1 <= Base * Pow2[e]
        BY <1>2, <1>3, MultipleLeq
    <2>3. Base * Pow2[e] \in Nat /\ Base * Pow2[ShiftCap] \in Int /\ Base * 1 = Base
        BY <1>2, <1>3
    <2> QED  BY <1>2, <1>3, <1>4, <2>1, <2>2, <2>3
<1>6. Ceiling(a) = longest
    <2>1. Mult(a) = Pow2[e]
        BY <1>1, MultIsPower
    <2>2. Wrap(Mult(a) * Base) = Base * Pow2[e]
        BY <2>1, <1>5, WrapFits
    <2> QED  BY <2>2, <1>2, <1>5 DEF Ceiling, Smaller
<1>7. longest \in Nat /\ longest <= Max /\ Smaller(Base, Max) <= longest
    BY <1>2, <1>5 DEF Smaller
<1>8. NextBackoff(attempt) = IF longest > Base THEN Base..longest ELSE {longest}
    BY <1>6 DEF NextBackoff
<1> HIDE DEF longest
<1>9. longest \in NextBackoff(attempt)
    BY <1>2, <1>7, <1>8
<1>10. ASSUME NEW d \in NextBackoff(attempt) PROVE Smaller(Base, Max) <= d /\ d <= longest
    BY <1>2, <1>7, <1>8 DEF Smaller
<1> QED  BY <1>1, <1>9, <1>10 DEF DelayIsExact, longest

\* DelayIsExact: for every setting whose arithmetic fits in an int64, a job
\* that has failed any number of times waits between the base and the exact
\* power of two, capped by Max.
THEOREM DelaysAreExact == NoOverflow /\ BackoffSpec => []DelayIsExact
<1> SUFFICES ASSUME NoOverflow PROVE BackoffSpec => []DelayIsExact
    OBVIOUS
<1>1. BackoffInit => BackoffInv
    BY DEF BackoffInit, BackoffInv
<1>2. BackoffInv /\ [Fail]_backoffVars => BackoffInv'
    BY DEF BackoffInv, Fail, backoffVars
<1>3. BackoffInv => DelayIsExact
    BY DelayExact
<1> QED  BY <1>1, <1>2, <1>3, PTL DEF BackoffSpec

=============================================================================
