----------------------------- MODULE MCJobTimes -----------------------------
(***************************************************************************)
(* The two functions that say when a job runs, checked side by side: a     *)
(* behaviour is either a search of Next for the next fire time of a        *)
(* recurring job, or a job failing again and again under one Backoff.      *)
(*                                                                         *)
(* The calendar of the runs: two months of two and one day, and every      *)
(* third year one day more; two weekdays; days of four hours of two        *)
(* minutes.  Horizon, like the five years, is shorter than the longest way *)
(* to the next leap day (2096 to 2104).                                    *)
(***************************************************************************)
EXTENDS Cron, JobBackoff, FiniteSets

Day(m, d, w) == [month |-> m, dom |-> d, dow |-> w]

MCCalendar ==
    << Day(1, 1, 0), Day(1, 2, 1), Day(2, 1, 0),
       Day(1, 1, 1), Day(1, 2, 0), Day(2, 1, 1),
       Day(1, 1, 0), Day(1, 2, 1), Day(2, 1, 0), Day(2, 2, 1) >>

Value(v) == [kind |-> "value", a |-> v, b |-> 0, slash |-> FALSE, step |-> 1]
From(v, s) == [kind |-> "value", a |-> v, b |-> 0, slash |-> TRUE, step |-> s]
Range(a, b) == [kind |-> "range", a |-> a, b |-> b, slash |-> FALSE, step |-> 1]
Every(s) == [kind |-> "star", a |-> 0, b |-> 0, slash |-> TRUE, step |-> s]

MCExpressions ==
    [minute : {{Star}, {Value(1)}},
     hour   : {{Every(3)}, {Value(0), Value(2)}, {Range(1, 2)}},
     dom    : {{Star}, {Value(2)}, {Value(3)}},
     month  : {{Star}, {From(2, 2)}},
     dow    : {{Star}, {Value(1)}}]
    \cup
    [minute : {{Star}, {Value(2)}, {Every(0)}}, hour : {{Value(3)}},
     dom : {{Value(1), Value(0)}, {Every(1)}}, month : {{Range(2, 1)}, {Value(1)}},
     dow : {{Value(0)}}]

Fixed(o) == [at |-> 0, before |-> o, after |-> o]
Change(l, o, p) == [at |-> l - o, before |-> o, after |-> p]   \* at local time l

\* Clocks put forward east of UTC, and put back west of it, at 2 o'clock of the
\* fifth day, and zones without changes.
MCZones ==
    {Fixed(0), Fixed(-5),
     Change(4 * 8 + 4, 4, 6), Change(4 * 8 + 4, -6, -8)}

\* Clocks put forward west of UTC.
WestForward == {Change(4 * 8 + 4, -6, -4)}

\* Clocks put back east of UTC.
EastBack == {Change(4 * 8 + 4, 6, 4)}

MCStarts == 12..48

vars == <<cronVars, backoffVars>>

Init ==
    \/ SearchInit /\ base = 0 /\ max = 0 /\ attempt = 0
    \/ /\ BackoffInit
       /\ sched = ParseCron(CHOOSE f \in Expressions : TRUE)
       /\ zone = Fixed(0) /\ after = 0 /\ pc = "rejected" /\ t = 0 /\ result = 0

Next ==
    \/ SearchStep /\ UNCHANGED backoffVars
    \/ pc = "rejected" /\ Fail /\ UNCHANGED cronVars
    \/ SearchOver /\ UNCHANGED backoffVars

Spec == Init /\ [][Next]_vars /\ WF_cronVars(SearchStep)

=============================================================================
