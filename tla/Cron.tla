-------------------------------- MODULE Cron --------------------------------
(***************************************************************************)
(* Cron expressions (src/jobs/cron.go): parseCron, and the loop of Next,   *)
(* which looks for the first minute after a time that an expression        *)
(* matches, skipping the months, days and hours that cannot hold it.       *)
(*                                                                         *)
(* An instant is a number of minutes.  The calendar is scaled: an hour has *)
(* HourLen minutes, a day Hours hours, and the days repeat with the cycle  *)
(* Calendar (146097 days for the Gregorian one).  A zone has one change of *)
(* its offset.  Package time is external; Date is the arithmetic of        *)
(* time.Date, which for a wall-clock time that does not exist, or exists   *)
(* twice, promises only to be right "in one of the two zones involved".    *)
(***************************************************************************)
EXTENDS Integers, Sequences

CONSTANTS
    HourLen,     \* 60 minutes
    Hours,       \* 24 hours
    MaxDom,      \* 31
    MaxMonth,    \* 12
    MaxDow,      \* 6
    Calendar,    \* the days, each [month, dom, dow]
    Horizon,     \* the five years, in minutes
    Expressions, \* what callers pass to Schedule: a set of parts for each field
    Zones,       \* the time zones processes run in
    Starts       \* the times the search starts from

ASSUME CronAssumption ==
    /\ HourLen \in Nat \ {0} /\ Hours \in Nat \ {0}
    /\ MaxDom \in Nat /\ MaxMonth \in Nat /\ MaxDow \in Nat
    /\ Calendar \in Seq([month : 1..MaxMonth, dom : 1..MaxDom, dow : 0..MaxDow])
    /\ Horizon \in Nat
    /\ Starts \subseteq Int

VARIABLES
    sched,     \* the parsed expression
    zone,      \* t.Location()
    after,     \* the argument of Next
    pc,        \* "parse", "search", "done" or "rejected"
    t,         \* the candidate
    result

cronVars == <<sched, zone, after, pc, t, result>>

-----------------------------------------------------------------------------
(* package time *)

Offset(z, u) == IF u < z.at THEN z.before ELSE z.after

Local(z, u) == u + Offset(z, u)

\* The instant of wall-clock time l: its offset is first looked up as if l were
\* UTC, and looked up again where that leads.
Date(z, l) == l - Offset(z, l - Offset(z, l))

DayLen == Hours * HourLen
DayOf(z, u) == Local(z, u) \div DayLen
CalendarDay(n) == Calendar[(n % Len(Calendar)) + 1]
Month(z, u) == CalendarDay(DayOf(z, u)).month
Hour(z, u) == (Local(z, u) \div HourLen) % Hours
Minute(z, u) == Local(z, u) % HourLen

-----------------------------------------------------------------------------
(* Parsing.  A part is "*", "a-b" or "a", with or without "/step"; strings    *)
(* that are none of these are rejected and stand for no part.                 *)

Part == [kind : {"star", "range", "value"}, a : Int, b : Int,
         slash : BOOLEAN, step : Int]

Star == [kind |-> "star", a |-> 0, b |-> 0, slash |-> FALSE, step |-> 1]

\* The values of one part; none stands for an error.
ParseRange(p, lo, hi) ==
    LET from == IF p.kind = "star" THEN lo ELSE p.a
        to   == CASE p.kind = "star"  -> hi
                  [] p.kind = "range" -> p.b
                  [] p.kind = "value" -> IF p.step > 1 THEN hi ELSE p.a
    IN  IF p.step < 1 \/ from < lo \/ to > hi THEN {}
        ELSE {i \in from..to : (i - from) % p.step = 0}

ParseField(parts, lo, hi) ==
    IF \E p \in parts : ParseRange(p, lo, hi) = {} THEN {}
    ELSE UNION {ParseRange(p, lo, hi) : p \in parts}

ParseCron(f) ==
    [minute |-> ParseField(f.minute, 0, HourLen - 1),
     hour   |-> ParseField(f.hour, 0, Hours - 1),
     dom    |-> ParseField(f.dom, 1, MaxDom),
     month  |-> ParseField(f.month, 1, MaxMonth),
     dow    |-> ParseField(f.dow, 0, MaxDow),
     domStarred |-> f.dom = {Star},
     dowStarred |-> f.dow = {Star}]

Valid(s) == {} \notin {s.minute, s.hour, s.dom, s.month, s.dow}

-----------------------------------------------------------------------------
(* Matching *)

MonthMatches(u) == Month(zone, u) \in sched.month

\* The two day fields are alternatives when both are restricted.
DayMatches(u) ==
    LET day      == CalendarDay(DayOf(zone, u))
        domMatch == day.dom \in sched.dom
        dowMatch == day.dow \in sched.dow
    IN  CASE sched.domStarred /\ sched.dowStarred -> TRUE
          [] sched.domStarred /\ ~sched.dowStarred -> dowMatch
          [] ~sched.domStarred /\ sched.dowStarred -> domMatch
          [] OTHER -> domMatch \/ dowMatch

HourMatches(u) == Hour(zone, u) \in sched.hour

MinuteMatches(u) == Minute(zone, u) \in sched.minute

Matches(u) == MonthMatches(u) /\ DayMatches(u) /\ HourMatches(u) /\ MinuteMatches(u)

-----------------------------------------------------------------------------
(* Next *)

SearchInit ==
    /\ \E f \in Expressions : sched = ParseCron(f)
    /\ zone \in Zones /\ after \in Starts
    /\ pc = "parse" /\ t = after /\ result = after

\* Schedule refuses an expression that does not parse.
Reject ==
    /\ pc = "parse" /\ ~Valid(sched)
    /\ pc' = "rejected"
    /\ UNCHANGED <<sched, zone, after, t, result>>

\* The next minute boundary.
first == after + 1
deadline == first + Horizon

Begin ==
    /\ pc = "parse" /\ Valid(sched)
    /\ pc' = "search"
    /\ t' = first
    /\ UNCHANGED <<sched, zone, after, result>>

Searching == pc = "search" /\ t <= deadline

MoveTo(u) == t' = u /\ UNCHANGED <<sched, zone, after, pc, result>>

\* The first day of the next month, at 00:00.
NextMonth(z, u) ==
    LET day  == DayOf(z, u)
        days == day + 1..day + Len(Calendar)
        new(n) == CalendarDay(n).month # CalendarDay(day).month
    IN  Date(z, DayLen * (CHOOSE n \in days : new(n) /\ \A k \in days : k < n => ~new(k)))

NextDay(z, u) == Date(z, DayLen * (DayOf(z, u) + 1))

NextHour(z, u) == Date(z, HourLen * (Local(z, u) \div HourLen + 1))

\* (mutant) The first day of this month.
SkipMonthBack ==
    /\ Searching /\ ~MonthMatches(t)
    /\ LET day == DayOf(zone, t)
       IN  MoveTo(Date(zone, DayLen * (day - CalendarDay(day).dom + 1)))

SkipMonth == Searching /\ ~MonthMatches(t) /\ MoveTo(NextMonth(zone, t))

\* (mutant) The next day, at the same time of day.
SkipDayOnly ==
    Searching /\ MonthMatches(t) /\ ~DayMatches(t) /\ MoveTo(t + DayLen)

SkipDay ==
    Searching /\ MonthMatches(t) /\ ~DayMatches(t) /\ MoveTo(NextDay(zone, t))

SkipHour ==
    /\ Searching /\ MonthMatches(t) /\ DayMatches(t) /\ ~HourMatches(t)
    /\ MoveTo(NextHour(zone, t))

SkipMinute ==
    /\ Searching /\ MonthMatches(t) /\ DayMatches(t) /\ HourMatches(t)
    /\ ~MinuteMatches(t)
    /\ MoveTo(t + 1)

Return(u) == pc' = "done" /\ result' = u /\ UNCHANGED <<sched, zone, after, t>>

Found == Searching /\ Matches(t) /\ Return(t)

GiveUp == pc = "search" /\ t > deadline /\ Return(deadline)

SearchStep ==
    \/ Reject \/ Begin
    \/ SkipMonth \/ SkipDay \/ SkipHour \/ SkipMinute
    \/ Found \/ GiveUp

SearchOver == pc \in {"done", "rejected"} /\ UNCHANGED cronVars

CronSpec == SearchInit /\ [][SearchStep]_cronVars

-----------------------------------------------------------------------------
(* Properties *)

\* cron.go:127, "the next time strictly after t at which the schedule fires":
\* the result is the earliest matching minute after t, or, when five years hold
\* none, the end of them.  Nothing is jumped over by the skips, however month
\* ends, leap days, changes of offset and the two day fields fall together.
ResultIsFirst ==
    pc = "done" =>
        /\ result \in first..deadline
        /\ Matches(result) \/ result = deadline
        /\ \A u \in first..result - 1 : ~Matches(u)

\* cron.go:135, "without looping forever": the search ends.
SearchEnds == pc = "search" ~> pc = "done"
=============================================================================
