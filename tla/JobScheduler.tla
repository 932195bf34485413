---------------------------- MODULE JobScheduler ----------------------------
(***************************************************************************)
(* Recurring jobs: the table colmena_jobs_schedule, Schedule and           *)
(* Unschedule (src/jobs/enqueue.go), and the scheduler goroutine           *)
(* (src/jobs/scheduler.go), which reads the due rows with one statement    *)
(* and then, for each, inserts a job and advances the row with two more.   *)
(* Callers, crashes and failing statements may come between any two.       *)
(*                                                                         *)
(* An expression is the set of minutes it matches, empty for one that      *)
(* never does; module Cron shows that Next finds the first of them.  Left  *)
(* out: the payload, the job type, last_run_at (nothing reads it) and      *)
(* expressions that parseCron rejects (Schedule never stores one).  The    *)
(* inserted job has no unique key, and the queue treats it like any other. *)
(***************************************************************************)
EXTENDS Integers, Sequences, FiniteSets

CONSTANTS
    Schedules,   \* ids of recurring jobs
    Exprs,       \* the cron expressions in use
    Minutes,     \* for each, the minutes it matches
    Horizon,     \* how far Next searches before it gives up
    Touched,     \* those that callers schedule again, or unschedule, at any time
    MaxFaults,   \* bound of the model: crashes and failing statements
    MaxTime      \* bound of the model: the clock stops here

ASSUME SchedulerAssumption ==
    /\ Exprs # {}
    /\ Minutes \in [Exprs -> SUBSET Nat]
    /\ Horizon \in Nat
    /\ Touched \subseteq Schedules
    /\ MaxFaults \in Nat
    /\ MaxTime \in Nat

VARIABLES
    table,   \* the rows of colmena_jobs_schedule
    fired,   \* for each schedule, the run_at of the jobs inserted for it
    dues,    \* the rows the scheduler has still to fire, as it read them
    firing,  \* the row it has fired and not yet advanced, if any
    faults,  \* crashes and failed statements so far
    now

vars == <<table, fired, dues, firing, faults, now>>

RowType == [state : {"absent", "enabled", "disabled"}, expr : Exprs, next : Nat]
DueType == [id : Schedules, expr : Exprs, next : Nat]
NoRow == [state |-> "absent", expr |-> CHOOSE e \in Exprs : TRUE, next |-> 0]

TypeOK ==
    /\ table \in [Schedules -> RowType]
    /\ fired \in [Schedules -> Seq(Nat)]
    /\ dues \subseteq DueType
    /\ firing \subseteq DueType
    /\ Cardinality(firing) <= 1
    /\ faults \in 0..MaxFaults
    /\ now \in Nat

Init ==
    /\ table = [s \in Schedules |-> NoRow]
    /\ fired = [s \in Schedules |-> <<>>]
    /\ dues = {} /\ firing = {}
    /\ faults = 0 /\ now = 0

\* cronSchedule.Next: the first matching minute from t on, or the deadline.
FirstFrom(e, t) ==
    LET found == {m \in Minutes[e] : t <= m /\ m <= t + Horizon}
    IN  IF found = {} THEN t + Horizon
        ELSE CHOOSE m \in found : \A k \in found : m <= k

\* (mutant) The search begins at t, not behind it.
NextAtOrAfter(e, t) == FirstFrom(e, t)

NextFire(e, t) == FirstFrom(e, t + 1)

-----------------------------------------------------------------------------
(* The callers *)

\* INSERT ... ON CONFLICT DO UPDATE: the next run is counted from now.
Schedule(s, e) ==
    /\ table[s].state = "absent" \/ s \in Touched
    /\ table' = [table EXCEPT
                   ![s] = [state |-> "enabled", expr |-> e, next |-> NextFire(e, now)]]
    /\ UNCHANGED <<fired, dues, firing, faults, now>>

Unschedule(s) ==
    /\ s \in Touched
    /\ table[s].state = "enabled"
    /\ table' = [table EXCEPT ![s].state = "disabled"]
    /\ UNCHANGED <<fired, dues, firing, faults, now>>

-----------------------------------------------------------------------------
(* The scheduler goroutine *)

Fault == faults < MaxFaults /\ faults' = faults + 1

Due == {s \in Schedules : table[s].state = "enabled" /\ table[s].next <= now}

\* The SELECT of schedulerOnce.
Query ==
    /\ dues = {} /\ firing = {}
    /\ Due # {}
    /\ dues' = {[id |-> s, expr |-> table[s].expr, next |-> table[s].next] : s \in Due}
    /\ UNCHANGED <<table, fired, firing, faults, now>>

\* (mutant) All jobs are inserted before the rows are advanced.
InsertAhead(d) ==
    /\ d \in dues
    /\ fired' = [fired EXCEPT ![d.id] = Append(@, d.next)]
    /\ dues' = dues \ {d}
    /\ firing' = firing \cup {d}
    /\ UNCHANGED <<table, faults, now>>

\* The INSERT into colmena_jobs, with the due time as its run_at.
Insert(d) ==
    /\ firing = {}
    /\ d \in dues
    /\ fired' = [fired EXCEPT ![d.id] = Append(@, d.next)]
    /\ dues' = dues \ {d}
    /\ firing' = {d}
    /\ UNCHANGED <<table, faults, now>>

\* (mutant) The row is advanced all the same.
InsertFailsMovesOn(d) ==
    /\ Fault
    /\ firing = {}
    /\ d \in dues
    /\ dues' = dues \ {d}
    /\ firing' = {d}
    /\ UNCHANGED <<table, fired, now>>

\* A failed INSERT leaves the row due, for the next round.
InsertFails(d) ==
    /\ Fault
    /\ firing = {}
    /\ d \in dues
    /\ dues' = dues \ {d}
    /\ UNCHANGED <<table, fired, firing, now>>

\* (mutant) The next run is counted from the clock.
AdvanceFromNow(d) ==
    /\ d \in firing
    /\ table' = [table EXCEPT ![d.id].next = NextFire(d.expr, now)]
    /\ firing' = {}
    /\ UNCHANGED <<fired, dues, faults, now>>

\* The UPDATE of next_run_at says WHERE id = ? and nothing else; it counts from
\* the time that was fired, by the expression that was read.
Advance(d) ==
    /\ d \in firing
    /\ table' = [table EXCEPT ![d.id].next = NextFire(d.expr, d.next)]
    /\ firing' = {}
    /\ UNCHANGED <<fired, dues, faults, now>>

AdvanceFails(d) ==
    /\ Fault
    /\ d \in firing
    /\ firing' = {}
    /\ UNCHANGED <<table, fired, dues, now>>

\* A crash, or Close and a new process.
Crash ==
    /\ Fault
    /\ dues # {} \/ firing # {}
    /\ dues' = {} /\ firing' = {}
    /\ UNCHANGED <<table, fired, now>>

Tick ==
    /\ now < MaxTime
    /\ now' = now + 1
    /\ UNCHANGED <<table, fired, dues, firing, faults>>

\* The loop waits for its ticker; nothing is due.
Wait ==
    /\ dues = {} /\ firing = {} /\ Due = {}
    /\ UNCHANGED vars

-----------------------------------------------------------------------------

SchedulerStep ==
    \/ Query
    \/ \E d \in dues : Insert(d) \/ InsertFails(d)
    \/ \E d \in firing : Advance(d) \/ AdvanceFails(d)

Next ==
    \/ \E s \in Schedules : \/ \E e \in Exprs : Schedule(s, e)
                            \/ Unschedule(s)
    \/ SchedulerStep \/ Crash \/ Tick \/ Wait

Spec == Init /\ [][Next]_vars

\* The goroutine keeps running; its ticker comes again.
Fairness == WF_vars(SchedulerStep)

FairSpec == Spec /\ Fairness

-----------------------------------------------------------------------------
(* Properties *)

\* The jobs of one schedule are inserted for ever later times, whatever Schedule
\* and Unschedule do between the statements of a round: the advance is strictly
\* behind the time fired, and Schedule counts from now.  Only a crash or a failing
\* statement lets a time be fired again.
FiresInOrder ==
    \A s \in Schedules : \A i, k \in 1..Len(fired[s]) :
        i < k => \/ fired[s][i] < fired[s][k]
                 \/ faults > 0 /\ fired[s][i] = fired[s][k]

\* scheduler.go:13, "guarantees no double-firing": no time is fired twice.
FiredOnce ==
    \A s \in Schedules : \A i, k \in 1..Len(fired[s]) :
        i < k => fired[s][i] # fired[s][k]

\* A recurring job that nobody touches misses no fire time: the times it was
\* fired for, and its next run, are consecutive or the same, however late the
\* rounds are and whatever fails between two statements.
NoneSkipped ==
    \A s \in Schedules \ Touched :
        /\ \A i \in 1..(Len(fired[s]) - 1) :
             fired[s][i + 1] \in {fired[s][i], NextFire(table[s].expr, fired[s][i])}
        /\ table[s].state = "enabled" /\ fired[s] # <<>> =>
             LET last == fired[s][Len(fired[s])]
             IN  table[s].next \in {last, NextFire(table[s].expr, last)}

\* enqueue.go: "its expression and payload are updated and next_run_at is
\* recomputed".  The next run of a schedule is one of its expression's.
NextFollowsExpression ==
    \A s \in Schedules :
        table[s].state # "absent" => table[s].next \in Minutes[table[s].expr]

\* scheduler.go: "We don't fan out missed ticks: if the scheduler was paused,
\* only one job is created when it wakes".  Once a due schedule has been fired
\* and advanced, it is no longer due.
OneJobPerWake ==
    [][\A d \in firing : Advance(d) => table'[d.id].next > now]_vars

\* A due schedule that nobody touches is fired for its due time and then moved
\* on; crashes and failing statements only delay it.
DueIsFired ==
    \A s \in Schedules \ Touched, t \in 0..MaxTime :
        table[s].state = "enabled" /\ table[s].next = t /\ t <= now
            ~> table[s].next > t /\ \E i \in 1..Len(fired[s]) : fired[s][i] = t
=============================================================================
