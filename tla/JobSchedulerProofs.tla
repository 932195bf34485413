------------------------- MODULE JobSchedulerProofs -------------------------
(***************************************************************************)
(* FiresInOrder and NoneSkipped for any schedules, expressions, horizon    *)
(* and number of faults.                                                   *)
(***************************************************************************)
EXTENDS JobScheduler, LeastNumber, FiniteSetTheorems, TLAPS

Held == dues \cup firing

\* At most one row is between its two statements, and no schedule is held twice.
OneEach ==
    /\ firing = {} \/ \E d \in DueType : firing = {d}
    /\ \A d, f \in Held : d.id = f.id => d = f
    /\ \A d \in dues : d \notin firing

\* A row held by the scheduler is not ahead of the table, nor of the clock.
HeldIsPast ==
    \A d \in Held : /\ d.next <= now
                    /\ d.next <= table[d.id].next
                    /\ table[d.id].state # "absent"

\* What was fired lies behind what comes next; it may be the same time again
\* only after a fault.
Behind(f, n) == f <= n /\ (faults = 0 => f < n)

FiredIsBehind ==
    \A s \in Schedules : \A i \in 1..Len(fired[s]) :
        /\ fired[s][i] <= now
        /\ table[s].state # "absent"
        /\ \A d \in dues : d.id = s => Behind(fired[s][i], d.next)
        /\ \A d \in firing : d.id = s => fired[s][i] <= d.next
        /\ (\A d \in firing : d.id # s) => Behind(fired[s][i], table[s].next)

\* A row that nobody touches is held as it stands in the table, and once it is
\* fired it is the last that was.
UntouchedHeld ==
    \A d \in Held : d.id \notin Touched =>
        /\ table[d.id].state = "enabled"
        /\ d.expr = table[d.id].expr /\ d.next = table[d.id].next
        /\ d \in firing => /\ fired[d.id] # <<>>
                           /\ fired[d.id][Len(fired[d.id])] = d.next

IInv ==
    /\ TypeOK
    /\ OneEach
    /\ HeldIsPast
    /\ FiredIsBehind
    /\ FiresInOrder
    /\ UntouchedHeld
    /\ NoneSkipped

-----------------------------------------------------------------------------
\* cronSchedule.Next goes forward.
LEMMA NextFireForward ==
    ASSUME NEW e \in Exprs, NEW u \in Nat
    PROVE  NextFire(e, u) \in Nat /\ NextFire(e, u) > u
<1> DEFINE found == {m \in Minutes[e] : u + 1 <= m /\ m <= u + 1 + Horizon}
<1>1. Horizon \in Nat /\ Minutes[e] \subseteq Nat
    BY SchedulerAssumption
<1>2. CASE found = {}
    BY <1>1, <1>2 DEF NextFire, FirstFrom
<1>3. CASE found # {}
    <2>1. found \in SUBSET Nat
        BY <1>1
    <2>2. \E m \in found : \A k \in found : m <= k
        BY <1>3, <2>1, LeastNatural
    <2>3. NextFire(e, u) = CHOOSE m \in found : \A k \in found : m <= k
        BY <1>3 DEF NextFire, FirstFrom
    <2>4. NextFire(e, u) \in found
        BY <2>2, <2>3
    <2> QED  BY <1>1, <2>4
<1> QED  BY <1>2, <1>3

\* The initial state satisfies the invariant.
LEMMA InitIInv == Init => IInv
<1> SUFFICES ASSUME Init PROVE IInv
    OBVIOUS
<1>1. NoRow \in RowType
    BY SchedulerAssumption DEF NoRow, RowType
<1>2. \A s \in Schedules : fired[s] = <<>> /\ Len(fired[s]) = 0 /\ table[s] = NoRow
    BY DEF Init
<1>3. TypeOK
    <2>1. Cardinality(firing) <= 1
        BY FS_EmptySet DEF Init
    <2>2. table \in [Schedules -> RowType] /\ fired \in [Schedules -> Seq(Nat)]
        BY <1>1 DEF Init
    <2> QED  BY <2>1, <2>2, SchedulerAssumption DEF Init, TypeOK
<1>4. OneEach /\ HeldIsPast /\ UntouchedHeld
    BY DEF Init, OneEach, HeldIsPast, UntouchedHeld, Held
<1>5. FiredIsBehind
    BY <1>2 DEF FiredIsBehind
<1>6. FiresInOrder
    BY <1>2 DEF FiresInOrder
<1>7. NoneSkipped
    BY <1>2 DEF NoneSkipped
<1> QED  BY <1>3, <1>4, <1>5, <1>6, <1>7 DEF IInv

\* Schedule: the next run is ahead of the clock, and so of all that was fired.
LEMMA ScheduleIInv ==
    ASSUME NEW s \in Schedules, NEW e \in Exprs, IInv, Schedule(s, e)
    PROVE  IInv'
<1> DEFINE n == NextFire(e, now)
           row == [state |-> "enabled", expr |-> e, next |-> n]
<1>1. /\ TypeOK /\ OneEach /\ HeldIsPast /\ FiredIsBehind /\ FiresInOrder
      /\ UntouchedHeld /\ NoneSkipped
      /\ table[s].state = "absent" \/ s \in Touched
      /\ table' = [table EXCEPT ![s] = row]
      /\ fired' = fired /\ dues' = dues /\ firing' = firing /\ faults' = faults
      /\ now' = now
    BY DEF IInv, Schedule
<1>2. now \in Nat /\ n \in Nat /\ n > now
    BY <1>1, NextFireForward DEF TypeOK
<1> HIDE DEF n
<1>3. row \in RowType /\ row.next = n /\ row.state = "enabled" /\ row.expr = e
    BY <1>2 DEF RowType
<1>4. table \in [Schedules -> RowType]
    BY <1>1 DEF TypeOK
<1> HIDE DEF row
<1>5. /\ table' \in [Schedules -> RowType] /\ table'[s] = row
      /\ \A r \in Schedules : r # s => table'[r] = table[r]
    BY <1>1, <1>3, <1>4
<1>6. TypeOK'
    BY <1>1, <1>5 DEF TypeOK
<1>7. OneEach'
    BY <1>1 DEF OneEach, Held
<1>8. \A d \in Held : d \in DueType /\ d.id \in Schedules /\ d.next \in Nat
    BY <1>1 DEF TypeOK, Held, DueType
<1>9. HeldIsPast'
    <2>1. ASSUME NEW d \in Held
          PROVE  d.next <= now /\ d.next <= table'[d.id].next
                 /\ table'[d.id].state # "absent"
        <3>1. CASE d.id = s
            BY <1>1, <1>2, <1>3, <1>5, <1>8, <3>1 DEF HeldIsPast
        <3>2. CASE d.id # s
            BY <1>1, <1>5, <1>8, <3>2 DEF HeldIsPast
        <3> QED  BY <3>1, <3>2
    <2> QED  BY <1>1, <2>1 DEF HeldIsPast, Held
<1>10. FiredIsBehind'
    <2>1. ASSUME NEW r \in Schedules, NEW i \in 1..Len(fired[r])
          PROVE  /\ fired[r][i] <= now
                 /\ table'[r].state # "absent"
                 /\ \A d \in dues : d.id = r => Behind(fired[r][i], d.next)
                 /\ \A d \in firing : d.id = r => fired[r][i] <= d.next
                 /\ (\A d \in firing : d.id # r) => Behind(fired[r][i], table'[r].next)
        <3>1. fired[r][i] \in Nat
            BY <1>1 DEF TypeOK
        <3>2. CASE r = s
            BY <1>1, <1>2, <1>3, <1>5, <3>1, <3>2 DEF FiredIsBehind, Behind
        <3>3. CASE r # s
            BY <1>1, <1>5, <3>3 DEF FiredIsBehind
        <3> QED  BY <3>2, <3>3
    <2> QED  BY <1>1, <2>1 DEF FiredIsBehind, Behind
<1>11. FiresInOrder'
    BY <1>1 DEF FiresInOrder
<1>12. UntouchedHeld'
    <2>1. ASSUME NEW d \in Held, d.id \notin Touched PROVE d.id # s
        BY <1>1, <1>8, <2>1 DEF HeldIsPast
    <2> QED  BY <1>1, <1>5, <1>8, <2>1 DEF UntouchedHeld, Held
<1>13. NoneSkipped'
    <2>1. ASSUME NEW r \in Schedules \ Touched, fired[r] # <<>> PROVE r # s
        <3>1. fired[r] \in Seq(Nat)
            BY <1>1 DEF TypeOK
        <3>2. 1 \in 1..Len(fired[r])
            BY <2>1, <3>1
        <3>3. table[r].state # "absent"
            BY <1>1, <3>2 DEF FiredIsBehind
        <3> QED  BY <1>1, <3>3
    <2>2. ASSUME NEW r \in Schedules \ Touched
          PROVE  /\ \A i \in 1..(Len(fired[r]) - 1) :
                      fired[r][i + 1] \in {fired[r][i], NextFire(table'[r].expr, fired[r][i])}
                 /\ table'[r].state = "enabled" /\ fired[r] # <<>> =>
                      LET last == fired[r][Len(fired[r])]
                      IN  table'[r].next \in {last, NextFire(table'[r].expr, last)}
        <3>1. CASE fired[r] = <<>>
            BY <3>1
        <3>2. CASE fired[r] # <<>>
            BY <1>1, <1>5, <2>1, <3>2 DEF NoneSkipped
        <3> QED  BY <3>1, <3>2
    <2> QED  BY <1>1, <2>2 DEF NoneSkipped, NextFire
<1> QED  BY <1>6, <1>7, <1>9, <1>10, <1>11, <1>12, <1>13 DEF IInv

\* Unschedule: only a touched row is disabled.
LEMMA UnscheduleIInv ==
    ASSUME NEW s \in Schedules, IInv, Unschedule(s)
    PROVE  IInv'
<1>1. /\ TypeOK /\ OneEach /\ HeldIsPast /\ FiredIsBehind /\ FiresInOrder
      /\ UntouchedHeld /\ NoneSkipped
      /\ s \in Touched
      /\ table' = [table EXCEPT ![s].state = "disabled"]
      /\ fired' = fired /\ dues' = dues /\ firing' = firing /\ faults' = faults
      /\ now' = now
    BY DEF IInv, Unschedule
<1>2. table \in [Schedules -> RowType] /\ table[s] \in RowType
    BY <1>1 DEF TypeOK
<1>3. table'[s] = [table[s] EXCEPT !.state = "disabled"]
    BY <1>1, <1>2
<1>4. /\ table'[s] \in RowType /\ table'[s].state = "disabled"
      /\ table'[s].next = table[s].next /\ table'[s].expr = table[s].expr
    BY <1>2, <1>3 DEF RowType
<1>5. /\ table' \in [Schedules -> RowType]
      /\ \A r \in Schedules : r # s => table'[r] = table[r]
    <2>1. \A r \in Schedules : r # s => table'[r] = table[r]
        BY <1>1, <1>2
    <2>2. \A r \in Schedules : table'[r] \in RowType
        BY <1>2, <1>4, <2>1
    <2> QED  BY <1>1, <1>2, <2>1, <2>2
<1>6. \A r \in Schedules : /\ table'[r].next = table[r].next
                           /\ table'[r].state = "absent" => table[r].state = "absent"
    BY <1>4, <1>5
<1>7. \A d \in Held : d \in DueType /\ d.id \in Schedules /\ d.next \in Nat
    BY <1>1 DEF TypeOK, Held, DueType
<1>8. TypeOK'
    BY <1>1, <1>5 DEF TypeOK
<1>9. OneEach'
    BY <1>1 DEF OneEach, Held
<1>10. HeldIsPast'
    BY <1>1, <1>6, <1>7 DEF HeldIsPast, Held
<1>11. FiredIsBehind'
    BY <1>1, <1>6 DEF FiredIsBehind, Behind
<1>12. FiresInOrder'
    BY <1>1 DEF FiresInOrder
<1>13. UntouchedHeld'
    BY <1>1, <1>5, <1>7 DEF UntouchedHeld, Held
<1>14. NoneSkipped'
    <2>1. \A r \in Schedules \ Touched : table'[r] = table[r]
        BY <1>1, <1>5
    <2> QED  BY <1>1, <2>1 DEF NoneSkipped
<1> QED  BY <1>8, <1>9, <1>10, <1>11, <1>12, <1>13, <1>14 DEF IInv

\* Query: the due rows are taken as they stand.
LEMMA QueryIInv == IInv /\ Query => IInv'
<1> SUFFICES ASSUME IInv, Query PROVE IInv'
    OBVIOUS
<1> DEFINE D(s) == [id |-> s, expr |-> table[s].expr, next |-> table[s].next]
<1>1. /\ TypeOK /\ OneEach /\ HeldIsPast /\ FiredIsBehind /\ FiresInOrder
      /\ UntouchedHeld /\ NoneSkipped
      /\ dues = {} /\ firing = {}
      /\ dues' = {D(s) : s \in Due}
      /\ UNCHANGED <<table, fired, firing, faults, now>>
    BY DEF IInv, Query
<1>2. \A s \in Due : s \in Schedules /\ table[s].state = "enabled" /\ table[s].next <= now
    BY DEF Due
<1>3. \A s \in Schedules : /\ table[s].expr \in Exprs /\ table[s].next \in Nat
    BY <1>1 DEF TypeOK, RowType
<1>4. \A s \in Due : D(s) \in DueType
    BY <1>2, <1>3 DEF DueType
<1>5. ASSUME NEW d \in dues'
      PROVE  /\ d \in DueType /\ d.id \in Due
             /\ d.expr = table[d.id].expr /\ d.next = table[d.id].next
             /\ d = D(d.id)
    <2>1. PICK s \in Due : d = D(s)
        BY <1>1
    <2> QED  BY <1>4, <2>1
<1>6. TypeOK'
    BY <1>1, <1>5 DEF TypeOK
<1> HIDE DEF D
<1>7. OneEach'
    BY <1>1, <1>5 DEF OneEach, Held
<1>8. HeldIsPast'
    BY <1>1, <1>2, <1>3, <1>5 DEF HeldIsPast, Held
<1>9. FiredIsBehind'
    BY <1>1, <1>2, <1>3, <1>5 DEF FiredIsBehind, Behind
<1>10. FiresInOrder'
    BY <1>1 DEF FiresInOrder
<1>11. UntouchedHeld'
    BY <1>1, <1>2, <1>5 DEF UntouchedHeld, Held
<1>12. NoneSkipped'
    BY <1>1 DEF NoneSkipped
<1> QED  BY <1>6, <1>7, <1>8, <1>9, <1>10, <1>11, <1>12 DEF IInv

\* Insert: the time fired is behind none of those fired before.
LEMMA InsertIInv ==
    ASSUME NEW d \in dues, IInv, Insert(d)
    PROVE  IInv'
<1> DEFINE s == d.id
           old == fired[s]
           new == Append(old, d.next)
<1>1. /\ TypeOK /\ OneEach /\ HeldIsPast /\ FiredIsBehind /\ FiresInOrder
      /\ UntouchedHeld /\ NoneSkipped
      /\ firing = {} /\ firing' = {d} /\ dues' = dues \ {d}
      /\ fired' = [fired EXCEPT ![s] = new]
      /\ UNCHANGED <<table, faults, now>>
    BY DEF IInv, Insert
<1>2. d \in DueType /\ s \in Schedules /\ d.next \in Nat /\ d.expr \in Exprs /\ d \in Held
    BY <1>1 DEF TypeOK, DueType, Held
<1>3. fired \in [Schedules -> Seq(Nat)] /\ old \in Seq(Nat) /\ now \in Nat
    BY <1>1, <1>2 DEF TypeOK
<1>4. /\ new \in Seq(Nat) /\ Len(new) = Len(old) + 1 /\ new[Len(old) + 1] = d.next
      /\ \A i \in 1..Len(old) : new[i] = old[i]
      /\ Len(old) \in Nat
    BY <1>2, <1>3
<1>5. /\ fired' \in [Schedules -> Seq(Nat)] /\ fired'[s] = new
      /\ \A r \in Schedules : r # s => fired'[r] = fired[r]
    BY <1>1, <1>2, <1>3, <1>4
<1>6. d.next <= now /\ d.next <= table[s].next /\ table[s].state # "absent"
    BY <1>1, <1>2 DEF HeldIsPast
<1>7. \A i \in 1..Len(old) : Behind(old[i], d.next)
    BY <1>1, <1>2 DEF FiredIsBehind
<1>8. Held' = Held /\ \A f \in dues' : f \in dues /\ f.id # s /\ f.id \in Schedules
    <2>1. Held' = Held
        BY <1>1 DEF Held
    <2>2. \A f \in dues' : f \in dues /\ f # d /\ f \in Held
        BY <1>1 DEF Held
    <2> QED  BY <1>1, <1>2, <2>1, <2>2 DEF OneEach, TypeOK, DueType
<1> HIDE DEF s, old, new
<1>9. TypeOK'
    <2>1. Cardinality(firing') <= 1
        BY <1>1, FS_Singleton
    <2>2. firing' \subseteq DueType /\ dues' \subseteq DueType
        BY <1>1, <1>2 DEF TypeOK
    <2> QED  BY <1>1, <1>5, <2>1, <2>2 DEF TypeOK
<1>10. OneEach'
    BY <1>1, <1>2, <1>8 DEF OneEach
<1>11. HeldIsPast'
    BY <1>1, <1>8 DEF HeldIsPast
<1>12. FiredIsBehind'
    <2>1. ASSUME NEW r \in Schedules, NEW i \in 1..Len(fired'[r])
          PROVE  /\ fired'[r][i] <= now
                 /\ table[r].state # "absent"
                 /\ \A f \in dues' : f.id = r => Behind(fired'[r][i], f.next)
                 /\ \A f \in firing' : f.id = r => fired'[r][i] <= f.next
                 /\ (\A f \in firing' : f.id # r) => Behind(fired'[r][i], table[r].next)
        <3>1. CASE r = s
            <4>1. fired'[r][i] <= now /\ fired'[r][i] <= d.next
                <5>1. CASE i = Len(old) + 1
                    BY <1>2, <1>4, <1>5, <1>6, <3>1, <5>1
                <5>2. CASE i # Len(old) + 1
                    <6>1. i \in 1..Len(old) /\ fired'[r][i] = old[i]
                        BY <1>4, <1>5, <3>1, <5>2
                    <6>2. old[i] \in Nat /\ old[i] <= d.next
                        BY <1>3, <1>7, <6>1 DEF Behind
                    <6> QED  BY <1>2, <1>3, <1>6, <6>1, <6>2
                <5> QED  BY <5>1, <5>2
            <4> QED  BY <1>1, <1>6, <1>8, <3>1, <4>1 DEF s
        <3>2. CASE r # s
            <4>1. fired'[r] = fired[r]
                BY <1>5, <3>2
            <4> QED  BY <1>1, <1>8, <3>2, <4>1 DEF FiredIsBehind, s
        <3> QED  BY <3>1, <3>2
    <2> QED  BY <1>1, <2>1 DEF FiredIsBehind, Behind
<1>13. FiresInOrder'
    <2>1. ASSUME NEW r \in Schedules, NEW i \in 1..Len(fired'[r]),
                 NEW k \in 1..Len(fired'[r]), i < k
          PROVE  \/ fired'[r][i] < fired'[r][k]
                 \/ faults > 0 /\ fired'[r][i] = fired'[r][k]
        <3>1. CASE r # s
            BY <1>1, <1>5, <2>1, <3>1 DEF FiresInOrder
        <3>2. CASE r = s /\ k # Len(old) + 1
            <4>1. i \in 1..Len(old) /\ k \in 1..Len(old)
                BY <1>4, <1>5, <2>1, <3>2
            <4>2. fired'[r][i] = old[i] /\ fired'[r][k] = old[k] /\ old = fired[r]
                BY <1>4, <1>5, <3>2, <4>1 DEF old
            <4> QED  BY <1>1, <2>1, <4>1, <4>2 DEF FiresInOrder
        <3>3. CASE r = s /\ k = Len(old) + 1
            <4>1. i \in 1..Len(old)
                BY <1>4, <1>5, <2>1, <3>3
            <4>2. fired'[r][i] = old[i] /\ fired'[r][k] = d.next /\ old[i] \in Nat
                BY <1>3, <1>4, <1>5, <3>3, <4>1
            <4>3. faults \in Nat
                BY <1>1, SchedulerAssumption DEF TypeOK
            <4> QED  BY <1>2, <1>7, <4>1, <4>2, <4>3 DEF Behind
        <3> QED  BY <3>1, <3>2, <3>3
    <2> QED  BY <1>1, <2>1 DEF FiresInOrder
<1>14. UntouchedHeld'
    <2>1. ASSUME NEW f \in Held, f.id \notin Touched
          PROVE  /\ table[f.id].state = "enabled"
                 /\ f.expr = table[f.id].expr /\ f.next = table[f.id].next
                 /\ f \in firing' => /\ fired'[f.id] # <<>>
                                     /\ fired'[f.id][Len(fired'[f.id])] = f.next
        <3>1. /\ table[f.id].state = "enabled"
              /\ f.expr = table[f.id].expr /\ f.next = table[f.id].next
            BY <1>1, <2>1 DEF UntouchedHeld
        <3>2. f \in firing' => f = d
            BY <1>1
        <3>3. fired'[d.id] # <<>> /\ fired'[d.id][Len(fired'[d.id])] = d.next
            BY <1>4, <1>5 DEF s
        <3> QED  BY <3>1, <3>2, <3>3
    <2> QED  BY <1>1, <1>8, <2>1 DEF UntouchedHeld
<1>15. NoneSkipped'
    <2>1. ASSUME NEW r \in Schedules \ Touched
          PROVE  /\ \A i \in 1..(Len(fired'[r]) - 1) :
                      fired'[r][i + 1] \in {fired'[r][i], NextFire(table[r].expr, fired'[r][i])}
                 /\ table[r].state = "enabled" /\ fired'[r] # <<>> =>
                      LET last == fired'[r][Len(fired'[r])]
                      IN  table[r].next \in {last, NextFire(table[r].expr, last)}
        <3>1. CASE r # s
            BY <1>1, <1>5, <3>1 DEF NoneSkipped
        <3>2. CASE r = s
            <4>1. table[r].state = "enabled" /\ d.next = table[r].next
                BY <1>1, <1>2, <3>2 DEF UntouchedHeld, s
            <4>2. ASSUME NEW i \in 1..Len(old)
                  PROVE  new[i + 1] \in {new[i], NextFire(table[r].expr, new[i])}
                <5>1. CASE i = Len(old)
                    <6>1. old # <<>> /\ old = fired[r]
                        BY <1>4, <3>2, <5>1 DEF old
                    <6>2. table[r].next \in {old[i], NextFire(table[r].expr, old[i])}
                        BY <1>1, <4>1, <5>1, <6>1 DEF NoneSkipped
                    <6> QED  BY <1>4, <4>1, <5>1, <6>2
                <5>2. CASE i # Len(old)
                    <6>1. i \in 1..(Len(old) - 1) /\ i + 1 \in 1..Len(old)
                        BY <1>4, <5>2
                    <6>2. old[i + 1] \in {old[i], NextFire(table[r].expr, old[i])}
                        BY <1>1, <3>2, <6>1 DEF NoneSkipped, old
                    <6> QED  BY <1>4, <6>1, <6>2
                <5> QED  BY <5>1, <5>2
            <4>3. fired'[r] = new /\ Len(new) - 1 = Len(old) /\ new[Len(new)] = table[r].next
                BY <1>4, <1>5, <3>2, <4>1
            <4> QED  BY <4>2, <4>3
        <3> QED  BY <3>1, <3>2
    <2> QED  BY <1>1, <2>1 DEF NoneSkipped
<1> QED  BY <1>9, <1>10, <1>11, <1>12, <1>13, <1>14, <1>15 DEF IInv

\* A fault (InsertFails, AdvanceFails, Crash) drops rows that are held.  A row
\* that was fired and is dropped may be fired again.
LEMMA FaultIInv ==
    ASSUME IInv, dues' \subseteq dues, firing' \in {{}, firing}, Fault,
           UNCHANGED <<table, fired, now>>
    PROVE  IInv'
<1>1. /\ TypeOK /\ OneEach /\ HeldIsPast /\ FiredIsBehind /\ FiresInOrder
      /\ UntouchedHeld /\ NoneSkipped
      /\ table' = table /\ fired' = fired /\ now' = now
      /\ faults' = faults + 1 /\ faults < MaxFaults
    BY DEF IInv, Fault
<1>2. faults \in Nat /\ faults' \in 0..MaxFaults /\ faults' > 0
    BY <1>1, SchedulerAssumption DEF TypeOK
<1>3. Held' \subseteq Held /\ firing' \subseteq firing /\ dues' \subseteq dues
    BY DEF Held
<1>4. TypeOK'
    <2>1. Cardinality(firing') <= 1
        <3>1. CASE firing' = {}
            BY <3>1, FS_EmptySet
        <3>2. CASE firing' = firing
            BY <1>1, <3>2 DEF TypeOK
        <3> QED  BY <3>1, <3>2
    <2> QED  BY <1>1, <1>2, <1>3, <2>1 DEF TypeOK
<1>5. OneEach'
    BY <1>1, <1>3 DEF OneEach
<1>6. HeldIsPast'
    BY <1>1, <1>3 DEF HeldIsPast
<1>7. FiredIsBehind'
    <2>1. ASSUME NEW s \in Schedules, NEW i \in 1..Len(fired[s])
          PROVE  /\ fired[s][i] <= now /\ table[s].state # "absent"
                 /\ \A d \in dues : d.id = s => fired[s][i] <= d.next
                 /\ \A d \in firing : d.id = s => fired[s][i] <= d.next
                 /\ fired[s][i] <= table[s].next
        <3>1. /\ fired[s][i] <= now /\ table[s].state # "absent"
              /\ \A d \in dues : d.id = s => fired[s][i] <= d.next
              /\ \A d \in firing : d.id = s => fired[s][i] <= d.next
              /\ (\A d \in firing : d.id # s) => fired[s][i] <= table[s].next
            BY <1>1 DEF FiredIsBehind, Behind
        <3>2. ASSUME NEW d \in firing, d.id = s PROVE fired[s][i] <= table[s].next
            <4>1. d \in Held /\ d \in DueType
                BY <1>1 DEF Held, TypeOK
            <4>2. d.next <= table[s].next /\ d.next \in Nat
                BY <1>1, <3>2, <4>1 DEF HeldIsPast, DueType
            <4>3. fired[s][i] \in Nat /\ table[s].next \in Nat
                BY <1>1 DEF TypeOK, RowType
            <4>4. fired[s][i] <= d.next
                BY <3>1, <3>2
            <4> QED  BY <4>2, <4>3, <4>4
        <3> QED  BY <3>1, <3>2
    <2> QED  BY <1>1, <1>2, <1>3, <2>1 DEF FiredIsBehind, Behind
<1>8. FiresInOrder'
    <2>1. ASSUME NEW s \in Schedules,
                 NEW i \in 1..Len(fired[s]), NEW k \in 1..Len(fired[s]), i < k
          PROVE  fired[s][i] < fired[s][k] \/ fired[s][i] = fired[s][k]
        BY <1>1, <2>1 DEF FiresInOrder
    <2>2. \A s \in Schedules : \A i, k \in 1..Len(fired'[s]) :
            i < k => \/ fired'[s][i] < fired'[s][k]
                     \/ faults' > 0 /\ fired'[s][i] = fired'[s][k]
        BY <1>1, <1>2, <2>1
    <2> QED  BY <2>2 DEF FiresInOrder
<1>9. UntouchedHeld'
    BY <1>1, <1>3 DEF UntouchedHeld
<1>10. NoneSkipped'
    BY <1>1 DEF NoneSkipped
<1> QED  BY <1>4, <1>5, <1>6, <1>7, <1>8, <1>9, <1>10 DEF IInv

\* Advance: the next run is behind the one that was fired.
LEMMA AdvanceIInv ==
    ASSUME NEW d \in firing, IInv, Advance(d)
    PROVE  IInv'
<1> DEFINE s == d.id
           n == NextFire(d.expr, d.next)
<1>1. /\ TypeOK /\ OneEach /\ HeldIsPast /\ FiredIsBehind /\ FiresInOrder
      /\ UntouchedHeld /\ NoneSkipped
      /\ table' = [table EXCEPT ![s].next = n]
      /\ firing' = {}
      /\ UNCHANGED <<fired, dues, faults, now>>
    BY DEF IInv, Advance
<1>2. /\ d \in DueType /\ s \in Schedules /\ d.next \in Nat /\ d.expr \in Exprs
      /\ d \in Held
    BY <1>1 DEF TypeOK, DueType, Held
<1>3. n \in Nat /\ n > d.next
    BY <1>2, NextFireForward
<1>4. table \in [Schedules -> RowType] /\ table[s] \in RowType
    BY <1>1, <1>2 DEF TypeOK
<1> HIDE DEF n, s
<1>5. /\ table'[s].next = n /\ table'[s].state = table[s].state
      /\ table'[s].expr = table[s].expr /\ table'[s] \in RowType
      /\ \A r \in Schedules : r # s => table'[r] = table[r]
    <2>1. table'[s] = [table[s] EXCEPT !.next = n]
        BY <1>1, <1>2, <1>4
    <2>2. \A r \in Schedules : r # s => table'[r] = table[r]
        BY <1>1, <1>4
    <2> QED  BY <1>3, <1>4, <2>1, <2>2 DEF RowType
<1>6. table' \in [Schedules -> RowType]
    <2>1. \A r \in Schedules : table'[r] \in RowType
        BY <1>4, <1>5
    <2> QED  BY <1>1, <1>4, <2>1
<1>7. \A f \in dues : f \in Held /\ f.id # s /\ f.id \in Schedules
    <2>1. \A f \in dues : f \in Held /\ f # d
        BY <1>1 DEF Held, OneEach
    <2> QED  BY <1>1, <1>2, <2>1 DEF OneEach, TypeOK, DueType, s
<1>8. Held' = dues /\ dues' = dues /\ firing = {d}
    BY <1>1 DEF Held, OneEach
<1>9. TypeOK'
    BY <1>1, <1>6, FS_EmptySet DEF TypeOK
<1>10. OneEach'
    BY <1>1, <1>7, <1>8 DEF OneEach
<1>11. HeldIsPast'
    BY <1>1, <1>5, <1>7, <1>8 DEF HeldIsPast
<1>12. FiredIsBehind'
    <2>1. ASSUME NEW r \in Schedules, NEW i \in 1..Len(fired[r])
          PROVE  /\ fired[r][i] <= now /\ table'[r].state # "absent"
                 /\ \A f \in dues : f.id = r => Behind(fired[r][i], f.next)
                 /\ Behind(fired[r][i], table'[r].next)
        <3>1. fired[r][i] \in Nat
            BY <1>1 DEF TypeOK
        <3>2. CASE r = s
            <4>1. fired[r][i] <= d.next
                BY <1>1, <3>2 DEF FiredIsBehind, s
            <4> QED  BY <1>1, <1>2, <1>3, <1>5, <3>1, <3>2, <4>1 DEF FiredIsBehind, Behind
        <3>3. CASE r # s
            BY <1>1, <1>5, <1>8, <3>3 DEF FiredIsBehind, s
        <3> QED  BY <3>2, <3>3
    <2> QED  BY <1>1, <2>1 DEF FiredIsBehind, Behind
<1>13. FiresInOrder'
    BY <1>1 DEF FiresInOrder
<1>14. UntouchedHeld'
    BY <1>1, <1>5, <1>7, <1>8 DEF UntouchedHeld
<1>15. NoneSkipped'
    <2>1. ASSUME NEW r \in Schedules \ Touched
          PROVE  /\ table'[r].expr = table[r].expr
                 /\ table'[r].state = "enabled" /\ fired[r] # <<>> =>
                      LET last == fired[r][Len(fired[r])]
                      IN  table'[r].next \in {last, NextFire(table[r].expr, last)}
        <3>1. CASE r = s
            <4>1. d.expr = table[r].expr /\ fired[r][Len(fired[r])] = d.next
                BY <1>1, <1>2, <3>1 DEF UntouchedHeld, s
            <4> QED  BY <1>5, <3>1, <4>1 DEF n
        <3>2. CASE r # s
            BY <1>1, <1>5, <3>2 DEF NoneSkipped
        <3> QED  BY <3>1, <3>2
    <2> QED  BY <1>1, <2>1 DEF NoneSkipped
<1> QED  BY <1>9, <1>10, <1>11, <1>12, <1>13, <1>14, <1>15 DEF IInv

\* The clock moves on.
LEMMA TickIInv == IInv /\ Tick => IInv'
<1> SUFFICES ASSUME IInv, Tick PROVE IInv'
    OBVIOUS
<1>1. /\ TypeOK /\ OneEach /\ HeldIsPast /\ FiredIsBehind /\ FiresInOrder
      /\ UntouchedHeld /\ NoneSkipped /\ now' = now + 1
      /\ table' = table /\ fired' = fired /\ dues' = dues /\ firing' = firing
      /\ faults' = faults
    BY DEF IInv, Tick
<1>2. now \in Nat /\ \A s \in Schedules : \A i \in 1..Len(fired[s]) : fired[s][i] \in Nat
    BY <1>1 DEF TypeOK
<1>3. TypeOK'
    BY <1>1, <1>2 DEF TypeOK
<1>4. \A d \in Held : d.next \in Nat
    BY <1>1 DEF Held, TypeOK, DueType
<1>5. HeldIsPast'
    BY <1>1, <1>2, <1>4 DEF HeldIsPast, Held
<1>6. FiredIsBehind'
    BY <1>1, <1>2 DEF FiredIsBehind, Behind
<1>7. OneEach' /\ FiresInOrder'
    BY <1>1 DEF OneEach, FiresInOrder, Held
<1>8. UntouchedHeld' /\ NoneSkipped'
    BY <1>1 DEF UntouchedHeld, NoneSkipped, Held
<1> QED  BY <1>3, <1>5, <1>6, <1>7, <1>8 DEF IInv

\* Every step keeps the invariant.
LEMMA NextIInv == IInv /\ [Next]_vars => IInv'
<1> SUFFICES ASSUME IInv, [Next]_vars PROVE IInv'
    OBVIOUS
<1>1. CASE UNCHANGED vars
    BY <1>1 DEF IInv, TypeOK, OneEach, HeldIsPast, FiredIsBehind, Behind, FiresInOrder,
                UntouchedHeld, NoneSkipped, Held, vars
<1>2. CASE \E s \in Schedules : \/ \E e \in Exprs : Schedule(s, e)
                                \/ Unschedule(s)
    BY <1>2, ScheduleIInv, UnscheduleIInv
<1>3. CASE Query
    BY <1>3, QueryIInv
<1>4. CASE \E d \in dues : Insert(d) \/ InsertFails(d)
    <2>1. PICK d \in dues : Insert(d) \/ InsertFails(d)
        BY <1>4
    <2>2. CASE Insert(d)
        BY <2>2, InsertIInv
    <2>3. CASE InsertFails(d)
        BY <2>3, FaultIInv DEF InsertFails
    <2> QED  BY <2>1, <2>2, <2>3
<1>5. CASE \E d \in firing : Advance(d) \/ AdvanceFails(d)
    <2>1. PICK d \in firing : Advance(d) \/ AdvanceFails(d)
        BY <1>5
    <2>2. CASE Advance(d)
        BY <2>2, AdvanceIInv
    <2>3. CASE AdvanceFails(d)
        BY <2>3, FaultIInv DEF AdvanceFails
    <2> QED  BY <2>1, <2>2, <2>3
<1>6. CASE Crash
    BY <1>6, FaultIInv DEF Crash
<1>7. CASE Tick
    BY <1>7, TickIInv
<1>8. CASE Wait
    BY <1>1, <1>8 DEF Wait
<1> QED  BY <1>1, <1>2, <1>3, <1>4, <1>5, <1>6, <1>7, <1>8 DEF Next, SchedulerStep

-----------------------------------------------------------------------------
\* The state of the scheduler has its type; in particular at most one row is
\* between its INSERT and its UPDATE.
THEOREM TypeCorrect == Spec => []TypeOK
<1>1. IInv => TypeOK
    BY DEF IInv
<1> QED  BY InitIInv, NextIInv, <1>1, PTL DEF Spec

\* Whatever Schedule and Unschedule do between two statements, the times of a
\* schedule are fired in order, and none twice without a fault.
THEOREM InOrder == Spec => []FiresInOrder
<1>1. IInv => FiresInOrder
    BY DEF IInv
<1> QED  BY InitIInv, NextIInv, <1>1, PTL DEF Spec

\* A schedule that nobody touches misses none of its times, whatever fails.
THEOREM NothingMissed == Spec => []NoneSkipped
<1>1. IInv => NoneSkipped
    BY DEF IInv
<1> QED  BY InitIInv, NextIInv, <1>1, PTL DEF Spec

=============================================================================
