--------------------------- MODULE JobQueueProofs ---------------------------
(***************************************************************************)
(* What the job queue guarantees for any number of workers, callers, types *)
(* and rows, and any timeouts, caps, rates and delays.                     *)
(***************************************************************************)
EXTENDS JobStarts, FiniteSetTheorems, FunctionTheorems, TLAPS

-----------------------------------------------------------------------------
(* Types *)

LEMMA AnyRequestType == AnyRequest \in Requests
BY QueueAssumption DEF QueueAssumption, AnyRequest

LEMMA TypeInit == Init => TypeOK
<1> SUFFICES ASSUME Init PROVE TypeOK
    OBVIOUS
<1> USE AnyRequestType, QueueAssumption DEF QueueAssumption
<1>1. NoRow \in Row
      BY DEF NoRow, Row, Null, Statuses
<1>2. Idle \in Work /\ NoCall \in Call /\ NoRate \in RateType
      BY DEF Idle, Work, NoCall, Call, NoRate, RateType
<1> QED BY <1>1, <1>2 DEF Init, TypeOK, Idle, NoRate

\* finalise keeps the table and the workers well formed.
LEMMA FinaliseType ==
    ASSUME TypeOK, NEW w \in Workers, NEW row \in Row, Finalise(w, row)
    PROVE  TypeOK'
<1> USE QueueAssumption DEF QueueAssumption
<1>1. jobs' \in [Ids -> Row]
      BY DEF Finalise, TypeOK
<1>2. worker' \in [Workers -> Work] /\ worker'[w].pc = "idle"
      /\ \A v \in Workers : v # w => worker'[v] = worker[v]
      BY DEF Finalise, GiveUp, TypeOK, Idle, Work
<1> QED BY <1>1, <1>2 DEF Finalise, TypeOK, limitVars

LEMMA TypeNext == TypeOK /\ [Next]_vars => TypeOK'
<1> SUFFICES ASSUME TypeOK, [Next]_vars PROVE TypeOK'
    OBVIOUS
<1> USE QueueAssumption DEF QueueAssumption
<1>1. ASSUME NEW c \in Clients, NEW r \in Requests, EnqueueCheck(c, r)
      PROVE  TypeOK'
      <2>1. r.delay \in Nat
            BY DEF RequestType
      <2>2. [pc |-> "insert", req |-> r, runAt |-> now + r.delay] \in Call
            BY <2>1 DEF TypeOK, Call
      <2>3. client' \in [Clients -> Call]
            BY <1>1, <2>2 DEF EnqueueCheck, TypeOK
      <2> QED BY <1>1, <2>3 DEF EnqueueCheck, TypeOK, limitVars
<1>2. ASSUME NEW c \in Clients, EnqueueInsert(c)
      PROVE  TypeOK'
      <2>1. Inserted(client[c]) \in Row
            BY DEF Inserted, TypeOK, Call, Row, Statuses, Null
      <2>2. jobs' \in [Ids -> Row]
            BY <1>2, <2>1 DEF EnqueueInsert, Insert, TypeOK
      <2>3. NoCall \in Call
            BY AnyRequestType DEF NoCall, Call
      <2>4. client' \in [Clients -> Call]
            BY <1>2, <2>3 DEF EnqueueInsert, TypeOK
      <2> QED BY <1>2, <2>2, <2>4 DEF EnqueueInsert, TypeOK, limitVars
<1>3. ASSUME NEW t \in Types, NEW c \in Caps, SetConcurrency(t, c)
      PROVE  TypeOK'
      BY <1>3 DEF SetConcurrency, TypeOK
<1>4. ASSUME NEW t \in Types, NEW r \in Rates, SetRateLimit(t, r)
      PROVE  TypeOK'
      <2>1. NoRate \in RateType
            BY DEF NoRate, RateType
      <2> QED BY <1>4, <2>1 DEF SetRateLimit, TypeOK
<1>5. ASSUME NEW t \in Types, Register(t)
      PROVE  TypeOK'
      BY <1>5 DEF Register, TypeOK, limitVars
<1>6. ASSUME NEW w \in Workers, WorkerStep(w)
      PROVE  TypeOK'
      <2>1. Idle \in Work /\ Idle.pc = "idle"
            BY DEF Idle, Work
      <2>2. CASE Find(w)
            <3>1. PICK j \in Candidates :
                     worker' = [worker EXCEPT ![w] = [pc |-> "found", job |-> j,
                                  attempts |-> jobs[j].attempts, at |-> 0]]
                  BY <2>2 DEF Find
            <3>2. j \in Ids
                  BY DEF Candidates, Due
            <3>3. [pc |-> "found", job |-> j, attempts |-> jobs[j].attempts,
                   at |-> 0] \in Work
                  BY <3>2 DEF TypeOK, Row, Work, Ids
            <3> QED BY <2>2, <3>1, <3>2, <3>3 DEF Find, TypeOK, limitVars
      <2>3. CASE Poll(w)
            BY <2>3 DEF Poll, vars, limitVars, TypeOK
      <2>4. CASE Claim(w)
            <3>1. worker[w].job \in Ids
                  BY <2>4 DEF Claim, TypeOK
            <3>2. jobs' \in [Ids -> Row]
                  BY <2>4, <3>1 DEF Claim, TypeOK, Row, Work, Statuses
            <3>3. worker' \in [Workers -> Work]
                  BY <2>4 DEF Claim, TypeOK, Work
            <3>4. \A v \in Workers : worker'[v].job = worker[v].job
                  BY <2>4 DEF Claim, TypeOK, Work
            <3>5. \A v \in Workers : v # w => worker'[v] = worker[v]
                  BY <2>4 DEF Claim, TypeOK, Work
            <3> QED BY <2>4, <3>1, <3>2, <3>3, <3>4, <3>5
                    DEF Claim, TypeOK, limitVars
      <2>5. CASE ClaimMisses(w)
            BY <2>1, <2>5 DEF ClaimMisses, GiveUp, TypeOK, limitVars
      <2>6. CASE Succeed(w)
            <3>1. worker[w].job \in Ids
                  BY <2>6 DEF Succeed, TypeOK
            <3>2. [jobs[worker[w].job] EXCEPT !.status = "succeeded",
                                              !.finishedAt = now] \in Row
                  BY <3>1 DEF TypeOK, Row, Statuses
            <3> QED BY <2>6, <3>2, FinaliseType DEF Succeed
      <2>7. CASE Bury(w)
            <3>1. worker[w].job \in Ids
                  BY <2>7 DEF Bury, TypeOK
            <3>2. [jobs[worker[w].job] EXCEPT !.status = "dead",
                                              !.finishedAt = now] \in Row
                  BY <3>1 DEF TypeOK, Row, Statuses
            <3> QED BY <2>7, <3>2, FinaliseType DEF Bury
      <2>8. CASE Retry(w)
            <3>1. worker[w].job \in Ids
                  BY <2>8 DEF Retry, TypeOK
            <3>2. PICK d \in Delays :
                     \/ Finalise(w, jobs[worker[w].job])
                     \/ Finalise(w, [jobs[worker[w].job] EXCEPT !.status = "pending",
                                                                !.runAt = now + d,
                                                                !.claimedAt = Null])
                  BY <2>8 DEF Retry
            <3>3. jobs[worker[w].job] \in Row
                  BY <3>1 DEF TypeOK
            <3>4. now + d \in Nat
                  BY DEF TypeOK
            <3>5. [jobs[worker[w].job] EXCEPT !.status = "pending",
                                              !.runAt = now + d,
                                              !.claimedAt = Null] \in Row
                  BY <3>3, <3>4 DEF Row, Statuses, Null
            <3> QED BY <3>2, <3>3, <3>5, FinaliseType
      <2>9. CASE FinaliseFails(w)
            BY <2>1, <2>9 DEF FinaliseFails, GiveUp, TypeOK, limitVars
      <2>10. CASE StopWorker(w)
            BY <2>10 DEF StopWorker, TypeOK, limitVars, Work
      <2>11. CASE Stamp(w)
            <3>1. worker' \in [Workers -> Work]
                  BY <2>11 DEF Stamp, TypeOK, Work
            <3>2. /\ worker'[w].job = worker[w].job
                  /\ \A v \in Workers : v # w => worker'[v] = worker[v]
                  BY <2>11 DEF Stamp, TypeOK, Work
            <3> QED BY <2>11, <3>1, <3>2 DEF Stamp, TypeOK, limitVars
      <2> QED BY <1>6, <2>2, <2>3, <2>4, <2>5, <2>6, <2>7, <2>8, <2>9, <2>10, <2>11
              DEF WorkerStep
<1>7. ASSUME Sweep PROVE TypeOK'
      <2>1. \A j \in Ids : [jobs[j] EXCEPT !.status = "pending",
                                           !.claimedAt = Null] \in Row
            BY DEF TypeOK, Row, Statuses, Null
      <2> QED BY <1>7, <2>1 DEF Sweep, TypeOK, limitVars
<1>8. ASSUME Reap PROVE TypeOK'
      <2>1. \A j \in Ids : [jobs[j] EXCEPT !.status = "reaped"] \in Row
            BY DEF TypeOK, Row, Statuses
      <2> QED BY <1>8, <2>1 DEF Reap, TypeOK, limitVars
<1>9. ASSUME Start \/ Close \/ Tick PROVE TypeOK'
      BY <1>9 DEF Start, Close, Tick, TypeOK, limitVars
<1>10. ASSUME Closed \/ Crash PROVE TypeOK'
      <2>1. NoCall \in Call
            BY AnyRequestType DEF NoCall, Call
      <2>2. worker' \in [Workers -> Work] /\ \A w \in Workers : worker'[w].pc = "idle"
            BY <1>10 DEF Closed, Crash, Idle, Work
      <2> QED BY <1>10, <2>1, <2>2 DEF Closed, Crash, TypeOK, limitVars
<1>11. CASE UNCHANGED vars
      BY <1>11 DEF vars, limitVars, TypeOK
<1> QED BY <1>1, <1>2, <1>3, <1>4, <1>5, <1>6, <1>7, <1>8, <1>9, <1>10, <1>11
        DEF Next, CallerStep

\* The table, the workers and the callers stay well formed, and a worker that
\* has found, claimed or is running a job has one.
THEOREM JobTypeCorrect == Spec => []TypeOK
<1>1. Init => TypeOK
      BY TypeInit
<1>2. TypeOK /\ [Next]_vars => TypeOK'
      BY TypeNext
<1> QED BY <1>1, <1>2, PTL DEF Spec

-----------------------------------------------------------------------------
(* The steps, sorted by what they do to the rows and to the workers *)

Engaged(w) == worker[w].pc \in {"found", "claim", "run"}

\* A worker lets go of its job, or of the loop, and no row changes.
LetGo(w) ==
    /\ jobs' = jobs /\ now' = now
    /\ worker' \in [Workers -> Work]
    /\ ~Engaged(w)'
    /\ \A v \in Workers : v # w => worker'[v] = worker[v]

\* All workers are gone, and no row changes.
AllGone == jobs' = jobs /\ now' = now /\ \A w \in Workers : ~Engaged(w)'

LEMMA StepKinds ==
    TypeOK /\ [Next]_vars =>
        \/ UNCHANGED <<jobs, worker, now>>
        \/ \E c \in Clients : EnqueueInsert(c)
        \/ \E w \in Workers : \/ Find(w) \/ Stamp(w) \/ Claim(w) \/ LetGo(w)
                              \/ Succeed(w) \/ Bury(w) \/ Retry(w)
        \/ Sweep \/ Reap \/ Tick \/ AllGone
<1> SUFFICES ASSUME TypeOK, [Next]_vars
             PROVE  \/ UNCHANGED <<jobs, worker, now>>
                    \/ \E c \in Clients : EnqueueInsert(c)
                    \/ \E w \in Workers : \/ Find(w) \/ Stamp(w) \/ Claim(w) \/ LetGo(w)
                                          \/ Succeed(w) \/ Bury(w) \/ Retry(w)
                    \/ Sweep \/ Reap \/ Tick \/ AllGone
    OBVIOUS
<1>1. CASE CallerStep
      BY <1>1 DEF CallerStep, EnqueueCheck, SetConcurrency, SetRateLimit, Register
<1>2. ASSUME NEW w \in Workers, WorkerStep(w)
      PROVE  \/ UNCHANGED <<jobs, worker, now>>
             \/ Find(w) \/ Stamp(w) \/ Claim(w) \/ LetGo(w)
             \/ Succeed(w) \/ Bury(w) \/ Retry(w)
      <2>1. CASE Poll(w)
            BY <2>1 DEF Poll, vars
      <2>2. CASE ClaimMisses(w) \/ FinaliseFails(w) \/ StopWorker(w)
            <3>1. worker' \in [Workers -> Work]
                  BY TypeNext DEF TypeOK
            <3>2. worker'[w].pc \in {"idle", "stopped"}
                  BY <2>2 DEF ClaimMisses, FinaliseFails, StopWorker, GiveUp, Idle,
                              TypeOK, Work
            <3>3. \A v \in Workers : v # w => worker'[v] = worker[v]
                  BY <2>2 DEF ClaimMisses, FinaliseFails, StopWorker, GiveUp, TypeOK
            <3> QED BY <2>2, <3>1, <3>2, <3>3
                    DEF LetGo, Engaged, ClaimMisses, FinaliseFails, StopWorker
      <2> QED BY <1>2, <2>1, <2>2 DEF WorkerStep
<1>3. CASE Start \/ Close
      BY <1>3 DEF Start, Close
<1>4. CASE Closed \/ Crash
      BY <1>4 DEF Closed, Crash, AllGone, Engaged, Idle
<1>5. CASE UNCHANGED vars
      BY <1>5 DEF vars
<1> QED BY <1>1, <1>2, <1>3, <1>4, <1>5 DEF Next

\* What finalise may do to the row j of worker w.
Outcome(w, j) ==
    \/ jobs'[j] = jobs[j]
    \/ /\ jobs'[j].req = jobs[j].req
       /\ jobs'[j].attempts = jobs[j].attempts
       /\ \/ jobs'[j].status = "succeeded"
          \/ jobs'[j].status = "dead" /\ Exhausted(w)
          \/ jobs'[j].status = "pending" /\ ~KeyTaken(jobs[j].req.key, j)

LEMMA Outcomes ==
    ASSUME TypeOK, NEW w \in Workers, Succeed(w) \/ Bury(w) \/ Retry(w)
    PROVE  /\ worker[w].pc = "run" /\ worker[w].job \in Ids
           /\ Outcome(w, worker[w].job)
           /\ \A i \in Ids : i # worker[w].job => jobs'[i] = jobs[i]
           /\ ~Engaged(w)'
           /\ \A v \in Workers : v # w => worker'[v] = worker[v]
           /\ now' = now
<1> DEFINE j == worker[w].job
<1>1. worker[w].pc = "run" /\ j \in Ids
      BY DEF Succeed, Bury, Retry, TypeOK
<1>2. \A row : Finalise(w, row) =>
               /\ jobs'[j] \in {jobs[j], row}
               /\ \A i \in Ids : i # j => jobs'[i] = jobs[i]
      BY <1>1 DEF Finalise, TypeOK
<1>3. ASSUME NEW row, Finalise(w, row)
      PROVE  /\ ~Engaged(w)'
             /\ \A v \in Workers : v # w => worker'[v] = worker[v]
             /\ now' = now
      BY <1>3 DEF Finalise, GiveUp, Engaged, Idle, TypeOK
<1>4. jobs[j] \in Row
      BY <1>1 DEF TypeOK
<1>5. CASE Succeed(w)
      <2> DEFINE row == [jobs[j] EXCEPT !.status = "succeeded", !.finishedAt = now]
      <2>1. Finalise(w, row)
            BY <1>5 DEF Succeed
      <2>2. row.req = jobs[j].req /\ row.attempts = jobs[j].attempts
            /\ row.status = "succeeded"
            BY <1>4 DEF Row
      <2> HIDE DEF row, j
      <2>3. Outcome(w, j) /\ \A i \in Ids : i # j => jobs'[i] = jobs[i]
            BY <1>2, <2>1, <2>2 DEF Outcome
      <2> QED BY <1>1, <1>3, <2>1, <2>3 DEF j
<1>6. CASE Bury(w)
      <2> DEFINE row == [jobs[j] EXCEPT !.status = "dead", !.finishedAt = now]
      <2>1. Finalise(w, row) /\ Exhausted(w)
            BY <1>6 DEF Bury
      <2>2. row.req = jobs[j].req /\ row.attempts = jobs[j].attempts
            /\ row.status = "dead"
            BY <1>4 DEF Row
      <2> HIDE DEF row, j
      <2>3. Outcome(w, j) /\ \A i \in Ids : i # j => jobs'[i] = jobs[i]
            BY <1>2, <2>1, <2>2 DEF Outcome
      <2> QED BY <1>1, <1>3, <2>1, <2>3 DEF j
<1>7. CASE Retry(w)
      <2> DEFINE row(d) == [jobs[j] EXCEPT !.status = "pending", !.runAt = now + d,
                                           !.claimedAt = Null]
      <2>1. PICK d \in Delays :
               \/ Finalise(w, jobs[j])
               \/ Finalise(w, row(d)) /\ ~KeyTaken(jobs[j].req.key, j)
            BY <1>7 DEF Retry
      <2>2. row(d).req = jobs[j].req /\ row(d).attempts = jobs[j].attempts
            /\ row(d).status = "pending"
            BY <1>4 DEF Row
      <2> HIDE DEF row, j
      <2>3. Outcome(w, j) /\ \A i \in Ids : i # j => jobs'[i] = jobs[i]
            BY <1>2, <2>1, <2>2 DEF Outcome
      <2> QED BY <1>1, <1>3, <2>1, <2>3 DEF j
<1> QED BY <1>5, <1>6, <1>7

\* What a look at the clock does.
LEMMA Stamps ==
    ASSUME TypeOK, NEW w \in Workers, Stamp(w)
    PROVE  /\ jobs' = jobs /\ now' = now
           /\ worker[w].pc = "found" /\ worker'[w].pc = "claim"
           /\ worker'[w].job = worker[w].job
           /\ worker'[w].attempts = worker[w].attempts
           /\ worker'[w].at = now
           /\ \A v \in Workers : v # w => worker'[v] = worker[v]
<1>1. /\ worker[w].pc = "found" /\ worker'[w].pc = "claim"
      /\ worker'[w].job = worker[w].job
      /\ worker'[w].attempts = worker[w].attempts
      /\ worker'[w].at = now
      BY DEF Stamp, TypeOK, Work
<1>2. \A v \in Workers : v # w => worker'[v] = worker[v]
      BY DEF Stamp, TypeOK
<1> QED BY <1>1, <1>2 DEF Stamp

\* What a claim does to its row.
LEMMA Claims ==
    ASSUME TypeOK, NEW w \in Workers, Claim(w)
    PROVE  LET j == worker[w].job
           IN  /\ worker[w].pc = "claim" /\ j \in Ids
               /\ jobs[j].status = "pending"
               /\ jobs'[j].status = "running" /\ jobs'[j].req = jobs[j].req
               /\ jobs'[j].claimedAt = worker[w].at
               /\ jobs'[j].attempts = jobs[j].attempts + 1
               /\ \A i \in Ids : i # j => jobs'[i] = jobs[i]
               /\ worker'[w].pc = "run" /\ worker'[w].job = j
               /\ worker'[w].at = worker[w].at
               /\ worker'[w].attempts = worker[w].attempts + 1
               /\ \A v \in Workers : v # w => worker'[v] = worker[v]
               /\ now' = now
<1> DEFINE j == worker[w].job
<1>1. j \in Ids /\ worker[w].pc = "claim" /\ jobs[j].status = "pending"
      BY DEF Claim, Claimable, TypeOK
<1>2. /\ jobs'[j].status = "running" /\ jobs'[j].req = jobs[j].req
      /\ jobs'[j].claimedAt = worker[w].at
      /\ jobs'[j].attempts = jobs[j].attempts + 1
      BY <1>1 DEF Claim, TypeOK, Row
<1>3. \A i \in Ids : i # j => jobs'[i] = jobs[i]
      BY <1>1 DEF Claim, TypeOK
<1>4. /\ worker'[w].pc = "run" /\ worker'[w].job = j
      /\ worker'[w].at = worker[w].at
      /\ worker'[w].attempts = worker[w].attempts + 1
      BY DEF Claim, TypeOK, Work
<1>5. \A v \in Workers : v # w => worker'[v] = worker[v]
      BY DEF Claim, TypeOK
<1>6. now' = now
      BY DEF Claim
<1> QED BY <1>1, <1>2, <1>3, <1>4, <1>5, <1>6

\* What an INSERT does: nothing, or a new row under a free id and a free key.
LEMMA Inserts ==
    ASSUME TypeOK, NEW c \in Clients, EnqueueInsert(c)
    PROVE  /\ worker' = worker /\ now' = now
           /\ \/ jobs' = jobs
              \/ \E id \in Ids :
                   /\ jobs[id].status = "free"
                   /\ jobs'[id].status = "pending"
                   /\ \/ jobs'[id].req.key = ""
                      \/ \A i \in Ids : Live(i) => jobs[i].req.key # jobs'[id].req.key
                   /\ \A i \in Ids : i # id => jobs'[i] = jobs[i]
<1>1. CASE jobs' = jobs
      BY <1>1 DEF EnqueueInsert
<1>2. CASE jobs' # jobs
      <2>0. ~KeyTaken(client[c].req.key, 0) /\ Insert(c)
            BY <1>2 DEF EnqueueInsert, Insert
      <2>1. PICK id \in FreeIds : jobs' = [jobs EXCEPT ![id] = Inserted(client[c])]
            BY <2>0 DEF Insert
      <2>2. id \in Ids /\ jobs[id].status = "free"
            BY DEF FreeIds
      <2>3. jobs'[id].req = client[c].req /\ jobs'[id].status = "pending"
            BY <2>1, <2>2 DEF TypeOK, Inserted
      <2>4. \A i \in Ids : i # id => jobs'[i] = jobs[i]
            BY <2>1 DEF TypeOK
      <2>5. Ids \ {0} = Ids
            BY QueueAssumption DEF QueueAssumption, Ids
      <2>6. \/ client[c].req.key = ""
            \/ \A i \in Ids : Live(i) => jobs[i].req.key # client[c].req.key
            BY <2>0, <2>5 DEF KeyTaken
      <2> QED BY <2>2, <2>3, <2>4, <2>6 DEF EnqueueInsert
<1> QED BY <1>1, <1>2

\* What the sweeper and the reaper do to a row.
LEMMA Sweeps ==
    ASSUME TypeOK, Sweep, NEW i \in Ids
    PROVE  /\ jobs'[i].req = jobs[i].req
           /\ jobs'[i].attempts = jobs[i].attempts
           /\ IF i \in Orphans THEN jobs'[i].status = "pending"
                               ELSE jobs'[i] = jobs[i]
<1>1. jobs[i] \in Row
      BY DEF TypeOK
<1>2. CASE i \in Orphans
      <2>1. jobs'[i] = [jobs[i] EXCEPT !.status = "pending", !.claimedAt = Null]
            BY <1>2 DEF Sweep
      <2> QED BY <1>1, <1>2, <2>1 DEF Row
<1>3. CASE i \notin Orphans
      BY <1>3 DEF Sweep
<1> QED BY <1>2, <1>3

LEMMA Reaps ==
    ASSUME TypeOK, Reap, NEW i \in Ids
    PROVE  /\ jobs'[i].req = jobs[i].req
           /\ jobs'[i].attempts = jobs[i].attempts
           /\ \/ jobs'[i] = jobs[i]
              \/ jobs[i].status \in Terminal /\ jobs'[i].status = "reaped"
<1>1. jobs[i] \in Row
      BY DEF TypeOK
<1>2. CASE i \in Expired
      <2>1. jobs'[i] = [jobs[i] EXCEPT !.status = "reaped"]
            BY <1>2 DEF Reap
      <2> QED BY <1>1, <1>2, <2>1 DEF Row, Expired
<1>3. CASE i \notin Expired
      BY <1>3 DEF Reap
<1> QED BY <1>2, <1>3

-----------------------------------------------------------------------------
(* The unique keys *)

LEMMA KeysNext ==
    TypeOK /\ LiveKeysDistinct /\ [Next]_vars => LiveKeysDistinct'
<1> SUFFICES ASSUME TypeOK, LiveKeysDistinct, [Next]_vars PROVE LiveKeysDistinct'
    OBVIOUS
<1>1. CASE UNCHANGED jobs
      BY <1>1 DEF LiveKeysDistinct, Live
<1>2. ASSUME NEW c \in Clients, EnqueueInsert(c) PROVE LiveKeysDistinct'
      <2>1. SUFFICES ASSUME jobs' # jobs PROVE LiveKeysDistinct'
            BY <1>1
      <2>2. PICK id \in Ids :
               /\ jobs'[id].status = "pending"
               /\ \/ jobs'[id].req.key = ""
                  \/ \A i \in Ids : Live(i) => jobs[i].req.key # jobs'[id].req.key
               /\ \A i \in Ids : i # id => jobs'[i] = jobs[i]
            BY <1>2, <2>1, Inserts
      <2>3. \A i \in Ids : i # id => (Live(i)' <=> Live(i))
            BY <2>2 DEF Live
      <2> QED BY <2>2, <2>3 DEF LiveKeysDistinct
<1>3. ASSUME NEW w \in Workers, Claim(w) PROVE LiveKeysDistinct'
      <2>1. \A i \in Ids : jobs'[i].req = jobs[i].req /\ (Live(i)' => Live(i))
            BY <1>3, Claims DEF Live
      <2> QED BY <2>1 DEF LiveKeysDistinct
<1>4. ASSUME NEW w \in Workers, Succeed(w) \/ Bury(w) \/ Retry(w)
      PROVE  LiveKeysDistinct'
      <2> DEFINE j == worker[w].job
      <2>1. /\ j \in Ids /\ Outcome(w, j)
            /\ \A i \in Ids : i # j => jobs'[i] = jobs[i]
            BY <1>4, Outcomes
      <2> HIDE DEF j
      <2>2. CASE jobs'[j] = jobs[j]
            <3>1. \A i \in Ids : jobs'[i] = jobs[i]
                  BY <2>1, <2>2
            <3>2. \A i \in Ids : Live(i)' <=> Live(i)
                  BY <3>1 DEF Live
            <3> QED BY <3>1, <3>2 DEF LiveKeysDistinct
      <2>3. CASE jobs'[j].req = jobs[j].req /\ jobs'[j].status \in Terminal
            BY <2>1, <2>3 DEF LiveKeysDistinct, Live, Terminal
      <2>4. CASE jobs'[j].req = jobs[j].req /\ ~KeyTaken(jobs[j].req.key, j)
            <3>1. \/ jobs[j].req.key = ""
                  \/ \A i \in Ids : i # j /\ Live(i) => jobs[i].req.key # jobs[j].req.key
                  BY <2>4 DEF KeyTaken
            <3>2. \A i \in Ids : i # j => (Live(i)' <=> Live(i))
                  BY <2>1 DEF Live
            <3> QED BY <2>1, <2>4, <3>1, <3>2 DEF LiveKeysDistinct
      <2> QED BY <2>1, <2>2, <2>3, <2>4 DEF Outcome, Terminal
<1>6. ASSUME Sweep PROVE LiveKeysDistinct'
      <2>1. \A i \in Ids : jobs'[i].req = jobs[i].req /\ (Live(i)' => Live(i))
            BY <1>6, Sweeps DEF Orphans, Running, Live
      <2> QED BY <2>1 DEF LiveKeysDistinct
<1>7. ASSUME Reap PROVE LiveKeysDistinct'
      <2>1. \A i \in Ids : jobs'[i].req = jobs[i].req /\ (Live(i)' => Live(i))
            BY <1>7, Reaps DEF Live
      <2> QED BY <2>1 DEF LiveKeysDistinct
<1> QED BY <1>1, <1>2, <1>3, <1>4, <1>6, <1>7, StepKinds
        DEF Find, Stamp, Tick, LetGo, AllGone

\* At most one job with a given key is pending or running, for any number of
\* concurrent Enqueue calls and with handlers that outlive their timeouts.
THEOREM KeysStayDistinct == Spec => []LiveKeysDistinct
<1>1. Init => LiveKeysDistinct
      <2> SUFFICES ASSUME Init PROVE LiveKeysDistinct
          OBVIOUS
      <2>1. \A i \in Ids : jobs[i] = NoRow
            BY DEF Init
      <2>2. NoRow.status = "free"
            BY DEF NoRow
      <2>3. \A i \in Ids : ~Live(i)
            BY <2>1, <2>2 DEF Live
      <2> QED BY <2>3 DEF LiveKeysDistinct
<1>2. TypeOK /\ LiveKeysDistinct /\ [Next]_vars => LiveKeysDistinct'
      BY KeysNext
<1> QED BY <1>1, <1>2, JobTypeCorrect, PTL DEF Spec

-----------------------------------------------------------------------------
(* The attempts *)

\* A worker's copy of the attempts never runs ahead of the row's, and the row of
\* a worker's job is never one that Enqueue may still fill.
CopiesBehind ==
    \A w \in Workers :
        Engaged(w) => /\ jobs[worker[w].job].status # "free"
                      /\ worker[w].attempts <= jobs[worker[w].job].attempts

\* The table's rows once they are filled: no step empties a row, changes its
\* request or takes an attempt back.
LEMMA RowsGrow ==
    ASSUME TypeOK, [Next]_vars, NEW i \in Ids, jobs[i].status # "free"
    PROVE  /\ jobs'[i].status # "free"
           /\ jobs'[i].req = jobs[i].req
           /\ jobs'[i].attempts >= jobs[i].attempts
<1>0. jobs[i].attempts \in Nat
      BY DEF TypeOK, Row
<1>1. CASE UNCHANGED jobs
      BY <1>0, <1>1
<1>2. ASSUME NEW c \in Clients, EnqueueInsert(c)
      PROVE  jobs'[i] = jobs[i]
      BY <1>2, Inserts
<1>3. ASSUME NEW w \in Workers, Claim(w)
      PROVE  /\ jobs'[i].status # "free"
             /\ jobs'[i].req = jobs[i].req
             /\ jobs'[i].attempts >= jobs[i].attempts
      BY <1>0, <1>3, Claims
<1>4. ASSUME NEW w \in Workers, Succeed(w) \/ Bury(w) \/ Retry(w)
      PROVE  /\ jobs'[i].status # "free"
             /\ jobs'[i].req = jobs[i].req
             /\ jobs'[i].attempts = jobs[i].attempts
      BY <1>4, Outcomes DEF Outcome
<1>5. CASE Sweep
      BY <1>0, <1>5, Sweeps
<1>6. CASE Reap
      BY <1>0, <1>6, Reaps
<1>7. ASSUME \/ \E w \in Workers : Find(w) \/ Stamp(w) \/ LetGo(w)
             \/ Tick \/ AllGone
      PROVE  UNCHANGED jobs
      BY <1>7 DEF Find, Stamp, Tick, LetGo, AllGone
<1> QED BY <1>0, <1>1, <1>2, <1>3, <1>4, <1>5, <1>6, <1>7, StepKinds

LEMMA CopiesNext ==
    TypeOK /\ CopiesBehind /\ [Next]_vars => CopiesBehind'
<1> SUFFICES ASSUME TypeOK, CopiesBehind, [Next]_vars,
                    NEW w \in Workers, Engaged(w)'
             PROVE  /\ jobs'[worker'[w].job].status # "free"
                    /\ worker'[w].attempts <= jobs'[worker'[w].job].attempts
    BY DEF CopiesBehind
<1>0. TypeOK'
      BY TypeNext
<1> DEFINE j == worker'[w].job
<1>1. j \in Ids /\ jobs'[j].attempts \in Nat /\ worker'[w].attempts \in Nat
      BY <1>0 DEF TypeOK, Engaged, Row, Work
<1>2. CASE worker'[w] = worker[w]
      <2>1. jobs[j].status # "free" /\ worker'[w].attempts <= jobs[j].attempts
            BY <1>2 DEF CopiesBehind, Engaged
      <2>2. jobs[j].attempts \in Nat
            BY <1>1 DEF TypeOK, Row
      <2>3. jobs'[j].status # "free" /\ jobs'[j].attempts >= jobs[j].attempts
            BY <1>1, <2>1, RowsGrow
      <2> QED BY <1>1, <2>1, <2>2, <2>3
<1>3. CASE Find(w)
      <2>1. PICK i \in Candidates :
               worker' = [worker EXCEPT ![w] = [pc |-> "found", job |-> i,
                            attempts |-> jobs[i].attempts, at |-> 0]]
            BY <1>3 DEF Find
      <2>2. i \in Ids /\ jobs[i].status = "pending"
            BY DEF Candidates, Due
      <2>3. worker'[w].job = i /\ worker'[w].attempts = jobs[i].attempts
            BY <2>1 DEF TypeOK
      <2>4. jobs' = jobs
            BY <1>3 DEF Find
      <2> QED BY <1>1, <2>2, <2>3, <2>4
<1>4. CASE Claim(w)
      <2>1. worker[w].attempts <= jobs[worker[w].job].attempts
            BY <1>4, Claims DEF CopiesBehind, Engaged
      <2>2. worker[w].attempts \in Nat /\ jobs[worker[w].job].attempts \in Nat
            BY <1>4, Claims DEF TypeOK, Row, Work
      <2> QED BY <1>4, <2>1, <2>2, Claims
<1>5. ASSUME NEW v \in Workers, v # w, Find(v) PROVE worker'[w] = worker[w]
      BY <1>5 DEF Find, TypeOK
<1>6. ASSUME NEW v \in Workers, v # w, Claim(v) PROVE worker'[w] = worker[w]
      BY <1>6, Claims
<1>7. ASSUME NEW v \in Workers, Succeed(v) \/ Bury(v) \/ Retry(v)
      PROVE  worker'[w] = worker[w]
      BY <1>7, Outcomes
<1>8. ASSUME NEW v \in Workers, LetGo(v) PROVE worker'[w] = worker[w]
      BY <1>8 DEF LetGo
<1>9. ASSUME NEW c \in Clients, EnqueueInsert(c) PROVE worker'[w] = worker[w]
      BY <1>9, Inserts
<1>10. ASSUME Sweep \/ Reap \/ Tick PROVE worker'[w] = worker[w]
      BY <1>10 DEF Sweep, Reap, Tick
<1>11. ~AllGone
      BY DEF AllGone
<1>12. CASE Stamp(w)
      BY <1>12, Stamps DEF CopiesBehind, Engaged
<1>13. ASSUME NEW v \in Workers, v # w, Stamp(v) PROVE worker'[w] = worker[w]
      BY <1>13, Stamps
<1> QED BY <1>2, <1>3, <1>4, <1>5, <1>6, <1>7, <1>8, <1>9, <1>10, <1>11, <1>12,
           <1>13, StepKinds

LEMMA GivenUpNext ==
    TypeOK /\ CopiesBehind /\ GivenUpOnlyExhausted /\ [Next]_vars =>
        GivenUpOnlyExhausted'
<1> SUFFICES ASSUME TypeOK, CopiesBehind, GivenUpOnlyExhausted, [Next]_vars,
                    NEW i \in Ids, jobs'[i].status = "dead"
             PROVE  jobs'[i].attempts >= jobs'[i].req.maxAttempts
    BY DEF GivenUpOnlyExhausted
<1>1. CASE jobs[i].status = "dead"
      <2>1. jobs[i].attempts >= jobs[i].req.maxAttempts
            BY <1>1 DEF GivenUpOnlyExhausted
      <2>2. /\ jobs'[i].req = jobs[i].req
            /\ jobs'[i].attempts >= jobs[i].attempts
            BY <1>1, RowsGrow
      <2>3. jobs[i].attempts \in Nat /\ jobs[i].req.maxAttempts \in Int
            BY QueueAssumption DEF QueueAssumption, TypeOK, Row, RequestType
      <2>4. jobs'[i].attempts \in Nat
            BY TypeNext DEF TypeOK, Row
      <2> QED BY <2>1, <2>2, <2>3, <2>4
<1>2. CASE jobs[i].status # "dead"
      <2>1. ASSUME NEW w \in Workers, Succeed(w) \/ Bury(w) \/ Retry(w)
            PROVE  jobs'[i].attempts >= jobs'[i].req.maxAttempts
            <3>1. i = worker[w].job
                  BY <1>2, <2>1, Outcomes
            <3>2. /\ worker[w].pc = "run"
                  /\ jobs'[i].req = jobs[i].req /\ jobs'[i].attempts = jobs[i].attempts
                  /\ Exhausted(w)
                  BY <1>2, <2>1, <3>1, Outcomes DEF Outcome
            <3>3. worker[w].attempts <= jobs[i].attempts
                  BY <3>1, <3>2 DEF CopiesBehind, Engaged
            <3>4. worker[w].attempts >= jobs[i].req.maxAttempts
                  BY <3>1, <3>2 DEF Exhausted
            <3>5. /\ worker[w].attempts \in Nat /\ jobs[i].attempts \in Nat
                  /\ jobs[i].req.maxAttempts \in Int
                  BY QueueAssumption DEF QueueAssumption, TypeOK, Row, Work, RequestType
            <3> QED BY <3>2, <3>3, <3>4, <3>5
      <2>2. ASSUME NEW c \in Clients, EnqueueInsert(c) PROVE FALSE
            BY <1>2, <2>2, Inserts
      <2>3. ASSUME NEW w \in Workers, Claim(w) PROVE FALSE
            BY <1>2, <2>3, Claims
      <2>4. ~Sweep
            BY <1>2, Sweeps
      <2>5. ~Reap
            BY <1>2, Reaps
      <2>6. jobs' # jobs
            BY <1>2
      <2> QED BY <2>1, <2>2, <2>3, <2>4, <2>5, <2>6, StepKinds
              DEF Find, Stamp, Tick, LetGo, AllGone
<1> QED BY <1>1, <1>2

\* No job is declared dead before all its attempts were started, for any number
\* of workers, any timeouts, and handlers that outlive them: the copy of the
\* attempts by which finalise decides is never ahead of the row.
THEOREM NeverGivenUpEarly == Spec => []GivenUpOnlyExhausted
<1>1. Init => CopiesBehind /\ GivenUpOnlyExhausted
      <2> SUFFICES ASSUME Init PROVE CopiesBehind /\ GivenUpOnlyExhausted
          OBVIOUS
      <2>1. \A i \in Ids : jobs[i].status = "free"
            BY DEF Init, NoRow
      <2>2. \A w \in Workers : ~Engaged(w)
            BY DEF Init, Engaged, Idle
      <2> QED BY <2>1, <2>2 DEF CopiesBehind, GivenUpOnlyExhausted
<1>2. TypeOK /\ CopiesBehind /\ GivenUpOnlyExhausted /\ [Next]_vars =>
        CopiesBehind' /\ GivenUpOnlyExhausted'
      BY CopiesNext, GivenUpNext
<1> QED BY <1>1, <1>2, JobTypeCorrect, PTL DEF Spec

-----------------------------------------------------------------------------
(* The claims *)

\* A worker's attempt is within its timeout and the Overrun.
OnTime == \A w \in Workers : Punctual(w, now)

\* No two handlers run one job.
OneHandler == \A v, w \in Busy : v # w => worker[v].job # worker[w].job

ClaimInv == OnTime /\ ClaimHeld /\ OneHandler

\* TimeoutOf, as a function of the request alone.
LimitOf(r) == IF r.timeout > 0 THEN r.timeout ELSE DefaultTimeout

\* The worker has taken the instant of its claim.
Stamped(w) == worker[w].pc \in {"claim", "run"}

LEMMA OnTimeNext ==
    TypeOK /\ CopiesBehind /\ OnTime /\ [Next]_vars => OnTime'
<1> SUFFICES ASSUME TypeOK, CopiesBehind, OnTime, [Next]_vars,
                    NEW w \in Workers, Stamped(w)'
             PROVE  now' <= worker'[w].at + LimitOf(jobs'[worker'[w].job].req) + Overrun
    BY DEF OnTime, Punctual, Stamped, TimeoutOf, LimitOf
<1> DEFINE j == worker'[w].job
<1>0. /\ j \in Ids /\ worker'[w].at \in Nat /\ now' \in Nat
      /\ jobs[j].req \in Requests /\ jobs'[j].req \in Requests
      BY TypeNext DEF TypeOK, Stamped, Row, Work
<1>1. LimitOf(jobs'[j].req) \in Nat \ {0} /\ Overrun \in Nat
      BY <1>0, QueueAssumption DEF QueueAssumption, LimitOf, RequestType
<1>2. ASSUME worker'[w] = worker[w], now' = now PROVE
             now' <= worker'[w].at + LimitOf(jobs'[worker'[w].job].req) + Overrun
      <2>1. Stamped(w) /\ jobs[j].status # "free"
            BY <1>2 DEF CopiesBehind, Engaged, Stamped
      <2>2. jobs'[j].req = jobs[j].req
            BY <1>0, <2>1, RowsGrow
      <2>3. now <= worker[w].at + LimitOf(jobs[worker[w].job].req) + Overrun
            BY <2>1 DEF OnTime, Punctual, Stamped, TimeoutOf, LimitOf
      <2> QED BY <1>2, <2>2, <2>3
<1>3. CASE Stamp(w)
      BY <1>0, <1>1, <1>3, Stamps
<1>4. CASE Claim(w)
      <2>1. /\ worker'[w].at = worker[w].at /\ j = worker[w].job /\ now' = now
            /\ jobs'[j].req = jobs[j].req /\ Stamped(w)
            BY <1>4, Claims DEF Stamped
      <2>2. now <= worker[w].at + LimitOf(jobs[worker[w].job].req) + Overrun
            BY <2>1 DEF OnTime, Punctual, Stamped, TimeoutOf, LimitOf
      <2> QED BY <2>1, <2>2
<1>5. CASE Tick
      <2>1. worker' = worker /\ jobs' = jobs /\ now' = now + 1
            BY <1>5 DEF Tick
      <2>2. Stamped(w) /\ Punctual(w, now + 1)
            BY <1>5, <2>1 DEF Tick, Stamped
      <2> QED BY <2>1, <2>2 DEF Punctual, TimeoutOf, LimitOf, Stamped
<1>6. ASSUME NEW v \in Workers, v # w, Find(v) \/ Stamp(v) \/ Claim(v)
      PROVE  worker'[w] = worker[w] /\ now' = now
      BY <1>6, Stamps DEF Find, Claim, TypeOK
<1>7. ASSUME NEW v \in Workers, Succeed(v) \/ Bury(v) \/ Retry(v) \/ LetGo(v)
      PROVE  worker'[w] = worker[w] /\ now' = now
      BY <1>7, Outcomes DEF LetGo, Engaged, Stamped
<1>8. ASSUME \/ \E c \in Clients : EnqueueInsert(c)
             \/ Sweep \/ Reap \/ UNCHANGED <<jobs, worker, now>>
      PROVE  worker'[w] = worker[w] /\ now' = now
      BY <1>8, Inserts DEF Sweep, Reap
<1>9. ~AllGone
      BY DEF AllGone, Engaged, Stamped
<1>10. ~Find(w)
      BY DEF Find, TypeOK, Stamped
<1> QED BY <1>2, <1>3, <1>4, <1>5, <1>6, <1>7, <1>8, <1>9, <1>10, StepKinds

\* No row with a handler on it is an orphan to the sweeper.
LEMMA HeldIsNoOrphan ==
    ASSUME Overrun = 0, TypeOK, OnTime, ClaimHeld, NEW w \in Busy
    PROVE  worker[w].job \notin Orphans
<1> DEFINE j == worker[w].job
<1>1. /\ w \in Workers /\ worker[w].pc = "run" /\ j \in Ids
      /\ jobs[j].claimedAt = worker[w].at
      BY DEF Busy, ClaimHeld, TypeOK
<1>2. now <= worker[w].at + LimitOf(jobs[j].req) + Overrun
      BY <1>1 DEF OnTime, Punctual, TimeoutOf, LimitOf
<1>3. jobs[j].req.timeout \in Int /\ worker[w].at \in Nat /\ now \in Nat
      BY <1>1, QueueAssumption DEF QueueAssumption, TypeOK, Row, Work, RequestType
<1> QED BY <1>1, <1>2, <1>3 DEF Orphans, LimitOf

\* While a handler runs, nobody but its own worker touches its row.
LEMMA HeldRow ==
    ASSUME Overrun = 0, TypeOK, ClaimInv, [Next]_vars,
           NEW w \in Busy, worker'[w].pc = "run"
    PROVE  worker'[w] = worker[w] /\ jobs'[worker[w].job] = jobs[worker[w].job]
<1> DEFINE j == worker[w].job
<1>1. w \in Workers /\ worker[w].pc = "run" /\ j \in Ids /\ jobs[j].status = "running"
      BY DEF ClaimInv, ClaimHeld, Busy, TypeOK
<1> HIDE DEF j
<1>2. ASSUME NEW c \in Clients, EnqueueInsert(c)
      PROVE  worker'[w] = worker[w] /\ jobs'[j] = jobs[j]
      BY <1>1, <1>2, Inserts
<1>3. ASSUME NEW v \in Workers, Find(v)
      PROVE  worker'[w] = worker[w] /\ jobs'[j] = jobs[j]
      <2>1. v # w
            BY <1>1, <1>3 DEF Find, Looping
      <2> QED BY <1>1, <1>3, <2>1 DEF Find, TypeOK
<1>4. ASSUME NEW v \in Workers, Claim(v)
      PROVE  worker'[w] = worker[w] /\ jobs'[j] = jobs[j]
      BY <1>1, <1>4, Claims
<1>5. ASSUME NEW v \in Workers, Succeed(v) \/ Bury(v) \/ Retry(v)
      PROVE  worker'[w] = worker[w] /\ jobs'[j] = jobs[j]
      <2>1. v # w /\ v \in Busy
            BY <1>5, Outcomes DEF Engaged, Busy
      <2>2. worker[v].job # j
            BY <2>1 DEF ClaimInv, OneHandler, j
      <2> QED BY <1>1, <1>5, <2>1, <2>2, Outcomes
<1>6. ASSUME NEW v \in Workers, LetGo(v)
      PROVE  worker'[w] = worker[w] /\ jobs'[j] = jobs[j]
      BY <1>1, <1>6 DEF LetGo, Engaged
<1>7. CASE Sweep
      <2>1. j \notin Orphans
            BY HeldIsNoOrphan DEF ClaimInv, j
      <2> QED BY <1>1, <1>7, <2>1, Sweeps DEF Sweep, j
<1>8. CASE Reap
      BY <1>1, <1>8, Reaps DEF Reap, Terminal, j
<1>9. CASE Tick
      BY <1>9 DEF Tick
<1>10. ~AllGone
      BY <1>1 DEF AllGone, Engaged
<1>11. ASSUME NEW v \in Workers, Stamp(v)
      PROVE  worker'[w] = worker[w] /\ jobs'[j] = jobs[j]
      BY <1>1, <1>11, Stamps
<1> QED BY <1>1, <1>2, <1>3, <1>4, <1>5, <1>6, <1>7, <1>8, <1>9, <1>10, <1>11,
           StepKinds
        DEF j

\* A worker that begins to run has just claimed.
LEMMA NewlyBusy ==
    ASSUME TypeOK, [Next]_vars, NEW w \in Workers,
           worker[w].pc # "run", worker'[w].pc = "run"
    PROVE  Claim(w)
<1>1. ASSUME NEW v \in Workers, Find(v) \/ Stamp(v) PROVE FALSE
      BY <1>1, Stamps DEF Find, TypeOK
<1>2. ASSUME NEW v \in Workers, v # w, Claim(v) PROVE FALSE
      BY <1>2, Claims
<1>3. ASSUME NEW v \in Workers, Succeed(v) \/ Bury(v) \/ Retry(v) PROVE FALSE
      BY <1>3, Outcomes DEF Engaged
<1>4. ASSUME NEW v \in Workers, LetGo(v) PROVE FALSE
      BY <1>4 DEF LetGo, Engaged
<1>5. ASSUME \/ \E c \in Clients : EnqueueInsert(c)
             \/ Sweep \/ Reap \/ Tick \/ UNCHANGED <<jobs, worker, now>>
      PROVE  FALSE
      BY <1>5, Inserts DEF Sweep, Reap, Tick
<1>6. ~AllGone
      BY DEF AllGone, Engaged
<1> QED BY <1>1, <1>2, <1>3, <1>4, <1>5, <1>6, StepKinds

LEMMA ClaimNext ==
    ASSUME Overrun = 0, TypeOK, CopiesBehind, ClaimInv, [Next]_vars
    PROVE  ClaimInv'
<1>1. OnTime'
      BY OnTimeNext DEF ClaimInv
<1>2. ASSUME NEW w \in Busy'
      PROVE  /\ jobs'[worker'[w].job].status = "running"
             /\ jobs'[worker'[w].job].claimedAt = worker'[w].at
      <2>1. w \in Workers /\ worker'[w].pc = "run"
            BY DEF Busy
      <2>2. CASE w \in Busy
            BY <2>1, <2>2, HeldRow DEF ClaimInv, ClaimHeld
      <2>3. CASE w \notin Busy
            BY <2>1, <2>3, NewlyBusy, Claims DEF Busy
      <2> QED BY <2>2, <2>3
<1>3. ASSUME NEW v \in Busy', NEW w \in Busy', v # w
      PROVE  worker'[v].job # worker'[w].job
      <2>1. /\ v \in Workers /\ worker'[v].pc = "run"
            /\ w \in Workers /\ worker'[w].pc = "run"
            BY DEF Busy
      <2>2. ASSUME NEW x \in Busy, NEW y \in Workers, y \notin Busy,
                   worker'[x].pc = "run", worker'[y].pc = "run"
            PROVE  worker'[x].job # worker'[y].job
            <3>1. Claim(y)
                  BY <2>2, NewlyBusy DEF Busy
            <3>2. worker'[y].job = worker[y].job /\ jobs[worker[y].job].status = "pending"
                  BY <3>1, Claims
            <3>3. worker'[x] = worker[x] /\ jobs[worker[x].job].status = "running"
                  BY <2>2, HeldRow DEF ClaimInv, ClaimHeld
            <3> QED BY <3>2, <3>3
      <2>3. CASE v \in Busy /\ w \in Busy
            <3>1. worker'[v] = worker[v] /\ worker'[w] = worker[w]
                  BY <2>1, <2>3, HeldRow
            <3> QED BY <1>3, <2>3, <3>1 DEF ClaimInv, OneHandler
      <2>4. CASE v \in Busy /\ w \notin Busy
            BY <2>1, <2>2, <2>4
      <2>5. CASE v \notin Busy /\ w \in Busy
            BY <2>1, <2>2, <2>5
      <2>6. CASE v \notin Busy /\ w \notin Busy
            <3>1. Claim(v) /\ Claim(w)
                  BY <2>1, <2>6, NewlyBusy DEF Busy
            <3>2. worker'[w] = worker[w] /\ worker[w].pc = "claim"
                  BY <1>3, <2>1, <3>1, Claims
            <3> QED BY <2>1, <3>2
      <2> QED BY <2>3, <2>4, <2>5, <2>6
<1> QED BY <1>1, <1>2, <1>3 DEF ClaimInv, ClaimHeld, OneHandler

LEMMA ClaimInvariant ==
    ASSUME Overrun = 0
    PROVE  Spec => [](TypeOK /\ LiveKeysDistinct /\ ClaimInv)
<1>1. Init => CopiesBehind /\ ClaimInv
      <2> SUFFICES ASSUME Init PROVE CopiesBehind /\ ClaimInv
          OBVIOUS
      <2>1. \A w \in Workers : worker[w].pc = "idle"
            BY DEF Init, Idle
      <2> QED BY <2>1 DEF CopiesBehind, Engaged, ClaimInv, OnTime, Punctual,
                          ClaimHeld, OneHandler, Busy
<1>2. TypeOK /\ CopiesBehind /\ ClaimInv /\ [Next]_vars => CopiesBehind' /\ ClaimInv'
      BY CopiesNext, ClaimNext
<1> QED BY <1>1, <1>2, JobTypeCorrect, KeysStayDistinct, PTL DEF Spec

\* When no attempt outlives its timeout, a worker that runs a handler holds its
\* claim: the row says so, and says since when.
THEOREM ClaimsAlwaysHeld ==
    ASSUME Overrun = 0
    PROVE  Spec => []ClaimHeld
<1>1. ClaimInv => ClaimHeld
      BY DEF ClaimInv
<1> QED BY <1>1, ClaimInvariant, PTL

\* When no attempt outlives its timeout, no job, and no two jobs with one unique
\* key, are ever in the hands of two handlers, for any number of workers.
THEOREM ExecutionIsExclusive ==
    ASSUME Overrun = 0
    PROVE  Spec => []ExclusiveExecution
<1>1. TypeOK /\ LiveKeysDistinct /\ ClaimInv => ExclusiveExecution
      <2> SUFFICES ASSUME TypeOK, LiveKeysDistinct, ClaimInv,
                          NEW v \in Busy, NEW w \in Busy, v # w
                   PROVE  /\ worker[v].job # worker[w].job
                          /\ KeyOf(v) = "" \/ KeyOf(v) # KeyOf(w)
          BY DEF ExclusiveExecution
      <2>1. worker[v].job # worker[w].job
            BY DEF ClaimInv, OneHandler
      <2>2. worker[v].job \in Ids /\ worker[w].job \in Ids
            BY DEF Busy, TypeOK
      <2>3. Live(worker[v].job) /\ Live(worker[w].job)
            BY DEF ClaimInv, ClaimHeld, Live
      <2> QED BY <2>1, <2>2, <2>3 DEF LiveKeysDistinct, KeyOf
<1> QED BY <1>1, ClaimInvariant, PTL

\* When no attempt outlives its timeout, a job that has succeeded or died keeps
\* its outcome until the reaper deletes it.
THEOREM OutcomesAreFinal ==
    ASSUME Overrun = 0
    PROVE  Spec => OutcomeIsFinal
<1> DEFINE Final == \A j \in Ids :
                      jobs[j].status \in Terminal =>
                          jobs'[j].status \in {jobs[j].status, "reaped"}
<1>1. TypeOK /\ LiveKeysDistinct /\ ClaimInv /\ [Next]_vars => [Final]_vars
      <2> SUFFICES ASSUME TypeOK, ClaimInv, [Next]_vars,
                          NEW j \in Ids, jobs[j].status \in Terminal
                   PROVE  jobs'[j].status \in {jobs[j].status, "reaped"}
          OBVIOUS
      <2>1. ASSUME NEW c \in Clients, EnqueueInsert(c) PROVE jobs'[j] = jobs[j]
            BY <2>1, Inserts DEF Terminal
      <2>2. ASSUME NEW w \in Workers, Claim(w) PROVE jobs'[j] = jobs[j]
            BY <2>2, Claims DEF Terminal
      <2>3. ASSUME NEW w \in Workers, Succeed(w) \/ Bury(w) \/ Retry(w)
            PROVE  jobs'[j] = jobs[j]
            <3>1. w \in Busy
                  BY <2>3, Outcomes DEF Busy
            <3>2. jobs[worker[w].job].status = "running"
                  BY <3>1 DEF ClaimInv, ClaimHeld
            <3> QED BY <2>3, <3>2, Outcomes DEF Terminal
      <2>4. ASSUME Sweep PROVE jobs'[j] = jobs[j]
            BY <2>4, Sweeps DEF Orphans, Running, Terminal
      <2>5. ASSUME Reap PROVE jobs'[j].status \in {jobs[j].status, "reaped"}
            BY <2>5, Reaps
      <2> QED BY <2>1, <2>2, <2>3, <2>4, <2>5, StepKinds
              DEF Find, Stamp, Tick, LetGo, AllGone
<1> QED BY <1>1, ClaimInvariant, PTL DEF Spec, OutcomeIsFinal

-----------------------------------------------------------------------------
(* The cap *)

LEMMA Counting ==
    ASSUME NEW S, NEW T, IsFiniteSet(T), NEW f \in [S -> T],
           \A a, b \in S : f[a] = f[b] => a = b
    PROVE  /\ IsFiniteSet(S) /\ Cardinality(S) \in Nat /\ Cardinality(T) \in Nat
           /\ Cardinality(S) <= Cardinality(T)
<1>1. f \in Injection(S, T)
      BY Fun_IsInj
<1>2. IsFiniteSet(S) /\ Cardinality(S) <= Cardinality(T)
      BY <1>1, FS_Injection
<1> QED BY <1>2, FS_CardinalityType

LEMMA FinitelyManyRows ==
    /\ IsFiniteSet(Ids)
    /\ \A S \in SUBSET Ids : IsFiniteSet(S) /\ Cardinality(S) \in Nat
<1>1. IsFiniteSet(Ids)
      BY QueueAssumption, FS_Interval DEF QueueAssumption, Ids
<1> QED BY <1>1, FS_Subset, FS_CardinalityType

\* Every handler has a running row of its own.
LEMMA ExecutingRuns ==
    ASSUME TypeOK, ClaimInv, NEW t \in Types
    PROVE  /\ IsFiniteSet(Executing(t))
           /\ Cardinality(Executing(t)) \in Nat /\ Cardinality(Running) \in Nat
           /\ Cardinality(Executing(t)) <= Cardinality(Running)
<1> DEFINE f == [w \in Executing(t) |-> worker[w].job]
<1>1. IsFiniteSet(Running)
      BY FinitelyManyRows DEF Running
<1>2. \A w \in Executing(t) : w \in Busy /\ worker[w].job \in Running
      BY DEF Executing, Busy, ClaimInv, ClaimHeld, Running, TypeOK
<1>3. f \in [Executing(t) -> Running]
      BY <1>2
<1>4. \A v, w \in Executing(t) : f[v] = f[w] => v = w
      BY <1>2 DEF ClaimInv, OneHandler
<1> HIDE DEF f
<1> QED BY <1>1, <1>3, <1>4, Counting

\* Only a claim starts a handler.
LEMMA NothingStarted ==
    ASSUME Overrun = 0, TypeOK, ClaimInv, [Next]_vars, NEW t \in Types,
           \A w \in Workers : ~Claim(w)
    PROVE  Executing(t)' \subseteq Executing(t)
<1> SUFFICES ASSUME NEW w \in Workers, worker'[w].pc = "run",
                    jobs'[worker'[w].job].req.type = t
             PROVE  w \in Executing(t)
    BY DEF Executing, Busy, TypeOf
<1>1. w \in Busy
      BY NewlyBusy DEF Busy
<1>2. worker'[w] = worker[w] /\ jobs'[worker[w].job] = jobs[worker[w].job]
      BY <1>1, HeldRow
<1> QED BY <1>1, <1>2 DEF Executing, TypeOf

LEMMA CapNext ==
    ASSUME Overrun = 0, TypeOK, ClaimInv, [Next]_vars, NEW t \in Types, cap[t] > 0,
           Cardinality(Executing(t)') > Cardinality(Executing(t))
    PROVE  Cardinality(Executing(t)') <= cap[t]
<1> DEFINE E == Executing(t)
           F == Executing(t)'
<1>1. IsFiniteSet(E) /\ Cardinality(E) \in Nat /\ Cardinality(Running) \in Nat
      /\ Cardinality(E) <= Cardinality(Running) /\ cap[t] \in Nat
      BY ExecutingRuns DEF TypeOK
<1>2. ~(F \subseteq E)
      <2> HIDE DEF E, F
      <2>1. ASSUME F \subseteq E PROVE Cardinality(F) <= Cardinality(E) /\ Cardinality(F) \in Nat
            BY <1>1, <2>1, FS_Subset, FS_CardinalityType
      <2>2. Cardinality(F) > Cardinality(E)
            BY DEF E, F
      <2> QED BY <1>1, <2>1, <2>2
<1>3. PICK w \in Workers : Claim(w)
      BY <1>2, NothingStarted
<1> DEFINE j == worker[w].job
<1>4. /\ j \in Ids /\ worker'[w].job = j /\ jobs'[j].req = jobs[j].req
      /\ \A i \in Ids : i # j => jobs'[i] = jobs[i]
      /\ \A v \in Workers : v # w => worker'[v] = worker[v]
      BY <1>3, Claims
<1>5. \A v \in F : v \in E \/ v = w
      <2> SUFFICES ASSUME NEW v \in Workers, v # w, worker'[v].pc = "run",
                          jobs'[worker'[v].job].req.type = t
                   PROVE  v \in Executing(t)
          BY DEF Executing, Busy, TypeOf
      <2>1. worker'[v] = worker[v] /\ worker[v].job \in Ids /\ worker[v].pc = "run"
            BY <1>4 DEF TypeOK
      <2>2. jobs'[worker[v].job].req = jobs[worker[v].job].req
            BY <1>4, <2>1
      <2> QED BY <2>1, <2>2 DEF Executing, Busy, TypeOf
<1>6. TypeOf(j) = t
      <2>1. w \in F
            BY <1>2, <1>5
      <2>2. jobs'[worker'[w].job].req.type = t
            BY <2>1 DEF Executing, TypeOf
      <2> QED BY <1>4, <2>2 DEF TypeOf
<1>7. cap[t] > Cardinality(Running)
      BY <1>1, <1>3, <1>6 DEF Claim, Claimable, WithinCap
<1> HIDE DEF E, F, j
<1>8. F \subseteq E \cup {w}
      BY <1>5
<1>9. /\ IsFiniteSet(E \cup {w})
      /\ Cardinality(E \cup {w}) = Cardinality(E) \/ Cardinality(E \cup {w}) = Cardinality(E) + 1
      BY <1>1, FS_AddElement
<1>10. Cardinality(F) <= Cardinality(E \cup {w}) /\ Cardinality(F) \in Nat
      BY <1>8, <1>9, FS_Subset, FS_CardinalityType
<1>11. Cardinality(F) <= cap[t]
      BY <1>1, <1>7, <1>9, <1>10
<1> QED BY <1>11 DEF F

\* When no attempt outlives its timeout, no start of a handler takes its type
\* above its cap: the claim counts and takes a row in one statement, and every
\* handler has a running row of its own to be counted.
THEOREM CapAlwaysHonoured ==
    ASSUME Overrun = 0
    PROVE  Spec => CapHonoured
<1> DEFINE Capped == \A t \in Types :
                       /\ cap[t] > 0
                       /\ Cardinality(Executing(t)') > Cardinality(Executing(t))
                       => Cardinality(Executing(t)') <= cap[t]
<1>1. TypeOK /\ ClaimInv /\ [Next]_vars => [Capped]_vars
      BY CapNext
<1> QED BY <1>1, ClaimInvariant, PTL DEF Spec, CapHonoured

-----------------------------------------------------------------------------
(* The rate limit *)

\* Nothing fails, a job is tried once, and the reaper keeps a row for as long as
\* a window may still reach back to its start: what "honoured exactly" takes.
Calm == ~Crashes /\ ~DBErrors /\ Overrun = 0

TriedOnce == \A r \in Requests : r.maxAttempts <= 1

KeptForWindow ==
    \/ RetainTerminal < 0
    \/ \A q \in Rates, r \in Requests : q.per + LimitOf(r) <= RetainTerminal + 1

\* The handler of the row has started.
Begun(j) == jobs[j].status \in {"running", "succeeded", "dead", "reaped"}

\* Its times are in order, and it is deleted after it was kept.
Dated(j) ==
    /\ 1 <= jobs[j].claimedAt /\ jobs[j].claimedAt <= now
    /\ jobs[j].status \in Terminal => jobs[j].claimedAt <= jobs[j].finishedAt
    /\ jobs[j].status = "reaped" =>
          RetainTerminal >= 0 /\ jobs[j].claimedAt + RetainTerminal < now

\* Every running row has its handler, so that none is swept; no handler's job
\* is tried again; and the rows that have begun say when.
SteadyInv ==
    /\ manager # "closing"
    /\ \A t \in Types : rate[t] \in Rates \cup {NoRate}
    /\ \A w \in Workers : Stamped(w) => 1 <= worker[w].at /\ worker[w].at <= now
    /\ \A w \in Busy : worker[w].attempts >= 1
    /\ \A j \in Running : \E w \in Busy : worker[w].job = j
    /\ \A j \in Ids : Begun(j) => Dated(j)

\* The only start of a row.
Record(j) ==
    [job |-> j, type |-> TypeOf(j), at |-> jobs[j].claimedAt, attempt |-> jobs[j].attempts]

\* The starts are those that the rows tell of.
StartsInv == \A s \in starts : \E j \in Ids : Begun(j) /\ s = Record(j)

LEMMA CalmSteps ==
    ASSUME Calm, TypeOK, manager # "closing", [Next]_vars
    PROVE  /\ manager' # "closing"
           /\ \/ UNCHANGED <<jobs, worker, now>>
              \/ \E c \in Clients : EnqueueInsert(c)
              \/ \E w \in Workers : \/ Find(w) \/ Stamp(w) \/ Claim(w)
                                    \/ LetGo(w) /\ worker[w].pc # "run"
                                    \/ Succeed(w) \/ Bury(w) \/ Retry(w)
              \/ Sweep \/ Reap \/ Tick
<1> USE DEF Calm
<1>1. CASE CallerStep
      BY <1>1 DEF CallerStep, EnqueueCheck, EnqueueInsert, SetConcurrency, SetRateLimit,
                  Register
<1>2. ASSUME NEW w \in Workers, WorkerStep(w)
      PROVE  /\ manager' = manager
             /\ \/ UNCHANGED <<jobs, worker, now>>
                \/ Find(w) \/ Stamp(w) \/ Claim(w)
                \/ LetGo(w) /\ worker[w].pc # "run"
                \/ Succeed(w) \/ Bury(w) \/ Retry(w)
      <2>1. CASE Poll(w)
            BY <2>1 DEF Poll, vars
      <2>2. CASE ClaimMisses(w) \/ StopWorker(w)
            <3>1. worker' \in [Workers -> Work]
                  BY TypeNext DEF TypeOK
            <3>2. worker'[w].pc \in {"idle", "stopped"}
                  BY <2>2 DEF ClaimMisses, StopWorker, GiveUp, Idle, TypeOK, Work
            <3>3. \A v \in Workers : v # w => worker'[v] = worker[v]
                  BY <2>2 DEF ClaimMisses, StopWorker, GiveUp, TypeOK
            <3> QED BY <2>2, <3>1, <3>2, <3>3
                    DEF LetGo, Engaged, ClaimMisses, StopWorker
      <2>3. ~FinaliseFails(w)
            BY DEF FinaliseFails, Mishap
      <2>4. CASE Find(w) \/ Stamp(w) \/ Claim(w)
            BY <2>4 DEF Find, Stamp, Claim
      <2>5. CASE Succeed(w) \/ Bury(w) \/ Retry(w)
            BY <2>5 DEF Succeed, Bury, Retry, Finalise
      <2> QED BY <1>2, <2>1, <2>2, <2>3, <2>4, <2>5 DEF WorkerStep
<1>3. CASE Start
      BY <1>3 DEF Start
<1>4. ~Close /\ ~Closed /\ ~Crash
      BY DEF Close, Closed, Crash
<1>5. CASE UNCHANGED vars
      BY <1>5 DEF vars
<1>6. CASE Sweep \/ Reap \/ Tick
      BY <1>6 DEF Sweep, Reap, Tick
<1> QED BY <1>1, <1>2, <1>3, <1>4, <1>5, <1>6 DEF Next

LEMMA RatesNext ==
    ASSUME \A t \in Types : rate[t] \in Rates \cup {NoRate}, TypeOK, [Next]_vars
    PROVE  \A t \in Types : rate'[t] \in Rates \cup {NoRate}
<1>1. CASE rate' = rate
      BY <1>1
<1>2. ASSUME NEW t \in Types, NEW r \in Rates, SetRateLimit(t, r)
      PROVE  \A u \in Types : rate'[u] \in Rates \cup {NoRate}
      BY <1>2 DEF SetRateLimit, TypeOK
<1>3. ASSUME NEW w \in Workers, WorkerStep(w) PROVE rate' = rate
      BY <1>3 DEF WorkerStep, Find, Poll, Stamp, Claim, ClaimMisses, Succeed, Bury, Retry,
                  FinaliseFails, StopWorker, Finalise, vars, limitVars
<1>4. CASE CallerStep
      BY <1>1, <1>2, <1>4 DEF CallerStep, EnqueueCheck, EnqueueInsert, SetConcurrency,
                              Register, limitVars
<1> QED BY <1>1, <1>3, <1>4 DEF Next, Sweep, Reap, Start, Close, Closed, Crash, Tick, vars,
                                limitVars

\* The UPDATE of finalise that ends a job.
LEMMA Endings ==
    ASSUME TypeOK, NEW w \in Workers, Succeed(w) \/ Bury(w),
           jobs[worker[w].job].status = "running"
    PROVE  LET j == worker[w].job
           IN  /\ jobs'[j].status \in Terminal
               /\ jobs'[j].finishedAt = now
               /\ jobs'[j].req = jobs[j].req
               /\ jobs'[j].claimedAt = jobs[j].claimedAt
               /\ jobs'[j].attempts = jobs[j].attempts
<1> DEFINE j == worker[w].job
<1>1. j \in Ids /\ jobs[j] \in Row
      BY DEF Succeed, Bury, TypeOK
<1>2. CASE Succeed(w)
      BY <1>1, <1>2 DEF Succeed, Finalise, TypeOK, Row, Terminal
<1>3. CASE Bury(w)
      BY <1>1, <1>3 DEF Bury, Finalise, TypeOK, Row, Terminal
<1> QED BY <1>2, <1>3

\* What the reaper does to a row that has begun.
LEMMA Reapings ==
    ASSUME TypeOK, Reap, NEW j \in Ids
    PROVE  \/ jobs'[j] = jobs[j]
           \/ /\ jobs[j].status \in Terminal /\ jobs'[j].status = "reaped"
              /\ RetainTerminal >= 0 /\ jobs[j].finishedAt < now - RetainTerminal
              /\ jobs'[j].req = jobs[j].req
              /\ jobs'[j].claimedAt = jobs[j].claimedAt
              /\ jobs'[j].attempts = jobs[j].attempts
<1>1. jobs[j] \in Row
      BY DEF TypeOK
<1>2. CASE j \in Expired
      <2>1. jobs'[j] = [jobs[j] EXCEPT !.status = "reaped"]
            BY <1>2 DEF Reap
      <2> QED BY <1>1, <1>2, <2>1 DEF Row, Expired
<1>3. CASE j \notin Expired
      BY <1>3 DEF Reap
<1> QED BY <1>2, <1>3

\* The steps of a calm queue, by what they do to the row j: nothing, or it
\* begins, ends or is reaped.
RowStep(j) ==
    \/ jobs'[j] = jobs[j]
    \/ ~Begun(j) /\ ~Begun(j)'
    \/ \E w \in Workers : Claim(w) /\ worker[w].job = j
    \/ /\ jobs'[j].req = jobs[j].req
       /\ jobs'[j].claimedAt = jobs[j].claimedAt
       /\ jobs'[j].attempts = jobs[j].attempts
       /\ \/ \E w \in Workers : /\ Succeed(w) \/ Bury(w)
                                /\ worker[w].job = j
                                /\ jobs[j].status = "running"
                                /\ jobs'[j].status \in Terminal
                                /\ jobs'[j].finishedAt = now
          \/ /\ jobs[j].status \in Terminal /\ jobs'[j].status = "reaped"
             /\ RetainTerminal >= 0 /\ jobs[j].finishedAt < now - RetainTerminal

\* No running row is swept, and no job is tried again.
LEMMA NoneSwept ==
    ASSUME Calm, TypeOK, ClaimInv, SteadyInv
    PROVE  ~Sweep
<1>1. \A j \in Running : j \notin Orphans
      BY HeldIsNoOrphan DEF SteadyInv, ClaimInv, Calm
<1> QED BY <1>1 DEF Sweep, Orphans

LEMMA NoneRetried ==
    ASSUME TriedOnce, TypeOK, SteadyInv, NEW w \in Workers
    PROVE  ~Retry(w)
<1> SUFFICES ASSUME Retry(w) PROVE FALSE
    OBVIOUS
<1>1. worker[w].pc = "run" /\ ~Exhausted(w)
      BY DEF Retry
<1>2. worker[w].job \in Ids /\ worker[w].attempts >= 1 /\ worker[w].attempts \in Nat
      BY <1>1 DEF SteadyInv, Busy, TypeOK, Work
<1>3. jobs[worker[w].job].req \in Requests
      BY <1>2 DEF TypeOK, Row
<1>4. /\ jobs[worker[w].job].req.maxAttempts <= 1
      /\ jobs[worker[w].job].req.maxAttempts \in Int
      BY <1>3, QueueAssumption DEF TriedOnce, QueueAssumption, RequestType
<1> QED BY <1>1, <1>2, <1>4 DEF Exhausted

LEMMA CalmRows ==
    ASSUME Calm, TriedOnce, TypeOK, ClaimInv, SteadyInv, [Next]_vars, NEW j \in Ids
    PROVE  RowStep(j)
<1>1. ~Sweep /\ \A w \in Workers : ~Retry(w)
      BY NoneSwept, NoneRetried
<1>2. ASSUME NEW c \in Clients, EnqueueInsert(c) PROVE RowStep(j)
      BY <1>2, Inserts DEF RowStep, Begun
<1>3. ASSUME NEW w \in Workers, Claim(w) PROVE RowStep(j)
      BY <1>3, Claims DEF RowStep
<1>4. ASSUME NEW w \in Workers, Succeed(w) \/ Bury(w) PROVE RowStep(j)
      <2>1. jobs[worker[w].job].status = "running"
            BY <1>4 DEF Succeed, Bury, ClaimInv, ClaimHeld, Busy
      <2>2. CASE j = worker[w].job
            BY <1>4, <2>1, <2>2, Endings DEF RowStep
      <2>3. CASE j # worker[w].job
            BY <1>4, <2>3, Outcomes DEF RowStep
      <2> QED BY <2>2, <2>3
<1>5. CASE Reap
      BY <1>5, Reapings DEF RowStep
<1>6. ASSUME \/ UNCHANGED <<jobs, worker, now>> \/ Tick
             \/ \E w \in Workers : Find(w) \/ Stamp(w) \/ LetGo(w)
      PROVE  RowStep(j)
      BY <1>6 DEF RowStep, Tick, Find, Stamp, LetGo
<1>7. manager # "closing"
      BY DEF SteadyInv
<1> QED BY <1>1, <1>2, <1>3, <1>4, <1>5, <1>6, <1>7, CalmSteps

LEMMA TimePasses ==
    ASSUME TypeOK, [Next]_vars
    PROVE  now \in Nat /\ now' \in Nat /\ now <= now'
<1>1. now \in Nat /\ now' \in Nat
      BY TypeNext DEF TypeOK
<1>2. ASSUME NEW w \in Workers, Find(w) \/ Claim(w) PROVE now' = now
      BY <1>2 DEF Find, Claim
<1>3. ASSUME NEW w \in Workers, Stamp(w) PROVE now' = now
      BY <1>3 DEF Stamp
<1>4. ASSUME NEW w \in Workers, Succeed(w) \/ Bury(w) \/ Retry(w) PROVE now' = now
      BY <1>4, Outcomes
<1>5. ASSUME \/ UNCHANGED <<jobs, worker, now>> \/ AllGone \/ Sweep \/ Reap
             \/ \E c \in Clients : EnqueueInsert(c)
             \/ \E w \in Workers : LetGo(w)
      PROVE  now' = now
      BY <1>5 DEF AllGone, Sweep, Reap, EnqueueInsert, LetGo
<1>6. CASE Tick
      BY <1>1, <1>6 DEF Tick
<1> QED BY <1>1, <1>2, <1>3, <1>4, <1>5, <1>6, StepKinds

LEMMA DatesNext ==
    ASSUME Calm, TriedOnce, TypeOK, ClaimInv, SteadyInv, [Next]_vars,
           NEW j \in Ids, Begun(j)'
    PROVE  Dated(j)'
<1>1. jobs[j] \in Row /\ jobs'[j] \in Row /\ RetainTerminal \in Int
      BY TypeNext, QueueAssumption DEF TypeOK, QueueAssumption
<1>2. /\ jobs[j].claimedAt \in Nat /\ jobs[j].finishedAt \in Nat
      /\ jobs'[j].claimedAt \in Nat /\ jobs'[j].finishedAt \in Nat
      BY <1>1 DEF Row
<1>3. now \in Nat /\ now' \in Nat /\ now <= now'
      BY TimePasses
<1>4. Begun(j) => Dated(j)
      BY DEF SteadyInv
<1>5. CASE jobs'[j] = jobs[j]
      BY <1>1, <1>2, <1>3, <1>4, <1>5 DEF Dated, Begun, Terminal
<1>6. ASSUME NEW w \in Workers, Claim(w), worker[w].job = j PROVE Dated(j)'
      <2>1. /\ jobs'[j].status = "running" /\ jobs'[j].claimedAt = worker[w].at
            /\ worker[w].pc = "claim"
            BY <1>6, Claims
      <2>2. 1 <= worker[w].at /\ worker[w].at <= now
            BY <2>1 DEF SteadyInv, Stamped
      <2> QED BY <1>2, <1>3, <2>1, <2>2 DEF Dated, Terminal
<1>7. CASE /\ jobs'[j].claimedAt = jobs[j].claimedAt
           /\ jobs[j].status = "running" /\ jobs'[j].status \in Terminal
           /\ jobs'[j].finishedAt = now
      BY <1>2, <1>3, <1>4, <1>7 DEF Dated, Begun, Terminal
<1>8. CASE /\ jobs'[j].claimedAt = jobs[j].claimedAt
           /\ jobs[j].status \in Terminal /\ jobs'[j].status = "reaped"
           /\ RetainTerminal >= 0 /\ jobs[j].finishedAt < now - RetainTerminal
      BY <1>1, <1>2, <1>3, <1>4, <1>8 DEF Dated, Begun, Terminal
<1>9. RowStep(j)
      BY CalmRows
<1> QED BY <1>5, <1>6, <1>7, <1>8, <1>9 DEF RowStep

\* A handler that runs goes on, or ends its row.
LEMMA AttendedNext ==
    ASSUME Calm, TriedOnce, TypeOK, ClaimInv, SteadyInv, [Next]_vars,
           NEW j \in Running'
    PROVE  \E w \in Busy' : worker'[w].job = j
<1>1. j \in Ids /\ jobs'[j].status = "running" /\ manager # "closing"
      BY DEF Running, SteadyInv
<1>2. ASSUME NEW w \in Workers, Claim(w), worker[w].job = j
      PROVE  \E v \in Busy' : worker'[v].job = j
      BY <1>2, Claims DEF Busy
<1>3. CASE ~(\E w \in Workers : Claim(w) /\ worker[w].job = j)
      <2>1. jobs'[j] = jobs[j]
            BY <1>1, <1>3, CalmRows DEF RowStep, Begun, Terminal
      <2>2. PICK w \in Busy : worker[w].job = j
            BY <1>1, <2>1 DEF SteadyInv, Running
      <2>3. w \in Workers /\ worker[w].pc = "run"
            BY DEF Busy
      <2>4. ASSUME NEW v \in Workers, Find(v) PROVE worker'[w] = worker[w]
            <3>1. v # w
                  BY <2>3, <2>4 DEF Find, Looping
            <3> QED BY <2>3, <2>4, <3>1 DEF Find, TypeOK
      <2>5. ASSUME NEW v \in Workers, Stamp(v) PROVE worker'[w] = worker[w]
            BY <2>3, <2>5, Stamps
      <2>6. ASSUME NEW v \in Workers, Claim(v) PROVE worker'[w] = worker[w]
            BY <2>3, <2>6, Claims
      <2>7. ASSUME NEW v \in Workers, LetGo(v), worker[v].pc # "run"
            PROVE  worker'[w] = worker[w]
            BY <2>3, <2>7 DEF LetGo
      <2>8. ASSUME NEW v \in Workers, Succeed(v) \/ Bury(v) PROVE worker'[w] = worker[w]
            <3>1. v # w
                  <4>1. ASSUME v = w PROVE FALSE
                        <5>1. jobs'[j].status \in Terminal
                              BY <2>1, <2>2, <2>8, <1>1, <4>1, Endings
                        <5> QED BY <1>1, <5>1 DEF Terminal
                  <4> QED BY <4>1
            <3> QED BY <2>3, <2>8, <3>1, Outcomes
      <2>9. ASSUME \/ UNCHANGED <<jobs, worker, now>> \/ Tick \/ Reap
                   \/ \E c \in Clients : EnqueueInsert(c)
            PROVE  worker'[w] = worker[w]
            BY <2>9, Inserts DEF Tick, Reap
      <2>10. worker'[w] = worker[w]
            BY <1>1, <2>4, <2>5, <2>6, <2>7, <2>8, <2>9, CalmSteps, NoneSwept, NoneRetried
      <2> QED BY <2>2, <2>3, <2>10 DEF Busy
<1> QED BY <1>2, <1>3

LEMMA StampsNext ==
    ASSUME Calm, TypeOK, SteadyInv, [Next]_vars, NEW w \in Workers, Stamped(w)'
    PROVE  /\ 1 <= worker'[w].at /\ worker'[w].at <= now'
           /\ worker'[w].pc = "run" => worker'[w].attempts >= 1
<1>1. now \in Nat /\ now' \in Nat /\ now <= now' /\ 1 <= now
      <2>1. now >= 1
            BY DEF TypeOK
      <2> QED BY <2>1, TimePasses
<1>2. worker[w] \in Work /\ worker'[w] \in Work
      BY TypeNext DEF TypeOK
<1>3. /\ worker[w].at \in Nat /\ worker'[w].at \in Nat
      /\ worker[w].attempts \in Nat /\ worker'[w].attempts \in Nat
      BY <1>2 DEF Work
<1>4. Stamped(w) => /\ 1 <= worker[w].at /\ worker[w].at <= now
                    /\ worker[w].pc = "run" => worker[w].attempts >= 1
      BY DEF SteadyInv, Stamped, Busy
<1>5. CASE worker'[w] = worker[w]
      BY <1>1, <1>3, <1>4, <1>5 DEF Stamped
<1>6. CASE Stamp(w)
      BY <1>1, <1>6, Stamps
<1>7. CASE Claim(w)
      BY <1>1, <1>3, <1>4, <1>7, Claims DEF Stamped
<1>8. ASSUME NEW v \in Workers, v # w, Find(v) \/ Stamp(v) \/ Claim(v)
      PROVE  worker'[w] = worker[w]
      BY <1>8, Stamps, Claims DEF Find, TypeOK
<1>9. ASSUME NEW v \in Workers, Succeed(v) \/ Bury(v) \/ Retry(v) \/ LetGo(v)
      PROVE  worker'[w] = worker[w]
      BY <1>9, Outcomes DEF LetGo, Engaged, Stamped
<1>10. ASSUME \/ UNCHANGED <<jobs, worker, now>> \/ Sweep \/ Reap \/ Tick
              \/ \E c \in Clients : EnqueueInsert(c)
       PROVE  worker'[w] = worker[w]
      BY <1>10, Inserts DEF Sweep, Reap, Tick
<1>11. ~AllGone
      BY DEF AllGone, Engaged, Stamped
<1>12. ~Find(w)
      BY DEF Find, TypeOK, Stamped
<1> QED BY <1>5, <1>6, <1>7, <1>8, <1>9, <1>10, <1>11, <1>12, StepKinds

LEMMA SteadyNext ==
    ASSUME Calm, TriedOnce, TypeOK, ClaimInv, SteadyInv, [Next]_vars
    PROVE  SteadyInv'
<1>1. manager' # "closing"
      BY CalmSteps DEF SteadyInv
<1>2. \A t \in Types : rate'[t] \in Rates \cup {NoRate}
      BY RatesNext DEF SteadyInv
<1>3. \A w \in Workers : Stamped(w)' => 1 <= worker'[w].at /\ worker'[w].at <= now'
      BY StampsNext
<1>4. \A w \in Busy' : worker'[w].attempts >= 1
      <2> SUFFICES ASSUME NEW w \in Workers, worker'[w].pc = "run"
                   PROVE  worker'[w].attempts >= 1
          BY DEF Busy
      <2>1. Stamped(w)'
            BY DEF Stamped
      <2> QED BY <2>1, StampsNext
<1>5. \A j \in Running' : \E w \in Busy' : worker'[w].job = j
      BY AttendedNext
<1>6. \A j \in Ids : Begun(j)' => Dated(j)'
      BY DatesNext
<1> QED BY <1>1, <1>2, <1>3, <1>4, <1>5, <1>6 DEF SteadyInv

LEMMA SteadyInit == Init => SteadyInv
<1> SUFFICES ASSUME Init PROVE SteadyInv
    OBVIOUS
<1>1. /\ \A w \in Workers : worker[w].pc = "idle"
      /\ \A j \in Ids : jobs[j].status = "free"
      /\ manager = "down" /\ \A t \in Types : rate[t] = NoRate
      BY DEF Init, Idle, NoRow
<1> QED BY <1>1 DEF SteadyInv, Stamped, Busy, Running, Begun

\* A row that has begun keeps its record.
LEMMA RecordStays ==
    ASSUME Calm, TriedOnce, TypeOK, ClaimInv, SteadyInv, [Next]_vars,
           NEW j \in Ids, Begun(j)
    PROVE  Begun(j)' /\ Record(j)' = Record(j)
<1>1. ASSUME NEW w \in Workers, Claim(w) PROVE worker[w].job # j
      BY <1>1, Claims DEF Begun
<1>2. CASE jobs'[j] = jobs[j]
      BY <1>2 DEF Begun, Record, TypeOf
<1>3. CASE /\ jobs'[j].req = jobs[j].req
           /\ jobs'[j].claimedAt = jobs[j].claimedAt
           /\ jobs'[j].attempts = jobs[j].attempts
           /\ jobs'[j].status \in Terminal \cup {"reaped"}
      BY <1>3 DEF Begun, Record, TypeOf, Terminal
<1> QED BY <1>1, <1>2, <1>3, CalmRows DEF RowStep

\* Who starts has claimed, and is alone.
LEMMA OneStarts ==
    ASSUME TypeOK, [Next]_vars, NEW w \in Workers, Starting(w)
    PROVE  Claim(w) /\ \A v \in Workers : Starting(v) => v = w
<1>1. ASSUME NEW v \in Workers, Starting(v) PROVE Claim(v)
      BY <1>1, NewlyBusy DEF Starting
<1>2. Claim(w)
      BY <1>1
<1>3. \A v \in Workers : v # w => worker'[v] = worker[v]
      BY <1>2, Claims
<1> QED BY <1>2, <1>3 DEF Starting

LEMMA StartsNext ==
    ASSUME Calm, TriedOnce, TypeOK, ClaimInv, SteadyInv, StartsInv, SNext
    PROVE  StartsInv'
<1> SUFFICES ASSUME NEW s \in starts'
             PROVE  \E j \in Ids : Begun(j)' /\ s = Record(j)'
    BY DEF StartsInv
<1>1. [Next]_vars
      BY DEF SNext
<1>2. CASE s \in starts
      <2>1. PICK j \in Ids : Begun(j) /\ s = Record(j)
            BY <1>2 DEF StartsInv
      <2> QED BY <1>1, <2>1, RecordStays
<1>3. ASSUME NEW w \in Workers, Starting(w), s = StartOf(w)
      PROVE  \E j \in Ids : Begun(j)' /\ s = Record(j)'
      <2> DEFINE j == worker[w].job
      <2>1. /\ j \in Ids /\ jobs'[j].status = "running" /\ jobs'[j].req = jobs[j].req
            /\ jobs'[j].claimedAt = worker[w].at
            /\ jobs'[j].attempts = jobs[j].attempts + 1
            BY <1>1, <1>3, OneStarts, Claims
      <2> QED BY <1>3, <2>1 DEF StartOf, Record, TypeOf, Begun
<1> QED BY <1>2, <1>3 DEF SNext

\* The starts inside the window are rows that the claim counts.
LEMMA WindowCounted ==
    ASSUME Calm, KeptForWindow, TypeOK, ClaimInv, SteadyInv,
           NEW w \in Workers, worker[w].pc = "claim",
           NEW t \in Types, t = TypeOf(worker[w].job), rate[t] # NoRate,
           NEW j \in Ids, Begun(j), TypeOf(j) = t,
           jobs[j].claimedAt > worker[w].at - rate[t].per
    PROVE  j \in StartedWithin(worker[w].at)
<1> DEFINE at == worker[w].at
           r  == jobs[worker[w].job].req
           per == rate[t].per
<1>1. /\ at \in Nat /\ now \in Nat /\ r \in Requests /\ jobs[j] \in Row
      /\ RetainTerminal \in Int /\ rate[t] \in Rates /\ per \in Nat
      BY QueueAssumption DEF TypeOK, Work, Row, QueueAssumption, SteadyInv, RateType
<1>2. LimitOf(r) \in Nat /\ jobs[j].claimedAt \in Nat
      BY <1>1, QueueAssumption DEF LimitOf, QueueAssumption, RequestType, Row
<1>3. now <= at + LimitOf(r)
      <2>1. now <= at + LimitOf(r) + Overrun
            BY DEF ClaimInv, OnTime, Punctual, TimeoutOf, LimitOf
      <2>2. Overrun = 0
            BY DEF Calm
      <2> HIDE DEF at, r
      <2> QED BY <1>1, <1>2, <2>1, <2>2
<1>4. Dated(j)
      BY DEF SteadyInv
<1>5. jobs[j].status # "reaped"
      <2> SUFFICES ASSUME jobs[j].status = "reaped" PROVE FALSE
          OBVIOUS
      <2>1. RetainTerminal >= 0 /\ jobs[j].claimedAt + RetainTerminal < now
            BY <1>4 DEF Dated
      <2>2. per + LimitOf(r) <= RetainTerminal + 1
            BY <1>1, <2>1 DEF KeptForWindow
      <2>3. jobs[j].claimedAt > at - per
            OBVIOUS
      <2> HIDE DEF at, r, per
      <2> QED BY <1>1, <1>2, <1>3, <2>1, <2>2, <2>3
<1>6. jobs[j].claimedAt >= 1 /\ jobs[j].status # "free"
      BY <1>4 DEF Dated, Begun
<1> QED BY <1>2, <1>5, <1>6 DEF StartedWithin, Null

LEMMA RateNext ==
    ASSUME Calm, KeptForWindow, TypeOK, ClaimInv, SteadyInv, StartsInv, SNext,
           NEW w \in Workers, Starting(w), rate[TypeOf(worker[w].job)] # NoRate
    PROVE  LET t == TypeOf(worker[w].job)
           IN  Cardinality(StartsOf(t, worker[w].at - rate[t].per)) <= rate[t].n
<1> DEFINE t  == TypeOf(worker[w].job)
           at == worker[w].at
           A  == {s \in starts : s.type = t /\ s.at > at - rate[t].per}
           T  == StartedWithin(at)
           f  == [s \in A |-> s.job]
           S  == StartsOf(t, at - rate[t].per)
<1>1. Claim(w) /\ \A v \in Workers : Starting(v) => v = w
      BY OneStarts DEF SNext
<1>2. worker[w].pc = "claim" /\ worker[w].job \in Ids
      BY <1>1, Claims
<1>3. t \in Types
      BY <1>2, QueueAssumption DEF TypeOK, Row, TypeOf, QueueAssumption, RequestType
<1>4. rate[t].n > Cardinality(T) /\ rate[t].n \in Nat
      <2>1. WithinRate(t, at)
            BY <1>1 DEF Claim, Claimable
      <2>2. rate[t].n \in Nat
            BY <1>3 DEF TypeOK, RateType
      <2> QED BY <2>1, <2>2 DEF WithinRate
<1>5. T \subseteq Ids
      BY DEF StartedWithin
<1>6. IsFiniteSet(T) /\ Cardinality(T) \in Nat
      <2> HIDE DEF T
      <2> QED BY <1>5, FinitelyManyRows
<1>7. \A s \in A : s.job \in Ids /\ s = Record(s.job) /\ s.job \in T
      <2> SUFFICES ASSUME NEW s \in A
                   PROVE  s.job \in Ids /\ s = Record(s.job) /\ s.job \in T
          OBVIOUS
      <2>1. PICK j \in Ids : Begun(j) /\ s = Record(j)
            BY DEF StartsInv
      <2>2. s.job = j /\ s.type = TypeOf(j) /\ s.at = jobs[j].claimedAt
            BY <2>1 DEF Record
      <2>3. j \in T
            BY <1>2, <1>3, <2>1, <2>2, WindowCounted
      <2> QED BY <2>1, <2>2, <2>3
<1> HIDE DEF A, T
<1>8. f \in [A -> T] /\ \A x, y \in A : f[x] = f[y] => x = y
      BY <1>7
<1> HIDE DEF f
<1>9. IsFiniteSet(A) /\ Cardinality(A) \in Nat /\ Cardinality(A) <= Cardinality(T)
      BY <1>6, <1>8, Counting
<1>10. S \subseteq A \cup {StartOf(w)}
      <2>1. starts' \subseteq starts \cup {StartOf(w)}
            BY <1>1 DEF SNext
      <2> QED BY <2>1 DEF A, StartsOf
<1> HIDE DEF S
<1> DEFINE x == StartOf(w)
<1> HIDE DEF x
<1>11. /\ IsFiniteSet(A \cup {x})
       /\ Cardinality(A \cup {x}) = Cardinality(A) \/ Cardinality(A \cup {x}) = Cardinality(A) + 1
      BY <1>9, FS_AddElement
<1>12. Cardinality(S) <= Cardinality(A \cup {x}) /\ Cardinality(S) \in Nat
      <2>1. S \subseteq A \cup {x}
            BY <1>10 DEF x
      <2> QED BY <1>11, <2>1, FS_Subset, FS_CardinalityType
<1>13. Cardinality(S) <= rate[t].n
      <2> HIDE DEF t
      <2> QED BY <1>4, <1>6, <1>9, <1>11, <1>12
<1> QED BY <1>13 DEF S

LEMMA RateInvariant ==
    ASSUME Calm, TriedOnce
    PROVE  SSpec => [](TypeOK /\ ClaimInv /\ SteadyInv /\ StartsInv)
<1>1. SInit => Init /\ SteadyInv /\ StartsInv
      BY SteadyInit DEF SInit, StartsInv
<1>2. [SNext]_<<vars, starts>> => [Next]_vars
      BY DEF SNext, vars
<1>3. Overrun = 0
      BY DEF Calm
<1>4. SSpec => [](TypeOK /\ ClaimInv)
      BY <1>1, <1>2, <1>3, ClaimInvariant, PTL DEF SSpec, Spec
<1>5. TypeOK /\ ClaimInv /\ SteadyInv /\ StartsInv /\ [SNext]_<<vars, starts>>
         => SteadyInv' /\ StartsInv'
      <2> SUFFICES ASSUME TypeOK, ClaimInv, SteadyInv, StartsInv, [SNext]_<<vars, starts>>
                   PROVE  SteadyInv' /\ StartsInv'
          OBVIOUS
      <2>1. SteadyInv'
            BY <1>2, SteadyNext
      <2>2. CASE SNext
            BY <2>1, <2>2, StartsNext
      <2>3. CASE UNCHANGED <<vars, starts>>
            BY <2>1, <2>3 DEF vars, StartsInv, Begun, Record, TypeOf
      <2> QED BY <2>2, <2>3
<1> QED BY <1>1, <1>4, <1>5, PTL DEF SSpec

\* "Honoured exactly": when nothing fails, jobs are tried once and the reaper
\* keeps a row for as long as a window reaches back, no more handlers of a type
\* ever start within the period of its rate limit than it allows, whatever
\* periods the other types have and whenever the limit is set.
THEOREM RateAlwaysHonoured ==
    ASSUME Calm, TriedOnce, KeptForWindow
    PROVE  SSpec => RateHonoured
<1> DEFINE Honoured == \A w \in Workers :
              LET t == TypeOf(worker[w].job)
              IN  Starting(w) /\ rate[t] # NoRate =>
                    Cardinality(StartsOf(t, worker[w].at - rate[t].per)) <= rate[t].n
<1>1. TypeOK /\ ClaimInv /\ SteadyInv /\ StartsInv /\ [SNext]_<<vars, starts>>
         => [Honoured]_<<vars, starts>>
      BY RateNext
<1> QED BY <1>1, RateInvariant, PTL DEF SSpec, RateHonoured
=============================================================================
