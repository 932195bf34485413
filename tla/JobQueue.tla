------------------------------ MODULE JobQueue ------------------------------
(***************************************************************************)
(* The job queue of src/jobs: the table colmena_jobs, the worker pool that *)
(* claims and runs its rows, the sweeper, the reaper, the callers of       *)
(* Enqueue and the life of the Manager.                                    *)
(*                                                                         *)
(* Every SQL statement is one step: the store has a single writer, so a    *)
(* statement sees and leaves a consistent table.  Between two statements   *)
(* of one goroutine any other goroutine may run.  A worker therefore takes *)
(* four steps per job: the SELECT of findCandidate, the look at the clock, *)
(* the claiming UPDATE, and the UPDATE of finalise once its handler has    *)
(* returned.  The other goroutines look at the clock as they write.        *)
(*                                                                         *)
(* Left out: payloads, enqueued_at, last_error, claimed_by and the         *)
(* counters of Stats, which nothing in the queue reads; started_at, which  *)
(* every statement sets and clears together with claimed_at; the poll      *)
(* timer and the poke channel, as an idle worker may look for work at any  *)
(* time; and finalise's errNoHandler branch, which is never taken:         *)
(* findCandidate only selects registered types and no type is ever         *)
(* unregistered.                                                           *)
(***************************************************************************)
EXTENDS Integers, FiniteSets

CONSTANTS
    Workers,         \* the worker goroutines
    Clients,         \* the goroutines that call Enqueue
    Types,           \* the job types
    Requests,        \* what Enqueue may be called with
    Caps,            \* the caps SetConcurrency may be called with
    Rates,           \* the rates SetRateLimit may be called with
    Delays,          \* what nextBackoff may return
    DefaultTimeout,  \* config.DefaultTimeout
    RetainTerminal,  \* config.RetainTerminal after applyDefaults
    Overrun,         \* how long after its timeout an attempt may still be busy
    Crashes,         \* may the process crash, or be closed and started again?
    DBErrors,        \* may a statement of a worker or of Enqueue fail?
    MaxJobs,         \* bound of the model: rows ever inserted
    QuietAfter,      \* bound of the model: no call and no mishap after it
    LazyUntil,       \* bound of the model: the clock then waits for the workers
    MaxTime          \* bound of the model: the clock stops here

Ids == 1..MaxJobs

RequestType == [type : Types, priority : Int, maxAttempts : Int,
                key : STRING, timeout : Int, delay : Nat]
RateType == [n : Nat, per : Nat]

ASSUME QueueAssumption ==
    /\ Requests \subseteq RequestType /\ Requests # {}
    /\ Caps \subseteq Nat
    /\ Rates \subseteq RateType
    /\ Delays \subseteq Nat \ {0}
    /\ DefaultTimeout \in Nat \ {0}
    /\ RetainTerminal \in Int
    /\ Overrun \in Nat
    /\ Crashes \in BOOLEAN
    /\ DBErrors \in BOOLEAN
    /\ MaxJobs \in Nat
    /\ QuietAfter \in Nat
    /\ LazyUntil \in Nat
    /\ MaxTime \in Nat

VARIABLES
    jobs,      \* the rows of colmena_jobs
    cap,       \* colmena_jobs_concurrency; 0 for no row
    rate,      \* colmena_jobs_ratelimit; NoRate for no row
    handlers,  \* the types registered with this manager
    manager,   \* the life of the Manager
    worker,    \* the worker goroutines
    client,    \* the callers of Enqueue
    now        \* the clock, in milliseconds

limitVars == <<cap, rate>>
vars == <<jobs, limitVars, handlers, manager, worker, client, now>>

-----------------------------------------------------------------------------
(* Data *)

Null == 0                             \* an SQL NULL in a time column
NoRate == [n |-> 0, per |-> 0]

\* An id that newID has not drawn yet has no row and status "free"; a row that
\* the reaper deleted has status "reaped".  The request columns never change.
Statuses == {"free", "pending", "running", "succeeded", "dead", "reaped"}
Terminal == {"succeeded", "dead"}

Row == [req : Requests, status : Statuses, attempts : Nat, runAt : Nat,
        claimedAt : Nat, finishedAt : Nat]

\* What a worker holds of its job: findCandidate's copy of the attempts, and
\* the instant that the claim takes from the clock.
Work == [pc : {"idle", "found", "claim", "run", "stopped"}, job : 0..MaxJobs,
         attempts : Nat, at : Nat]
Idle == [pc |-> "idle", job |-> 0, attempts |-> 0, at |-> 0]

Call == [pc : {"idle", "insert"}, req : Requests, runAt : Nat]

TypeOK ==
    /\ jobs \in [Ids -> Row]
    /\ cap \in [Types -> Nat]
    /\ rate \in [Types -> RateType]
    /\ handlers \subseteq Types
    /\ manager \in {"up", "closing", "down"}
    /\ worker \in [Workers -> Work]
    /\ \A w \in Workers :
         worker[w].pc \in {"found", "claim", "run"} => worker[w].job \in Ids
    /\ client \in [Clients -> Call]
    /\ now \in Nat \ {0}

AnyRequest == CHOOSE r \in Requests : TRUE
NoRow == [req |-> AnyRequest, status |-> "free", attempts |-> 0, runAt |-> 0,
          claimedAt |-> Null, finishedAt |-> Null]
NoCall == [pc |-> "idle", req |-> AnyRequest, runAt |-> 0]

\* An empty table and a manager that New has not started yet.
Init ==
    /\ jobs = [j \in Ids |-> NoRow]
    /\ cap = [t \in Types |-> 0]
    /\ rate = [t \in Types |-> NoRate]
    /\ handlers = {}
    /\ manager = "down"
    /\ worker = [w \in Workers |-> Idle]
    /\ client = [c \in Clients |-> NoCall]
    /\ now = 1

TypeOf(j) == jobs[j].req.type
Live(j) == jobs[j].status \in {"pending", "running"}

\* The partial unique index on unique_key: some live row other than j has key k.
KeyTaken(k, j) == k # "" /\ \E i \in Ids \ {j} : Live(i) /\ jobs[i].req.key = k

\* The timeout that bounds a handler's context.
TimeoutOf(j) ==
    IF jobs[j].req.timeout > 0 THEN jobs[j].req.timeout ELSE DefaultTimeout

-----------------------------------------------------------------------------
(* The callers of Enqueue, SetConcurrency, SetRateLimit and Register *)

\* A statement of a worker or of Enqueue fails, and changes nothing.
Mishap == DBErrors /\ now <= QuietAfter

FreeIds == {j \in Ids : jobs[j].status = "free"}
Inserting == {c \in Clients : client[c].pc = "insert"}

\* Enqueue up to its first SELECT.  When a live job has the key the call
\* returns that job's id and nothing happens; a SELECT that fails is taken for
\* one that finds nothing.
EnqueueCheck(c, r) ==
    /\ manager # "down" /\ now <= QuietAfter
    /\ Cardinality(Inserting) < Cardinality(FreeIds)
    /\ client[c].pc = "idle"
    /\ ~KeyTaken(r.key, 0) \/ Mishap
    /\ client' = [client EXCEPT
                    ![c] = [pc |-> "insert", req |-> r, runAt |-> now + r.delay]]
    /\ UNCHANGED <<jobs, limitVars, handlers, manager, worker, now>>

\* A new row for the call x.
Inserted(x) ==
    [req |-> x.req, status |-> "pending", attempts |-> 0,
     runAt |-> IF x.runAt < now THEN now ELSE x.runAt,
     claimedAt |-> Null, finishedAt |-> Null]

\* (mutant) The INSERT without the unique index behind it.
InsertUnchecked(c) ==
    \E id \in FreeIds : /\ \A i \in FreeIds : id <= i
                        /\ jobs' = [jobs EXCEPT ![id] = Inserted(client[c])]

\* The INSERT, under the next id.  When the index refuses it, Enqueue looks the
\* live job up and returns its id, or ErrDuplicateUnique when that job has ended
\* meanwhile.
Insert(c) ==
    IF KeyTaken(client[c].req.key, 0)
      THEN UNCHANGED jobs
      ELSE \E id \in FreeIds : /\ \A i \in FreeIds : id <= i
                               /\ jobs' = [jobs EXCEPT ![id] = Inserted(client[c])]

EnqueueInsert(c) ==
    /\ client[c].pc = "insert"
    /\ Insert(c) \/ (Mishap /\ UNCHANGED jobs)
    /\ client' = [client EXCEPT ![c] = NoCall]
    /\ UNCHANGED <<limitVars, handlers, manager, worker, now>>

\* A cap of 0 deletes the row.
SetConcurrency(t, c) ==
    /\ now <= QuietAfter
    /\ cap' = [cap EXCEPT ![t] = c]
    /\ UNCHANGED <<jobs, rate, handlers, manager, worker, client, now>>

SetRateLimit(t, r) ==
    /\ now <= QuietAfter
    /\ rate' = [rate EXCEPT ![t] = IF r.n = 0 \/ r.per = 0 THEN NoRate ELSE r]
    /\ UNCHANGED <<jobs, cap, handlers, manager, worker, client, now>>

\* A second Register of the same type panics.
Register(t) ==
    /\ manager = "up"
    /\ t \notin handlers
    /\ handlers' = handlers \cup {t}
    /\ UNCHANGED <<jobs, limitVars, manager, worker, client, now>>

-----------------------------------------------------------------------------
(* The workers *)

\* The rows the SELECT of findCandidate may return.  SQLite breaks ties of
\* priority and run_at as it likes.
Due == {j \in Ids : /\ jobs[j].status = "pending"
                    /\ jobs[j].runAt <= now
                    /\ TypeOf(j) \in handlers}
Candidates ==
    {j \in Due : \A i \in Due :
        \/ jobs[i].req.priority < jobs[j].req.priority
        \/ /\ jobs[i].req.priority = jobs[j].req.priority
           /\ jobs[j].runAt <= jobs[i].runAt}

\* The loop looks at stopCh and its timer with one select, so that a worker may
\* go round again after Close.
Looping(w) == manager # "down" /\ worker[w].pc = "idle"

Find(w) ==
    /\ Looping(w)
    /\ \E j \in Candidates :
         worker' = [worker EXCEPT ![w] = [pc |-> "found", job |-> j,
                      attempts |-> jobs[j].attempts, at |-> 0]]
    /\ UNCHANGED <<jobs, limitVars, handlers, manager, client, now>>

\* The instant of the claim, taken from the clock ahead of the UPDATE.
Stamp(w) ==
    /\ worker[w].pc = "found"
    /\ worker' = [worker EXCEPT ![w].pc = "claim", ![w].at = now]
    /\ UNCHANGED <<jobs, limitVars, handlers, manager, client, now>>

\* No row: the worker backs off to PollInterval.
Poll(w) ==
    /\ Looping(w)
    /\ Due = {}
    /\ UNCHANGED vars

Running == {j \in Ids : jobs[j].status = "running"}

\* The rows that the rate limit's subquery counts.  The innermost SELECT takes
\* "colmena_jobs.type" from the row that is being counted: each row is held
\* against the period of its own type, and is left out (NULL) without one.
StartedWithin(at) ==
    {j \in Ids : /\ jobs[j].status \notin {"free", "reaped"}
                 /\ jobs[j].claimedAt # Null
                 /\ rate[TypeOf(j)] # NoRate
                 /\ jobs[j].claimedAt > at - rate[TypeOf(j)].per}

\* (mutant) The cap is taken for the number of running jobs it allows to pass.
WithinCapOffByOne(t) == cap[t] = 0 \/ cap[t] >= Cardinality(Running)

\* The two subqueries of the claim.  In "WHERE type = colmena_jobs.type" both
\* names are those of the inner FROM, so the counts are of all types.
WithinCap(t) == cap[t] = 0 \/ cap[t] > Cardinality(Running)

\* (mutant) The window is one start too wide.
WithinRateOffByOne(t, at) ==
    rate[t] = NoRate \/ rate[t].n >= Cardinality(StartedWithin(at))

WithinRate(t, at) ==
    rate[t] = NoRate \/ rate[t].n > Cardinality(StartedWithin(at))

\* (mutant) The claim trusts the SELECT that found the job.
ClaimableUnchecked(j, at) ==
    /\ jobs[j].runAt <= at
    /\ WithinCap(TypeOf(j))
    /\ WithinRate(TypeOf(j), at)

\* The WHERE clause of the claim of job j at an instant.
Claimable(j, at) ==
    /\ jobs[j].status = "pending"
    /\ jobs[j].runAt <= at
    /\ WithinCap(TypeOf(j))
    /\ WithinRate(TypeOf(j), at)

Claim(w) ==
    LET j == worker[w].job
    IN  /\ worker[w].pc = "claim"
        /\ Claimable(j, worker[w].at)
        /\ jobs' = [jobs EXCEPT ![j].status = "running",
                                ![j].claimedAt = worker[w].at,
                                ![j].attempts = jobs[j].attempts + 1]
        /\ worker' = [worker EXCEPT ![w].pc = "run",
                                    ![w].attempts = worker[w].attempts + 1]
        /\ UNCHANGED <<limitVars, handlers, manager, client, now>>

\* (mutant) The worker forgets its job but not that it is running it.
GiveUpStillRunning(w) == worker' = [worker EXCEPT ![w].job = 0]

GiveUp(w) == worker' = [worker EXCEPT ![w] = Idle]

\* No row was updated, or the UPDATE failed.
ClaimMisses(w) ==
    /\ worker[w].pc = "claim"
    /\ ~Claimable(worker[w].job, worker[w].at) \/ Mishap
    /\ GiveUp(w)
    /\ UNCHANGED <<jobs, limitVars, handlers, manager, client, now>>

\* The UPDATEs of finalise say WHERE id = ? and nothing else: they find the row
\* whatever has become of it, unless the reaper has deleted it.
Finalise(w, row) ==
    /\ jobs' = IF jobs[worker[w].job].status = "reaped"
                 THEN jobs
                 ELSE [jobs EXCEPT ![worker[w].job] = row]
    /\ GiveUp(w)
    /\ UNCHANGED <<limitVars, handlers, manager, client, now>>

\* The handler returned nil.
Succeed(w) ==
    /\ worker[w].pc = "run"
    /\ Finalise(w, [jobs[worker[w].job] EXCEPT !.status = "succeeded",
                                               !.finishedAt = now])

\* The worker's own copy of the attempts decides.
Exhausted(w) == worker[w].attempts >= jobs[worker[w].job].req.maxAttempts

\* The handler failed (an error, a panic or an expired context) for good.
Bury(w) ==
    /\ worker[w].pc = "run"
    /\ Exhausted(w)
    /\ Finalise(w, [jobs[worker[w].job] EXCEPT !.status = "dead",
                                               !.finishedAt = now])

\* The handler failed and is tried again after a delay.  The unique index may
\* refuse the UPDATE when another worker has meanwhile ended the job and its
\* key has been enqueued again.
Retry(w) ==
    LET j == worker[w].job
    IN  /\ worker[w].pc = "run"
        /\ ~Exhausted(w)
        /\ \E d \in Delays :
             Finalise(w, IF KeyTaken(jobs[j].req.key, j)
                           THEN jobs[j]
                           ELSE [jobs[j] EXCEPT !.status = "pending",
                                                !.runAt = now + d,
                                                !.claimedAt = Null])

\* The UPDATE failed; the error is logged and the worker moves on.
FinaliseFails(w) ==
    /\ Mishap
    /\ worker[w].pc = "run"
    /\ GiveUp(w)
    /\ UNCHANGED <<jobs, limitVars, handlers, manager, client, now>>

StopWorker(w) ==
    /\ manager = "closing"
    /\ worker[w].pc = "idle"
    /\ worker' = [worker EXCEPT ![w].pc = "stopped"]
    /\ UNCHANGED <<jobs, limitVars, handlers, manager, client, now>>

-----------------------------------------------------------------------------
(* The background loops *)

\* (mutant) An attempt is taken for orphaned when its timeout is only reached.
OrphansAtTimeout ==
    {j \in Running : /\ jobs[j].req.timeout > 0
                     /\ jobs[j].claimedAt + jobs[j].req.timeout <= now}

\* (mutant) The comparison of the sweep the wrong way round.
OrphansReversed ==
    {j \in Running : /\ jobs[j].req.timeout > 0
                     /\ jobs[j].claimedAt + jobs[j].req.timeout > now + 1}

\* A timeout of 0 milliseconds is never swept.
Orphans ==
    {j \in Running : /\ jobs[j].req.timeout > 0
                     /\ jobs[j].claimedAt + jobs[j].req.timeout < now}

\* (mutant) The swept attempt is taken back, as finalise's release does.
SweepRewinds ==
    /\ manager # "down"
    /\ Orphans # {}
    /\ jobs' = [j \in Ids |-> IF j \in Orphans
                                THEN [jobs[j] EXCEPT !.status = "pending",
                                                     !.claimedAt = Null,
                                                     !.attempts = @ - 1]
                                ELSE jobs[j]]
    /\ UNCHANGED <<limitVars, handlers, manager, worker, client, now>>

\* run_at and attempts stay as they are.
Sweep ==
    /\ manager # "down"
    /\ Orphans # {}
    /\ jobs' = [j \in Ids |-> IF j \in Orphans
                                THEN [jobs[j] EXCEPT !.status = "pending",
                                                     !.claimedAt = Null]
                                ELSE jobs[j]]
    /\ UNCHANGED <<limitVars, handlers, manager, worker, client, now>>

\* New starts no reaper when RetainTerminal is negative.
Expired == {j \in Ids : /\ RetainTerminal >= 0
                        /\ jobs[j].status \in Terminal
                        /\ jobs[j].finishedAt < now - RetainTerminal}

Reap ==
    /\ manager # "down"
    /\ Expired # {}
    /\ jobs' = [j \in Ids |-> IF j \in Expired
                                THEN [jobs[j] EXCEPT !.status = "reaped"]
                                ELSE jobs[j]]
    /\ UNCHANGED <<limitVars, handlers, manager, worker, client, now>>

-----------------------------------------------------------------------------
(* The Manager, the process and the clock *)

\* New, in a new process: no handler is registered yet.
Start ==
    /\ manager = "down"
    /\ manager' = "up"
    /\ handlers' = {}
    /\ UNCHANGED <<jobs, limitVars, worker, client, now>>

Close ==
    /\ Crashes /\ now <= QuietAfter
    /\ manager = "up"
    /\ manager' = "closing"
    /\ UNCHANGED <<jobs, limitVars, handlers, worker, client, now>>

\* Close returns when every worker has stopped or after five seconds; the
\* process exits, and with it the handlers and callers that are still running.
Closed ==
    /\ manager = "closing"
    /\ manager' = "down"
    /\ worker' = [w \in Workers |-> Idle]
    /\ client' = [c \in Clients |-> NoCall]
    /\ UNCHANGED <<jobs, limitVars, handlers, now>>

Crash ==
    /\ Crashes /\ now <= QuietAfter
    /\ manager # "down"
    /\ manager' = "down"
    /\ worker' = [w \in Workers |-> Idle]
    /\ client' = [c \in Clients |-> NoCall]
    /\ UNCHANGED <<jobs, limitVars, handlers, now>>

\* The environment's promise: an attempt, counted from the instant its claim
\* took from the clock, is over Overrun after its timeout at the latest.
Punctual(w, t) ==
    worker[w].pc \in {"claim", "run"} =>
        t <= worker[w].at + TimeoutOf(worker[w].job) + Overrun

\* Nothing is left to do before the clock moves.
Settled ==
    /\ manager = "up" /\ handlers = Types
    /\ Inserting = {} /\ Orphans = {}
    /\ \A j \in Candidates : ~WithinCap(TypeOf(j)) \/ ~WithinRate(TypeOf(j), now)
    /\ \A w \in Workers :
         \/ worker[w].pc = "idle"
         \/ worker[w].pc = "found" /\ ~Claimable(worker[w].job, now)
         \/ worker[w].pc = "claim" /\ ~Claimable(worker[w].job, worker[w].at)

Tick ==
    /\ now < MaxTime
    /\ now < LazyUntil \/ Settled
    /\ \A w \in Workers : Punctual(w, now + 1)
    /\ now' = now + 1
    /\ UNCHANGED <<jobs, limitVars, handlers, manager, worker, client>>

-----------------------------------------------------------------------------

CallerStep ==
    \/ \E c \in Clients : \/ \E r \in Requests : EnqueueCheck(c, r)
                          \/ EnqueueInsert(c)
    \/ \E t \in Types : \/ \E c \in Caps : SetConcurrency(t, c)
                        \/ \E r \in Rates : SetRateLimit(t, r)
                        \/ Register(t)

WorkerStep(w) ==
    \/ Find(w) \/ Poll(w) \/ Stamp(w) \/ Claim(w) \/ ClaimMisses(w)
    \/ Succeed(w) \/ Bury(w) \/ Retry(w) \/ FinaliseFails(w)
    \/ StopWorker(w)

Next ==
    \/ CallerStep
    \/ \E w \in Workers : WorkerStep(w)
    \/ Sweep \/ Reap
    \/ Start \/ Close \/ Closed \/ Crash
    \/ Tick

Spec == Init /\ [][Next]_vars

\* The goroutines keep running, the clock advances, the application registers
\* its handlers, and a process that is down is started again.
Fairness ==
    /\ \A w \in Workers :
         /\ WF_vars(Find(w)) /\ WF_vars(Stamp(w))
         /\ WF_vars(Claim(w) \/ ClaimMisses(w))
         /\ WF_vars(Succeed(w) \/ Bury(w) \/ Retry(w))
    /\ \A c \in Clients : WF_vars(EnqueueInsert(c))
    /\ \A t \in Types : WF_vars(Register(t))
    /\ WF_vars(Sweep)
    /\ WF_vars(Start) /\ WF_vars(Closed)
    /\ WF_vars(Tick)

FairSpec == Spec /\ Fairness

-----------------------------------------------------------------------------
(* Properties *)

Busy == {w \in Workers : worker[w].pc = "run"}
KeyOf(w) == jobs[worker[w].job].req.key

\* A worker that runs a handler holds its claim: the row is still marked
\* running, under the instant of that worker's own claim.  The sweeper, the
\* reaper and the other workers' finalise leave it alone.  Promised when no
\* attempt outlives its timeout (Overrun = 0).
ClaimHeld ==
    \A w \in Busy : /\ jobs[worker[w].job].status = "running"
                    /\ jobs[worker[w].job].claimedAt = worker[w].at

\* doc.go: "a job runs on exactly one node".  No job, and no two jobs with one
\* unique key, are in the hands of two handlers at once, across claims, sweeps,
\* crashes and concurrent calls of Enqueue.
ExclusiveExecution ==
    \A v, w \in Busy :
        v # w => /\ worker[v].job # worker[w].job
                 /\ KeyOf(v) = "" \/ KeyOf(v) # KeyOf(w)

\* enqueue.go: "while another job with the same key is pending or running,
\* Enqueue returns the existing ID instead of creating a duplicate".  No two
\* live rows have one key, whatever callers race and whatever a late finalise
\* does to a row that others have moved on.
LiveKeysDistinct ==
    \A i, j \in Ids :
        i # j /\ Live(i) /\ Live(j) =>
            jobs[i].req.key = "" \/ jobs[i].req.key # jobs[j].req.key

\* doc.go: "After MaxAttempts, the job is moved to status "dead"".  A job is
\* given up only after all its attempts were started, however stale the copy
\* of the attempts is that the worker decides by.
GivenUpOnlyExhausted ==
    \A j \in Ids :
        jobs[j].status = "dead" => jobs[j].attempts >= jobs[j].req.maxAttempts

\* The same line of doc.go from the other side: no more than MaxAttempts
\* attempts are started.
AttemptsBounded ==
    \A j \in Ids :
        jobs[j].status # "free" => jobs[j].attempts <= jobs[j].req.maxAttempts

\* A job that has succeeded or died stays as it is until the reaper takes it:
\* no late finalise, sweep or claim brings it back or changes its outcome.
OutcomeIsFinal ==
    [][\A j \in Ids :
         jobs[j].status \in Terminal =>
             jobs'[j].status \in {jobs[j].status, "reaped"}]_vars

Executing(t) == {w \in Busy : TypeOf(worker[w].job) = t}

\* doc.go: "SetConcurrency caps simultaneous executions of a job type".  No
\* start of a handler takes its type above the cap that is in force.
CapHonoured ==
    [][\A t \in Types :
         /\ cap[t] > 0
         /\ Cardinality(Executing(t)') > Cardinality(Executing(t))
         => Cardinality(Executing(t)') <= cap[t]]_vars

\* The same line of doc.go read the other way: the cap of a type is no reason
\* to refuse a due job of that type while fewer of its jobs are running.
CapCountsOwnType ==
    \A w \in Workers :
        LET j == worker[w].job
        IN  /\ worker[w].pc = "claim"
            /\ jobs[j].status = "pending"
            /\ jobs[j].runAt <= worker[w].at
            /\ rate[TypeOf(j)] = NoRate
            /\ cap[TypeOf(j)] > Cardinality({i \in Running : TypeOf(i) = TypeOf(j)})
            => Claimable(j, worker[w].at)

\* doc.go: "so a crashed node never strands work".  Every job that is pending
\* or running eventually succeeds or dies, through crashes, failed updates,
\* caps and retries.
EveryJobEnds == \A j \in Ids : Live(j) ~> ~Live(j)
=============================================================================
