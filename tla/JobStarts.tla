----------------------------- MODULE JobStarts ------------------------------
(***************************************************************************)
(* The job queue with a record of every start of a handler.  The claim     *)
(* measures the rate limit of SetRateLimit by the column started_at of the *)
(* rows that are in the table; the record shows what has really started.   *)
(***************************************************************************)
EXTENDS MCJobQueue

VARIABLE starts     \* every start of a handler so far

Starting(w) == worker[w].pc = "claim" /\ worker'[w].pc = "run"

StartOf(w) ==
    [job |-> worker[w].job, type |-> TypeOf(worker[w].job), at |-> worker[w].at,
     attempt |-> jobs[worker[w].job].attempts + 1]

SInit == Init /\ starts = {}

SNext ==
    /\ Next
    /\ starts' = starts \cup {StartOf(w) : w \in {v \in Workers : Starting(v)}}

SSpec == SInit /\ [][SNext]_<<vars, starts>>

\* The starts of type t after from, once the step is taken.
StartsOf(t, from) == {s \in starts' : s.type = t /\ s.at > from}

\* types.go: "at most N jobs of a given type may have started within any rolling
\* window of duration Per ... the limit is honoured exactly".  When a handler
\* starts under a rate limit, no more than N starts of its type, itself
\* included, lie in the window that ends with it.
RateHonoured ==
    [][\A w \in Workers :
         LET t == TypeOf(worker[w].job)
         IN  Starting(w) /\ rate[t] # NoRate =>
               Cardinality(StartsOf(t, worker[w].at - rate[t].per)) <= rate[t].n
      ]_<<vars, starts>>
=============================================================================
