----------------------------- MODULE MCJobQueue -----------------------------
(***************************************************************************)
(* Small instances of JobQueue for TLC.                                    *)
(***************************************************************************)
EXTENDS JobQueue, TLC

Request(t, k, attempts, timeout) ==
    [type |-> t, priority |-> 0, maxAttempts |-> attempts, key |-> k,
     timeout |-> timeout, delay |-> 0]

\* One kind of job, deduplicated by key.
KeyedRequests == {Request("a", "k", 2, 1)}

\* A plain job and an urgent, delayed one of another type, each tried once.
MixedRequests ==
    {Request("a", "", 1, 1),
     [Request("b", "", 1, 1) EXCEPT !.priority = 10, !.delay = 1]}

\* One plain job.
PlainRequests == {Request("a", "", 2, 1)}

\* A job without a timeout: WithTimeout(0).
UntimedRequests == {Request("a", "", 2, 0)}

\* A job that is not tried again.
OnceRequests == {Request("a", "", 1, 1)}

OneRate == {[n |-> 1, per |-> 2]}

Symmetric == Permutations(Workers) \cup Permutations(Clients)
=============================================================================
