--------------------------- MODULE MCJobScheduler ---------------------------
(* The expressions of the runs: every minute, irregular ones, and none. *)
EXTENDS JobScheduler

MCMinutes ==
    [e \in Exprs |-> CASE e = "every" -> 0..20
                       [] e = "some"  -> {1, 2, 4, 7} \cup 9..20
                       [] e = "even"  -> {2 * i : i \in 0..10}
                       [] e = "never" -> {}]

=============================================================================
