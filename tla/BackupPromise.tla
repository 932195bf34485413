---------------------------- MODULE BackupPromise ----------------------------
(***************************************************************************)
(* What continuous backup promises, without saying how: transactions       *)
(* commit one after the other, and a restore of the latest state gives     *)
(* back a prefix of them that lags behind and only ever grows.             *)
(***************************************************************************)
EXTENDS Naturals

VARIABLES
    committed,     \* number of transactions committed
    recoverable    \* number of transactions that Restore gives back

Init == committed = 0 /\ recoverable = 0

\* A transaction commits; it is not in the backup yet.
Write == committed' = committed + 1 /\ UNCHANGED recoverable

\* The backup catches up, with some or all of what it lacks.
CatchUp == recoverable' \in (recoverable + 1)..committed /\ UNCHANGED committed

Next == Write \/ CatchUp

Spec == Init /\ [][Next]_<<committed, recoverable>>

=============================================================================
