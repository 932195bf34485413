-------------------------- MODULE BackupRefinement --------------------------
(***************************************************************************)
(* The backup engine implements BackupPromise: the number of transactions  *)
(* that Restore gives back is the abstract `recoverable`.  It is kept in a *)
(* history variable, which has the value of Recoverable in every state and *)
(* which no step of the engine reads.                                      *)
(***************************************************************************)
EXTENDS BackupRestore

VARIABLE recoverable

PInit == Init /\ recoverable = 0

PNext == Next /\ recoverable' = AsPrefix(RestoreNext(Zero))

PSpec == PInit /\ [][PNext]_<<vars, recoverable>> /\ Fairness

Promise == INSTANCE BackupPromise WITH committed <- Newest

\* Restorable history only grows: checkpoints, snapshots, crashes, restarts
\* and new generations never make Restore lose a transaction it gave back.
RecoverableNeverShrinks == Promise!Spec

=============================================================================
