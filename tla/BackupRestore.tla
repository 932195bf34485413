---------------------------- MODULE BackupRestore ----------------------------
(***************************************************************************)
(* Restore (src/backup.go) as a function of what the backend holds, and    *)
(* what the backup engine promises of its result.                          *)
(*                                                                         *)
(* A restored database is described by the number k of the transaction     *)
(* prefix 1..k it holds.  Torn stands for a file that holds no prefix:     *)
(* pages of some transactions without those of earlier ones.  PRAGMA       *)
(* integrity_check may or may not notice; Restore promised neither.        *)
(***************************************************************************)
EXTENDS BackupEngine, FiniteSetsExt

Error == -1      \* Restore returns an error
Torn  == -2

Zero == 0        \* RestoreOptions.Timestamp.IsZero(): the latest state

\* The stamp does not come after the requested timestamp.
Within(stamp, T) == T = Zero \/ stamp <= T

-----------------------------------------------------------------------------
(* applyWALIndex *)

\* Order of the listing: by offset, and by stamp (the rest of the object's
\* key) between segments of one offset.
ByOffset(s, t) == s.offset < t.offset \/ (s.offset = t.offset /\ s.ts < t.ts)

\* Segment s begins where those that are listed before it end.
Joins(segs, s) ==
    LET before == {t \in segs : ByOffset(t, s)}
    IN  /\ \A t \in before : EndOf(t) <= s.offset
        /\ s.offset # 0 => \E t \in before : EndOf(t) = s.offset

\* The segments up to the first gap or overlap.
ContiguousRun(segs) ==
    {s \in segs : \A t \in segs : ByOffset(t, s) \/ t = s => Joins(segs, t)}

\* The positions of the WAL that a segment holds.
Extent(s) == s.offset + 1 .. EndOf(s)

\* The file <db>-wal that they are copied to, one after the other.
WALFile(run) ==
    [p \in UNION {Extent(s) : s \in run} |->
        LET s == CHOOSE s \in run : p \in Extent(s) IN s.data[p - s.offset]]

\* SQLite recovers the WAL file it finds beside a database that holds the
\* prefix 1..k, and folds it: the pages of the transactions in it replace
\* those of the main file.  (external: SQLite)
Replay(k, file) ==
    LET size  == CommittedSize(file)
        first == file[2].lsn
        last  == file[size].lsn
    IN  IF k = Torn \/ size <= 1 THEN k
        ELSE IF first <= k + 1 /\ k <= last THEN last ELSE Torn

ApplyWALIndex(k, segs) == Replay(k, WALFile(ContiguousRun(segs)))

-----------------------------------------------------------------------------
(* Restore *)

\* Mutant: the newest generation, whatever the requested time.
PickNewest(snaps, T) == IF snaps = {} THEN 0 ELSE Max({s.id : s \in snaps})

\* The newest generation at or before T, 0 when there is none.
PickGeneration(snaps, T) ==
    LET ids == {s.id : s \in {t \in snaps : Within(t.id, T)}}
    IN  IF ids = {} THEN 0 ELSE Max(ids)

\* The number of WAL indexes, with those that were cut off.
Indexes(segs) == Max({0} \cup {s.index + 1 : s \in segs})

\* Mutant: the indexes are applied in the order of a listing, newest first.
RollForwardNewestFirst(k, segs) ==
    LET after[n \in Nat] ==
          IF n = 0 THEN k
          ELSE ApplyWALIndex(after[n - 1],
                             {s \in segs : s.index = Indexes(segs) - n})
    IN  after

\* What the loop over the indexes makes of a database that holds 1..k: its
\* n-th value is the database after the indexes below n.  An index of which
\* there is no segment changes nothing.
RollForward(k, segs) ==
    LET after[n \in Nat] ==
          IF n = 0 THEN k
          ELSE ApplyWALIndex(after[n - 1], {s \in segs : s.index = n - 1})
    IN  after

\* Restore from a backend that holds these objects.
RestoreFrom(snaps, allSegs, T) ==
    LET gen    == PickGeneration(snaps, T)
        object == CHOOSE s \in {t \in snaps : t.id = gen} : TRUE
        segs   == {s \in allSegs : s.gen = gen /\ Within(s.ts, T)}
    IN  IF gen = 0 \/ object.snap = NoSnap
        THEN Error
        ELSE RollForward(object.snap, segs)[Indexes(segs)]

Restore(T) == RestoreFrom(snapshots, segments, T)
RestoreNext(T) == RestoreFrom(snapshots', segments', T)

RestoreLatest == Restore(Zero)

\* How much of the history the backend gives back today.
AsPrefix(k) == IF k \in {Error, Torn} THEN 0 ELSE k
Recoverable == AsPrefix(RestoreLatest)

-----------------------------------------------------------------------------
(* Properties *)

\* Restoring to any time gives an error or a prefix of the transactions, never
\* a mixture: segments of one index join up, and every index starts where the
\* state before it ends (README.md:105, "replays each WAL index in order").
RestoreConsistent == \A T \in 0..now : Restore(T) # Torn

\* Point-in-time restore never hands out a transaction that committed after
\* the requested time: snapshots and segments are stamped no earlier than the
\* last transaction in them (sync and takeSnapshot read first, stamp later).
NothingFromTheFuture ==
    \A T \in 1..now : LET k == Restore(T) IN k > 0 => commits[k] <= T

\* Once the engine has nothing left to ship it is right: a restore of the
\* latest state gives every transaction (sync returned nil and the WAL holds
\* nothing behind walOffset).
ShippedIsRecoverable ==
    (/\ pc = "idle" /\ generation # 0
     /\ IF wal = <<>> THEN walOffset = 0
                      ELSE salt = wal[1].cycle /\ walOffset = CommittedSize(wal))
      => RestoreLatest = Newest

\* No object that lands from now on can be stamped T or earlier.
Settled(T) ==
    /\ T < now
    /\ pc = "ship" => T < segment.ts
    /\ pc = "snapWrite" => T < snapshot.id

\* The past does not change: what a point-in-time restore gives for a settled
\* time, it gives for ever, until retention takes the generation away and it
\* reports an error ("the state as of that moment", backup.go:480).
PastIsStable ==
    [][\A T \in 1..now : Settled(T) => RestoreNext(T) \in {Restore(T), Error}]_vars

\* "Point-in-time restore works within this window" (backup.go:124): a time
\* inside the window that could be restored still can.
WindowRestorable ==
    [][\A T \in 1..now :
          (T >= now' - EffectiveRetention /\ Restore(T) # Error)
             => RestoreNext(T) # Error]_vars

\* Every transaction reaches the backend, as long as the process lives.
EveryCommitBackedUp ==
    \A k \in 1..MaxTime : (Newest >= k) ~> (Recoverable >= k \/ pc = "down")

\* "backups that stop working never fail silent" (README.md:24): while
\* snapshots are attempted for ever, a transaction that does not reach the
\* backend makes OnError fire.
NeverSilent ==
    []<>(pc = "snapWrite") =>
        \A k \in 1..MaxTime :
            (Newest >= k) ~> (Recoverable >= k \/ pc = "down" \/ alert = "paged")

=============================================================================
