---------------------------- MODULE BackupEngine ----------------------------
(***************************************************************************)
(* The continuous backup engine of one database: backupManager in          *)
(* src/backup.go, the SQLite store it copies, and the storage backend that *)
(* it writes to.                                                           *)
(*                                                                         *)
(* The store.  Every committed transaction is one natural number, its      *)
(* position in commits.  The main database file holds the first `main`     *)
(* commits; the WAL file is a sequence of units: a header (lsn 0) and then *)
(* one unit per committed transaction, each carrying the salts (`cycle`)   *)
(* under which it was written.  A WAL restarted in place keeps the stale   *)
(* units of its former cycle behind the new ones.                          *)
(*                                                                         *)
(* The engine.  sync, maybeCheckpoint, takeSnapshot and pruneLocked are    *)
(* cut where the database's other connections can run: between the scan of *)
(* the WAL, its read, the upload, the checkpoint and the Stat.  b.mu is    *)
(* held throughout, and only the engine's goroutine runs them, so there is *)
(* one program counter.                                                    *)
(*                                                                         *)
(* The backend.  A set of snapshot objects and a set of segment objects.   *)
(*                                                                         *)
(* Left out: gzip, the wording of errors, BackupStatus (the status fields  *)
(* are read by nothing in the engine).  Time is logical: it advances when  *)
(* a transaction commits and when an object lands, so that stamps taken    *)
(* from cfg.now() are distinct, as nanosecond stamps are.                  *)
(***************************************************************************)
EXTENDS Integers, Sequences, FiniteSets

CONSTANTS
    CheckpointThreshold,  \* cfg.CheckpointThreshold, in units of WAL
    Retention,            \* cfg.Retention as the user wrote it
    DefaultRetention,     \* what applyDefaults makes of 0
    AlertAfter,           \* cfg.AlertAfter after applyDefaults
    SegmentOutcomes,      \* how WriteWALSegment may end
    SnapshotOutcomes,     \* how WriteSnapshot may end
    PruneOutcomes,        \* how DeleteGeneration may end
    LongReaders,          \* may a reader pin the WAL during a checkpoint?
    LocalErrors,          \* may reads of local files and PRAGMAs fail?
    QuietCheckpoints,     \* is the writer idle when sync ends in a checkpoint?
    MaxTime               \* bound of the model: no activity starts after it

\* "landed" is a call that fails for the caller although the object was stored
\* (a timeout after the PUT); "empty" is LocalBackend's MkdirAll without rename.
CallOutcomes == {"ok", "fail", "landed", "empty"}

PCs == {"down", "snapCheckpoint", "snapRead", "snapWrite", "prune", "idle",
        "read", "ship", "checkpoint", "stat", "finalSync", "stopped"}

ASSUME ConfigAssumption ==
    /\ CheckpointThreshold \in Nat \ {0}
    /\ Retention \in Int
    /\ DefaultRetention \in Nat \ {0}
    /\ AlertAfter \in Nat \ {0}

ASSUME EnvironmentAssumption ==
    /\ SegmentOutcomes \subseteq CallOutcomes \ {"empty"}
    /\ SnapshotOutcomes \subseteq CallOutcomes
    /\ PruneOutcomes \subseteq {"deleted", "kept", "partial"}
    /\ LongReaders \in BOOLEAN
    /\ LocalErrors \in BOOLEAN
    /\ QuietCheckpoints \in BOOLEAN
    /\ MaxTime \in Nat

VARIABLES
    \* the store
    commits,     \* commits[k] is the time at which transaction k committed
    main,        \* the main file holds transactions 1..main
    wal,         \* the WAL file; <<>> when missing or empty
    cycle,       \* number of WAL cycles (salt pairs) used so far
    now,         \* cfg.now()
    \* the engine's goroutine
    pc,          \* its next step
    phase,       \* "boot" inside start(), "run" in the loop, "stop" once stopped
    generation,  \* b.generation, 0 for ""
    walIndex,    \* b.walIndex
    walOffset,   \* b.walOffset, in units of WAL
    salt,        \* b.salt1, b.salt2
    committed,   \* the local variable of sync and maybeCheckpoint
    segment,     \* the segment in the hands of WriteWALSegment
    snapshot,    \* the snapshot in the hands of WriteSnapshot
    consecErrs,  \* b.consecErrs, up to AlertAfter
    alert,       \* did the last report() call OnError?  "quiet" or "paged"
    \* the backend
    snapshots,   \* <generation>/snapshot objects
    segments     \* <generation>/wal objects

storeVars   == <<commits, main, wal, cycle>>
positionVars == <<generation, walIndex, walOffset, salt>>
flightVars  == <<committed, segment, snapshot>>
alertVars   == <<consecErrs, alert>>
backendVars == <<snapshots, segments>>
vars == <<storeVars, now, pc, phase, positionVars, flightVars, alertVars,
          backendVars>>

-----------------------------------------------------------------------------
(* Data *)

Units == [cycle : Nat, lsn : Nat]
NoSnap == -1                       \* a generation without a snapshot object
Segments == [gen : Nat, index : Nat, offset : Nat, ts : Nat, data : Seq(Units)]
Snapshots == [id : Nat, snap : Nat \cup {NoSnap}]

NoSegment  == [gen |-> 0, index |-> 0, offset |-> 0, ts |-> 0, data |-> <<>>]
NoSnapshot == [id |-> 0, snap |-> NoSnap]

Newest == Len(commits)              \* the newest transaction

Header(c) == [cycle |-> c, lsn |-> 0]

\* The scan of walCommittedSize: units are accepted while their salts are the
\* header's.  Frames of an open transaction are not units, so that the last
\* accepted unit is the last commit frame.
CommittedSize(w) ==
    Cardinality({i \in 1..Len(w) : \A j \in 1..i : w[j].cycle = w[1].cycle})

\* The file w after units are written behind its first k units, over what is
\* there; a longer former content shows behind them.
WriteAt(w, k, units) ==
    LET end == k + Len(units)
    IN  [i \in 1..(IF end > Len(w) THEN end ELSE Len(w)) |->
           IF i \in (k + 1)..end THEN units[i - k] ELSE w[i]]

\* cfg.Retention after applyDefaults.
EffectiveRetention == IF Retention = 0 THEN DefaultRetention ELSE Retention

TypeOK ==
    /\ commits \in Seq(Nat)
    /\ main \in Nat
    /\ wal \in Seq(Units)
    /\ cycle \in Nat
    /\ now \in Nat
    /\ pc \in PCs
    /\ phase \in {"boot", "run", "stop"}
    /\ generation \in Nat
    /\ walIndex \in Nat
    /\ walOffset \in Nat
    /\ salt \in Nat
    /\ committed \in Nat
    /\ segment \in Segments
    /\ snapshot \in Snapshots
    /\ consecErrs \in 0..AlertAfter
    /\ alert \in {"quiet", "paged"}
    /\ snapshots \subseteq Snapshots
    /\ segments \subseteq Segments

\* A new database, not yet opened, and an empty backend.
Init ==
    /\ commits = <<>> /\ main = 0 /\ wal = <<>> /\ cycle = 0
    /\ now = 1
    /\ pc = "down" /\ phase = "boot"
    /\ generation = 0 /\ walIndex = 0 /\ walOffset = 0 /\ salt = 0
    /\ committed = 0 /\ segment = NoSegment /\ snapshot = NoSnapshot
    /\ consecErrs = 0 /\ alert = "quiet"
    /\ snapshots = {} /\ segments = {}

-----------------------------------------------------------------------------
(* The store: SQLite behind the writer and reader pools *)

\* A write finds the WAL empty, or wholly folded into the main file with no
\* reader left on it: it begins a new cycle, with new salts, at the start of
\* the file.  A header without commits behind it is not begun again.
MayStartCycle == wal = <<>> \/ (main = Newest /\ CommittedSize(wal) > 1)

StartCycle(units) ==
    /\ MayStartCycle
    /\ cycle' = cycle + 1
    /\ wal' = WriteAt(wal, 0, units)

\* The end of a WAL that goes on: after its last commit, over what is stale.
AppendUnit(u) ==
    /\ wal # <<>>
    /\ wal' = WriteAt(wal, CommittedSize(wal), <<u>>)
    /\ UNCHANGED cycle

\* The application may write: the store is open, and get() has returned it,
\* which it does not before start() is through.  With QuietCheckpoints it does
\* not write between the scan of a sync and the checkpoint which that sync will
\* end in.
WriterOpen ==
    /\ pc # "down" /\ phase # "boot"
    /\ QuietCheckpoints /\ pc \in {"read", "ship", "checkpoint"}
         => committed < CheckpointThreshold

\* A transaction commits on the writer connection.
Commit ==
    /\ WriterOpen
    /\ now < MaxTime
    /\ commits' = Append(commits, now)
    /\ now' = now + 1
    /\ \/ StartCycle(<<Header(cycle + 1), [cycle |-> cycle + 1, lsn |-> Newest + 1]>>)
       \/ AppendUnit([cycle |-> wal[1].cycle, lsn |-> Newest + 1])
    /\ UNCHANGED <<main, pc, phase, positionVars, flightVars, alertVars,
                   backendVars>>

\* A transaction too big for the cache spills frames into a new WAL cycle and
\* rolls back: a header stays, followed by nothing that is committed.
Spill ==
    /\ WriterOpen
    /\ now < MaxTime
    /\ StartCycle(<<Header(cycle + 1)>>)
    /\ now' = now + 1
    /\ UNCHANGED <<commits, main, pc, phase, positionVars, flightVars,
                   alertVars, backendVars>>

\* PRAGMA wal_checkpoint(TRUNCATE): everything is folded and the file is cut,
\* or, with a reader on the WAL, commits up to some point are folded and the
\* file stays; the PRAGMA returns a busy row then, which Exec drops.
WalCheckpoint ==
    /\ \/ main' = Newest /\ wal' = <<>>
       \/ /\ LongReaders
          /\ main' \in main..Newest
          /\ UNCHANGED wal
    /\ UNCHANGED <<commits, cycle>>

-----------------------------------------------------------------------------
(* report, and the end of a job of the engine's loop *)

\* report(nil) re-arms the alert; report(err) counts, and calls OnError from
\* the AlertAfter-th failure in a row.
Report(ok) ==
    IF ok
    THEN consecErrs' = 0 /\ alert' = "quiet"
    ELSE /\ consecErrs' = IF consecErrs < AlertAfter THEN consecErrs + 1
                                                     ELSE AlertAfter
         /\ alert' = IF consecErrs + 1 >= AlertAfter THEN "paged" ELSE "quiet"

\* Back to the select; the first job is start()'s snapshot, the last one the
\* final sync.
NextPc == IF phase = "stop" THEN "stopped" ELSE "idle"

Finish(ok) ==
    /\ Report(ok)
    /\ pc' = NextPc
    /\ phase' = IF phase = "boot" THEN "run" ELSE phase
    /\ committed' = 0 /\ segment' = NoSegment /\ snapshot' = NoSnapshot

-----------------------------------------------------------------------------
(* sync *)

\* The condition of maybeCheckpoint(c) when b.walOffset is off.
WantsCheckpoint(c, off) == c >= CheckpointThreshold /\ off = c

\* maybeCheckpoint(c), entered with b.walOffset = off.
MaybeCheckpoint(c, off) ==
    IF WantsCheckpoint(c, off)
    THEN /\ pc' = "checkpoint"
         /\ committed' = c /\ segment' = NoSegment
         /\ UNCHANGED <<phase, alertVars, snapshot>>
    ELSE Finish(TRUE)

\* Mutant: sync does not look at the salts.
SyncScanIgnoresSalts ==
    IF generation = 0 \/ wal = <<>>
    THEN Finish(TRUE) /\ UNCHANGED positionVars
    ELSE LET c == CommittedSize(wal)
         IN  /\ UNCHANGED positionVars
             /\ IF c <= walOffset
                THEN MaybeCheckpoint(c, walOffset)
                ELSE /\ pc' = "read"
                     /\ committed' = c
                     /\ UNCHANGED <<phase, alertVars, segment, snapshot>>

\* The head of sync: scan the WAL, notice a reset of it, and decide.
SyncScan ==
    IF generation = 0 \/ wal = <<>>
    THEN Finish(TRUE) /\ UNCHANGED positionVars
    ELSE LET c     == CommittedSize(wal)
             reset == walOffset > 0 /\ wal[1].cycle # salt
             off   == IF reset THEN 0 ELSE walOffset
         IN  /\ walIndex' = IF reset THEN walIndex + 1 ELSE walIndex
             /\ walOffset' = off
             /\ salt' = IF off = 0 THEN wal[1].cycle ELSE salt
             /\ UNCHANGED generation
             /\ IF c <= off
                THEN MaybeCheckpoint(c, off)
                ELSE /\ pc' = "read"
                     /\ committed' = c
                     /\ UNCHANGED <<phase, alertVars, segment, snapshot>>

\* walCommittedSize fails on something else than a missing file.
SyncScanFails ==
    /\ LocalErrors
    /\ generation # 0
    /\ Finish(FALSE)
    /\ UNCHANGED positionVars

\* syncTicker fires while there is a generation.
SyncTick ==
    /\ pc = "idle" /\ generation # 0
    /\ SyncScan \/ SyncScanFails
    /\ UNCHANGED <<storeVars, now, backendVars>>

\* The range [walOffset, committed) is read and the segment stamped.  The WAL
\* may have been written, or begun again, since the scan.
SyncRead ==
    /\ pc = "read"
    /\ segment' = [gen |-> generation, index |-> walIndex,
                   offset |-> walOffset, ts |-> now,
                   data |-> SubSeq(wal, walOffset + 1, committed)]
    /\ pc' = "ship"
    /\ UNCHANGED <<storeVars, now, phase, positionVars, committed, snapshot,
                   alertVars, backendVars>>

\* Opening or reading the WAL file fails.
SyncReadFails ==
    /\ pc = "read"
    /\ LocalErrors
    /\ Finish(FALSE)
    /\ UNCHANGED <<storeVars, now, positionVars, backendVars>>

\* backend.WriteWALSegment succeeds: only then does walOffset move.
ShipOk ==
    /\ pc = "ship" /\ "ok" \in SegmentOutcomes
    /\ segments' = segments \cup {segment}
    /\ now' = now + 1
    /\ walOffset' = committed
    /\ MaybeCheckpoint(committed, committed)
    /\ UNCHANGED <<storeVars, generation, walIndex, salt, snapshots>>

\* Mutant: the offset moves before the error is looked at.
ShipFailsMovesOffset ==
    /\ pc = "ship" /\ "fail" \in SegmentOutcomes
    /\ walOffset' = committed
    /\ Finish(FALSE)
    /\ UNCHANGED <<storeVars, now, generation, walIndex, salt, backendVars>>

\* It fails, and the object is not there.
ShipFails ==
    /\ pc = "ship" /\ "fail" \in SegmentOutcomes
    /\ Finish(FALSE)
    /\ UNCHANGED <<storeVars, now, positionVars, backendVars>>

\* It fails, but the object is there.
ShipLandsAnyway ==
    /\ pc = "ship" /\ "landed" \in SegmentOutcomes
    /\ now < MaxTime
    /\ segments' = segments \cup {segment}
    /\ now' = now + 1
    /\ Finish(FALSE)
    /\ UNCHANGED <<storeVars, positionVars, snapshots>>

\* maybeCheckpoint's PRAGMA.
Checkpoint ==
    /\ pc = "checkpoint"
    /\ \/ /\ WalCheckpoint
          /\ pc' = "stat"
          /\ UNCHANGED <<phase, flightVars, alertVars>>
       \/ /\ LocalErrors
          /\ Finish(FALSE)
          /\ UNCHANGED storeVars
    /\ UNCHANGED <<now, positionVars, backendVars>>

\* Mutant: the offset goes back to 0 under the same index.
StatKeepsIndex ==
    /\ pc = "stat"
    /\ walOffset' = IF wal # <<>> THEN walOffset ELSE 0
    /\ Finish(TRUE)
    /\ UNCHANGED <<storeVars, now, generation, walIndex, salt, backendVars>>

\* maybeCheckpoint's os.Stat: the index moves on only if the file is empty.
Stat ==
    /\ pc = "stat"
    /\ IF wal # <<>>
       THEN UNCHANGED <<walIndex, walOffset>>
       ELSE walIndex' = walIndex + 1 /\ walOffset' = 0
    /\ Finish(TRUE)
    /\ UNCHANGED <<storeVars, now, generation, salt, backendVars>>

-----------------------------------------------------------------------------
(* takeSnapshot *)

BeginSnapshot ==
    /\ pc = "idle"
    /\ pc' = "snapCheckpoint"
    /\ UNCHANGED <<storeVars, now, phase, positionVars, flightVars, alertVars,
                   backendVars>>

\* snapTicker fires.
SnapTick == now < MaxTime /\ BeginSnapshot

\* syncTicker fires, and there is no generation to ship to yet.
SnapRetry == generation = 0 /\ BeginSnapshot

\* Mutant: no checkpoint before the snapshot.
SnapCheckpointSkipped ==
    /\ pc = "snapCheckpoint"
    /\ pc' = "snapRead"
    /\ UNCHANGED <<storeVars, now, phase, positionVars, flightVars, alertVars,
                   backendVars>>

\* The compacting checkpoint; its failure is logged and ignored.
SnapCheckpoint ==
    /\ pc = "snapCheckpoint"
    /\ WalCheckpoint \/ (LocalErrors /\ UNCHANGED storeVars)
    /\ pc' = "snapRead"
    /\ UNCHANGED <<now, phase, positionVars, flightVars, alertVars,
                   backendVars>>

\* Mutant: the generation's id is taken before the checkpoint and the read.
SnapReadStampsFirst ==
    /\ pc = "snapRead"
    /\ snapshot' = [id |-> now - 1, snap |-> main]
    /\ pc' = "snapWrite"
    /\ UNCHANGED <<storeVars, now, phase, committed, segment, alertVars,
                   positionVars, backendVars>>

\* os.ReadFile of the main file, and the generation's id.  Nobody else
\* checkpoints, so the main file is the same from the first byte to the last.
SnapRead ==
    /\ pc = "snapRead"
    /\ \/ /\ snapshot' = [id |-> now, snap |-> main]
          /\ pc' = "snapWrite"
          /\ UNCHANGED <<phase, committed, segment, alertVars>>
       \/ LocalErrors /\ Finish(FALSE)
    /\ UNCHANGED <<storeVars, now, positionVars, backendVars>>

\* Mutant: the index is to be bumped by the first sync.
StartGenerationBelowZero(id) ==
    generation' = id /\ walIndex' = -1 /\ walOffset' = 0 /\ salt' = 0

\* The generation that a snapshot opens, from byte 0 of the WAL.
StartGeneration(id) ==
    generation' = id /\ walIndex' = 0 /\ walOffset' = 0 /\ salt' = 0

\* backend.WriteSnapshot succeeds.
SnapWriteOk ==
    /\ pc = "snapWrite" /\ "ok" \in SnapshotOutcomes
    /\ snapshots' = snapshots \cup {snapshot}
    /\ now' = now + 1
    /\ StartGeneration(snapshot.id)
    /\ pc' = "prune"
    /\ snapshot' = NoSnapshot
    /\ UNCHANGED <<storeVars, phase, committed, segment, alertVars, segments>>

\* It fails, and leaves nothing.
SnapWriteFails ==
    /\ pc = "snapWrite" /\ "fail" \in SnapshotOutcomes
    /\ Finish(FALSE)
    /\ UNCHANGED <<storeVars, now, positionVars, backendVars>>

\* What a WriteSnapshot that does not return nil may leave in the backend:
\* the whole object, or (LocalBackend) the generation's directory alone.
Leftovers ==
    {snapshot : o \in SnapshotOutcomes \cap {"landed"}}
      \cup {[id |-> snapshot.id, snap |-> NoSnap] :
               o \in SnapshotOutcomes \cap {"empty"}}

SnapWriteLeaves ==
    /\ pc = "snapWrite"
    /\ now < MaxTime
    /\ \E left \in Leftovers : snapshots' = snapshots \cup {left}
    /\ now' = now + 1
    /\ Finish(FALSE)
    /\ UNCHANGED <<storeVars, positionVars, segments>>

\* Mutant: the current generation is not spared.
PrunableCurrentToo(s) == s.id < now - EffectiveRetention

\* The generations that pruneLocked asks the backend to delete.
Prunable(s) == s.id # generation /\ s.id < now - EffectiveRetention

\* Mutant: a deletion starts with the segments.
PruneSegmentsFirst ==
    /\ pc = "prune"
    /\ \E fate \in [{s.id : s \in {t \in snapshots : Prunable(t)}}
                         -> PruneOutcomes] :
         /\ snapshots' = {s \in snapshots : Prunable(s) => fate[s.id] # "deleted"}
         /\ segments' = {g \in segments : g.gen \in DOMAIN fate
                                             => fate[g.gen] = "kept"}
    /\ Finish(TRUE)
    /\ UNCHANGED <<storeVars, now, positionVars>>

\* pruneLocked.  A deletion that fails is logged and left, and may have got as
\* far as the snapshot object (S3 lists it before the segments).
Prune ==
    /\ pc = "prune"
    /\ IF EffectiveRetention <= 0
       THEN UNCHANGED backendVars
       ELSE \E fate \in [{s.id : s \in {t \in snapshots : Prunable(t)}}
                            -> PruneOutcomes] :
              /\ snapshots' =
                   {s \in snapshots : Prunable(s) => fate[s.id] = "kept"}
                     \cup {[id |-> s.id, snap |-> NoSnap] : s \in
                             {t \in snapshots : /\ Prunable(t)
                                                /\ fate[t.id] = "partial"}}
              /\ segments' =
                   {g \in segments : g.gen \in DOMAIN fate
                                       => fate[g.gen] # "deleted"}
    /\ Finish(TRUE)
    /\ UNCHANGED <<storeVars, now, positionVars>>

-----------------------------------------------------------------------------
(* Life cycle of the node *)

ForgetEngine ==
    /\ generation' = 0 /\ walIndex' = 0 /\ walOffset' = 0 /\ salt' = 0
    /\ committed' = 0 /\ segment' = NoSegment /\ snapshot' = NoSnapshot
    /\ consecErrs' = 0 /\ alert' = "quiet"

\* The store is opened and start() begins with the opening snapshot.
Open ==
    /\ pc = "down"
    /\ now < MaxTime
    /\ pc' = "snapCheckpoint" /\ phase' = "boot"
    /\ UNCHANGED <<storeVars, now, positionVars, flightVars, alertVars,
                   backendVars>>

\* Node.Close: the loop receives from stopCh ...
Stop ==
    /\ pc = "idle" /\ phase = "run"
    /\ phase' = "stop"
    /\ pc' = "finalSync"
    /\ UNCHANGED <<storeVars, now, positionVars, flightVars, alertVars,
                   backendVars>>

\* ... and syncs a last time.
FinalSync ==
    /\ pc = "finalSync"
    /\ SyncScan \/ SyncScanFails
    /\ UNCHANGED <<storeVars, now, backendVars>>

\* stores.close(): the last connection folds the WAL and removes it, unless a
\* reader with open rows is still there.
CloseStore ==
    /\ pc = "stopped"
    /\ pc' = "down" /\ phase' = "boot"
    /\ \/ main' = Newest /\ wal' = <<>>
       \/ LongReaders /\ UNCHANGED <<main, wal>>
    /\ ForgetEngine
    /\ UNCHANGED <<commits, cycle, now, backendVars>>

\* What is in flight when the process dies may have reached the backend.
Crash ==
    /\ pc # "down"
    /\ now < MaxTime
    /\ now' = now + 1
    /\ pc' = "down" /\ phase' = "boot"
    /\ ForgetEngine
    /\ \/ UNCHANGED backendVars
       \/ /\ pc = "ship"
          /\ segments' = segments \cup {segment}
          /\ UNCHANGED snapshots
       \/ /\ pc = "snapWrite"
          /\ \E left \in {snapshot} \cup Leftovers :
                snapshots' = snapshots \cup {left}
          /\ UNCHANGED segments
    /\ UNCHANGED storeVars

\* Nobody has to start the process again.
StayDown == pc = "down" /\ UNCHANGED vars

-----------------------------------------------------------------------------
EngineStep ==
    \/ SyncTick \/ SyncRead \/ SyncReadFails
    \/ ShipOk \/ ShipFails \/ ShipLandsAnyway
    \/ Checkpoint \/ Stat
    \/ SnapRetry \/ SnapCheckpoint \/ SnapRead
    \/ SnapWriteOk \/ SnapWriteFails \/ SnapWriteLeaves \/ Prune
    \/ FinalSync

Next ==
    \/ Commit \/ Spill
    \/ EngineStep \/ SnapTick
    \/ Open \/ Stop \/ CloseStore \/ Crash \/ StayDown

Spec == Init /\ [][Next]_vars

\* The engine's goroutine goes on: its tickers fire again and again, and its
\* steps end (uploads have a deadline).  Node.Close runs to its end.  Among
\* infinitely many uploads of segments, infinitely many succeed.
Fairness ==
    /\ WF_vars(EngineStep)
    /\ WF_vars(CloseStore)
    /\ SF_vars(ShipOk)

FairSpec == Spec /\ Fairness

-----------------------------------------------------------------------------
(* Properties of the engine and of the objects it writes *)

\* All transactions in the object committed before its stamp.
SnapshotCovered(s) ==
    s.snap # NoSnap =>
        s.snap <= Newest /\ \A k \in 1..s.snap : commits[k] < s.id
SegmentCovered(g) ==
    \A i \in 1..Len(g.data) :
        LET k == g.data[i].lsn
        IN  k # 0 => k <= Newest /\ commits[k] < g.ts

\* Whatever fails, an object is stamped later than every transaction in it
\* committed: sync and takeSnapshot call cfg.now() after they read the file.
\* Restore to a time relies on it, and looks at nothing but the stamps.
StampsCover ==
    /\ \A s \in snapshots : SnapshotCovered(s)
    /\ \A g \in segments : SegmentCovered(g)

\* The generation that is being written to is in the backend with its
\* snapshot: pruneLocked spares it whatever the clock and Retention say.
CurrentGenerationKept ==
    generation # 0 =>
        \E s \in snapshots : s.id = generation /\ s.snap # NoSnap

EndOf(s) == s.offset + Len(s.data)

\* Two segments of one WAL index never overlap, so that the `break` of
\* applyWALIndex on an unexpected offset only ever sees the end of an index.
\* It takes a backend that stores nothing when it reports an error.
SegmentsDisjoint ==
    "landed" \notin SegmentOutcomes =>
        \A s, t \in segments :
            (s.gen = t.gen /\ s.index = t.index /\ s # t)
              => EndOf(s) <= t.offset \/ EndOf(t) <= s.offset

\* maybeCheckpoint "TRUNCATEs the WAL once it is big and fully shipped"
\* (backup.go:372): when it folds the WAL, every commit in it is shipped.
TruncatesOnlyShipped ==
    [][pc = "checkpoint" /\ main' # main => walOffset = CommittedSize(wal)]_vars

\* "`OnError` fires on every engine failure" (UPGRADING.md:52-53).
OnErrorOnEveryFailure == [][consecErrs' > consecErrs => alert' = "paged"]_vars

Ids == {s.id : s \in snapshots}

\* Retention: "0 keeps everything" (backup.go:125).
ZeroKeepsEverything == [][Retention = 0 => Ids \subseteq Ids']_vars

=============================================================================
