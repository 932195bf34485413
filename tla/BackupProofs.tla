---------------------------- MODULE BackupProofs -----------------------------
(***************************************************************************)
(* Theorems about the backups: first about the engine alone, for every     *)
(* configuration, every length of history and every combination of         *)
(* failures; then about what Restore makes of the objects it wrote, and    *)
(* about the promise they keep.                                            *)
(***************************************************************************)
EXTENDS BackupRefinement, LeastNumber, FiniteSetTheorems, TLAPS

-----------------------------------------------------------------------------
(* The operators on the WAL file *)

\* The scan never runs past the end of the file.
LEMMA CommittedSizeBound ==
    ASSUME NEW w \in Seq(Units)
    PROVE  CommittedSize(w) \in Nat /\ CommittedSize(w) <= Len(w)
<1> DEFINE S == {i \in 1..Len(w) : \A j \in 1..i : w[j].cycle = w[1].cycle}
<1>1. Len(w) \in Nat
  OBVIOUS
<1>2. IsFiniteSet(1..Len(w)) /\ Cardinality(1..Len(w)) = Len(w)
  BY <1>1, FS_Interval, SMT
<1>3. S \subseteq 1..Len(w)
  OBVIOUS
<1>4. IsFiniteSet(S) /\ Cardinality(S) <= Len(w)
  <2> HIDE DEF S
  <2> QED BY <1>2, <1>3, FS_Subset
<1>5. Cardinality(S) \in Nat
  <2> HIDE DEF S
  <2> QED BY <1>4, FS_CardinalityType
<1> QED BY <1>4, <1>5 DEF CommittedSize

\* Writing into the file, at its end or before, gives a file that is not
\* shorter and whose units are old or new ones.
LEMMA WriteAtFile ==
    ASSUME NEW w \in Seq(Units), NEW us \in Seq(Units), NEW k \in 0..Len(w)
    PROVE  /\ WriteAt(w, k, us) \in Seq(Units)
           /\ Len(WriteAt(w, k, us)) >= Len(w)
           /\ \A i \in 1..Len(WriteAt(w, k, us)) :
                 \/ \E j \in 1..Len(us) : WriteAt(w, k, us)[i] = us[j]
                 \/ i \in 1..Len(w) /\ WriteAt(w, k, us)[i] = w[i]
<1> DEFINE end == k + Len(us)
           m   == IF end > Len(w) THEN end ELSE Len(w)
           f   == [i \in 1..m |-> IF i \in (k + 1)..end THEN us[i - k] ELSE w[i]]
<1>1. m \in Nat /\ m >= Len(w) /\ end \in Nat
  OBVIOUS
<1>2. \A i \in 1..m : \/ i \in (k + 1)..end /\ i - k \in 1..Len(us)
                      \/ i \notin (k + 1)..end /\ i \in 1..Len(w)
  BY <1>1
<1>3. \A i \in 1..m : f[i] \in Units
  BY <1>2
<1>4. f \in Seq(Units) /\ Len(f) = m
  <2> HIDE DEF m
  <2> QED BY <1>1, <1>3
<1>5. WriteAt(w, k, us) = f
  BY DEF WriteAt
<1>6. \A i \in 1..m : \/ \E j \in 1..Len(us) : f[i] = us[j]
                      \/ i \in 1..Len(w) /\ f[i] = w[i]
  BY <1>2
<1> HIDE DEF f, m
<1> QED BY <1>1, <1>4, <1>5, <1>6

-----------------------------------------------------------------------------
(* Type correctness *)

\* Between the scan and the read the file does not become shorter, so that
\* io.ReadFull finds the whole range: only the engine truncates the WAL.
ReadRange ==
    pc = "read" => walOffset < committed /\ committed <= Len(wal)

TypeInv == TypeOK /\ ReadRange

LEMMA TypeInit == Init => TypeInv
  BY ConfigAssumption
  DEF Init, TypeInv, TypeOK, ReadRange, PCs, NoSegment, NoSnapshot, NoSnap,
      Segments, Snapshots, ConfigAssumption

\* A job that ends resets what was in flight and reports.
LEMMA FinishType ==
    ASSUME TypeOK, NEW ok \in BOOLEAN, Finish(ok)
    PROVE  /\ consecErrs' \in 0..AlertAfter /\ alert' \in {"quiet", "paged"}
           /\ pc' \in {"idle", "stopped"} /\ phase' \in {"boot", "run", "stop"}
           /\ committed' \in Nat /\ segment' \in Segments
           /\ snapshot' \in Snapshots
<1>1. consecErrs' \in 0..AlertAfter /\ alert' \in {"quiet", "paged"}
  BY ConfigAssumption DEF Finish, Report, TypeOK, ConfigAssumption
<1>2. /\ pc' \in {"idle", "stopped"} /\ phase' \in {"boot", "run", "stop"}
      /\ committed' \in Nat
  BY DEF Finish, NextPc, TypeOK
<1>3. segment' \in Segments /\ snapshot' \in Snapshots
  BY DEF Finish, NoSegment, NoSnapshot, NoSnap, Segments, Snapshots
<1> QED BY <1>1, <1>2, <1>3

LEMMA MaybeCheckpointType ==
    ASSUME TypeOK, NEW c \in Nat, NEW off \in Nat, MaybeCheckpoint(c, off)
    PROVE  /\ consecErrs' \in 0..AlertAfter /\ alert' \in {"quiet", "paged"}
           /\ pc' \in {"idle", "stopped", "checkpoint"}
           /\ phase' \in {"boot", "run", "stop"}
           /\ committed' \in Nat /\ segment' \in Segments
           /\ snapshot' \in Snapshots
<1>1. CASE WantsCheckpoint(c, off)
  <2>1. /\ pc' = "checkpoint" /\ committed' = c /\ segment' = NoSegment
        /\ UNCHANGED <<phase, consecErrs, alert, snapshot>>
    BY <1>1 DEF MaybeCheckpoint, alertVars
  <2> QED BY <2>1 DEF TypeOK, NoSegment, Segments
<1>2. CASE ~WantsCheckpoint(c, off)
  BY <1>2, FinishType DEF MaybeCheckpoint
<1> QED BY <1>1, <1>2

\* The new WAL after a transaction has written to it.
LEMMA WriterType ==
    ASSUME TypeOK, Commit \/ Spill
    PROVE  wal' \in Seq(Units) /\ Len(wal') >= Len(wal) /\ cycle' \in Nat
<1>1. CommittedSize(wal) \in 0..Len(wal)
  BY CommittedSizeBound DEF TypeOK
<1>2. ASSUME NEW us \in Seq(Units), StartCycle(us)
      PROVE  wal' \in Seq(Units) /\ Len(wal') >= Len(wal) /\ cycle' \in Nat
  <2>1. 0 \in 0..Len(wal)
    BY DEF TypeOK
  <2>2. wal' = WriteAt(wal, 0, us) /\ cycle' = cycle + 1
    BY <1>2 DEF StartCycle
  <2> QED BY <2>1, <2>2, WriteAtFile DEF TypeOK
<1>3. ASSUME NEW u \in Units, AppendUnit(u)
      PROVE  wal' \in Seq(Units) /\ Len(wal') >= Len(wal) /\ cycle' \in Nat
  <2>1. <<u>> \in Seq(Units)
    OBVIOUS
  <2>2. wal' = WriteAt(wal, CommittedSize(wal), <<u>>) /\ cycle' = cycle
    BY <1>3 DEF AppendUnit
  <2> QED BY <1>1, <2>1, <2>2, WriteAtFile DEF TypeOK
<1>4. /\ <<Header(cycle + 1)>> \in Seq(Units)
      /\ <<Header(cycle + 1), [cycle |-> cycle + 1, lsn |-> Newest + 1]>>
           \in Seq(Units)
  BY DEF Header, Units, TypeOK, Newest
<1>5. ASSUME wal # <<>>
      PROVE  [cycle |-> wal[1].cycle, lsn |-> Newest + 1] \in Units
  <2>1. wal[1] \in Units
    BY <1>5 DEF TypeOK
  <2> QED BY <2>1 DEF Units, TypeOK, Newest
<1>6. CASE Spill
  BY <1>2, <1>4, <1>6 DEF Spill
<1>7. CASE Commit
  <2>1. CASE StartCycle(<<Header(cycle + 1),
                          [cycle |-> cycle + 1, lsn |-> Newest + 1]>>)
    BY <1>2, <1>4, <2>1
  <2>2. CASE AppendUnit([cycle |-> wal[1].cycle, lsn |-> Newest + 1])
    <3>1. wal # <<>>
      BY <2>2 DEF AppendUnit
    <3> QED BY <1>3, <1>5, <2>2, <3>1
  <2> QED BY <1>7, <2>1, <2>2 DEF Commit
<1> QED BY <1>6, <1>7

LEMMA SyncScanType ==
    ASSUME TypeOK, SyncScan \/ SyncScanFails, UNCHANGED storeVars,
           UNCHANGED <<now, backendVars>>
    PROVE  TypeInv'
<1>1. UNCHANGED <<commits, main, wal, cycle, now, snapshots, segments>>
  BY DEF storeVars, backendVars
<1>2. CASE SyncScanFails
  BY <1>1, <1>2, FinishType
  DEF SyncScanFails, positionVars, TypeInv, TypeOK, ReadRange, PCs
<1>3. CASE SyncScan /\ (generation = 0 \/ wal = <<>>)
  BY <1>1, <1>3, FinishType
  DEF SyncScan, positionVars, TypeInv, TypeOK, ReadRange, PCs
<1>4. CASE SyncScan /\ ~(generation = 0 \/ wal = <<>>)
  <2> DEFINE c == CommittedSize(wal)
             reset == walOffset > 0 /\ wal[1].cycle # salt
             off == IF reset THEN 0 ELSE walOffset
  <2>1. c \in Nat /\ c <= Len(wal) /\ off \in Nat
    BY CommittedSizeBound DEF TypeOK
  <2>2. wal[1].cycle \in Nat
    <3>1. wal[1] \in Units
      BY <1>4 DEF TypeOK
    <3> QED BY <3>1 DEF Units
  <2>3. /\ walIndex' = IF reset THEN walIndex + 1 ELSE walIndex
        /\ walOffset' = off
        /\ salt' = IF off = 0 THEN wal[1].cycle ELSE salt
        /\ generation' = generation
    BY <1>4 DEF SyncScan
  <2>4. walIndex' \in Nat /\ walOffset' \in Nat /\ salt' \in Nat
        /\ generation' \in Nat
    BY <2>1, <2>2, <2>3 DEF TypeOK
  <2>5. CASE c <= off
    <3>1. MaybeCheckpoint(c, off)
      BY <1>4, <2>5 DEF SyncScan
    <3> HIDE DEF c, off
    <3> QED BY <1>1, <2>1, <2>4, <3>1, MaybeCheckpointType
            DEF TypeInv, TypeOK, ReadRange, PCs
  <2>6. CASE ~(c <= off)
    <3>1. /\ pc' = "read" /\ committed' = c
          /\ UNCHANGED <<phase, consecErrs, alert, segment, snapshot>>
      BY <1>4, <2>6 DEF SyncScan, alertVars
    <3> HIDE DEF c, off
    <3> QED BY <1>1, <2>1, <2>3, <2>4, <2>6, <3>1
            DEF TypeInv, TypeOK, ReadRange, PCs
  <2> QED BY <2>5, <2>6
<1> QED BY <1>2, <1>3, <1>4

LEMMA TypeNext == TypeInv /\ [Next]_vars => TypeInv'
<1> SUFFICES ASSUME TypeInv, [Next]_vars PROVE TypeInv'
  OBVIOUS
<1>0. TypeOK /\ ReadRange
  BY DEF TypeInv
<1> USE DEF storeVars, positionVars, flightVars, alertVars, backendVars
<1>1. CASE Commit
  <2>1. commits' \in Seq(Nat) /\ now' \in Nat
    BY <1>0, <1>1 DEF Commit, TypeOK
  <2> QED BY <1>0, <1>1, <2>1, WriterType DEF Commit, TypeInv, TypeOK, ReadRange
<1>2. CASE Spill
  BY <1>0, <1>2, WriterType DEF Spill, TypeInv, TypeOK, ReadRange
<1>3. CASE SyncTick \/ FinalSync
  BY <1>0, <1>3, SyncScanType DEF SyncTick, FinalSync
<1>4. CASE SyncRead
  <2> DEFINE d == SubSeq(wal, walOffset + 1, committed)
  <2>1. d \in Seq(Units)
    BY <1>0, <1>4 DEF SyncRead, TypeOK, ReadRange
  <2>2. segment' \in Segments
    <3> HIDE DEF d
    <3>1. segment' = [gen |-> generation, index |-> walIndex,
                      offset |-> walOffset, ts |-> now, data |-> d]
      BY <1>4 DEF SyncRead, d
    <3> QED BY <1>0, <2>1, <3>1 DEF TypeOK, Segments
  <2> QED BY <1>0, <1>4, <2>2 DEF SyncRead, TypeInv, TypeOK, ReadRange, PCs
<1>5. CASE SyncReadFails
  BY <1>0, <1>5, FinishType
  DEF SyncReadFails, TypeInv, TypeOK, ReadRange, PCs
<1>6. CASE ShipOk
  <2>1. MaybeCheckpoint(committed, committed) /\ committed \in Nat
    BY <1>0, <1>6 DEF ShipOk, TypeOK
  <2> QED BY <1>0, <1>6, <2>1, MaybeCheckpointType
          DEF ShipOk, TypeInv, TypeOK, ReadRange, PCs
<1>7. CASE ShipFails
  BY <1>0, <1>7, FinishType DEF ShipFails, TypeInv, TypeOK, ReadRange, PCs
<1>8. CASE ShipLandsAnyway
  <2>1. segments' \subseteq Segments /\ now' \in Nat
    BY <1>0, <1>8 DEF ShipLandsAnyway, TypeOK
  <2>2. Finish(FALSE)
    BY <1>8 DEF ShipLandsAnyway
  <2> QED BY <1>0, <1>8, <2>1, <2>2, FinishType
          DEF ShipLandsAnyway, TypeInv, TypeOK, ReadRange, PCs
<1>9. ASSUME WalCheckpoint
      PROVE  /\ main' \in Nat /\ wal' \in Seq(Units)
             /\ commits' \in Seq(Nat) /\ cycle' \in Nat
  <2>1. main' \in Nat
    BY <1>0, <1>9 DEF WalCheckpoint, TypeOK, Newest
  <2>2. <<>> \in Seq(Units)
    OBVIOUS
  <2> QED BY <1>0, <1>9, <2>1, <2>2 DEF WalCheckpoint, TypeOK
<1>10. CASE Checkpoint
  <2>1. CASE WalCheckpoint /\ pc' = "stat" /\ UNCHANGED <<phase, flightVars, alertVars>>
    BY <1>0, <1>9, <1>10, <2>1 DEF Checkpoint, TypeInv, TypeOK, ReadRange, PCs
  <2>2. CASE Finish(FALSE) /\ UNCHANGED storeVars
    BY <1>0, <1>10, <2>2, FinishType
    DEF Checkpoint, TypeInv, TypeOK, ReadRange, PCs
  <2> QED BY <1>10, <2>1, <2>2 DEF Checkpoint
<1>11. CASE Stat
  <2>1. walIndex' \in Nat /\ walOffset' \in Nat
    BY <1>0, <1>11 DEF Stat, TypeOK
  <2>2. Finish(TRUE)
    BY <1>11 DEF Stat
  <2> QED BY <1>0, <1>11, <2>1, <2>2, FinishType
          DEF Stat, TypeInv, TypeOK, ReadRange, PCs
<1>12. CASE SnapTick \/ SnapRetry
  BY <1>0, <1>12
  DEF SnapTick, SnapRetry, BeginSnapshot, TypeInv, TypeOK, ReadRange, PCs
<1>13. CASE SnapCheckpoint
  <2>1. pc' = "snapRead" /\ UNCHANGED <<now, phase, positionVars, flightVars,
                                         alertVars, backendVars>>
    BY <1>13 DEF SnapCheckpoint
  <2>2. CASE WalCheckpoint
    BY <1>0, <1>9, <2>1, <2>2 DEF TypeInv, TypeOK, ReadRange, PCs
  <2>3. CASE UNCHANGED storeVars
    BY <1>0, <2>1, <2>3 DEF TypeInv, TypeOK, ReadRange, PCs
  <2> QED BY <1>13, <2>2, <2>3 DEF SnapCheckpoint
<1>14. CASE SnapRead
  <2>1. CASE Finish(FALSE)
    BY <1>0, <1>14, <2>1, FinishType
    DEF SnapRead, TypeInv, TypeOK, ReadRange, PCs
  <2>2. CASE /\ snapshot' = [id |-> now, snap |-> main]
             /\ pc' = "snapWrite"
             /\ UNCHANGED <<phase, committed, segment, alertVars>>
    BY <1>0, <1>14, <2>2
    DEF SnapRead, TypeInv, TypeOK, ReadRange, PCs, Snapshots
  <2> QED BY <1>14, <2>1, <2>2 DEF SnapRead
<1>15. CASE SnapWriteOk
  <2>1. snapshot.id \in Nat /\ NoSnapshot \in Snapshots
    BY <1>0 DEF TypeOK, Snapshots, NoSnapshot, NoSnap
  <2> QED BY <1>0, <1>15, <2>1
          DEF SnapWriteOk, StartGeneration, TypeInv, TypeOK, ReadRange, PCs
<1>16. CASE SnapWriteFails
  BY <1>0, <1>16, FinishType DEF SnapWriteFails, TypeInv, TypeOK, ReadRange, PCs
<1>17. Leftovers \subseteq Snapshots
  BY <1>0 DEF Leftovers, TypeOK, Snapshots, NoSnap
<1>18. CASE SnapWriteLeaves
  <2>1. snapshots' \subseteq Snapshots /\ now' \in Nat
    BY <1>0, <1>17, <1>18 DEF SnapWriteLeaves, TypeOK
  <2>2. Finish(FALSE)
    BY <1>18 DEF SnapWriteLeaves
  <2> QED BY <1>0, <1>18, <2>1, <2>2, FinishType
          DEF SnapWriteLeaves, TypeInv, TypeOK, ReadRange, PCs
<1>19. CASE Prune
  <2>1. snapshots' \subseteq Snapshots /\ segments' \subseteq Segments
    <3>1. CASE EffectiveRetention <= 0
      BY <1>0, <1>19, <3>1 DEF Prune, TypeOK
    <3>2. CASE ~(EffectiveRetention <= 0)
      <4>1. \A s \in snapshots : [id |-> s.id, snap |-> NoSnap] \in Snapshots
        BY <1>0 DEF TypeOK, Snapshots, NoSnap
      <4>2. snapshots' \subseteq
              snapshots \cup {[id |-> s.id, snap |-> NoSnap] : s \in snapshots}
        <5>1. PICK fate \in [{s.id : s \in {t \in snapshots : Prunable(t)}}
                               -> PruneOutcomes] :
                snapshots' =
                   {s \in snapshots : Prunable(s) => fate[s.id] = "kept"}
                     \cup {[id |-> s.id, snap |-> NoSnap] : s \in
                             {t \in snapshots : /\ Prunable(t)
                                                /\ fate[t.id] = "partial"}}
          BY <1>19, <3>2 DEF Prune
        <5> QED BY <5>1
      <4>3. segments' \subseteq segments
        BY <1>19, <3>2 DEF Prune
      <4> QED BY <1>0, <4>1, <4>2, <4>3 DEF TypeOK
    <3> QED BY <3>1, <3>2
  <2>2. Finish(TRUE)
    BY <1>19 DEF Prune
  <2> QED BY <1>0, <1>19, <2>1, <2>2, FinishType
          DEF Prune, TypeInv, TypeOK, ReadRange, PCs
<1>20. CASE Open
  BY <1>0, <1>20 DEF Open, TypeInv, TypeOK, ReadRange, PCs
<1>21. CASE Stop
  BY <1>0, <1>21 DEF Stop, TypeInv, TypeOK, ReadRange, PCs
<1>22. ASSUME ForgetEngine
       PROVE  /\ generation' \in Nat /\ walIndex' \in Nat /\ walOffset' \in Nat
              /\ salt' \in Nat /\ committed' \in Nat
              /\ segment' \in Segments /\ snapshot' \in Snapshots
              /\ consecErrs' \in 0..AlertAfter /\ alert' \in {"quiet", "paged"}
  BY <1>22, ConfigAssumption
  DEF ForgetEngine, NoSegment, NoSnapshot, NoSnap, Segments, Snapshots,
      ConfigAssumption
<1>23. CASE CloseStore
  <2>1. main' \in Nat /\ wal' \in Seq(Units)
    <3>1. <<>> \in Seq(Units) /\ Newest \in Nat
      BY <1>0 DEF TypeOK, Newest
    <3> QED BY <1>0, <1>23, <3>1 DEF CloseStore, TypeOK
  <2>2. ForgetEngine
    BY <1>23 DEF CloseStore
  <2> QED BY <1>0, <1>22, <1>23, <2>1, <2>2
          DEF CloseStore, TypeInv, TypeOK, ReadRange, PCs
<1>24. CASE Crash
  <2>1. snapshots' \subseteq Snapshots /\ segments' \subseteq Segments
    BY <1>0, <1>17, <1>24 DEF Crash, TypeOK
  <2>2. ForgetEngine
    BY <1>24 DEF Crash
  <2> QED BY <1>0, <1>22, <1>24, <2>1, <2>2
          DEF Crash, TypeInv, TypeOK, ReadRange, PCs
<1>25. CASE UNCHANGED vars
  BY <1>0, <1>25 DEF vars, TypeInv, TypeOK, ReadRange
<1> QED
  BY <1>1, <1>2, <1>3, <1>4, <1>5, <1>6, <1>7, <1>8, <1>10, <1>11, <1>12,
     <1>13, <1>14, <1>15, <1>16, <1>18, <1>19, <1>20, <1>21, <1>23, <1>24,
     <1>25
  DEF Next, EngineStep, StayDown

\* Type correctness of the engine: in particular the range that sync reads
\* exists in the WAL file, whatever was written to it since the scan.
THEOREM TypeCorrect == Spec => [](TypeOK /\ ReadRange)
<1>1. Spec => []TypeInv
  BY TypeInit, TypeNext, PTL DEF Spec
<1> QED BY <1>1, PTL DEF TypeInv

-----------------------------------------------------------------------------
(* What a step can do to the store, to what is in flight and to the backend *)

\* The main file and the WAL hold committed transactions, and time has passed
\* since each of them.
StoreInv ==
    /\ main <= Newest
    /\ \A k \in 1..Newest : commits[k] < now
    /\ \A i \in 1..Len(wal) : wal[i].lsn <= Newest

HistoryGrows == commits' = commits \/ commits' = Append(commits, now)

LEMMA StoreStep ==
    ASSUME TypeInv, StoreInv, [Next]_vars
    PROVE  StoreInv' /\ HistoryGrows /\ now' >= now
<1> USE DEF storeVars, positionVars, flightVars, alertVars, backendVars
<1>0. /\ TypeOK /\ main \in Nat /\ now \in Nat /\ commits \in Seq(Nat)
      /\ wal \in Seq(Units) /\ cycle \in Nat
  BY DEF TypeInv, TypeOK
<1>1. ASSUME UNCHANGED storeVars, now' \in {now, now + 1}
      PROVE  StoreInv' /\ HistoryGrows /\ now' >= now
  BY <1>0, <1>1 DEF StoreInv, HistoryGrows, Newest
<1>2. ASSUME WalCheckpoint, now' = now
      PROVE  StoreInv' /\ HistoryGrows /\ now' >= now
  <2>1. commits' = commits
    BY <1>2 DEF WalCheckpoint
  <2>2. main' <= Newest
    BY <1>0, <1>2 DEF WalCheckpoint, StoreInv, Newest
  <2>3. wal' = <<>> \/ wal' = wal
    BY <1>2 DEF WalCheckpoint
  <2> QED BY <1>0, <1>2, <2>1, <2>2, <2>3 DEF StoreInv, HistoryGrows, Newest
<1>3. CommittedSize(wal) \in 0..Len(wal) /\ 0 \in 0..Len(wal)
  BY <1>0, CommittedSizeBound
<1>4. ASSUME NEW us \in Seq(Units), NEW k \in 0..Len(wal), NEW m \in Nat,
             m >= Newest, wal' = WriteAt(wal, k, us),
             \A j \in 1..Len(us) : us[j].lsn <= m
      PROVE  \A i \in 1..Len(wal') : wal'[i].lsn <= m
  <2>1. \A i \in 1..Len(wal) : wal[i].lsn \in Nat
    <3>1. \A i \in 1..Len(wal) : wal[i] \in Units
      BY <1>0
    <3> QED BY <3>1 DEF Units
  <2>2. Newest \in Nat
    BY <1>0 DEF Newest
  <2>3. \A i \in 1..Len(wal) : wal[i].lsn <= m
    BY <1>4, <2>1, <2>2 DEF StoreInv
  <2>4. wal \in Seq(Units)
    BY <1>0
  <2>5. \A i \in 1..Len(wal') : \/ \E j \in 1..Len(us) : wal'[i] = us[j]
                                \/ i \in 1..Len(wal) /\ wal'[i] = wal[i]
    BY <1>4, <2>4, WriteAtFile
  <2> QED BY <1>4, <2>3, <2>5
<1>5. CASE Commit
  <2>1. commits' = Append(commits, now) /\ now' = now + 1 /\ main' = main
    BY <1>5 DEF Commit
  <2>2. Newest' = Newest + 1 /\ Newest \in Nat
    BY <1>0, <2>1 DEF Newest
  <2>3. \A i \in 1..Len(wal') : wal'[i].lsn <= Newest + 1
    <3>1. CASE StartCycle(<<Header(cycle + 1),
                            [cycle |-> cycle + 1, lsn |-> Newest + 1]>>)
      <4> DEFINE us == <<Header(cycle + 1),
                         [cycle |-> cycle + 1, lsn |-> Newest + 1]>>
      <4>1. us \in Seq(Units) /\ \A j \in 1..Len(us) : us[j].lsn <= Newest + 1
        BY <1>0, <2>2 DEF Header, Units
      <4>2. wal' = WriteAt(wal, 0, us)
        BY <3>1 DEF StartCycle
      <4> HIDE DEF us
      <4> QED BY <1>3, <1>4, <2>2, <4>1, <4>2
    <3>2. CASE AppendUnit([cycle |-> wal[1].cycle, lsn |-> Newest + 1])
      <4> DEFINE us == <<[cycle |-> wal[1].cycle, lsn |-> Newest + 1]>>
      <4>1. wal[1] \in Units /\ wal' = WriteAt(wal, CommittedSize(wal), us)
        BY <1>0, <3>2 DEF AppendUnit
      <4>2. us \in Seq(Units) /\ \A j \in 1..Len(us) : us[j].lsn <= Newest + 1
        BY <2>2, <4>1 DEF Units
      <4> HIDE DEF us
      <4> QED BY <1>3, <1>4, <2>2, <4>1, <4>2
    <3> QED BY <1>5, <3>1, <3>2 DEF Commit
  <2>4. \A k \in 1..Newest' : commits'[k] < now'
    BY <1>0, <2>1, <2>2 DEF StoreInv, Newest
  <2>5. main' <= Newest' /\ now' >= now
    BY <1>0, <2>1, <2>2 DEF StoreInv
  <2> QED BY <2>1, <2>2, <2>3, <2>4, <2>5 DEF StoreInv, HistoryGrows
<1>6. CASE Spill
  <2> DEFINE us == <<Header(cycle + 1)>>
  <2>1. /\ us \in Seq(Units) /\ \A j \in 1..Len(us) : us[j].lsn <= Newest
        /\ Newest \in Nat
    BY <1>0 DEF Header, Units, Newest
  <2>2. /\ wal' = WriteAt(wal, 0, us) /\ commits' = commits
        /\ now' = now + 1 /\ main' = main
    BY <1>6 DEF Spill, StartCycle
  <2>3. \A i \in 1..Len(wal') : wal'[i].lsn <= Newest
    <3> HIDE DEF us
    <3> QED BY <1>3, <1>4, <2>1, <2>2
  <2>4. Newest' = Newest
    BY <2>2 DEF Newest
  <2>5. main' <= Newest' /\ now' >= now
    BY <1>0, <2>2, <2>4 DEF StoreInv
  <2>6. \A k \in 1..Newest' : commits'[k] < now'
    BY <1>0, <2>2, <2>4 DEF StoreInv, Newest
  <2> QED BY <2>2, <2>3, <2>4, <2>5, <2>6 DEF StoreInv, HistoryGrows
<1>7. CASE Checkpoint
  BY <1>1, <1>2, <1>7 DEF Checkpoint
<1>8. CASE SnapCheckpoint
  BY <1>1, <1>2, <1>8 DEF SnapCheckpoint
<1>9. CASE CloseStore
  <2>1. CASE main' = Newest /\ wal' = <<>>
    BY <1>0, <1>9, <2>1 DEF CloseStore, StoreInv, HistoryGrows, Newest
  <2>2. CASE UNCHANGED <<main, wal>>
    BY <1>1, <1>9, <2>2 DEF CloseStore
  <2> QED BY <1>9, <2>1, <2>2 DEF CloseStore
<1>10. CASE \/ SyncTick \/ SyncRead \/ SyncReadFails \/ ShipOk \/ ShipFails
            \/ ShipLandsAnyway \/ Stat \/ SnapTick \/ SnapRetry \/ SnapRead
            \/ SnapWriteOk \/ SnapWriteFails \/ SnapWriteLeaves \/ Prune
            \/ FinalSync \/ Open \/ Stop \/ Crash \/ UNCHANGED vars
  <2>1. UNCHANGED storeVars /\ now' \in {now, now + 1}
    BY <1>10 DEF SyncTick, SyncRead, SyncReadFails, ShipOk, ShipFails,
         ShipLandsAnyway, Stat, SnapTick, SnapRetry, BeginSnapshot, SnapRead,
         SnapWriteOk, SnapWriteFails, SnapWriteLeaves, Prune, FinalSync, Open,
         Stop, Crash, vars
  <2> QED BY <1>1, <2>1
<1> QED BY <1>5, <1>6, <1>7, <1>8, <1>9, <1>10 DEF Next, EngineStep, StayDown

\* Objects come from what is in flight; a generation without a snapshot
\* object is all that a failure or a deletion can leave behind.
LEMMA BackendStep ==
    ASSUME [Next]_vars
    PROVE  /\ \A s \in snapshots' :
                \/ s \in snapshots
                \/ pc = "snapWrite" /\ s = snapshot
                \/ s.snap = NoSnap
           /\ \A g \in segments' :
                \/ g \in segments
                \/ pc = "ship" /\ g = segment
<1> USE DEF storeVars, positionVars, flightVars, alertVars, backendVars
<1>1. \A s \in Leftovers : s = snapshot \/ s.snap = NoSnap
  BY DEF Leftovers
<1>2. CASE ShipOk \/ ShipLandsAnyway
  BY <1>2 DEF ShipOk, ShipLandsAnyway
<1>3. CASE SnapWriteOk
  BY <1>3 DEF SnapWriteOk
<1>4. CASE SnapWriteLeaves
  BY <1>1, <1>4 DEF SnapWriteLeaves
<1>5. CASE Prune
  <2>1. CASE EffectiveRetention <= 0
    BY <1>5, <2>1 DEF Prune
  <2>2. CASE ~(EffectiveRetention <= 0)
    <3>1. PICK fate \in [{s.id : s \in {t \in snapshots : Prunable(t)}}
                           -> PruneOutcomes] :
            /\ snapshots' =
                 {s \in snapshots : Prunable(s) => fate[s.id] = "kept"}
                   \cup {[id |-> s.id, snap |-> NoSnap] : s \in
                           {t \in snapshots : /\ Prunable(t)
                                              /\ fate[t.id] = "partial"}}
            /\ segments' =
                 {g \in segments : g.gen \in DOMAIN fate
                                     => fate[g.gen] # "deleted"}
      BY <1>5, <2>2 DEF Prune
    <3>2. \A s \in snapshots' : s \in snapshots \/ s.snap = NoSnap
      BY <3>1
    <3> QED BY <3>1, <3>2
  <2> QED BY <2>1, <2>2
<1>6. CASE Crash
  BY <1>1, <1>6 DEF Crash
<1>7. CASE \/ Commit \/ Spill \/ SyncTick \/ SyncRead \/ SyncReadFails
           \/ ShipFails \/ Checkpoint \/ Stat \/ SnapTick \/ SnapRetry
           \/ SnapCheckpoint \/ SnapRead \/ SnapWriteFails \/ FinalSync
           \/ Open \/ Stop \/ CloseStore \/ UNCHANGED vars
  <2>1. UNCHANGED backendVars
    BY <1>7 DEF Commit, Spill, SyncTick, SyncRead, SyncReadFails, ShipFails,
         Checkpoint, Stat, SnapTick, SnapRetry, BeginSnapshot, SnapCheckpoint,
         SnapRead, SnapWriteFails, FinalSync, Open, Stop, CloseStore, vars
  <2> QED BY <2>1
<1> QED BY <1>2, <1>3, <1>4, <1>5, <1>6, <1>7 DEF Next, EngineStep, StayDown

\* What is in flight is what was read, until the call returns.
LEMMA FlightStep ==
    ASSUME TypeInv, [Next]_vars
    PROVE  /\ pc' = "ship" => SyncRead \/ (pc = "ship" /\ segment' = segment)
           /\ pc' = "snapWrite" =>
                 SnapRead \/ (pc = "snapWrite" /\ snapshot' = snapshot)
<1> USE DEF storeVars, positionVars, flightVars, alertVars, backendVars
<1>0. ASSUME NEW ok \in BOOLEAN, Finish(ok)
      PROVE  pc' \in {"idle", "stopped"}
  BY <1>0 DEF Finish, NextPc
<1>1. ASSUME NEW c, NEW off, MaybeCheckpoint(c, off)
      PROVE  pc' \in {"idle", "stopped", "checkpoint"}
  BY <1>0, <1>1 DEF MaybeCheckpoint
<1>2. ASSUME SyncScan \/ SyncScanFails
      PROVE  pc' \in {"idle", "stopped", "checkpoint", "read"}
  BY <1>0, <1>1, <1>2 DEF SyncScan, SyncScanFails
<1>3. CASE Commit \/ Spill \/ UNCHANGED vars
  BY <1>3 DEF Commit, Spill, vars
<1>4. CASE SyncTick \/ FinalSync
  BY <1>2, <1>4 DEF SyncTick, FinalSync
<1>5. CASE SyncReadFails \/ ShipFails \/ ShipLandsAnyway \/ Stat
           \/ SnapWriteFails \/ SnapWriteLeaves \/ Prune
  BY <1>0, <1>5 DEF SyncReadFails, ShipFails, ShipLandsAnyway, Stat,
       SnapWriteFails, SnapWriteLeaves, Prune
<1>6. CASE ShipOk
  BY <1>1, <1>6 DEF ShipOk
<1>7. CASE Checkpoint
  BY <1>0, <1>7 DEF Checkpoint
<1>8. CASE SyncRead \/ SnapTick \/ SnapRetry \/ SnapCheckpoint \/ SnapRead
           \/ SnapWriteOk \/ Open \/ Stop \/ CloseStore \/ Crash
  BY <1>0, <1>8 DEF SyncRead, SnapTick, SnapRetry, BeginSnapshot,
       SnapCheckpoint, SnapRead, SnapWriteOk, Open, Stop, CloseStore, Crash
<1> QED BY <1>3, <1>4, <1>5, <1>6, <1>7, <1>8 DEF Next, EngineStep, StayDown

-----------------------------------------------------------------------------
(* Stamps *)

\* What is covered stays so, since history is only appended to.
LEMMA CoveredStays ==
    ASSUME TypeOK, HistoryGrows
    PROVE  /\ \A s \in Snapshots : SnapshotCovered(s) => SnapshotCovered(s)'
           /\ \A g \in Segments : SegmentCovered(g) => SegmentCovered(g)'
<1>1. /\ Newest \in Nat /\ Newest' \in Nat /\ Newest' >= Newest
      /\ \A k \in 1..Newest : commits'[k] = commits[k]
  <2>1. commits \in Seq(Nat) /\ now \in Nat
    BY DEF TypeOK
  <2>2. CASE commits' = commits
    BY <2>1, <2>2 DEF Newest
  <2>3. CASE commits' = Append(commits, now)
    BY <2>1, <2>3 DEF Newest
  <2> QED BY <2>2, <2>3 DEF HistoryGrows
<1>2. ASSUME NEW s \in Snapshots, SnapshotCovered(s)
      PROVE  SnapshotCovered(s)'
  <2>1. s.snap # NoSnap => s.snap \in Nat
    BY DEF Snapshots
  <2> QED BY <1>1, <1>2, <2>1 DEF SnapshotCovered
<1>3. ASSUME NEW g \in Segments, SegmentCovered(g)
      PROVE  SegmentCovered(g)'
  <2>1. g.data \in Seq(Units)
    BY DEF Segments
  <2>2. \A i \in 1..Len(g.data) : g.data[i] \in Units
    BY <2>1
  <2>3. \A i \in 1..Len(g.data) : g.data[i].lsn \in Nat
    BY <2>2 DEF Units
  <2> QED BY <1>1, <1>3, <2>3 DEF SegmentCovered
<1> QED BY <1>2, <1>3

StampInv ==
    /\ StoreInv
    /\ pc = "ship" => SegmentCovered(segment)
    /\ pc = "snapWrite" => SnapshotCovered(snapshot)
    /\ StampsCover

LEMMA StampInit == Init => StampInv
  BY DEF Init, StampInv, StoreInv, StampsCover, Newest

LEMMA StampNext == TypeInv /\ TypeInv' /\ StampInv /\ [Next]_vars => StampInv'
<1> SUFFICES ASSUME TypeInv, TypeInv', StampInv, [Next]_vars PROVE StampInv'
  OBVIOUS
<1>0. TypeOK /\ StoreInv
  BY DEF TypeInv, StampInv
<1>1. StoreInv' /\ HistoryGrows
  BY <1>0, StoreStep
<1>2. /\ \A s \in Snapshots : SnapshotCovered(s) => SnapshotCovered(s)'
      /\ \A g \in Segments : SegmentCovered(g) => SegmentCovered(g)'
  BY <1>0, <1>1, CoveredStays
<1>3. /\ segment \in Segments /\ snapshot \in Snapshots
      /\ snapshots \subseteq Snapshots /\ segments \subseteq Segments
      /\ snapshots' \subseteq Snapshots
  BY DEF TypeInv, TypeOK
<1>4. pc' = "ship" => SegmentCovered(segment)'
  <2>1. CASE pc = "ship" /\ segment' = segment
    <3>1. SegmentCovered(segment)
      BY <2>1 DEF StampInv
    <3>2. PICK g \in Segments : g = segment
      BY <1>3
    <3>3. SegmentCovered(g)'
      BY <1>2, <3>1, <3>2
    <3> QED BY <2>1, <3>2, <3>3 DEF SegmentCovered, Newest
  <2>2. CASE SyncRead
    <3>1. /\ UNCHANGED <<commits, wal, now>>
          /\ segment'.ts = now
          /\ segment'.data = SubSeq(wal, walOffset + 1, committed)
      BY <2>2 DEF SyncRead, storeVars
    <3>2. /\ walOffset \in Nat /\ committed \in Nat /\ wal \in Seq(Units)
          /\ walOffset < committed /\ committed <= Len(wal)
      BY <2>2 DEF TypeInv, TypeOK, ReadRange, SyncRead
    <3>3. \A i \in 1..Len(segment'.data) :
            \E j \in 1..Len(wal) : segment'.data[i] = wal[j]
      BY <3>1, <3>2
    <3>4. \A j \in 1..Len(wal) : wal[j].lsn \in Nat
      <4>1. \A j \in 1..Len(wal) : wal[j] \in Units
        BY <3>2
      <4> QED BY <4>1 DEF Units
    <3>5. \A j \in 1..Len(wal) :
            wal[j].lsn # 0 => wal[j].lsn <= Newest /\ commits[wal[j].lsn] < now
      BY <1>0, <3>4 DEF StoreInv, Newest, TypeOK
    <3> QED BY <3>1, <3>3, <3>5 DEF SegmentCovered, Newest
  <2> QED BY <2>1, <2>2, FlightStep
<1>5. pc' = "snapWrite" => SnapshotCovered(snapshot)'
  <2>1. CASE pc = "snapWrite" /\ snapshot' = snapshot
    <3>1. SnapshotCovered(snapshot)
      BY <2>1 DEF StampInv
    <3>2. PICK s \in Snapshots : s = snapshot
      BY <1>3
    <3>3. SnapshotCovered(s)'
      BY <1>2, <3>1, <3>2
    <3> QED BY <2>1, <3>2, <3>3 DEF SnapshotCovered, Newest
  <2>2. CASE SnapRead /\ pc' = "snapWrite"
    <3>1. /\ UNCHANGED commits
          /\ snapshot' = [id |-> now, snap |-> main]
      BY <2>2 DEF SnapRead, storeVars, Finish, NextPc
    <3> QED BY <1>0, <3>1 DEF StoreInv, SnapshotCovered, Newest, TypeOK
  <2> QED BY <2>1, <2>2, FlightStep
<1>6. StampsCover'
  <2>1. ASSUME NEW s \in snapshots' PROVE SnapshotCovered(s)'
    <3>1. CASE s \in snapshots
      BY <1>2, <1>3, <3>1 DEF StampInv, StampsCover
    <3>2. CASE pc = "snapWrite" /\ s = snapshot
      BY <1>2, <1>3, <3>2 DEF StampInv
    <3>3. CASE s.snap = NoSnap
      BY <3>3 DEF SnapshotCovered
    <3> QED BY <3>1, <3>2, <3>3, BackendStep
  <2>2. ASSUME NEW g \in segments' PROVE SegmentCovered(g)'
    <3>1. CASE g \in segments
      BY <1>2, <1>3, <3>1 DEF StampInv, StampsCover
    <3>2. CASE pc = "ship" /\ g = segment
      BY <1>2, <1>3, <3>2 DEF StampInv
    <3> QED BY <3>1, <3>2, BackendStep
  <2> QED BY <2>1, <2>2 DEF StampsCover
<1> QED BY <1>1, <1>4, <1>5, <1>6 DEF StampInv

\* Whatever fails and however the steps interleave, no object in the backend
\* holds a transaction that committed at or after the object's stamp.
THEOREM StampsAlwaysCover == Spec => []StampsCover
<1>1. Spec => []TypeInv
  BY TypeCorrect, PTL DEF TypeInv
<1>2. Spec => []StampInv
  BY <1>1, StampInit, StampNext, PTL DEF Spec
<1>3. StampInv => StampsCover
  BY DEF StampInv
<1> QED BY <1>2, <1>3, PTL

-----------------------------------------------------------------------------
(* The current generation *)

GenInv ==
    /\ pc = "snapWrite" => snapshot.snap # NoSnap
    /\ CurrentGenerationKept

LEMMA GenInit == Init => GenInv
  BY DEF Init, GenInv, CurrentGenerationKept

LEMMA GenNext == TypeInv /\ GenInv /\ [Next]_vars => GenInv'
<1> SUFFICES ASSUME TypeInv, GenInv, [Next]_vars PROVE GenInv'
  OBVIOUS
<1> USE DEF storeVars, positionVars, flightVars, alertVars, backendVars
<1>1. pc' = "snapWrite" => snapshot'.snap # NoSnap
  <2>1. CASE SnapRead /\ pc' = "snapWrite"
    <3>1. snapshot' = [id |-> now, snap |-> main] /\ main \in Nat
      BY <2>1 DEF SnapRead, Finish, NextPc, TypeInv, TypeOK
    <3> QED BY <3>1 DEF NoSnap
  <2>2. CASE pc = "snapWrite" /\ snapshot' = snapshot
    BY <2>2 DEF GenInv
  <2> QED BY <2>1, <2>2, FlightStep
<1> SUFFICES CurrentGenerationKept'
  BY <1>1 DEF GenInv
<1>2. ASSUME generation' = 0 \/ (generation' = generation
                                  /\ snapshots \subseteq snapshots')
      PROVE  CurrentGenerationKept'
  BY <1>2 DEF GenInv, CurrentGenerationKept
<1>3. CASE SnapWriteOk
  BY <1>3 DEF SnapWriteOk, StartGeneration, GenInv, CurrentGenerationKept
<1>4. CASE Prune
  <2>1. generation' = generation
    BY <1>4 DEF Prune
  <2>2. CASE EffectiveRetention <= 0
    BY <1>2, <1>4, <2>1, <2>2 DEF Prune
  <2>3. CASE ~(EffectiveRetention <= 0)
    <3>1. PICK fate \in [{s.id : s \in {t \in snapshots : Prunable(t)}}
                           -> PruneOutcomes] :
            snapshots' =
               {s \in snapshots : Prunable(s) => fate[s.id] = "kept"}
                 \cup {[id |-> s.id, snap |-> NoSnap] : s \in
                         {t \in snapshots : /\ Prunable(t)
                                            /\ fate[t.id] = "partial"}}
      BY <1>4, <2>3 DEF Prune
    <3>2. \A s \in snapshots : s.id = generation => s \in snapshots'
      BY <3>1 DEF Prunable
    <3> QED BY <2>1, <3>2 DEF GenInv, CurrentGenerationKept
  <2> QED BY <2>2, <2>3
<1>5. CASE CloseStore \/ Crash
  BY <1>2, <1>5 DEF CloseStore, Crash, ForgetEngine
<1>6. CASE SyncTick \/ FinalSync
  BY <1>2, <1>6 DEF SyncTick, FinalSync, SyncScan, SyncScanFails
<1>7. CASE ShipOk \/ ShipLandsAnyway \/ SnapWriteLeaves
  BY <1>2, <1>7 DEF ShipOk, ShipLandsAnyway, SnapWriteLeaves
<1>8. CASE \/ Commit \/ Spill \/ SyncRead \/ SyncReadFails \/ ShipFails
           \/ Checkpoint \/ Stat \/ SnapTick \/ SnapRetry \/ SnapCheckpoint
           \/ SnapRead \/ SnapWriteFails \/ Open \/ Stop \/ UNCHANGED vars
  <2>1. generation' = generation /\ snapshots' = snapshots
    BY <1>8 DEF Commit, Spill, SyncRead, SyncReadFails, ShipFails, Checkpoint,
         Stat, SnapTick, SnapRetry, BeginSnapshot, SnapCheckpoint, SnapRead,
         SnapWriteFails, Open, Stop, vars
  <2> QED BY <1>2, <2>1
<1> QED BY <1>3, <1>4, <1>5, <1>6, <1>7, <1>8 DEF Next, EngineStep, StayDown

\* The generation the engine writes to keeps its snapshot, for every value of
\* Retention, however deletions end.
THEOREM CurrentGenerationAlwaysKept == Spec => []CurrentGenerationKept
<1>1. Spec => []TypeInv
  BY TypeCorrect, PTL DEF TypeInv
<1>2. Spec => []GenInv
  BY <1>1, GenInit, GenNext, PTL DEF Spec
<1>3. GenInv => CurrentGenerationKept
  BY DEF GenInv
<1> QED BY <1>2, <1>3, PTL

-----------------------------------------------------------------------------
(* Segments of one index *)

\* Generation ids grow: they are stamps.
IdInv ==
    /\ now >= 1
    /\ generation < now
    /\ pc \in {"read", "ship"} => generation # 0
    /\ \A s \in segments : s.gen # 0 /\ s.gen < now
    /\ pc = "snapWrite" =>
          /\ snapshot.id <= now
          /\ \A s \in segments : s.gen < snapshot.id

\* The segment in flight continues the index at walOffset.
FlightInv ==
    pc = "ship" =>
        /\ segment.gen = generation /\ segment.index = walIndex
        /\ segment.offset = walOffset /\ EndOf(segment) = committed
        /\ walOffset <= committed

\* Of the current generation no index is beyond walIndex, and of the current
\* index nothing is shipped beyond walOffset.
PositionInv ==
    "landed" \notin SegmentOutcomes =>
        \A s \in segments : s.gen = generation =>
            /\ s.index <= walIndex
            /\ s.index = walIndex => EndOf(s) <= walOffset

DisjointInv == IdInv /\ FlightInv /\ PositionInv /\ SegmentsDisjoint

LEMMA DisjointInit == Init => DisjointInv
  BY DEF Init, DisjointInv, IdInv, FlightInv, PositionInv, SegmentsDisjoint

LEMMA SegmentTypes ==
    ASSUME TypeInv
    PROVE  /\ \A s \in segments : /\ s.gen \in Nat /\ s.index \in Nat
                                  /\ s.offset \in Nat /\ EndOf(s) \in Nat
           /\ generation \in Nat /\ walIndex \in Nat /\ walOffset \in Nat
           /\ committed \in Nat /\ now \in Nat /\ snapshot.id \in Nat
           /\ segment.gen \in Nat /\ segment.index \in Nat
           /\ segment.offset \in Nat
<1>1. \A s \in Segments : /\ s.gen \in Nat /\ s.index \in Nat
                          /\ s.offset \in Nat /\ Len(s.data) \in Nat
  BY DEF Segments
<1>2. segments \subseteq Segments /\ segment \in Segments /\ snapshot \in Snapshots
  BY DEF TypeInv, TypeOK
<1>3. snapshot.id \in Nat
  BY <1>2 DEF Snapshots
<1> QED BY <1>1, <1>2, <1>3 DEF EndOf, TypeInv, TypeOK

LEMMA IdNext ==
    ASSUME TypeInv, IdInv, FlightInv, [Next]_vars
    PROVE  IdInv'
<1> USE DEF storeVars, positionVars, flightVars, alertVars, backendVars
<1> USE SegmentTypes
<1>0. ASSUME NEW ok \in BOOLEAN, Finish(ok)
      PROVE  pc' \notin {"read", "ship", "snapWrite"}
  BY <1>0 DEF Finish, NextPc
<1>1. ASSUME UNCHANGED <<generation, segments>>, now' \in {now, now + 1},
             pc' \notin {"read", "ship", "snapWrite"}
      PROVE  IdInv'
  BY <1>1 DEF IdInv
<1>2. CASE Commit \/ Spill \/ UNCHANGED vars
  BY <1>2 DEF Commit, Spill, vars, IdInv
<1>3. CASE SyncTick \/ FinalSync
  <2>1. UNCHANGED <<generation, segments, now>>
    BY <1>3 DEF SyncTick, FinalSync, SyncScan, SyncScanFails
  <2>2. \/ pc' \notin {"read", "ship", "snapWrite"}
        \/ pc' = "read" /\ generation # 0
    BY <1>0, <1>3 DEF SyncTick, FinalSync, SyncScan, SyncScanFails,
                      MaybeCheckpoint
  <2> QED BY <2>1, <2>2 DEF IdInv
<1>4. CASE SyncRead
  BY <1>4 DEF SyncRead, IdInv
<1>5. CASE SyncReadFails \/ ShipFails \/ SnapWriteFails \/ SnapWriteLeaves \/ Stat
  <2>1. /\ UNCHANGED <<generation, segments>> /\ now' \in {now, now + 1}
        /\ \E ok \in BOOLEAN : Finish(ok)
    BY <1>5 DEF SyncReadFails, ShipFails, SnapWriteFails, SnapWriteLeaves, Stat
  <2> QED BY <1>0, <1>1, <2>1
<1>6. CASE ShipOk \/ ShipLandsAnyway
  <2>1. /\ pc = "ship" /\ generation' = generation /\ now' = now + 1
        /\ segments' = segments \cup {segment}
    BY <1>6 DEF ShipOk, ShipLandsAnyway
  <2>2. pc' \notin {"read", "ship", "snapWrite"}
    BY <1>0, <1>6 DEF ShipOk, ShipLandsAnyway, MaybeCheckpoint
  <2> QED BY <2>1, <2>2 DEF IdInv, FlightInv
<1>7. CASE Checkpoint
  <2>1. pc' \notin {"read", "ship", "snapWrite"}
    BY <1>0, <1>7 DEF Checkpoint
  <2> QED BY <1>1, <1>7, <2>1 DEF Checkpoint
<1>8. CASE SnapTick \/ SnapRetry \/ SnapCheckpoint \/ Open \/ Stop
  BY <1>1, <1>8 DEF SnapTick, SnapRetry, BeginSnapshot, SnapCheckpoint, Open, Stop
<1>9. CASE SnapRead
  <2>1. CASE Finish(FALSE)
    BY <1>0, <1>1, <1>9, <2>1 DEF SnapRead
  <2>2. CASE snapshot' = [id |-> now, snap |-> main] /\ pc' = "snapWrite"
    BY <1>9, <2>2 DEF SnapRead, IdInv
  <2> QED BY <1>9, <2>1, <2>2 DEF SnapRead
<1>10. CASE SnapWriteOk
  BY <1>10 DEF SnapWriteOk, StartGeneration, IdInv
<1>11. CASE Prune
  <2>1. segments' \subseteq segments
    BY <1>11 DEF Prune
  <2>2. pc' \notin {"read", "ship", "snapWrite"}
    BY <1>0, <1>11 DEF Prune
  <2> QED BY <1>11, <2>1, <2>2 DEF Prune, IdInv
<1>12. CASE CloseStore
  BY <1>12 DEF CloseStore, ForgetEngine, IdInv
<1>13. CASE Crash
  <2>1. /\ generation' = 0 /\ now' = now + 1 /\ pc' = "down"
        /\ \A s \in segments' : s \in segments \/ (pc = "ship" /\ s = segment)
    BY <1>13 DEF Crash, ForgetEngine
  <2> QED BY <2>1 DEF IdInv, FlightInv
<1> QED BY <1>2, <1>3, <1>4, <1>5, <1>6, <1>7, <1>8, <1>9, <1>10, <1>11, <1>12,
           <1>13 DEF Next, EngineStep, StayDown

LEMMA FlightNext ==
    ASSUME TypeInv, FlightInv, [Next]_vars
    PROVE  FlightInv'
<1> USE DEF storeVars, positionVars, flightVars, alertVars, backendVars
<1>1. CASE SyncRead
  <2> DEFINE d == SubSeq(wal, walOffset + 1, committed)
  <2>1. /\ walOffset \in Nat /\ committed \in Nat /\ wal \in Seq(Units)
        /\ walOffset < committed /\ committed <= Len(wal)
    BY <1>1 DEF TypeInv, TypeOK, ReadRange, SyncRead
  <2>2. Len(d) = committed - walOffset
    BY <2>1
  <2>3. /\ segment'.gen = generation /\ segment'.index = walIndex
        /\ segment'.offset = walOffset /\ segment'.data = d
        /\ UNCHANGED <<generation, walIndex, walOffset, committed>>
    BY <1>1 DEF SyncRead
  <2> HIDE DEF d
  <2> QED BY <2>1, <2>2, <2>3 DEF FlightInv, EndOf
<1>2. CASE pc = "ship" /\ pc' = "ship" /\ ~SyncRead
  <2>1. Commit \/ Spill \/ UNCHANGED vars
    <3>0. ASSUME NEW ok \in BOOLEAN, Finish(ok)
          PROVE  pc' # "ship"
      BY <3>0 DEF Finish, NextPc
    <3>1. ~(ShipOk \/ ShipFails \/ ShipLandsAnyway)
      BY <1>2, <3>0 DEF ShipOk, ShipFails, ShipLandsAnyway, MaybeCheckpoint
    <3> QED BY <1>2, <3>1
         DEF Next, EngineStep, StayDown, SyncTick, FinalSync, SyncReadFails,
             Checkpoint, Stat, SnapTick, SnapRetry, BeginSnapshot,
             SnapCheckpoint, SnapRead, SnapWriteOk, SnapWriteFails,
             SnapWriteLeaves, Prune, Open, Stop, CloseStore, Crash
  <2>2. UNCHANGED <<generation, walIndex, walOffset, committed, segment>>
    BY <2>1 DEF Commit, Spill, vars
  <2> QED BY <1>2, <2>2 DEF FlightInv, EndOf
<1>3. CASE pc' # "ship"
  BY <1>3 DEF FlightInv
<1> QED BY <1>1, <1>2, <1>3, FlightStep

\* The segment that is shipped joins the others without overlapping them.
LEMMA ShipDisjoint ==
    ASSUME TypeInv, DisjointInv, pc = "ship",
           "landed" \notin SegmentOutcomes,
           NEW s \in segments \cup {segment}, NEW t \in segments \cup {segment},
           s.gen = t.gen, s.index = t.index, s # t
    PROVE  EndOf(s) <= t.offset \/ EndOf(t) <= s.offset
<1>1. CASE s \in segments /\ t \in segments
  BY <1>1 DEF DisjointInv, SegmentsDisjoint
<1>2. ASSUME NEW u \in segments, u.gen = segment.gen, u.index = segment.index
      PROVE  EndOf(u) <= segment.offset
  BY <1>2 DEF DisjointInv, FlightInv, PositionInv
<1> QED BY <1>1, <1>2

\* Segments that stay, without a new one.
LEMMA FewerSegments ==
    ASSUME SegmentsDisjoint, segments' \subseteq segments
    PROVE  SegmentsDisjoint'
  BY DEF SegmentsDisjoint, EndOf

LEMMA DisjointNext ==
    TypeInv /\ DisjointInv /\ [Next]_vars => DisjointInv'
<1> SUFFICES ASSUME TypeInv, DisjointInv, [Next]_vars
             PROVE  DisjointInv'
  OBVIOUS
<1> USE DEF storeVars, positionVars, flightVars, alertVars, backendVars
<1>0. IdInv /\ FlightInv /\ PositionInv /\ SegmentsDisjoint
  BY DEF DisjointInv
<1>1. IdInv' /\ FlightInv'
  BY <1>0, IdNext, FlightNext
<1> SUFFICES PositionInv' /\ SegmentsDisjoint'
  BY <1>1 DEF DisjointInv
<1>t. /\ \A s \in segments : /\ s.gen \in Nat /\ s.index \in Nat
                             /\ s.offset \in Nat /\ EndOf(s) \in Nat
      /\ generation \in Nat /\ walIndex \in Nat /\ walOffset \in Nat
      /\ committed \in Nat
  BY SegmentTypes
<1>2. ASSUME segments' \subseteq segments,
             UNCHANGED <<generation, walIndex, walOffset>>
      PROVE  PositionInv' /\ SegmentsDisjoint'
  BY <1>0, <1>2, FewerSegments DEF PositionInv, EndOf
<1>3. CASE SyncTick \/ FinalSync
  <2>1. /\ UNCHANGED segments /\ generation' = generation
        /\ \/ UNCHANGED <<walIndex, walOffset>>
           \/ walIndex' = walIndex + 1 /\ walOffset' = 0
    BY <1>3, <1>t DEF SyncTick, FinalSync, SyncScan, SyncScanFails
  <2>2. CASE walIndex' = walIndex + 1
    BY <1>0, <1>t, <2>1, <2>2, FewerSegments DEF PositionInv, EndOf
  <2>3. CASE UNCHANGED <<walIndex, walOffset>>
    BY <1>2, <2>1, <2>3
  <2> QED BY <2>1, <2>2, <2>3
<1>4. CASE Stat
  <2>1. /\ UNCHANGED segments /\ generation' = generation
        /\ \/ UNCHANGED <<walIndex, walOffset>>
           \/ walIndex' = walIndex + 1 /\ walOffset' = 0
    BY <1>4 DEF Stat
  <2>2. CASE walIndex' = walIndex + 1
    BY <1>0, <1>t, <2>1, <2>2, FewerSegments DEF PositionInv, EndOf
  <2>3. CASE UNCHANGED <<walIndex, walOffset>>
    BY <1>2, <2>1, <2>3
  <2> QED BY <2>1, <2>2, <2>3
<1>5. CASE ShipOk
  <2>1. /\ pc = "ship" /\ segments' = segments \cup {segment}
        /\ walOffset' = committed /\ UNCHANGED <<generation, walIndex>>
    BY <1>5 DEF ShipOk
  <2>2. SegmentsDisjoint'
    BY <2>1, ShipDisjoint DEF SegmentsDisjoint, EndOf
  <2>3. PositionInv'
    <3>1. ASSUME "landed" \notin SegmentOutcomes, NEW s \in segments',
                 s.gen = generation
          PROVE  s.index <= walIndex /\ (s.index = walIndex => EndOf(s) <= committed)
      BY <1>0, <1>t, <2>1, <3>1 DEF PositionInv, FlightInv
    <3> QED BY <2>1, <3>1 DEF PositionInv, EndOf
  <2> QED BY <2>2, <2>3
<1>6. CASE ShipLandsAnyway
  BY <1>6 DEF ShipLandsAnyway, PositionInv, SegmentsDisjoint
<1>7. CASE SnapWriteOk
  <2>1. /\ pc = "snapWrite" /\ generation' = snapshot.id
        /\ UNCHANGED segments
    BY <1>7 DEF SnapWriteOk, StartGeneration
  <2>2. \A s \in segments : s.gen < snapshot.id
    BY <1>0, <2>1 DEF IdInv
  <2>3. snapshot.id \in Nat
    BY SegmentTypes
  <2>4. \A s \in segments' : s.gen # generation'
    BY <1>t, <2>1, <2>2, <2>3
  <2> QED BY <1>0, <2>1, <2>4, FewerSegments DEF PositionInv
<1>8. CASE Crash
  <2>1. generation' = 0
    BY <1>8 DEF Crash, ForgetEngine
  <2>2. PositionInv'
    BY <1>1, <2>1 DEF IdInv, PositionInv
  <2>3. CASE segments' = segments
    BY <1>0, <2>2, <2>3, FewerSegments
  <2>4. CASE pc = "ship" /\ segments' = segments \cup {segment}
    BY <2>2, <2>4, ShipDisjoint DEF SegmentsDisjoint, EndOf
  <2> QED BY <1>8, <2>3, <2>4 DEF Crash
<1>9. CASE CloseStore
  <2>1. generation' = 0 /\ segments' = segments
    BY <1>9 DEF CloseStore, ForgetEngine
  <2>2. PositionInv'
    BY <1>1, <2>1 DEF IdInv, PositionInv
  <2> QED BY <1>0, <2>1, <2>2, FewerSegments
<1>10. CASE Prune
  <2>1. segments' \subseteq segments
    BY <1>10 DEF Prune
  <2> QED BY <1>2, <1>10, <2>1 DEF Prune
<1>11. CASE \/ Commit \/ Spill \/ SyncRead \/ SyncReadFails \/ ShipFails
            \/ Checkpoint \/ SnapTick \/ SnapRetry \/ SnapCheckpoint
            \/ SnapRead \/ SnapWriteFails \/ SnapWriteLeaves \/ Open \/ Stop
            \/ UNCHANGED vars
  <2>1. UNCHANGED <<generation, walIndex, walOffset, segments>>
    BY <1>11 DEF Commit, Spill, SyncRead, SyncReadFails, ShipFails, Checkpoint,
         SnapTick, SnapRetry, BeginSnapshot, SnapCheckpoint, SnapRead,
         SnapWriteFails, SnapWriteLeaves, Open, Stop, vars
  <2> QED BY <1>2, <2>1
<1> QED BY <1>3, <1>4, <1>5, <1>6, <1>7, <1>8, <1>9, <1>10, <1>11
        DEF Next, EngineStep, StayDown

\* With a backend that stores nothing when it reports an error, segments of
\* one WAL index never overlap, however writers, checkpoints, snapshots,
\* crashes and restarts interleave with the shipping.
THEOREM SegmentsAlwaysDisjoint == Spec => []SegmentsDisjoint
<1>1. Spec => []TypeInv
  BY TypeCorrect, PTL DEF TypeInv
<1>2. Spec => []DisjointInv
  BY <1>1, DisjointInit, DisjointNext, PTL DEF Spec
<1>3. DisjointInv => SegmentsDisjoint
  BY DEF DisjointInv
<1> QED BY <1>2, <1>3, PTL

-----------------------------------------------------------------------------
(* The operators of Restore *)

LEMMA MaxIsGreatest ==
    ASSUME NEW b \in Int, NEW S \in SUBSET Int, \A x \in S : x <= b, S # {}
    PROVE  Max(S) \in S /\ \A x \in S : x <= Max(S)
<1>1. PICK m \in S : \A x \in S : x <= m
    BY GreatestInteger
<1>2. \A x \in S : x \in Int
    OBVIOUS
<1>3. \E y \in S : \A x \in S : y >= x
    BY <1>1, <1>2
<1>4. Max(S) \in S /\ \A x \in S : Max(S) >= x
    BY <1>3 DEF Max
<1> QED  BY <1>2, <1>4

\* The objects of a backend: every segment has data, and there are finitely many.
Backed(segs, b) ==
    /\ segs \subseteq Segments
    /\ \A s \in segs : Len(s.data) > 0 /\ EndOf(s) <= b /\ s.index < b

LEMMA SegmentFacts ==
    ASSUME NEW s \in Segments
    PROVE  /\ s.gen \in Nat /\ s.index \in Nat /\ s.offset \in Nat /\ s.ts \in Nat
           /\ s.data \in Seq(Units) /\ Len(s.data) \in Nat
           /\ EndOf(s) = s.offset + Len(s.data) /\ EndOf(s) \in Nat
BY DEF Segments, EndOf

LEMMA ByOffsetTransitive ==
    ASSUME NEW s \in Segments, NEW t \in Segments, NEW u \in Segments,
           ByOffset(u, t), ByOffset(t, s)
    PROVE  ByOffset(u, s)
BY SegmentFacts DEF ByOffset

\* What comes before a segment of the run is in the run.
LEMMA RunDownClosed ==
    ASSUME NEW segs \in SUBSET Segments, NEW s \in ContiguousRun(segs),
           NEW t \in segs, ByOffset(t, s)
    PROVE  t \in ContiguousRun(segs)
<1>1. s \in segs /\ \A u \in segs : ByOffset(u, s) \/ u = s => Joins(segs, u)
    BY DEF ContiguousRun
<1>2. ASSUME NEW u \in segs, ByOffset(u, t) \/ u = t
      PROVE  Joins(segs, u)
    <2>1. ByOffset(u, s)
        BY <1>1, <1>2, ByOffsetTransitive
    <2> QED  BY <1>1, <2>1
<1> QED  BY <1>2 DEF ContiguousRun

\* The run covers everything up to its end.
LEMMA RunCovers ==
    ASSUME NEW b \in Nat, NEW segs, Backed(segs, b),
           NEW s \in ContiguousRun(segs), NEW p \in 1..EndOf(s)
    PROVE  \E t \in ContiguousRun(segs) : p \in Extent(t)
<1> DEFINE R == ContiguousRun(segs)
           D == {t.offset : t \in {u \in R : p <= EndOf(u)}}
<1>1. segs \subseteq Segments /\ R \subseteq segs
    BY DEF Backed, ContiguousRun
<1>2. \A t \in R : /\ t \in Segments /\ t.offset \in Nat /\ EndOf(t) \in Nat
                   /\ t.offset < EndOf(t)
    <2> SUFFICES ASSUME NEW t \in R
                 PROVE  /\ t \in Segments /\ t.offset \in Nat /\ EndOf(t) \in Nat
                        /\ t.offset < EndOf(t)
        OBVIOUS
    <2>1. t \in Segments /\ Len(t.data) > 0
        BY <1>1 DEF Backed
    <2> QED  BY <2>1, SegmentFacts
<1>3. p \in Nat /\ p >= 1 /\ p <= EndOf(s)
    BY <1>2
<1> HIDE DEF R
<1>4. D \in SUBSET Nat /\ D # {}
    BY <1>2, <1>3 DEF R
<1> HIDE DEF D
<1>5. PICK m \in D : \A k \in D : m <= k
    BY <1>4, LeastNatural
<1>6. PICK t \in R : t.offset = m /\ p <= EndOf(t)
    BY <1>5 DEF D
<1>7. CASE m < p
    BY <1>2, <1>3, <1>6, <1>7 DEF R, Extent
<1>8. CASE p <= m
    <2>1. t \in segs /\ Joins(segs, t) /\ t.offset # 0
        BY <1>1, <1>2, <1>3, <1>6, <1>8 DEF R, ContiguousRun
    <2>2. PICK u \in segs : ByOffset(u, t) /\ EndOf(u) = t.offset
        BY <2>1 DEF Joins
    <2>3. u \in R
        BY <1>1, <1>6, <2>2, RunDownClosed DEF R
    <2>4. u.offset < t.offset /\ p <= EndOf(u) /\ u.offset \in D
        BY <1>2, <1>3, <1>6, <1>8, <2>2, <2>3 DEF D
    <2> QED  BY <1>2, <1>5, <1>6, <2>3, <2>4
<1> QED  BY <1>2, <1>3, <1>6, <1>7, <1>8

\* The file that applyWALIndex writes: one unit behind the other, each from a
\* segment of the run.
LEMMA FileIsSequence ==
    ASSUME NEW b \in Nat, NEW segs, Backed(segs, b)
    PROVE  LET R == ContiguousRun(segs)
               f == WALFile(R)
           IN  /\ f \in Seq(Units)
               /\ \A s \in R : EndOf(s) <= Len(f)
               /\ Len(f) # 0 => \E s \in R : EndOf(s) = Len(f)
               /\ \A p \in 1..Len(f) :
                     \E s \in R : /\ p \in Extent(s) /\ p - s.offset \in 1..Len(s.data)
                                  /\ f[p] = s.data[p - s.offset]
<1> DEFINE R == ContiguousRun(segs)
           f == WALFile(R)
           D == UNION {Extent(s) : s \in R}
           E == {EndOf(s) : s \in R}
<1>1. \A s \in R : /\ s \in Segments /\ s.offset \in Nat /\ EndOf(s) \in Nat
                   /\ EndOf(s) <= b /\ EndOf(s) # 0 /\ s.data \in Seq(Units)
                   /\ EndOf(s) = s.offset + Len(s.data) /\ Len(s.data) \in Nat
    <2> SUFFICES ASSUME NEW s \in R
                 PROVE  /\ s \in Segments /\ s.offset \in Nat /\ EndOf(s) \in Nat
                        /\ EndOf(s) <= b /\ EndOf(s) # 0 /\ s.data \in Seq(Units)
                        /\ EndOf(s) = s.offset + Len(s.data) /\ Len(s.data) \in Nat
        OBVIOUS
    <2>1. s \in Segments /\ Len(s.data) > 0 /\ EndOf(s) <= b
        BY DEF Backed, ContiguousRun
    <2> QED  BY <2>1, SegmentFacts
<1>2. \A s \in R : \A p \in 1..EndOf(s) : \E t \in R : p \in Extent(t)
    BY RunCovers
<1> HIDE DEF R
<1>3. \E n \in Nat : /\ D = 1..n /\ \A s \in R : EndOf(s) <= n
                     /\ n # 0 => \E s \in R : EndOf(s) = n
    <2>1. CASE R = {}
        <3>1. D = 1..0
            BY <2>1
        <3> QED  BY <2>1, <3>1
    <2>2. CASE R # {}
        <3>1. E \in SUBSET Int /\ E # {} /\ b \in Int /\ \A x \in E : x <= b
            BY <1>1, <2>2
        <3> HIDE DEF E
        <3>2. PICK n \in E : \A x \in E : x <= n
            BY <3>1, GreatestInteger
        <3>3. PICK s \in R : EndOf(s) = n
            BY <3>2 DEF E
        <3>4. n \in Nat /\ \A t \in R : EndOf(t) <= n
            BY <1>1, <3>2, <3>3 DEF E
        <3>5. ASSUME NEW p \in D PROVE p \in 1..n
            <4>1. PICK t \in R : p \in Extent(t)
                OBVIOUS
            <4> QED  BY <1>1, <3>4, <4>1 DEF Extent
        <3>6. ASSUME NEW p \in 1..n PROVE p \in D
            BY <1>2, <3>3
        <3> HIDE DEF D
        <3>7. D = 1..n
            BY <3>5, <3>6
        <3> QED  BY <3>3, <3>4, <3>7
    <2> QED  BY <2>1, <2>2
<1>4. PICK n \in Nat : /\ D = 1..n /\ \A s \in R : EndOf(s) <= n
                       /\ n # 0 => \E s \in R : EndOf(s) = n
    BY <1>3
<1>5. ASSUME NEW p \in 1..n
      PROVE  \E s \in R : /\ p \in Extent(s) /\ p - s.offset \in 1..Len(s.data)
                          /\ f[p] = s.data[p - s.offset]
    <2> DEFINE s == CHOOSE t \in R : p \in Extent(t)
    <2>1. p \in D
        BY <1>4
    <2>2. \E t \in R : p \in Extent(t)
        BY <2>1
    <2>3. s \in R /\ p \in Extent(s)
        BY <2>2
    <2>4. f[p] = s.data[p - s.offset]
        BY <2>1 DEF WALFile
    <2> HIDE DEF s, f
    <2>5. p - s.offset \in 1..Len(s.data)
        BY <1>1, <2>3 DEF Extent
    <2> QED  BY <2>3, <2>4, <2>5
<1>6. f = [p \in 1..n |-> f[p]]
    <2>1. f = [p \in D |-> f[p]]
        BY DEF WALFile
    <2> HIDE DEF f, D
    <2> QED  BY <1>4, <2>1
<1> HIDE DEF f, D
<1>7. \A p \in 1..n : f[p] \in Units
    BY <1>1, <1>5
<1>8. f \in Seq(Units) /\ Len(f) = n
    BY <1>6, <1>7
<1> QED  BY <1>4, <1>5, <1>8 DEF f, R

\* The segments of one index.
OfIndex(segs, n) == {s \in segs : s.index = n}

\* The recursion of RollForward defines a function.
LEMMA RollForwardStep ==
    ASSUME NEW k, NEW segs
    PROVE  /\ RollForward(k, segs)[0] = k
           /\ \A n \in Nat : RollForward(k, segs)[n + 1] =
                 ApplyWALIndex(RollForward(k, segs)[n], OfIndex(segs, n))
<1> DEFINE Last(file) == file[CommittedSize(file)].lsn
           file(n) == WALFile(ContiguousRun(OfIndex(segs, n)))
           V == {k, Torn} \cup {Last(file(n)) : n \in Nat}
           Apply(n, x) == ApplyWALIndex(x, {s \in segs : s.index = n})
           step == [n \in Nat |-> [x \in V |-> Apply(n, x)]]
<1>1. ASSUME NEW n \in Nat, NEW x \in V PROVE Apply(n, x) \in V
    <2>1. Apply(n, x) \in {x, Last(file(n)), Torn}
        BY DEF ApplyWALIndex, Replay, OfIndex
    <2> HIDE DEF Apply, Last, file
    <2> QED  BY <2>1
<1> HIDE DEF Apply, V
<1>2. k \in V /\ step \in [Nat -> [V -> V]]
    <2>1. k \in V
        BY DEF V
    <2> QED  BY <1>1, <2>1
<1>3. \A n \in Nat, x \in V : step[n][x] = Apply(n, x)
    OBVIOUS
<1> HIDE DEF step
<1>4. PICK f : IsIteration(V, k, step, f)
    BY <1>2, IterationExists
<1>5. f \in [Nat -> V]
    BY <1>4 DEF IsIteration
<1>6. \A n \in Nat : n # 0 => n - 1 \in Nat /\ f[n - 1] \in V
    BY <1>5
<1>7. \A n \in Nat : f[n] = IF n = 0 THEN k ELSE Apply(n - 1, f[n - 1])
    <2>1. f = [n \in Nat |-> IF n = 0 THEN k ELSE step[n - 1][f[n - 1]]]
        BY <1>4 DEF IsIteration
    <2>2. \A n \in Nat : f[n] = IF n = 0 THEN k ELSE step[n - 1][f[n - 1]]
        BY <2>1
    <2> QED  BY <1>3, <1>6, <2>2
<1>8. f = [n \in Nat |-> f[n]]
    BY <1>5
<1>9. f = [n \in Nat |-> IF n = 0 THEN k ELSE Apply(n - 1, f[n - 1])]
    BY <1>7, <1>8
<1> DEFINE g == RollForward(k, segs)
<1>10. g = [n \in Nat |-> IF n = 0 THEN k ELSE Apply(n - 1, g[n - 1])]
    BY <1>9 DEF RollForward, Apply
<1> HIDE DEF g
<1>11. \A n \in Nat : n + 1 \in Nat /\ n + 1 # 0 /\ n + 1 - 1 = n
    OBVIOUS
<1>12. g[0] = k /\ \A n \in Nat : g[n + 1] = Apply(n, g[n])
    BY <1>10, <1>11
<1> QED  BY <1>12 DEF g, Apply, OfIndex

\* The loop of Restore passes every index that has a segment.
LEMMA IndexesBound ==
    ASSUME NEW b \in Nat, NEW segs, Backed(segs, b)
    PROVE  Indexes(segs) \in Nat /\ \A s \in segs : s.index < Indexes(segs)
<1> DEFINE I == {0} \cup {s.index + 1 : s \in segs}
<1>1. \A s \in segs : s.index \in Nat /\ s.index < b
    BY SegmentFacts DEF Backed
<1>2. b \in Int /\ I \in SUBSET Int /\ I \subseteq Nat /\ I # {} /\ \A i \in I : i <= b
    BY <1>1
<1>3. Max(I) \in I /\ \A x \in I : x <= Max(I)
    <2> HIDE DEF I
    <2> QED  BY <1>2, MaxIsGreatest
<1>4. Indexes(segs) \in Nat /\ \A s \in segs : s.index + 1 <= Indexes(segs)
    BY <1>2, <1>3 DEF Indexes
<1> QED  BY <1>1, <1>4

\* What holds of the snapshot and is kept by every index holds of the result.
LEMMA RollForwardKeeps ==
    ASSUME NEW b \in Nat, NEW segs, Backed(segs, b), NEW S, NEW k \in S,
           \A n \in Nat, x \in S : ApplyWALIndex(x, OfIndex(segs, n)) \in S
    PROVE  RollForward(k, segs)[Indexes(segs)] \in S
<1> DEFINE g == RollForward(k, segs)
           H == {n \in Nat : g[n] \in S}
<1>1. g[0] = k /\ \A n \in Nat : g[n + 1] = ApplyWALIndex(g[n], OfIndex(segs, n))
    BY RollForwardStep
<1> HIDE DEF g
<1>2. 0 \in H /\ \A n \in Nat : n \in H => n + 1 \in H
    BY <1>1
<1> HIDE DEF H
<1>3. \A n \in Nat : n \in H
    BY <1>2, Induction
<1> QED  BY <1>3, IndexesBound DEF g, H

\* An index leaves the database as it is, tears it, or brings it forward to the
\* last transaction of a segment's unit.
LEMMA ApplyCases ==
    ASSUME NEW b \in Nat, NEW segs, Backed(segs, b), NEW k
    PROVE  \/ ApplyWALIndex(k, segs) \in {k, Torn}
           \/ /\ k # Torn
              /\ \E s \in segs : \E i \in 1..Len(s.data) :
                    ApplyWALIndex(k, segs) = s.data[i].lsn /\ k <= s.data[i].lsn
<1> DEFINE R == ContiguousRun(segs)
           f == WALFile(R)
           size == CommittedSize(f)
<1>1. /\ f \in Seq(Units)
      /\ \A p \in 1..Len(f) :
            \E s \in R : /\ p \in Extent(s) /\ p - s.offset \in 1..Len(s.data)
                         /\ f[p] = s.data[p - s.offset]
    BY FileIsSequence
<1>2. R \subseteq segs
    BY DEF ContiguousRun
<1> HIDE DEF f, R
<1>3. size \in Nat /\ size <= Len(f)
    BY <1>1, CommittedSizeBound
<1>4. ApplyWALIndex(k, segs) = Replay(k, f)
    BY DEF ApplyWALIndex, f, R
<1>5. \/ Replay(k, f) \in {k, Torn}
      \/ k # Torn /\ ~(size <= 1) /\ Replay(k, f) = f[size].lsn /\ k <= f[size].lsn
    BY DEF Replay
<1> HIDE DEF size
<1>6. ~(size <= 1) => size \in 1..Len(f)
    BY <1>1, <1>3
<1> QED  BY <1>1, <1>2, <1>4, <1>5, <1>6

-----------------------------------------------------------------------------
(* The objects of the backend *)

\* The engine's invariants, as proved above.
EngineInv == TypeInv /\ StampInv /\ GenInv /\ DisjointInv

LEMMA EngineCorrect == Spec => []EngineInv
<1>1. Spec => []TypeInv
  BY TypeCorrect, PTL DEF TypeInv
<1>2. Init => EngineInv
  BY TypeInit, StampInit, GenInit, DisjointInit DEF EngineInv
<1>3. TypeInv /\ TypeInv' /\ EngineInv /\ [Next]_vars => EngineInv'
  BY StampNext, GenNext, DisjointNext DEF EngineInv
<1> QED  BY <1>1, <1>2, <1>3, PTL DEF Spec

\* An object that did not land whole.
Hollow == [id |-> snapshot.id, snap |-> NoSnap]

\* What a step may do to the backend.
SegmentLands ==
    /\ pc = "ship" /\ segments' = segments \cup {segment}
    /\ snapshots' = snapshots /\ now' = now + 1
    /\ pc' \notin {"ship", "snapWrite"}
SnapshotLands ==
    /\ pc = "snapWrite" /\ segments' = segments
    /\ \E s \in {snapshot, Hollow} : snapshots' = snapshots \cup {s}
    /\ now' = now + 1
    /\ pc' \notin {"ship", "snapWrite"}
BackendStays ==
    /\ segments' = segments /\ snapshots' = snapshots
    /\ now' \in {now, now + 1}
    /\ pc' = "ship" => SyncRead \/ (pc = "ship" /\ segment' = segment)
    /\ pc' = "snapWrite" => SnapRead \/ (pc = "snapWrite" /\ snapshot' = snapshot)

LEMMA BackendCases ==
    ASSUME TypeInv, [Next]_vars
    PROVE  SegmentLands \/ SnapshotLands \/ Prune \/ BackendStays
<1> USE DEF storeVars, positionVars, flightVars, alertVars, backendVars
<1>0. ASSUME NEW ok \in BOOLEAN, Finish(ok)
      PROVE  pc' \notin {"ship", "snapWrite"}
  BY <1>0 DEF Finish, NextPc
<1>1. /\ pc' = "ship" => SyncRead \/ (pc = "ship" /\ segment' = segment)
      /\ pc' = "snapWrite" =>
            SnapRead \/ (pc = "snapWrite" /\ snapshot' = snapshot)
  BY FlightStep
<1>2. CASE ShipOk
  <2>1. pc' \notin {"ship", "snapWrite"}
    BY <1>0, <1>2 DEF ShipOk, MaybeCheckpoint
  <2> QED  BY <1>2, <2>1 DEF ShipOk, SegmentLands
<1>3. CASE ShipLandsAnyway
  BY <1>0, <1>3 DEF ShipLandsAnyway, SegmentLands
<1>4. CASE SnapWriteOk
  BY <1>4 DEF SnapWriteOk, SnapshotLands
<1>5. Leftovers \subseteq {snapshot, Hollow}
  BY DEF Leftovers, Hollow
<1>6. CASE SnapWriteLeaves
  BY <1>0, <1>5, <1>6 DEF SnapWriteLeaves, SnapshotLands
<1>7. CASE Crash
  BY <1>1, <1>5, <1>7 DEF Crash, SegmentLands, SnapshotLands, BackendStays
<1>8. CASE \/ Commit \/ Spill \/ SyncTick \/ SyncRead \/ SyncReadFails
           \/ ShipFails \/ Checkpoint \/ Stat \/ SnapTick \/ SnapRetry
           \/ SnapCheckpoint \/ SnapRead \/ SnapWriteFails \/ FinalSync
           \/ Open \/ Stop \/ CloseStore \/ UNCHANGED vars
  <2>1. UNCHANGED backendVars /\ now' \in {now, now + 1}
    BY <1>8 DEF Commit, Spill, SyncTick, SyncRead, SyncReadFails, ShipFails,
         Checkpoint, Stat, SnapTick, SnapRetry, BeginSnapshot, SnapCheckpoint,
         SnapRead, SnapWriteFails, FinalSync, Open, Stop, CloseStore, vars
  <2> QED BY <1>1, <2>1 DEF BackendStays
<1> QED BY <1>2, <1>3, <1>4, <1>6, <1>7, <1>8 DEF Next, EngineStep, StayDown

\* Every object has a stamp of its own, in the past and later than those of the
\* objects before it; no segment is empty, and there are finitely many.
ObjectInv ==
    /\ \A s \in segments : s.ts < now /\ Len(s.data) > 0
    /\ pc = "ship" =>
          /\ segment.ts <= now /\ Len(segment.data) > 0
          /\ \A s \in segments : s.ts < segment.ts
    /\ \A s \in snapshots : s.id < now /\ s.id # 0
    /\ pc = "snapWrite" =>
          /\ snapshot.id <= now /\ snapshot.id # 0
          /\ \A s \in snapshots : s.id < snapshot.id
    /\ \A s, t \in snapshots : s.id = t.id => s = t
    /\ \E b \in Nat : Backed(segments, b)

LEMMA ObjectInit == Init => ObjectInv
<1> SUFFICES ASSUME Init PROVE ObjectInv
  OBVIOUS
<1>1. Backed(segments, 0)
  BY DEF Init, Backed
<1> QED  BY <1>1 DEF Init, ObjectInv

\* One segment more, or some less, are still finitely many.
LEMMA BackedGrows ==
    ASSUME NEW b \in Nat, NEW segs, Backed(segs, b), NEW s \in Segments,
           Len(s.data) > 0, NEW more \in SUBSET (segs \cup {s})
    PROVE  \E c \in Nat : Backed(more, c)
<1> DEFINE c == b + EndOf(s) + s.index + 1
<1>1. EndOf(s) \in Nat /\ s.index \in Nat
  BY SegmentFacts
<1>2. \A t \in segs : t \in Segments /\ EndOf(t) \in Nat /\ t.index \in Nat
  BY SegmentFacts DEF Backed
<1>3. c \in Nat /\ b <= c /\ EndOf(s) <= c /\ s.index < c
  BY <1>1
<1> HIDE DEF c
<1>4. Backed(more, c)
  BY <1>1, <1>2, <1>3 DEF Backed
<1> QED  BY <1>3, <1>4

\* What a prune leaves.
LEMMA PruneLeaves ==
    ASSUME Prune
    PROVE  /\ segments' \subseteq segments
           /\ \A s \in snapshots' :
                 \/ s \in snapshots
                 \/ s.snap = NoSnap /\ \E t \in snapshots : s.id = t.id /\ s # t
           /\ (\A s, t \in snapshots : s.id = t.id => s = t)
                => \A s, t \in snapshots' : s.id = t.id => s = t
           /\ now' = now /\ generation' = generation
           /\ pc' \notin {"ship", "snapWrite"}
<1>0. /\ now' = now /\ generation' = generation
      /\ pc' \notin {"ship", "snapWrite"}
  BY DEF Prune, Finish, NextPc, positionVars
<1>1. CASE EffectiveRetention <= 0
  BY <1>0, <1>1 DEF Prune, backendVars
<1>2. CASE ~(EffectiveRetention <= 0)
  <2>1. PICK fate \in [{s.id : s \in {t \in snapshots : Prunable(t)}}
                         -> PruneOutcomes] :
          /\ snapshots' =
               {s \in snapshots : Prunable(s) => fate[s.id] = "kept"}
                 \cup {[id |-> s.id, snap |-> NoSnap] : s \in
                         {t \in snapshots : /\ Prunable(t)
                                            /\ fate[t.id] = "partial"}}
          /\ segments' =
               {g \in segments : g.gen \in DOMAIN fate
                                   => fate[g.gen] # "deleted"}
    BY <1>2 DEF Prune
  <2> DEFINE stay == {s \in snapshots : Prunable(s) => fate[s.id] = "kept"}
             cut == {s \in snapshots : Prunable(s) /\ fate[s.id] = "partial"}
             Cut(s) == [id |-> s.id, snap |-> NoSnap]
  <2>2. snapshots' = stay \cup {Cut(s) : s \in cut}
    BY <2>1
  <2>3. \A s \in snapshots' : s \in stay \/ \E t \in cut : s = Cut(t)
    BY <2>2
  <2>4. \A s \in snapshots' :
           s \in snapshots \/ \E t \in snapshots : s = Cut(t) /\ s # t
    BY <2>3
  <2>5. \A t : Cut(t).id = t.id /\ Cut(t).snap = NoSnap
    OBVIOUS
  <2>6. ASSUME \A s, t \in snapshots : s.id = t.id => s = t,
               NEW s \in snapshots', NEW t \in snapshots', s.id = t.id
        PROVE  s = t
    <3>1. ASSUME NEW u \in stay, NEW v \in cut, u.id = v.id PROVE FALSE
      <4>1. u = v
        BY <2>6, <3>1
      <4> QED  BY <4>1
    <3>2. ASSUME NEW u \in cut, NEW v \in cut, u.id = v.id PROVE Cut(u) = Cut(v)
      BY <3>2
    <3>3. CASE s \in stay /\ t \in stay
      BY <2>6, <3>3
    <3>4. \A u \in stay, v \in cut : u.id # v.id
      BY <3>1
    <3> HIDE DEF stay, cut, Cut
    <3>5. CASE (\E v \in cut : s = Cut(v)) /\ (\E v \in cut : t = Cut(v))
      BY <2>5, <2>6, <3>2, <3>5
    <3>6. CASE (\E v \in cut : s = Cut(v)) /\ t \in stay
      BY <2>5, <2>6, <3>4, <3>6
    <3>7. CASE s \in stay /\ (\E v \in cut : t = Cut(v))
      BY <2>5, <2>6, <3>4, <3>7
    <3> QED  BY <2>3, <3>3, <3>5, <3>6, <3>7
  <2>7. segments' \subseteq segments
    BY <2>1
  <2> HIDE DEF Cut
  <2> QED  BY <1>0, <2>4, <2>5, <2>6, <2>7
<1> QED  BY <1>1, <1>2

LEMMA ObjectNext == EngineInv /\ ObjectInv /\ [Next]_vars => ObjectInv'
<1> SUFFICES ASSUME EngineInv, ObjectInv, [Next]_vars PROVE ObjectInv'
  OBVIOUS
<1>1. /\ TypeInv /\ segments \subseteq Segments /\ segment \in Segments
      /\ snapshots \subseteq Snapshots /\ snapshot \in Snapshots
      /\ now \in Nat /\ now >= 1
  BY DEF EngineInv, TypeInv, TypeOK, DisjointInv, IdInv
<1>2. /\ \A s \in Segments : s.ts \in Nat
      /\ \A s \in Snapshots : s.id \in Nat
  BY SegmentFacts DEF Snapshots
<1>3. PICK b \in Nat : Backed(segments, b)
  BY DEF ObjectInv
<1>4. CASE SegmentLands
  <2>1. \E c \in Nat : Backed(segments', c)
    BY <1>1, <1>3, <1>4, BackedGrows DEF SegmentLands, ObjectInv
  <2> QED  BY <1>1, <1>2, <1>4, <2>1 DEF SegmentLands, ObjectInv
<1>5. CASE SnapshotLands
  <2>1. Hollow.id = snapshot.id
    BY DEF Hollow
  <2>2. PICK s \in {snapshot, Hollow} : snapshots' = snapshots \cup {s}
    BY <1>5 DEF SnapshotLands
  <2>3. s.id = snapshot.id /\ snapshot.id \in Nat
    BY <1>1, <1>2, <2>1
  <2>4. \A t \in snapshots' : t.id < now' /\ t.id # 0
    BY <1>1, <1>2, <1>5, <2>2, <2>3 DEF SnapshotLands, ObjectInv
  <2>5. \A t, u \in snapshots' : t.id = u.id => t = u
    <3>1. \A t \in snapshots : t.id # s.id
      BY <1>1, <1>2, <1>5, <2>3 DEF SnapshotLands, ObjectInv
    <3> QED  BY <2>2, <3>1 DEF ObjectInv
  <2> QED  BY <1>1, <1>2, <1>3, <1>5, <2>4, <2>5 DEF SnapshotLands, ObjectInv
<1>6. CASE Prune
  <2>1. /\ segments' \subseteq segments
        /\ \A s \in snapshots' : \E t \in snapshots : s.id = t.id
        /\ \A s, t \in snapshots' : s.id = t.id => s = t
        /\ now' = now /\ pc' \notin {"ship", "snapWrite"}
    BY <1>6, PruneLeaves DEF ObjectInv
  <2>2. Backed(segments', b)
    BY <1>3, <2>1 DEF Backed
  <2> QED  BY <2>1, <2>2 DEF ObjectInv
<1>7. CASE BackendStays
  <2>1. /\ segments' = segments /\ snapshots' = snapshots
        /\ now' \in {now, now + 1}
    BY <1>7 DEF BackendStays
  <2>2. pc' = "ship" =>
          /\ segment'.ts <= now' /\ Len(segment'.data) > 0
          /\ \A s \in segments : s.ts < segment'.ts
    <3>1. CASE SyncRead
      <4> DEFINE d == SubSeq(wal, walOffset + 1, committed)
      <4>1. /\ walOffset \in Nat /\ committed \in Nat /\ wal \in Seq(Units)
            /\ walOffset < committed /\ committed <= Len(wal)
        BY <1>1, <3>1 DEF TypeInv, TypeOK, ReadRange, SyncRead
      <4>2. Len(d) = committed - walOffset
        BY <4>1
      <4>3. segment'.ts = now /\ segment'.data = d /\ now' = now
        BY <3>1 DEF SyncRead
      <4> HIDE DEF d
      <4> QED  BY <1>1, <4>1, <4>2, <4>3 DEF ObjectInv
    <3>2. CASE pc = "ship" /\ segment' = segment
      BY <1>1, <1>2, <2>1, <3>2 DEF ObjectInv
    <3> QED  BY <1>7, <3>1, <3>2 DEF BackendStays
  <2>3. pc' = "snapWrite" =>
          /\ snapshot'.id <= now' /\ snapshot'.id # 0
          /\ \A s \in snapshots : s.id < snapshot'.id
    <3>1. CASE SnapRead /\ pc' = "snapWrite"
      <4>1. snapshot'.id = now
        BY <3>1 DEF SnapRead, Finish, NextPc
      <4> QED  BY <1>1, <2>1, <4>1 DEF ObjectInv
    <3>2. CASE pc = "snapWrite" /\ snapshot' = snapshot
      BY <1>1, <1>2, <2>1, <3>2 DEF ObjectInv
    <3> QED  BY <1>7, <3>1, <3>2 DEF BackendStays
  <2>4. /\ \A s \in segments : s.ts < now' /\ Len(s.data) > 0
        /\ \A s \in snapshots : s.id < now' /\ s.id # 0
    BY <1>1, <1>2, <2>1 DEF ObjectInv
  <2> QED  BY <1>3, <2>1, <2>2, <2>3, <2>4 DEF ObjectInv
<1> QED  BY <1>1, <1>4, <1>5, <1>6, <1>7, BackendCases

\* Everything known so far about the engine and what it wrote.
WrittenInv == EngineInv /\ ObjectInv

LEMMA WrittenCorrect == Spec => []WrittenInv
<1>1. EngineInv /\ ObjectInv /\ [Next]_vars => ObjectInv'
  BY ObjectNext
<1> QED  BY <1>1, EngineCorrect, ObjectInit, PTL DEF Spec, WrittenInv

-----------------------------------------------------------------------------
(* What Restore starts from, and what it applies *)

\* The snapshot objects of a backend: stamped below n, each stamp once.
Catalogued(snaps, n) ==
    /\ snaps \subseteq Snapshots
    /\ \A s \in snaps : s.id < n /\ s.id # 0
    /\ \A s, t \in snaps : s.id = t.id => s = t

\* s is the newest object of snaps that is within T.
IsPicked(snaps, T, s) ==
    /\ s \in snaps /\ Within(s.id, T)
    /\ \A t \in snaps : Within(t.id, T) => t.id <= s.id

LEMMA PickedIsChosen ==
    ASSUME NEW n \in Nat, NEW snaps, Catalogued(snaps, n), NEW T, NEW s,
           IsPicked(snaps, T, s)
    PROVE  /\ PickGeneration(snaps, T) = s.id
           /\ s.id # 0
           /\ (CHOOSE t \in {u \in snaps : u.id = s.id} : TRUE) = s
<1> DEFINE ids == {t.id : t \in {u \in snaps : Within(u.id, T)}}
<1>1. \A t \in snaps : t.id \in Nat
    BY DEF Catalogued, Snapshots
<1>2. s.id \in ids /\ \A x \in ids : x <= s.id
    BY DEF IsPicked
<1>3. ids \in SUBSET Int /\ s.id \in Int /\ ids # {}
    BY <1>1, <1>2 DEF IsPicked
<1>4. PickGeneration(snaps, T) = Max(ids)
    BY <1>3 DEF PickGeneration
<1> HIDE DEF ids
<1>5. Max(ids) \in ids /\ \A x \in ids : x <= Max(ids)
    BY <1>2, <1>3, MaxIsGreatest
<1>6. Max(ids) = s.id
    <2>1. Max(ids) \in Int /\ s.id <= Max(ids) /\ Max(ids) <= s.id
        BY <1>2, <1>3, <1>5
    <2> QED  BY <1>3, <2>1
<1>7. {u \in snaps : u.id = s.id} = {s}
    BY DEF Catalogued, IsPicked
<1>8. s.id # 0
    BY DEF Catalogued, IsPicked
<1> QED  BY <1>4, <1>6, <1>7, <1>8

\* There is such an object unless no object is within T.
LEMMA PickedExists ==
    ASSUME NEW n \in Nat, NEW snaps, Catalogued(snaps, n), NEW T
    PROVE  \/ \A s \in snaps : ~Within(s.id, T)
           \/ \E s : IsPicked(snaps, T, s)
<1> DEFINE ids == {t.id : t \in {u \in snaps : Within(u.id, T)}}
<1> SUFFICES ASSUME ids # {} PROVE \E s : IsPicked(snaps, T, s)
    OBVIOUS
<1>1. ids \in SUBSET Int /\ n \in Int /\ \A x \in ids : x <= n
    BY DEF Catalogued, Snapshots
<1>2. PICK m \in ids : \A x \in ids : x <= m
    <2> HIDE DEF ids
    <2> QED  BY <1>1, GreatestInteger
<1>3. PICK s \in snaps : s.id = m /\ Within(s.id, T)
    OBVIOUS
<1> QED  BY <1>2, <1>3 DEF IsPicked

\* The segments that Restore applies to that object.
Applied(allSegs, s, T) == {g \in allSegs : g.gen = s.id /\ Within(g.ts, T)}

LEMMA RestoreOfPicked ==
    ASSUME NEW n \in Nat, NEW snaps, Catalogued(snaps, n), NEW T, NEW s,
           IsPicked(snaps, T, s), NEW allSegs
    PROVE  RestoreFrom(snaps, allSegs, T) =
             IF s.snap = NoSnap THEN Error
             ELSE RollForward(s.snap, Applied(allSegs, s, T))
                             [Indexes(Applied(allSegs, s, T))]
<1>1. /\ PickGeneration(snaps, T) = s.id
      /\ s.id # 0
      /\ (CHOOSE t \in {u \in snaps : u.id = s.id} : TRUE) = s
    BY PickedIsChosen
<1>2. RestoreFrom(snaps, allSegs, T) =
        LET gen    == s.id
            object == CHOOSE t \in {u \in snaps : u.id = gen} : TRUE
            segs   == {g \in allSegs : g.gen = gen /\ Within(g.ts, T)}
        IN  IF gen = 0 \/ object.snap = NoSnap
            THEN Error
            ELSE RollForward(object.snap, segs)[Indexes(segs)]
    BY <1>1 DEF RestoreFrom
<1> QED  BY <1>1, <1>2 DEF Applied

LEMMA RestoreOfNone ==
    ASSUME NEW n \in Nat, NEW snaps, Catalogued(snaps, n), NEW T,
           \A s \in snaps : ~Within(s.id, T), NEW allSegs
    PROVE  RestoreFrom(snaps, allSegs, T) = Error
<1>1. {t.id : t \in {u \in snaps : Within(u.id, T)}} = {}
    OBVIOUS
<1>2. PickGeneration(snaps, T) = 0
    BY <1>1 DEF PickGeneration
<1> QED  BY <1>2 DEF RestoreFrom

LEMMA AppliedBacked ==
    ASSUME NEW b \in Nat, NEW segs, Backed(segs, b)
    PROVE  /\ \A s, T : Backed(Applied(segs, s, T), b)
           /\ \A n : Backed(OfIndex(segs, n), b)
BY DEF Backed, Applied, OfIndex

-----------------------------------------------------------------------------
(* Nothing from the future *)

LEMMA WrittenNotFromTheFuture == WrittenInv => NothingFromTheFuture
<1> SUFFICES ASSUME WrittenInv, NEW T \in 1..now, Restore(T) > 0
             PROVE  commits[Restore(T)] <= T
    BY DEF NothingFromTheFuture
<1>1. /\ TypeOK /\ ObjectInv /\ StampsCover /\ now \in Nat
      /\ commits \in Seq(Nat) /\ Newest \in Nat
    BY DEF WrittenInv, EngineInv, TypeInv, TypeOK, StampInv, Newest
<1>2. Catalogued(snapshots, now)
    BY <1>1 DEF Catalogued, ObjectInv, TypeOK
<1>3. PICK b \in Nat : Backed(segments, b)
    BY <1>1 DEF ObjectInv
<1>4. CASE \A s \in snapshots : ~Within(s.id, T)
    BY <1>1, <1>2, <1>4, RestoreOfNone DEF Restore, Error
<1>5. ASSUME NEW s, IsPicked(snapshots, T, s)
      PROVE  commits[Restore(T)] <= T
    <2> DEFINE segs == Applied(segments, s, T)
               S == {Torn} \cup {k \in 0..Newest : k # 0 => commits[k] <= T}
    <2>1. Restore(T) = IF s.snap = NoSnap THEN Error
                       ELSE RollForward(s.snap, segs)[Indexes(segs)]
        BY <1>1, <1>2, <1>5, RestoreOfPicked DEF Restore
    <2>2. s.snap # NoSnap /\ Restore(T) = RollForward(s.snap, segs)[Indexes(segs)]
        BY <2>1 DEF Error
    <2>3. /\ s \in snapshots /\ s \in Snapshots /\ s.id \in Nat /\ s.snap \in Nat
          /\ s.id <= T
        BY <1>1, <1>5, <2>2 DEF IsPicked, Within, Zero, TypeOK, Snapshots
    <2>4. s.snap \in S
        <3>1. s.snap <= Newest /\ \A k \in 1..s.snap : commits[k] < s.id
            BY <1>1, <2>2, <2>3 DEF StampsCover, SnapshotCovered
        <3>2. s.snap # 0 => commits[s.snap] \in Nat /\ commits[s.snap] < s.id
            BY <1>1, <2>3, <3>1 DEF Newest
        <3> QED  BY <1>1, <2>3, <3>1, <3>2
    <2>5. ASSUME NEW g \in segs, NEW i \in 1..Len(g.data)
          PROVE  g.data[i].lsn \in S
        <3>1. g \in segments /\ g \in Segments /\ g.ts <= T /\ g.ts \in Nat
            BY <1>1, <1>3, SegmentFacts DEF Applied, Backed, Within, Zero
        <3>2. g.data[i] \in Units
            BY <3>1 DEF Segments
        <3>3. g.data[i].lsn \in Nat
            BY <3>2 DEF Units
        <3>4. g.data[i].lsn # 0 => /\ g.data[i].lsn <= Newest
                                   /\ commits[g.data[i].lsn] < g.ts
            BY <1>1, <3>1 DEF StampsCover, SegmentCovered
        <3>5. g.data[i].lsn # 0 => commits[g.data[i].lsn] \in Nat
            BY <1>1, <3>3, <3>4 DEF Newest
        <3> QED  BY <1>1, <3>1, <3>3, <3>4, <3>5
    <2>6. Torn \in S
        OBVIOUS
    <2>7. Backed(segs, b) /\ \A n : Backed(OfIndex(segs, n), b)
        BY <1>3, AppliedBacked
    <2>8. Restore(T) \in S
        <3> HIDE DEF S, segs
        <3>1. ASSUME NEW n \in Nat, NEW k \in S
              PROVE  ApplyWALIndex(k, OfIndex(segs, n)) \in S
            <4>1. OfIndex(segs, n) \subseteq segs
                BY DEF OfIndex
            <4> QED  BY <2>5, <2>6, <2>7, <3>1, <4>1, ApplyCases
        <3> QED  BY <2>2, <2>4, <2>7, <3>1, RollForwardKeeps
    <2> QED  BY <2>8 DEF Torn
<1> QED  BY <1>1, <1>2, <1>4, <1>5, PickedExists

\* Point-in-time restore never hands out a transaction that committed after the
\* time asked for, whatever uploads, deletions, local files and the process do:
\* sync and takeSnapshot read what they store before they take its stamp.
THEOREM NothingEverFromTheFuture == Spec => []NothingFromTheFuture
BY WrittenCorrect, WrittenNotFromTheFuture, PTL

-----------------------------------------------------------------------------
(* The past is stable *)

\* pruneLocked runs right behind the snapshot, which is the newest object.
PruneInv == pc = "prune" => \A s \in snapshots : s.id <= generation

LEMMA PruneNext == WrittenInv /\ PruneInv /\ [Next]_vars => PruneInv'
<1> SUFFICES ASSUME WrittenInv, PruneInv, [Next]_vars, pc' = "prune"
             PROVE  \A s \in snapshots' : s.id <= generation'
  BY DEF PruneInv
<1> USE DEF storeVars, positionVars, flightVars, alertVars, backendVars
<1>0. ASSUME NEW ok \in BOOLEAN, Finish(ok) PROVE FALSE
  BY <1>0 DEF Finish, NextPc
<1>1. CASE SnapWriteOk
  <2>1. /\ pc = "snapWrite" /\ generation' = snapshot.id
        /\ snapshots' = snapshots \cup {snapshot}
    BY <1>1 DEF SnapWriteOk, StartGeneration
  <2>2. /\ snapshots \subseteq Snapshots /\ snapshot \in Snapshots
        /\ \A s \in snapshots : s.id < snapshot.id
    BY <2>1 DEF WrittenInv, EngineInv, ObjectInv, TypeInv, TypeOK
  <2> QED  BY <2>1, <2>2 DEF Snapshots
<1>2. CASE Commit \/ Spill \/ UNCHANGED vars
  BY <1>2 DEF Commit, Spill, vars, PruneInv
<1>3. ~(\/ SyncReadFails \/ ShipFails \/ ShipLandsAnyway \/ Stat
        \/ SnapWriteFails \/ SnapWriteLeaves \/ Prune)
  BY <1>0 DEF SyncReadFails, ShipFails, ShipLandsAnyway, Stat,
       SnapWriteFails, SnapWriteLeaves, Prune
<1>4. ~(\/ SyncTick \/ FinalSync \/ ShipOk \/ Checkpoint \/ SnapRead)
  BY <1>0 DEF SyncTick, FinalSync, SyncScan, SyncScanFails, ShipOk,
       MaybeCheckpoint, Checkpoint, SnapRead
<1>5. ~(\/ SyncRead \/ SnapTick \/ SnapRetry \/ SnapCheckpoint \/ Open \/ Stop
        \/ CloseStore \/ Crash)
  BY DEF SyncRead, SnapTick, SnapRetry, BeginSnapshot, SnapCheckpoint, Open,
       Stop, CloseStore, Crash
<1> QED  BY <1>1, <1>2, <1>3, <1>4, <1>5 DEF Next, EngineStep, StayDown

\* Restore to T looks at nothing but the objects within T.
LEMMA RestoreDepends ==
    ASSUME NEW T, NEW n \in Nat, NEW A, Catalogued(A, n),
           NEW m \in Nat, NEW B, Catalogued(B, m), NEW X, NEW Y,
           \A s : Within(s.id, T) => (s \in A <=> s \in B),
           \A g : Within(g.ts, T) => (g \in X <=> g \in Y)
    PROVE  RestoreFrom(A, X, T) = RestoreFrom(B, Y, T)
<1>1. CASE \A s \in A : ~Within(s.id, T)
    <2>1. \A s \in B : ~Within(s.id, T)
        BY <1>1
    <2> QED  BY <1>1, <2>1, RestoreOfNone
<1>2. ASSUME NEW s, IsPicked(A, T, s)
      PROVE  RestoreFrom(A, X, T) = RestoreFrom(B, Y, T)
    <2>1. IsPicked(B, T, s)
        BY <1>2 DEF IsPicked
    <2>2. Applied(X, s, T) = Applied(Y, s, T)
        BY DEF Applied
    <2>3. /\ RestoreFrom(A, X, T) = IF s.snap = NoSnap THEN Error
               ELSE RollForward(s.snap, Applied(X, s, T))[Indexes(Applied(X, s, T))]
          /\ RestoreFrom(B, Y, T) = IF s.snap = NoSnap THEN Error
               ELSE RollForward(s.snap, Applied(Y, s, T))[Indexes(Applied(Y, s, T))]
        BY <1>2, <2>1, RestoreOfPicked
    <2> QED  BY <2>2, <2>3
<1> QED  BY <1>1, <1>2, PickedExists

LEMMA WrittenCatalogued ==
    ASSUME WrittenInv
    PROVE  now \in Nat /\ Catalogued(snapshots, now)
BY DEF WrittenInv, EngineInv, TypeInv, TypeOK, Catalogued, ObjectInv

\* A prune makes Restore to T report an error, or leaves what it looks at alone.
LEMMA PruneKeepsPast ==
    ASSUME WrittenInv, WrittenInv', PruneInv, Prune, "kept" \notin PruneOutcomes,
           NEW T \in 1..now
    PROVE  RestoreNext(T) \in {Restore(T), Error}
<1>1. /\ now \in Nat /\ Catalogued(snapshots, now)
      /\ now' \in Nat /\ Catalogued(snapshots', now')
    <2>1. now \in Nat /\ Catalogued(snapshots, now)
        BY WrittenCatalogued
    <2>2. now' \in Nat /\ Catalogued(snapshots', now')
        BY DEF WrittenInv, EngineInv, TypeInv, TypeOK, Catalogued, ObjectInv
    <2> QED  BY <2>1, <2>2
<1>2. /\ \A s \in snapshots : s.id \in Nat
      /\ \A s, t \in snapshots : s.id = t.id => s = t
      /\ generation \in Nat /\ EffectiveRetention \in Int
    BY <1>1, ConfigAssumption DEF Catalogued, Snapshots, WrittenInv, EngineInv,
       TypeInv, TypeOK, EffectiveRetention, ConfigAssumption
<1>3. CASE EffectiveRetention <= 0
    BY <1>3 DEF Prune, backendVars, Restore, RestoreNext
<1>4. CASE ~(EffectiveRetention <= 0)
    <2>1. PICK fate \in [{s.id : s \in {t \in snapshots : Prunable(t)}}
                           -> PruneOutcomes] :
            /\ snapshots' =
                 {s \in snapshots : Prunable(s) => fate[s.id] = "kept"}
                   \cup {[id |-> s.id, snap |-> NoSnap] : s \in
                           {t \in snapshots : /\ Prunable(t)
                                              /\ fate[t.id] = "partial"}}
            /\ segments' =
                 {g \in segments : g.gen \in DOMAIN fate
                                     => fate[g.gen] # "deleted"}
        BY <1>4 DEF Prune
    <2>2. /\ \A s \in snapshots : ~Prunable(s) => s \in snapshots'
          /\ \A s \in snapshots' :
                \/ s \in snapshots /\ ~Prunable(s)
                \/ s.snap = NoSnap /\ \E t \in snapshots : s.id = t.id /\ Prunable(t)
          /\ \A g \in segments :
                (\A t \in snapshots : Prunable(t) => t.id # g.gen) => g \in segments'
          /\ segments' \subseteq segments
        BY <2>1
    <2>3. CASE \A s \in snapshots : ~Within(s.id, T)
        <3>1. \A s \in snapshots' : ~Within(s.id, T)
            BY <2>2, <2>3
        <3> QED  BY <1>1, <3>1, RestoreOfNone DEF RestoreNext
    <2>4. ASSUME NEW s, IsPicked(snapshots, T, s), Prunable(s)
          PROVE  RestoreNext(T) = Error
        <3>1. \A t \in snapshots : Within(t.id, T) => Prunable(t)
            <4>1. \A t \in snapshots : Within(t.id, T) => t.id <= s.id
                BY <2>4 DEF IsPicked
            <4>2. s \in snapshots /\ s.id <= generation
                BY <2>4 DEF IsPicked, PruneInv, Prune
            <4> QED  BY <1>1, <1>2, <2>4, <4>1, <4>2 DEF Prunable
        <3>2. ASSUME NEW u, IsPicked(snapshots', T, u)
              PROVE  u.snap = NoSnap
            BY <2>2, <3>1, <3>2 DEF IsPicked
        <3>3. CASE \A t \in snapshots' : ~Within(t.id, T)
            BY <1>1, <3>3, RestoreOfNone DEF RestoreNext
        <3>4. ASSUME NEW u, IsPicked(snapshots', T, u)
              PROVE  RestoreNext(T) = Error
            <4>1. u.snap = NoSnap
                BY <3>2, <3>4
            <4> QED  BY <1>1, <3>4, <4>1, RestoreOfPicked DEF RestoreNext
        <3> QED  BY <1>1, <3>3, <3>4, PickedExists
    <2>5. ASSUME NEW s, IsPicked(snapshots, T, s), ~Prunable(s)
          PROVE  RestoreNext(T) = Restore(T)
        <3>1. IsPicked(snapshots', T, s)
            BY <2>2, <2>5 DEF IsPicked
        <3>2. Applied(segments', s, T) = Applied(segments, s, T)
            <4>1. \A t \in snapshots : Prunable(t) => t.id # s.id
                BY <1>2, <2>5 DEF IsPicked
            <4> QED  BY <2>2, <4>1 DEF Applied
        <3>3. /\ RestoreFrom(snapshots, segments, T) = IF s.snap = NoSnap THEN Error
                 ELSE RollForward(s.snap, Applied(segments, s, T))
                                 [Indexes(Applied(segments, s, T))]
              /\ RestoreFrom(snapshots', segments', T) = IF s.snap = NoSnap THEN Error
                 ELSE RollForward(s.snap, Applied(segments', s, T))
                                 [Indexes(Applied(segments', s, T))]
            BY <1>1, <2>5, <3>1, RestoreOfPicked
        <3> QED  BY <3>2, <3>3 DEF Restore, RestoreNext
    <2> QED  BY <1>1, <2>3, <2>4, <2>5, PickedExists
<1> QED  BY <1>3, <1>4

LEMMA StepKeepsPast ==
    ASSUME WrittenInv, WrittenInv', PruneInv, [Next]_vars,
           "kept" \notin PruneOutcomes, NEW T \in 1..now, Settled(T)
    PROVE  RestoreNext(T) \in {Restore(T), Error}
<1>1. /\ now \in Nat /\ Catalogued(snapshots, now) /\ TypeInv
      /\ snapshot.id \in Nat /\ segment.ts \in Nat
    BY WrittenCatalogued, SegmentFacts DEF WrittenInv, EngineInv, TypeInv, TypeOK, Snapshots
<1>2. now' \in Nat /\ Catalogued(snapshots', now')
    BY DEF WrittenInv, EngineInv, TypeInv, TypeOK, Catalogued, ObjectInv
<1>3. CASE Prune
    BY <1>3, PruneKeepsPast
<1>4. ASSUME \A s : Within(s.id, T) => (s \in snapshots <=> s \in snapshots'),
             \A g : Within(g.ts, T) => (g \in segments <=> g \in segments')
      PROVE  RestoreNext(T) = Restore(T)
    BY <1>1, <1>2, <1>4, RestoreDepends DEF Restore, RestoreNext
<1>5. CASE BackendStays
    BY <1>4, <1>5 DEF BackendStays
<1>6. CASE SegmentLands
    <2>1. ~Within(segment.ts, T)
        BY <1>1, <1>6 DEF SegmentLands, Settled, Within, Zero
    <2> QED  BY <1>4, <1>6, <2>1 DEF SegmentLands
<1>7. CASE SnapshotLands
    <2>1. ~Within(snapshot.id, T) /\ Hollow.id = snapshot.id
        BY <1>1, <1>7 DEF SnapshotLands, Settled, Within, Zero, Hollow
    <2> QED  BY <1>4, <1>7, <2>1 DEF SnapshotLands
<1> QED  BY <1>1, <1>3, <1>5, <1>6, <1>7, BackendCases

\* What a point-in-time restore gives for a time at which everything has landed,
\* it gives for ever, until retention takes it away: objects that land later
\* bear later stamps, and pruneLocked deletes a generation only together with
\* all older ones.  That holds where no deletion fails and leaves all it was to
\* delete; the run divergence_past shows what happens else.
THEOREM PastStaysStable == "kept" \notin PruneOutcomes /\ Spec => PastIsStable
<1> SUFFICES ASSUME "kept" \notin PruneOutcomes PROVE Spec => PastIsStable
    OBVIOUS
<1>1. Init => PruneInv
    BY DEF Init, PruneInv
<1>2. Spec => []PruneInv
    BY <1>1, PruneNext, WrittenCorrect, PTL DEF Spec
<1>3. /\ WrittenInv /\ WrittenInv' /\ PruneInv /\ [Next]_vars
      => [\A T \in 1..now : Settled(T) => RestoreNext(T) \in {Restore(T), Error}]_vars
    BY StepKeepsPast
<1> QED  BY <1>2, <1>3, WrittenCorrect, PTL DEF Spec, PastIsStable

-----------------------------------------------------------------------------
(* The WAL file *)

\* The transaction before the first one in the WAL.
Base == IF wal = <<>> THEN Newest ELSE Newest - CommittedSize(wal) + 1

\* The WAL holds the newest transactions, one after the other behind its header;
\* what it lacks is in the main file.  Stale units bear salts of former cycles.
WalInv ==
    /\ wal = <<>> => main = Newest
    /\ Base <= main /\ main <= Newest /\ Base >= 0
    /\ wal # <<>> =>
          /\ wal[1].lsn = 0 /\ wal[1].cycle <= cycle
          /\ \A p \in 2..CommittedSize(wal) : wal[p].lsn = Base + p - 1
          /\ \A p \in CommittedSize(wal) + 1..Len(wal) : wal[p].cycle < wal[1].cycle

-----------------------------------------------------------------------------
(* Restore gives a prefix *)

\* Objects land when their call says so, or when the process dies during it;
\* local files can be read; and nobody writes while sync is about to fold.
Reliable ==
    /\ SegmentOutcomes \subseteq {"ok", "fail"}
    /\ SnapshotOutcomes \subseteq {"ok"}
    /\ ~LocalErrors
    /\ QuietCheckpoints

\* Of a segment: how much of it the scan accepts where it comes first, whether
\* there is a transaction up to there, the last one, and the one before the
\* first one of its WAL.
Good(s) == CommittedSize(s.data)
HasCommits(s) == s.offset + Good(s) >= 2
Top(s) == s.data[Good(s)].lsn
BaseOf(s) == Top(s) - (s.offset + Good(s)) + 1

SameIndex(s, t) == s.gen = t.gen /\ s.index = t.index

\* Units i of s and j of t are of one run of the WAL.
SameLog(s, i, t, j) ==
    /\ s.data[i].cycle = t.data[j].cycle
    /\ s.offset + i >= 2 /\ t.offset + j >= 2
         => s.data[i].lsn - (s.offset + i) = t.data[j].lsn - (t.offset + j)

\* Segments that fit: the units of an index are of one run of the WAL and have
\* no gaps, and what was stamped later continues what was stamped before.
Chained(X) ==
    \A s \in X :
        /\ \A i \in 1..Good(s) : s.offset + i >= 2 => s.data[i].lsn = Top(s) + i - Good(s)
        /\ s.offset # 0 => \E t \in X : SameIndex(s, t) /\ EndOf(t) = s.offset /\ t.ts < s.ts
        /\ \A t \in X : SameIndex(s, t) /\ s # t =>
              \A i \in 1..Len(s.data), j \in 1..Len(t.data) : SameLog(s, i, t, j)
        /\ \A t \in X : t.gen = s.gen /\ t.ts = s.ts => t = s
        /\ \A t \in X : t.gen = s.gen /\ t.ts < s.ts =>
              /\ t.index < s.index \/ (t.index = s.index /\ EndOf(t) <= s.offset)
              /\ HasCommits(t) /\ HasCommits(s) => Top(t) <= Top(s)

\* Transaction k is in the snapshot, or in a segment of an index below n.
Covered(X, o, k, n) ==
    \/ k <= o.snap
    \/ \E t \in X : t.gen = o.id /\ t.index < n /\ HasCommits(t) /\ k <= Top(t)

\* An index goes on where those before it ended.
Founded(X, snaps) ==
    \A o \in snaps, s \in X : o.id = s.gen /\ o.snap # NoSnap /\ HasCommits(s) =>
        o.snap <= Top(s) /\ Covered(X, o, BaseOf(s), s.index)

\* The segments in the backend and the one on its way there.
Objects == segments \cup {s \in {segment} : pc = "ship"}

\* The engine follows the WAL, and not the making of a new generation.
Live == generation # 0 /\ pc \notin {"snapCheckpoint", "snapRead", "snapWrite"}

\* The WAL is the one of which the engine has shipped up to walOffset.
Aligned == wal # <<>> /\ wal[1].cycle = salt

\* The snapshot of the current generation, and its segments.
Current(o) == o \in snapshots /\ o.id = generation /\ o.snap # NoSnap
OfGeneration == {s \in segments : s.gen = generation}

\* Where the engine is in the WAL, whatever its next step.
FollowInv ==
    Live =>
    /\ salt <= cycle
    /\ walOffset > 0 => \E t \in OfGeneration : t.index = walIndex /\ EndOf(t) = walOffset
    /\ walOffset > 0 /\ Aligned =>
          /\ walOffset <= CommittedSize(wal) /\ main <= Base + walOffset - 1
          /\ \A t \in OfGeneration : t.index = walIndex =>
                \A i \in 1..Len(t.data) : t.data[i] = wal[t.offset + i]
          /\ \A o \in snapshots : Current(o) => Covered(segments, o, Base, walIndex)
    /\ walOffset > 0 /\ ~Aligned => main = Base
    /\ walOffset = 0 /\ walIndex > 0 => main = Base
    /\ walOffset = 0 /\ walIndex = 0 => \A o \in snapshots : Current(o) => main = o.snap
    /\ \A o \in snapshots : Current(o) =>
          Covered(segments, o, main, IF walOffset = 0 THEN walIndex ELSE walIndex + 1)

\* The same at a given step of sync.
AtRead ==
    pc = "read" =>
    /\ wal # <<>>
    /\ Aligned =>
          /\ committed <= CommittedSize(wal)
          /\ \A t \in OfGeneration : HasCommits(t) => Top(t) <= Base + committed - 1
          /\ \A o \in snapshots : Current(o) => o.snap <= Base + committed - 1
    /\ ~Aligned => walOffset = 0 /\ walIndex = 0 /\ main = Base

AtShip ==
    pc = "ship" =>
    /\ wal # <<>>
    /\ Aligned =>
          /\ committed <= CommittedSize(wal) /\ main <= Base + committed - 1
          /\ \A i \in 1..Len(segment.data) : segment.data[i] = wal[walOffset + i]
    /\ ~Aligned => main = Base

AtCheckpoint ==
    /\ pc = "checkpoint" =>
          /\ Aligned /\ committed = CommittedSize(wal)
          /\ walOffset = committed /\ committed >= CheckpointThreshold
    /\ pc \in {"read", "ship"} /\ committed >= CheckpointThreshold =>
          Aligned /\ committed = CommittedSize(wal)

AtSnapshot ==
    /\ pc = "snapWrite" => snapshot.snap = main
    /\ pc \notin {"down", "snapCheckpoint", "snapRead", "snapWrite"} => generation # 0
    /\ Live => \A s \in snapshots : s.id <= generation

ChainInv ==
    /\ Chained(Objects) /\ Founded(Objects, snapshots)
    /\ FollowInv /\ AtRead /\ AtShip /\ AtCheckpoint /\ AtSnapshot

-----------------------------------------------------------------------------
(* One index of a chain *)

LEMMA CommittedSizeIs ==
    ASSUME NEW w \in Seq(Units), NEW n \in 0..Len(w),
           \A p \in 1..n : w[p].cycle = w[1].cycle,
           n < Len(w) => w[n + 1].cycle # w[1].cycle
    PROVE  CommittedSize(w) = n
<1> DEFINE S == {i \in 1..Len(w) : \A j \in 1..i : w[j].cycle = w[1].cycle}
<1>1. Len(w) \in Nat
    OBVIOUS
<1>2. ASSUME NEW i \in S PROVE i \in 1..n
    <2>1. CASE i <= n
        BY <1>1, <2>1
    <2>2. CASE n < i
        <3>1. n < Len(w) /\ n + 1 \in 1..i
            BY <1>1, <2>2
        <3> QED  BY <3>1
    <2> QED  BY <1>1, <2>1, <2>2
<1>3. 1..n \subseteq S
    BY <1>1
<1>4. S = 1..n
    <2> HIDE DEF S
    <2> QED  BY <1>2, <1>3
<1>5. Cardinality(1..n) = n
    BY FS_Interval, SMT
<1> QED  BY <1>4, <1>5 DEF CommittedSize

LEMMA CommittedPrefix ==
    ASSUME NEW w \in Seq(Units)
    PROVE  /\ CommittedSize(w) \in 0..Len(w)
           /\ \A p \in 1..CommittedSize(w) : w[p].cycle = w[1].cycle
           /\ CommittedSize(w) < Len(w) => w[CommittedSize(w) + 1].cycle # w[1].cycle
           /\ Len(w) > 0 => CommittedSize(w) >= 1
<1> DEFINE M == {p \in 1..Len(w) : w[p].cycle # w[1].cycle}
<1>1. Len(w) \in Nat
    OBVIOUS
<1>2. \E n \in 0..Len(w) : /\ \A p \in 1..n : w[p].cycle = w[1].cycle
                           /\ n < Len(w) => w[n + 1].cycle # w[1].cycle
    <2>1. CASE M = {}
        <3>1. Len(w) \in 0..Len(w) /\ ~(Len(w) < Len(w))
            BY <1>1
        <3>2. \A p \in 1..Len(w) : w[p].cycle = w[1].cycle
            BY <2>1
        <3> QED  BY <3>1, <3>2
    <2>2. CASE M # {}
        <3>1. M \in SUBSET Nat
            BY <1>1
        <3>2. PICK m \in M : \A k \in M : m <= k
            <4> HIDE DEF M
            <4> QED  BY <2>2, <3>1, LeastNatural
        <3>3. m \in 1..Len(w) /\ w[m].cycle # w[1].cycle /\ m - 1 \in 0..Len(w)
            BY <1>1, <3>2
        <3>4. \A p \in 1..m - 1 : w[p].cycle = w[1].cycle
            <4>1. \A p \in 1..m - 1 : p \in 1..Len(w) /\ ~(m <= p)
                BY <1>1, <3>3
            <4> QED  BY <3>2, <4>1
        <3>5. (m - 1) + 1 = m
            BY <3>3
        <3> QED  BY <3>3, <3>4, <3>5
    <2> QED  BY <2>1, <2>2
<1>3. PICK n \in 0..Len(w) : /\ \A p \in 1..n : w[p].cycle = w[1].cycle
                             /\ n < Len(w) => w[n + 1].cycle # w[1].cycle
    BY <1>2
<1>4. CommittedSize(w) = n
    BY <1>3, CommittedSizeIs
<1>5. Len(w) > 0 => n >= 1
    BY <1>1, <1>3
<1> QED  BY <1>3, <1>4, <1>5

\* What the provers need to know of a segment of a chain.
LEMMA ChainFacts ==
    ASSUME NEW b \in Nat, NEW X, Backed(X, b), NEW s \in X
    PROVE  /\ s \in Segments /\ s.gen \in Nat /\ s.index \in Nat /\ s.offset \in Nat
           /\ s.ts \in Nat /\ s.data \in Seq(Units) /\ Len(s.data) \in Nat
           /\ EndOf(s) = s.offset + Len(s.data) /\ EndOf(s) \in Nat
           /\ s.offset < EndOf(s)
           /\ Good(s) \in 1..Len(s.data) /\ Top(s) \in Nat
           /\ \A i \in 1..Len(s.data) : s.data[i].lsn \in Nat /\ s.data[i].cycle \in Nat
<1>1. s \in Segments /\ Len(s.data) > 0
    BY DEF Backed
<1>2. Good(s) \in 1..Len(s.data)
    <2>1. /\ CommittedSize(s.data) \in 0..Len(s.data) /\ s.data \in Seq(Units)
          /\ CommittedSize(s.data) >= 1
        BY <1>1, SegmentFacts, CommittedPrefix
    <2> QED  BY <2>1 DEF Good
<1>3. \A i \in 1..Len(s.data) : s.data[i].lsn \in Nat /\ s.data[i].cycle \in Nat
    <2>1. \A i \in 1..Len(s.data) : s.data[i] \in Units
        BY <1>1, SegmentFacts
    <2> QED  BY <2>1 DEF Units
<1> QED  BY <1>1, <1>2, <1>3, SegmentFacts DEF Top

\* The order of two segments of a chain.
LEMMA ChainOrder ==
    ASSUME NEW X, Chained(X), NEW s \in X, NEW t \in X, t.gen = s.gen
    PROVE  /\ t.ts = s.ts => t = s
           /\ t.ts < s.ts =>
                 /\ t.index < s.index \/ (t.index = s.index /\ EndOf(t) <= s.offset)
                 /\ HasCommits(t) /\ HasCommits(s) => Top(t) <= Top(s)
BY DEF Chained

\* The segments of one index of a generation all belong to its run.
LEMMA IndexIsRun ==
    ASSUME NEW b \in Nat, NEW X, Backed(X, b), Chained(X),
           \A s, t \in X : s.gen = t.gen, NEW n
    PROVE  ContiguousRun(OfIndex(X, n)) = OfIndex(X, n)
<1> DEFINE F == OfIndex(X, n)
<1>1. \A s \in X : /\ s.offset \in Nat /\ s.ts \in Nat /\ EndOf(s) \in Nat
                   /\ s.offset < EndOf(s) /\ s.index \in Nat
    BY ChainFacts
<1> SUFFICES ASSUME NEW s \in F PROVE Joins(F, s)
    BY DEF ContiguousRun
<1>2. s \in X /\ s.index = n
    BY DEF OfIndex
<1>3. ASSUME NEW t \in F, ByOffset(t, s) PROVE EndOf(t) <= s.offset
    <2>1. t \in X /\ t.index = n /\ SameIndex(s, t) /\ t # s
        BY <1>1, <1>2, <1>3 DEF OfIndex, SameIndex, ByOffset
    <2>2. t.ts < s.ts => t.index < s.index \/ EndOf(t) <= s.offset
        BY <1>2, <2>1, ChainOrder DEF SameIndex
    <2>3. s.ts < t.ts => s.index < t.index \/ EndOf(s) <= t.offset
        BY <1>2, <2>1, ChainOrder DEF SameIndex
    <2>4. s.ts # t.ts
        BY <1>2, <2>1, ChainOrder DEF SameIndex
    <2>5. ~(t.index < s.index) /\ ~(s.index < t.index)
        BY <1>1, <1>2, <2>1
    <2> QED  BY <1>1, <1>2, <1>3, <2>1, <2>2, <2>3, <2>4, <2>5 DEF ByOffset
<1>4. ASSUME s.offset # 0
      PROVE  \E t \in F : ByOffset(t, s) /\ EndOf(t) = s.offset
    <2>1. PICK t \in X : SameIndex(s, t) /\ EndOf(t) = s.offset
        BY <1>2, <1>4 DEF Chained
    <2>2. t \in F /\ t.offset < s.offset
        BY <1>1, <1>2, <2>1 DEF OfIndex, SameIndex
    <2> QED  BY <2>1, <2>2 DEF ByOffset
<1> QED  BY <1>3, <1>4 DEF Joins

\* Where an index has several segments, they are wholly of one run of the WAL.
LEMMA SeveralAreClean ==
    ASSUME NEW b \in Nat, NEW X, Backed(X, b), Chained(X), NEW s \in X, NEW u \in X,
           SameIndex(s, u), s # u
    PROVE  /\ Good(s) = Len(s.data)
           /\ \A i, j \in 1..Len(s.data) : s.data[i].cycle = s.data[j].cycle
<1>1. /\ s.data \in Seq(Units) /\ Len(s.data) \in Nat /\ Good(s) \in 1..Len(s.data)
      /\ u.data \in Seq(Units) /\ Len(u.data) \in Nat /\ Good(u) \in 1..Len(u.data)
    BY ChainFacts
<1>2. \A i \in 1..Len(s.data) : s.data[i].cycle = u.data[1].cycle
    BY <1>1 DEF Chained, SameLog
<1>3. \A i, j \in 1..Len(s.data) : s.data[i].cycle = s.data[j].cycle
    BY <1>2
<1>4. /\ Len(s.data) \in 0..Len(s.data) /\ 1 \in 1..Len(s.data)
      /\ ~(Len(s.data) < Len(s.data))
    BY <1>1
<1>5. CommittedSize(s.data) = Len(s.data)
    BY <1>1, <1>3, <1>4, CommittedSizeIs
<1> QED  BY <1>3, <1>5 DEF Good

\* s is the last segment of index n.
IsLast(X, n, s) ==
    /\ s \in X /\ s.index = n
    /\ \A t \in X : t.index = n => EndOf(t) <= EndOf(s)

\* The others of its index were stamped before it, and end where it begins or before.
LEMMA BeforeLast ==
    ASSUME NEW b \in Nat, NEW X, Backed(X, b), Chained(X),
           \A s, t \in X : s.gen = t.gen, NEW n, NEW s, IsLast(X, n, s),
           NEW t \in X, t.index = n, t # s
    PROVE  t.ts < s.ts /\ EndOf(t) <= s.offset
<1>1. /\ s \in X /\ s.index = n /\ t.gen = s.gen /\ s.gen = t.gen
      /\ EndOf(t) <= EndOf(s)
    BY DEF IsLast
<1>2. /\ s.index \in Nat /\ s.offset \in Nat /\ EndOf(s) \in Nat /\ s.ts \in Nat
      /\ t.index \in Nat /\ t.offset \in Nat /\ EndOf(t) \in Nat /\ t.ts \in Nat
      /\ s.offset < EndOf(s) /\ t.offset < EndOf(t)
    BY <1>1, ChainFacts
<1>3. /\ t.ts # s.ts
      /\ t.ts < s.ts => t.index < s.index \/ (t.index = s.index /\ EndOf(t) <= s.offset)
      /\ s.ts < t.ts => s.index < t.index \/ (t.index = s.index /\ EndOf(s) <= t.offset)
    BY <1>1, ChainOrder
<1>4. ~(s.ts < t.ts)
    BY <1>1, <1>2, <1>3
<1> QED  BY <1>1, <1>2, <1>3, <1>4

\* What SQLite finds in the file of an index: everything up to the end of what the
\* scan accepts of the last segment.
LEMMA FileOfIndex ==
    ASSUME NEW b \in Nat, NEW X, Backed(X, b), Chained(X),
           \A s, t \in X : s.gen = t.gen, NEW n, NEW s, IsLast(X, n, s)
    PROVE  LET f == WALFile(ContiguousRun(OfIndex(X, n)))
               size == s.offset + Good(s)
           IN  /\ CommittedSize(f) = size
               /\ f[size].lsn = Top(s)
               /\ size >= 2 => f[2].lsn = BaseOf(s) + 1
<1> DEFINE F == OfIndex(X, n)
           f == WALFile(ContiguousRun(F))
           size == s.offset + Good(s)
<1>1. ContiguousRun(F) = F /\ Backed(F, b)
    BY IndexIsRun, AppliedBacked
<1>2. /\ f \in Seq(Units)
      /\ \A t \in F : EndOf(t) <= Len(f)
      /\ Len(f) # 0 => \E t \in F : EndOf(t) = Len(f)
      /\ \A p \in 1..Len(f) :
            \E t \in F : /\ p \in Extent(t) /\ p - t.offset \in 1..Len(t.data)
                         /\ f[p] = t.data[p - t.offset]
    BY <1>1, FileIsSequence
<1>3. \A t \in F : t \in X /\ t.index = n /\ EndOf(t) <= EndOf(s)
    BY DEF OfIndex, IsLast
<1>4. s \in F /\ s \in X /\ s.index = n
    BY DEF OfIndex, IsLast
<1>5. \A t \in X : /\ t.offset \in Nat /\ EndOf(t) \in Nat /\ t.offset < EndOf(t)
                   /\ EndOf(t) = t.offset + Len(t.data) /\ Len(t.data) \in Nat
                   /\ t.data \in Seq(Units) /\ Good(t) \in 1..Len(t.data) /\ Top(t) \in Nat
                   /\ \A i \in 1..Len(t.data) : t.data[i].lsn \in Nat
    BY ChainFacts
<1> HIDE DEF f, F
<1>6. Len(f) = EndOf(s) /\ Len(f) \in Nat
    <2>1. Len(f) \in Nat /\ EndOf(s) \in Nat /\ EndOf(s) <= Len(f) /\ EndOf(s) # 0
        BY <1>2, <1>4, <1>5
    <2>2. PICK t \in F : EndOf(t) = Len(f)
        BY <1>2, <2>1
    <2>3. EndOf(t) <= EndOf(s)
        BY <1>3, <2>2
    <2> QED  BY <2>1, <2>2, <2>3
<1>7. \A t \in F : t # s => EndOf(t) <= s.offset
    BY <1>3, BeforeLast
<1>8. \A p \in 1..Len(f) : p > s.offset => f[p] = s.data[p - s.offset]
    <2> SUFFICES ASSUME NEW p \in 1..Len(f), p > s.offset
                 PROVE  f[p] = s.data[p - s.offset]
        OBVIOUS
    <2>1. PICK t \in F : p \in Extent(t) /\ f[p] = t.data[p - t.offset]
        BY <1>2
    <2>2. t = s
        <3>1. p <= EndOf(t)
            BY <1>3, <1>5, <2>1 DEF Extent
        <3> QED  BY <1>3, <1>4, <1>5, <1>7, <3>1
    <2> QED  BY <2>1, <2>2
<1>9. size \in 1..Len(f) /\ size > s.offset /\ size - s.offset = Good(s)
    BY <1>4, <1>5, <1>6
<1>10. f[size].lsn = Top(s)
    BY <1>8, <1>9 DEF Top
<1>11. CASE F = {s}
    <2>1. s.offset = 0
        <3> SUFFICES ASSUME s.offset # 0 PROVE FALSE
            OBVIOUS
        <3>1. PICK t \in X : SameIndex(s, t) /\ EndOf(t) = s.offset
            BY <1>4 DEF Chained
        <3>2. t \in F
            BY <1>4, <3>1 DEF SameIndex, F, OfIndex
        <3> QED  BY <1>4, <1>5, <1>11, <3>1, <3>2
    <2>2. /\ size = Good(s) /\ Len(f) = Len(s.data)
          /\ \A p \in 1..Len(f) : p > s.offset /\ p - s.offset = p
        BY <1>4, <1>5, <1>6, <2>1
    <2>3. \A p \in 1..Len(f) : f[p] = s.data[p]
        BY <1>8, <2>2
    <2>4. /\ Good(s) \in 0..Len(s.data)
          /\ \A p \in 1..Good(s) : s.data[p].cycle = s.data[1].cycle
          /\ Good(s) < Len(s.data) => s.data[Good(s) + 1].cycle # s.data[1].cycle
        BY <1>4, <1>5, CommittedPrefix DEF Good
    <2>5. CommittedSize(f) = size
        <3>1. /\ size \in 0..Len(f)
              /\ \A p \in 1..size : p \in 1..Len(f) /\ 1 \in 1..Len(f)
              /\ size < Len(f) => size + 1 \in 1..Len(f)
            BY <1>6, <1>9
        <3>2. \A p \in 1..size : f[p].cycle = f[1].cycle
            BY <2>2, <2>3, <2>4, <3>1
        <3>3. size < Len(f) => f[size + 1].cycle # f[1].cycle
            BY <1>9, <2>2, <2>3, <2>4, <3>1
        <3> HIDE DEF size
        <3> QED  BY <1>2, <3>1, <3>2, <3>3, CommittedSizeIs
    <2>6. ASSUME size >= 2 PROVE f[2].lsn = BaseOf(s) + 1
        <3>1. 2 \in 1..Len(f) /\ 2 \in 1..Good(s) /\ s.offset + 2 >= 2
            BY <1>4, <1>5, <1>9, <2>1, <2>2, <2>6
        <3>2. s.data[2].lsn = Top(s) + 2 - Good(s)
            BY <1>4, <3>1 DEF Chained
        <3>3. f[2].lsn = Top(s) + 2 - Good(s)
            BY <2>3, <3>1, <3>2
        <3>4. Top(s) \in Nat /\ Good(s) \in Nat
            BY <1>4, <1>5
        <3>5. Top(s) + 2 - Good(s) = Top(s) - (0 + Good(s)) + 1 + 1
            BY <3>4
        <3> QED  BY <2>1, <3>3, <3>5 DEF BaseOf
    <2> QED  BY <1>10, <2>5, <2>6 DEF f, F
<1>12. CASE F # {s}
    <2>1. PICK u \in F : u # s
        BY <1>4, <1>12
    <2>2. \A t, v \in F : SameIndex(t, v)
        BY <1>3 DEF SameIndex
    <2>3. \A t \in F : /\ Good(t) = Len(t.data)
                       /\ \A i, j \in 1..Len(t.data) : t.data[i].cycle = t.data[j].cycle
        BY <1>3, <1>4, <2>1, <2>2, SeveralAreClean
    <2>4. \A t, v \in F : t # v =>
             \A i \in 1..Len(t.data), j \in 1..Len(v.data) : SameLog(t, i, v, j)
        BY <1>3, <2>2 DEF Chained
    <2>5. size = Len(f)
        BY <1>4, <1>5, <1>6, <2>3
    <2>6. \A p, q \in 1..Len(f) : f[p].cycle = f[q].cycle
        <3> SUFFICES ASSUME NEW p \in 1..Len(f), NEW q \in 1..Len(f)
                     PROVE  f[p].cycle = f[q].cycle
            OBVIOUS
        <3>1. PICK t \in F : /\ p - t.offset \in 1..Len(t.data)
                             /\ f[p] = t.data[p - t.offset]
            BY <1>2
        <3>2. PICK v \in F : /\ q - v.offset \in 1..Len(v.data)
                             /\ f[q] = v.data[q - v.offset]
            BY <1>2
        <3>3. CASE t = v
            BY <2>3, <3>1, <3>2, <3>3
        <3>4. CASE t # v
            BY <2>4, <3>1, <3>2, <3>4 DEF SameLog
        <3> QED  BY <3>3, <3>4
    <2>7. CommittedSize(f) = size
        <3>1. Len(f) \in 0..Len(f) /\ ~(Len(f) < Len(f)) /\ 1 \in 1..Len(f)
            BY <1>6, <1>9
        <3> QED  BY <1>2, <2>5, <2>6, <3>1, CommittedSizeIs
    <2>8. ASSUME size >= 2 PROVE f[2].lsn = BaseOf(s) + 1
        <3>1. 2 \in 1..Len(f)
            BY <1>6, <2>5, <2>8
        <3>2. PICK t \in F : /\ 2 - t.offset \in 1..Len(t.data)
                             /\ f[2] = t.data[2 - t.offset]
            BY <1>2, <3>1
        <3>3. t \in X /\ t.offset \in Nat /\ t.offset + (2 - t.offset) >= 2
            BY <1>3, <1>5
        <3>4. CASE t = s
            <4>1. s.data[2 - s.offset].lsn = Top(s) + (2 - s.offset) - Good(s)
                BY <1>4, <2>3, <3>2, <3>3, <3>4 DEF Chained
            <4> QED  BY <1>4, <1>5, <3>2, <3>4, <4>1 DEF BaseOf
        <3>5. CASE t # s
            <4>1. SameLog(t, 2 - t.offset, s, Good(s))
                BY <1>4, <1>5, <2>4, <3>2, <3>5
            <4>2. t.data[2 - t.offset].lsn - (t.offset + (2 - t.offset))
                    = Top(s) - (s.offset + Good(s))
                BY <2>8, <3>3, <4>1 DEF SameLog, Top
            <4>3. f[2].lsn \in Nat /\ f[2].lsn = t.data[2 - t.offset].lsn
                BY <1>5, <3>2, <3>3
            <4>4. t.offset + (2 - t.offset) = 2
                BY <1>5, <3>3
            <4>5. f[2].lsn - 2 = Top(s) - (s.offset + Good(s))
                BY <4>2, <4>3, <4>4
            <4>6. Top(s) \in Nat /\ Good(s) \in Nat /\ s.offset \in Nat
                BY <1>4, <1>5
            <4>7. f[2].lsn = Top(s) - (s.offset + Good(s)) + 1 + 1
                BY <4>3, <4>5, <4>6
            <4> QED  BY <4>7 DEF BaseOf
        <3> QED  BY <3>4, <3>5
    <2> QED  BY <1>10, <2>7, <2>8 DEF f, F
<1> QED  BY <1>11, <1>12

-----------------------------------------------------------------------------
(* All indexes of a chain *)

\* The objects of one generation, as a sound engine writes them.
SoundGeneration(X, o, b) ==
    /\ Backed(X, b) /\ Chained(X) /\ Founded(X, {o})
    /\ o.snap \in Nat
    /\ \A s \in X : s.gen = o.id

\* The database holds 1..v once the indexes below n are applied to it: all that
\* the snapshot and those indexes hold, and no more.
Reached(X, o, v, n) ==
    /\ v \in Nat /\ o.snap <= v
    /\ v = o.snap \/ \E t \in X : t.index < n /\ HasCommits(t) /\ v = Top(t)
    /\ \A t \in X : t.index < n /\ HasCommits(t) => Top(t) <= v

LEMMA LastExists ==
    ASSUME NEW b \in Nat, NEW X, Backed(X, b), NEW n, NEW u \in X, u.index = n
    PROVE  \E s : IsLast(X, n, s)
<1> DEFINE E == {EndOf(t) : t \in {t \in X : t.index = n}}
<1>0. \A t \in X : EndOf(t) \in Nat /\ EndOf(t) <= b
    BY ChainFacts DEF Backed
<1>1. b \in Int /\ E \in SUBSET Int /\ E # {} /\ \A x \in E : x <= b
    BY <1>0
<1>2. PICK m \in E : \A x \in E : x <= m
    <2> HIDE DEF E
    <2> QED  BY <1>1, GreatestInteger
<1>3. PICK s \in X : s.index = n /\ EndOf(s) = m
    OBVIOUS
<1> QED  BY <1>2, <1>3 DEF IsLast

\* An index without segments is an empty file.
LEMMA EmptyIndex ==
    ASSUME NEW b \in Nat, NEW X, Backed(X, b), NEW n, \A t \in X : t.index # n, NEW v
    PROVE  ApplyWALIndex(v, OfIndex(X, n)) = v
<1> DEFINE F == OfIndex(X, n)
           f == WALFile(ContiguousRun(F))
<1>1. F = {} /\ ContiguousRun(F) = {} /\ Backed(F, b)
    BY AppliedBacked DEF OfIndex, ContiguousRun
<1>2. /\ f \in Seq(Units)
      /\ Len(f) # 0 => \E t \in ContiguousRun(F) : EndOf(t) = Len(f)
    BY <1>1, FileIsSequence
<1> HIDE DEF f
<1>3. CommittedSize(f) = 0
    <2>1. Len(f) = 0 /\ CommittedSize(f) \in 0..Len(f)
        BY <1>1, <1>2, CommittedPrefix
    <2> QED  BY <2>1
<1> QED  BY <1>3 DEF f, ApplyWALIndex, Replay

LEMMA ReachedStep ==
    ASSUME NEW b \in Nat, NEW X, NEW o, SoundGeneration(X, o, b), NEW n \in Nat,
           NEW v, Reached(X, o, v, n)
    PROVE  Reached(X, o, ApplyWALIndex(v, OfIndex(X, n)), n + 1)
<1> DEFINE w == ApplyWALIndex(v, OfIndex(X, n))
<1>1. /\ Backed(X, b) /\ Chained(X) /\ Founded(X, {o}) /\ o.snap \in Nat
      /\ \A s \in X : s.gen = o.id
      /\ \A s, t \in X : s.gen = t.gen
    BY DEF SoundGeneration
<1>2. \A t \in X : /\ t.offset \in Nat /\ EndOf(t) \in Nat /\ t.offset < EndOf(t)
                   /\ t.index \in Nat /\ t.ts \in Nat
                   /\ EndOf(t) = t.offset + Len(t.data) /\ Len(t.data) \in Nat
                   /\ Good(t) \in 1..Len(t.data) /\ Top(t) \in Nat
    BY <1>1, ChainFacts
<1>3. /\ v \in Nat /\ o.snap <= v
      /\ v = o.snap \/ \E t \in X : t.index < n /\ HasCommits(t) /\ v = Top(t)
      /\ \A t \in X : t.index < n /\ HasCommits(t) => Top(t) <= v
    BY DEF Reached
<1>4. \A t \in X : t.index < n + 1 <=> t.index < n \/ t.index = n
    BY <1>2
<1>5. CASE \A t \in X : t.index # n
    BY <1>1, <1>3, <1>4, <1>5, EmptyIndex DEF Reached
<1>6. ASSUME NEW s, IsLast(X, n, s) PROVE Reached(X, o, w, n + 1)
    <2> DEFINE f == WALFile(ContiguousRun(OfIndex(X, n)))
               size == s.offset + Good(s)
    <2>1. /\ CommittedSize(f) = size /\ f[size].lsn = Top(s)
          /\ size >= 2 => f[2].lsn = BaseOf(s) + 1
        BY <1>1, <1>6, FileOfIndex
    <2>2. s \in X /\ s.index = n /\ size \in Nat /\ Top(s) \in Nat /\ BaseOf(s) \in Int
        BY <1>2, <1>6 DEF IsLast, BaseOf
    <2>3. \A t \in X : t.index = n /\ t # s => t.ts < s.ts /\ EndOf(t) <= s.offset
        BY <1>1, <1>6, BeforeLast
    <2>4. w = Replay(v, f)
        BY DEF ApplyWALIndex
    <2> HIDE DEF f, w
    <2>5. CASE ~HasCommits(s)
        <3>1. size <= 1
            BY <2>2, <2>5 DEF HasCommits
        <3>2. w = v
            BY <2>1, <2>4, <3>1 DEF Replay
        <3>3. \A t \in X : t.index = n => t = s
            <4>1. s.offset = 0
                BY <1>2, <2>2, <3>1
            <4> QED  BY <1>2, <2>3, <4>1
        <3> QED  BY <1>3, <1>4, <2>5, <3>2, <3>3 DEF Reached
    <2>6. CASE HasCommits(s)
        <3>1. size >= 2 /\ ~(size <= 1)
            BY <2>2, <2>6 DEF HasCommits
        <3>2. o.snap <= Top(s) /\ Covered(X, o, BaseOf(s), n)
            BY <1>1, <2>2, <2>6 DEF Founded, NoSnap
        <3>3. BaseOf(s) <= v
            <4>1. CASE BaseOf(s) <= o.snap
                BY <1>1, <1>3, <2>2, <4>1
            <4>2. CASE \E t \in X : t.index < n /\ HasCommits(t) /\ BaseOf(s) <= Top(t)
                BY <1>2, <1>3, <2>2, <4>2
            <4> QED  BY <3>2, <4>1, <4>2 DEF Covered
        <3>4. \A t \in X : t.index < n /\ HasCommits(t) => Top(t) <= Top(s)
            <4> SUFFICES ASSUME NEW t \in X, t.index < n, HasCommits(t)
                         PROVE  Top(t) <= Top(s)
                OBVIOUS
            <4>1. /\ t.ts = s.ts => t = s
                  /\ t.ts < s.ts => (HasCommits(t) /\ HasCommits(s) => Top(t) <= Top(s))
                  /\ s.ts < t.ts => s.index <= t.index
                <5>1. /\ t.ts = s.ts => t = s
                      /\ t.ts < s.ts => (HasCommits(t) /\ HasCommits(s) => Top(t) <= Top(s))
                    BY <1>1, <2>2, ChainOrder
                <5>2. s.ts < t.ts => s.index < t.index \/ s.index = t.index
                    BY <1>1, <2>2, ChainOrder
                <5> QED  BY <1>2, <2>2, <5>1, <5>2
            <4>2. ~(s.index <= t.index) /\ t # s
                BY <1>2, <2>2
            <4>3. t.ts \in Nat /\ s.ts \in Nat
                BY <1>2, <2>2
            <4> QED  BY <2>6, <4>1, <4>2, <4>3
        <3>5. v <= Top(s)
            BY <1>3, <3>2, <3>4
        <3>6. w = Top(s)
            <4>1. f[2].lsn <= v + 1
                BY <1>3, <2>1, <2>2, <3>1, <3>3
            <4>2. v # Torn
                BY <1>3 DEF Torn
            <4> QED  BY <2>1, <2>4, <3>1, <3>5, <4>1, <4>2 DEF Replay
        <3>7. \A t \in X : t.index = n /\ HasCommits(t) => Top(t) <= Top(s)
            <4> SUFFICES ASSUME NEW t \in X, t.index = n, HasCommits(t), t # s
                         PROVE  Top(t) <= Top(s)
                BY <2>2
            <4>1. t.ts < s.ts
                BY <2>3
            <4> QED  BY <1>1, <2>2, <2>6, <4>1, ChainOrder
        <3>8. o.snap <= w /\ w \in Nat
            BY <2>2, <3>2, <3>6
        <3>9. \E t \in X : t.index < n + 1 /\ HasCommits(t) /\ w = Top(t)
            BY <1>4, <2>2, <2>6, <3>6
        <3>10. \A t \in X : t.index < n + 1 /\ HasCommits(t) => Top(t) <= w
            BY <1>4, <3>4, <3>6, <3>7
        <3> QED  BY <3>8, <3>9, <3>10 DEF Reached
    <2> QED  BY <2>5, <2>6 DEF w
<1>7. CASE \E t \in X : t.index = n
    BY <1>1, <1>6, <1>7, LastExists
<1> QED  BY <1>5, <1>7

\* Rolling a sound generation forward gives all it holds.
LEMMA SoundReaches ==
    ASSUME NEW b \in Nat, NEW X, NEW o, SoundGeneration(X, o, b)
    PROVE  LET v == RollForward(o.snap, X)[Indexes(X)]
           IN  /\ v \in Nat /\ o.snap <= v
               /\ v = o.snap \/ \E t \in X : HasCommits(t) /\ v = Top(t)
               /\ \A t \in X : HasCommits(t) => Top(t) <= v
<1> DEFINE r == RollForward(o.snap, X)
           H == {n \in Nat : Reached(X, o, r[n], n)}
<1>1. /\ r[0] = o.snap
      /\ \A n \in Nat : r[n + 1] = ApplyWALIndex(r[n], OfIndex(X, n))
    BY RollForwardStep
<1>2. /\ Backed(X, b) /\ o.snap \in Nat
      /\ \A t \in X : t.index \in Nat
    BY ChainFacts DEF SoundGeneration
<1>3. /\ Indexes(X) \in Nat /\ \A s \in X : s.index < Indexes(X)
    BY <1>2, IndexesBound
<1> HIDE DEF r
<1>4. 0 \in H
    BY <1>1, <1>2 DEF Reached
<1>5. \A n \in Nat : n \in H => n + 1 \in H
    BY <1>1, ReachedStep
<1> HIDE DEF H
<1>6. \A n \in Nat : n \in H
    BY <1>4, <1>5, Induction
<1>7. Reached(X, o, r[Indexes(X)], Indexes(X))
    BY <1>3, <1>6 DEF H
<1> QED  BY <1>3, <1>7 DEF Reached, r

-----------------------------------------------------------------------------
(* What has a stamp up to some time is a chain too *)

\* Y holds with a segment those of its generation that were stamped before it.
IsPast(Y, X) ==
    /\ Y \subseteq X
    /\ \A s \in Y, t \in X : t.gen = s.gen /\ t.ts < s.ts => t \in Y

LEMMA PastIsChained ==
    ASSUME NEW X, Chained(X), NEW Y, IsPast(Y, X)
    PROVE  Chained(Y)
<1> SUFFICES ASSUME NEW s \in Y
             PROVE  /\ \A i \in 1..Good(s) : s.offset + i >= 2 =>
                          s.data[i].lsn = Top(s) + i - Good(s)
                    /\ s.offset # 0 => \E t \in Y : /\ SameIndex(s, t)
                                                    /\ EndOf(t) = s.offset /\ t.ts < s.ts
                    /\ \A t \in Y : SameIndex(s, t) /\ s # t =>
                          \A i \in 1..Len(s.data), j \in 1..Len(t.data) : SameLog(s, i, t, j)
                    /\ \A t \in Y : t.gen = s.gen /\ t.ts = s.ts => t = s
                    /\ \A t \in Y : t.gen = s.gen /\ t.ts < s.ts =>
                          /\ t.index < s.index \/ (t.index = s.index /\ EndOf(t) <= s.offset)
                          /\ HasCommits(t) /\ HasCommits(s) => Top(t) <= Top(s)
    BY DEF Chained
<1>1. s \in X /\ Y \subseteq X
    BY DEF IsPast
<1>2. \A i \in 1..Good(s) : s.offset + i >= 2 => s.data[i].lsn = Top(s) + i - Good(s)
    BY <1>1 DEF Chained
<1>3. ASSUME s.offset # 0
      PROVE  \E t \in Y : SameIndex(s, t) /\ EndOf(t) = s.offset /\ t.ts < s.ts
    <2>1. PICK t \in X : SameIndex(s, t) /\ EndOf(t) = s.offset /\ t.ts < s.ts
        BY <1>1, <1>3 DEF Chained
    <2> QED  BY <2>1 DEF IsPast, SameIndex
<1>4. \A t \in Y : SameIndex(s, t) /\ s # t =>
         \A i \in 1..Len(s.data), j \in 1..Len(t.data) : SameLog(s, i, t, j)
    BY <1>1 DEF Chained
<1>5. \A t \in Y : t.gen = s.gen =>
         /\ t.ts = s.ts => t = s
         /\ t.ts < s.ts =>
               /\ t.index < s.index \/ (t.index = s.index /\ EndOf(t) <= s.offset)
               /\ HasCommits(t) /\ HasCommits(s) => Top(t) <= Top(s)
    BY <1>1, ChainOrder
<1> QED  BY <1>2, <1>3, <1>4, <1>5

\* What covers the beginning of a segment's WAL was stamped before the segment.
LEMMA PastIsFounded ==
    ASSUME NEW X \in SUBSET Segments, Chained(X), NEW snaps, Founded(X, snaps),
           NEW Y, IsPast(Y, X), NEW o \in snaps
    PROVE  Founded(Y, {o})
<1> SUFFICES ASSUME NEW s \in Y, o.id = s.gen, o.snap # NoSnap, HasCommits(s)
             PROVE  o.snap <= Top(s) /\ Covered(Y, o, BaseOf(s), s.index)
    BY DEF Founded
<1>1. s \in X /\ o.snap <= Top(s) /\ Covered(X, o, BaseOf(s), s.index)
    BY DEF Founded, IsPast
<1>2. ASSUME NEW t \in X, t.gen = o.id, t.index < s.index PROVE t \in Y
    <2>1. /\ t.index \in Nat /\ t.ts \in Nat /\ s.index \in Nat /\ s.ts \in Nat
        BY <1>1, SegmentFacts
    <2>2. /\ s.ts = t.ts => s = t
          /\ s.ts < t.ts => s.index < t.index \/ s.index = t.index
        BY <1>1, <1>2, ChainOrder
    <2>3. t.ts < s.ts
        BY <1>2, <2>1, <2>2
    <2> QED  BY <1>2, <2>3 DEF IsPast
<1> QED  BY <1>1, <1>2 DEF Covered

LEMMA AppliedIsSound ==
    ASSUME WrittenInv, Chained(Objects), Founded(Objects, snapshots),
           NEW o \in snapshots, o.snap # NoSnap, NEW T \in Nat
    PROVE  \E b \in Nat : SoundGeneration(Applied(segments, o, T), o, b)
<1> DEFINE Y == Applied(segments, o, T)
<1>1. PICK b \in Nat : Backed(segments, b)
    BY DEF WrittenInv, ObjectInv
<1>2. /\ segments \subseteq Segments /\ segment \in Segments
      /\ snapshots \subseteq Snapshots
    BY DEF WrittenInv, EngineInv, TypeInv, TypeOK
<1>3. Objects \in SUBSET Segments
    BY <1>2 DEF Objects
<1>4. IsPast(Y, Objects)
    <2>1. Y \subseteq Objects
        BY DEF Applied, Objects
    <2>2. ASSUME NEW s \in Y, NEW t \in Objects, t.gen = s.gen, t.ts < s.ts
          PROVE  t \in Y
        <3>1. s \in segments /\ s.gen = o.id /\ Within(s.ts, T)
            BY DEF Applied
        <3>2. s.ts \in Nat /\ t.ts \in Nat
            BY <1>2, <1>3, <3>1, SegmentFacts
        <3>3. t \in segments
            BY <2>2, <3>1, <3>2 DEF Objects, WrittenInv, ObjectInv
        <3>4. Within(t.ts, T)
            BY <2>2, <3>1, <3>2 DEF Within
        <3> QED  BY <2>2, <3>1, <3>3, <3>4 DEF Applied
    <2> QED  BY <2>1, <2>2 DEF IsPast
<1>5. Chained(Y)
    BY <1>4, PastIsChained
<1>6. Founded(Y, {o})
    BY <1>3, <1>4, PastIsFounded
<1>7. Backed(Y, b)
    BY <1>1, AppliedBacked
<1>8. o.snap \in Nat /\ \A s \in Y : s.gen = o.id
    BY <1>2 DEF Snapshots, Applied
<1> QED  BY <1>5, <1>6, <1>7, <1>8 DEF SoundGeneration

\* A restore of the latest state gives all of the newest generation; one to a
\* time, all that is stamped up to then.
LEMMA RestoreOfSound ==
    ASSUME WrittenInv, Chained(Objects), Founded(Objects, snapshots),
           NEW T \in Nat, NEW o, IsPicked(snapshots, T, o), o.snap # NoSnap
    PROVE  /\ Restore(T) \in Nat /\ o.snap <= Restore(T)
           /\ \/ Restore(T) = o.snap
              \/ \E t \in Applied(segments, o, T) : HasCommits(t) /\ Restore(T) = Top(t)
           /\ \A t \in Applied(segments, o, T) : HasCommits(t) => Top(t) <= Restore(T)
<1>1. o \in snapshots
    BY DEF IsPicked
<1>2. PICK b \in Nat : SoundGeneration(Applied(segments, o, T), o, b)
    BY <1>1, AppliedIsSound
<1>3. Restore(T) = RollForward(o.snap, Applied(segments, o, T))
                              [Indexes(Applied(segments, o, T))]
    BY WrittenCatalogued, RestoreOfPicked DEF Restore
<1> QED  BY <1>2, <1>3, SoundReaches

LEMMA ChainRestores ==
    ASSUME WrittenInv, Chained(Objects), Founded(Objects, snapshots)
    PROVE  RestoreConsistent
<1> SUFFICES ASSUME NEW T \in 0..now PROVE Restore(T) # Torn
    BY DEF RestoreConsistent
<1>1. now \in Nat /\ Catalogued(snapshots, now) /\ T \in Nat
    BY WrittenCatalogued
<1>2. CASE \A s \in snapshots : ~Within(s.id, T)
    BY <1>1, <1>2, RestoreOfNone DEF Restore, Error, Torn
<1>3. ASSUME NEW s, IsPicked(snapshots, T, s) PROVE Restore(T) # Torn
    <2>1. CASE s.snap = NoSnap
        BY <1>1, <1>3, <2>1, RestoreOfPicked DEF Restore, Error, Torn
    <2>2. CASE s.snap # NoSnap
        BY <1>1, <1>3, <2>2, RestoreOfSound DEF Torn
    <2> QED  BY <2>1, <2>2
<1> QED  BY <1>1, <1>2, <1>3, PickedExists

-----------------------------------------------------------------------------
(* What a writer does to the WAL *)

LEMMA WriteAtUnits ==
    ASSUME NEW w \in Seq(Units), NEW us \in Seq(Units), NEW k \in 0..Len(w)
    PROVE  /\ WriteAt(w, k, us) \in Seq(Units)
           /\ Len(WriteAt(w, k, us)) \in Nat
           /\ Len(WriteAt(w, k, us)) >= k + Len(us)
           /\ \A j \in 1..Len(us) : WriteAt(w, k, us)[k + j] = us[j]
           /\ \A i \in 1..k : WriteAt(w, k, us)[i] = w[i]
           /\ \A i \in k + Len(us) + 1..Len(WriteAt(w, k, us)) :
                 i \in 1..Len(w) /\ WriteAt(w, k, us)[i] = w[i]
<1> DEFINE end == k + Len(us)
           m   == IF end > Len(w) THEN end ELSE Len(w)
           f   == [i \in 1..m |-> IF i \in (k + 1)..end THEN us[i - k] ELSE w[i]]
<1>1. /\ Len(w) \in Nat /\ Len(us) \in Nat /\ k \in Nat /\ k <= Len(w)
      /\ m \in Nat /\ m >= end /\ m >= Len(w) /\ end \in Nat /\ (m = end \/ m = Len(w))
    OBVIOUS
<1>2. WriteAt(w, k, us) = f
    BY DEF WriteAt
<1>3. WriteAt(w, k, us) \in Seq(Units)
    BY WriteAtFile
<1>4. Len(f) = m
    <2> HIDE DEF m
    <2> QED  BY <1>1
<1>5. \A j \in 1..Len(us) : f[k + j] = us[j]
    <2>1. \A j \in 1..Len(us) : k + j \in 1..m /\ k + j \in (k + 1)..end /\ (k + j) - k = j
        BY <1>1
    <2> HIDE DEF m, end
    <2> QED  BY <2>1
<1>6. \A i \in 1..k : f[i] = w[i]
    <2>1. \A i \in 1..k : i \in 1..m /\ i \notin (k + 1)..end
        BY <1>1
    <2> HIDE DEF m, end
    <2> QED  BY <2>1
<1>7. \A i \in end + 1..m : i \in 1..Len(w) /\ f[i] = w[i]
    <2>1. \A i \in end + 1..m : i \in 1..Len(w) /\ i \in 1..m /\ i \notin (k + 1)..end
        BY <1>1
    <2> HIDE DEF m, end
    <2> QED  BY <2>1
<1> HIDE DEF f, m
<1> QED  BY <1>1, <1>2, <1>3, <1>4, <1>5, <1>6, <1>7

\* What the provers need to know of the WAL.
LEMMA WalFacts ==
    ASSUME TypeInv, WalInv
    PROVE  /\ wal \in Seq(Units) /\ Len(wal) \in Nat /\ cycle \in Nat
           /\ main \in Nat /\ Newest \in Nat /\ now \in Nat /\ Base \in Nat
           /\ Base <= main /\ main <= Newest
           /\ CommittedSize(wal) \in 0..Len(wal)
           /\ wal = <<>> => main = Newest /\ Base = Newest
           /\ wal # <<>> =>
                 /\ 1 \in 1..Len(wal) /\ CommittedSize(wal) >= 1
                 /\ Base = Newest - CommittedSize(wal) + 1
                 /\ wal[1].cycle \in Nat /\ wal[1].cycle <= cycle
           /\ \A p \in 1..Len(wal) : /\ wal[p].cycle \in Nat /\ wal[p].cycle <= cycle
                                     /\ wal[p].lsn \in Nat
           /\ \A p \in 1..CommittedSize(wal) : wal[p].cycle = wal[1].cycle
<1>1. /\ wal \in Seq(Units) /\ Len(wal) \in Nat /\ cycle \in Nat /\ main \in Nat
      /\ Newest \in Nat /\ now \in Nat
    BY DEF TypeInv, TypeOK, Newest
<1>2. /\ CommittedSize(wal) \in 0..Len(wal)
      /\ \A p \in 1..CommittedSize(wal) : wal[p].cycle = wal[1].cycle
      /\ Len(wal) > 0 => CommittedSize(wal) >= 1
    BY <1>1, CommittedPrefix
<1>3. wal # <<>> => Len(wal) > 0
    BY <1>1
<1>4. Base \in Nat /\ Base <= main /\ main <= Newest
    <2>1. Base \in Int
        BY <1>1, <1>2 DEF Base
    <2> QED  BY <2>1 DEF WalInv
<1>5. \A p \in 1..Len(wal) : wal[p].cycle \in Nat /\ wal[p].lsn \in Nat
    <2>1. \A p \in 1..Len(wal) : wal[p] \in Units
        BY <1>1
    <2> QED  BY <2>1 DEF Units
<1>6. wal # <<>> => wal[1].cycle \in Nat /\ wal[1].cycle <= cycle
    BY <1>1, <1>3, <1>5 DEF WalInv
<1>7. \A p \in 1..Len(wal) : wal[p].cycle <= cycle
    <2> SUFFICES ASSUME NEW p \in 1..Len(wal) PROVE wal[p].cycle <= cycle
        OBVIOUS
    <2>1. wal # <<>>
        BY <1>1
    <2>2. CASE p <= CommittedSize(wal)
        BY <1>2, <1>6, <2>1, <2>2
    <2>3. CASE ~(p <= CommittedSize(wal))
        <3>1. p \in CommittedSize(wal) + 1..Len(wal)
            BY <1>1, <1>2, <2>3
        <3>2. wal[p].cycle < wal[1].cycle
            BY <2>1, <3>1 DEF WalInv
        <3> QED  BY <1>1, <1>5, <1>6, <2>1, <3>2
    <2> QED  BY <2>2, <2>3
<1>8. wal = <<>> => main = Newest /\ Base = Newest
    BY DEF WalInv, Base
<1>9. wal # <<>> => Base = Newest - CommittedSize(wal) + 1
    BY DEF Base
<1> QED  BY <1>1, <1>2, <1>3, <1>4, <1>5, <1>6, <1>7, <1>8, <1>9

\* A transaction goes on in the WAL.
WalGoesOn ==
    /\ wal # <<>> /\ wal' # <<>>
    /\ CommittedSize(wal') = CommittedSize(wal) + 1
    /\ \A p \in 1..CommittedSize(wal) : wal'[p] = wal[p]
    /\ wal'[CommittedSize(wal) + 1].lsn = Newest'
    /\ Newest' = Newest + 1 /\ Base' = Base /\ cycle' = cycle

\* A transaction, committed or not, begins the WAL again.
WalBegins ==
    /\ main = Newest /\ (wal = <<>> \/ CommittedSize(wal) > 1)
    /\ wal' # <<>> /\ wal'[1].cycle = cycle + 1 /\ wal'[1].lsn = 0
    /\ CommittedSize(wal') \in {1, 2}
    /\ CommittedSize(wal') = 2 => wal'[2].lsn = Newest'
    /\ Base' = main /\ cycle' = cycle + 1

\* ... and what is behind it is older still.
LEMMA StartEffect ==
    ASSUME TypeInv, WalInv, NEW us \in Seq(Units), StartCycle(us),
           Len(us) \in {1, 2}, us[1] = Header(cycle + 1),
           Len(us) = 2 => us[2] = [cycle |-> cycle + 1, lsn |-> Newest'],
           Newest' = Newest + Len(us) - 1, main' = main
    PROVE  WalBegins /\ WalInv'
<1>1. /\ wal' = WriteAt(wal, 0, us) /\ cycle' = cycle + 1 /\ MayStartCycle
    BY DEF StartCycle
<1>2. /\ wal \in Seq(Units) /\ 0 \in 0..Len(wal) /\ cycle \in Nat /\ Len(wal) \in Nat
      /\ main \in Nat /\ Newest \in Nat /\ CommittedSize(wal) \in Nat
      /\ \A p \in 1..Len(wal) : wal[p].cycle \in Nat /\ wal[p].cycle <= cycle
      /\ wal = <<>> => main = Newest
    BY WalFacts
<1>3. Len(us) \in Nat /\ 1 \in 1..Len(us) /\ (Len(us) = 2 => 2 \in 1..Len(us)) /\ Len(us) >= 1
    OBVIOUS
<1>4. /\ wal' \in Seq(Units) /\ Len(wal') \in Nat /\ Len(wal') >= Len(us)
      /\ \A j \in 1..Len(us) : wal'[j] = us[j]
      /\ \A i \in Len(us) + 1..Len(wal') : i \in 1..Len(wal) /\ wal'[i] = wal[i]
    <2>1. /\ wal' \in Seq(Units) /\ Len(wal') \in Nat /\ Len(wal') >= 0 + Len(us)
          /\ \A j \in 1..Len(us) : wal'[0 + j] = us[j]
          /\ \A i \in 0 + Len(us) + 1..Len(wal') : i \in 1..Len(wal) /\ wal'[i] = wal[i]
        BY <1>1, <1>2, WriteAtUnits
    <2>2. 0 + Len(us) = Len(us) /\ \A j \in 1..Len(us) : 0 + j = j
        BY <1>3
    <2> QED  BY <2>1, <2>2
<1>5. \A j \in 1..Len(us) : us[j].cycle = cycle + 1
    <2>1. us[1].cycle = cycle + 1 /\ (Len(us) = 2 => us[2].cycle = cycle + 1)
        BY DEF Header
    <2> QED  BY <1>3, <2>1
<1>6. wal'[1].cycle = cycle + 1 /\ wal'[1].lsn = 0 /\ wal' # <<>>
    <2>1. wal'[1] = Header(cycle + 1)
        BY <1>3, <1>4
    <2>2. Len(wal') # 0
        BY <1>3, <1>4
    <2> QED  BY <2>1, <2>2 DEF Header
<1>7. CommittedSize(wal') = Len(us)
    <2>1. \A p \in 1..Len(us) : wal'[p].cycle = wal'[1].cycle
        BY <1>3, <1>4, <1>5
    <2>2. Len(us) < Len(wal') => wal'[Len(us) + 1].cycle # wal'[1].cycle
        <3> SUFFICES ASSUME Len(us) < Len(wal') PROVE wal'[Len(us) + 1].cycle # cycle + 1
            BY <1>6
        <3>1. Len(us) + 1 \in Len(us) + 1..Len(wal')
            BY <1>3, <1>4
        <3>2. wal'[Len(us) + 1].cycle \in Nat /\ wal'[Len(us) + 1].cycle <= cycle
            BY <1>2, <1>4, <3>1
        <3> QED  BY <1>2, <3>2
    <2>3. Len(us) \in 0..Len(wal')
        BY <1>3, <1>4
    <2> QED  BY <1>4, <2>1, <2>2, <2>3, CommittedSizeIs
<1>8. main = Newest /\ (wal = <<>> \/ CommittedSize(wal) > 1)
    BY <1>1, <1>2 DEF MayStartCycle
<1>9. Base' = main
    <2>1. Base' = Newest' - CommittedSize(wal') + 1
        BY <1>6 DEF Base
    <2> QED  BY <1>2, <1>3, <1>7, <1>8, <2>1
<1>10. Len(us) = 2 => wal'[2].lsn = Newest'
    BY <1>3, <1>4
<1>11. WalBegins
    BY <1>1, <1>6, <1>7, <1>8, <1>9, <1>10 DEF WalBegins
<1>12. /\ Newest' \in Nat /\ main' <= Newest'
    BY <1>2, <1>3, <1>8
<1>13. \A p \in 2..CommittedSize(wal') : wal'[p].lsn = Base' + p - 1
    <2>1. CASE Len(us) = 1
        BY <1>7, <2>1
    <2>2. CASE Len(us) = 2
        <3>1. \A p \in 2..CommittedSize(wal') : p = 2
            BY <1>7, <2>2
        <3>2. Newest' = Base' + 2 - 1
            BY <1>2, <1>8, <1>9, <2>2
        <3> QED  BY <1>10, <2>2, <3>1, <3>2
    <2> QED  BY <2>1, <2>2
<1>14. \A p \in CommittedSize(wal') + 1..Len(wal') : wal'[p].cycle < wal'[1].cycle
    <2> SUFFICES ASSUME NEW p \in Len(us) + 1..Len(wal') PROVE wal'[p].cycle < cycle + 1
        BY <1>6, <1>7
    <2>1. wal'[p].cycle \in Nat /\ wal'[p].cycle <= cycle
        BY <1>2, <1>4
    <2> QED  BY <1>2, <2>1
<1>15. WalInv'
    BY <1>1, <1>2, <1>6, <1>9, <1>12, <1>13, <1>14 DEF WalInv
<1> QED  BY <1>11, <1>15

LEMMA AppendEffect ==
    ASSUME TypeInv, WalInv, AppendUnit([cycle |-> wal[1].cycle, lsn |-> Newest']),
           Newest' = Newest + 1, main' = main
    PROVE  WalGoesOn /\ WalInv'
<1> DEFINE C == CommittedSize(wal)
           us == <<[cycle |-> wal[1].cycle, lsn |-> Newest']>>
<1>1. wal' = WriteAt(wal, C, us) /\ cycle' = cycle /\ wal # <<>>
    BY DEF AppendUnit
<1>2. /\ wal \in Seq(Units) /\ C \in 0..Len(wal) /\ C \in Nat /\ C >= 1 /\ cycle \in Nat
      /\ Len(wal) \in Nat /\ wal[1].cycle \in Nat /\ wal[1].cycle <= cycle
      /\ main \in Nat /\ Newest \in Nat /\ Base \in Nat /\ Base <= main /\ main <= Newest
      /\ Base = Newest - C + 1
      /\ \A p \in 1..C : wal[p].cycle = wal[1].cycle
      /\ \A p \in 1..Len(wal) : wal[p].cycle \in Nat
    BY <1>1, WalFacts
<1>3. us \in Seq(Units) /\ Len(us) = 1 /\ us[1] = [cycle |-> wal[1].cycle, lsn |-> Newest']
    <2>1. [cycle |-> wal[1].cycle, lsn |-> Newest'] \in Units
        BY <1>2 DEF Units
    <2> QED  BY <2>1
<1> HIDE DEF us, C
<1>4. /\ wal' \in Seq(Units) /\ Len(wal') \in Nat /\ Len(wal') >= C + 1
      /\ wal'[C + 1] = us[1]
      /\ \A i \in 1..C : wal'[i] = wal[i]
      /\ \A i \in C + 1 + 1..Len(wal') : i \in 1..Len(wal) /\ wal'[i] = wal[i]
    <2>1. /\ wal' \in Seq(Units) /\ Len(wal') \in Nat
          /\ Len(wal') >= C + Len(us)
          /\ \A j \in 1..Len(us) : wal'[C + j] = us[j]
          /\ \A i \in 1..C : wal'[i] = wal[i]
          /\ \A i \in C + Len(us) + 1..Len(wal') : i \in 1..Len(wal) /\ wal'[i] = wal[i]
        BY <1>1, <1>2, <1>3, WriteAtUnits
    <2>2. 1 \in 1..Len(us) /\ Len(us) = 1
        BY <1>3
    <2> QED  BY <2>1, <2>2
<1>5. wal'[1] = wal[1] /\ wal' # <<>>
    <2>1. 1 \in 1..C /\ Len(wal') # 0
        BY <1>2, <1>4
    <2> QED  BY <1>4, <2>1
<1>6. wal'[C + 1].cycle = wal[1].cycle /\ wal'[C + 1].lsn = Newest'
    BY <1>3, <1>4
<1>7. \A p \in C + 1 + 1..Len(wal') : wal'[p].cycle < wal'[1].cycle
    <2> SUFFICES ASSUME NEW p \in C + 1 + 1..Len(wal') PROVE wal'[p].cycle < wal[1].cycle
        BY <1>5
    <2>1. p \in 1..Len(wal) /\ wal'[p] = wal[p]
        BY <1>4
    <2>2. p \in C + 1..Len(wal)
        BY <1>2, <1>4, <2>1
    <2> QED  BY <1>1, <2>1, <2>2 DEF WalInv, C
<1>8. CommittedSize(wal') = C + 1
    <2>1. \A p \in 1..C + 1 : wal'[p].cycle = wal'[1].cycle
        <3>1. \A p \in 1..C + 1 : p \in 1..C \/ p = C + 1
            BY <1>2
        <3> QED  BY <1>2, <1>4, <1>5, <1>6, <3>1
    <2>2. C + 1 < Len(wal') => wal'[C + 1 + 1].cycle # wal'[1].cycle
        <3> SUFFICES ASSUME C + 1 < Len(wal') PROVE wal'[C + 1 + 1].cycle # wal'[1].cycle
            OBVIOUS
        <3>1. C + 1 + 1 \in C + 1 + 1..Len(wal') /\ C + 1 + 1 \in 1..Len(wal')
            BY <1>2, <1>4
        <3>2. /\ wal'[C + 1 + 1].cycle \in Nat /\ wal'[1].cycle \in Nat
              /\ wal'[C + 1 + 1].cycle < wal'[1].cycle
            BY <1>2, <1>4, <1>5, <1>7, <3>1
        <3> QED  BY <3>2
    <2>3. C + 1 \in 0..Len(wal')
        BY <1>2, <1>4
    <2> QED  BY <1>4, <2>1, <2>2, <2>3, CommittedSizeIs
<1>9. Base' = Base
    <2>1. Base' = Newest' - CommittedSize(wal') + 1
        BY <1>5 DEF Base
    <2> QED  BY <1>2, <1>8, <2>1
<1>10. WalGoesOn
    BY <1>1, <1>4, <1>5, <1>6, <1>8, <1>9 DEF WalGoesOn, C
<1>11. \A p \in 2..C + 1 : wal'[p].lsn = Base' + p - 1
    <2> SUFFICES ASSUME NEW p \in 2..C + 1 PROVE wal'[p].lsn = Base + p - 1
        BY <1>9
    <2>1. CASE p = C + 1
        BY <1>2, <1>6, <2>1
    <2>2. CASE p # C + 1
        <3>1. p \in 2..C /\ p \in 1..C
            BY <1>2, <2>2
        <3> QED  BY <1>1, <1>4, <3>1 DEF WalInv, C
    <2> QED  BY <2>1, <2>2
<1>12. /\ main' <= Newest' /\ wal'[1].lsn = 0 /\ wal'[1].cycle <= cycle'
    BY <1>1, <1>2, <1>5 DEF WalInv
<1>13. WalInv'
    BY <1>2, <1>5, <1>7, <1>8, <1>9, <1>11, <1>12 DEF WalInv
<1> QED  BY <1>10, <1>13

LEMMA WriterEffect ==
    ASSUME TypeInv, WalInv, Commit \/ Spill
    PROVE  /\ WalGoesOn \/ WalBegins
           /\ WalInv'
           /\ UNCHANGED <<main, pc, phase, positionVars, flightVars, backendVars>>
<1>1. UNCHANGED <<main, pc, phase, positionVars, flightVars, backendVars>>
    BY DEF Commit, Spill
<1>2. commits \in Seq(Nat) /\ now \in Nat /\ cycle \in Nat /\ Newest \in Nat /\ main' = main
    BY <1>1 DEF TypeInv, TypeOK, Newest
<1>3. CASE Commit
    <2>1. Newest' = Newest + 1
        BY <1>2, <1>3 DEF Commit, Newest
    <2>2. CASE StartCycle(<<Header(cycle + 1), [cycle |-> cycle + 1, lsn |-> Newest + 1]>>)
        <3> DEFINE us == <<Header(cycle + 1), [cycle |-> cycle + 1, lsn |-> Newest']>>
        <3>1. /\ us \in Seq(Units) /\ Len(us) = 2 /\ us[1] = Header(cycle + 1)
              /\ us[2] = [cycle |-> cycle + 1, lsn |-> Newest']
            BY <1>2, <2>1 DEF Units, Header
        <3>2. StartCycle(us)
            BY <2>1, <2>2
        <3>3. Newest' = Newest + Len(us) - 1
            BY <1>2, <2>1, <3>1
        <3> HIDE DEF us
        <3> QED  BY <1>1, <1>2, <3>1, <3>2, <3>3, StartEffect
    <2>3. CASE AppendUnit([cycle |-> wal[1].cycle, lsn |-> Newest + 1])
        <3>1. AppendUnit([cycle |-> wal[1].cycle, lsn |-> Newest'])
            BY <2>1, <2>3
        <3> QED  BY <1>1, <1>2, <2>1, <3>1, AppendEffect
    <2> QED  BY <1>3, <2>2, <2>3 DEF Commit
<1>4. CASE Spill
    <2> DEFINE us == <<Header(cycle + 1)>>
    <2>1. us \in Seq(Units) /\ Len(us) = 1 /\ us[1] = Header(cycle + 1)
        BY <1>2 DEF Units, Header
    <2>2. StartCycle(us) /\ Newest' = Newest
        BY <1>4 DEF Spill, Newest
    <2>3. Newest' = Newest + Len(us) - 1
        BY <1>2, <2>1, <2>2
    <2>4. Len(us) \in {1, 2} /\ (Len(us) = 2 => us[2] = [cycle |-> cycle + 1, lsn |-> Newest'])
        BY <2>1
    <2> HIDE DEF us
    <2>5. StartCycle(us)
        BY <2>2
    <2>6. WalBegins /\ WalInv'
        BY <1>2, <2>1, <2>3, <2>4, <2>5, StartEffect
    <2> QED  BY <1>1, <2>6
<1> QED  BY <1>3, <1>4

\* The WAL is folded, wholly or in part, and cut or not.
WalFolds ==
    /\ Newest' = Newest /\ cycle' = cycle
    /\ \/ wal' = <<>> /\ main' = Newest /\ Base' = Newest
       \/ LongReaders /\ wal' = wal /\ main' \in main..Newest /\ Base' = Base

LEMMA FoldEffect ==
    ASSUME TypeInv, WalInv, UNCHANGED <<commits, cycle>>,
           \/ main' = Newest /\ wal' = <<>>
           \/ LongReaders /\ main' \in main..Newest /\ UNCHANGED wal
    PROVE  WalInv' /\ WalFolds
<1>1. /\ main \in Nat /\ Newest \in Nat /\ Base \in Nat /\ Base <= main /\ main <= Newest
    BY WalFacts
<1>2. Newest' = Newest
    BY DEF Newest
<1>3. CASE main' = Newest /\ wal' = <<>>
    <2>1. Base' = Newest
        BY <1>2, <1>3 DEF Base
    <2> QED  BY <1>1, <1>2, <1>3, <2>1 DEF WalInv, WalFolds
<1>4. CASE LongReaders /\ main' \in main..Newest /\ UNCHANGED wal
    <2>1. Base' = Base
        BY <1>2, <1>4 DEF Base
    <2>2. main' <= Newest /\ main' >= main /\ main' \in Nat
        BY <1>1, <1>4
    <2>3. wal = <<>> => main' = Newest
        BY <1>1, <2>2 DEF WalInv
    <2> QED  BY <1>1, <1>2, <1>4, <2>1, <2>2, <2>3 DEF WalInv, WalFolds
<1> QED  BY <1>3, <1>4

LEMMA StoreStays ==
    ASSUME WalInv, UNCHANGED storeVars
    PROVE  WalInv' /\ Base' = Base /\ Newest' = Newest
           /\ UNCHANGED <<main, wal, cycle>>
BY DEF WalInv, Base, Newest, storeVars

LEMMA WalNext == TypeInv /\ WalInv /\ [Next]_vars => WalInv'
<1> SUFFICES ASSUME TypeInv, WalInv, [Next]_vars PROVE WalInv'
  OBVIOUS
<1>1. CASE Commit \/ Spill
  BY <1>1, WriterEffect
<1>2. ASSUME WalCheckpoint PROVE WalInv'
  BY <1>2, FoldEffect DEF WalCheckpoint
<1>3. CASE Checkpoint \/ SnapCheckpoint
  BY <1>2, <1>3, StoreStays DEF Checkpoint, SnapCheckpoint
<1>4. CASE CloseStore
  <2>1. main \in Nat /\ Newest \in Nat /\ main <= Newest
    BY WalFacts
  <2>2. main \in main..Newest
    BY <2>1
  <2> QED  BY <1>4, <2>2, FoldEffect DEF CloseStore
<1>5. CASE \/ SyncTick \/ SyncRead \/ SyncReadFails \/ ShipOk \/ ShipFails
           \/ ShipLandsAnyway \/ Stat \/ SnapTick \/ SnapRetry \/ SnapRead
           \/ SnapWriteOk \/ SnapWriteFails \/ SnapWriteLeaves \/ Prune
           \/ FinalSync \/ Open \/ Stop \/ Crash \/ UNCHANGED vars
  <2>1. UNCHANGED storeVars
    BY <1>5 DEF SyncTick, SyncRead, SyncReadFails, ShipOk, ShipFails,
         ShipLandsAnyway, Stat, SnapTick, SnapRetry, BeginSnapshot, SnapRead,
         SnapWriteOk, SnapWriteFails, SnapWriteLeaves, Prune, FinalSync, Open,
         Stop, Crash, vars
  <2> QED  BY <2>1, StoreStays
<1> QED  BY <1>1, <1>3, <1>4, <1>5 DEF Next, EngineStep, StayDown

\* The WAL and the main file together hold every transaction, in every
\* configuration.
LEMMA WalCorrect == Spec => []WalInv
<1>1. Init => WalInv
  BY DEF Init, WalInv, Base, Newest
<1>2. Spec => []TypeInv
  BY TypeCorrect, PTL DEF TypeInv
<1> QED  BY <1>1, <1>2, WalNext, PTL DEF Spec

-----------------------------------------------------------------------------
(* The chain is kept: what becomes of the objects *)

\* What the provers need to know of the engine's position and of its objects.
LEMMA PositionFacts ==
    ASSUME WrittenInv
    PROVE  /\ generation \in Nat /\ walIndex \in Nat /\ walOffset \in Nat
           /\ salt \in Nat /\ committed \in Nat /\ now \in Nat /\ main \in Nat
           /\ segments \subseteq Segments /\ segment \in Segments
           /\ \E b \in Nat : Backed(segments, b)
           /\ \A s \in segments :
                 /\ s.gen \in Nat /\ s.index \in Nat /\ s.offset \in Nat /\ s.ts \in Nat
                 /\ s.data \in Seq(Units) /\ Len(s.data) \in Nat /\ Len(s.data) > 0
                 /\ EndOf(s) \in Nat /\ EndOf(s) = s.offset + Len(s.data)
                 /\ s.offset < EndOf(s) /\ s.ts < now
                 /\ Good(s) \in 1..Len(s.data) /\ Top(s) \in Nat
                 /\ Top(s) <= Newest
           /\ \A o \in snapshots :
                 /\ o.id \in Nat /\ o.id < now
                 /\ o.snap # NoSnap => o.snap \in Nat /\ o.snap <= Newest
<1>1. /\ generation \in Nat /\ walIndex \in Nat /\ walOffset \in Nat
      /\ salt \in Nat /\ committed \in Nat /\ now \in Nat /\ main \in Nat
      /\ segments \subseteq Segments /\ segment \in Segments
      /\ snapshots \subseteq Snapshots /\ Newest \in Nat
    BY DEF WrittenInv, EngineInv, TypeInv, TypeOK, Newest
<1>2. PICK b \in Nat : Backed(segments, b)
    BY DEF WrittenInv, ObjectInv
<1>3. ASSUME NEW s \in segments
      PROVE  /\ s.gen \in Nat /\ s.index \in Nat /\ s.offset \in Nat /\ s.ts \in Nat
             /\ s.data \in Seq(Units) /\ Len(s.data) \in Nat /\ Len(s.data) > 0
             /\ EndOf(s) \in Nat /\ EndOf(s) = s.offset + Len(s.data)
             /\ s.offset < EndOf(s) /\ s.ts < now
             /\ Good(s) \in 1..Len(s.data) /\ Top(s) \in Nat
    BY <1>2, ChainFacts DEF WrittenInv, ObjectInv
<1>4. ASSUME NEW s \in segments PROVE Top(s) <= Newest
    <2>1. SegmentCovered(s)
        BY DEF WrittenInv, EngineInv, StampInv, StampsCover
    <2>2. Top(s) # 0 => Top(s) <= Newest
        BY <1>3, <2>1 DEF SegmentCovered, Top
    <2> QED  BY <1>1, <1>3, <2>2
<1>5. ASSUME NEW o \in snapshots
      PROVE  /\ o.id \in Nat /\ o.id < now
             /\ o.snap # NoSnap => o.snap \in Nat /\ o.snap <= Newest
    <2>1. SnapshotCovered(o)
        BY DEF WrittenInv, EngineInv, StampInv, StampsCover
    <2>2. o.id \in Nat /\ o.id < now /\ (o.snap # NoSnap => o.snap \in Nat)
        BY <1>1 DEF Snapshots, WrittenInv, ObjectInv
    <2> QED  BY <2>1, <2>2 DEF SnapshotCovered
<1> QED  BY <1>1, <1>2, <1>3, <1>4, <1>5

LEMMA CoveredMore ==
    ASSUME NEW X, NEW Y, NEW o, NEW k \in Int, NEW j \in Int, NEW n \in Int, NEW m \in Int,
           \A t \in X : t.index \in Nat /\ Top(t) \in Nat,
           o.snap \in Int,
           \A t \in X : t.gen = o.id => t \in Y,
           Covered(X, o, k, n), j <= k, n <= m
    PROVE  Covered(Y, o, j, m)
<1>1. CASE k <= o.snap
    BY <1>1 DEF Covered
<1>2. CASE \E t \in X : t.gen = o.id /\ t.index < n /\ HasCommits(t) /\ k <= Top(t)
    <2>1. PICK t \in X : t.gen = o.id /\ t.index < n /\ HasCommits(t) /\ k <= Top(t)
        BY <1>2
    <2>2. t \in Y /\ t.index < m /\ j <= Top(t)
        BY <2>1
    <2> QED  BY <2>1, <2>2 DEF Covered
<1> QED  BY <1>1, <1>2 DEF Covered

\* Objects go only together with all that were stamped later in their generation,
\* and come only from what was read, and a snapshot begins a generation.
LEMMA ObjectsStay ==
    ASSUME WrittenInv, Chained(Objects), Founded(Objects, snapshots), [Next]_vars,
           ~SyncRead
    PROVE  Chained(Objects)' /\ Founded(Objects, snapshots)'
<1>1. /\ Objects \in SUBSET Segments
      /\ \A s \in segments : s.gen \in Nat
      /\ pc = "ship" => \A s \in segments : ~(segment.ts < s.ts)
    <2>1. pc = "ship" => \A s \in segments : s.ts < segment.ts
        BY DEF WrittenInv, ObjectInv
    <2>2. segment.ts \in Nat /\ \A s \in segments : s.ts \in Nat /\ s.gen \in Nat
        BY PositionFacts, SegmentFacts
    <2>3. Objects \in SUBSET Segments
        BY PositionFacts DEF Objects
    <2> QED  BY <2>1, <2>2, <2>3
<1>2. ASSUME IsPast(Objects', Objects),
             \A o \in snapshots' : o \in snapshots \/ o.snap = NoSnap
      PROVE  Chained(Objects)' /\ Founded(Objects, snapshots)'
    <2>1. Chained(Objects')
        BY <1>2, PastIsChained
    <2>2. \A o \in snapshots : Founded(Objects', {o})
        BY <1>1, <1>2, PastIsFounded
    <2>3. Founded(Objects', snapshots')
        BY <1>2, <2>2 DEF Founded
    <2> QED  BY <2>1, <2>3 DEF Chained, Founded
<1>3. CASE SegmentLands
    <2>1. Objects' = Objects
        BY <1>3 DEF SegmentLands, Objects
    <2> QED  BY <1>2, <1>3, <2>1 DEF SegmentLands, IsPast
<1>4. CASE SnapshotLands
    <2>1. Objects' = segments /\ Objects = segments
        BY <1>4 DEF SnapshotLands, Objects
    <2>2. \A o \in snapshots' : o \in snapshots \/ o.snap = NoSnap \/ o = snapshot
        BY <1>4 DEF SnapshotLands, Hollow
    <2>3. snapshot.id \in Nat /\ \A s \in segments : s.gen < snapshot.id
        BY <1>4, SegmentTypes DEF SnapshotLands, WrittenInv, EngineInv, DisjointInv, IdInv
    <2>4. \A s \in segments : s.gen # snapshot.id
        BY <1>1, <2>3
    <2>5. Founded(Objects', snapshots')
        BY <2>1, <2>2, <2>4 DEF Founded
    <2>6. Chained(Objects')
        BY <2>1
    <2> QED  BY <2>5, <2>6 DEF Chained, Founded
<1>5. CASE Prune
    <2>1. Objects' = segments' /\ Objects = segments
        BY <1>5, PruneLeaves DEF Prune, Objects
    <2>2. \A s \in segments', t \in segments : t.gen = s.gen => t \in segments'
        BY <1>5 DEF Prune, backendVars
    <2> QED  BY <1>2, <1>5, <2>1, <2>2, PruneLeaves DEF IsPast
<1>6. CASE BackendStays
    <2>1. CASE pc' = "ship"
        <3>1. Objects' = Objects
            BY <1>6, <2>1 DEF BackendStays, Objects
        <3> QED  BY <1>2, <1>6, <3>1 DEF BackendStays, IsPast
    <2>2. CASE pc' # "ship"
        <3>1. Objects' = segments /\ segments \subseteq Objects
            BY <1>6, <2>2 DEF BackendStays, Objects
        <3>2. \A s \in segments, t \in Objects : t.ts < s.ts => t \in segments
            BY <1>1 DEF Objects
        <3> QED  BY <1>2, <1>6, <3>1, <3>2 DEF BackendStays, IsPast
    <2> QED  BY <2>1, <2>2
<1>7. TypeInv
    BY DEF WrittenInv, EngineInv
<1> QED  BY <1>3, <1>4, <1>5, <1>6, <1>7, BackendCases
\* The segment that is read begins its WAL where the main file or what is shipped
\* of it ends, and every transaction in it follows.
LEMMA ReadEffect ==
    ASSUME WrittenInv, WalInv, FollowInv, AtRead, SyncRead
    PROVE  LET g == segment'
           IN  /\ g.gen = generation /\ g.index = walIndex /\ g.offset = walOffset
               /\ g.ts = now /\ g \in Segments /\ Len(g.data) > 0
               /\ EndOf(g) = committed /\ Good(g) \in 1..Len(g.data)
               /\ Len(g.data) = committed - walOffset
               /\ \A i \in 1..Len(g.data) : g.data[i] = wal[walOffset + i]
               /\ Aligned => Good(g) = Len(g.data)
               /\ walOffset + Good(g) <= CommittedSize(wal)
               /\ \A i \in 1..Good(g) : walOffset + i >= 2 =>
                     g.data[i].lsn = Base + walOffset + i - 1
<1> DEFINE g == [gen |-> generation, index |-> walIndex, offset |-> walOffset, ts |-> now,
                 data |-> SubSeq(wal, walOffset + 1, committed)]
           d == SubSeq(wal, walOffset + 1, committed)
           C == CommittedSize(wal)
<1>1. segment' = g /\ g.data = d
    BY DEF SyncRead
<1>2. /\ TypeInv /\ walOffset \in Nat /\ committed \in Nat /\ walOffset < committed
      /\ committed <= Len(wal) /\ generation \in Nat /\ walIndex \in Nat /\ now \in Nat
      /\ wal # <<>>
    BY DEF WrittenInv, EngineInv, TypeInv, TypeOK, ReadRange, SyncRead, AtRead
<1>3. /\ wal \in Seq(Units) /\ Len(wal) \in Nat /\ C \in 0..Len(wal) /\ Base \in Nat
      /\ C >= 1 /\ \A p \in 1..C : wal[p].cycle = wal[1].cycle
    BY <1>2, WalFacts
<1>4. /\ d \in Seq(Units) /\ Len(d) = committed - walOffset
      /\ \A i \in 1..Len(d) : d[i] = wal[walOffset + i]
    <2>1. Len(d) = committed - walOffset /\ \A i \in 1..Len(d) : d[i] = wal[walOffset + i]
        BY <1>2, <1>3
    <2>2. d \in Seq(Units)
        BY <1>2, <1>3
    <2> QED  BY <2>1, <2>2
<1>5. g \in Segments
    BY <1>2, <1>4 DEF Segments
<1> HIDE DEF d, C
<1>6. /\ Len(d) \in Nat /\ Len(d) > 0 /\ \A i \in 1..Len(d) : walOffset + i \in 1..Len(wal)
    BY <1>2, <1>3, <1>4
<1>7. /\ CommittedSize(d) \in 1..Len(d)
      /\ \A p \in 1..CommittedSize(d) : d[p].cycle = d[1].cycle
    BY <1>4, <1>6, CommittedPrefix
<1>8. ASSUME Aligned PROVE CommittedSize(d) = Len(d) /\ committed <= C
    <2>1. committed <= C
        BY <1>8 DEF AtRead, SyncRead, C
    <2>2. \A i \in 1..Len(d) : walOffset + i \in 1..C
        BY <1>2, <1>3, <1>4, <2>1
    <2>3. \A i \in 1..Len(d) : d[i].cycle = wal[1].cycle
        BY <1>3, <1>4, <2>2
    <2>4. 1 \in 1..Len(d) /\ Len(d) \in 0..Len(d) /\ ~(Len(d) < Len(d))
        BY <1>6
    <2>5. \A i \in 1..Len(d) : d[i].cycle = d[1].cycle
        BY <2>3, <2>4
    <2> QED  BY <1>4, <2>1, <2>4, <2>5, CommittedSizeIs
<1>9. walOffset + CommittedSize(d) <= C
    <2>1. CASE Aligned
        BY <1>2, <1>3, <1>4, <1>8, <2>1
    <2>2. CASE ~Aligned
        <3>1. walOffset = 0
            BY <2>2 DEF AtRead, SyncRead
        <3>2. ASSUME CommittedSize(d) > C PROVE FALSE
            <4>1. C + 1 \in 1..CommittedSize(d) /\ C + 1 \in 1..Len(d) /\ 1 \in 1..Len(d)
                BY <1>3, <1>6, <1>7, <3>2
            <4>2. d[C + 1] = wal[C + 1] /\ d[1] = wal[1] /\ C < Len(wal)
                <5>1. walOffset + (C + 1) = C + 1 /\ walOffset + 1 = 1
                    BY <1>3, <3>1
                <5>2. C < Len(wal)
                    BY <1>2, <1>3, <1>4, <3>1, <4>1
                <5> QED  BY <1>4, <4>1, <5>1, <5>2
            <4>3. wal[C + 1].cycle # wal[1].cycle
                BY <1>3, <4>2, CommittedPrefix DEF C
            <4> QED  BY <1>7, <4>1, <4>2, <4>3
        <3> QED  BY <1>3, <1>7, <3>1, <3>2
    <2> QED  BY <2>1, <2>2
<1>10. ASSUME NEW i \in 1..CommittedSize(d), walOffset + i >= 2
       PROVE  d[i].lsn = Base + walOffset + i - 1
    <2>1. i \in 1..Len(d) /\ walOffset + i \in 2..C
        BY <1>2, <1>3, <1>7, <1>9, <1>10
    <2>2. wal[walOffset + i].lsn = Base + (walOffset + i) - 1
        BY <1>2, <2>1 DEF WalInv, C
    <2>3. d[i] = wal[walOffset + i] /\ i \in Nat
        BY <1>4, <2>1
    <2>4. Base + (walOffset + i) - 1 = Base + walOffset + i - 1
        BY <1>2, <1>3, <2>3
    <2> QED  BY <2>2, <2>3, <2>4
<1>11. g.offset = walOffset /\ EndOf(g) = walOffset + Len(d)
    BY DEF EndOf, d
<1>12. EndOf(g) = committed /\ Good(g) = CommittedSize(d)
    BY <1>2, <1>4, <1>11 DEF Good, d
<1>13. g.gen = generation /\ g.index = walIndex /\ g.ts = now
    OBVIOUS
<1> HIDE DEF g
<1> QED  BY <1>1, <1>4, <1>5, <1>6, <1>7, <1>8, <1>9, <1>10, <1>11, <1>12, <1>13 DEF C
\* Units that both are of the WAL are of one run of it.
LEMMA SameWal ==
    ASSUME NEW s \in Segments, NEW t \in Segments, NEW b \in Nat, NEW c,
           NEW i \in 1..Len(s.data), NEW j \in 1..Len(t.data),
           s.data[i].cycle = c, t.data[j].cycle = c,
           s.offset + i >= 2 => s.data[i].lsn = b + s.offset + i - 1,
           t.offset + j >= 2 => t.data[j].lsn = b + t.offset + j - 1
    PROVE  SameLog(s, i, t, j)
<1>1. s.offset \in Nat /\ t.offset \in Nat /\ Len(s.data) \in Nat /\ Len(t.data) \in Nat
    BY SegmentFacts
<1>2. s.offset + i >= 2 => s.data[i].lsn - (s.offset + i) = b - 1
    BY <1>1
<1>3. t.offset + j >= 2 => t.data[j].lsn - (t.offset + j) = b - 1
    BY <1>1
<1> QED  BY <1>2, <1>3 DEF SameLog

\* The segments of the current index are what the WAL holds.
LEMMA ShippedOfIndex ==
    ASSUME WrittenInv, WalInv, FollowInv, Live, Aligned, "landed" \notin SegmentOutcomes,
           NEW t \in segments, t.gen = generation, t.index = walIndex
    PROVE  /\ walOffset > 0 /\ EndOf(t) <= walOffset
           /\ \A j \in 1..Len(t.data) :
                 /\ t.offset + j \in 1..CommittedSize(wal) /\ t.offset + j <= walOffset
                 /\ t.data[j] = wal[t.offset + j]
                 /\ t.data[j].cycle = wal[1].cycle
                 /\ t.offset + j >= 2 => t.data[j].lsn = Base + t.offset + j - 1
<1>1. /\ walOffset \in Nat /\ t.offset \in Nat /\ Len(t.data) \in Nat
      /\ EndOf(t) = t.offset + Len(t.data) /\ t.offset < EndOf(t) /\ TypeInv
    BY PositionFacts DEF WrittenInv, EngineInv
<1>2. EndOf(t) <= walOffset
    BY DEF WrittenInv, EngineInv, DisjointInv, PositionInv
<1>3. walOffset > 0
    BY <1>1, <1>2
<1>4. /\ walOffset <= CommittedSize(wal)
      /\ \A i \in 1..Len(t.data) : t.data[i] = wal[t.offset + i]
    <2>1. t \in OfGeneration
        BY DEF OfGeneration
    <2> QED  BY <1>3, <2>1 DEF FollowInv
<1>5. /\ CommittedSize(wal) \in Nat /\ Base \in Nat
      /\ \A p \in 1..CommittedSize(wal) : wal[p].cycle = wal[1].cycle
    BY <1>1, WalFacts
<1>6. ASSUME NEW j \in 1..Len(t.data)
      PROVE  /\ t.offset + j \in 1..CommittedSize(wal) /\ t.offset + j <= walOffset
             /\ t.data[j] = wal[t.offset + j]
             /\ t.data[j].cycle = wal[1].cycle
             /\ t.offset + j >= 2 => t.data[j].lsn = Base + t.offset + j - 1
    <2>1. t.offset + j \in 1..CommittedSize(wal) /\ t.offset + j <= walOffset
        BY <1>1, <1>2, <1>4, <1>5
    <2>2. t.data[j] = wal[t.offset + j] /\ t.data[j].cycle = wal[1].cycle
        BY <1>4, <1>5, <2>1
    <2>3. ASSUME t.offset + j >= 2 PROVE t.data[j].lsn = Base + t.offset + j - 1
        <3>1. t.offset + j \in 2..CommittedSize(wal)
            BY <2>1, <2>3
        <3>2. wal[t.offset + j].lsn = Base + (t.offset + j) - 1
            BY <3>1 DEF WalInv, Aligned
        <3> QED  BY <1>1, <1>5, <2>2, <3>2
    <2> QED  BY <2>1, <2>2, <2>3
<1> QED  BY <1>2, <1>3, <1>6
\* What is read continues what was stamped before.
LEMMA ReadIsChained ==
    ASSUME WrittenInv, WalInv, ChainInv, SyncRead, "landed" \notin SegmentOutcomes
    PROVE  Chained(Objects)'
<1> DEFINE g == segment'
           C == CommittedSize(wal)
<1>1. /\ g.gen = generation /\ g.index = walIndex /\ g.offset = walOffset
      /\ g.ts = now /\ g \in Segments /\ Len(g.data) > 0
      /\ EndOf(g) = committed /\ Good(g) \in 1..Len(g.data)
      /\ Len(g.data) = committed - walOffset
      /\ \A i \in 1..Len(g.data) : g.data[i] = wal[walOffset + i]
      /\ Aligned => Good(g) = Len(g.data)
      /\ walOffset + Good(g) <= C
      /\ \A i \in 1..Good(g) : walOffset + i >= 2 =>
            g.data[i].lsn = Base + walOffset + i - 1
    BY ReadEffect DEF ChainInv
<1>2. /\ generation \in Nat /\ walIndex \in Nat /\ walOffset \in Nat /\ committed \in Nat
      /\ now \in Nat
      /\ \A s \in segments :
            /\ s \in Segments /\ s.index \in Nat /\ s.offset \in Nat /\ s.ts \in Nat
            /\ Len(s.data) \in Nat /\ EndOf(s) \in Nat /\ s.offset < EndOf(s) /\ s.ts < now
            /\ Top(s) \in Nat
    BY PositionFacts
<1>3. TypeInv /\ pc = "read" /\ Live /\ wal # <<>>
    <2>1. pc = "read" /\ generation # 0
        BY DEF SyncRead, WrittenInv, EngineInv, DisjointInv, IdInv
    <2> QED  BY <2>1 DEF Live, ChainInv, AtRead, WrittenInv, EngineInv
<1>4. C \in Nat /\ Base \in Nat /\ \A p \in 1..C : wal[p].cycle = wal[1].cycle
    BY <1>3, WalFacts
<1>5. Objects = segments /\ Objects' = segments \cup {g}
    BY <1>3 DEF Objects, SyncRead, backendVars
<1>6. \A t \in segments : t.gen = generation =>
         /\ t.index <= walIndex
         /\ t.index = walIndex => EndOf(t) <= walOffset
    BY DEF WrittenInv, EngineInv, DisjointInv, PositionInv
<1>7. Len(g.data) \in Nat
    BY <1>1
<1> HIDE DEF g, C
<1>8. ASSUME walOffset + Good(g) >= 2
      PROVE  Top(g) = Base + walOffset + Good(g) - 1
    BY <1>1, <1>7, <1>8 DEF Top
<1>9. ASSUME NEW i \in 1..Good(g), walOffset + i >= 2
      PROVE  g.data[i].lsn = Top(g) + i - Good(g)
    <2>1. walOffset + Good(g) >= 2 /\ Good(g) \in Nat
        BY <1>1, <1>2, <1>7, <1>9
    <2>2. Top(g) = Base + walOffset + Good(g) - 1
        BY <1>8, <2>1
    <2>3. g.data[i].lsn = Base + walOffset + i - 1
        BY <1>1, <1>9
    <2> QED  BY <1>2, <1>4, <2>1, <2>2, <2>3
<1>10. ASSUME walOffset # 0
       PROVE  \E t \in segments : SameIndex(g, t) /\ EndOf(t) = walOffset /\ t.ts < now
    <2>1. PICK t \in OfGeneration : t.index = walIndex /\ EndOf(t) = walOffset
        BY <1>2, <1>3, <1>10 DEF ChainInv, FollowInv
    <2> QED  BY <1>1, <1>2, <2>1 DEF OfGeneration, SameIndex
<1>11. ASSUME NEW t \in segments, SameIndex(g, t),
              NEW i \in 1..Len(g.data), NEW j \in 1..Len(t.data)
       PROVE  SameLog(g, i, t, j) /\ SameLog(t, j, g, i)
    <2>1. t.gen = generation /\ t.index = walIndex
        BY <1>1, <1>11 DEF SameIndex
    <2>2. walOffset > 0 /\ Aligned
        <3>1. walOffset > 0
            BY <1>2, <1>6, <2>1
        <3> QED  BY <1>2, <1>3, <3>1 DEF ChainInv, AtRead
    <2>3. /\ t.data[j].cycle = wal[1].cycle
          /\ t.offset + j >= 2 => t.data[j].lsn = Base + t.offset + j - 1
        BY <1>3, <2>1, <2>2, ShippedOfIndex DEF ChainInv
    <2>4. i \in 1..Good(g) /\ walOffset + i \in 1..C
        BY <1>1, <1>2, <1>4, <1>7, <2>2
    <2>5. g.data[i].cycle = wal[1].cycle
        BY <1>1, <1>4, <2>4
    <2>6. g.offset + i >= 2 => g.data[i].lsn = Base + g.offset + i - 1
        BY <1>1, <2>4
    <2>7. t \in Segments /\ g \in Segments
        BY <1>1, <1>2
    <2> QED  BY <1>4, <2>3, <2>5, <2>6, <2>7, SameWal
<1>12. ASSUME NEW t \in segments, t.gen = generation, HasCommits(t), HasCommits(g)
       PROVE  Top(t) <= Top(g)
    <2>1. Aligned
        <3> SUFFICES ASSUME ~Aligned PROVE FALSE
            OBVIOUS
        <3>1. walOffset = 0 /\ walIndex = 0
            BY <1>3 DEF ChainInv, AtRead
        <3> QED  BY <1>2, <1>6, <1>12, <3>1
    <2>2. Top(t) <= Base + committed - 1
        BY <1>3, <1>12, <2>1 DEF ChainInv, AtRead, OfGeneration
    <2>3. walOffset + Good(g) = committed
        BY <1>1, <1>2, <2>1
    <2>4. Top(g) = Base + walOffset + Good(g) - 1
        BY <1>1, <1>8, <1>12 DEF HasCommits
    <2>5. Good(g) \in Nat
        BY <1>1, <1>7
    <2>6. Top(g) = Base + committed - 1
        BY <1>2, <1>4, <2>3, <2>4, <2>5
    <2> QED  BY <2>2, <2>6
<1>13. Chained(segments)
    BY <1>5 DEF ChainInv
<1>14. ASSUME NEW s \in segments \cup {g}
       PROVE  /\ \A i \in 1..Good(s) : s.offset + i >= 2 =>
                    s.data[i].lsn = Top(s) + i - Good(s)
              /\ s.offset # 0 => \E t \in segments \cup {g} :
                    SameIndex(s, t) /\ EndOf(t) = s.offset /\ t.ts < s.ts
              /\ \A t \in segments \cup {g} : SameIndex(s, t) /\ s # t =>
                    \A i \in 1..Len(s.data), j \in 1..Len(t.data) : SameLog(s, i, t, j)
              /\ \A t \in segments \cup {g} : t.gen = s.gen =>
                    /\ t.ts = s.ts => t = s
                    /\ t.ts < s.ts =>
                          /\ t.index < s.index \/ (t.index = s.index /\ EndOf(t) <= s.offset)
                          /\ HasCommits(t) /\ HasCommits(s) => Top(t) <= Top(s)
    <2>1. CASE s = g
        <3>1. \A i \in 1..Good(s) : s.offset + i >= 2 =>
                 s.data[i].lsn = Top(s) + i - Good(s)
            BY <1>1, <1>9, <2>1
        <3>2. s.offset # 0 => \E t \in segments \cup {g} :
                 SameIndex(s, t) /\ EndOf(t) = s.offset /\ t.ts < s.ts
            BY <1>1, <1>10, <2>1
        <3>3. \A t \in segments \cup {g} : SameIndex(s, t) /\ s # t =>
                 \A i \in 1..Len(s.data), j \in 1..Len(t.data) : SameLog(s, i, t, j)
            BY <1>11, <2>1
        <3>4. \A t \in segments \cup {g} : t.ts = s.ts => t = s
            BY <1>1, <1>2, <2>1
        <3>5. ASSUME NEW t \in segments \cup {g}, t.gen = s.gen, t.ts < s.ts
              PROVE  /\ t.index < s.index \/ (t.index = s.index /\ EndOf(t) <= s.offset)
                     /\ HasCommits(t) /\ HasCommits(s) => Top(t) <= Top(s)
            <4>1. t \in segments /\ t.gen = generation
                BY <1>1, <1>2, <2>1, <3>5
            <4>2. t.index < s.index \/ (t.index = s.index /\ EndOf(t) <= s.offset)
                BY <1>1, <1>2, <1>6, <2>1, <4>1
            <4> QED  BY <1>12, <2>1, <4>1, <4>2
        <3> QED  BY <3>1, <3>2, <3>3, <3>4, <3>5
    <2>2. CASE s \in segments
        <3>1. /\ \A i \in 1..Good(s) : s.offset + i >= 2 =>
                    s.data[i].lsn = Top(s) + i - Good(s)
              /\ s.offset # 0 => \E t \in segments :
                    SameIndex(s, t) /\ EndOf(t) = s.offset /\ t.ts < s.ts
            BY <1>13, <2>2 DEF Chained
        <3>2. ASSUME NEW t \in segments \cup {g}, SameIndex(s, t), s # t,
                     NEW i \in 1..Len(s.data), NEW j \in 1..Len(t.data)
              PROVE  SameLog(s, i, t, j)
            <4>1. CASE t = g
                <5>1. SameIndex(g, s)
                    BY <3>2, <4>1 DEF SameIndex
                <5> QED  BY <1>11, <2>2, <3>2, <4>1, <5>1
            <4>2. CASE t \in segments
                BY <1>13, <2>2, <3>2, <4>2 DEF Chained
            <4> QED  BY <4>1, <4>2
        <3>3. ASSUME NEW t \in segments \cup {g}, t.gen = s.gen
              PROVE  /\ t.ts = s.ts => t = s
                     /\ t.ts < s.ts =>
                          /\ t.index < s.index \/ (t.index = s.index /\ EndOf(t) <= s.offset)
                          /\ HasCommits(t) /\ HasCommits(s) => Top(t) <= Top(s)
            <4>1. CASE t = g
                <5>1. s.ts < g.ts /\ s.ts \in Nat /\ g.ts \in Nat
                    BY <1>1, <1>2, <2>2
                <5> QED  BY <4>1, <5>1
            <4>2. CASE t \in segments
                BY <1>13, <2>2, <3>3, <4>2, ChainOrder
            <4> QED  BY <4>1, <4>2
        <3> QED  BY <3>1, <3>2, <3>3
    <2> QED  BY <2>1, <2>2
<1>15. Chained(segments \cup {g})
    BY <1>14 DEF Chained
<1> QED  BY <1>5, <1>15 DEF Chained

\* ... and goes on where the snapshot or the indexes before it ended.
LEMMA ReadIsFounded ==
    ASSUME WrittenInv, WalInv, ChainInv, SyncRead
    PROVE  Founded(Objects, snapshots)'
<1> DEFINE g == segment'
<1>1. /\ g.gen = generation /\ g.index = walIndex /\ g.offset = walOffset
      /\ Len(g.data) > 0 /\ Good(g) \in 1..Len(g.data)
      /\ Len(g.data) = committed - walOffset
      /\ Aligned => Good(g) = Len(g.data)
      /\ \A i \in 1..Good(g) : walOffset + i >= 2 =>
            g.data[i].lsn = Base + walOffset + i - 1
    BY ReadEffect DEF ChainInv
<1>2. /\ generation \in Nat /\ walIndex \in Nat /\ walOffset \in Nat /\ committed \in Nat
      /\ \A s \in segments : s.index \in Nat /\ Top(s) \in Nat
      /\ \A o \in snapshots : o.snap # NoSnap => o.snap \in Nat
    BY PositionFacts
<1>3. TypeInv /\ pc = "read" /\ Live /\ wal # <<>>
    <2>1. pc = "read" /\ generation # 0
        BY DEF SyncRead, WrittenInv, EngineInv, DisjointInv, IdInv
    <2> QED  BY <2>1 DEF Live, ChainInv, AtRead, WrittenInv, EngineInv
<1>4. Base \in Nat /\ main \in Nat /\ Base <= main
    BY <1>3, WalFacts
<1>5. Objects = segments /\ Objects' = segments \cup {g} /\ snapshots' = snapshots
    BY <1>3 DEF Objects, SyncRead, backendVars
<1>6. Len(g.data) \in Nat /\ Good(g) \in Nat
    BY <1>1, <1>2
<1> HIDE DEF g
<1>7. ASSUME NEW o \in snapshots, o.id = generation, o.snap # NoSnap, HasCommits(g)
      PROVE  o.snap <= Top(g) /\ Covered(segments, o, BaseOf(g), walIndex)
    <2>1. Top(g) = Base + walOffset + Good(g) - 1
        BY <1>1, <1>6, <1>7 DEF Top, HasCommits
    <2>2. BaseOf(g) = Base
        BY <1>1, <1>2, <1>4, <1>6, <2>1 DEF BaseOf
    <2>3. Current(o)
        BY <1>7 DEF Current
    <2>4. o.snap <= Top(g)
        <3>1. CASE Aligned
            <4>1. o.snap <= Base + committed - 1
                BY <1>3, <2>3, <3>1 DEF ChainInv, AtRead
            <4>2. walOffset + Good(g) = committed
                BY <1>1, <1>2, <3>1
            <4> QED  BY <1>2, <1>4, <1>6, <2>1, <4>1, <4>2
        <3>2. CASE ~Aligned
            <4>1. walOffset = 0 /\ walIndex = 0 /\ main = Base
                BY <1>3, <3>2 DEF ChainInv, AtRead
            <4>2. main = o.snap
                BY <1>3, <2>3, <4>1 DEF ChainInv, FollowInv
            <4>3. Good(g) >= 1
                BY <1>1, <1>6
            <4> QED  BY <1>4, <1>6, <2>1, <4>1, <4>2, <4>3
        <3> QED  BY <3>1, <3>2
    <2>5. Covered(segments, o, Base, walIndex)
        <3>1. CASE walOffset > 0
            <4>1. Aligned
                BY <1>2, <1>3, <3>1 DEF ChainInv, AtRead
            <4> QED  BY <1>3, <2>3, <3>1, <4>1 DEF ChainInv, FollowInv
        <3>2. CASE walOffset = 0
            <4>1. Covered(segments, o, main, walIndex)
                BY <1>3, <2>3, <3>2 DEF ChainInv, FollowInv
            <4>2. o.snap \in Int
                BY <1>2, <1>7
            <4> QED  BY <1>2, <1>4, <4>1, <4>2, CoveredMore
        <3> QED  BY <1>2, <3>1, <3>2
    <2> QED  BY <2>2, <2>4, <2>5
<1>8. ASSUME NEW o \in snapshots, NEW s \in segments \cup {g},
             o.id = s.gen, o.snap # NoSnap, HasCommits(s)
      PROVE  o.snap <= Top(s) /\ Covered(segments \cup {g}, o, BaseOf(s), s.index)
    <2>1. o.snap <= Top(s) /\ Covered(segments, o, BaseOf(s), s.index)
        <3>1. CASE s = g
            BY <1>1, <1>7, <1>8, <3>1
        <3>2. CASE s \in segments
            BY <1>5, <1>8, <3>2 DEF ChainInv, Founded
        <3> QED  BY <3>1, <3>2
    <2> QED  BY <2>1 DEF Covered
<1>9. Founded(segments \cup {g}, snapshots)
    BY <1>8 DEF Founded
<1> QED  BY <1>5, <1>9 DEF Founded
-----------------------------------------------------------------------------
(* The chain is kept: where the engine is *)

\* What ChainInv says of the engine, beyond the objects.
PlaceInv == FollowInv /\ AtRead /\ AtShip /\ AtCheckpoint /\ AtSnapshot

\* A job that ends leaves nothing in flight.
LEMMA EndsPlace ==
    ASSUME PlaceInv, FollowInv', pc' \in {"idle", "stopped", "finalSync", "stat"},
           Live, UNCHANGED <<generation, snapshots>>
    PROVE  PlaceInv'
<1>1. AtRead' /\ AtShip' /\ AtCheckpoint'
    BY DEF AtRead, AtShip, AtCheckpoint
<1>2. AtSnapshot'
    BY DEF PlaceInv, AtSnapshot, Live
<1> QED  BY <1>1, <1>2 DEF PlaceInv

\* Nothing that FollowInv is about changes.
LEMMA FollowStays ==
    ASSUME FollowInv, Live, UNCHANGED <<storeVars, positionVars, backendVars>>
    PROVE  FollowInv'
<1>1. UNCHANGED <<main, wal, cycle, generation, walIndex, walOffset, salt, snapshots, segments>>
    BY DEF storeVars, positionVars, backendVars
<1>2. Base' = Base
    BY DEF Base, Newest, storeVars
<1>3. (Aligned' <=> Aligned) /\ OfGeneration' = OfGeneration
    BY <1>1 DEF Aligned, OfGeneration
<1>4. \A o : Current(o)' <=> Current(o)
    BY <1>1 DEF Current
<1>5. \A o, k, n : Covered(segments', o, k, n) <=> Covered(segments, o, k, n)
    BY <1>1
<1> HIDE DEF Aligned, OfGeneration, Current, Covered
<1> QED  BY <1>1, <1>2, <1>3, <1>4, <1>5 DEF FollowInv

\* Off the WAL, only the last part of ChainInv says something.
LEMMA AwayPlace ==
    ASSUME ~Live', AtSnapshot', pc' \notin {"read", "ship", "checkpoint"}
    PROVE  PlaceInv'
BY DEF PlaceInv, FollowInv, AtRead, AtShip, AtCheckpoint

\* A transaction commits, or spills.
LEMMA WriterPlace ==
    ASSUME WrittenInv, WalInv, PlaceInv, Commit \/ Spill, QuietCheckpoints,
           "landed" \notin SegmentOutcomes
    PROVE  PlaceInv'
<1> DEFINE C == CommittedSize(wal)
<1>1. /\ WalGoesOn \/ WalBegins
      /\ UNCHANGED <<main, pc, phase, positionVars, flightVars, backendVars>>
      /\ TypeInv
    BY WriterEffect DEF WrittenInv, EngineInv
<1>2. UNCHANGED <<main, pc, generation, walIndex, walOffset, salt, committed, segment,
                  snapshot, snapshots, segments>>
    BY <1>1 DEF positionVars, flightVars, backendVars
<1>3. /\ walIndex \in Nat /\ walOffset \in Nat /\ salt \in Nat /\ committed \in Nat
      /\ segment \in Segments
      /\ \A s \in segments : s.offset \in Nat /\ Len(s.data) \in Nat
    BY PositionFacts
<1>4. /\ C \in Nat /\ Base \in Nat /\ main \in Nat /\ cycle \in Nat /\ Newest \in Nat
      /\ Base <= main /\ main <= Newest
      /\ wal # <<>> => C >= 1 /\ Base = Newest - C + 1
    BY <1>1, WalFacts
<1>5. PositionInv /\ FlightInv
    BY DEF WrittenInv, EngineInv, DisjointInv
<1>6. FollowInv /\ AtRead /\ AtShip /\ AtCheckpoint /\ AtSnapshot
    BY DEF PlaceInv
<1>7. /\ Live' <=> Live
      /\ OfGeneration' = OfGeneration
      /\ \A o : Current(o)' <=> Current(o)
      /\ \A o, k, n : Covered(segments', o, k, n) <=> Covered(segments, o, k, n)
    BY <1>2 DEF Live, OfGeneration, Current
<1>8. AtSnapshot'
    BY <1>2, <1>6, <1>7 DEF AtSnapshot
<1>9. AtCheckpoint'
    <2>1. pc \in {"read", "ship", "checkpoint"} => ~(committed >= CheckpointThreshold)
        <3>1. pc \in {"read", "ship", "checkpoint"} => committed < CheckpointThreshold
            BY DEF Commit, Spill, WriterOpen
        <3> QED  BY <1>3, <3>1, ConfigAssumption DEF ConfigAssumption
    <2>2. pc # "checkpoint"
        BY <1>6, <2>1 DEF AtCheckpoint
    <2> QED  BY <1>2, <2>1, <2>2 DEF AtCheckpoint
<1>10. CASE WalGoesOn
    <2>1. /\ wal # <<>> /\ wal' # <<>> /\ Base' = Base /\ cycle' = cycle
          /\ CommittedSize(wal') = C + 1 /\ \A p \in 1..C : wal'[p] = wal[p]
        BY <1>10 DEF WalGoesOn
    <2>2. Aligned' <=> Aligned
        <3>1. 1 \in 1..C
            BY <1>4, <2>1
        <3> QED  BY <1>2, <2>1, <3>1 DEF Aligned
    <2>3. ASSUME Live, walOffset > 0, Aligned
          PROVE  \A t \in OfGeneration : t.index = walIndex =>
                    \A i \in 1..Len(t.data) : t.data[i] = wal'[t.offset + i]
        <3> SUFFICES ASSUME NEW t \in OfGeneration, t.index = walIndex,
                            NEW i \in 1..Len(t.data)
                     PROVE  t.data[i] = wal'[t.offset + i]
            OBVIOUS
        <3>1. t \in segments /\ t.gen = generation
            BY DEF OfGeneration
        <3>2. t.offset + i \in 1..C /\ t.data[i] = wal[t.offset + i]
            BY <1>6, <2>3, <3>1, ShippedOfIndex
        <3> QED  BY <2>1, <3>2
    <2>4. FollowInv'
        BY <1>2, <1>3, <1>4, <1>6, <1>7, <2>1, <2>2, <2>3 DEF FollowInv
    <2>5. AtRead'
        BY <1>2, <1>3, <1>4, <1>6, <1>7, <2>1, <2>2 DEF AtRead
    <2>6. AtShip'
        <3>1. ASSUME pc = "ship", Aligned, NEW i \in 1..Len(segment.data)
              PROVE  segment.data[i] = wal'[walOffset + i]
            <4>1. /\ segment.offset = walOffset /\ EndOf(segment) = committed
                  /\ committed <= C /\ segment.data[i] = wal[walOffset + i]
                BY <1>5, <1>6, <3>1 DEF FlightInv, AtShip
            <4>2. Len(segment.data) \in Nat /\ EndOf(segment) = segment.offset + Len(segment.data)
                BY <1>3, SegmentFacts
            <4>3. walOffset + i \in 1..C
                BY <1>3, <1>4, <4>1, <4>2
            <4> QED  BY <2>1, <4>1, <4>3
        <3> QED  BY <1>2, <1>3, <1>4, <1>6, <2>1, <2>2, <3>1 DEF AtShip
    <2> QED  BY <1>8, <1>9, <2>4, <2>5, <2>6 DEF PlaceInv
<1>11. CASE WalBegins
    <2>1. /\ main = Newest /\ wal' # <<>> /\ wal'[1].cycle = cycle + 1
          /\ Base' = main /\ cycle' = cycle + 1 /\ (wal = <<>> \/ C > 1)
        BY <1>11 DEF WalBegins
    <2>2. Live => ~Aligned'
        <3>1. Live => salt <= cycle
            BY <1>6 DEF FollowInv
        <3> QED  BY <1>2, <1>3, <1>4, <2>1, <3>1 DEF Aligned
    <2>3. FollowInv'
        BY <1>2, <1>3, <1>4, <1>6, <1>7, <2>1, <2>2 DEF FollowInv
    <2>4. pc \in {"read", "ship"} => Live
        BY DEF Live, WrittenInv, EngineInv, DisjointInv, IdInv
    <2>5. AtRead'
        <3> SUFFICES ASSUME pc = "read" PROVE walOffset = 0 /\ walIndex = 0
            BY <1>2, <2>1, <2>2, <2>4 DEF AtRead
        <3>1. CASE Aligned
            <4>1. wal # <<>> /\ committed <= C /\ walOffset < committed
                BY <1>6, <3>1 DEF AtRead, WrittenInv, EngineInv, TypeInv, ReadRange
            <4>2. CASE walOffset > 0
                <5>1. main <= Base + walOffset - 1
                    BY <1>6, <2>4, <3>1, <4>2 DEF FollowInv
                <5> QED  BY <1>3, <1>4, <2>1, <4>1, <5>1
            <4>3. CASE walOffset = 0 /\ walIndex > 0
                <5>1. main = Base
                    BY <1>6, <2>4, <4>3 DEF FollowInv
                <5> QED  BY <1>3, <1>4, <2>1, <4>1, <5>1
            <4> QED  BY <1>3, <4>2, <4>3
        <3>2. CASE ~Aligned
            BY <1>6, <3>2 DEF AtRead
        <3> QED  BY <3>1, <3>2
    <2>6. AtShip'
        BY <1>2, <2>1, <2>2, <2>4 DEF AtShip
    <2> QED  BY <1>8, <1>9, <2>3, <2>5, <2>6 DEF PlaceInv
<1> QED  BY <1>1, <1>10, <1>11
\* The head of sync.
LEMMA ScanPlace ==
    ASSUME WrittenInv, WalInv, PlaceInv, SyncTick \/ FinalSync, ~LocalErrors
    PROVE  PlaceInv'
<1> DEFINE C == CommittedSize(wal)
           reset == walOffset > 0 /\ wal[1].cycle # salt
           off == IF reset THEN 0 ELSE walOffset
<1>1. /\ SyncScan /\ pc \in {"idle", "finalSync"}
      /\ UNCHANGED <<storeVars, now, backendVars>>
    BY DEF SyncTick, FinalSync, SyncScanFails
<1>2. /\ walIndex \in Nat /\ walOffset \in Nat /\ salt \in Nat /\ committed \in Nat
      /\ \A s \in segments : s.index \in Nat /\ Top(s) \in Nat /\ Top(s) <= Newest
      /\ \A o \in snapshots : o.snap # NoSnap => o.snap \in Nat /\ o.snap <= Newest
    BY PositionFacts
<1>3. /\ C \in Nat /\ Base \in Nat /\ main \in Nat /\ cycle \in Nat /\ Newest \in Nat
      /\ wal # <<>> => C >= 1 /\ Base = Newest - C + 1 /\ wal[1].cycle \in Nat
                       /\ wal[1].cycle <= cycle
    BY WalFacts DEF WrittenInv, EngineInv
<1>4. FollowInv /\ AtRead /\ AtShip /\ AtCheckpoint /\ AtSnapshot
    BY DEF PlaceInv
<1>5. Live /\ generation # 0
    BY <1>1, <1>4 DEF AtSnapshot, Live
<1>6. ASSUME NEW ok \in BOOLEAN, Finish(ok) PROVE pc' \in {"idle", "stopped"}
    BY <1>6 DEF Finish, NextPc
<1>7. CASE wal = <<>>
    <2>1. Finish(TRUE) /\ UNCHANGED positionVars
        BY <1>1, <1>7 DEF SyncScan
    <2>2. FollowInv'
        BY <1>1, <1>4, <1>5, <2>1, FollowStays
    <2> QED  BY <1>1, <1>5, <1>6, <2>1, <2>2, EndsPlace DEF positionVars, backendVars
<1>8. CASE wal # <<>>
    <2>1. /\ walIndex' = (IF reset THEN walIndex + 1 ELSE walIndex)
          /\ walOffset' = off
          /\ salt' = (IF off = 0 THEN wal[1].cycle ELSE salt)
          /\ generation' = generation
          /\ IF C <= off THEN MaybeCheckpoint(C, off)
             ELSE /\ pc' = "read" /\ committed' = C
                  /\ UNCHANGED <<phase, alertVars, segment, snapshot>>
        BY <1>1, <1>5, <1>8 DEF SyncScan
    <2>2. UNCHANGED <<main, wal, cycle, snapshots, segments, generation>>
        BY <1>1, <2>1 DEF storeVars, backendVars
    <2>3. /\ Base' = Base /\ OfGeneration' = OfGeneration /\ CommittedSize(wal') = C
          /\ \A o : Current(o)' <=> Current(o)
          /\ \A o, k, n : Covered(segments', o, k, n) <=> Covered(segments, o, k, n)
        BY <1>1, <2>2 DEF Base, Newest, OfGeneration, Current, storeVars
    <2>4. pc' \in {"idle", "stopped", "checkpoint", "read"}
        BY <1>6, <2>1 DEF MaybeCheckpoint
    <2>5. Live'
        BY <1>5, <2>2, <2>4 DEF Live
    <2>6. FollowInv'
        <3>1. CASE reset
            <4>1. /\ walIndex' = walIndex + 1 /\ walOffset' = 0 /\ salt' = wal[1].cycle
                BY <2>1, <3>1
            <4>2. main = Base
                BY <1>4, <1>5, <3>1 DEF FollowInv, Aligned
            <4>3. \A o \in snapshots : Current(o) => Covered(segments, o, main, walIndex + 1)
                BY <1>4, <1>5, <3>1 DEF FollowInv
            <4> HIDE DEF reset, off, C
            <4> QED  BY <1>2, <1>3, <1>8, <2>2, <2>3, <4>1, <4>2, <4>3 DEF FollowInv
        <3>2. CASE ~reset /\ walOffset = 0
            <4>1. /\ walIndex' = walIndex /\ walOffset' = 0 /\ salt' = wal[1].cycle
                BY <2>1, <3>2
            <4> HIDE DEF reset, off, C
            <4> QED  BY <1>2, <1>3, <1>4, <1>5, <1>8, <2>2, <2>3, <3>2, <4>1 DEF FollowInv
        <3>3. CASE ~reset /\ walOffset # 0
            <4>1. UNCHANGED positionVars
                BY <2>1, <3>3 DEF positionVars
            <4> QED  BY <1>1, <1>4, <1>5, <4>1, FollowStays
        <3> QED  BY <3>1, <3>2, <3>3
    <2>7. Aligned'
        <3>1. wal' # <<>> /\ wal'[1].cycle = wal[1].cycle
            BY <1>8, <2>2
        <3>2. salt' = wal[1].cycle
            BY <1>2, <2>1
        <3> QED  BY <3>1, <3>2 DEF Aligned
    <2>8. AtSnapshot'
        BY <1>4, <1>5, <2>2, <2>4 DEF AtSnapshot, Live
    <2>9. CASE C <= off
        <3>1. MaybeCheckpoint(C, off) /\ off = walOffset /\ walOffset > 0 /\ Aligned
            BY <1>2, <1>3, <1>8, <2>1, <2>9 DEF Aligned
        <3>2. walOffset <= C
            BY <1>4, <1>5, <3>1 DEF FollowInv
        <3>3. CASE WantsCheckpoint(C, off)
            <4>1. /\ pc' = "checkpoint" /\ committed' = C /\ walOffset' = C
                  /\ C >= CheckpointThreshold
                BY <2>1, <3>1, <3>3 DEF MaybeCheckpoint, WantsCheckpoint
            <4>2. AtCheckpoint'
                BY <2>3, <2>7, <4>1 DEF AtCheckpoint
            <4>3. AtRead' /\ AtShip'
                BY <4>1 DEF AtRead, AtShip
            <4> QED  BY <2>6, <2>8, <4>2, <4>3 DEF PlaceInv
        <3>4. CASE ~WantsCheckpoint(C, off)
            <4>1. pc' \in {"idle", "stopped"}
                BY <1>6, <3>1, <3>4 DEF MaybeCheckpoint
            <4> QED  BY <1>5, <2>2, <2>6, <4>1, EndsPlace
        <3> QED  BY <3>3, <3>4
    <2>10. CASE ~(C <= off)
        <3>1. pc' = "read" /\ committed' = C
            BY <2>1, <2>10
        <3>2. \A t \in OfGeneration : Top(t) <= Base + C - 1
            BY <1>2, <1>3, <1>8 DEF OfGeneration
        <3>3. \A o \in snapshots : Current(o) => o.snap <= Base + C - 1
            BY <1>2, <1>3, <1>8 DEF Current
        <3>4. AtRead'
            BY <1>3, <1>8, <2>2, <2>3, <2>7, <3>1, <3>2, <3>3 DEF AtRead
        <3>5. AtShip' /\ AtCheckpoint'
            BY <2>3, <2>7, <3>1 DEF AtShip, AtCheckpoint
        <3> QED  BY <2>6, <2>8, <3>4, <3>5 DEF PlaceInv
    <2> QED  BY <2>9, <2>10
<1> QED  BY <1>7, <1>8

\* The upload succeeds.
LEMMA ShipPlace ==
    ASSUME WrittenInv, WalInv, PlaceInv, ShipOk, "landed" \notin SegmentOutcomes
    PROVE  PlaceInv'
<1> DEFINE C == CommittedSize(wal)
<1>1. /\ pc = "ship" /\ segments' = segments \cup {segment} /\ snapshots' = snapshots
      /\ walOffset' = committed /\ MaybeCheckpoint(committed, committed)
      /\ UNCHANGED <<main, wal, cycle, commits, generation, walIndex, salt>>
    BY DEF ShipOk, storeVars
<1>2. /\ walIndex \in Nat /\ walOffset \in Nat /\ salt \in Nat /\ committed \in Nat
      /\ segment \in Segments
      /\ \A s \in segments : s.index \in Nat /\ Top(s) \in Nat /\ s.offset \in Nat
                             /\ EndOf(s) \in Nat /\ s.offset < EndOf(s)
      /\ \A o \in snapshots : o.snap # NoSnap => o.snap \in Nat
    BY PositionFacts
<1>3. /\ C \in Nat /\ Base \in Nat /\ main \in Nat /\ Newest \in Nat /\ Base <= main
    BY WalFacts DEF WrittenInv, EngineInv
<1>4. FollowInv /\ AtRead /\ AtShip /\ AtCheckpoint /\ AtSnapshot
    BY DEF PlaceInv
<1>5. Live /\ generation # 0
    BY <1>1 DEF Live, WrittenInv, EngineInv, DisjointInv, IdInv
<1>6. /\ segment.gen = generation /\ segment.index = walIndex
      /\ segment.offset = walOffset /\ EndOf(segment) = committed
      /\ walOffset < committed
    <2>1. /\ segment.gen = generation /\ segment.index = walIndex
          /\ segment.offset = walOffset /\ EndOf(segment) = committed
        BY <1>1 DEF WrittenInv, EngineInv, DisjointInv, FlightInv
    <2>2. Len(segment.data) > 0 /\ Len(segment.data) \in Nat
          /\ EndOf(segment) = segment.offset + Len(segment.data)
        BY <1>1, <1>2, SegmentFacts DEF WrittenInv, ObjectInv
    <2> QED  BY <1>2, <2>1, <2>2
<1>7. \A t \in segments : t.gen = generation /\ t.index = walIndex => EndOf(t) <= walOffset
    BY DEF WrittenInv, EngineInv, DisjointInv, PositionInv
<1>8. /\ Base' = Base /\ (Aligned' <=> Aligned) /\ CommittedSize(wal') = C
      /\ \A o : Current(o)' <=> Current(o)
      /\ OfGeneration' = OfGeneration \cup {segment}
    BY <1>1, <1>6 DEF Base, Newest, Aligned, Current, OfGeneration
<1>9. ASSUME NEW ok \in BOOLEAN, Finish(ok) PROVE pc' \in {"idle", "stopped"}
    BY <1>9 DEF Finish, NextPc
<1>10. pc' \in {"idle", "stopped", "checkpoint"}
    BY <1>1, <1>9 DEF MaybeCheckpoint
<1>11. ASSUME NEW o \in snapshots, Current(o), NEW n \in Int,
              NEW k \in Int, NEW j \in Int, Covered(segments, o, k, n), j <= k
       PROVE  Covered(segments', o, j, n)
    <2>1. o.snap \in Int
        BY <1>2, <1>11 DEF Current
    <2>2. \A t \in segments : t \in segments'
        BY <1>1
    <2> QED  BY <1>2, <1>11, <2>1, <2>2, CoveredMore
<1>12. ASSUME Aligned
       PROVE  /\ committed <= C /\ main <= Base + committed - 1
              /\ \A t \in OfGeneration' : t.index = walIndex =>
                    \A i \in 1..Len(t.data) : t.data[i] = wal[t.offset + i]
              /\ \A o \in snapshots : Current(o) => Covered(segments', o, Base, walIndex)
    <2>1. /\ committed <= C /\ main <= Base + committed - 1
          /\ \A i \in 1..Len(segment.data) : segment.data[i] = wal[walOffset + i]
        BY <1>1, <1>4, <1>12 DEF AtShip
    <2>2. ASSUME NEW t \in OfGeneration', t.index = walIndex, NEW i \in 1..Len(t.data)
          PROVE  t.data[i] = wal[t.offset + i]
        <3>1. CASE t = segment
            BY <1>6, <2>1, <2>2, <3>1
        <3>2. CASE t \in OfGeneration
            <4>1. walOffset > 0
                BY <1>2, <1>7, <2>2, <3>2 DEF OfGeneration
            <4> QED  BY <1>4, <1>5, <1>12, <2>2, <3>2, <4>1 DEF FollowInv
        <3> QED  BY <1>8, <2>2, <3>1, <3>2
    <2>3. ASSUME NEW o \in snapshots, Current(o) PROVE Covered(segments', o, Base, walIndex)
        <3>1. CASE walOffset > 0
            <4>1. Covered(segments, o, Base, walIndex)
                BY <1>4, <1>5, <1>12, <2>3, <3>1 DEF FollowInv
            <4> QED  BY <1>2, <1>3, <1>11, <2>3, <4>1
        <3>2. CASE walOffset = 0
            <4>1. Covered(segments, o, main, walIndex)
                BY <1>4, <1>5, <2>3, <3>2 DEF FollowInv
            <4> QED  BY <1>2, <1>3, <1>11, <2>3, <4>1
        <3> QED  BY <1>2, <3>1, <3>2
    <2> QED  BY <2>1, <2>2, <2>3
<1>13. ~Aligned => main = Base
    BY <1>1, <1>4 DEF AtShip
<1>14. ASSUME NEW o \in snapshots, Current(o)
       PROVE  Covered(segments', o, main, walIndex + 1)
    <2>1. Covered(segments, o, main, IF walOffset = 0 THEN walIndex ELSE walIndex + 1)
        BY <1>4, <1>5, <1>14 DEF FollowInv
    <2>2. Covered(segments, o, main, walIndex + 1)
        <3>1. o.snap \in Int /\ walIndex \in Int /\ walIndex + 1 \in Int
            BY <1>2, <1>14 DEF Current
        <3>2. CASE walOffset = 0
            <4>1. Covered(segments, o, main, walIndex) /\ walIndex <= walIndex + 1
                BY <1>2, <2>1, <3>2
            <4> QED  BY <1>2, <1>3, <3>1, <4>1, CoveredMore
        <3> QED  BY <2>1, <3>2
    <2> QED  BY <1>2, <1>3, <1>11, <1>14, <2>2
<1>15. segment \in OfGeneration'
    BY <1>8
<1>16. FollowInv'
    <2>1. walOffset' > 0 /\ walOffset' = committed /\ walOffset' # 0
        BY <1>1, <1>2, <1>6
    <2>2. salt <= cycle
        BY <1>4, <1>5 DEF FollowInv
    <2> HIDE DEF C
    <2> QED  BY <1>1, <1>6, <1>8, <1>12, <1>13, <1>14, <1>15, <2>1, <2>2 DEF FollowInv
<1>17. CASE WantsCheckpoint(committed, committed)
    <2>1. pc' = "checkpoint" /\ committed' = committed /\ committed >= CheckpointThreshold
        BY <1>1, <1>17 DEF MaybeCheckpoint, WantsCheckpoint
    <2>2. Aligned /\ committed = C
        BY <1>1, <1>4, <2>1 DEF AtCheckpoint
    <2>3. AtCheckpoint' /\ AtRead' /\ AtShip'
        BY <1>1, <1>8, <2>1, <2>2 DEF AtCheckpoint, AtRead, AtShip
    <2>4. AtSnapshot'
        BY <1>1, <1>4, <1>5, <2>1 DEF AtSnapshot, Live
    <2> QED  BY <1>16, <2>3, <2>4 DEF PlaceInv
<1>18. CASE ~WantsCheckpoint(committed, committed)
    <2>1. pc' \in {"idle", "stopped"}
        BY <1>1, <1>9, <1>18 DEF MaybeCheckpoint
    <2> QED  BY <1>1, <1>5, <1>16, <2>1, EndsPlace
<1> QED  BY <1>17, <1>18
\* Where everything in the WAL is shipped, the current generation holds every
\* transaction.
LEMMA ShippedCovers ==
    ASSUME WrittenInv, WalInv, FollowInv, Live, Aligned, walOffset = CommittedSize(wal),
           "landed" \notin SegmentOutcomes, NEW o \in snapshots, Current(o)
    PROVE  Covered(segments, o, Newest, walIndex + 1)
<1> DEFINE C == CommittedSize(wal)
<1>1. /\ walIndex \in Nat /\ walOffset \in Nat
      /\ \A s \in segments : s.index \in Nat /\ Top(s) \in Nat /\ s.offset \in Nat
                             /\ Len(s.data) \in Nat /\ s.data \in Seq(Units)
                             /\ EndOf(s) = s.offset + Len(s.data) /\ Len(s.data) > 0
      /\ \A u \in snapshots : u.snap # NoSnap => u.snap \in Nat
    BY PositionFacts
<1>2. /\ C \in Nat /\ Base \in Nat /\ Newest \in Nat
      /\ wal # <<>> => C >= 1 /\ Base = Newest - C + 1
    BY WalFacts DEF WrittenInv, EngineInv
<1>3. Aligned /\ walOffset = C /\ wal # <<>>
    BY DEF Aligned
<1>4. PICK t \in OfGeneration : t.index = walIndex /\ EndOf(t) = walOffset
    BY <1>2, <1>3 DEF FollowInv
<1>5. Covered(segments, o, Newest, walIndex + 1)
    <2>0. o.snap \in Int /\ o.id = generation /\ t \in segments /\ t.gen = generation
        BY <1>1, <1>4 DEF Current, OfGeneration
    <2>1. CASE C = 1
        <3>1. Covered(segments, o, Base, walIndex)
            BY <1>2, <1>3, <2>1 DEF FollowInv
        <3>2. Newest = Base /\ walIndex <= walIndex + 1
            BY <1>1, <1>2, <1>3, <2>1
        <3> QED  BY <1>1, <1>2, <2>0, <3>1, <3>2, CoveredMore
    <2>2. CASE C # 1
        <3>1. C >= 2 /\ 1 \in 1..Len(t.data) /\ Len(t.data) \in 1..Len(t.data)
            BY <1>1, <1>2, <1>3, <2>0, <2>2
        <3>2. \A j \in 1..Len(t.data) :
                 /\ t.data[j].cycle = wal[1].cycle
                 /\ t.offset + j >= 2 => t.data[j].lsn = Base + t.offset + j - 1
            BY <1>3, <1>4, <2>0, ShippedOfIndex
        <3>3. \A j \in 1..Len(t.data) : t.data[j].cycle = t.data[1].cycle
            BY <3>1, <3>2
        <3>4. Good(t) = Len(t.data)
            <4>1. Len(t.data) \in 0..Len(t.data) /\ ~(Len(t.data) < Len(t.data))
                BY <1>1, <2>0
            <4> QED  BY <1>1, <2>0, <3>3, <4>1, CommittedSizeIs DEF Good
        <3>5. t.offset + Len(t.data) = C
            BY <1>1, <1>3, <1>4, <2>0
        <3>6. Top(t) = Base + t.offset + Len(t.data) - 1
            BY <3>1, <3>2, <3>4, <3>5 DEF Top
        <3>7. t.offset \in Nat /\ Len(t.data) \in Nat
            BY <1>1, <2>0
        <3>8. Top(t) = Newest
            <4>1. Base + t.offset + Len(t.data) - 1 = Base + (t.offset + Len(t.data)) - 1
                <5>1. \A x, y, z \in Nat : x + y + z - 1 = x + (y + z) - 1
                    OBVIOUS
                <5>2. Base \in Nat
                    BY <1>2
                <5> QED  BY <3>7, <5>1, <5>2
            <4>2. Base = Newest - C + 1
                BY <1>2, <1>3
            <4> HIDE DEF C
            <4>3. Top(t) = Base + C - 1
                BY <3>5, <3>6, <4>1
            <4> QED  BY <1>2, <4>2, <4>3
        <3>9. HasCommits(t) /\ t.index < walIndex + 1
            BY <1>1, <1>4, <3>1, <3>4, <3>5 DEF HasCommits
        <3> QED  BY <1>2, <2>0, <3>8, <3>9 DEF Covered
    <2> QED  BY <2>1, <2>2
<1> QED  BY <1>5

\* maybeCheckpoint folds a WAL that is shipped to its end.
LEMMA CheckpointPlace ==
    ASSUME WrittenInv, WalInv, PlaceInv, Checkpoint, ~LocalErrors,
           "landed" \notin SegmentOutcomes
    PROVE  PlaceInv'
<1> DEFINE C == CommittedSize(wal)
<1>1. /\ pc = "checkpoint" /\ pc' = "stat"
      /\ UNCHANGED <<generation, walIndex, walOffset, salt, snapshots, segments>>
    BY DEF Checkpoint, positionVars, backendVars
<1>2. /\ walIndex \in Nat /\ walOffset \in Nat /\ salt \in Nat /\ committed \in Nat
      /\ \A s \in segments : s.index \in Nat /\ Top(s) \in Nat /\ s.offset \in Nat
                             /\ Len(s.data) \in Nat /\ s.data \in Seq(Units)
                             /\ EndOf(s) = s.offset + Len(s.data) /\ Len(s.data) > 0
      /\ \A o \in snapshots : o.snap # NoSnap => o.snap \in Nat
    BY PositionFacts
<1>3. /\ C \in Nat /\ Base \in Nat /\ main \in Nat /\ Newest \in Nat /\ Base <= main
      /\ wal # <<>> => C >= 1 /\ Base = Newest - C + 1
    BY WalFacts DEF WrittenInv, EngineInv
<1>4. FollowInv /\ AtRead /\ AtShip /\ AtCheckpoint /\ AtSnapshot
    BY DEF PlaceInv
<1>5. Live /\ generation # 0
    BY <1>1, <1>4 DEF Live, AtSnapshot
<1>6. Aligned /\ walOffset = C /\ wal # <<>>
    BY <1>1, <1>4 DEF AtCheckpoint, Aligned
<1>7. WalFolds
    BY FoldEffect DEF Checkpoint, WalCheckpoint, WrittenInv, EngineInv
<1>8. /\ OfGeneration' = OfGeneration
      /\ \A o : Current(o)' <=> Current(o)
      /\ \A o, k, n : Covered(segments', o, k, n) <=> Covered(segments, o, k, n)
    BY <1>1 DEF OfGeneration, Current
<1>9. PICK t \in OfGeneration : t.index = walIndex /\ EndOf(t) = walOffset
    BY <1>3, <1>4, <1>5, <1>6 DEF FollowInv
<1>10. \A o \in snapshots : Current(o) => Covered(segments, o, Newest, walIndex + 1)
    BY <1>4, <1>5, <1>6, ShippedCovers
<1>11. main' <= Newest /\ main' \in Nat /\ Base' \in Nat
    BY <1>3, <1>7 DEF WalFolds, WalInv, WrittenInv, EngineInv
<1>12. ASSUME NEW o \in snapshots, Current(o)
       PROVE  Covered(segments, o, main', walIndex + 1)
    <2>1. o.snap \in Int
        BY <1>2, <1>12 DEF Current
    <2>2. Covered(segments, o, Newest, walIndex + 1) /\ walIndex + 1 \in Int
        BY <1>2, <1>10, <1>12
    <2> QED  BY <1>2, <1>3, <1>11, <2>1, <2>2, CoveredMore
<1>13. walOffset > 0 /\ salt <= cycle'
    BY <1>3, <1>4, <1>5, <1>6, <1>7 DEF FollowInv, WalFolds
<1>14. CASE wal' = <<>> /\ main' = Newest /\ Base' = Newest
    <2>1. ~Aligned'
        BY <1>14 DEF Aligned
    <2> HIDE DEF C
    <2>2. FollowInv'
        BY <1>1, <1>8, <1>9, <1>12, <1>13, <1>14, <2>1 DEF FollowInv
    <2> QED  BY <1>1, <1>5, <2>2, EndsPlace
<1>15. CASE wal' = wal /\ main' \in main..Newest /\ Base' = Base
    <2>1. (Aligned' <=> Aligned) /\ CommittedSize(wal') = C
        BY <1>1, <1>15 DEF Aligned
    <2>2. main' <= Base + walOffset - 1
        BY <1>3, <1>6, <1>11
    <2>3. /\ walOffset <= C
          /\ \A u \in OfGeneration : u.index = walIndex =>
                \A i \in 1..Len(u.data) : u.data[i] = wal[u.offset + i]
          /\ \A o \in snapshots : Current(o) => Covered(segments, o, Base, walIndex)
        BY <1>4, <1>5, <1>6, <1>13 DEF FollowInv
    <2> HIDE DEF C
    <2>4. FollowInv'
        BY <1>1, <1>6, <1>8, <1>9, <1>12, <1>13, <1>15, <2>1, <2>2, <2>3 DEF FollowInv
    <2> QED  BY <1>1, <1>5, <2>4, EndsPlace
<1> QED  BY <1>7, <1>14, <1>15 DEF WalFolds

\* maybeCheckpoint looks whether the file was cut.
LEMMA StatPlace ==
    ASSUME WrittenInv, WalInv, PlaceInv, Stat
    PROVE  PlaceInv'
<1>1. /\ pc = "stat" /\ Finish(TRUE) /\ UNCHANGED <<generation, salt, storeVars, backendVars>>
      /\ IF wal # <<>> THEN UNCHANGED <<walIndex, walOffset>>
         ELSE walIndex' = walIndex + 1 /\ walOffset' = 0
    BY DEF Stat
<1>2. /\ walIndex \in Nat /\ walOffset \in Nat /\ main \in Nat
      /\ \A s \in segments : s.index \in Nat /\ Top(s) \in Nat
      /\ \A o \in snapshots : o.snap # NoSnap => o.snap \in Nat
    BY PositionFacts
<1>3. FollowInv /\ AtSnapshot
    BY DEF PlaceInv
<1>4. Live
    BY <1>1, <1>3 DEF Live, AtSnapshot
<1>5. pc' \in {"idle", "stopped"}
    BY <1>1 DEF Finish, NextPc
<1>6. CASE wal # <<>>
    <2>1. UNCHANGED positionVars
        BY <1>1, <1>6 DEF positionVars
    <2> QED  BY <1>1, <1>3, <1>4, <1>5, <2>1, FollowStays, EndsPlace DEF backendVars
<1>7. CASE wal = <<>>
    <2>1. /\ walIndex' = walIndex + 1 /\ walOffset' = 0
          /\ UNCHANGED <<main, wal, cycle, generation, salt, snapshots, segments>>
        BY <1>1, <1>7 DEF storeVars, backendVars
    <2>2. Base' = Base /\ main = Base
        BY <1>1, <1>7 DEF Base, Newest, WalInv, storeVars
    <2>3. /\ \A o : Current(o)' <=> Current(o)
          /\ \A o, k, n : Covered(segments', o, k, n) <=> Covered(segments, o, k, n)
        BY <2>1 DEF Current
    <2>4. ASSUME NEW o \in snapshots, Current(o)
          PROVE  Covered(segments, o, main, walIndex + 1)
        <3>1. Covered(segments, o, main, IF walOffset = 0 THEN walIndex ELSE walIndex + 1)
            BY <1>3, <1>4, <2>4 DEF FollowInv
        <3>2. CASE walOffset = 0
            <4>1. o.snap \in Int /\ Covered(segments, o, main, walIndex) /\ walIndex <= walIndex + 1
                BY <1>2, <2>4, <3>1, <3>2 DEF Current
            <4> QED  BY <1>2, <4>1, CoveredMore
        <3> QED  BY <3>1, <3>2
    <2>5. salt <= cycle
        BY <1>3, <1>4 DEF FollowInv
    <2>6. FollowInv'
        BY <1>2, <2>1, <2>2, <2>3, <2>4, <2>5 DEF FollowInv
    <2> QED  BY <1>4, <1>5, <2>1, <2>6, EndsPlace
<1> QED  BY <1>6, <1>7

\* A new generation begins.
LEMMA BeginPlace ==
    ASSUME WrittenInv, WalInv, PlaceInv, SnapWriteOk
    PROVE  PlaceInv'
<1>1. /\ pc = "snapWrite" /\ pc' = "prune" /\ snapshots' = snapshots \cup {snapshot}
      /\ generation' = snapshot.id /\ walIndex' = 0 /\ walOffset' = 0 /\ salt' = 0
      /\ UNCHANGED <<segments, main, wal, cycle, commits>>
    BY DEF SnapWriteOk, StartGeneration, storeVars
<1>2. /\ snapshot.id \in Nat /\ snapshot.id # 0 /\ snapshot.snap = main
      /\ \A s \in snapshots : s.id \in Nat /\ s.id < snapshot.id
      /\ main \in Nat /\ cycle \in Nat
    BY <1>1, PositionFacts DEF WrittenInv, ObjectInv, PlaceInv, AtSnapshot, EngineInv,
       TypeInv, TypeOK, Snapshots
<1>3. ASSUME NEW o \in snapshots', Current(o)'
      PROVE  o = snapshot
    <2>1. o.id = snapshot.id
        BY <1>1, <1>3 DEF Current
    <2> QED  BY <1>1, <1>2, <2>1
<1>4. ASSUME NEW o \in snapshots', Current(o)'
      PROVE  main = o.snap /\ Covered(segments', o, main, 0)
    <2>1. o.snap = main
        BY <1>2, <1>3, <1>4
    <2> QED  BY <1>2, <2>1 DEF Covered
<1>5. FollowInv'
    BY <1>1, <1>2, <1>4 DEF FollowInv
<1>6. \A s \in snapshots' : s.id <= snapshot.id
    BY <1>1, <1>2
<1>7. AtSnapshot'
    BY <1>1, <1>2, <1>6 DEF AtSnapshot
<1>8. AtRead' /\ AtShip' /\ AtCheckpoint'
    BY <1>1 DEF AtRead, AtShip, AtCheckpoint
<1> QED  BY <1>5, <1>7, <1>8 DEF PlaceInv

\* Old generations go, the current one stays.
LEMMA PrunePlace ==
    ASSUME WrittenInv, PlaceInv, Prune
    PROVE  PlaceInv'
<1>1. /\ pc = "prune" /\ Finish(TRUE) /\ UNCHANGED <<storeVars, positionVars>>
    BY DEF Prune
<1>2. FollowInv /\ AtSnapshot
    BY DEF PlaceInv
<1>3. Live
    BY <1>1, <1>2 DEF Live, AtSnapshot
<1>4. pc' \in {"idle", "stopped"}
    BY <1>1 DEF Finish, NextPc
<1>5. UNCHANGED <<main, wal, cycle, generation, walIndex, walOffset, salt>>
    BY <1>1 DEF storeVars, positionVars
<1>6. /\ segments' \subseteq segments
      /\ \A s \in snapshots' :
            \/ s \in snapshots
            \/ s.snap = NoSnap /\ \E t \in snapshots : s.id = t.id /\ s # t
    BY PruneLeaves
<1>7. \A g \in segments : g.gen = generation => g \in segments'
    BY DEF Prune, Prunable, backendVars
<1>8. Base' = Base /\ (Aligned' <=> Aligned) /\ OfGeneration' = OfGeneration
    BY <1>1, <1>5, <1>6, <1>7 DEF Base, Newest, Aligned, OfGeneration, storeVars
<1>9. \A o : Current(o)' => Current(o) /\ o \in snapshots
    BY <1>5, <1>6 DEF Current
<1>10. \A o, k, n : Current(o) /\ Covered(segments, o, k, n) => Covered(segments', o, k, n)
    BY <1>7 DEF Covered, Current
<1>11. FollowInv'
    BY <1>2, <1>3, <1>5, <1>8, <1>9, <1>10 DEF FollowInv
<1>12. \A s \in snapshots' : s.id <= generation'
    BY <1>2, <1>3, <1>5, <1>6 DEF AtSnapshot
<1>13. AtSnapshot'
    BY <1>2, <1>3, <1>4, <1>5, <1>12 DEF AtSnapshot, Live
<1>14. AtRead' /\ AtShip' /\ AtCheckpoint'
    BY <1>4 DEF AtRead, AtShip, AtCheckpoint
<1> QED  BY <1>11, <1>13, <1>14 DEF PlaceInv

LEMMA PlaceNext ==
    ASSUME Reliable, WrittenInv, WalInv, ChainInv, [Next]_vars
    PROVE  PlaceInv'
<1>1. /\ PlaceInv /\ FollowInv /\ AtSnapshot /\ AtShip
      /\ ~LocalErrors /\ QuietCheckpoints
      /\ "landed" \notin SegmentOutcomes /\ "fail" \notin SnapshotOutcomes
      /\ "landed" \notin SnapshotOutcomes /\ "empty" \notin SnapshotOutcomes
    BY DEF ChainInv, PlaceInv, Reliable
<1>2. Leftovers = {}
    BY <1>1 DEF Leftovers
<1>3. CASE Commit \/ Spill
    BY <1>1, <1>3, WriterPlace
<1>4. CASE SyncTick \/ FinalSync
    BY <1>1, <1>4, ScanPlace
<1>5. CASE SyncRead
    <2>1. /\ pc = "read" /\ pc' = "ship" /\ committed' = committed
          /\ UNCHANGED <<storeVars, positionVars, backendVars>>
          /\ UNCHANGED <<commits, main, wal, generation, walIndex, walOffset, salt, snapshots>>
        BY <1>5 DEF SyncRead, storeVars, positionVars, backendVars
    <2>2. Live /\ Live'
        BY <2>1 DEF Live, WrittenInv, EngineInv, DisjointInv, IdInv
    <2>3. FollowInv'
        BY <1>1, <2>1, <2>2, FollowStays
    <2>4. Base' = Base /\ (Aligned' <=> Aligned)
        BY <2>1 DEF Base, Newest, Aligned
    <2>5. /\ wal # <<>> /\ committed <= Len(wal) /\ walOffset < committed
          /\ Aligned => committed <= CommittedSize(wal)
          /\ ~Aligned => main = Base
        BY <2>1 DEF ChainInv, AtRead, WrittenInv, EngineInv, TypeInv, ReadRange
    <2>6. Aligned => main <= Base + committed - 1
        <3> SUFFICES ASSUME Aligned PROVE main <= Base + committed - 1
            OBVIOUS
        <3>1. /\ walOffset \in Nat /\ committed \in Nat /\ walIndex \in Nat
              /\ main \in Nat /\ Base \in Nat
            BY PositionFacts, WalFacts DEF WrittenInv, EngineInv
        <3>2. CASE walOffset > 0
            BY <1>1, <2>2, <2>5, <3>1, <3>2 DEF FollowInv
        <3>3. CASE walOffset = 0 /\ walIndex > 0
            BY <1>1, <2>2, <2>5, <3>1, <3>3 DEF FollowInv
        <3>4. CASE walOffset = 0 /\ walIndex = 0
            <4>1. PICK o \in snapshots : Current(o)
                BY <2>2 DEF Live, Current, WrittenInv, EngineInv, GenInv, CurrentGenerationKept
            <4>2. main = o.snap
                BY <1>1, <2>2, <3>4, <4>1 DEF FollowInv
            <4>3. o.snap <= Base + committed - 1
                BY <2>1, <4>1 DEF ChainInv, AtRead
            <4> QED  BY <4>2, <4>3
        <3> QED  BY <3>1, <3>2, <3>3, <3>4
    <2>7. \A i \in 1..Len(segment'.data) : segment'.data[i] = wal[walOffset + i]
        BY <1>5, ReadEffect DEF ChainInv
    <2>8. AtShip'
        BY <2>1, <2>4, <2>5, <2>6, <2>7 DEF AtShip
    <2>9. AtSnapshot' /\ AtRead' /\ AtCheckpoint'
        BY <1>1, <2>1, <2>2, <2>4 DEF PlaceInv, AtSnapshot, AtRead, AtCheckpoint
    <2> QED  BY <2>3, <2>8, <2>9 DEF PlaceInv
<1>6. CASE ShipOk
    BY <1>1, <1>6, ShipPlace
<1>7. CASE ShipFails
    <2>1. /\ pc' \in {"idle", "stopped"} /\ UNCHANGED <<generation, snapshots>> /\ Live
          /\ UNCHANGED <<storeVars, positionVars, backendVars>>
        BY <1>7 DEF ShipFails, Finish, NextPc, positionVars, backendVars, Live,
                    WrittenInv, EngineInv, DisjointInv, IdInv
    <2> QED  BY <1>1, <2>1, FollowStays, EndsPlace
<1>8. CASE Checkpoint
    BY <1>1, <1>8, CheckpointPlace
<1>9. CASE Stat
    BY <1>9, <1>1, StatPlace
<1>10. CASE Prune
    BY <1>10, <1>1, PrunePlace
<1>11. CASE SnapWriteOk
    BY <1>11, <1>1, BeginPlace
<1>12. CASE SnapTick \/ SnapRetry \/ SnapCheckpoint \/ Open
    <2>1. pc' \in {"snapCheckpoint", "snapRead"}
        BY <1>12 DEF SnapTick, SnapRetry, BeginSnapshot, SnapCheckpoint, Open
    <2> QED  BY <2>1, AwayPlace DEF Live, AtSnapshot
<1>13. CASE SnapRead
    <2>1. pc' = "snapWrite" /\ snapshot'.snap = main /\ main' = main
        <3>1. /\ snapshot' = [id |-> now, snap |-> main] /\ pc' = "snapWrite"
              /\ UNCHANGED storeVars
            BY <1>1, <1>13 DEF SnapRead
        <3>2. main' = main
            BY <3>1 DEF storeVars
        <3> QED  BY <3>1, <3>2
    <2> QED  BY <2>1, AwayPlace DEF Live, AtSnapshot
<1>14. CASE Stop
    <2>1. /\ pc = "idle" /\ pc' = "finalSync" /\ UNCHANGED <<generation, snapshots>>
          /\ UNCHANGED <<storeVars, positionVars, backendVars>>
        BY <1>14 DEF Stop, positionVars, backendVars
    <2>2. Live
        BY <1>1, <2>1 DEF Live, AtSnapshot
    <2> QED  BY <1>1, <2>1, <2>2, FollowStays, EndsPlace
<1>15. CASE CloseStore \/ Crash
    <2>1. pc' = "down" /\ generation' = 0
        BY <1>15 DEF CloseStore, Crash, ForgetEngine
    <2> QED  BY <2>1, AwayPlace DEF Live, AtSnapshot
<1>16. CASE SyncReadFails \/ ShipLandsAnyway \/ SnapWriteFails \/ SnapWriteLeaves
    BY <1>1, <1>2, <1>16 DEF SyncReadFails, ShipLandsAnyway, SnapWriteFails, SnapWriteLeaves
<1>17. CASE UNCHANGED vars
    <2>1. PlaceInv' <=> PlaceInv
        BY <1>17 DEF PlaceInv, FollowInv, AtRead, AtShip, AtCheckpoint, AtSnapshot, Live,
           Aligned, Current, OfGeneration, Covered, Base, Newest, vars, storeVars,
           positionVars, flightVars, alertVars, backendVars
    <2> QED  BY <1>1, <2>1
<1> QED  BY <1>3, <1>4, <1>5, <1>6, <1>7, <1>8, <1>9, <1>10, <1>11, <1>12, <1>13,
            <1>14, <1>15, <1>16, <1>17 DEF Next, EngineStep, StayDown

LEMMA ChainNext == Reliable /\ WrittenInv /\ WalInv /\ ChainInv /\ [Next]_vars => ChainInv'
<1> SUFFICES ASSUME Reliable, WrittenInv, WalInv, ChainInv, [Next]_vars PROVE ChainInv'
    OBVIOUS
<1>1. PlaceInv'
    BY PlaceNext
<1>2. "landed" \notin SegmentOutcomes /\ Chained(Objects) /\ Founded(Objects, snapshots)
    BY DEF Reliable, ChainInv
<1>3. Chained(Objects)' /\ Founded(Objects, snapshots)'
    <2>1. CASE SyncRead
        BY <1>2, <2>1, ReadIsChained, ReadIsFounded
    <2>2. CASE ~SyncRead
        BY <1>2, <2>2, ObjectsStay
    <2> QED  BY <2>1, <2>2
<1> QED  BY <1>1, <1>3 DEF ChainInv, PlaceInv

LEMMA ChainInit == Init => ChainInv
<1> SUFFICES ASSUME Init PROVE ChainInv
    OBVIOUS
<1>1. Objects = {} /\ pc = "down" /\ generation = 0 /\ snapshots = {}
    BY DEF Init, Objects
<1> QED  BY <1>1 DEF ChainInv, Chained, Founded, FollowInv, Live, AtRead, AtShip,
                     AtCheckpoint, AtSnapshot

LEMMA ChainCorrect == Reliable /\ Spec => []ChainInv
<1> SUFFICES ASSUME Reliable PROVE Spec => []ChainInv
    OBVIOUS
<1>1. WrittenInv /\ WalInv /\ ChainInv /\ [Next]_vars => ChainInv'
    BY ChainNext
<1> QED  BY <1>1, ChainInit, WrittenCorrect, WalCorrect, PTL DEF Spec

\* Restoring to any time gives a prefix of the transactions or an error, never
\* a mixture of pages: the segments of an index join up, and every index begins
\* where the snapshot or the indexes before it end.  For every threshold,
\* retention and history, with readers that pin the WAL, crashes at any point,
\* uploads that fail and deletions that fail or stop half-way.
THEOREM RestoreAlwaysConsistent == Reliable /\ Spec => []RestoreConsistent
<1> SUFFICES ASSUME Reliable PROVE Spec => []RestoreConsistent
    OBVIOUS
<1>1. WrittenInv /\ ChainInv => RestoreConsistent
    BY ChainRestores DEF ChainInv
<1> QED  BY <1>1, ChainCorrect, WrittenCorrect, PTL
-----------------------------------------------------------------------------
(* What the latest restore gives *)

\* While the engine follows the WAL, Restore gives the current generation's
\* transactions, all of them and none that it lacks.
LEMMA LatestIsCurrent ==
    ASSUME WrittenInv, Chained(Objects), Founded(Objects, snapshots),
           NEW o \in snapshots, o.snap # NoSnap, \A s \in snapshots : s.id <= o.id
    PROVE  /\ RestoreLatest \in Nat /\ o.snap <= RestoreLatest /\ RestoreLatest <= Newest
           /\ \/ RestoreLatest = o.snap
              \/ \E t \in segments : t.gen = o.id /\ HasCommits(t) /\ RestoreLatest = Top(t)
           /\ \A t \in segments : t.gen = o.id /\ HasCommits(t) => Top(t) <= RestoreLatest
<1>1. IsPicked(snapshots, Zero, o) /\ Zero \in Nat
    BY DEF IsPicked, Within, Zero
<1>2. Applied(segments, o, Zero) = {t \in segments : t.gen = o.id}
    BY DEF Applied, Within, Zero
<1>3. /\ Restore(Zero) \in Nat /\ o.snap <= Restore(Zero)
      /\ \/ Restore(Zero) = o.snap
         \/ \E t \in Applied(segments, o, Zero) : HasCommits(t) /\ Restore(Zero) = Top(t)
      /\ \A t \in Applied(segments, o, Zero) : HasCommits(t) => Top(t) <= Restore(Zero)
    BY <1>1, RestoreOfSound
<1>4. o.snap <= Newest /\ \A t \in segments : Top(t) <= Newest
    BY PositionFacts
<1> QED  BY <1>2, <1>3, <1>4 DEF RestoreLatest

\* ... so that it gives what they cover.
LEMMA LatestCovers ==
    ASSUME WrittenInv, Chained(Objects), Founded(Objects, snapshots),
           NEW o \in snapshots, o.snap # NoSnap, \A s \in snapshots : s.id <= o.id,
           NEW k \in Int, NEW n, Covered(segments, o, k, n)
    PROVE  k <= RestoreLatest
<1>1. /\ RestoreLatest \in Nat /\ o.snap <= RestoreLatest
      /\ \A t \in segments : t.gen = o.id /\ HasCommits(t) => Top(t) <= RestoreLatest
    BY LatestIsCurrent
<1>2. o.snap \in Int /\ \A t \in segments : Top(t) \in Int
    BY PositionFacts
<1> QED  BY <1>1, <1>2 DEF Covered

LEMMA ChainRecovers ==
    ASSUME WrittenInv, WalInv, ChainInv, "landed" \notin SegmentOutcomes
    PROVE  ShippedIsRecoverable
<1> SUFFICES ASSUME pc = "idle", generation # 0,
                    IF wal = <<>> THEN walOffset = 0
                    ELSE salt = wal[1].cycle /\ walOffset = CommittedSize(wal)
             PROVE  RestoreLatest = Newest
    BY DEF ShippedIsRecoverable
<1>1. Live /\ FollowInv /\ Chained(Objects) /\ Founded(Objects, snapshots)
    BY DEF Live, ChainInv
<1>2. PICK o \in snapshots : o.id = generation /\ o.snap # NoSnap
    BY DEF WrittenInv, EngineInv, GenInv, CurrentGenerationKept
<1>3. Current(o) /\ \A s \in snapshots : s.id <= o.id
    BY <1>1, <1>2 DEF Current, ChainInv, AtSnapshot
<1>4. Newest \in Nat /\ (wal = <<>> => main = Newest)
    BY DEF WalInv, WrittenInv, EngineInv, TypeInv, TypeOK, Newest
<1>5. \E n : Covered(segments, o, Newest, n)
    <2>1. CASE wal = <<>>
        BY <1>1, <1>3, <1>4, <2>1 DEF FollowInv
    <2>2. CASE wal # <<>>
        <3>1. Aligned /\ walOffset = CommittedSize(wal)
            BY <2>2 DEF Aligned
        <3> QED  BY <1>1, <1>3, <3>1, ShippedCovers
    <2> QED  BY <2>1, <2>2
<1>6. Newest <= RestoreLatest
    BY <1>1, <1>2, <1>3, <1>4, <1>5, LatestCovers
<1>7. RestoreLatest \in Nat /\ RestoreLatest <= Newest
    BY <1>1, <1>2, <1>3, LatestIsCurrent
<1> QED  BY <1>4, <1>6, <1>7

\* When the engine has nothing left to ship, a restore of the latest state gives
\* every transaction: what is behind walOffset in the WAL is shipped, and what is
\* folded into the main file was shipped before or is in the snapshot.
THEOREM ShippedIsAlwaysRecoverable == Reliable /\ Spec => []ShippedIsRecoverable
<1> SUFFICES ASSUME Reliable PROVE Spec => []ShippedIsRecoverable
    OBVIOUS
<1>1. WrittenInv /\ WalInv /\ ChainInv => ShippedIsRecoverable
    BY ChainRecovers DEF Reliable
<1> QED  BY <1>1, ChainCorrect, WrittenCorrect, WalCorrect, PTL
-----------------------------------------------------------------------------
(* The engine implements BackupPromise *)

\* Where a checkpoint folds the whole WAL, a snapshot holds all that Restore gave
\* before it; and the newest generation is a whole one.
GrowInv ==
    /\ pc \in {"snapRead", "snapWrite"} =>
          /\ \A o \in snapshots : o.snap <= main
          /\ \A t \in segments : Top(t) <= main
    /\ \A o \in snapshots : (\A s \in snapshots : s.id <= o.id) => o.snap # NoSnap

LEMMA GrowNext ==
    Reliable /\ ~LongReaders /\ WrittenInv /\ ChainInv /\ GrowInv /\ [Next]_vars => GrowInv'
<1> SUFFICES ASSUME Reliable, ~LongReaders, WrittenInv, ChainInv, GrowInv, [Next]_vars
             PROVE  GrowInv'
    OBVIOUS
<1>1. /\ ~LocalErrors /\ "fail" \notin SnapshotOutcomes /\ Leftovers = {}
      /\ "landed" \notin SnapshotOutcomes /\ "empty" \notin SnapshotOutcomes
    BY DEF Reliable, Leftovers
<1>2. TypeInv /\ Newest \in Nat /\ \A s \in snapshots : s.id \in Nat
    BY PositionFacts DEF WrittenInv, EngineInv, TypeInv, TypeOK, Newest
<1>3. ASSUME UNCHANGED backendVars, pc' \notin {"snapRead", "snapWrite"} PROVE GrowInv'
    BY <1>3 DEF GrowInv, backendVars
<1>4. ASSUME UNCHANGED <<backendVars, main>>,
             pc' \in {"snapRead", "snapWrite"} => pc \in {"snapRead", "snapWrite"}
      PROVE  GrowInv'
    BY <1>4 DEF GrowInv, backendVars
<1>5. CASE SnapCheckpoint
    <2>1. main' = Newest /\ UNCHANGED backendVars
        BY <1>1, <1>5 DEF SnapCheckpoint, WalCheckpoint
    <2>2. \A o \in snapshots : o.snap <= Newest
        BY <1>2, PositionFacts DEF NoSnap
    <2>3. \A t \in segments : Top(t) <= Newest
        BY PositionFacts
    <2> QED  BY <2>1, <2>2, <2>3 DEF GrowInv, backendVars
<1>6. CASE SnapWriteOk \/ (Crash /\ SnapshotLands)
    <2>1. /\ pc = "snapWrite" /\ pc' \notin {"snapRead", "snapWrite"}
          /\ snapshots' \in {snapshots, snapshots \cup {snapshot}}
        BY <1>1, <1>6 DEF SnapWriteOk, Crash, SnapshotLands, backendVars
    <2>2. /\ snapshot.snap # NoSnap /\ snapshot.id \in Nat
          /\ \A s \in snapshots : s.id < snapshot.id
        BY <1>2, <2>1, SegmentTypes DEF WrittenInv, EngineInv, GenInv, ObjectInv
    <2>3. ASSUME NEW o \in snapshots', \A s \in snapshots' : s.id <= o.id
          PROVE  o.snap # NoSnap
        <3>1. CASE snapshots' = snapshots
            BY <2>3, <3>1 DEF GrowInv
        <3>2. CASE snapshots' = snapshots \cup {snapshot}
            <4>1. snapshot.id <= o.id
                BY <2>3, <3>2
            <4> QED  BY <1>2, <2>2, <3>2, <4>1
        <3> QED  BY <2>1, <3>1, <3>2
    <2> QED  BY <2>1, <2>3 DEF GrowInv
<1>7. CASE Prune
    <2>1. pc = "prune" /\ generation # 0
        BY <1>7 DEF Prune, ChainInv, AtSnapshot
    <2>2. PICK o \in snapshots : o.id = generation /\ o.snap # NoSnap
        BY <2>1 DEF WrittenInv, EngineInv, GenInv, CurrentGenerationKept
    <2>3. \A s \in snapshots : s.id <= generation
        BY <2>1 DEF ChainInv, AtSnapshot, Live
    <2>4. /\ o \in snapshots' /\ pc' \notin {"snapRead", "snapWrite"}
          /\ \A s \in snapshots' : \E t \in snapshots : s.id = t.id
          /\ \A s, t \in snapshots' : s.id = t.id => s = t
        <3>1. o \in snapshots'
            BY <1>7, <2>2 DEF Prune, Prunable, backendVars
        <3>2. pc' \notin {"snapRead", "snapWrite"}
            BY <1>7 DEF Prune, Finish, NextPc
        <3>3. \A s, t \in snapshots' : s.id = t.id => s = t
            BY <1>7, PruneLeaves DEF WrittenInv, ObjectInv
        <3> QED  BY <1>7, <3>1, <3>2, <3>3, PruneLeaves
    <2>5. ASSUME NEW p \in snapshots', \A s \in snapshots' : s.id <= p.id
          PROVE  p.snap # NoSnap
        <3>1. o.id <= p.id /\ p.id <= o.id
            BY <2>2, <2>3, <2>4, <2>5
        <3>2. p.id \in Nat /\ o.id \in Nat
            BY <1>2, <2>2, <2>4
        <3>3. p = o
            BY <2>4, <3>1, <3>2
        <3> QED  BY <2>2, <3>3
    <2> QED  BY <2>4, <2>5 DEF GrowInv
<1>8. CASE Crash
    <2>1. pc' \notin {"snapRead", "snapWrite"}
        BY <1>8 DEF Crash
    <2>2. CASE UNCHANGED backendVars
        BY <1>3, <2>1, <2>2
    <2>3. CASE snapshots' = snapshots
        BY <2>1, <2>3 DEF GrowInv
    <2>4. CASE SnapshotLands
        BY <1>6, <1>8, <2>4
    <2>5. pc = "snapWrite" /\ segments' = segments /\ snapshots' = snapshots \cup {snapshot}
             => SnapshotLands
        BY <1>8 DEF Crash, SnapshotLands
    <2> QED  BY <1>1, <1>8, <2>2, <2>3, <2>4, <2>5 DEF Crash
<1>9. CASE SyncReadFails \/ ShipLandsAnyway \/ SnapWriteFails \/ SnapWriteLeaves
    BY <1>1, <1>9 DEF SyncReadFails, ShipLandsAnyway, SnapWriteFails, SnapWriteLeaves,
       Reliable
<1>10. CASE ShipOk
    <2>1. SegmentLands
        BY <1>10 DEF ShipOk, SegmentLands, MaybeCheckpoint, Finish, NextPc
    <2>2. pc' \notin {"snapRead", "snapWrite"}
        BY <1>10 DEF ShipOk, MaybeCheckpoint, Finish, NextPc
    <2> QED  BY <2>1, <2>2 DEF SegmentLands, GrowInv
<1>11. CASE \/ SyncTick \/ SyncRead \/ ShipFails \/ Checkpoint \/ Stat \/ SnapTick
            \/ SnapRetry \/ FinalSync \/ Open \/ Stop \/ CloseStore
    <2>1. UNCHANGED backendVars
        BY <1>11 DEF SyncTick, SyncRead, ShipFails, Checkpoint, Stat, SnapTick, SnapRetry,
           BeginSnapshot, FinalSync, Open, Stop, CloseStore
    <2>2. pc' \notin {"snapRead", "snapWrite"}
        BY <1>11 DEF SyncTick, SyncRead, ShipFails, Checkpoint, Stat, SnapTick, SnapRetry,
           BeginSnapshot, FinalSync, Open, Stop, CloseStore, SyncScan, SyncScanFails,
           MaybeCheckpoint, Finish, NextPc
    <2> QED  BY <1>3, <2>1, <2>2
<1>12. CASE Commit \/ Spill \/ SnapRead \/ UNCHANGED vars
    <2>1. UNCHANGED <<backendVars, main>>
        BY <1>12 DEF Commit, Spill, SnapRead, vars, storeVars, backendVars
    <2>2. pc' \in {"snapRead", "snapWrite"} => pc \in {"snapRead", "snapWrite"}
        BY <1>12 DEF Commit, Spill, SnapRead, vars
    <2> QED  BY <1>4, <2>1, <2>2
<1> QED  BY <1>5, <1>6, <1>7, <1>8, <1>9, <1>10, <1>11, <1>12 DEF Next, EngineStep, StayDown
\* The newest object of a backend that has any.
LEMMA NewestExists ==
    ASSUME WrittenInv, snapshots # {}
    PROVE  \E o \in snapshots : \A s \in snapshots : s.id <= o.id
<1>1. now \in Nat /\ Catalogued(snapshots, now)
    BY WrittenCatalogued
<1>2. \E o : IsPicked(snapshots, Zero, o)
    BY <1>1, PickedExists DEF Within
<1> QED  BY <1>2 DEF IsPicked, Within

\* What Restore gives today is nothing where there is no backup, and all that the
\* newest generation holds else.
LatestInv ==
    /\ snapshots = {} => Recoverable = 0
    /\ Recoverable \in Nat /\ Recoverable <= Newest
    /\ \A o \in snapshots : (\A s \in snapshots : s.id <= o.id) =>
          /\ o.snap \in Nat /\ o.snap <= Recoverable
          /\ \/ Recoverable = o.snap
             \/ \E t \in segments : /\ t.gen = o.id /\ HasCommits(t)
                                    /\ Recoverable = Top(t)
          /\ \A t \in segments : t.gen = o.id /\ HasCommits(t) => Top(t) <= Recoverable

LEMMA LatestValue ==
    ASSUME WrittenInv, Chained(Objects), Founded(Objects, snapshots), GrowInv
    PROVE  LatestInv
<1>1. now \in Nat /\ Catalogued(snapshots, now) /\ Newest \in Nat
    BY WrittenCatalogued DEF WrittenInv, EngineInv, TypeInv, TypeOK, Newest
<1>2. CASE snapshots = {}
    <2>1. RestoreLatest = Error
        BY <1>1, <1>2, RestoreOfNone DEF RestoreLatest, Restore
    <2>2. Recoverable = 0
        BY <2>1 DEF Recoverable, AsPrefix
    <2> QED  BY <1>1, <1>2, <2>2 DEF LatestInv
<1>3. CASE snapshots # {}
    <2>1. ASSUME NEW o \in snapshots, \A s \in snapshots : s.id <= o.id
          PROVE  /\ Recoverable \in Nat /\ Recoverable <= Newest
                 /\ o.snap \in Nat /\ o.snap <= Recoverable
                 /\ \/ Recoverable = o.snap
                    \/ \E t \in segments : /\ t.gen = o.id /\ HasCommits(t)
                                           /\ Recoverable = Top(t)
                 /\ \A t \in segments : t.gen = o.id /\ HasCommits(t) => Top(t) <= Recoverable
        <3>1. o.snap # NoSnap
            BY <2>1 DEF GrowInv
        <3>2. o.snap \in Nat
            BY <3>1, PositionFacts
        <3>3. RestoreLatest \in Nat
            BY <2>1, <3>1, LatestIsCurrent
        <3>4. Recoverable = RestoreLatest
            BY <3>3 DEF Recoverable, AsPrefix, Error, Torn
        <3> QED  BY <2>1, <3>1, <3>2, <3>3, <3>4, LatestIsCurrent
    <2>2. PICK o \in snapshots : \A s \in snapshots : s.id <= o.id
        BY <1>3, NewestExists
    <2>3. Recoverable \in Nat /\ Recoverable <= Newest
        BY <2>1, <2>2
    <2> QED  BY <1>3, <2>1, <2>3 DEF LatestInv
<1> QED  BY <1>2, <1>3

\* No step makes Restore give less.
LEMMA LatestGrows ==
    ASSUME WrittenInv, ChainInv, GrowInv, GrowInv', LatestInv, LatestInv', [Next]_vars
    PROVE  Recoverable <= Recoverable'
<1>1. /\ snapshots = {} => Recoverable = 0
      /\ Recoverable \in Nat
    BY DEF LatestInv
<1>2. ASSUME NEW o \in snapshots, \A s \in snapshots : s.id <= o.id
      PROVE  \/ Recoverable = o.snap
             \/ \E t \in segments : t.gen = o.id /\ HasCommits(t) /\ Recoverable = Top(t)
    BY <1>2 DEF LatestInv
<1>3. Recoverable' \in Nat
    BY DEF LatestInv
<1>4. ASSUME NEW o \in snapshots', \A s \in snapshots' : s.id <= o.id
      PROVE  /\ o.snap <= Recoverable'
             /\ \A t \in segments' : t.gen = o.id /\ HasCommits(t) => Top(t) <= Recoverable'
    BY <1>4 DEF LatestInv
<1>5. CASE snapshots = {}
    BY <1>1, <1>3, <1>5
<1>6. ASSUME NEW o \in snapshots, \A s \in snapshots : s.id <= o.id
      PROVE  Recoverable <= Recoverable'
    <2>1. ASSUME o \in snapshots', \A s \in snapshots' : s.id <= o.id,
                 \A t \in segments : t.gen = o.id => t \in segments'
          PROVE  Recoverable <= Recoverable'
        BY <1>2, <1>4, <1>6, <2>1
    <2>2. CASE SegmentLands \/ BackendStays
        BY <1>6, <2>1, <2>2 DEF SegmentLands, BackendStays
    <2>3. CASE Prune
        <3>1. Live
            BY <2>3 DEF Prune, Live, ChainInv, AtSnapshot
        <3>2. PICK p \in snapshots : p.id = generation /\ p.snap # NoSnap
            BY <3>1 DEF Live, WrittenInv, EngineInv, GenInv, CurrentGenerationKept
        <3>3. \A s \in snapshots : s.id <= generation /\ s.id \in Nat
            BY <3>1, PositionFacts DEF ChainInv, AtSnapshot
        <3>4. o.id = generation
            BY <1>6, <3>2, <3>3
        <3>5. o = p
            BY <3>2, <3>4 DEF WrittenInv, ObjectInv
        <3>6. /\ o \in snapshots'
              /\ \A t \in segments : t.gen = o.id => t \in segments'
            BY <2>3, <3>4 DEF Prune, Prunable, backendVars
        <3>7. \A s \in snapshots' : \E t \in snapshots : s.id = t.id
            BY <2>3, PruneLeaves
        <3> QED  BY <1>6, <2>1, <3>6, <3>7
    <2>4. CASE SnapshotLands
        <3>1. PICK p \in {snapshot, Hollow} : snapshots' = snapshots \cup {p}
            BY <2>4 DEF SnapshotLands
        <3>2. /\ p.id = snapshot.id /\ snapshot.id \in Nat
              /\ \A s \in snapshots : s.id < snapshot.id /\ s.id \in Nat
            BY <2>4, PositionFacts, SegmentTypes
            DEF SnapshotLands, Hollow, WrittenInv, EngineInv, ObjectInv
        <3>3. p \in snapshots' /\ \A s \in snapshots' : s.id <= p.id
            BY <3>1, <3>2
        <3>4. p.snap # NoSnap
            BY <3>3 DEF GrowInv
        <3>5. p = snapshot
            BY <3>4 DEF Hollow
        <3>6. snapshot.snap = main
            BY <2>4 DEF SnapshotLands, ChainInv, AtSnapshot
        <3>7. Recoverable <= main
            BY <1>2, <1>6, <2>4 DEF SnapshotLands, GrowInv
        <3>8. main <= Recoverable'
            BY <1>4, <3>3, <3>5, <3>6
        <3>9. main \in Nat
            BY PositionFacts
        <3> QED  BY <1>1, <1>3, <3>7, <3>8, <3>9
    <2>5. TypeInv
        BY DEF WrittenInv, EngineInv
    <2> QED  BY <2>2, <2>3, <2>4, <2>5, BackendCases
<1> QED  BY <1>5, <1>6, NewestExists

\* The history variable has the value of Recoverable.
HistoryInv == recoverable = Recoverable

\* A step of the engine is a Write, a CatchUp, or a stutter of the promise.
PromiseInv == WrittenInv /\ WalInv /\ ChainInv /\ GrowInv /\ LatestInv

LEMMA PromiseStep ==
    ASSUME PromiseInv, PromiseInv', [Next]_vars, HistoryInv, HistoryInv'
    PROVE  [Promise!Next]_<<Newest, recoverable>>
<1>1. /\ Recoverable \in Nat /\ Recoverable' \in Nat /\ Recoverable' <= Newest'
      /\ Recoverable <= Recoverable' /\ Newest \in Nat
    <2>1. Recoverable <= Recoverable'
        BY LatestGrows DEF PromiseInv
    <2>2. /\ Recoverable \in Nat /\ Recoverable' \in Nat /\ Recoverable' <= Newest'
          /\ Newest \in Nat
        BY DEF PromiseInv, LatestInv, WrittenInv, EngineInv, TypeInv, TypeOK, Newest
    <2> QED  BY <2>1, <2>2
<1>0. recoverable = Recoverable /\ recoverable' = Recoverable'
    BY DEF HistoryInv
<1>2. CASE Commit
    <2>1. UNCHANGED <<snapshots, segments>> /\ commits' = Append(commits, now)
        BY <1>2 DEF Commit, backendVars
    <2>2. Newest' = Newest + 1
        BY <2>1 DEF Newest, PromiseInv, WrittenInv, EngineInv, TypeInv, TypeOK
    <2>3. Recoverable' = Recoverable
        BY <2>1 DEF Recoverable, RestoreLatest, Restore
    <2> QED  BY <1>0, <2>2, <2>3 DEF Promise!Next, Promise!Write
<1>3. CASE ~Commit
    <2>1. commits' = commits
        BY <1>3 DEF Next, EngineStep, Spill, SyncTick, SyncRead, SyncReadFails, ShipOk,
           ShipFails, ShipLandsAnyway, Checkpoint, Stat, SnapRetry, SnapTick, BeginSnapshot,
           SnapCheckpoint, SnapRead, SnapWriteOk, SnapWriteFails, SnapWriteLeaves, Prune,
           FinalSync, Open, Stop, CloseStore, Crash, StayDown, WalCheckpoint, vars, storeVars
    <2>2. Newest' = Newest
        BY <2>1 DEF Newest
    <2>3. CASE Recoverable' = Recoverable
        BY <1>0, <2>2, <2>3
    <2>4. CASE Recoverable' # Recoverable
        <3>1. Recoverable' \in (Recoverable + 1)..Newest
            BY <1>1, <2>2, <2>4
        <3> QED  BY <1>0, <2>2, <3>1 DEF Promise!Next, Promise!CatchUp
    <2> QED  BY <2>3, <2>4
<1> QED  BY <1>2, <1>3

\* Restorable history only grows: whatever the interleaving of writers, syncs,
\* checkpoints, snapshots, prunes, crashes and restarts, Restore gives today at
\* least what it gave yesterday.  It takes a backup engine that is alone with
\* the writer at a checkpoint: a reader that pins the WAL leaves the snapshot
\* that opens a generation short of what was restorable before.
THEOREM RecoverableOnlyGrows ==
    Reliable /\ ~LongReaders /\ PSpec => RecoverableNeverShrinks
<1> SUFFICES ASSUME Reliable, ~LongReaders PROVE PSpec => RecoverableNeverShrinks
    OBVIOUS
<1>1. PInit => Init /\ HistoryInv /\ Promise!Init
    <2> SUFFICES ASSUME PInit PROVE Init /\ HistoryInv /\ Promise!Init
        OBVIOUS
    <2>1. Init /\ recoverable = 0 /\ snapshots = {} /\ commits = <<>>
        BY DEF PInit, Init
    <2>2. 0 \in Nat /\ Catalogued(snapshots, 0)
        BY <2>1 DEF Catalogued
    <2>3. RestoreLatest = Error
        BY <2>1, <2>2, RestoreOfNone DEF RestoreLatest, Restore
    <2> QED  BY <2>1, <2>3 DEF HistoryInv, Recoverable, AsPrefix, Promise!Init, Newest
<1>2. [PNext]_<<vars, recoverable>> => [Next]_vars
    BY DEF PNext
<1>3. HistoryInv /\ [PNext]_<<vars, recoverable>> => HistoryInv'
    <2>1. PNext => recoverable' = Recoverable'
        BY DEF PNext, RestoreNext, Recoverable, RestoreLatest, Restore
    <2>2. UNCHANGED vars => Recoverable' = Recoverable
        BY DEF vars, backendVars, Recoverable, RestoreLatest, Restore
    <2> QED  BY <2>1, <2>2 DEF HistoryInv
<1>4. Init => GrowInv
    BY DEF Init, GrowInv
<1>5. WrittenInv /\ ChainInv /\ GrowInv /\ [Next]_vars => GrowInv'
    BY GrowNext
<1>6. Spec => []WrittenInv /\ []WalInv /\ []ChainInv
    BY WrittenCorrect, WalCorrect, ChainCorrect, PTL
<1>7. Spec => []GrowInv
    BY <1>4, <1>5, <1>6, PTL DEF Spec
<1>8. WrittenInv /\ ChainInv /\ GrowInv => LatestInv
    BY LatestValue DEF ChainInv
<1>9. Spec => []PromiseInv
    BY <1>6, <1>7, <1>8, PTL DEF PromiseInv
<1>10. PromiseInv /\ PromiseInv' /\ [Next]_vars /\ HistoryInv /\ HistoryInv'
       => [Promise!Next]_<<Newest, recoverable>>
    BY PromiseStep
<1>11. PSpec => Spec /\ []HistoryInv
    BY <1>1, <1>2, <1>3, PTL DEF PSpec, Spec
<1> QED  BY <1>1, <1>2, <1>9, <1>10, <1>11, PTL
         DEF PSpec, Spec, RecoverableNeverShrinks, Promise!Spec

=============================================================================
