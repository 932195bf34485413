------------------------------- MODULE Backend -------------------------------
(***************************************************************************)
(* The two storage backends, call by call: LocalBackend                    *)
(* (src/backup_local.go) with its temporary files and renames, and the S3  *)
(* backend (src/backup/s3/s3.go) with its paged listings and one request   *)
(* per object; and Restore (src/backup.go) as the sequence of calls it is, *)
(* while the engine of a live node goes on writing and pruning.            *)
(*                                                                         *)
(* A key is <<g, i>>: the snapshot (i = 0) or the i-th segment of the      *)
(* generation g.  Each segment brings one transaction; a restored database *)
(* is the number of those it holds.  What the engine decides to write is   *)
(* the subject of BackupEngine: here it opens one generation after the     *)
(* other and fills it in the order of Layout.                              *)
(***************************************************************************)
EXTENDS Integers, Sequences, FiniteSetsExt

CONSTANTS
    Kinds,     \* the backends: a subset of {"local", "s3"}
    Layout,    \* the segments of a generation: index of the WAL, offset in it
    Gens,      \* bound of the model: generations
    PageLen,   \* names on a page of ListObjectsV2
    Races      \* "prune": a generation is deleted while it is restored;
               \* "halfDeleted": LocalBackend's RemoveAll may fail half way

VARIABLES
    kind,
    visible,   \* objects that can be opened
    whole,     \* those of them that hold all of their data
    dirs,      \* LocalBackend: directories of generations
    \* the engine
    wpc, wkey, \* its call, and the object it is about
    cur,       \* its generation, 0 for none
    shipped,   \* for each generation, the segments that were shipped
    doomed,    \* S3: the objects that DeleteGeneration still has to delete
    \* a Restore
    rpc, ts,   \* its next call, and its Timestamp: 0, or before generation ts + 1
    gen,       \* the generation it picked, 0 for none
    rest,      \* listed segments of the indexes that it has not begun
    reading,   \* segments of the present index that it has not read
    walFile,   \* segments in the file <db>-wal
    file,      \* <db>.db: NoFile, Torn, or the transactions in it
    cause,     \* why it failed
    start,     \* the generation and the segments it could have used when it began
    \* the listings under way, of the engine ("w") and of the restore ("r")
    found, token

store  == <<visible, whole, dirs>>
engine == <<wpc, wkey, cur, shipped, doomed>>
target == <<rest, reading, walFile, file>>
restore == <<rpc, ts, gen, target, cause, start>>
lists  == <<found, token>>
vars == <<kind, store, engine, restore, lists>>

NoFile == -1
Torn   == -2

Segs == 1 .. Len(Layout)

\* A generation's segments in the order in which they are shipped, which is that
\* of their names: index after index, each from offset 0 on without a gap.
ASSUME LayoutAssumption ==
    /\ Layout \in Seq([index : Nat, offset : Nat])
    /\ \A i, j \in Segs : i < j =>
          \/ Layout[i].index < Layout[j].index
          \/ /\ Layout[i].index = Layout[j].index
             /\ Layout[j].offset = Layout[i].offset + (j - i)
    /\ \A i \in Segs : Layout[i].offset > 0 =>
          i > 1 /\ Layout[i - 1].index = Layout[i].index

ASSUME BackendAssumption ==
    Kinds \subseteq {"local", "s3"} /\ Gens \in Nat /\ PageLen \in Nat \ {0}

-----------------------------------------------------------------------------
(* Listing *)

\* Mutant: the first page is all.
LastPageFirst(names, p) == TRUE

\* Is the page after token[p] the last one?  ReadDir has a single page.
LastPage(names, p) ==
    LET left == {x \in names : x > token[p]}
    IN  kind = "local" \/ Cardinality(left) <= PageLen

\* The names on the page after token[p], in the order of the keys.
Page(names, p) ==
    LET left == {x \in names : x > token[p]}
    IN  IF kind = "local" THEN left
        ELSE {x \in left : Cardinality({y \in left : y < x}) < PageLen}

\* One request of listAll.
NextPage(names, p) ==
    /\ found' = [found EXCEPT ![p] = @ \cup Page(names, p)]
    /\ token' = [token EXCEPT ![p] = IF Page(names, p) = {} THEN @ ELSE Max(Page(names, p))]

BeginList(p) ==
    /\ found' = [found EXCEPT ![p] = {}]
    /\ token' = [token EXCEPT ![p] = -1]

\* What Generations and WALSegments list.  An object store has no directories: a
\* generation is there as long as one of its objects is.
GenerationsOf == IF kind = "local" THEN dirs ELSE {k[1] : k \in visible}
SegmentsOf(g) == {i \in Segs : <<g, i>> \in visible}

-----------------------------------------------------------------------------
(* The engine: WriteSnapshot, WriteWALSegment, DeleteGeneration *)

BeginWrite(key) ==
    /\ wpc = "idle"
    /\ wkey' = key
    /\ wpc' = IF kind = "local" THEN "mkdir" ELSE "put"
    /\ UNCHANGED <<kind, store, cur, shipped, doomed, restore, lists>>

WriteSnapshot == cur < Gens /\ BeginWrite(<<cur + 1, 0>>)

WriteWALSegment ==
    /\ cur > 0 /\ shipped[cur] < Len(Layout)
    /\ BeginWrite(<<cur, shipped[cur] + 1>>)

\* The call returns nil: the engine moves on.
Written ==
    IF wkey[2] = 0
    THEN /\ cur' = wkey[1] /\ wpc' = "prune"
         /\ UNCHANGED shipped
    ELSE /\ shipped' = [shipped EXCEPT ![cur] = wkey[2]] /\ wpc' = "idle"
         /\ UNCHANGED cur

\* S3: the PUT of put succeeds.
Put ==
    /\ wpc = "put"
    /\ visible' = visible \cup {wkey} /\ whole' = whole \cup {wkey}
    /\ Written
    /\ UNCHANGED <<kind, dirs, wkey, doomed, restore, lists>>

MkdirAll ==
    /\ wpc = "mkdir"
    /\ dirs' = dirs \cup {wkey[1]}
    /\ wpc' = "create"
    /\ UNCHANGED <<kind, visible, whole, wkey, cur, shipped, doomed, restore, lists>>

\* Mutant: the object is written in place.
CreateInPlace ==
    /\ wpc = "create"
    /\ visible' = visible \cup {wkey}
    /\ wpc' = "rename"
    /\ UNCHANGED <<kind, whole, dirs, wkey, cur, shipped, doomed, restore, lists>>

\* atomicWrite: data goes to a temporary file, which no listing shows because its
\* name is not that of an object ...
Create ==
    /\ wpc = "create"
    /\ wpc' = "rename"
    /\ UNCHANGED <<kind, store, wkey, cur, shipped, doomed, restore, lists>>

\* ... and becomes the object when it is whole.
Rename ==
    /\ wpc = "rename"
    /\ visible' = visible \cup {wkey} /\ whole' = whole \cup {wkey}
    /\ Written
    /\ UNCHANGED <<kind, dirs, wkey, doomed, restore, lists>>

\* The call fails without a visible object, at any of its steps.
WriteFails ==
    /\ wpc \in {"put", "mkdir", "create", "rename"}
    /\ wpc' = "idle"
    /\ UNCHANGED <<kind, store, wkey, cur, shipped, doomed, restore, lists>>

Restoring == rpc \notin {"idle", "done", "failed"}

\* pruneLocked has nothing to delete, or no more.
PruneEnds ==
    /\ wpc = "prune"
    /\ wpc' = "idle"
    /\ UNCHANGED <<kind, store, wkey, cur, shipped, doomed, restore, lists>>

\* DeleteGeneration of an old generation: pruneLocked goes from the newest to the
\* oldest.  A generation that is restored at the moment is left alone, or not.
DeleteGeneration(g) ==
    /\ wpc = "prune"
    /\ g \in GenerationsOf /\ g < wkey[1]
    /\ "prune" \in Races \/ ~Restoring \/ (ts = 0 /\ gen > g)
    /\ wkey' = <<g, 0>>
    /\ wpc' = IF kind = "local" THEN "remove" ELSE "list"
    /\ BeginList("w")
    /\ UNCHANGED <<kind, store, cur, shipped, doomed, restore>>

\* S3 lists the objects of the generation, page by page.
ListDoomed ==
    /\ wpc = "list"
    /\ LET names == {i \in 0 .. Len(Layout) : <<wkey[1], i>> \in visible}
       IN  /\ NextPage(names, "w")
           /\ IF LastPage(names, "w")
              THEN doomed' = found'["w"] /\ wpc' = "delete"
              ELSE UNCHANGED <<doomed, wpc>>
    /\ UNCHANGED <<kind, store, wkey, cur, shipped, restore>>

\* S3 deletes them one by one, in the order of the listing.
Delete ==
    /\ wpc = "delete"
    /\ IF doomed = {}
       THEN wpc' = "prune" /\ UNCHANGED <<doomed, visible, whole>>
       ELSE LET key == <<wkey[1], Min(doomed)>>
            IN  /\ visible' = visible \ {key} /\ whole' = whole \ {key}
                /\ doomed' = doomed \ {Min(doomed)}
                /\ UNCHANGED wpc
    /\ UNCHANGED <<kind, dirs, wkey, cur, shipped, restore, lists>>

\* LocalBackend removes what is in the directory in any order, then the directory.
RemoveAll ==
    /\ wpc = "remove"
    /\ LET left == {k \in visible : k[1] = wkey[1]}
       IN  IF left = {}
           THEN /\ dirs' = dirs \ {wkey[1]} /\ wpc' = "prune"
                /\ UNCHANGED <<visible, whole>>
           ELSE /\ \E k \in left : visible' = visible \ {k} /\ whole' = whole \ {k}
                /\ UNCHANGED <<dirs, wpc>>
    /\ UNCHANGED <<kind, wkey, cur, shipped, doomed, restore, lists>>

\* The deletion fails, which is logged, and pruneLocked goes on.
DeleteFails ==
    /\ \/ wpc \in {"list", "delete"}
       \/ wpc = "remove" /\ "halfDeleted" \in Races
    /\ wpc' = "prune" /\ doomed' = {}
    /\ UNCHANGED <<kind, store, wkey, cur, shipped, restore, lists>>

Deleting == wpc \in {"list", "delete", "remove"}

-----------------------------------------------------------------------------
(* Restore *)

Fail(why) == rpc' = "failed" /\ cause' = why

\* The newest generation with a snapshot for the timestamp, and what was shipped to it.
Restorable(T) ==
    LET gens == {g \in 1 .. Gens : <<g, 0>> \in whole /\ (T = 0 \/ g <= T)}
    IN  IF gens = {} THEN <<0, 0>> ELSE <<Max(gens), shipped[Max(gens)]>>

CallRestore(T) ==
    /\ rpc = "idle"
    /\ "prune" \in Races \/ T = 0 \/ ~Deleting
    /\ ts' = T /\ rpc' = "generations"
    /\ start' = Restorable(T)
    /\ BeginList("r")
    /\ UNCHANGED <<kind, store, engine, gen, target, cause>>

\* backend.Generations, a page at a time; at the end the newest generation at or
\* before the timestamp is picked.
Generations ==
    /\ rpc = "generations"
    /\ NextPage(GenerationsOf, "r")
    /\ IF ~LastPage(GenerationsOf, "r")
       THEN UNCHANGED <<rpc, cause, gen>>
       ELSE LET fit == {g \in found'["r"] : ts = 0 \/ g <= ts}
            IN  IF fit = {}
                THEN Fail("nothing") /\ UNCHANGED gen
                ELSE rpc' = "snapshot" /\ gen' = Max(fit) /\ UNCHANGED cause
    /\ UNCHANGED <<kind, store, engine, ts, target, start>>

\* The target files are removed; backend.ReadSnapshot and writeGunzipped.
ReadSnapshot ==
    /\ rpc = "snapshot"
    /\ IF <<gen, 0>> \in whole
       THEN /\ file' = 0 /\ rpc' = "segments"
            /\ BeginList("r")
            /\ UNCHANGED cause
       ELSE /\ Fail(IF <<gen, 0>> \in visible THEN "partial" ELSE "missing")
            /\ file' = NoFile
            /\ UNCHANGED lists
    /\ UNCHANGED <<kind, store, engine, ts, gen, rest, reading, walFile, start>>

\* backend.WALSegments, a page at a time.
WALSegments ==
    /\ rpc = "segments"
    /\ NextPage(SegmentsOf(gen), "r")
    /\ IF LastPage(SegmentsOf(gen), "r")
       THEN rpc' = "apply" /\ rest' = found'["r"]
       ELSE UNCHANGED <<rpc, rest>>
    /\ UNCHANGED <<kind, store, engine, ts, gen, reading, walFile, file, cause, start>>

\* The segments of an index from offset 0 up to the first gap.
Contiguous(S) ==
    {i \in S : \A o \in 0 .. Layout[i].offset : \E j \in S : Layout[j].offset = o}

\* applyWALIndex begins with the lowest index that is left.
BeginIndex ==
    /\ rpc = "apply" /\ reading = {} /\ walFile = {} /\ rest # {}
    /\ LET index == Min({Layout[i].index : i \in rest})
           segs  == {i \in rest : Layout[i].index = index}
       IN  /\ rest' = rest \ segs
           /\ reading' = Contiguous(segs)
    /\ UNCHANGED <<kind, store, engine, rpc, ts, gen, walFile, file, cause, start, lists>>

\* backend.ReadWALSegment of the next one, in the order of the offsets.
ReadWALSegment ==
    /\ rpc = "apply" /\ reading # {}
    /\ LET key == <<gen, Min(reading)>>
       IN  IF key \in whole
           THEN /\ walFile' = walFile \cup {Min(reading)}
                /\ reading' = reading \ {Min(reading)}
                /\ UNCHANGED <<rpc, cause>>
           ELSE /\ Fail(IF key \in visible THEN "partial" ELSE "missing")
                /\ UNCHANGED <<walFile, reading>>
    /\ UNCHANGED <<kind, store, engine, ts, gen, rest, file, start, lists>>

\* SQLite recovers the WAL file and folds it into the database.
Fold ==
    /\ rpc = "apply" /\ reading = {} /\ walFile # {}
    /\ file' = IF file # Torn /\ Min(walFile) <= file + 1 THEN Max(walFile) ELSE Torn
    /\ walFile' = {}
    /\ UNCHANGED <<kind, store, engine, rpc, ts, gen, rest, reading, cause, start, lists>>

\* All indexes are applied, and the integrity check finds nothing.
Verify ==
    /\ rpc = "apply" /\ reading = {} /\ walFile = {} /\ rest = {}
    /\ rpc' = "done"
    /\ UNCHANGED <<kind, store, engine, ts, gen, target, cause, start, lists>>

\* A call fails for another reason; writeGunzipped leaves what it has written.
RestoreFails ==
    /\ Restoring
    /\ Fail("error")
    /\ file' \in IF rpc = "snapshot" THEN {NoFile, Torn} ELSE {file}
    /\ UNCHANGED <<kind, store, engine, ts, gen, rest, reading, walFile, start, lists>>

\* The caller is told, and may restore again.
Return ==
    /\ rpc \in {"done", "failed"}
    /\ rpc' = "idle" /\ gen' = 0 /\ ts' = 0 /\ start' = <<0, 0>>
    /\ rest' = {} /\ reading' = {} /\ walFile' = {}
    /\ file' = NoFile /\ cause' = "none"
    /\ UNCHANGED <<kind, store, engine, lists>>

-----------------------------------------------------------------------------

Init ==
    /\ kind \in Kinds
    /\ visible = {} /\ whole = {} /\ dirs = {}
    /\ wpc = "idle" /\ wkey = <<0, 0>> /\ cur = 0 /\ doomed = {}
    /\ shipped = [g \in 1 .. Gens |-> 0]
    /\ rpc = "idle" /\ ts = 0 /\ gen = 0 /\ start = <<0, 0>>
    /\ rest = {} /\ reading = {} /\ walFile = {} /\ file = NoFile /\ cause = "none"
    /\ found = [p \in {"r", "w"} |-> {}] /\ token = [p \in {"r", "w"} |-> -1]

EngineNext ==
    \/ WriteSnapshot \/ WriteWALSegment
    \/ Put \/ MkdirAll \/ Create \/ Rename \/ WriteFails
    \/ PruneEnds \/ (\E g \in 1 .. Gens : DeleteGeneration(g))
    \/ ListDoomed \/ Delete \/ RemoveAll \/ DeleteFails

RestoreNext ==
    \/ \E T \in 0 .. Gens : CallRestore(T)
    \/ Generations \/ ReadSnapshot \/ WALSegments
    \/ BeginIndex \/ ReadWALSegment \/ Fold \/ Verify \/ RestoreFails \/ Return

Next == EngineNext \/ RestoreNext

Spec == Init /\ [][Next]_vars

-----------------------------------------------------------------------------
(* Properties *)

\* Restore of a backend that a live node writes to and prunes: when it succeeds,
\* it gives a prefix of the transactions of its generation, and no less than what
\* was shipped when it began: no page of a listing is lost, and a generation that
\* was half deleted is not taken for a whole one.
RestoreSound ==
    rpc = "done" =>
        /\ file # Torn
        /\ gen >= start[1] /\ (gen = start[1] => file >= start[2])
        /\ file <= shipped[gen]

\* backup_local.go:114, "so readers never see a partial object".
NoPartialObject == cause # "partial"

\* backup.go:488-490: the idiom that restores when there is no database file
\* takes it that a Restore that failed has not left one.
FailureLeavesNoFile == rpc = "failed" => file = NoFile
=============================================================================
