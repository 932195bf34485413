------------------------------ MODULE WalScan ------------------------------
(***************************************************************************)
(* walCommittedSize (src/wal.go) frame by frame, while SQLite writes the   *)
(* file it scans.  BackupEngine takes the scan as one step; here each      *)
(* ReadFull is a step of its own.                                          *)
(*                                                                         *)
(* The file is a header and a sequence of frames.  A frame's header        *)
(* carries the salts of its cycle, the commit flag and the checksum; its   *)
(* page is written after it.  A page is the number of the write that       *)
(* produced it, and the checksum of a frame is what it chains up: the      *)
(* salts, which seed it through the header's checksum, and the pages, so   *)
(* frame n has a checksum of length n + 1.  Distinct contents have         *)
(* distinct checksums (no collisions of the 64-bit sum), which is all that *)
(* walChecksum is for.                                                     *)
(*                                                                         *)
(* Left out: page sizes and byte order (both fixed by the header), and the *)
(* padding of frames to sectors, which synchronous=NORMAL does not ask for.*)
(***************************************************************************)
EXTENDS Integers, Sequences, FiniteSets

CONSTANTS
    MaxWrites,    \* bound of the model: frames written
    MaxCycles     \* bound of the model: WAL cycles

ASSUME BoundAssumption == MaxWrites \in Nat /\ MaxCycles \in Nat

VARIABLES
    \* the file
    salt,        \* salts of the header; NoSalt while it is missing or torn
    frames,      \* the frames behind it, stale ones included
    \* SQLite's writer
    cycle,       \* the cycle it is in, 0 before the first
    mxFrame,     \* its last committed frame
    chain,       \* checksum behind the last frame it wrote
    at,          \* number of frames of this cycle written and not rolled back
    writing,     \* is the page of frame at + 1 still to be written?
    writes,      \* number of pages written so far
    folded,      \* frames of this cycle known to be in the main file
    \* the scan
    pc,          \* "idle", "frames" or "done"
    hdrSalt,     \* hdr.salt1, hdr.salt2
    offset,      \* frames accepted
    sum,         \* s1, s2
    committed,   \* frames up to the last accepted commit frame
    \* history
    durable,     \* the checksum of every commit frame ever completed
    sizes        \* committed sizes of the header's cycle seen during the scan

fileVars   == <<salt, frames>>
writerVars == <<cycle, mxFrame, chain, at, writing, writes, folded>>
scanVars   == <<pc, hdrSalt, offset, sum, committed>>
vars == <<fileVars, writerVars, scanVars, durable, sizes>>

NoSalt == 0
NoPage == 0      \* what stands where a page was never written

Frames == [salt : Nat, commit : BOOLEAN, sum : Seq(Nat), page : Nat]

TypeOK ==
    /\ salt \in Nat
    /\ frames \in Seq(Frames)
    /\ cycle \in Nat /\ mxFrame \in Nat /\ at \in Nat
    /\ chain \in Seq(Nat)
    /\ writing \in BOOLEAN
    /\ writes \in Nat /\ folded \in Nat
    /\ pc \in {"idle", "frames", "done"}
    /\ hdrSalt \in Nat /\ offset \in Nat /\ committed \in Nat
    /\ sum \in Seq(Nat)
    /\ durable \subseteq Seq(Nat)
    /\ sizes \subseteq Nat

Init ==
    /\ salt = NoSalt /\ frames = <<>>
    /\ cycle = 0 /\ mxFrame = 0 /\ chain = <<>> /\ at = 0 /\ writing = FALSE
    /\ writes = 0 /\ folded = 0
    /\ pc = "idle" /\ hdrSalt = NoSalt /\ offset = 0 /\ sum = <<>>
    /\ committed = 0
    /\ durable = {} /\ sizes = {}

-----------------------------------------------------------------------------
(* SQLite *)

\* A write finds no WAL, or one that is wholly in the main file: it begins a
\* new cycle.  The header is torn until it is complete.
BeginCycle ==
    /\ cycle < MaxCycles
    /\ ~writing
    /\ cycle = 0 \/ (mxFrame > 0 /\ folded = mxFrame /\ at = mxFrame)
    /\ cycle' = cycle + 1
    /\ salt' = NoSalt
    /\ mxFrame' = 0 /\ at' = 0 /\ folded' = 0 /\ chain' = <<cycle + 1>>
    /\ UNCHANGED <<frames, writing, writes, scanVars, durable, sizes>>

EndHeader ==
    /\ cycle > 0 /\ salt = NoSalt /\ mxFrame = 0
    /\ salt' = cycle
    /\ UNCHANGED <<frames, writerVars, scanVars, durable, sizes>>

\* The header of the next frame goes out, over what is there.
WriteFrameHeader(commit) ==
    /\ salt = cycle /\ cycle > 0
    /\ ~writing
    /\ writes < MaxWrites
    /\ LET page == writes + 1
           old  == IF at + 1 <= Len(frames) THEN frames[at + 1].page ELSE NoPage
           head == [salt |-> cycle, commit |-> commit,
                    sum |-> Append(chain, page), page |-> old]
       IN  frames' = IF at + 1 <= Len(frames)
                     THEN [frames EXCEPT ![at + 1] = head]
                     ELSE Append(frames, head)
    /\ writes' = writes + 1
    /\ writing' = TRUE
    /\ UNCHANGED <<salt, cycle, mxFrame, chain, at, folded, scanVars, durable,
                   sizes>>

\* ... and its page.  With the page of a commit frame the transaction is
\* committed: recovery would accept it from here on.
WritePage ==
    /\ writing
    /\ LET f == [frames[at + 1] EXCEPT !.page = writes]
       IN  /\ frames' = [frames EXCEPT ![at + 1] = f]
           /\ chain' = f.sum
           /\ mxFrame' = IF f.commit THEN at + 1 ELSE mxFrame
           /\ durable' = IF f.commit THEN durable \cup {f.sum}
                                     ELSE durable
           /\ sizes' = IF f.commit /\ pc = "frames" /\ hdrSalt = cycle
                       THEN sizes \cup {at + 1} ELSE sizes
    /\ at' = at + 1
    /\ writing' = FALSE
    /\ UNCHANGED <<salt, cycle, writes, folded, scanVars>>

\* A transaction that spilled frames rolls back; the next one writes over them.
Rollback ==
    /\ ~writing /\ at > mxFrame
    /\ at' = mxFrame
    /\ chain' = IF mxFrame = 0 THEN <<cycle>> ELSE frames[mxFrame].sum
    /\ UNCHANGED <<fileVars, cycle, mxFrame, writing, writes, folded, scanVars,
                   durable, sizes>>

\* A checkpoint, which only the engine runs and never during its own scan.  The
\* file is cut, unless a reader is on it.
Checkpoint ==
    /\ pc = "idle" /\ ~writing /\ mxFrame > 0 /\ at = mxFrame
    /\ folded' = mxFrame
    /\ \/ UNCHANGED fileVars
       \/ salt' = NoSalt /\ frames' = <<>>
    /\ UNCHANGED <<cycle, mxFrame, chain, at, writing, writes, scanVars, durable,
                   sizes>>

-----------------------------------------------------------------------------
(* The scan *)

\* No file, an empty one or a torn header: os.ErrNotExist, "no WAL yet".
NoWalYet ==
    /\ pc = "idle" /\ salt = NoSalt
    /\ UNCHANGED vars

\* The header is read and its checksum is good.
ReadHeader ==
    /\ pc = "idle"
    /\ salt # NoSalt
    /\ pc' = "frames"
    /\ hdrSalt' = salt
    /\ offset' = 0 /\ sum' = <<salt>> /\ committed' = 0
    /\ sizes' = {mxFrame}
    /\ UNCHANGED <<fileVars, writerVars, durable>>

\* (mutant) The checksum is not compared.
AcceptsAnySum(f) == f.page # NoPage /\ f.salt = hdrSalt

\* A frame of the header's cycle whose checksum continues the chain.
Accepts(f) ==
    /\ f.page # NoPage
    /\ f.salt = hdrSalt
    /\ Append(sum, f.page) = f.sum

\* (mutant) Every accepted frame counts, committed or not.
AcceptFrameUncommitted ==
    /\ pc = "frames"
    /\ offset < Len(frames) /\ Accepts(frames[offset + 1])
    /\ sum' = frames[offset + 1].sum
    /\ offset' = offset + 1
    /\ committed' = offset + 1
    /\ UNCHANGED <<fileVars, writerVars, pc, hdrSalt, durable, sizes>>

\* One round of the loop that goes on.
AcceptFrame ==
    /\ pc = "frames"
    /\ offset < Len(frames) /\ Accepts(frames[offset + 1])
    /\ sum' = frames[offset + 1].sum
    /\ offset' = offset + 1
    /\ committed' = IF frames[offset + 1].commit THEN offset + 1 ELSE committed
    /\ UNCHANGED <<fileVars, writerVars, pc, hdrSalt, durable, sizes>>

\* The round that breaks: end of file, a torn tail, a stale or a foreign frame.
StopScan ==
    /\ pc = "frames"
    /\ ~(offset < Len(frames) /\ Accepts(frames[offset + 1]))
    /\ pc' = "done"
    /\ UNCHANGED <<fileVars, writerVars, hdrSalt, offset, sum, committed, durable,
                   sizes>>

\* sync uses the result.
UseResult ==
    /\ pc = "done"
    /\ pc' = "idle"
    /\ hdrSalt' = NoSalt /\ offset' = 0 /\ sum' = <<>> /\ committed' = 0
    /\ sizes' = {}
    /\ UNCHANGED <<fileVars, writerVars, durable>>

-----------------------------------------------------------------------------
Next ==
    \/ BeginCycle \/ EndHeader
    \/ \E commit \in BOOLEAN : WriteFrameHeader(commit)
    \/ WritePage \/ Rollback \/ Checkpoint
    \/ NoWalYet \/ ReadHeader \/ AcceptFrame \/ StopScan \/ UseResult

Spec == Init /\ [][Next]_vars

-----------------------------------------------------------------------------
(* Properties *)

\* The size the scan has arrived at is always the end of a transaction that is
\* committed in the header's cycle, and the pages it has read up to there are
\* those of that transaction and the ones before it: never the middle of one,
\* never frames that were rolled back, torn, or left by an earlier cycle,
\* whatever SQLite writes between two reads ("the exact prefix the backup
\* engine ships", wal.go:22).
ScanSound ==
    committed > 0 =>
        \E d \in durable : /\ d[1] = hdrSalt
                          /\ Len(d) = committed + 1
                          /\ \A i \in 1..committed + 1 : d[i] = sum[i]

\* A scan is as good as an instantaneous one: its result is the committed size
\* at some moment between its start and its end.  A writer that begins the WAL
\* again under it can only make it stop earlier, at a former commit; then the
\* header's salts are no longer the file's, and the next sync sees that.
ScanAtomic ==
    pc = "done" =>
        \/ committed \in sizes
        \/ hdrSalt # cycle /\ \A n \in sizes : committed < n

=============================================================================
