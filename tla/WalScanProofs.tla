--------------------------- MODULE WalScanProofs ---------------------------
(***************************************************************************)
(* ScanSound and ScanAtomic for any number of writes and cycles.           *)
(***************************************************************************)
EXTENDS WalScan, TLAPS

-----------------------------------------------------------------------------
(* ScanSound *)

\* What ScanSound rests on, as an inductive invariant.  The frame at position i
\* was written with a checksum of length i + 1, so that the salts and the page
\* it should hold are the first and the last of it.
FileWellFormed ==
    /\ \A i \in DOMAIN frames : /\ Len(frames[i].sum) = i + 1
                                /\ frames[i].sum[1] = frames[i].salt
                                /\ frames[i].page <= writes
    /\ \A i \in DOMAIN frames :
          frames[i].commit /\ frames[i].sum[i + 1] = frames[i].page
              => frames[i].sum \in durable

\* The writer is behind a chain of its own cycle, and a page still to be
\* written is not yet in the frame whose header announces it.
WriterWellFormed ==
    /\ salt \in {NoSalt, cycle}
    /\ writing \/ at > mxFrame => salt = cycle
    /\ salt = cycle => at + (IF writing THEN 1 ELSE 0) <= Len(frames)
    /\ cycle = 0 => at = 0 /\ ~writing
    /\ cycle > 0 => Len(chain) = at + 1 /\ chain[1] = cycle
    /\ mxFrame <= at
    /\ salt = cycle /\ mxFrame > 0 => frames[mxFrame].salt = cycle
    /\ writing => /\ frames[at + 1].salt = cycle
                  /\ frames[at + 1].sum = Append(chain, writes)
                  /\ frames[at + 1].page < writes

ScanWellFormed ==
    pc # "idle" => Len(sum) = offset + 1 /\ committed <= offset /\ sum[1] = hdrSalt

IInv ==
    /\ TypeOK
    /\ FileWellFormed
    /\ WriterWellFormed
    /\ ScanWellFormed
    /\ ScanSound

-----------------------------------------------------------------------------
\* The initial state, with no file, satisfies the invariant.
LEMMA InitIInv == Init => IInv
<1> SUFFICES ASSUME Init PROVE IInv
    OBVIOUS
<1>1. TypeOK
    <2>1. frames \in Seq(Frames) /\ chain \in Seq(Nat) /\ sum \in Seq(Nat)
        BY DEF Init
    <2>2. writing \in BOOLEAN /\ durable \subseteq Seq(Nat) /\ sizes \subseteq Nat
        BY DEF Init
    <2> QED  BY <2>1, <2>2 DEF Init, TypeOK, NoSalt
<1>2. FileWellFormed /\ WriterWellFormed
    BY DEF Init, FileWellFormed, WriterWellFormed, NoSalt
<1>3. ScanWellFormed /\ ScanSound
    BY DEF Init, ScanWellFormed, ScanSound
<1> QED  BY <1>1, <1>2, <1>3 DEF IInv

\* BeginCycle: nothing of the new cycle is in the file.
LEMMA BeginCycleIInv == IInv /\ BeginCycle => IInv'
<1> SUFFICES ASSUME IInv, BeginCycle PROVE IInv'
    OBVIOUS
<1> USE DEF IInv, BeginCycle, scanVars, NoSalt
<1>1. TypeOK'
    BY DEF TypeOK
<1>2. FileWellFormed'
    BY DEF FileWellFormed, TypeOK
<1>3. WriterWellFormed'
    BY DEF WriterWellFormed, TypeOK
<1>4. ScanWellFormed' /\ ScanSound'
    BY DEF ScanWellFormed, ScanSound
<1> QED  BY <1>1, <1>2, <1>3, <1>4

\* EndHeader: the header carries the salts of the writer's cycle.
LEMMA EndHeaderIInv == IInv /\ EndHeader => IInv'
<1> SUFFICES ASSUME IInv, EndHeader PROVE IInv'
    OBVIOUS
<1> USE DEF IInv, EndHeader, scanVars, writerVars, NoSalt
<1>1. TypeOK'
    BY DEF TypeOK
<1>2. FileWellFormed'
    BY DEF FileWellFormed
<1>3. WriterWellFormed'
    BY DEF WriterWellFormed, TypeOK
<1>4. ScanWellFormed' /\ ScanSound'
    BY DEF ScanWellFormed, ScanSound
<1> QED  BY <1>1, <1>2, <1>3, <1>4

\* WriteFrameHeader: the checksum announces a page that no frame holds yet.
LEMMA WriteFrameHeaderIInv ==
    ASSUME NEW commit \in BOOLEAN, IInv, WriteFrameHeader(commit)
    PROVE  IInv'
<1> DEFINE page == writes + 1
           old  == IF at + 1 <= Len(frames) THEN frames[at + 1].page ELSE NoPage
           head == [salt |-> cycle, commit |-> commit,
                    sum |-> Append(chain, page), page |-> old]
<1>1. /\ TypeOK /\ FileWellFormed /\ WriterWellFormed
      /\ salt = cycle /\ cycle > 0 /\ ~writing
      /\ writes' = writes + 1 /\ writing' = TRUE
      /\ frames' = IF at + 1 <= Len(frames)
                   THEN [frames EXCEPT ![at + 1] = head]
                   ELSE Append(frames, head)
      /\ UNCHANGED <<salt, cycle, mxFrame, chain, at, folded, scanVars, durable,
                     sizes>>
    BY DEF IInv, WriteFrameHeader
<1>2. at \in Nat /\ frames \in Seq(Frames) /\ writes \in Nat /\ cycle \in Nat
      /\ at <= Len(frames) /\ chain \in Seq(Nat) /\ Len(chain) = at + 1
      /\ chain[1] = cycle
    BY <1>1 DEF TypeOK, WriterWellFormed
<1>3. old \in Nat /\ old <= writes
    <2>1. CASE at + 1 <= Len(frames)
        <3>1. at + 1 \in DOMAIN frames /\ frames[at + 1] \in Frames
            BY <1>2, <2>1
        <3>2. frames[at + 1].page \in Nat /\ frames[at + 1].page <= writes
            BY <1>1, <3>1 DEF FileWellFormed, Frames
        <3> QED  BY <2>1, <3>2
    <2>2. CASE ~(at + 1 <= Len(frames))
        BY <1>2, <2>2 DEF NoPage
    <2> QED  BY <2>1, <2>2
<1>4. /\ head \in Frames
      /\ Len(head.sum) = at + 2 /\ head.sum[1] = cycle
      /\ head.sum[at + 2] = writes + 1
      /\ head.sum = Append(chain, writes + 1)
      /\ head.salt = cycle /\ head.page = old /\ head.commit = commit
    <2> DEFINE c == Append(chain, page)
    <2>1. /\ c \in Seq(Nat) /\ Len(c) = at + 2 /\ c[1] = cycle
          /\ c[at + 2] = writes + 1
        BY <1>2
    <2> HIDE DEF c, old
    <2>2. head = [salt |-> cycle, commit |-> commit, sum |-> c, page |-> old]
        BY DEF c
    <2>3. head \in Frames
        BY <1>2, <1>3, <2>1, <2>2 DEF Frames
    <2>4. /\ head.sum = c /\ head.salt = cycle /\ head.page = old
          /\ head.commit = commit
        BY <2>2
    <2> QED  BY <2>1, <2>3, <2>4 DEF c
<1> HIDE DEF head, old
<1>5. /\ frames' \in Seq(Frames)
      /\ at + 1 <= Len(frames')
      /\ DOMAIN frames' = DOMAIN frames \cup {at + 1}
      /\ frames'[at + 1] = head
      /\ \A i \in DOMAIN frames' : i # at + 1 => i \in DOMAIN frames /\ frames'[i] = frames[i]
    <2>1. CASE at + 1 <= Len(frames)
        <3>1. frames' = [frames EXCEPT ![at + 1] = head] /\ head \in Frames
            BY <1>1, <1>4, <2>1
        <3>2. at + 1 \in DOMAIN frames
            BY <1>2, <2>1
        <3>3. DOMAIN frames' = DOMAIN frames /\ Len(frames') = Len(frames)
              /\ frames' \in Seq(Frames)
            BY <1>2, <3>1, <3>2
        <3>4. frames'[at + 1] = head
            BY <1>2, <3>1, <3>2
        <3>5. \A i \in DOMAIN frames' : i # at + 1 => frames'[i] = frames[i]
            BY <1>2, <3>1, <3>2
        <3> QED  BY <2>1, <3>2, <3>3, <3>4, <3>5
    <2>2. CASE ~(at + 1 <= Len(frames))
        <3>1. frames' = Append(frames, head) /\ head \in Frames
            BY <1>1, <1>4, <2>2
        <3>2. Len(frames) = at
            BY <1>2, <2>2
        <3> QED  BY <1>2, <3>1, <3>2
    <2> QED  BY <2>1, <2>2
<1>6. TypeOK'
    BY <1>1, <1>2, <1>5 DEF TypeOK, scanVars
<1>7. FileWellFormed'
    <2>1. ASSUME NEW i \in DOMAIN frames'
          PROVE  /\ Len(frames'[i].sum) = i + 1
                 /\ frames'[i].sum[1] = frames'[i].salt
                 /\ frames'[i].page <= writes'
                 /\ frames'[i].commit /\ frames'[i].sum[i + 1] = frames'[i].page
                       => frames'[i].sum \in durable'
        <3>1. CASE i = at + 1
            BY <1>1, <1>2, <1>3, <1>4, <1>5, <3>1
        <3>2. CASE i # at + 1
            <4>1. i \in DOMAIN frames /\ frames'[i] = frames[i] /\ frames[i] \in Frames
                BY <1>2, <1>5, <3>2
            <4>2. frames[i].page \in Nat
                BY <4>1 DEF Frames
            <4>3. writes' = writes + 1 /\ durable' = durable /\ FileWellFormed
                BY <1>1
            <4> QED  BY <1>2, <4>1, <4>2, <4>3 DEF FileWellFormed
        <3> QED  BY <3>1, <3>2
    <2> QED  BY <2>1 DEF FileWellFormed
<1>8. WriterWellFormed'
    <2>1. at + 1 <= Len(frames')
        BY <1>5
    <2>2. mxFrame > 0 => frames'[mxFrame].salt = cycle
        <3>1. mxFrame \in Nat /\ mxFrame <= at
            BY <1>1 DEF TypeOK, WriterWellFormed
        <3>2. mxFrame > 0 => mxFrame \in DOMAIN frames' /\ mxFrame # at + 1
            BY <1>2, <1>5, <3>1
        <3> QED  BY <1>1, <1>5, <3>2 DEF WriterWellFormed
    <2>3. /\ frames'[at + 1].salt = cycle
          /\ frames'[at + 1].sum = Append(chain, writes + 1)
          /\ frames'[at + 1].page < writes + 1
        BY <1>2, <1>3, <1>4, <1>5
    <2>4. /\ salt' = salt /\ cycle' = cycle /\ mxFrame' = mxFrame /\ chain' = chain
          /\ at' = at /\ writes' = writes + 1 /\ writing' = TRUE
          /\ salt = cycle /\ mxFrame <= at /\ cycle > 0
        BY <1>1 DEF WriterWellFormed
    <2> QED  BY <1>2, <2>1, <2>2, <2>3, <2>4 DEF WriterWellFormed
<1>9. ScanWellFormed' /\ ScanSound'
    BY <1>1 DEF IInv, ScanWellFormed, ScanSound, scanVars
<1> QED  BY <1>6, <1>7, <1>8, <1>9 DEF IInv

\* WritePage: the frame is complete, and recorded when it commits.
LEMMA WritePageIInv == IInv /\ WritePage => IInv'
<1> SUFFICES ASSUME IInv, WritePage PROVE IInv'
    OBVIOUS
<1> DEFINE f == [frames[at + 1] EXCEPT !.page = writes]
<1>1. /\ TypeOK /\ FileWellFormed /\ WriterWellFormed /\ writing
      /\ frames' = [frames EXCEPT ![at + 1] = f]
      /\ chain' = f.sum
      /\ mxFrame' = IF f.commit THEN at + 1 ELSE mxFrame
      /\ durable' = IF f.commit THEN durable \cup {f.sum} ELSE durable
      /\ sizes' = IF f.commit /\ pc = "frames" /\ hdrSalt = cycle
                  THEN sizes \cup {at + 1} ELSE sizes
      /\ at' = at + 1 /\ writing' = FALSE
      /\ UNCHANGED <<salt, cycle, writes, folded, scanVars>>
    BY DEF IInv, WritePage
<1>2. /\ at \in Nat /\ frames \in Seq(Frames) /\ writes \in Nat /\ cycle \in Nat
      /\ mxFrame \in Nat /\ mxFrame <= at
      /\ salt = cycle /\ at + 1 <= Len(frames) /\ chain \in Seq(Nat)
      /\ at + 1 \in DOMAIN frames /\ frames[at + 1] \in Frames
    BY <1>1 DEF TypeOK, WriterWellFormed
<1>3. /\ f \in Frames
      /\ f.sum = frames[at + 1].sum /\ f.commit = frames[at + 1].commit
      /\ f.salt = frames[at + 1].salt /\ f.page = writes
    BY <1>2 DEF Frames
<1>4. /\ f.sum \in Seq(Nat) /\ f.commit \in BOOLEAN
      /\ Len(f.sum) = at + 2 /\ f.sum[1] = cycle /\ f.salt = cycle
    <2>1. frames[at + 1].sum \in Seq(Nat) /\ frames[at + 1].commit \in BOOLEAN
        BY <1>2 DEF Frames
    <2>2. /\ Len(frames[at + 1].sum) = at + 2
          /\ frames[at + 1].sum[1] = frames[at + 1].salt
        BY <1>1, <1>2 DEF FileWellFormed
    <2>3. frames[at + 1].salt = cycle
        BY <1>1 DEF WriterWellFormed
    <2> HIDE DEF f
    <2> QED  BY <1>3, <2>1, <2>2, <2>3
<1> HIDE DEF f
<1>5. /\ frames' \in Seq(Frames) /\ Len(frames') = Len(frames)
      /\ DOMAIN frames' = DOMAIN frames
      /\ frames'[at + 1] = f
      /\ \A i \in DOMAIN frames : i # at + 1 => frames'[i] = frames[i]
    BY <1>1, <1>2, <1>3
<1>6. TypeOK'
    <2>1. durable' \subseteq Seq(Nat) /\ sizes' \subseteq Nat
        BY <1>1, <1>2, <1>4 DEF TypeOK
    <2>2. mxFrame' \in Nat /\ at' \in Nat /\ chain' \in Seq(Nat)
        BY <1>1, <1>2, <1>4
    <2> QED  BY <1>1, <1>5, <2>1, <2>2 DEF TypeOK, scanVars
<1>7. FileWellFormed'
    <2>1. ASSUME NEW i \in DOMAIN frames'
          PROVE  /\ Len(frames'[i].sum) = i + 1
                 /\ frames'[i].sum[1] = frames'[i].salt
                 /\ frames'[i].page <= writes'
                 /\ frames'[i].commit /\ frames'[i].sum[i + 1] = frames'[i].page
                       => frames'[i].sum \in durable'
        <3>1. CASE i = at + 1
            BY <1>1, <1>2, <1>3, <1>4, <1>5, <3>1
        <3>2. CASE i # at + 1
            BY <1>1, <1>5, <3>2 DEF FileWellFormed
        <3> QED  BY <3>1, <3>2
    <2> QED  BY <2>1 DEF FileWellFormed
<1>8. WriterWellFormed'
    <2>1. mxFrame' > 0 => frames'[mxFrame'].salt = cycle
        <3>1. CASE f.commit
            BY <1>1, <1>4, <1>5, <3>1
        <3>2. CASE ~f.commit
            <4>1. mxFrame' = mxFrame /\ mxFrame # at + 1
                BY <1>1, <1>2, <3>2
            <4>2. mxFrame > 0 => mxFrame \in DOMAIN frames
                BY <1>2
            <4> QED  BY <1>1, <1>2, <1>5, <4>1, <4>2 DEF WriterWellFormed
        <3> QED  BY <3>1, <3>2
    <2>2. mxFrame' <= at'
        BY <1>1, <1>2
    <2>3. cycle > 0
        BY <1>1, <1>2 DEF WriterWellFormed
    <2>4. /\ salt' = salt /\ cycle' = cycle /\ at' = at + 1 /\ writing' = FALSE
          /\ Len(chain') = at + 2 /\ chain'[1] = cycle
        BY <1>1, <1>4
    <2> QED  BY <1>2, <1>5, <2>1, <2>2, <2>3, <2>4 DEF WriterWellFormed
<1>9. ScanWellFormed' /\ ScanSound'
    BY <1>1 DEF IInv, ScanWellFormed, ScanSound, scanVars
<1> QED  BY <1>6, <1>7, <1>8, <1>9 DEF IInv

\* Rollback: the chain is that of the last committed frame again.
LEMMA RollbackIInv == IInv /\ Rollback => IInv'
<1> SUFFICES ASSUME IInv, Rollback PROVE IInv'
    OBVIOUS
<1>1. /\ TypeOK /\ FileWellFormed /\ WriterWellFormed
      /\ ~writing /\ at > mxFrame /\ at' = mxFrame
      /\ chain' = IF mxFrame = 0 THEN <<cycle>> ELSE frames[mxFrame].sum
      /\ UNCHANGED <<fileVars, cycle, mxFrame, writing, writes, folded, scanVars,
                     durable, sizes>>
    BY DEF IInv, Rollback
<1>2. /\ at \in Nat /\ mxFrame \in Nat /\ frames \in Seq(Frames) /\ cycle \in Nat
      /\ salt = cycle /\ at <= Len(frames)
    BY <1>1 DEF TypeOK, WriterWellFormed
<1>3. chain' \in Seq(Nat) /\ Len(chain') = mxFrame + 1 /\ chain'[1] = cycle
    <2>1. CASE mxFrame = 0
        BY <1>1, <1>2, <2>1
    <2>2. CASE mxFrame > 0
        <3>1. mxFrame \in DOMAIN frames /\ frames[mxFrame] \in Frames
            BY <1>1, <1>2, <2>2
        <3>2. frames[mxFrame].sum \in Seq(Nat)
            BY <3>1 DEF Frames
        <3>3. /\ Len(frames[mxFrame].sum) = mxFrame + 1
              /\ frames[mxFrame].sum[1] = frames[mxFrame].salt
            BY <1>1, <3>1 DEF FileWellFormed
        <3>4. frames[mxFrame].salt = cycle
            BY <1>1, <1>2, <2>2 DEF WriterWellFormed
        <3> QED  BY <1>1, <2>2, <3>2, <3>3, <3>4
    <2> QED  BY <1>2, <2>1, <2>2
<1>4. TypeOK'
    BY <1>1, <1>2, <1>3 DEF TypeOK, fileVars, scanVars
<1>5. FileWellFormed'
    BY <1>1 DEF FileWellFormed, fileVars
<1>6. WriterWellFormed'
    BY <1>1, <1>2, <1>3 DEF WriterWellFormed, fileVars
<1>7. ScanWellFormed' /\ ScanSound'
    BY <1>1 DEF IInv, ScanWellFormed, ScanSound, scanVars
<1> QED  BY <1>4, <1>5, <1>6, <1>7 DEF IInv

\* Checkpoint: it cuts the file only while no frame is beyond the last commit.
LEMMA CheckpointIInv == IInv /\ Checkpoint => IInv'
<1> SUFFICES ASSUME IInv, Checkpoint PROVE IInv'
    OBVIOUS
<1>1. /\ TypeOK /\ FileWellFormed /\ WriterWellFormed
      /\ pc = "idle" /\ ~writing /\ mxFrame > 0 /\ at = mxFrame
      /\ folded' = mxFrame
      /\ \/ UNCHANGED fileVars
         \/ salt' = NoSalt /\ frames' = <<>>
      /\ UNCHANGED <<cycle, mxFrame, chain, at, writing, writes, scanVars, durable,
                     sizes>>
    BY DEF IInv, Checkpoint
<1>2. TypeOK'
    <2>1. folded' \in Nat
        BY <1>1 DEF TypeOK
    <2>2. salt' \in Nat /\ frames' \in Seq(Frames)
        <3>1. CASE UNCHANGED fileVars
            BY <1>1, <3>1 DEF TypeOK, fileVars
        <3>2. CASE salt' = NoSalt /\ frames' = <<>>
            BY <3>2 DEF NoSalt
        <3> QED  BY <1>1, <3>1, <3>2
    <2> QED  BY <1>1, <2>1, <2>2 DEF TypeOK, scanVars
<1>3. FileWellFormed'
    BY <1>1 DEF FileWellFormed, fileVars
<1>4. cycle > 0
    BY <1>1 DEF WriterWellFormed, TypeOK
<1>5. WriterWellFormed'
    BY <1>1, <1>4 DEF WriterWellFormed, fileVars, NoSalt, TypeOK
<1>6. ScanWellFormed' /\ ScanSound'
    BY <1>1 DEF IInv, ScanWellFormed, ScanSound, scanVars
<1> QED  BY <1>2, <1>3, <1>5, <1>6 DEF IInv

\* The scan: a frame it accepts holds the page its checksum ends in, so that a
\* commit frame among them is one that was completed.
LEMMA ScanIInv ==
    IInv /\ (NoWalYet \/ ReadHeader \/ AcceptFrame \/ StopScan \/ UseResult) => IInv'
<1> SUFFICES ASSUME IInv,
                    NoWalYet \/ ReadHeader \/ AcceptFrame \/ StopScan \/ UseResult
             PROVE  IInv'
    OBVIOUS
<1>1. UNCHANGED <<fileVars, writerVars, durable>>
    BY DEF NoWalYet, ReadHeader, AcceptFrame, StopScan, UseResult, vars
<1>2. FileWellFormed' /\ WriterWellFormed'
    BY <1>1 DEF IInv, FileWellFormed, WriterWellFormed, fileVars, writerVars
<1>3. CASE NoWalYet
    BY <1>2, <1>3 DEF IInv, TypeOK, ScanWellFormed, ScanSound, NoWalYet, vars, fileVars,
                      writerVars, scanVars
<1>4. CASE ReadHeader
    <2>1. TypeOK'
        BY <1>4 DEF IInv, TypeOK, ReadHeader, fileVars, writerVars
    <2>2. ScanWellFormed' /\ ScanSound'
        BY <1>4 DEF IInv, TypeOK, ReadHeader, ScanWellFormed, ScanSound
    <2> QED  BY <1>2, <2>1, <2>2 DEF IInv
<1>5. CASE AcceptFrame
    <2> DEFINE f == frames[offset + 1]
    <2>1. /\ TypeOK /\ FileWellFormed /\ ScanWellFormed /\ ScanSound
          /\ pc = "frames" /\ offset < Len(frames) /\ f.salt = hdrSalt
          /\ Append(sum, f.page) = f.sum
          /\ sum' = f.sum /\ offset' = offset + 1
          /\ committed' = IF f.commit THEN offset + 1 ELSE committed
          /\ UNCHANGED <<pc, hdrSalt, durable, sizes, fileVars, writerVars>>
        BY <1>5 DEF IInv, AcceptFrame, Accepts
    <2>2. /\ offset \in Nat /\ offset + 1 \in DOMAIN frames /\ f \in Frames
          /\ sum \in Seq(Nat) /\ committed \in Nat
        BY <2>1 DEF TypeOK
    <2>3. f.sum \in Seq(Nat) /\ f.page \in Nat /\ f.commit \in BOOLEAN
        BY <2>2 DEF Frames
    <2>4. /\ Len(sum) = offset + 1 /\ committed <= offset
          /\ Len(f.sum) = offset + 2 /\ f.sum[1] = hdrSalt
          /\ f.sum[offset + 2] = f.page
          /\ \A i \in 1..offset + 1 : f.sum[i] = sum[i]
        <3>1. Len(sum) = offset + 1 /\ committed <= offset
            BY <2>1 DEF ScanWellFormed
        <3>2. Len(f.sum) = offset + 2 /\ f.sum[1] = hdrSalt
            BY <2>1, <2>2 DEF FileWellFormed
        <3>3. /\ f.sum = Append(sum, f.page) /\ f.page \in Nat /\ sum \in Seq(Nat)
              /\ offset \in Nat
            BY <2>1, <2>2, <2>3
        <3> HIDE DEF f
        <3>4. f.sum[offset + 2] = f.page
            BY <3>1, <3>3
        <3>5. \A i \in 1..offset + 1 : f.sum[i] = sum[i]
            BY <3>1, <3>3
        <3> QED  BY <3>1, <3>2, <3>4, <3>5
    <2>5. f.commit => f.sum \in durable
        BY <2>1, <2>2, <2>4 DEF FileWellFormed
    <2> HIDE DEF f
    <2>6. TypeOK'
        BY <2>1, <2>2, <2>3 DEF TypeOK, fileVars, writerVars
    <2>7. ScanWellFormed'
        BY <2>1, <2>2, <2>4 DEF ScanWellFormed
    <2>8. ScanSound'
        <3>1. CASE f.commit
            <4>1. committed' = offset + 1 /\ durable' = durable /\ hdrSalt' = hdrSalt
                BY <2>1, <3>1
            <4> QED  BY <2>1, <2>2, <2>4, <2>5, <3>1, <4>1 DEF ScanSound
        <3>2. CASE ~f.commit
            <4>1. committed' = committed /\ durable' = durable /\ hdrSalt' = hdrSalt
                BY <2>1, <3>2
            <4>2. \A i \in 1..committed + 1 : sum'[i] = sum[i]
                BY <2>1, <2>2, <2>4
            <4> QED  BY <2>1, <4>1, <4>2 DEF ScanSound
        <3> QED  BY <2>3, <3>1, <3>2
    <2> QED  BY <1>2, <2>6, <2>7, <2>8 DEF IInv
<1>6. CASE StopScan
    BY <1>2, <1>6 DEF IInv, TypeOK, ScanWellFormed, ScanSound, StopScan, fileVars,
                      writerVars
<1>7. CASE UseResult
    BY <1>2, <1>7 DEF IInv, TypeOK, ScanWellFormed, ScanSound, UseResult, fileVars,
                      writerVars, NoSalt
<1> QED  BY <1>3, <1>4, <1>5, <1>6, <1>7

\* Every step keeps the invariant.
LEMMA NextIInv == IInv /\ [Next]_vars => IInv'
<1> SUFFICES ASSUME IInv, [Next]_vars PROVE IInv'
    OBVIOUS
<1>1. CASE UNCHANGED vars
    BY <1>1 DEF IInv, TypeOK, FileWellFormed, WriterWellFormed, ScanWellFormed,
                ScanSound, vars, fileVars, writerVars, scanVars
<1>2. CASE Next
    BY <1>2, BeginCycleIInv, EndHeaderIInv, WriteFrameHeaderIInv, WritePageIInv,
       RollbackIInv, CheckpointIInv, ScanIInv DEF Next
<1> QED  BY <1>1, <1>2

\* At every moment of a scan, for any number of writes and cycles, the size it
\* has arrived at is the end of a committed transaction, and the pages up to
\* there are that transaction's and its predecessors'.
THEOREM ScanIsSound == Spec => []ScanSound
<1>1. IInv => ScanSound
    BY DEF IInv
<1> QED  BY InitIInv, NextIInv, <1>1, PTL DEF Spec


-----------------------------------------------------------------------------
(* ScanAtomic *)

\* What the chain of cycle c is at position i of the frames fs.
ChainAt(c, fs, i) == IF i = 0 THEN <<c>> ELSE fs[i].sum

\* What ScanAtomic rests on, besides IInv.  Once the header of the cycle is in
\* the file, the frames up to the writer's place are a chain of complete frames
\* of that cycle, and behind its last committed frame there is no commit frame
\* of that cycle but the one being written.
CycleInFile ==
    /\ \A i \in DOMAIN frames : /\ frames[i].salt <= cycle
                                /\ salt = NoSalt => frames[i].salt < cycle
    /\ salt # NoSalt =>
          /\ chain = ChainAt(cycle, frames, at)
          /\ \A i \in 1..at : /\ frames[i].salt = cycle
                              /\ frames[i].page # NoPage
                              /\ frames[i].sum = Append(ChainAt(cycle, frames, i - 1), frames[i].page)
          /\ \A i \in DOMAIN frames :
                frames[i].salt = cycle /\ frames[i].commit /\ ~(writing /\ i = at + 1)
                    => i <= mxFrame
          /\ mxFrame > 0 => frames[mxFrame].commit

\* The sizes seen during a scan, and the frames it may still accept: from the
\* first size on, the commit frames of the header's cycle are at the sizes.
SizesSeen ==
    pc = "frames" =>
        /\ \A i \in DOMAIN frames :
              i \in sizes /\ frames[i].salt = hdrSalt => frames[i].commit
        /\ hdrSalt = cycle =>
              salt = cycle /\ mxFrame \in sizes /\ \A n \in sizes : n <= mxFrame
        /\ \A i \in DOMAIN frames : \A n \in sizes :
              n <= i /\ frames[i].salt = hdrSalt /\ frames[i].commit
                     /\ ~(writing /\ i = at + 1 /\ hdrSalt = cycle)
                  => i \in sizes

\* The scan has arrived at one of the sizes, or is still on its way to the first,
\* on the chain that is in the file.
OnItsWay ==
    pc = "frames" =>
        \/ committed \in sizes
        \/ /\ \A n \in sizes : offset < n
           /\ hdrSalt = cycle => sum = ChainAt(cycle, frames, offset)

AtomicInv ==
    /\ pc # "idle" => hdrSalt <= cycle /\ hdrSalt # NoSalt
    /\ CycleInFile
    /\ SizesSeen
    /\ OnItsWay
    /\ ScanAtomic

-----------------------------------------------------------------------------
\* The types of what the invariant speaks of.
LEMMA ScanTypes ==
    ASSUME IInv
    PROVE  /\ salt \in Nat /\ cycle \in Nat /\ at \in Nat /\ mxFrame \in Nat
           /\ mxFrame <= at /\ offset \in Nat /\ committed \in Nat /\ hdrSalt \in Nat
           /\ writes \in Nat /\ writing \in BOOLEAN /\ sizes \subseteq Nat
           /\ frames \in Seq(Frames) /\ Len(frames) \in Nat
           /\ DOMAIN frames = 1..Len(frames)
           /\ salt # NoSalt => salt = cycle /\ cycle > 0 /\ at <= Len(frames)
           /\ pc # "idle" => committed <= offset
           /\ \A i \in DOMAIN frames : /\ frames[i].salt \in Nat
                                       /\ frames[i].page \in Nat
                                       /\ frames[i].commit \in BOOLEAN
<1>1. /\ salt \in Nat /\ cycle \in Nat /\ at \in Nat /\ mxFrame \in Nat
      /\ offset \in Nat /\ committed \in Nat /\ hdrSalt \in Nat
      /\ writes \in Nat /\ writing \in BOOLEAN /\ sizes \subseteq Nat
      /\ frames \in Seq(Frames)
    BY DEF IInv, TypeOK
<1>2. mxFrame <= at /\ (pc # "idle" => committed <= offset)
    BY DEF IInv, WriterWellFormed, ScanWellFormed
<1>3. salt # NoSalt => salt = cycle /\ cycle > 0 /\ at <= Len(frames)
    BY <1>1 DEF IInv, WriterWellFormed, NoSalt
<1>4. \A i \in DOMAIN frames : frames[i] \in Frames
    BY <1>1
<1> QED  BY <1>1, <1>2, <1>3, <1>4 DEF Frames

\* BeginCycle: whatever the file holds is of an earlier cycle from now on.
LEMMA BeginCycleAtomic == IInv /\ AtomicInv /\ BeginCycle => AtomicInv'
<1> SUFFICES ASSUME IInv, AtomicInv, BeginCycle PROVE AtomicInv'
    OBVIOUS
<1>1. /\ ~writing /\ cycle' = cycle + 1 /\ salt' = NoSalt
      /\ UNCHANGED <<frames, writing, pc, hdrSalt, offset, sum, committed, sizes>>
    BY DEF BeginCycle, scanVars
<1>2. cycle \in Nat /\ hdrSalt \in Nat /\ (pc # "idle" => hdrSalt <= cycle /\ hdrSalt # NoSalt)
    BY ScanTypes DEF AtomicInv
<1>3. pc # "idle" => hdrSalt # cycle'
    BY <1>1, <1>2
<1>4. CycleInFile'
    <2>1. \A i \in DOMAIN frames : frames[i].salt \in Nat /\ frames[i].salt <= cycle
        BY ScanTypes DEF AtomicInv, CycleInFile
    <2>2. \A i \in DOMAIN frames : frames[i].salt < cycle + 1 /\ frames[i].salt <= cycle + 1
        BY <1>2, <2>1
    <2> QED  BY <1>1, <2>2 DEF CycleInFile
<1>5. SizesSeen'
    BY <1>1, <1>3 DEF AtomicInv, SizesSeen
<1>6. OnItsWay'
    BY <1>1, <1>3 DEF AtomicInv, OnItsWay
<1>7. ScanAtomic'
    BY <1>1, <1>3 DEF AtomicInv, ScanAtomic
<1> QED  BY <1>1, <1>2, <1>4, <1>5, <1>6, <1>7 DEF AtomicInv

\* EndHeader: there is no frame of the new cycle yet.
LEMMA EndHeaderAtomic == IInv /\ AtomicInv /\ EndHeader => AtomicInv'
<1> SUFFICES ASSUME IInv, AtomicInv, EndHeader PROVE AtomicInv'
    OBVIOUS
<1>1. /\ cycle > 0 /\ salt = NoSalt /\ mxFrame = 0 /\ salt' = cycle
      /\ UNCHANGED <<frames, cycle, mxFrame, chain, at, writing, pc, hdrSalt, offset,
                     sum, committed, sizes>>
    BY DEF EndHeader, scanVars, writerVars
<1>2. at = 0 /\ chain = <<cycle>>
    <2>1. at = 0 /\ Len(chain) = at + 1 /\ chain[1] = cycle /\ chain \in Seq(Nat)
        BY <1>1 DEF IInv, TypeOK, WriterWellFormed, NoSalt
    <2> QED  BY <2>1
<1>3. \A i \in DOMAIN frames : frames[i].salt < cycle /\ frames[i].salt <= cycle
                            /\ frames[i].salt # cycle
    <2>1. \A i \in DOMAIN frames : frames[i].salt < cycle /\ frames[i].salt <= cycle
                                /\ frames[i].salt \in Nat
        BY <1>1, ScanTypes DEF AtomicInv, CycleInFile
    <2> QED  BY <2>1, ScanTypes
<1>4. CycleInFile'
    BY <1>1, <1>2, <1>3 DEF CycleInFile, ChainAt, NoSalt
<1>5. SizesSeen' /\ OnItsWay' /\ ScanAtomic'
    BY <1>1 DEF AtomicInv, SizesSeen, OnItsWay, ScanAtomic, ChainAt
<1> QED  BY <1>1, <1>4, <1>5 DEF AtomicInv

\* The frame behind the writer's place is written, its header or its page: what
\* the scan has seen is before it.
LEMMA FrameWritten ==
    ASSUME IInv, AtomicInv, salt = cycle, cycle > 0,
           DOMAIN frames' = DOMAIN frames \cup {at + 1},
           frames'[at + 1].salt = cycle,
           \A i \in DOMAIN frames : i # at + 1 => frames'[i] = frames[i],
           UNCHANGED <<salt, cycle, pc, hdrSalt, offset, sum, committed>>,
           sizes \subseteq sizes',
           pc = "frames" =>
              \/ sizes' = sizes /\ mxFrame' = mxFrame
              \/ hdrSalt # cycle /\ sizes' = sizes
              \/ hdrSalt = cycle /\ sizes' = sizes \cup {at + 1}
                                 /\ mxFrame' = at + 1
    PROVE  /\ OnItsWay'
           /\ pc = "done" /\ sizes' = sizes => ScanAtomic'
           /\ \A i \in DOMAIN frames' : i \in 1..at =>
                 /\ frames'[i] = frames[i]
                 /\ ChainAt(cycle', frames', i) = ChainAt(cycle, frames, i)
<1> USE ScanTypes
<1>1. at + 1 # 0 /\ at \in Nat /\ at <= Len(frames) /\ DOMAIN frames = 1..Len(frames)
    BY DEF NoSalt
<1>2. \A i \in 0..at : ChainAt(cycle', frames', i) = ChainAt(cycle, frames, i)
    <2> SUFFICES ASSUME NEW i \in 0..at PROVE ChainAt(cycle', frames', i) = ChainAt(cycle, frames, i)
        OBVIOUS
    <2>1. i = 0 \/ (i \in DOMAIN frames /\ i # at + 1)
        BY <1>1
    <2> QED  BY <2>1 DEF ChainAt
<1>3. OnItsWay'
    <2> SUFFICES ASSUME pc = "frames", committed \notin sizes'
                 PROVE  /\ \A n \in sizes' : offset < n
                        /\ hdrSalt = cycle => sum = ChainAt(cycle', frames', offset)
        BY DEF OnItsWay
    <2>1. /\ \A n \in sizes : offset < n
          /\ hdrSalt = cycle => sum = ChainAt(cycle, frames, offset)
        BY DEF AtomicInv, OnItsWay
    <2>2. CASE hdrSalt # cycle
        BY <2>1, <2>2
    <2>3. CASE hdrSalt = cycle
        <3>1. mxFrame \in sizes
            BY <2>3 DEF AtomicInv, SizesSeen
        <3>2. offset < mxFrame /\ offset \in 0..at /\ offset < at + 1
            BY <2>1, <3>1
        <3> QED  BY <1>2, <2>1, <2>3, <3>2
    <2> QED  BY <2>2, <2>3
<1>4. pc = "done" /\ sizes' = sizes => ScanAtomic'
    BY DEF AtomicInv, ScanAtomic
<1> QED  BY <1>1, <1>2, <1>3, <1>4

\* WriteFrameHeader: the frame it announces has not been completed.
LEMMA WriteFrameHeaderAtomic ==
    ASSUME NEW commit \in BOOLEAN, IInv, AtomicInv, WriteFrameHeader(commit)
    PROVE  AtomicInv'
<1> DEFINE head == [salt |-> cycle, commit |-> commit, sum |-> Append(chain, writes + 1),
                    page |-> IF at + 1 <= Len(frames) THEN frames[at + 1].page ELSE NoPage]
<1>1. /\ salt = cycle /\ cycle > 0 /\ ~writing /\ writing' = TRUE
      /\ frames' = IF at + 1 <= Len(frames) THEN [frames EXCEPT ![at + 1] = head]
                                            ELSE Append(frames, head)
      /\ UNCHANGED <<salt, cycle, mxFrame, chain, at, pc, hdrSalt, offset, sum, committed,
                     sizes>>
    BY DEF WriteFrameHeader, scanVars
<1>2. /\ at \in Nat /\ at <= Len(frames) /\ Len(frames) \in Nat /\ salt # NoSalt
      /\ DOMAIN frames = 1..Len(frames) /\ frames \in Seq(Frames) /\ cycle \in Nat
      /\ mxFrame \in Nat /\ mxFrame <= at
    BY <1>1, ScanTypes DEF NoSalt
<1>3. /\ DOMAIN frames' = DOMAIN frames \cup {at + 1}
      /\ frames'[at + 1] = head
      /\ \A i \in DOMAIN frames : i # at + 1 => frames'[i] = frames[i]
    <2> HIDE DEF head
    <2>1. CASE at + 1 <= Len(frames)
        BY <1>1, <1>2, <2>1
    <2>2. CASE ~(at + 1 <= Len(frames))
        <3>0. frames' = Append(frames, head)
            BY <1>1, <2>2
        <3>1. Len(frames) = at
            <4>1. \A m, n \in Nat : m <= n /\ ~(m + 1 <= n) => n = m
                OBVIOUS
            <4>2. at \in Nat /\ Len(frames) \in Nat /\ at <= Len(frames)
                BY <1>2
            <4> QED  BY <2>2, <4>1, <4>2
        <3>2. DOMAIN frames' = 1..at + 1 /\ frames'[at + 1] = head
            BY <1>2, <3>0, <3>1
        <3>3. \A i \in DOMAIN frames : frames'[i] = frames[i]
            BY <1>2, <3>0, <3>1
        <3> QED  BY <1>2, <3>1, <3>2, <3>3
    <2> QED  BY <2>1, <2>2
<1>4. frames'[at + 1].salt = cycle
    BY <1>3
<1> HIDE DEF head
<1>5. /\ OnItsWay'
      /\ pc = "done" => ScanAtomic'
      /\ \A i \in DOMAIN frames' : i \in 1..at =>
            frames'[i] = frames[i] /\ ChainAt(cycle', frames', i) = ChainAt(cycle, frames, i)
    BY <1>1, <1>3, <1>4, FrameWritten
<1>6. CycleInFile'
    <2>1. \A i \in DOMAIN frames' : frames'[i].salt <= cycle
        BY <1>2, <1>3, <1>4 DEF AtomicInv, CycleInFile
    <2>2. chain = ChainAt(cycle', frames', at)
        <3>1. chain = ChainAt(cycle, frames, at)
            BY <1>2 DEF AtomicInv, CycleInFile
        <3>2. CASE at = 0
            BY <1>1, <3>1, <3>2 DEF ChainAt
        <3>3. CASE at # 0
            <4>1. at \in DOMAIN frames'
                BY <1>2, <1>3, <3>3
            <4> QED  BY <1>2, <1>5, <3>1, <3>3, <4>1
        <3> QED  BY <3>2, <3>3
    <2>3. ASSUME NEW i \in 1..at
          PROVE  /\ frames'[i].salt = cycle
                 /\ frames'[i].page # NoPage
                 /\ frames'[i].sum = Append(ChainAt(cycle', frames', i - 1), frames'[i].page)
        <3>1. i \in DOMAIN frames' /\ frames'[i] = frames[i]
            BY <1>2, <1>3, <1>5
        <3>2. /\ frames[i].salt = cycle
              /\ frames[i].page # NoPage
              /\ frames[i].sum = Append(ChainAt(cycle, frames, i - 1), frames[i].page)
            BY <1>2 DEF AtomicInv, CycleInFile
        <3>3. ChainAt(cycle', frames', i - 1) = ChainAt(cycle, frames, i - 1)
            <4>1. CASE i = 1
                BY <1>1, <4>1 DEF ChainAt
            <4>2. CASE i # 1
                BY <1>2, <1>3, <1>5, <4>2
            <4> QED  BY <4>1, <4>2
        <3> QED  BY <3>1, <3>2, <3>3
    <2>4. \A i \in DOMAIN frames' :
             frames'[i].salt = cycle /\ frames'[i].commit /\ i # at + 1 => i <= mxFrame
        BY <1>1, <1>2, <1>3 DEF AtomicInv, CycleInFile
    <2>5. mxFrame > 0 => frames'[mxFrame].commit
        BY <1>2, <1>3 DEF AtomicInv, CycleInFile
    <2> QED  BY <1>1, <1>2, <2>1, <2>2, <2>3, <2>4, <2>5 DEF CycleInFile
<1>7. SizesSeen'
    <2> SUFFICES ASSUME pc = "frames" PROVE SizesSeen'
        BY <1>1 DEF SizesSeen
    <2>1. hdrSalt = cycle =>
             salt = cycle /\ mxFrame \in sizes /\ \A n \in sizes : n <= mxFrame
        BY DEF AtomicInv, SizesSeen
    <2>2. ASSUME NEW i \in DOMAIN frames', i \in sizes, frames'[i].salt = hdrSalt
          PROVE  frames'[i].commit
        <3>1. i # at + 1
            BY <1>2, <1>4, <2>1, <2>2
        <3> QED  BY <1>3, <2>2, <3>1 DEF AtomicInv, SizesSeen
    <2>3. ASSUME NEW i \in DOMAIN frames', NEW n \in sizes, n <= i,
                 frames'[i].salt = hdrSalt, frames'[i].commit,
                 ~(i = at + 1 /\ hdrSalt = cycle)
          PROVE  i \in sizes
        <3>1. i # at + 1
            BY <1>4, <2>3
        <3>2. i \in DOMAIN frames /\ frames'[i] = frames[i]
            BY <1>3, <3>1
        <3> QED  BY <1>1, <2>3, <3>2 DEF AtomicInv, SizesSeen
    <2> QED  BY <1>1, <2>1, <2>2, <2>3 DEF SizesSeen
<1>8. ScanAtomic'
    BY <1>1, <1>5 DEF ScanAtomic
<1> QED  BY <1>1, <1>5, <1>6, <1>7, <1>8 DEF AtomicInv

\* WritePage: the frame is complete; one that commits is a size of its cycle.
LEMMA WritePageAtomic == IInv /\ AtomicInv /\ WritePage => AtomicInv'
<1> SUFFICES ASSUME IInv, AtomicInv, WritePage PROVE AtomicInv'
    OBVIOUS
<1> DEFINE f == [frames[at + 1] EXCEPT !.page = writes]
<1>1. /\ writing /\ writing' = FALSE
      /\ frames' = [frames EXCEPT ![at + 1] = f]
      /\ chain' = f.sum
      /\ mxFrame' = IF f.commit THEN at + 1 ELSE mxFrame
      /\ sizes' = IF f.commit /\ pc = "frames" /\ hdrSalt = cycle
                  THEN sizes \cup {at + 1} ELSE sizes
      /\ at' = at + 1
      /\ UNCHANGED <<salt, cycle, pc, hdrSalt, offset, sum, committed>>
    BY DEF WritePage, scanVars
<1>2. /\ at \in Nat /\ salt = cycle /\ cycle > 0 /\ at + 1 \in DOMAIN frames
      /\ salt # NoSalt /\ frames \in Seq(Frames) /\ cycle \in Nat /\ writes \in Nat
      /\ mxFrame \in Nat /\ mxFrame <= at /\ DOMAIN frames = 1..Len(frames)
      /\ Len(frames) \in Nat /\ sizes \subseteq Nat
    <2>1. salt = cycle /\ at + 1 <= Len(frames) /\ cycle > 0
        <3>1. /\ salt = cycle /\ (writing => at + 1 <= Len(frames))
            BY <1>1, ScanTypes DEF IInv, WriterWellFormed
        <3>2. cycle > 0
            BY <1>1, ScanTypes DEF IInv, WriterWellFormed
        <3> QED  BY <1>1, <3>1, <3>2
    <2> QED  BY <2>1, ScanTypes DEF NoSalt
<1>3. /\ f.sum = frames[at + 1].sum /\ f.commit = frames[at + 1].commit
      /\ f.salt = frames[at + 1].salt /\ f.page = writes /\ f.commit \in BOOLEAN
    <2>1. frames[at + 1] \in Frames
        BY <1>2
    <2> QED  BY <2>1 DEF Frames
<1>4. f.salt = cycle /\ f.sum = Append(chain, writes) /\ writes > 0
    <2>1. /\ frames[at + 1].salt = cycle
          /\ frames[at + 1].sum = Append(chain, writes)
          /\ frames[at + 1].page < writes
        BY <1>1 DEF IInv, WriterWellFormed
    <2>2. frames[at + 1].page \in Nat
        BY <1>2, ScanTypes
    <2> QED  BY <1>2, <1>3, <2>1, <2>2
<1> HIDE DEF f
<1>5. /\ DOMAIN frames' = DOMAIN frames /\ frames'[at + 1] = f
      /\ \A i \in DOMAIN frames : i # at + 1 => frames'[i] = frames[i]
    BY <1>1, <1>2
<1>6. /\ OnItsWay'
      /\ pc = "done" => ScanAtomic'
      /\ \A i \in DOMAIN frames' : i \in 1..at =>
            frames'[i] = frames[i] /\ ChainAt(cycle', frames', i) = ChainAt(cycle, frames, i)
    <2>1. /\ DOMAIN frames' = DOMAIN frames \cup {at + 1}
          /\ frames'[at + 1].salt = cycle
          /\ sizes \subseteq sizes'
        BY <1>1, <1>2, <1>4, <1>5
    <2>2. pc = "frames" =>
              \/ sizes' = sizes /\ mxFrame' = mxFrame
              \/ hdrSalt # cycle /\ sizes' = sizes
              \/ hdrSalt = cycle /\ sizes' = sizes \cup {at + 1} /\ mxFrame' = at + 1
        BY <1>1
    <2>3. pc = "done" => sizes' = sizes
        BY <1>1
    <2> QED  BY <1>1, <1>2, <1>5, <2>1, <2>2, <2>3, FrameWritten
<1>7. \A i \in 0..at : ChainAt(cycle', frames', i) = ChainAt(cycle, frames, i)
    <2>1. \A i \in 1..at : i \in DOMAIN frames /\ i # at + 1
        BY <1>2
    <2> QED  BY <1>1, <1>2, <1>5, <2>1 DEF ChainAt
<1>8. /\ chain = ChainAt(cycle, frames, at)
      /\ \A i \in 1..at : /\ frames[i].salt = cycle
                          /\ frames[i].page # NoPage
                          /\ frames[i].sum = Append(ChainAt(cycle, frames, i - 1), frames[i].page)
      /\ \A i \in DOMAIN frames : frames[i].salt = cycle /\ frames[i].commit /\ i # at + 1
                                     => i <= mxFrame
      /\ mxFrame > 0 => frames[mxFrame].commit
      /\ \A i \in DOMAIN frames : frames[i].salt <= cycle
    BY <1>2 DEF AtomicInv, CycleInFile
<1>9. CycleInFile'
    <2>1. \A i \in DOMAIN frames' : frames'[i].salt <= cycle
        <3>1. f.salt <= cycle
            BY <1>2, <1>4
        <3>2. \A i \in DOMAIN frames : frames'[i].salt <= cycle
            BY <1>5, <1>8, <3>1
        <3> QED  BY <1>5, <3>2
    <2>2. chain' = ChainAt(cycle', frames', at + 1)
        BY <1>1, <1>2, <1>5 DEF ChainAt
    <2>3. ASSUME NEW i \in 1..at + 1
          PROVE  /\ frames'[i].salt = cycle
                 /\ frames'[i].page # NoPage
                 /\ frames'[i].sum = Append(ChainAt(cycle', frames', i - 1), frames'[i].page)
        <3>1. CASE i = at + 1
            <4>1. at \in 0..at /\ i - 1 = at
                BY <1>2, <3>1
            <4>2. ChainAt(cycle', frames', i - 1) = chain
                BY <1>7, <1>8, <4>1
            <4> QED  BY <1>2, <1>3, <1>4, <1>5, <3>1, <4>2 DEF NoPage
        <3>2. CASE i # at + 1
            <4>1. i \in 1..at /\ i - 1 \in 0..at /\ i \in DOMAIN frames
                BY <1>2, <3>2
            <4> QED  BY <1>5, <1>7, <1>8, <3>2, <4>1
        <3> QED  BY <3>1, <3>2
    <2>4. ASSUME NEW i \in DOMAIN frames', frames'[i].salt = cycle, frames'[i].commit
          PROVE  i <= mxFrame'
        <3>1. CASE i = at + 1
            BY <1>1, <1>2, <1>5, <2>4, <3>1
        <3>2. CASE i # at + 1
            <4>1. i \in DOMAIN frames /\ i \in Nat /\ i <= mxFrame
                BY <1>2, <1>5, <1>8, <2>4, <3>2
            <4> QED  BY <1>1, <1>2, <4>1
        <3> QED  BY <3>1, <3>2
    <2>5. mxFrame' > 0 => frames'[mxFrame'].commit
        <3>1. CASE f.commit
            BY <1>1, <1>5, <3>1
        <3>2. CASE ~f.commit
            <4>1. mxFrame > 0 => mxFrame \in DOMAIN frames /\ mxFrame # at + 1
                BY <1>2
            <4> QED  BY <1>1, <1>5, <1>8, <3>2, <4>1
        <3> QED  BY <3>1, <3>2
    <2> QED  BY <1>1, <1>2, <2>1, <2>2, <2>3, <2>4, <2>5 DEF CycleInFile
<1>10. SizesSeen'
    <2> SUFFICES ASSUME pc = "frames" PROVE SizesSeen'
        BY <1>1 DEF SizesSeen
    <2>1. hdrSalt = cycle =>
             salt = cycle /\ mxFrame \in sizes /\ \A n \in sizes : n <= mxFrame
        BY DEF AtomicInv, SizesSeen
    <2>2. hdrSalt = cycle =>
             salt = cycle /\ mxFrame' \in sizes' /\ \A n \in sizes' : n <= mxFrame'
        <3>1. CASE hdrSalt = cycle /\ f.commit
            <4>1. mxFrame' = at + 1 /\ sizes' = sizes \cup {at + 1}
                BY <1>1, <3>1
            <4>2. \A n \in sizes : n <= at + 1
                BY <1>2, <2>1, <3>1
            <4> QED  BY <1>2, <4>1, <4>2
        <3>2. CASE ~(hdrSalt = cycle /\ f.commit)
            BY <1>1, <2>1, <3>2
        <3> QED  BY <3>1, <3>2
    <2>3. ASSUME NEW i \in DOMAIN frames', i \in sizes', frames'[i].salt = hdrSalt
          PROVE  frames'[i].commit
        <3>1. CASE i = at + 1
            <4>1. hdrSalt = cycle /\ i \notin sizes
                BY <1>2, <1>4, <1>5, <2>1, <2>3, <3>1
            <4> QED  BY <1>1, <1>5, <2>3, <3>1, <4>1
        <3>2. CASE i # at + 1
            <4>1. i \in DOMAIN frames /\ i \in sizes /\ frames'[i] = frames[i]
                BY <1>1, <1>5, <2>3, <3>2
            <4> QED  BY <2>3, <4>1 DEF AtomicInv, SizesSeen
        <3> QED  BY <3>1, <3>2
    <2>4. ASSUME NEW i \in DOMAIN frames', NEW n \in sizes', n <= i,
                 frames'[i].salt = hdrSalt, frames'[i].commit
          PROVE  i \in sizes'
        <3>1. CASE i = at + 1
            <4>1. hdrSalt = cycle /\ f.commit
                BY <1>4, <1>5, <2>4, <3>1
            <4> QED  BY <1>1, <3>1, <4>1
        <3>2. CASE i # at + 1
            <4>1. i \in DOMAIN frames /\ frames'[i] = frames[i] /\ i \in Nat
                BY <1>2, <1>5, <3>2
            <4>2. CASE n \in sizes
                BY <1>1, <2>4, <3>2, <4>1, <4>2 DEF AtomicInv, SizesSeen
            <4>3. CASE n \notin sizes
                <5>1. n = at + 1 /\ hdrSalt = cycle
                    BY <1>1, <4>3
                <5>2. i <= mxFrame
                    BY <1>8, <2>4, <3>2, <4>1, <5>1
                <5> QED  BY <1>2, <2>4, <4>1, <5>1, <5>2
            <4> QED  BY <4>2, <4>3
        <3> QED  BY <3>1, <3>2
    <2> QED  BY <1>1, <2>2, <2>3, <2>4 DEF SizesSeen
<1>11. ScanAtomic'
    BY <1>1, <1>6 DEF ScanAtomic
<1> QED  BY <1>1, <1>6, <1>9, <1>10, <1>11 DEF AtomicInv


\* Rollback: the frames it gives up do not commit anything.
LEMMA RollbackAtomic == IInv /\ AtomicInv /\ Rollback => AtomicInv'
<1> SUFFICES ASSUME IInv, AtomicInv, Rollback PROVE AtomicInv'
    OBVIOUS
<1>1. /\ ~writing /\ at > mxFrame /\ at' = mxFrame
      /\ chain' = IF mxFrame = 0 THEN <<cycle>> ELSE frames[mxFrame].sum
      /\ UNCHANGED <<salt, frames, cycle, mxFrame, writing, pc, hdrSalt, offset, sum,
                     committed, sizes>>
    BY DEF Rollback, scanVars, fileVars
<1>2. at \in Nat /\ mxFrame \in Nat
    BY ScanTypes
<1>3. CycleInFile'
    <2>1. \A i \in 1..mxFrame : i \in 1..at
        BY <1>1, <1>2
    <2>2. chain' = ChainAt(cycle', frames', at')
        BY <1>1 DEF ChainAt
    <2> QED  BY <1>1, <2>1, <2>2 DEF AtomicInv, CycleInFile
<1>4. SizesSeen' /\ OnItsWay' /\ ScanAtomic'
    BY <1>1 DEF AtomicInv, SizesSeen, OnItsWay, ScanAtomic
<1> QED  BY <1>1, <1>3, <1>4 DEF AtomicInv

\* Checkpoint: it does not run during a scan.
LEMMA CheckpointAtomic == IInv /\ AtomicInv /\ Checkpoint => AtomicInv'
<1> SUFFICES ASSUME IInv, AtomicInv, Checkpoint PROVE AtomicInv'
    OBVIOUS
<1>1. /\ pc = "idle"
      /\ UNCHANGED fileVars \/ (salt' = NoSalt /\ frames' = <<>>)
      /\ UNCHANGED <<cycle, mxFrame, chain, at, writing, pc>>
    BY DEF Checkpoint, scanVars
<1>2. CycleInFile'
    <2>1. CASE UNCHANGED fileVars
        BY <1>1, <2>1 DEF AtomicInv, CycleInFile, fileVars
    <2>2. CASE salt' = NoSalt /\ frames' = <<>>
        BY <2>2 DEF CycleInFile
    <2> QED  BY <1>1, <2>1, <2>2
<1> QED  BY <1>1, <1>2 DEF AtomicInv, SizesSeen, OnItsWay, ScanAtomic

\* ReadHeader: the committed size of this moment is the first to be seen.
LEMMA ReadHeaderAtomic == IInv /\ AtomicInv /\ ReadHeader => AtomicInv'
<1> SUFFICES ASSUME IInv, AtomicInv, ReadHeader PROVE AtomicInv'
    OBVIOUS
<1>1. /\ salt # NoSalt /\ pc' = "frames" /\ hdrSalt' = salt /\ offset' = 0
      /\ sum' = <<salt>> /\ committed' = 0 /\ sizes' = {mxFrame}
      /\ UNCHANGED <<salt, frames, cycle, mxFrame, chain, at, writing>>
    BY DEF ReadHeader, fileVars, writerVars
<1>2. /\ salt = cycle /\ mxFrame \in Nat /\ cycle \in Nat
      /\ \A i \in DOMAIN frames : i \in Nat
    BY <1>1, ScanTypes
<1>3. CycleInFile'
    BY <1>1 DEF AtomicInv, CycleInFile
<1>4. /\ \A i \in DOMAIN frames :
            frames[i].salt = cycle /\ frames[i].commit /\ ~(writing /\ i = at + 1)
                => i <= mxFrame
      /\ mxFrame > 0 => frames[mxFrame].commit
    BY <1>1 DEF AtomicInv, CycleInFile
<1>5. SizesSeen'
    <2>1. \A i \in DOMAIN frames : i = mxFrame => frames[i].commit
        BY <1>2, <1>4, ScanTypes
    <2>2. \A i \in DOMAIN frames : i <= mxFrame /\ mxFrame <= i => i = mxFrame
        BY <1>2
    <2> QED  BY <1>1, <1>2, <1>4, <2>1, <2>2 DEF SizesSeen
<1>6. OnItsWay'
    BY <1>1, <1>2 DEF OnItsWay, ChainAt
<1> QED  BY <1>1, <1>2, <1>3, <1>5, <1>6 DEF AtomicInv, ScanAtomic

\* AcceptFrame: the first size is reached at its commit frame, the others at theirs.
LEMMA AcceptFrameAtomic == IInv /\ AtomicInv /\ AcceptFrame => AtomicInv'
<1> SUFFICES ASSUME IInv, AtomicInv, AcceptFrame PROVE AtomicInv'
    OBVIOUS
<1> DEFINE i == offset + 1
           f == frames[i]
<1>1. /\ pc = "frames" /\ offset < Len(frames)
      /\ f.page # NoPage /\ f.salt = hdrSalt /\ Append(sum, f.page) = f.sum
      /\ sum' = f.sum /\ offset' = offset + 1
      /\ committed' = IF f.commit THEN offset + 1 ELSE committed
      /\ UNCHANGED <<salt, frames, cycle, mxFrame, chain, at, writing, pc, hdrSalt, sizes>>
    BY DEF AcceptFrame, Accepts, fileVars, writerVars
<1>2. /\ i \in DOMAIN frames /\ offset \in Nat /\ committed \in Nat /\ committed <= offset
      /\ f.commit \in BOOLEAN /\ sizes \subseteq Nat /\ mxFrame \in Nat /\ at \in Nat
      /\ mxFrame <= at
    BY <1>1, ScanTypes
<1> HIDE DEF f
<1>3. hdrSalt <= cycle /\ hdrSalt # NoSalt
    BY <1>1 DEF AtomicInv
\* A frame still to be completed is not accepted.
<1>4. ~(writing /\ i = at + 1 /\ hdrSalt = cycle)
    <2> SUFFICES ASSUME writing, i = at + 1 PROVE FALSE
        OBVIOUS
    <2>1. f.sum = Append(chain, writes) /\ f.page < writes /\ f.page \in Nat
          /\ writes \in Nat /\ chain \in Seq(Nat) /\ sum \in Seq(Nat)
        BY <1>2, ScanTypes DEF IInv, WriterWellFormed, TypeOK, f
    <2>2. Append(sum, f.page) = Append(chain, writes)
        BY <1>1, <2>1
    <2>3. f.page = writes
        <3> SUFFICES ASSUME NEW s \in Seq(Nat), NEW t \in Seq(Nat), NEW x \in Nat,
                            NEW y \in Nat, Append(s, x) = Append(t, y)
                     PROVE  x = y
            BY <2>1, <2>2
        <3>1. Len(Append(s, x)) = Len(s) + 1 /\ Append(s, x)[Len(s) + 1] = x
            OBVIOUS
        <3>2. Len(Append(t, y)) = Len(t) + 1 /\ Append(t, y)[Len(t) + 1] = y
            OBVIOUS
        <3> QED  BY <3>1, <3>2
    <2> QED  BY <2>1, <2>3
<1>5. OnItsWay'
    <2> SUFFICES ASSUME committed' \notin sizes
                 PROVE  /\ \A n \in sizes : offset + 1 < n
                        /\ hdrSalt = cycle => f.sum = ChainAt(cycle, frames, offset + 1)
        BY <1>1 DEF OnItsWay
    <2>1. f.sum = ChainAt(cycle, frames, offset + 1)
        BY <1>2 DEF ChainAt, f
    <2>2. \A n \in sizes : n <= i /\ f.commit => i \in sizes
        BY <1>1, <1>2, <1>4 DEF AtomicInv, SizesSeen, f
    <2>3. \A n \in sizes : offset < n
        <3>1. CASE committed \notin sizes
            BY <1>1, <3>1 DEF AtomicInv, OnItsWay
        <3>2. CASE committed \in sizes
            <4>1. f.commit /\ committed' = i /\ committed <= i
                BY <1>1, <1>2, <3>2
            <4> QED  BY <2>2, <3>2, <4>1
        <3> QED  BY <3>1, <3>2
    <2>4. i \notin sizes
        <3>1. i \in sizes => f.commit
            BY <1>1, <1>2 DEF AtomicInv, SizesSeen, f
        <3> QED  BY <1>1, <3>1
    <2>5. \A n \in sizes : offset + 1 < n
        BY <1>2, <2>3, <2>4
    <2> QED  BY <2>1, <2>5
<1>6. CycleInFile' /\ SizesSeen' /\ ScanAtomic'
    BY <1>1 DEF AtomicInv, CycleInFile, SizesSeen, ScanAtomic
<1> QED  BY <1>1, <1>3, <1>5, <1>6 DEF AtomicInv

\* StopScan: within the file's cycle it does not stop before the first size.
LEMMA StopScanAtomic == IInv /\ AtomicInv /\ StopScan => AtomicInv'
<1> SUFFICES ASSUME IInv, AtomicInv, StopScan PROVE AtomicInv'
    OBVIOUS
<1>1. /\ pc = "frames" /\ pc' = "done"
      /\ ~(offset < Len(frames) /\ Accepts(frames[offset + 1]))
      /\ UNCHANGED <<salt, frames, cycle, mxFrame, chain, at, writing, hdrSalt, offset, sum,
                     committed, sizes>>
    BY DEF StopScan, fileVars, writerVars
<1>2. /\ offset \in Nat /\ committed \in Nat /\ committed <= offset /\ sizes \subseteq Nat
      /\ mxFrame \in Nat /\ at \in Nat /\ mxFrame <= at /\ Len(frames) \in Nat
    BY <1>1, ScanTypes
<1>3. ScanAtomic'
    <2> SUFFICES ASSUME committed \notin sizes
                 PROVE  hdrSalt # cycle /\ \A n \in sizes : committed < n
        BY <1>1 DEF ScanAtomic
    <2>1. /\ \A n \in sizes : offset < n
          /\ hdrSalt = cycle => sum = ChainAt(cycle, frames, offset)
        BY <1>1 DEF AtomicInv, OnItsWay
    <2>2. ASSUME hdrSalt = cycle PROVE FALSE
        <3>1. salt = cycle /\ mxFrame \in sizes /\ salt # NoSalt
            BY <1>1, <2>2 DEF AtomicInv, SizesSeen
        <3>2. offset < mxFrame /\ offset + 1 \in 1..at /\ at <= Len(frames)
              /\ offset < Len(frames)
            BY <1>2, <2>1, <3>1, ScanTypes
        <3>3. PICK k \in 1..at : k = offset + 1
            BY <3>2
        <3>4. /\ frames[k].salt = cycle
              /\ frames[k].page # NoPage
              /\ frames[k].sum = Append(ChainAt(cycle, frames, k - 1), frames[k].page)
            BY <3>1 DEF AtomicInv, CycleInFile
        <3>5. k - 1 = offset
            BY <1>2, <3>3
        <3>6. Accepts(frames[offset + 1])
            BY <2>1, <2>2, <3>3, <3>4, <3>5 DEF Accepts
        <3> QED  BY <1>1, <3>2, <3>6
    <2>3. \A n \in sizes : committed < n
        BY <1>2, <2>1
    <2> QED  BY <2>2, <2>3
<1>4. CycleInFile' /\ SizesSeen' /\ OnItsWay'
    BY <1>1 DEF AtomicInv, CycleInFile, SizesSeen, OnItsWay
<1>5. hdrSalt' <= cycle' /\ hdrSalt' # NoSalt
    BY <1>1 DEF AtomicInv
<1> QED  BY <1>3, <1>4, <1>5 DEF AtomicInv

\* Every step keeps it.
LEMMA NextAtomic == IInv /\ AtomicInv /\ [Next]_vars => AtomicInv'
<1> SUFFICES ASSUME IInv, AtomicInv, [Next]_vars PROVE AtomicInv'
    OBVIOUS
<1>1. CASE UNCHANGED vars \/ NoWalYet
    <2>1. UNCHANGED <<salt, frames, cycle, mxFrame, chain, at, writing, pc, hdrSalt, offset,
                      sum, committed, sizes>>
        BY <1>1 DEF NoWalYet, vars, fileVars, writerVars, scanVars
    <2> QED  BY <2>1 DEF AtomicInv, CycleInFile, SizesSeen, OnItsWay, ScanAtomic
<1>2. CASE UseResult
    <2>1. /\ pc' = "idle"
          /\ UNCHANGED <<salt, frames, cycle, mxFrame, chain, at, writing>>
        BY <1>2 DEF UseResult, fileVars, writerVars
    <2> QED  BY <2>1 DEF AtomicInv, CycleInFile, SizesSeen, OnItsWay, ScanAtomic
<1>3. CASE \E commit \in BOOLEAN : WriteFrameHeader(commit)
    BY <1>3, WriteFrameHeaderAtomic
<1>4. CASE BeginCycle \/ EndHeader \/ WritePage \/ Rollback \/ Checkpoint
    BY <1>4, BeginCycleAtomic, EndHeaderAtomic, WritePageAtomic, RollbackAtomic,
       CheckpointAtomic
<1>5. CASE ReadHeader \/ AcceptFrame \/ StopScan
    BY <1>5, ReadHeaderAtomic, AcceptFrameAtomic, StopScanAtomic
<1> QED  BY <1>1, <1>2, <1>3, <1>4, <1>5 DEF Next

\* For any number of writes and cycles: a scan gives a committed size that the
\* file had while it ran, or, if the WAL began again under it, an earlier one
\* of the former cycle, whose salts are no longer those of the file.
THEOREM ScanIsAtomic == Spec => []ScanAtomic
<1>1. Init => AtomicInv
    BY DEF Init, AtomicInv, CycleInFile, SizesSeen, OnItsWay, ScanAtomic, NoSalt
<1>2. AtomicInv => ScanAtomic
    BY DEF AtomicInv
<1> QED  BY InitIInv, NextIInv, <1>1, NextAtomic, <1>2, PTL DEF Spec

=============================================================================
