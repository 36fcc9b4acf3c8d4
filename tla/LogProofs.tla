----------------------------- MODULE LogProofs ------------------------------
(***************************************************************************)
(* Proofs about what the server appends to.  The append-only file          *)
(* (AofWriter): type correctness, the durability of acknowledged mutations *)
(* under appendfsync always, and, for every policy, that a tick and a      *)
(* shutdown leave none of them outside the file.  The ring of the slow log *)
(* (Slowlog): what it returns is the newest.  The entries of a stream      *)
(* (Streams): the binary search of XREAD is shown to end where it should   *)
(* by looking at the smallest range from which it would not.               *)
(***************************************************************************)
EXTENDS AofWriter, Slowlog, Streams, TLAPS

(***************************************************************************)
(* Type correctness.                                                       *)
(***************************************************************************)

\* Sequences of frames stay sequences of frames, and files of entries.
LEMMA SeqTypes ==
    /\ <<>> \in Seq(SUBSET Ops)
    /\ \A d \in Seq(FileEntries), s \in Seq(SUBSET Ops) : d \o s \in Seq(FileEntries)
    /\ \A s, t \in Seq(SUBSET Ops) : s \o t \in Seq(SUBSET Ops)
    /\ \A s \in Seq(SUBSET Ops) : s \in Seq(FileEntries)
    /\ \A s \in Seq(SUBSET Ops), op \in Ops : Append(s, {op}) \in Seq(SUBSET Ops)
    /\ \A op \in Ops : <<{op}>> \in Seq(SUBSET Ops)
  BY DEF FileEntries

\* A write that fails midway leaves a file.
LEMMA PartialWriteType ==
  ASSUME TypeOK, NEW s \in Seq(SUBSET Ops), PartialWrite(s)
  PROVE  disk' \in Seq(FileEntries)
<1>1. PICK n \in 0..Len(s), cut \in BOOLEAN :
        disk' = disk \o SubSeq(s, 1, n) \o IF cut THEN <<Torn>> ELSE <<>>
  BY Zenon DEF PartialWrite
<1>2. SubSeq(s, 1, n) \in Seq(SUBSET Ops)
  OBVIOUS
<1>3. disk \o SubSeq(s, 1, n) \in Seq(FileEntries)
  BY Zenon, <1>2, SeqTypes DEF TypeOK
<1>4. (IF cut THEN <<Torn>> ELSE <<>>) \in Seq(FileEntries)
  <2>1. <<Torn>> \in Seq(FileEntries)
    BY DEF FileEntries
  <2>2. <<>> \in Seq(FileEntries)
    OBVIOUS
  <2>3. QED
    BY Zenon, <2>1, <2>2
<1>5. QED
  BY <1>1, <1>3, <1>4

\* A failed flush leaves a file and an empty bufio.Writer that keeps the error.
LEMMA FlushErrorType ==
  ASSUME TypeOK, NEW s \in Seq(SUBSET Ops), FlushError(s)
  PROVE  disk' \in Seq(FileEntries) /\ buf' \in Seq(SUBSET Ops) /\ handle' \in Handles
<1>1. disk' \in Seq(FileEntries)
  BY Zenon, PartialWriteType DEF FlushError, TypeOK
<1>2. QED
  BY <1>1 DEF FlushError, Handles

\* What survives a crash of a file is a file.
LEMMA SurvivorsType ==
  ASSUME NEW d \in Seq(FileEntries), NEW k \in Nat, NEW more,
         NEW image \in Survivors([data |-> d, synced |-> k], more)
  PROVE  image \in Seq(FileEntries)
<1>1. PICK n \in k..Len(d) : \/ image = SubSeq(d, 1, n)
                              \/ image = Append(SubSeq(d, 1, n), Torn)
  BY Zenon DEF Survivors
<1>2. SubSeq(d, 1, n) \in Seq(FileEntries)
  OBVIOUS
<1>3. Torn \in FileEntries
  BY Zenon DEF FileEntries
<1>4. QED
  BY SMTT(40), <1>1, <1>2, <1>3

\* Whatever file the directory names after a crash is a file.
LEMMA CrashImagesType ==
  ASSUME TypeOK, NEW image \in CrashImages
  PROVE  image \in Seq(FileEntries)
<1>1. CASE image \in Survivors([data |-> disk, synced |-> synced],
                            handle = "ok" /\ (buf # <<>> \/ InFlight # {}))
  BY Zenon, <1>1, SurvivorsType DEF TypeOK
<1>2. ASSUME NEW f \in stale, image \in Survivors(f, FALSE)
      PROVE  image \in Seq(FileEntries)
  <2>1. f \in Files
    BY Zenon DEF TypeOK
  <2>2. f = [data |-> f.data, synced |-> f.synced]
        /\ f.data \in Seq(FileEntries) /\ f.synced \in Nat
    BY Zenon, <2>1 DEF Files
  <2>3. QED
    BY Zenon, <1>2, <2>2, SurvivorsType
<1>3. QED
  BY Zenon, <1>1, <1>2 DEF CrashImages

\* Every action preserves the type invariant.
LEMMA TypeStep == ASSUME TypeOK, [Next]_vars PROVE TypeOK'
<1> USE DEF TypeOK, PcValues, RwValues, Holders, Running
<1>1. ASSUME NEW op \in Ops, Execute(op) PROVE TypeOK'
  BY Zenon, <1>1 DEF Execute, serverVars, fileVars, writerVars, rewriteVars
<1>2. ASSUME NEW op \in Ops, WriteFrame(op) PROVE TypeOK'
  <2>1. /\ disk' \in Seq(FileEntries)
        /\ buf' \in Seq(SUBSET Ops)
        /\ rewriteBuffer' \in Seq(SUBSET Ops)
    <3>1. /\ Append(buf, {op}) \in Seq(SUBSET Ops)
          /\ <<{op}>> \in Seq(SUBSET Ops)
          /\ Append(rewriteBuffer, {op}) \in Seq(SUBSET Ops)
          /\ disk \o buf \in Seq(FileEntries)
          /\ disk \o Append(buf, {op}) \in Seq(FileEntries)
          /\ <<>> \in Seq(SUBSET Ops)
      BY Zenon, SeqTypes
    <3>2. \/ disk' = disk \/ disk' = disk \o buf
          \/ disk' = disk \o Append(buf, {op})
      BY Zenon, <1>2 DEF WriteFrame, BufferFrame
    <3>3. buf' = Append(buf, {op}) \/ buf' = <<{op}>> \/ buf' = <<>>
      BY Zenon, <1>2 DEF WriteFrame, BufferFrame
    <3>4. rewriteBuffer' = Append(rewriteBuffer, {op}) \/ rewriteBuffer' = rewriteBuffer
      BY Zenon, <1>2 DEF WriteFrame, BufferFrame
    <3>5. QED
      BY Zenon, <3>1, <3>2, <3>3, <3>4
  <2>2. pc' \in [Ops -> PcValues] /\ mu' \in Holders \cup Ops
    BY Zenon, <1>2 DEF WriteFrame
  <2>3. QED
    BY Zenon, <1>2, <2>1, <2>2 DEF WriteFrame, serverVars
<1>3. ASSUME NEW op \in Ops, WriteFrameFails(op) PROVE TypeOK'
  <2>1. disk' \in Seq(FileEntries) /\ buf' \in Seq(SUBSET Ops) /\ handle' \in Handles
    <3>1. Append(buf, {op}) \in Seq(SUBSET Ops)
      BY Zenon, SeqTypes
    <3>2. QED
      BY Zenon, <1>3, <3>1, FlushErrorType DEF WriteFrameFails
  <2>2. pc' \in [Ops -> PcValues]
    BY Zenon, <1>3 DEF WriteFrameFails, AppendFailed
  <2>3. QED
    BY Zenon, <1>3, <2>1, <2>2 DEF WriteFrameFails, serverVars, rewriteVars
<1>4. ASSUME NEW op \in Ops, Flush(op) PROVE TypeOK'
  <2>1. disk' \in Seq(FileEntries) /\ buf' \in Seq(SUBSET Ops)
    BY Zenon, <1>4, SeqTypes DEF Flush
  <2>2. pc' \in [Ops -> PcValues] /\ mu' \in Holders \cup Ops
    BY Zenon, <1>4 DEF Flush
  <2>3. QED
    BY Zenon, <1>4, <2>1, <2>2 DEF Flush, serverVars, rewriteVars
<1>5. ASSUME NEW op \in Ops, FlushFails(op) PROVE TypeOK'
  <2>1. disk' \in Seq(FileEntries) /\ buf' \in Seq(SUBSET Ops) /\ handle' \in Handles
    BY Zenon, <1>5, FlushErrorType DEF FlushFails
  <2>2. pc' \in [Ops -> PcValues]
    BY Zenon, <1>5 DEF FlushFails, AppendFailed
  <2>3. QED
    BY Zenon, <1>5, <2>1, <2>2 DEF FlushFails, serverVars, rewriteVars
<1>6. ASSUME NEW op \in Ops, Sync(op) PROVE TypeOK'
  BY <1>6 DEF Sync, serverVars, fileVars, writerVars, rewriteVars
<1>7. ASSUME NEW op \in Ops, SyncFails(op) PROVE TypeOK'
  BY Zenon, <1>7 DEF SyncFails, serverVars, fileVars, writerVars, rewriteVars
<1>8. CASE TickFlush
  <2>1. disk' \in Seq(FileEntries) /\ buf' \in Seq(SUBSET Ops)
    BY Zenon, <1>8, SeqTypes DEF TickFlush
  <2>2. QED
    BY Zenon, <1>8, <2>1 DEF TickFlush, serverVars, rewriteVars
<1>9. CASE TickFlushFails
  <2>1. disk' \in Seq(FileEntries) /\ buf' \in Seq(SUBSET Ops) /\ handle' \in Handles
    BY Zenon, <1>9, FlushErrorType DEF TickFlushFails
  <2>2. QED
    BY Zenon, <1>9, <2>1 DEF TickFlushFails, serverVars, rewriteVars
<1>10. CASE TickSync
  BY <1>10 DEF TickSync, serverVars, fileVars, writerVars, rewriteVars
<1>11. CASE TickSyncFails
  BY Zenon, <1>11 DEF TickSyncFails, serverVars, fileVars, writerVars, rewriteVars
<1>12. CASE BeginRewrite
  BY <1>12 DEF BeginRewrite, serverVars, fileVars, writerVars, rewriteVars
<1>13. CASE RewriteGivesUpEarly
  BY <1>13 DEF RewriteGivesUpEarly, serverVars, fileVars, writerVars, rewriteVars, ClearRewriteState
<1>14. CASE CreateTemp
  BY Zenon, <1>14 DEF CreateTemp, serverVars, fileVars, writerVars, rewriteVars
<1>15. CASE Snapshot
  BY <1>15 DEF Snapshot, serverVars, fileVars, writerVars, rewriteVars
<1>16. CASE RewriteGivesUpLate
  BY <1>16 DEF RewriteGivesUpLate, serverVars, fileVars, writerVars, rewriteVars, ClearRewriteState
<1>17. CASE GenerateRewrite
  BY <1>17 DEF GenerateRewrite, serverVars, fileVars, writerVars, rewriteVars
<1>18. CASE AppendBufferedRewrite
  BY <1>18 DEF AppendBufferedRewrite, serverVars, fileVars, writerVars, rewriteVars
<1>19. CASE FinalizeFails
  BY <1>19 DEF FinalizeFails, serverVars, fileVars, writerVars, rewriteVars, ClearRewriteState
<1>20. CASE SyncTemp
  BY Zenon, <1>20 DEF SyncTemp, serverVars, fileVars, writerVars, rewriteVars
<1>21. CASE CloseOldFile
  BY Zenon, <1>21 DEF CloseOldFile, serverVars, fileVars, writerVars, rewriteVars
<1>22. CASE CloseOldFileFails
  BY <1>22 DEF CloseOldFileFails, serverVars, fileVars, writerVars, rewriteVars, ClearRewriteState, AfterClose, Handles
<1>23. CASE Rename
  BY <1>23, SeqTypes DEF Rename, serverVars, fileVars, writerVars, rewriteVars, Files
<1>24. CASE RenameFails
  BY Zenon, <1>24 DEF RenameFails, serverVars, fileVars, writerVars, rewriteVars
<1>25. CASE SyncDir
  BY Zenon, <1>25 DEF SyncDir, serverVars, fileVars, writerVars, rewriteVars
<1>26. CASE SyncDirFails
  BY Zenon, <1>26 DEF SyncDirFails, serverVars, fileVars, writerVars, rewriteVars
<1>27. CASE Reopen
  <2>1. handle' \in Handles /\ buf' \in Seq(SUBSET Ops)
    BY Zenon, <1>27, SeqTypes DEF Reopen, AfterClose, Handles
  <2>2. QED
    BY Zenon, <1>27, <2>1, SeqTypes DEF Reopen, serverVars, fileVars, ClearRewriteState
<1>28. CASE Stop
  BY <1>28 DEF Stop, serverVars, fileVars, writerVars, rewriteVars
<1>29. CASE Close
  <2>1. disk' \in Seq(FileEntries) /\ synced' \in Nat
    <3>1. disk \o buf \in Seq(FileEntries) /\ Len(disk \o buf) \in Nat
      <4>1. disk \o buf \in Seq(FileEntries)
        BY Zenon, SeqTypes
      <4>2. QED
        BY <4>1
    <3>2. \/ disk' = disk \o buf /\ synced' = Len(disk \o buf)
          \/ disk' = disk /\ synced' = synced
          \/ disk' = disk \o buf /\ synced' = synced
          \/ PartialWrite(buf) /\ synced' = synced
      BY Zenon, <1>29 DEF Close
    <3>3. QED
      BY Zenon, <3>1, <3>2, PartialWriteType
  <2>2. QED
    BY <1>29, <2>1 DEF Close, ProcessGone, Handles
<1>30. CASE Crash
  <2>1. disk' \in Seq(FileEntries)
    BY Zenon, <1>30, CrashImagesType DEF Crash
  <2>2. pc' \in [Ops -> PcValues]
    BY Zenon, <1>30 DEF Crash, InFlight
  <2>3. synced' \in Nat /\ crashes' \in Nat
    BY <1>30, <2>1 DEF Crash
  <2>4. QED
    BY <1>30, <2>1, <2>2, <2>3 DEF Crash, ProcessGone, Handles
<1>31. CASE Restart
  <2>1. store' \in SUBSET Ops /\ lost' \in SUBSET Ops
    BY Zenon, <1>31 DEF Restart, OpsOf, Acked
  <2>2. QED
    BY Zenon, <1>31, <2>1 DEF Restart, fileVars, writerVars, rewriteVars
<1>32. CASE UNCHANGED vars
  BY <1>32 DEF vars, serverVars, fileVars, writerVars, rewriteVars
<1>33. QED
  BY Zenon, <1>1, <1>2, <1>3, <1>4, <1>5, <1>6, <1>7, <1>8, <1>9, <1>10, <1>11,
     <1>12, <1>13, <1>14, <1>15, <1>16, <1>17, <1>18, <1>19, <1>20, <1>21,
     <1>22, <1>23, <1>24, <1>25, <1>26, <1>27, <1>28, <1>29, <1>30, <1>31,
     <1>32, [Next]_vars
  DEF Next, OpStep, Tick, RewriteStep

\* The fields of the writer and the files keep their types in every behaviour.
THEOREM TypeCorrect == Spec => []TypeOK
<1>1. Init => TypeOK
  BY DEF Init, TypeOK, PcValues, RwValues, Handles, Holders, FileEntries
<1>2. TypeOK /\ [Next]_vars => TypeOK'
  BY Zenon, TypeStep
<1>3. QED
  BY <1>1, <1>2, PTL DEF Spec

(***************************************************************************)
(* Files and what a restart finds in them.                                 *)
(***************************************************************************)

\* No goroutine's mutation is mistaken for another holder of Writer.mu.
LEMMA NotHolder ==
  ASSUME NEW op \in Ops
  PROVE  op # "free" /\ op # "ticker" /\ op # "rewriter"
  BY Zenon, OpsAssumption DEF Holders

\* Appending frames keeps the mutations a sequence contains.
LEMMA ContainsConcat ==
  ASSUME NEW s \in Seq(FileEntries), NEW t \in Seq(SUBSET Ops), NEW op \in Ops,
         Contains(s, op) \/ Contains(t, op)
  PROVE  Contains(s \o t, op)
<1>1. CASE Contains(s, op)
  <2>1. PICK i \in 1..Len(s) : op \in s[i]
    BY Zenon, <1>1 DEF Contains
  <2>2. i \in 1..Len(s \o t) /\ (s \o t)[i] = s[i]
    OBVIOUS
  <2>3. QED
    BY Zenon, <2>1, <2>2 DEF Contains
<1>2. CASE Contains(t, op)
  <2>1. PICK i \in 1..Len(t) : op \in t[i]
    BY Zenon, <1>2 DEF Contains
  <2>2. Len(s) + i \in 1..Len(s \o t) /\ (s \o t)[Len(s) + i] = t[i]
    BY SeqTypes
  <2>3. QED
    BY Zenon, <2>1, <2>2 DEF Contains
<1>3. QED
  BY Zenon, <1>1, <1>2

\* Appending one frame adds its mutation and keeps the others.
LEMMA ContainsAppend ==
  ASSUME NEW s \in Seq(SUBSET Ops), NEW op \in Ops, NEW o \in Ops,
         Contains(s, o) \/ o = op
  PROVE  Contains(Append(s, {op}), o)
<1>1. CASE Contains(s, o)
  <2>1. PICK i \in 1..Len(s) : o \in s[i]
    BY Zenon, <1>1 DEF Contains
  <2>2. i \in 1..Len(Append(s, {op})) /\ Append(s, {op})[i] = s[i]
    OBVIOUS
  <2>3. QED
    BY Zenon, <2>1, <2>2 DEF Contains
<1>2. CASE o = op
  <2>1. /\ Len(s) + 1 \in 1..Len(Append(s, {op}))
        /\ Append(s, {op})[Len(s) + 1] = {op}
    OBVIOUS
  <2>2. QED
    BY Zenon, <1>2, <2>1 DEF Contains
<1>3. QED
  BY Zenon, <1>1, <1>2

\* Frames behind a safe file leave it safe (flushLocked).
LEMMA SafeExtend ==
  ASSUME NEW d \in Seq(FileEntries), NEW k \in Nat, NEW ops,
         NEW s \in Seq(SUBSET Ops), SafeFile(d, k, ops)
  PROVE  SafeFile(d \o s, k, ops)
<1>1. /\ Len(d \o s) = Len(d) + Len(s) /\ Len(d) \in Nat /\ Len(s) \in Nat
      /\ \A i \in 1..Len(d) : (d \o s)[i] = d[i]
      /\ \A i \in 1..Len(d \o s) : i > Len(d) => (d \o s)[i] = s[i - Len(d)]
  BY SeqTypes
<1>2. ASSUME NEW i \in 1..Len(d \o s) PROVE (d \o s)[i] # Torn
  <2>1. CASE i \in 1..Len(d)
    BY Zenon, <1>1, <2>1 DEF SafeFile
  <2>2. CASE i > Len(d)
    <3>1. s[i - Len(d)] \in SUBSET Ops
      BY <1>1, <2>2
    <3>2. QED
      BY Zenon, <1>1, <2>2, <3>1, TornAssumption
  <2>3. QED
    BY <1>1, <2>1, <2>2
<1>3. ASSUME NEW op \in ops PROVE SyncedIn(d \o s, k, op)
  <2>1. PICK i \in 1..k : op \in d[i]
    BY Zenon DEF SafeFile, SyncedIn
  <2>2. (d \o s)[i] = d[i]
    BY <1>1 DEF SafeFile
  <2>3. QED
    BY Zenon, <2>1, <2>2 DEF SyncedIn
<1>4. k <= Len(d \o s)
  BY <1>1 DEF SafeFile
<1>5. QED
  BY Zenon, <1>2, <1>3, <1>4 DEF SafeFile

\* An fsync makes safe whatever the file contains (syncLocked).
LEMMA SafeSync ==
  ASSUME NEW d \in Seq(FileEntries), NEW k \in Nat, NEW ops, NEW more,
         SafeFile(d, k, ops), \A op \in more : op \in ops \/ Contains(d, op)
  PROVE  SafeFile(d, Len(d), more)
  BY DEF SafeFile, SyncedIn, Contains

\* A fsynced rewrite is safe for the mutations it contains (finalizeRewrite).
LEMMA SafeTemp ==
  ASSUME NEW t \in Seq(SUBSET Ops), NEW ops, \A op \in ops : Contains(t, op)
  PROVE  SafeFile(t, Len(t), ops)
<1>1. ASSUME NEW i \in 1..Len(t) PROVE t[i] # Torn
  <2>1. t[i] \in SUBSET Ops
    OBVIOUS
  <2>2. QED
    BY Zenon, <2>1, TornAssumption
<1>2. QED
  BY <1>1 DEF SafeFile, SyncedIn, Contains

\* Without torn writes a crash leaves a safe file safe.
LEMMA SafeSurvives ==
  ASSUME NEW d \in Seq(FileEntries), NEW k \in Nat, NEW ops, NEW more,
         SafeFile(d, k, ops), "torn" \notin Faults,
         NEW image \in Survivors([data |-> d, synced |-> k], more)
  PROVE  SafeFile(image, Len(image), ops)
<1>1. PICK n \in k..Len(d) : image = SubSeq(d, 1, n)
  BY Zenon DEF Survivors
<1>2. Len(image) = n /\ \A i \in 1..n : image[i] = d[i]
  BY <1>1
<1>3. QED
  BY SMTT(40), <1>2 DEF SafeFile, SyncedIn

\* A restart finds in a safe file every mutation it is safe for (LoadFile).
LEMMA SafeLoads ==
  ASSUME NEW d \in Seq(FileEntries), NEW k \in Nat, NEW ops \in SUBSET Ops,
         SafeFile(d, k, ops)
  PROVE  ops \subseteq OpsOf(d)
<1>1. SUFFICES ASSUME NEW op \in ops PROVE op \in OpsOf(d)
  BY Zenon
<1>2. PICK i \in 1..k : op \in d[i]
  BY Zenon DEF SafeFile, SyncedIn
<1>3. i \in 1..Len(d) /\ \A j \in 1..i : d[j] # Torn
  BY DEF SafeFile
<1>4. QED
  BY Zenon, <1>2, <1>3 DEF OpsOf, Replayed

\* A write that fails midway leaves a safe file safe.
LEMMA PartialWriteSafe ==
  ASSUME TypeOK, NEW s \in Seq(SUBSET Ops), PartialWrite(s),
         "torn" \notin Faults, NEW ops, SafeFile(disk, synced, ops)
  PROVE  SafeFile(disk', synced, ops)
<1>1. PICK n \in 0..Len(s) : disk' = disk \o SubSeq(s, 1, n) \o <<>>
  BY Zenon DEF PartialWrite
<1>2. SubSeq(s, 1, n) \in Seq(SUBSET Ops)
  OBVIOUS
<1>3. disk \o SubSeq(s, 1, n) \in Seq(FileEntries)
  BY Zenon, <1>2, SeqTypes DEF TypeOK
<1>4. SafeFile(disk \o SubSeq(s, 1, n), synced, ops)
  BY Zenon, <1>2, SafeExtend DEF TypeOK
<1>5. SafeFile(disk \o SubSeq(s, 1, n) \o <<>>, synced, ops)
  BY Zenon, <1>3, <1>4, SafeExtend, SeqTypes DEF TypeOK
<1>6. QED
  BY Zenon, <1>1, <1>5

\* A flush that fails extends the file, or leaves it as it was.
LEMMA FlushErrorSafe ==
  ASSUME TypeOK, NEW s \in Seq(SUBSET Ops), FlushError(s),
         "torn" \notin Faults, NEW ops, SafeFile(disk, synced, ops)
  PROVE  SafeFile(disk', synced, ops)
  BY Zenon, PartialWriteSafe DEF FlushError

(***************************************************************************)
(* appendfsync always.                                                     *)
(***************************************************************************)

\* Every action preserves the inductive invariant.
LEMMA AlwaysStep ==
  ASSUME Policy = "always", "torn" \notin Faults, "dirsync" \notin Faults,
         AlwaysInv, [Next]_vars
  PROVE  AlwaysInv'
<1> USE DEF Running
<1>0. TypeOK /\ TypeOK'
  BY Zenon, TypeStep DEF AlwaysInv
<1>1. ASSUME NEW op \in Ops, Execute(op) PROVE AlwaysInv'
  <2>1. LockInv' /\ FrameInv' /\ StoreInv' /\ RewriteInv' /\ FilesInv' /\
        NoAckedWriteLost'
    BY Zenon, <1>0, <1>1 DEF Execute, AlwaysInv, TypeOK, LockInv, Swapping, InFlight,
       FrameInv, StoreInv, Acked, RewriteInv, FilesInv, NoAckedWriteLost,
       serverVars, fileVars, writerVars, rewriteVars
  <2>2. QED
    BY Zenon, <1>0, <2>1 DEF AlwaysInv
<1>2. ASSUME NEW op \in Ops, WriteFrame(op) PROVE AlwaysInv'
  <2>1. LockInv' /\ StoreInv' /\ NoAckedWriteLost'
    BY SMTT(40), <1>0, <1>2, NotHolder DEF WriteFrame, AlwaysInv, TypeOK, LockInv,
       Swapping, InFlight, StoreInv, Acked, NoAckedWriteLost, serverVars,
       BufferFrame, Deferred
  <2>2. FrameInv'
    <3>1. Contains(buf', op) \/ Contains(disk', op)
      <4>1. \/ buf' = Append(buf, {op}) \/ buf' = <<{op}>>
            \/ disk' = disk \o Append(buf, {op})
        BY Zenon, <1>2 DEF WriteFrame, BufferFrame
      <4>2. Append(buf, {op}) \in Seq(SUBSET Ops) /\ Contains(Append(buf, {op}), op)
        BY Zenon, <1>0, ContainsAppend, SeqTypes DEF TypeOK
      <4>3. Contains(<<{op}>>, op)
        BY DEF Contains
      <4>4. Contains(disk \o Append(buf, {op}), op)
        BY Zenon, <1>0, <4>2, ContainsConcat DEF TypeOK
      <4>5. QED
        BY Zenon, <4>1, <4>2, <4>3, <4>4
    <3>2. \A o \in Ops : pc'[o] \in {"written", "flushed"} => o = op
      BY Zenon, <1>0, <1>2, NotHolder DEF WriteFrame, AlwaysInv, LockInv, TypeOK
    <3>3. pc'[op] = "written"
      BY Zenon, <1>0, <1>2 DEF WriteFrame, TypeOK
    <3>4. QED
      BY Zenon, <3>1, <3>2, <3>3 DEF FrameInv
  <2>3. RewriteInv'
    <3>1. /\ rw' = rw /\ snap' = snap /\ temp' = temp /\ rewriteMode' = rewriteMode
          /\ pc' = [pc EXCEPT ![op] = "written"] /\ Acked' = Acked
      BY Zenon, <1>0, <1>2 DEF WriteFrame, TypeOK, Acked
    <3>2. ASSUME rw \in {"snapped", "generated"}, NEW o \in Ops,
                 pc'[o] \in {"written", "flushed", "acked"}
          PROVE  o \in snap \/ Contains(rewriteBuffer', o)
      <4>1. rewriteBuffer' = Append(rewriteBuffer, {op})
        BY Zenon, <1>2, <3>2 DEF WriteFrame, BufferFrame, AlwaysInv, RewriteInv
      <4>2. o = op \/ o \in snap \/ Contains(rewriteBuffer, o)
        BY Zenon, <1>0, <3>1, <3>2 DEF AlwaysInv, RewriteInv, TypeOK
      <4>3. QED
        BY Zenon, <1>0, <4>1, <4>2, ContainsAppend DEF TypeOK
    <3>3. QED
      BY Zenon, <3>1, <3>2 DEF AlwaysInv, RewriteInv
  <2>4. FilesInv'
    <3>1. synced' = synced /\ stale' = stale /\ rw' = rw
      BY Zenon, <1>2 DEF WriteFrame
    <3>2. Acked' = Acked
      BY Zenon, <1>0, <1>2 DEF WriteFrame, Acked, TypeOK
    <3>3. SafeFile(disk', synced, Acked)
      <4>1. \/ disk' = disk \/ disk' = disk \o buf
            \/ disk' = disk \o Append(buf, {op})
        BY Zenon, <1>2 DEF WriteFrame, BufferFrame
      <4>2. /\ SafeFile(disk, synced, Acked) /\ disk \in Seq(FileEntries)
            /\ synced \in Nat /\ buf \in Seq(SUBSET Ops)
            /\ Append(buf, {op}) \in Seq(SUBSET Ops)
        BY Zenon, <1>0, SeqTypes DEF AlwaysInv, FilesInv, TypeOK
      <4>3. QED
        BY Zenon, <4>1, <4>2, SafeExtend
    <3>4. QED
      BY Zenon, <3>1, <3>2, <3>3 DEF AlwaysInv, FilesInv
  <2>5. QED
    BY Zenon, <1>0, <2>1, <2>2, <2>3, <2>4 DEF AlwaysInv
<1>3. ASSUME NEW op \in Ops, WriteFrameFails(op) PROVE AlwaysInv'
  <2>1. LockInv' /\ FrameInv' /\ StoreInv' /\ RewriteInv' /\ NoAckedWriteLost'
    BY <1>0, <1>3, NotHolder DEF WriteFrameFails, AlwaysInv, TypeOK, LockInv,
       Swapping, InFlight, FrameInv, StoreInv, Acked, RewriteInv,
       NoAckedWriteLost, serverVars, rewriteVars, AppendFailed, FlushError,
       Deferred
  <2>2. FilesInv'
    <3>1. Acked' = Acked /\ stale' = stale /\ rw' = rw /\ synced' = synced
      BY Zenon, <1>0, <1>3 DEF WriteFrameFails, AppendFailed, Deferred, TypeOK, Acked, rewriteVars
    <3>2. SafeFile(disk', synced, Acked)
      <4>1. Append(buf, {op}) \in Seq(SUBSET Ops)
        BY Zenon, <1>0, SeqTypes DEF TypeOK
      <4>2. QED
        BY Zenon, <1>0, <1>3, <4>1, FlushErrorSafe DEF WriteFrameFails, AlwaysInv, FilesInv
    <3>3. QED
      BY Zenon, <3>1, <3>2 DEF AlwaysInv, FilesInv
  <2>3. QED
    BY Zenon, <1>0, <2>1, <2>2 DEF AlwaysInv
<1>4. ASSUME NEW op \in Ops, Flush(op) PROVE AlwaysInv'
  <2>1. LockInv' /\ StoreInv' /\ RewriteInv' /\ NoAckedWriteLost'
    BY ZenonT(40), <1>0, <1>4, NotHolder DEF Flush, AlwaysInv, TypeOK, LockInv, Swapping,
       InFlight, StoreInv, Acked, RewriteInv, NoAckedWriteLost, serverVars,
       rewriteVars
  <2>2. FrameInv'
    <3>1. Contains(disk', op)
      BY Zenon, <1>0, <1>4, ContainsConcat DEF Flush, AlwaysInv, FrameInv, TypeOK
    <3>2. \A o \in Ops : pc'[o] \in {"written", "flushed"} => o = op
      BY Zenon, <1>0, <1>4, NotHolder DEF Flush, AlwaysInv, LockInv, TypeOK
    <3>3. pc'[op] = "flushed"
      BY Zenon, <1>0, <1>4 DEF Flush, TypeOK
    <3>4. QED
      BY Zenon, <3>1, <3>2, <3>3 DEF FrameInv
  <2>3. FilesInv'
    <3>1. Acked' = Acked /\ stale' = stale /\ rw' = rw /\ synced' = synced
      BY Zenon, <1>0, <1>4 DEF Flush, TypeOK, Acked, rewriteVars
    <3>2. SafeFile(disk', synced, Acked)
      BY Zenon, <1>0, <1>4, SafeExtend DEF Flush, AlwaysInv, FilesInv, TypeOK
    <3>3. QED
      BY Zenon, <3>1, <3>2 DEF AlwaysInv, FilesInv
  <2>4. QED
    BY Zenon, <1>0, <2>1, <2>2, <2>3 DEF AlwaysInv
<1>5. ASSUME NEW op \in Ops, FlushFails(op) PROVE AlwaysInv'
  <2>1. LockInv' /\ FrameInv' /\ StoreInv' /\ RewriteInv' /\ NoAckedWriteLost'
    BY Zenon, <1>0, <1>5, NotHolder DEF FlushFails, AlwaysInv, TypeOK, LockInv,
       Swapping, InFlight, FrameInv, StoreInv, Acked, RewriteInv,
       NoAckedWriteLost, serverVars, rewriteVars, AppendFailed, FlushError,
       Deferred
  <2>2. FilesInv'
    <3>1. Acked' = Acked /\ stale' = stale /\ rw' = rw /\ synced' = synced
      BY Zenon, <1>0, <1>5 DEF FlushFails, AppendFailed, Deferred, TypeOK, Acked, rewriteVars
    <3>2. SafeFile(disk', synced, Acked)
      BY Zenon, <1>0, <1>5, FlushErrorSafe DEF FlushFails, AlwaysInv, FilesInv, TypeOK
    <3>3. QED
      BY Zenon, <3>1, <3>2 DEF AlwaysInv, FilesInv
  <2>3. QED
    BY Zenon, <1>0, <2>1, <2>2 DEF AlwaysInv
<1>6. ASSUME NEW op \in Ops, Sync(op) PROVE AlwaysInv'
  <2>1. LockInv' /\ FrameInv' /\ StoreInv' /\ NoAckedWriteLost'
    BY Zenon, <1>0, <1>6, NotHolder DEF Sync, AlwaysInv, TypeOK, LockInv, Swapping,
       InFlight, FrameInv, StoreInv, Acked, NoAckedWriteLost, serverVars,
       rewriteVars
  <2>2. RewriteInv'
    <3>1. /\ rw' = rw /\ snap' = snap /\ temp' = temp /\ rewriteMode' = rewriteMode
          /\ rewriteBuffer' = rewriteBuffer /\ pc' = [pc EXCEPT ![op] = "acked"]
      BY Zenon, <1>6 DEF Sync, rewriteVars
    <3>2. ~Swapping
      BY Zenon, <1>6, NotHolder DEF Sync, AlwaysInv, LockInv
    <3>3. QED
      BY Zenon, <1>0, <1>6, <3>1, <3>2 DEF Sync, AlwaysInv, RewriteInv, Swapping, TypeOK
  <2>3. FilesInv'
    <3>1. disk' = disk /\ stale' = stale /\ synced' = Len(disk)
      BY Zenon, <1>6 DEF Sync
    <3>2. \A o \in Acked' : o \in Acked \/ Contains(disk, o)
      BY Zenon, <1>0, <1>6 DEF Sync, AlwaysInv, FrameInv, TypeOK, Acked
    <3>3. SafeFile(disk, Len(disk), Acked')
      BY Zenon, <1>0, <3>2, SafeSync DEF AlwaysInv, FilesInv, TypeOK
    <3>4. stale = {}
      BY Zenon, <1>6, NotHolder DEF Sync, AlwaysInv, FilesInv, LockInv, Swapping
    <3>5. QED
      BY Zenon, <3>1, <3>3, <3>4 DEF FilesInv
  <2>4. QED
    BY Zenon, <1>0, <2>1, <2>2, <2>3 DEF AlwaysInv
<1>7. ASSUME NEW op \in Ops, SyncFails(op) PROVE AlwaysInv'
  <2>1. LockInv' /\ FrameInv' /\ StoreInv' /\ RewriteInv' /\ FilesInv' /\
        NoAckedWriteLost'
    BY ZenonT(40), <1>0, <1>7, NotHolder DEF SyncFails, AlwaysInv, TypeOK, LockInv,
       Swapping, InFlight, FrameInv, StoreInv, Acked, RewriteInv, FilesInv,
       NoAckedWriteLost, serverVars, fileVars, rewriteVars
  <2>2. QED
    BY Zenon, <1>0, <2>1 DEF AlwaysInv
<1>8. CASE TickFlush
  <2>1. LockInv' /\ FrameInv' /\ StoreInv' /\ RewriteInv' /\ FilesInv' /\
        NoAckedWriteLost'
    BY Zenon, <1>0, <1>8, NotHolder DEF TickFlush, AlwaysInv, TypeOK, LockInv,
       Swapping, InFlight, FrameInv, StoreInv, Acked, RewriteInv, FilesInv,
       NoAckedWriteLost, serverVars, rewriteVars
  <2>2. QED
    BY Zenon, <1>0, <2>1 DEF AlwaysInv
<1>9. CASE TickFlushFails
  <2>1. LockInv' /\ FrameInv' /\ StoreInv' /\ RewriteInv' /\ FilesInv' /\
        NoAckedWriteLost'
    BY Zenon, <1>0, <1>9, NotHolder DEF TickFlushFails, AlwaysInv, TypeOK, LockInv,
       Swapping, InFlight, FrameInv, StoreInv, Acked, RewriteInv, FilesInv,
       NoAckedWriteLost, serverVars, rewriteVars, FlushError
  <2>2. QED
    BY Zenon, <1>0, <2>1 DEF AlwaysInv
<1>10. CASE TickSync
  <2>1. LockInv' /\ FrameInv' /\ StoreInv' /\ RewriteInv' /\ NoAckedWriteLost'
    BY <1>0, <1>10, NotHolder DEF TickSync, AlwaysInv, TypeOK, LockInv,
       Swapping, InFlight, FrameInv, StoreInv, Acked, RewriteInv,
       NoAckedWriteLost, serverVars, rewriteVars
  <2>2. FilesInv'
    <3>1. disk' = disk /\ stale' = stale /\ synced' = Len(disk) /\ Acked' = Acked
      BY Zenon, <1>10 DEF TickSync, Acked
    <3>2. SafeFile(disk, Len(disk), Acked)
      BY Zenon, <1>0, SafeSync DEF AlwaysInv, FilesInv, TypeOK
    <3>3. stale = {}
      BY Zenon, <1>10 DEF TickSync, AlwaysInv, FilesInv, LockInv, Swapping
    <3>4. QED
      BY Zenon, <3>1, <3>2, <3>3 DEF FilesInv
  <2>3. QED
    BY Zenon, <1>0, <2>1, <2>2 DEF AlwaysInv
<1>11. CASE TickSyncFails
  <2>1. LockInv' /\ FrameInv' /\ StoreInv' /\ RewriteInv' /\ FilesInv' /\
        NoAckedWriteLost'
    BY Zenon, <1>0, <1>11, NotHolder DEF TickSyncFails, AlwaysInv, TypeOK, LockInv,
       Swapping, InFlight, FrameInv, StoreInv, Acked, RewriteInv, FilesInv,
       NoAckedWriteLost, serverVars, fileVars, rewriteVars
  <2>2. QED
    BY Zenon, <1>0, <2>1 DEF AlwaysInv
<1>12. CASE BeginRewrite
  <2>1. LockInv' /\ FrameInv' /\ StoreInv' /\ RewriteInv' /\ FilesInv' /\
        NoAckedWriteLost'
    BY ZenonT(40), <1>0, <1>12, NotHolder DEF BeginRewrite, AlwaysInv, TypeOK, LockInv,
       Swapping, InFlight, FrameInv, StoreInv, Acked, RewriteInv, FilesInv,
       NoAckedWriteLost, fileVars, writerVars
  <2>2. QED
    BY Zenon, <1>0, <2>1 DEF AlwaysInv
<1>13. CASE RewriteGivesUpEarly
  <2>1. LockInv' /\ FrameInv' /\ StoreInv' /\ RewriteInv' /\ FilesInv' /\
        NoAckedWriteLost'
    BY <1>0, <1>13, NotHolder DEF RewriteGivesUpEarly, AlwaysInv, TypeOK,
       LockInv, Swapping, InFlight, FrameInv, StoreInv, Acked, RewriteInv,
       FilesInv, NoAckedWriteLost, serverVars, fileVars, writerVars,
       ClearRewriteState
  <2>2. QED
    BY Zenon, <1>0, <2>1 DEF AlwaysInv
<1>14. CASE CreateTemp
  <2>1. LockInv' /\ FrameInv' /\ StoreInv' /\ RewriteInv' /\ FilesInv' /\
        NoAckedWriteLost'
    BY Zenon, <1>0, <1>14 DEF CreateTemp, AlwaysInv, TypeOK, LockInv, Swapping,
       InFlight, FrameInv, StoreInv, Acked, RewriteInv, FilesInv,
       NoAckedWriteLost, serverVars, fileVars, writerVars
  <2>2. QED
    BY Zenon, <1>0, <2>1 DEF AlwaysInv
<1>15. CASE Snapshot
  <2>1. LockInv' /\ FrameInv' /\ StoreInv' /\ FilesInv' /\ NoAckedWriteLost'
    BY Zenon, <1>0, <1>15, NotHolder DEF Snapshot, AlwaysInv, TypeOK, LockInv,
       Swapping, InFlight, FrameInv, StoreInv, Acked, FilesInv,
       NoAckedWriteLost, serverVars, fileVars, writerVars
  <2>2. RewriteInv'
    <3>1. \A op \in Ops : pc[op] \in {"written", "flushed", "acked"} => op \in store
      BY Zenon, <1>15 DEF Snapshot, AlwaysInv, LockInv, StoreInv, InFlight, Acked
    <3>2. QED
      BY Zenon, <1>15, <3>1 DEF Snapshot, RewriteInv
  <2>3. QED
    BY Zenon, <1>0, <2>1, <2>2 DEF AlwaysInv
<1>16. CASE RewriteGivesUpLate
  <2>1. LockInv' /\ FrameInv' /\ StoreInv' /\ RewriteInv' /\ FilesInv' /\
        NoAckedWriteLost'
    BY Zenon, <1>0, <1>16, NotHolder DEF RewriteGivesUpLate, AlwaysInv, TypeOK,
       LockInv, Swapping, InFlight, FrameInv, StoreInv, Acked, RewriteInv,
       FilesInv, NoAckedWriteLost, serverVars, fileVars, writerVars,
       ClearRewriteState
  <2>2. QED
    BY Zenon, <1>0, <2>1 DEF AlwaysInv
<1>17. CASE GenerateRewrite
  <2>1. LockInv' /\ FrameInv' /\ StoreInv' /\ RewriteInv' /\ FilesInv' /\
        NoAckedWriteLost'
    BY Zenon, <1>0, <1>17 DEF GenerateRewrite, AlwaysInv, TypeOK, LockInv, Swapping,
       InFlight, FrameInv, StoreInv, Acked, RewriteInv, FilesInv,
       NoAckedWriteLost, serverVars, fileVars, writerVars
  <2>2. QED
    BY Zenon, <1>0, <2>1 DEF AlwaysInv
<1>18. CASE AppendBufferedRewrite
  <2>1. LockInv' /\ FrameInv' /\ StoreInv' /\ FilesInv' /\ NoAckedWriteLost'
    BY Zenon, <1>0, <1>18, NotHolder DEF AppendBufferedRewrite, AlwaysInv, TypeOK,
       LockInv, Swapping, InFlight, FrameInv, StoreInv, Acked, FilesInv,
       NoAckedWriteLost, serverVars, fileVars
  <2>2. RewriteInv'
    <3>1. temp = <<snap>> /\ temp' = <<snap>> \o rewriteBuffer /\ rw' = "tempsync"
      BY Zenon, <1>18 DEF AppendBufferedRewrite, AlwaysInv, RewriteInv
    <3>2. ASSUME NEW op \in Acked PROVE Contains(temp', op)
      <4>1. op \in snap \/ Contains(rewriteBuffer, op)
        BY Zenon, <1>18 DEF AppendBufferedRewrite, AlwaysInv, RewriteInv, Acked
      <4>2. op \in snap => Contains(<<snap>>, op)
        BY DEF Contains
      <4>3. <<snap>> \in Seq(FileEntries) /\ rewriteBuffer \in Seq(SUBSET Ops) /\ op \in Ops
        BY <1>0 DEF TypeOK, FileEntries, Acked
      <4>4. QED
        BY Zenon, <3>1, <4>1, <4>2, <4>3, ContainsConcat
    <3>3. Acked' = Acked
      BY Zenon, <1>18 DEF AppendBufferedRewrite, Acked
    <3>4. QED
      BY Zenon, <3>1, <3>2, <3>3 DEF RewriteInv
  <2>3. QED
    BY Zenon, <1>0, <2>1, <2>2 DEF AlwaysInv
<1>19. CASE FinalizeFails
  <2>1. LockInv' /\ FrameInv' /\ StoreInv' /\ RewriteInv' /\ FilesInv' /\
        NoAckedWriteLost'
    BY Zenon, <1>0, <1>19, NotHolder DEF FinalizeFails, AlwaysInv, TypeOK, LockInv,
       Swapping, InFlight, FrameInv, StoreInv, Acked, RewriteInv, FilesInv,
       NoAckedWriteLost, serverVars, fileVars, ClearRewriteState
  <2>2. QED
    BY Zenon, <1>0, <2>1 DEF AlwaysInv
<1>20. CASE SyncTemp
  <2>1. LockInv' /\ FrameInv' /\ StoreInv' /\ RewriteInv' /\ FilesInv' /\
        NoAckedWriteLost'
    BY Zenon, <1>0, <1>20 DEF SyncTemp, AlwaysInv, TypeOK, LockInv, Swapping,
       InFlight, FrameInv, StoreInv, Acked, RewriteInv, FilesInv,
       NoAckedWriteLost, serverVars, fileVars, writerVars
  <2>2. QED
    BY Zenon, <1>0, <2>1 DEF AlwaysInv
<1>21. CASE CloseOldFile
  <2>1. LockInv' /\ FrameInv' /\ StoreInv' /\ RewriteInv' /\ FilesInv' /\
        NoAckedWriteLost'
    BY Zenon, <1>0, <1>21 DEF CloseOldFile, AlwaysInv, TypeOK, LockInv, Swapping,
       InFlight, FrameInv, StoreInv, Acked, RewriteInv, FilesInv,
       NoAckedWriteLost, serverVars, fileVars, writerVars
  <2>2. QED
    BY Zenon, <1>0, <2>1 DEF AlwaysInv
<1>22. CASE CloseOldFileFails
  <2>1. LockInv' /\ FrameInv' /\ StoreInv' /\ RewriteInv' /\ FilesInv' /\
        NoAckedWriteLost'
    BY Zenon, <1>0, <1>22, NotHolder DEF CloseOldFileFails, AlwaysInv, TypeOK,
       LockInv, Swapping, InFlight, FrameInv, StoreInv, Acked, RewriteInv,
       FilesInv, NoAckedWriteLost, serverVars, fileVars, ClearRewriteState
  <2>2. QED
    BY Zenon, <1>0, <2>1 DEF AlwaysInv
<1>23. CASE Rename
  <2>1. LockInv'
    BY Zenon, <1>0, <1>23, NotHolder DEF Rename, AlwaysInv, TypeOK, LockInv,
       Swapping, InFlight, serverVars, writerVars
  <2>2. FrameInv'
    BY Zenon, <1>0, <1>23, NotHolder DEF Rename, AlwaysInv, TypeOK, FrameInv,
       LockInv, Swapping, serverVars, writerVars
  <2>3. StoreInv'
    BY ZenonT(40), <1>0, <1>23, NotHolder DEF Rename, AlwaysInv, TypeOK, StoreInv,
       LockInv, InFlight, Acked, serverVars, writerVars
  <2>4. RewriteInv'
    BY <1>0, <1>23, NotHolder DEF Rename, AlwaysInv, TypeOK, RewriteInv,
       LockInv, Swapping, Acked, serverVars, writerVars
  <2>5. NoAckedWriteLost'
    BY Zenon, <1>0, <1>23, NotHolder DEF Rename, AlwaysInv, TypeOK, NoAckedWriteLost,
       serverVars, writerVars
  <2>6. FilesInv'
    <3>1. /\ Acked' = Acked /\ rw' = "dirsync" /\ disk' = temp /\ synced' = Len(temp)
          /\ stale' = stale \cup {[data |-> disk, synced |-> synced]}
      BY Zenon, <1>23 DEF Rename, Acked
    <3>2. stale = {}
      BY Zenon, <1>23 DEF Rename, AlwaysInv, FilesInv
    <3>3. SafeFile(temp, Len(temp), Acked)
      BY Zenon, <1>0, <1>23, SafeTemp DEF Rename, AlwaysInv, RewriteInv, TypeOK
    <3>4. QED
      BY <3>1, <3>2, <3>3 DEF AlwaysInv, FilesInv
  <2>7. QED
    BY Zenon, <1>0, <2>1, <2>2, <2>3, <2>4, <2>5, <2>6 DEF AlwaysInv
<1>24. CASE RenameFails
  <2>1. LockInv' /\ FrameInv' /\ StoreInv' /\ RewriteInv' /\ FilesInv' /\
        NoAckedWriteLost'
    BY ZenonT(40), <1>0, <1>24 DEF RenameFails, AlwaysInv, TypeOK, LockInv, Swapping,
       InFlight, FrameInv, StoreInv, Acked, RewriteInv, FilesInv,
       NoAckedWriteLost, serverVars, fileVars, writerVars
  <2>2. QED
    BY Zenon, <1>0, <2>1 DEF AlwaysInv
<1>25. CASE SyncDir
  <2>1. LockInv' /\ FrameInv' /\ StoreInv' /\ RewriteInv' /\ FilesInv' /\
        NoAckedWriteLost'
    BY SMTT(40), <1>0, <1>25 DEF SyncDir, AlwaysInv, TypeOK, LockInv, Swapping,
       InFlight, FrameInv, StoreInv, Acked, RewriteInv, FilesInv,
       NoAckedWriteLost, serverVars, writerVars
  <2>2. QED
    BY Zenon, <1>0, <2>1 DEF AlwaysInv
<1>26. CASE SyncDirFails
  <2>1. LockInv' /\ FrameInv' /\ StoreInv' /\ RewriteInv' /\ FilesInv' /\
        NoAckedWriteLost'
    BY ZenonT(40), <1>0, <1>26 DEF SyncDirFails, AlwaysInv, TypeOK, LockInv, Swapping,
       InFlight, FrameInv, StoreInv, Acked, RewriteInv, FilesInv,
       NoAckedWriteLost, serverVars, fileVars, writerVars
  <2>2. QED
    BY Zenon, <1>0, <2>1 DEF AlwaysInv
<1>27. CASE Reopen
  <2>1. LockInv' /\ FrameInv' /\ StoreInv' /\ RewriteInv' /\ FilesInv' /\
        NoAckedWriteLost'
    BY SMTT(40), <1>0, <1>27, NotHolder DEF Reopen, AlwaysInv, TypeOK, LockInv,
       Swapping, InFlight, FrameInv, StoreInv, Acked, RewriteInv, FilesInv,
       NoAckedWriteLost, serverVars, fileVars, ClearRewriteState
  <2>2. QED
    BY Zenon, <1>0, <2>1 DEF AlwaysInv
<1>28. CASE Stop
  <2>1. LockInv' /\ FrameInv' /\ StoreInv' /\ RewriteInv' /\ FilesInv' /\
        NoAckedWriteLost'
    BY ZenonT(40), <1>0, <1>28 DEF Stop, AlwaysInv, TypeOK, LockInv, Swapping, InFlight,
       FrameInv, StoreInv, Acked, RewriteInv, FilesInv, NoAckedWriteLost,
       fileVars, writerVars, rewriteVars
  <2>2. QED
    BY Zenon, <1>0, <2>1 DEF AlwaysInv
<1>29. CASE Close
  <2>1. LockInv' /\ FrameInv' /\ StoreInv' /\ RewriteInv' /\ NoAckedWriteLost'
    BY SMTT(40), <1>0, <1>29, NotHolder DEF Close, AlwaysInv, TypeOK, LockInv, Swapping,
       InFlight, FrameInv, StoreInv, Acked, RewriteInv, NoAckedWriteLost,
       ProcessGone
  <2>2. FilesInv'
    <3>1. Acked' = Acked /\ stale' = stale /\ rw' = rw
      BY Zenon, <1>29 DEF Close, ProcessGone, Acked
    <3>2. SafeFile(disk \o buf, synced, Acked)
      BY Zenon, <1>0, SafeExtend DEF AlwaysInv, FilesInv, TypeOK
    <3>3. SafeFile(disk \o buf, Len(disk \o buf), Acked)
      BY Zenon, <1>0, <3>2, SafeSync, SeqTypes DEF TypeOK
    <3>4. \/ disk' = disk \o buf /\ synced' = Len(disk \o buf)
          \/ disk' = disk /\ synced' = synced
          \/ disk' = disk \o buf /\ synced' = synced
          \/ PartialWrite(buf) /\ synced' = synced
      BY Zenon, <1>29 DEF Close
    <3>5. PartialWrite(buf) => SafeFile(disk', synced, Acked)
      BY Zenon, <1>0, PartialWriteSafe DEF AlwaysInv, FilesInv, TypeOK
    <3>6. SafeFile(disk', synced', Acked)
      BY Zenon, <3>2, <3>3, <3>4, <3>5 DEF AlwaysInv, FilesInv
    <3>7. QED
      BY Zenon, <3>1, <3>6 DEF AlwaysInv, FilesInv
  <2>3. QED
    BY Zenon, <1>0, <2>1, <2>2 DEF AlwaysInv
<1>30. CASE Crash
  <2>1. LockInv'
    BY ZenonT(40), <1>0, <1>30, NotHolder DEF Crash, AlwaysInv, TypeOK, LockInv, Swapping,
       InFlight, ProcessGone
  <2>2. StoreInv'
    BY SMTT(40), <1>0, <1>30, NotHolder DEF Crash, AlwaysInv, TypeOK, StoreInv, LockInv,
       InFlight, Acked, ProcessGone
  <2>3. RewriteInv'
    BY Zenon, <1>0, <1>30, NotHolder DEF Crash, AlwaysInv, TypeOK, RewriteInv,
       LockInv, Swapping, Acked, ProcessGone
  <2>4. NoAckedWriteLost'
    BY Zenon, <1>0, <1>30, NotHolder DEF Crash, AlwaysInv, TypeOK, NoAckedWriteLost,
       ProcessGone
  <2>5. FrameInv'
    <3>1. \A op \in Ops : pc'[op] \notin {"written", "flushed"}
      BY Zenon, <1>0, <1>30 DEF Crash, InFlight, TypeOK
    <3>2. QED
      BY Zenon, <3>1 DEF FrameInv
  <2>6. FilesInv'
    <3>1. Acked' = Acked
      BY Zenon, <1>0, <1>30 DEF Crash, InFlight, Acked, TypeOK
    <3>2. SafeFile(disk', Len(disk'), Acked)
      <4>1. CASE disk' \in Survivors([data |-> disk, synced |-> synced],
                            handle = "ok" /\ (buf # <<>> \/ InFlight # {}))
        BY Zenon, <1>0, <4>1, SafeSurvives DEF AlwaysInv, FilesInv, TypeOK
      <4>2. ASSUME NEW f \in stale, disk' \in Survivors(f, FALSE)
            PROVE  SafeFile(disk', Len(disk'), Acked)
        <5>1. f \in Files
          BY Zenon, <1>0 DEF TypeOK
        <5>2. /\ f = [data |-> f.data, synced |-> f.synced]
              /\ f.data \in Seq(FileEntries) /\ f.synced \in Nat
          BY Zenon, <5>1 DEF Files
        <5>3. SafeFile(f.data, f.synced, Acked)
          BY Zenon DEF AlwaysInv, FilesInv
        <5>4. QED
          BY Zenon, <4>2, <5>2, <5>3, SafeSurvives
      <4>3. QED
        BY Zenon, <1>30, <4>1, <4>2 DEF Crash, CrashImages
    <3>3. QED
      BY Zenon, <1>30, <3>1, <3>2 DEF Crash, FilesInv
  <2>7. QED
    BY Zenon, <1>0, <2>1, <2>2, <2>3, <2>4, <2>5, <2>6 DEF AlwaysInv
<1>31. CASE Restart
  <2>1. LockInv' /\ FrameInv' /\ RewriteInv' /\ FilesInv'
    BY Zenon, <1>0, <1>31 DEF Restart, AlwaysInv, TypeOK, LockInv, Swapping,
       InFlight, FrameInv, RewriteInv, Acked, FilesInv, fileVars, writerVars,
       rewriteVars
  <2>2. StoreInv'
    <3>1. Acked \subseteq OpsOf(disk)
      BY Zenon, <1>0, SafeLoads DEF AlwaysInv, FilesInv, TypeOK, Acked
    <3>2. QED
      BY Zenon, <1>31, <3>1 DEF Restart, AlwaysInv, LockInv, StoreInv, InFlight, Acked
  <2>3. NoAckedWriteLost'
    <3>1. Acked \subseteq OpsOf(disk)
      BY Zenon, <1>0, SafeLoads DEF AlwaysInv, FilesInv, TypeOK, Acked
    <3>2. QED
      BY SMTT(40), <1>31, <3>1 DEF Restart, AlwaysInv, NoAckedWriteLost
  <2>4. QED
    BY Zenon, <1>0, <2>1, <2>2, <2>3 DEF AlwaysInv
<1>32. CASE UNCHANGED vars
  BY Zenon, <1>0, <1>32 DEF AlwaysInv, LockInv, FrameInv, StoreInv, RewriteInv, FilesInv,
     NoAckedWriteLost, Swapping, InFlight, Acked, vars, serverVars, fileVars, writerVars, rewriteVars
<1>33. QED
  BY SMTT(40), <1>1, <1>2, <1>3, <1>4, <1>5, <1>6, <1>7, <1>8, <1>9, <1>10, <1>11,
     <1>12, <1>13, <1>14, <1>15, <1>16, <1>17, <1>18, <1>19, <1>20, <1>21,
     <1>22, <1>23, <1>24, <1>25, <1>26, <1>27, <1>28, <1>29, <1>30, <1>31,
     <1>32 DEF Next, OpStep, Tick, RewriteStep

\* Under appendfsync always no acknowledged mutation is ever lost, over any
\* sequence of crashes, restarts, rewrites and failing calls, provided the
\* file system leaves no torn frame and the directory fsync after a rewrite's
\* rename does not fail.
THEOREM AlwaysIsDurable ==
  ASSUME Policy = "always", "torn" \notin Faults, "dirsync" \notin Faults
  PROVE  Spec => []NoAckedWriteLost
<1>1. Init => AlwaysInv
  <2> SUFFICES ASSUME Init PROVE AlwaysInv
    BY Zenon
  <2>1. TypeOK
    BY DEF Init, TypeOK, PcValues, RwValues, Handles, Holders, FileEntries
  <2>2. LockInv
    BY Zenon, NotHolder DEF Init, LockInv, Swapping, InFlight, Running
  <2>3. FrameInv /\ StoreInv /\ RewriteInv
    BY Zenon DEF Init, FrameInv, StoreInv, RewriteInv, InFlight, Acked
  <2>4. FilesInv
    BY DEF Init, FilesInv, SafeFile, Acked
  <2>5. QED
    BY Zenon, <2>1, <2>2, <2>3, <2>4 DEF Init, AlwaysInv, NoAckedWriteLost
<1>2. AlwaysInv /\ [Next]_vars => AlwaysInv'
  BY Zenon, AlwaysStep
<1>3. AlwaysInv => NoAckedWriteLost
  BY Zenon DEF AlwaysInv
<1>4. QED
  BY <1>1, <1>2, <1>3, PTL DEF Spec

(***************************************************************************)
(* Every policy: what the ticker's fsync and a graceful shutdown keep.     *)
(***************************************************************************)

\* The mutations Writer.append has seen and no restart missed.
Kept == {op \in Ops : pc[op] \in {"written", "flushed", "acked"}} \ lost

Untorn(d) == \A i \in 1..Len(d) : d[i] # Torn

\* While no flush fails, the bufio.Writer keeps an error only over a closed
\* file, which no rewrite replaces.  The ticker fsyncs what it has flushed.
HandleInv ==
    /\ handle # "stuck"
    /\ rw \in {"rename", "dirsync", "reopen"} => handle = "ok"
    /\ mu = "ticker" => Running /\ buf = <<>>

\* The frame of every mutation that was kept is in the file or in the buffer.
LoggedInv ==
    /\ rw \notin {"dirsync", "reopen"} /\ Untorn(disk) =>
         \A op \in Kept : Contains(disk, op) \/ Contains(buf, op)
    /\ rw \in {"dirsync", "reopen"} => \A op \in Kept : Contains(disk, op)

\* During a rewrite it is also on its way to the file that replaces the old one.
CopiedInv ==
    /\ rw \in {"snapped", "generated"} =>
         /\ rewriteMode = "active"
         /\ \A op \in Kept : op \in snap \/ Contains(rewriteBuffer, op)
    /\ rw = "generated" => temp = <<snap>>
    /\ rw \in {"tempsync", "closeold", "rename"} => \A op \in Kept : Contains(temp, op)

KeptInv ==
    Running => /\ InFlight \subseteq store /\ Kept \subseteq store
               /\ handle = "ok" => LoggedInv /\ CopiedInv

DeferredInv == TypeOK /\ LockInv /\ HandleInv /\ KeptInv

\* Writer.mu, the append in progress and the phases of the rewrite stay in step.
LEMMA LockStep == ASSUME TypeOK, LockInv, Next PROVE LockInv'
<1>0. TypeOK'
  BY Zenon, TypeStep
<1> USE <1>0 DEF Running, TypeOK, LockInv, Swapping, InFlight, serverVars, fileVars,
        writerVars, rewriteVars
<1>1. ASSUME NEW op \in Ops, Execute(op) PROVE LockInv'
  BY Zenon, <1>1, NotHolder DEF Execute
<1>2. ASSUME NEW op \in Ops, OpStep(op) PROVE LockInv'
  <2>1. CASE WriteFrame(op)
    BY SMTT(40), <2>1, NotHolder DEF WriteFrame
  <2>2. CASE WriteFrameFails(op) \/ FlushFails(op)
    BY <2>2, NotHolder DEF WriteFrameFails, FlushFails, AppendFailed
  <2>3. CASE Flush(op)
    BY Zenon, <2>3, NotHolder DEF Flush
  <2>4. CASE Sync(op) \/ SyncFails(op)
    BY ZenonT(40), <2>4, NotHolder DEF Sync, SyncFails
  <2>5. QED
    BY Zenon, <1>2, <2>1, <2>2, <2>3, <2>4 DEF OpStep
<1>3. CASE Tick
  BY Zenon, <1>3, NotHolder DEF Tick, TickFlush, TickFlushFails, TickSync, TickSyncFails
<1>4. CASE BeginRewrite \/ RewriteGivesUpEarly \/ CreateTemp \/ Snapshot
           \/ RewriteGivesUpLate \/ GenerateRewrite
  BY Zenon, <1>4, NotHolder DEF BeginRewrite, RewriteGivesUpEarly, CreateTemp, Snapshot,
     RewriteGivesUpLate, GenerateRewrite, ClearRewriteState
<1>5. CASE AppendBufferedRewrite \/ FinalizeFails \/ SyncTemp
           \/ CloseOldFile \/ CloseOldFileFails
  BY Zenon, <1>5, NotHolder DEF AppendBufferedRewrite, FinalizeFails, SyncTemp,
     CloseOldFile, CloseOldFileFails, ClearRewriteState
<1>6. CASE Rename \/ RenameFails \/ SyncDir \/ SyncDirFails \/ Reopen
  BY Zenon, <1>6, NotHolder DEF Rename, RenameFails, SyncDir, SyncDirFails, Reopen,
     ClearRewriteState
<1>7. CASE Stop \/ Restart
  BY Zenon, <1>7, NotHolder DEF Stop, Restart
<1>8. CASE Close \/ Crash
  BY SMTT(40), <1>8, NotHolder DEF Close, Crash, ProcessGone
<1>9. QED
  BY Zenon, <1>1, <1>2, <1>3, <1>4, <1>5, <1>6, <1>7, <1>8 DEF Next, RewriteStep

\* The bufio.Writer recovers from an error only with its process.
LEMMA HandleStep ==
  ASSUME {"flush", "rename"} \cap Faults = {}, TypeOK, LockInv, HandleInv, Next
  PROVE  HandleInv'
<1> USE DEF HandleInv, TypeOK, LockInv, Swapping, Running, serverVars, writerVars, rewriteVars
<1>1. ASSUME NEW op \in Ops, Execute(op) \/ OpStep(op) PROVE HandleInv'
  BY Zenon, <1>1, NotHolder DEF Execute, OpStep, WriteFrame, WriteFrameFails, Flush,
     FlushFails, Sync, SyncFails, FlushError
<1>2. CASE Tick
  BY Zenon, <1>2, NotHolder DEF Tick, TickFlush, TickFlushFails, TickSync, TickSyncFails, FlushError
<1>3. CASE BeginRewrite \/ RewriteGivesUpEarly \/ CreateTemp \/ Snapshot
           \/ RewriteGivesUpLate \/ GenerateRewrite
  BY Zenon, <1>3, NotHolder DEF BeginRewrite, RewriteGivesUpEarly, CreateTemp, Snapshot,
     RewriteGivesUpLate, GenerateRewrite, ClearRewriteState
<1>4. CASE AppendBufferedRewrite \/ FinalizeFails \/ SyncTemp
           \/ CloseOldFile \/ CloseOldFileFails
  BY Zenon, <1>4, NotHolder DEF AppendBufferedRewrite, FinalizeFails, SyncTemp,
     CloseOldFile, CloseOldFileFails, ClearRewriteState, AfterClose, Handles
<1>5. CASE Rename \/ RenameFails \/ SyncDir \/ SyncDirFails \/ Reopen
  BY Zenon, <1>5, NotHolder DEF Rename, RenameFails, SyncDir, SyncDirFails, Reopen,
     ClearRewriteState, AfterClose, Handles
<1>6. CASE Stop \/ Restart
  BY Zenon, <1>6, NotHolder DEF Stop, Restart
<1>7. CASE Close \/ Crash
  BY Zenon, <1>7, NotHolder DEF Close, Crash, ProcessGone
<1>8. QED
  BY Zenon, <1>1, <1>2, <1>3, <1>4, <1>5, <1>6, <1>7 DEF Next, RewriteStep

\* A file without torn frames had none before frames were added.
LEMMA UntornPrefix ==
  ASSUME NEW d \in Seq(FileEntries), NEW s \in Seq(SUBSET Ops), Untorn(d \o s)
  PROVE  Untorn(d)
<1>1. /\ Len(d \o s) = Len(d) + Len(s) /\ Len(d) \in Nat /\ Len(s) \in Nat
      /\ \A i \in 1..Len(d) : (d \o s)[i] = d[i]
  BY SeqTypes
<1>2. ASSUME NEW i \in 1..Len(d) PROVE d[i] # Torn
  BY <1>1 DEF Untorn
<1>3. QED
  BY Zenon, <1>2 DEF Untorn

\* Writer.append leaves the frame in the file or in the buffer, and in the
\* frames kept for a rewrite that has passed its barrier.
LEMMA WriteFrameKeeps ==
  ASSUME DeferredInv, TypeOK', NEW op \in Ops, WriteFrame(op)
  PROVE  KeptInv'
<1>1. TypeOK /\ Running /\ KeptInv /\ LockInv
  BY Zenon DEF DeferredInv, WriteFrame
<1>2. /\ rw' = rw /\ snap' = snap /\ temp' = temp /\ rewriteMode' = rewriteMode
      /\ store' = store /\ handle' = handle /\ lost' = lost /\ phase' = phase
  BY Zenon DEF WriteFrame, serverVars
<1>3. /\ Kept' \subseteq Kept \cup {op} /\ InFlight' \subseteq InFlight /\ op \in InFlight
  BY Zenon, <1>1 DEF WriteFrame, TypeOK, Kept, InFlight, serverVars
<1>4. ~Swapping
  BY Zenon, <1>1, NotHolder DEF WriteFrame, LockInv
<1>5. /\ disk \in Seq(FileEntries) /\ buf \in Seq(SUBSET Ops) /\ rewriteBuffer \in Seq(SUBSET Ops)
      /\ Append(buf, {op}) \in Seq(SUBSET Ops) /\ <<{op}>> \in Seq(SUBSET Ops)
  BY Zenon, <1>1, SeqTypes DEF TypeOK
<1>6. ASSUME handle = "ok", Untorn(disk'), NEW o \in Kept'
      PROVE  Contains(disk', o) \/ Contains(buf', o)
  <2>1. o \in Ops /\ (o = op \/ o \in Kept)
    BY Zenon, <1>3 DEF Kept
  <2>2. Untorn(disk)
    BY Zenon, <1>5, <1>6, UntornPrefix DEF WriteFrame, BufferFrame
  <2>3. o = op \/ Contains(disk, o) \/ Contains(buf, o)
    BY Zenon, <1>1, <1>4, <1>6, <2>1, <2>2 DEF KeptInv, LoggedInv, Swapping
  <2>4. o = op \/ Contains(buf, o) => Contains(Append(buf, {op}), o)
    BY Zenon, <1>5, <2>1, ContainsAppend
  <2>5. CASE disk' = disk /\ buf' = Append(buf, {op})
    BY Zenon, <2>3, <2>4, <2>5
  <2>6. CASE disk' = disk \o buf /\ buf' = <<{op}>>
    <3>1. Contains(disk, o) \/ Contains(buf, o) => Contains(disk \o buf, o)
      BY Zenon, <1>5, <2>1, ContainsConcat
    <3>2. Contains(<<{op}>>, op)
      BY DEF Contains
    <3>3. QED
      BY Zenon, <2>3, <2>6, <3>1, <3>2
  <2>7. CASE disk' = disk \o Append(buf, {op}) /\ buf' = <<>>
    <3>1. Contains(disk, o) \/ Contains(Append(buf, {op}), o)
            => Contains(disk \o Append(buf, {op}), o)
      BY Zenon, <1>5, <2>1, ContainsConcat
    <3>2. QED
      BY Zenon, <2>3, <2>4, <2>7, <3>1
  <2>8. QED
    BY Zenon, <2>5, <2>6, <2>7 DEF WriteFrame, BufferFrame
<1>7. ASSUME handle = "ok" PROVE LoggedInv'
  BY Zenon, <1>2, <1>4, <1>6, <1>7 DEF LoggedInv, Swapping
<1>8. ASSUME handle = "ok", rw \in {"snapped", "generated"}, NEW o \in Kept'
      PROVE  o \in snap \/ Contains(rewriteBuffer', o)
  <2>1. rewriteBuffer' = Append(rewriteBuffer, {op})
    BY Zenon, <1>1, <1>8 DEF WriteFrame, BufferFrame, KeptInv, CopiedInv
  <2>2. o = op \/ o \in snap \/ Contains(rewriteBuffer, o)
    BY Zenon, <1>1, <1>3, <1>8 DEF KeptInv, CopiedInv
  <2>3. o \in Ops
    BY Zenon DEF Kept
  <2>4. QED
    BY Zenon, <1>5, <2>1, <2>2, <2>3, ContainsAppend
<1>9. ASSUME handle = "ok" PROVE CopiedInv'
  BY Zenon, <1>1, <1>2, <1>4, <1>8, <1>9 DEF KeptInv, CopiedInv, Swapping
<1>10. QED
  BY Zenon, <1>1, <1>2, <1>3, <1>7, <1>9 DEF KeptInv

\* Every step keeps what Writer.append has seen.
LEMMA KeptStep ==
  ASSUME {"flush", "rename"} \cap Faults = {}, DeferredInv, TypeOK', Next
  PROVE  KeptInv'
<1>0. TypeOK /\ LockInv /\ HandleInv /\ KeptInv
  BY Zenon DEF DeferredInv
<1>1. ASSUME NEW op \in Ops, Execute(op) PROVE KeptInv'
  BY Zenon, <1>0, <1>1 DEF Execute, TypeOK, KeptInv, LoggedInv, CopiedInv, Kept, InFlight,
     Untorn, Running, serverVars, fileVars, writerVars, rewriteVars
<1>2. ASSUME NEW op \in Ops, WriteFrameFails(op) \/ FlushFails(op) PROVE KeptInv'
  <2>1. handle' # "ok"
    BY Zenon, <1>0, <1>2 DEF WriteFrameFails, FlushFails, FlushError
  <2>2. /\ op \in InFlight /\ InFlight' \subseteq InFlight /\ Kept' \subseteq Kept \cup {op}
        /\ store' = store
    BY Zenon, <1>0, <1>2 DEF WriteFrameFails, FlushFails, AppendFailed, TypeOK, InFlight, Kept,
       serverVars
  <2>3. Running
    BY Zenon, <1>0, <2>2 DEF LockInv
  <2>4. QED
    BY Zenon, <1>0, <2>1, <2>2, <2>3 DEF KeptInv
<1>3. ASSUME NEW s, s = buf, disk' = disk \o s, buf' = <<>>, ~Swapping,
             handle' = handle, Kept' \subseteq Kept, UNCHANGED <<rw, snap, temp>>,
             UNCHANGED <<rewriteMode, rewriteBuffer, phase, store>>,
             InFlight' \subseteq InFlight
      PROVE  KeptInv'
  <2>1. ASSUME handle = "ok", Running, Untorn(disk'), NEW o \in Kept' PROVE Contains(disk', o)
    <3>1. Untorn(disk)
      BY Zenon, <1>0, <1>3, <2>1, UntornPrefix DEF TypeOK
    <3>2. o \in Kept
      BY Zenon, <1>3
    <3>3. Contains(disk, o) \/ Contains(buf, o)
      BY Zenon, <1>0, <1>3, <2>1, <3>1, <3>2 DEF KeptInv, LoggedInv, Swapping
    <3>4. o \in Ops
      BY Zenon, <3>2 DEF Kept
    <3>5. QED
      BY Zenon, <1>0, <1>3, <3>3, <3>4, ContainsConcat DEF TypeOK
  <2>2. handle = "ok" /\ Running => LoggedInv'
    BY Zenon, <1>3, <2>1 DEF LoggedInv, Swapping
  <2>3. handle = "ok" /\ Running => CopiedInv'
    BY Zenon, <1>0, <1>3 DEF KeptInv, CopiedInv
  <2>4. QED
    BY Zenon, <1>0, <1>3, <2>2, <2>3 DEF KeptInv, Running
<1>4. ASSUME NEW op \in Ops, Flush(op) PROVE KeptInv'
  <2>1. Kept' \subseteq Kept /\ InFlight' \subseteq InFlight
    BY Zenon, <1>0, <1>4 DEF Flush, TypeOK, Kept, InFlight, serverVars
  <2>2. ~Swapping
    BY Zenon, <1>0, <1>4, NotHolder DEF Flush, LockInv
  <2>3. QED
    BY Zenon, <1>3, <1>4, <2>1, <2>2 DEF Flush, serverVars, rewriteVars
<1>5. CASE TickFlush
  <2>1. Kept' \subseteq Kept /\ InFlight' \subseteq InFlight
    BY Zenon, <1>5 DEF TickFlush, Kept, InFlight, serverVars
  <2>2. ~Swapping
    BY Zenon, <1>0, <1>5 DEF TickFlush, LockInv
  <2>3. QED
    BY Zenon, <1>3, <1>5, <2>1, <2>2 DEF TickFlush, serverVars, rewriteVars
<1>6. CASE TickFlushFails
  BY Zenon, <1>0, <1>6 DEF TickFlushFails, FlushError, KeptInv, Kept, InFlight, Running,
     serverVars, rewriteVars
<1>7. ASSUME NEW op \in Ops, Sync(op) \/ SyncFails(op) PROVE KeptInv'
  <2>1. Kept' \subseteq Kept /\ InFlight' \subseteq InFlight
    BY Zenon, <1>0, <1>7 DEF Sync, SyncFails, TypeOK, Kept, InFlight, serverVars
  <2>2. UNCHANGED <<disk, buf, handle, rw, snap, temp, rewriteMode, rewriteBuffer, phase, store>>
    BY Zenon, <1>7 DEF Sync, SyncFails, serverVars, fileVars, rewriteVars
  <2>3. QED
    BY Zenon, <1>0, <2>1, <2>2 DEF KeptInv, LoggedInv, CopiedInv, Untorn, Running
<1>8. CASE TickSync \/ TickSyncFails
  BY ZenonT(40), <1>0, <1>8 DEF TickSync, TickSyncFails, KeptInv, LoggedInv, CopiedInv, Kept, InFlight,
     Untorn, Running, serverVars, fileVars, rewriteVars
<1>9. CASE BeginRewrite \/ RewriteGivesUpEarly \/ CreateTemp \/ Snapshot
           \/ RewriteGivesUpLate \/ GenerateRewrite
  <2>1. Kept' = Kept /\ InFlight' = InFlight
    BY Zenon, <1>9 DEF BeginRewrite, RewriteGivesUpEarly, CreateTemp, Snapshot,
       RewriteGivesUpLate, GenerateRewrite, Kept, InFlight, serverVars
  <2>2. QED
    BY <1>0, <1>9, <2>1 DEF BeginRewrite, RewriteGivesUpEarly, CreateTemp, Snapshot,
       RewriteGivesUpLate, GenerateRewrite, ClearRewriteState, KeptInv, LoggedInv,
       CopiedInv, Untorn, Running, serverVars, fileVars, writerVars
<1>10. CASE AppendBufferedRewrite
  <2>1. Kept' = Kept /\ InFlight' = InFlight
    BY Zenon, <1>10 DEF AppendBufferedRewrite, Kept, InFlight, serverVars
  <2>2. ASSUME Running, handle = "ok" PROVE LoggedInv'
    BY Zenon, <1>0, <1>10, <2>1, <2>2 DEF AppendBufferedRewrite, KeptInv, LoggedInv, Untorn, fileVars
  <2>3. ASSUME Running, handle = "ok", NEW o \in Kept PROVE Contains(temp', o)
    <3>1. temp = <<snap>> /\ temp' = <<snap>> \o rewriteBuffer
      BY Zenon, <1>0, <1>10, <2>3 DEF AppendBufferedRewrite, KeptInv, CopiedInv
    <3>2. o \in snap \/ Contains(rewriteBuffer, o)
      BY Zenon, <1>0, <1>10, <2>3 DEF AppendBufferedRewrite, KeptInv, CopiedInv
    <3>3. o \in snap => Contains(<<snap>>, o)
      BY SMTT(40) DEF Contains
    <3>4. <<snap>> \in Seq(FileEntries) /\ rewriteBuffer \in Seq(SUBSET Ops) /\ o \in Ops
      BY <1>0 DEF TypeOK, FileEntries, Kept
    <3>5. QED
      BY Zenon, <3>1, <3>2, <3>3, <3>4, ContainsConcat
  <2>4. QED
    BY Zenon, <1>0, <1>10, <2>1, <2>2, <2>3 DEF AppendBufferedRewrite, KeptInv, CopiedInv,
       Running, serverVars
<1>11. CASE FinalizeFails \/ SyncTemp \/ CloseOldFile \/ CloseOldFileFails
  <2>1. Kept' = Kept /\ InFlight' = InFlight
    BY Zenon, <1>11 DEF FinalizeFails, SyncTemp, CloseOldFile, CloseOldFileFails, Kept, InFlight,
       serverVars
  <2>2. QED
    BY Zenon, <1>0, <1>11, <2>1 DEF FinalizeFails, SyncTemp, CloseOldFile, CloseOldFileFails,
       AfterClose, ClearRewriteState, KeptInv, LoggedInv, CopiedInv, Untorn, Running,
       serverVars, fileVars, writerVars
<1>12. CASE Rename \/ RenameFails \/ SyncDir \/ SyncDirFails \/ Reopen
  <2>1. Kept' = Kept /\ InFlight' = InFlight
    BY Zenon, <1>12 DEF Rename, RenameFails, SyncDir, SyncDirFails, Reopen, Kept, InFlight, serverVars
  <2>2. QED
    BY Zenon, <1>0, <1>12, <2>1 DEF Rename, RenameFails, SyncDir, SyncDirFails, Reopen,
       HandleInv, AfterClose, ClearRewriteState, KeptInv, LoggedInv, CopiedInv, Untorn,
       Running, serverVars, fileVars, writerVars
<1>13. CASE Stop
  BY Zenon, <1>0, <1>13 DEF Stop, KeptInv, LoggedInv, CopiedInv, Kept, InFlight,
     Untorn, Running, serverVars, fileVars, writerVars, rewriteVars
<1>14. CASE Close \/ Crash
  BY Zenon, <1>14 DEF Close, Crash, ProcessGone, KeptInv, Running
<1>15. CASE Restart
  <2>1. rw = "none" /\ InFlight = {} /\ rw' = "none" /\ InFlight' = {} /\ disk' = disk
    BY Zenon, <1>0, <1>15 DEF Restart, LockInv, Running, InFlight, rewriteVars, fileVars
  <2>2. Kept' \subseteq OpsOf(disk) /\ store' = OpsOf(disk)
    BY Zenon, <1>0, <1>15, <2>1 DEF Restart, Kept, Acked, InFlight
  <2>3. \A op \in Kept' : Contains(disk, op)
    BY Zenon, <2>2 DEF OpsOf, Contains, Replayed
  <2>4. QED
    BY Zenon, <2>1, <2>2, <2>3 DEF KeptInv, LoggedInv, CopiedInv
<1>16. QED
  BY Zenon, <1>1, <1>2, <1>4, <1>5, <1>6, <1>7, <1>8, <1>9, <1>10, <1>11, <1>12, <1>13,
     <1>14, <1>15, WriteFrameKeeps DEF Next, OpStep, Tick, RewriteStep

\* A restart finds every mutation of a file without torn frames.
LEMMA UntornLoads ==
  ASSUME NEW d \in Seq(FileEntries), Untorn(d), NEW op \in Ops, Contains(d, op)
  PROVE  op \in OpsOf(d)
<1>1. PICK i \in 1..Len(d) : op \in d[i]
  BY Zenon DEF Contains
<1>2. Len(d) \in Nat /\ i \in Replayed(d)
  BY DEF Replayed, Untorn
<1>3. QED
  BY Zenon, <1>1, <1>2 DEF OpsOf

\* One more element at the end of a sequence.
LEMMA OneMore ==
  ASSUME NEW S, NEW s \in Seq(S), NEW e \in S
  PROVE  /\ Append(s, e) \in Seq(S) /\ Len(s) \in Nat /\ Len(Append(s, e)) = Len(s) + 1
         /\ Append(s, e)[Len(s) + 1] = e
         /\ \A i \in 1..Len(s) : Append(s, e)[i] = s[i]
  OBVIOUS

\* A file that is fsynced to its end keeps its mutations over a crash, even if
\* the first part of a further frame reaches the disk.
LEMMA WholeSurvives ==
  ASSUME NEW d \in Seq(FileEntries), Untorn(d), NEW op \in Ops, Contains(d, op), NEW more,
         NEW image \in Survivors([data |-> d, synced |-> Len(d)], more)
  PROVE  op \in OpsOf(image)
<1>1. PICK n \in Len(d)..Len(d) : \/ image = SubSeq(d, 1, n)
                                  \/ image = Append(SubSeq(d, 1, n), Torn)
  BY Zenon DEF Survivors
<1>2. n = Len(d) /\ SubSeq(d, 1, n) = d
  OBVIOUS
<1>3. CASE image = d
  BY Zenon, <1>3, UntornLoads
<1>4. CASE image = Append(d, Torn)
  <2>1. PICK i \in 1..Len(d) : op \in d[i]
    BY ZenonT(40) DEF Contains
  <2>2. /\ Len(image) = Len(d) + 1 /\ Len(d) \in Nat
        /\ \A j \in 1..Len(d) : image[j] = d[j]
    <3>1. Torn \in FileEntries
      BY Zenon DEF FileEntries
    <3>2. /\ Len(Append(d, Torn)) = Len(d) + 1 /\ Len(d) \in Nat
          /\ \A j \in 1..Len(d) : Append(d, Torn)[j] = d[j]
      BY ONLY SMTT(40), d \in Seq(FileEntries), <3>1
    <3> QED
      BY ONLY Zenon, <1>4, <3>2
  <2>3. i \in 1..Len(image) /\ \A j \in 1..i : j \in 1..Len(d)
    BY <2>2
  <2>4. i \in Replayed(image)
    BY Zenon, <2>2, <2>3 DEF Replayed, Untorn
  <2>5. QED
    BY Zenon, <2>1, <2>2, <2>4 DEF OpsOf
<1>5. QED
  BY Zenon, <1>1, <1>2, <1>3, <1>4

\* The invariant of every policy holds throughout.
LEMMA DeferredIsInvariant ==
  ASSUME {"flush", "rename"} \cap Faults = {}
  PROVE  Spec => []DeferredInv
<1>1. Init => DeferredInv
  <2> SUFFICES ASSUME Init PROVE DeferredInv
    BY Zenon
  <2>1. TypeOK
    BY DEF Init, TypeOK, PcValues, RwValues, Handles, Holders, FileEntries
  <2>2. LockInv
    BY Zenon, NotHolder DEF Init, LockInv, Swapping, InFlight, Running
  <2>3. HandleInv /\ KeptInv
    BY Zenon DEF Init, HandleInv, KeptInv, LoggedInv, CopiedInv, Kept, InFlight
  <2>4. QED
    BY Zenon, <2>1, <2>2, <2>3 DEF DeferredInv
<1>2. DeferredInv /\ [Next]_vars => DeferredInv'
  <2> SUFFICES ASSUME DeferredInv, [Next]_vars PROVE DeferredInv'
    BY Zenon
  <2>1. TypeOK'
    BY Zenon, TypeStep DEF DeferredInv
  <2>2. CASE Next
    BY Zenon, <2>1, <2>2, LockStep, HandleStep, KeptStep DEF DeferredInv
  <2>3. CASE UNCHANGED vars
    BY Zenon, <2>1, <2>3 DEF DeferredInv, LockInv, HandleInv, KeptInv, LoggedInv, CopiedInv, Kept,
       Untorn, Swapping, InFlight, Running, vars, serverVars, fileVars, writerVars, rewriteVars
  <2>4. QED
    BY Zenon, <2>2, <2>3
<1>3. QED
  BY <1>1, <1>2, PTL DEF Spec

\* The fsync of the ticker covers every acknowledged mutation.
LEMMA TickCovers ==
  ASSUME DeferredInv, TickSync, Intact, NEW image \in CrashImages', NEW op \in Acked \ lost
  PROVE  op \in OpsOf(image)
<1>1. /\ disk' = disk /\ synced' = Len(disk) /\ stale' = {} /\ Untorn(disk)
  BY Zenon DEF TickSync, Intact, Untorn
<1>2. op \in Kept /\ op \in Ops
  BY Zenon DEF Acked, Kept
<1>3. Running /\ buf = <<>> /\ rw \notin {"dirsync", "reopen"} /\ handle = "ok"
  BY Zenon DEF TickSync, Intact, DeferredInv, HandleInv, LockInv, Swapping
<1>4. Contains(disk, op)
  BY <1>1, <1>2, <1>3 DEF DeferredInv, KeptInv, LoggedInv, Contains
<1>5. image \in Survivors([data |-> disk, synced |-> Len(disk)],
                          handle' = "ok" /\ (buf' # <<>> \/ InFlight' # {}))
  BY Zenon, <1>1 DEF CrashImages
<1>6. QED
  BY Zenon, <1>1, <1>2, <1>4, <1>5, WholeSurvives DEF DeferredInv, TypeOK

\* When runEverysec has fsynced an intact file, every mutation acknowledged so
\* far survives any crash, over all crashes, restarts, rewrites and failures
\* before, provided that no write and no rename failed: such a failure drops
\* frames that a deferred policy has acknowledged.
THEOREM TickClosesWindow ==
  ASSUME {"flush", "rename"} \cap Faults = {}
  PROVE  Spec => EverysecWindow
<1>1. DeferredInv => [TickSync /\ Intact =>
          \A image \in CrashImages' : Acked \ lost \subseteq OpsOf(image)]_vars
  BY Zenon, TickCovers
<1>2. QED
  BY <1>1, DeferredIsInvariant, PTL DEF EverysecWindow

\* The file a graceful shutdown could flush and fsync holds every
\* acknowledged mutation, under the same proviso (closeAOFWriter).
THEOREM ShutdownKeepsAcked ==
  ASSUME {"flush", "rename"} \cap Faults = {}
  PROVE  Spec => CloseKeepsAcked
<1>1. ASSUME DeferredInv, Next, phase = "stopping", phase' = "down", crashes' = crashes, Intact
      PROVE  (Acked' \ lost) \subseteq OpsOf(disk')
  <2>1. Close
    <3>1. ~Crash
      BY <1>1 DEF Crash, DeferredInv, TypeOK
    <3>2. QED
      BY Zenon, <1>1, <3>1 DEF Next, Execute, OpStep, WriteFrame, WriteFrameFails, Flush,
         FlushFails, Sync, SyncFails, Tick, TickFlush, TickFlushFails, TickSync,
         TickSyncFails, BeginRewrite, RewriteStep, RewriteGivesUpEarly, CreateTemp,
         Snapshot, RewriteGivesUpLate, GenerateRewrite, AppendBufferedRewrite,
         FinalizeFails, SyncTemp, CloseOldFile, CloseOldFileFails, Rename, RenameFails,
         SyncDir, SyncDirFails, Reopen, Stop, Restart, serverVars
  <2>2. disk' = disk \o buf /\ Acked' = Acked /\ rw = "none"
    BY Zenon, <1>1, <2>1 DEF Close, Intact, Acked
  <2>3. disk \in Seq(FileEntries) /\ buf \in Seq(SUBSET Ops) /\ Untorn(disk)
    BY Zenon, <1>1 DEF DeferredInv, TypeOK, Intact, Untorn
  <2>4. ASSUME NEW op \in Acked \ lost PROVE Contains(disk \o buf, op) /\ op \in Ops
    <3>1. op \in Kept /\ op \in Ops
      BY Zenon DEF Acked, Kept
    <3>2. Contains(disk, op) \/ Contains(buf, op)
      BY Zenon, <1>1, <2>2, <2>3, <3>1 DEF DeferredInv, KeptInv, LoggedInv, Intact, Running
    <3>3. QED
      BY Zenon, <2>3, <3>1, <3>2, ContainsConcat
  <2>5. Untorn(disk \o buf) /\ disk \o buf \in Seq(FileEntries)
    <3>1. /\ Len(disk \o buf) = Len(disk) + Len(buf) /\ Len(disk) \in Nat /\ Len(buf) \in Nat
          /\ disk \o buf \in Seq(FileEntries)
          /\ \A i \in 1..Len(disk) : (disk \o buf)[i] = disk[i]
          /\ \A i \in 1..Len(disk \o buf) : i > Len(disk) =>
                (disk \o buf)[i] = buf[i - Len(disk)]
      BY <2>3, SeqTypes
    <3>2. \A i \in 1..Len(buf) : buf[i] # Torn
      BY <2>3, TornAssumption
    <3>3. ASSUME NEW i \in 1..Len(disk \o buf) PROVE (disk \o buf)[i] # Torn
      <4>1. CASE i \in 1..Len(disk)
        BY Zenon, <2>3, <3>1, <4>1 DEF Untorn
      <4>2. CASE i > Len(disk)
        <5>1. i - Len(disk) \in 1..Len(buf)
          BY <3>1, <4>2
        <5>2. QED
          BY Zenon, <3>1, <3>2, <4>2, <5>1
      <4>3. QED
        BY <3>1, <4>1, <4>2
    <3>4. QED
      BY Zenon, <3>1, <3>3 DEF Untorn
  <2>6. QED
    BY Zenon, <2>2, <2>4, <2>5, UntornLoads
<1>2. DeferredInv /\ [Next]_vars =>
        [phase = "stopping" /\ phase' = "down" /\ crashes' = crashes
           /\ Intact /\ synced' = Len(disk')
         => (Acked' \ lost) \subseteq OpsOf(disk')]_vars
  BY Zenon, <1>1
<1>3. QED
  BY <1>2, DeferredIsInvariant, PTL DEF CloseKeepsAcked, Spec

-----------------------------------------------------------------------------
(* The ring of the slow log.                                               *)

\* A sequence without its first elements.
LEMMA TheRest ==
  ASSUME NEW S, NEW s \in Seq(S), NEW k \in 0..Len(s)
  PROVE  /\ Len(s) - Len(SubSeq(s, k + 1, Len(s))) = k
         /\ \A i \in DOMAIN SubSeq(s, k + 1, Len(s)) : SubSeq(s, k + 1, Len(s))[i] = s[k + i]
<1> DEFINE r == SubSeq(s, k + 1, Len(s))
<1>1. Len(s) \in Nat /\ Len(r) = Len(s) - k /\ DOMAIN r = 1..Len(r)
  BY SMTT(40)
<1>2. \A i \in 1..Len(s) - k : r[i] = s[k + i]
  BY SMTT(40)
<1> HIDE DEF r
<1>3. Len(s) - Len(r) = k
  BY ONLY SMTT(40), <1>1, k \in 0..Len(s)
<1>4. \A i \in DOMAIN r : r[i] = s[k + i]
  BY ONLY Zenon, <1>1, <1>2
<1> QED
  BY Zenon, <1>3, <1>4 DEF r

\* The slot of the entry that Entries returns as number i.
SlotOf(i) == (start + count - i + Capacity) % Capacity

RingTypes ==
    /\ ring \in [Slots -> Int] /\ start \in Slots /\ count \in 0..Capacity
    /\ nextID \in Int /\ holding \in [Recorders -> Int] /\ kept \in Seq(Int)

\* The ring holds the last entries written, the newest one before the slot that
\* is written next.
RingInv ==
    /\ RingTypes
    /\ count = IF Len(kept) < Capacity THEN Len(kept) ELSE Capacity
    /\ \A i \in 1..count : ring[SlotOf(i)] = kept[Len(kept) - i + 1]

\* Going round a ring of c slots.
LEMMA GoingRound ==
  ASSUME NEW c \in Nat \ {0}, NEW x \in 0..(3 * c - 1)
  PROVE  x % c = IF x < c THEN x ELSE IF x < 2 * c THEN x - c ELSE x - 2 * c
  OBVIOUS

\* One more entry when the ring has room: it goes before all the others.
LEMMA SlotsOfRoom ==
  ASSUME NEW c \in Nat \ {0}, NEW s \in 0..c - 1, NEW k \in 0..c - 1
  PROVE  /\ (s + k) % c \in 0..c - 1
         /\ (s + (k + 1) - 1 + c) % c = (s + k) % c
         /\ \A i \in 2..k + 1 :
               /\ i - 1 \in 1..k
               /\ (s + (k + 1) - i + c) % c = (s + k - (i - 1) + c) % c
               /\ (s + (k + 1) - i + c) % c \in 0..c - 1
               /\ (s + (k + 1) - i + c) % c # (s + k) % c
<1>1. \A x \in 0..(3 * c - 1) :
        x % c = IF x < c THEN x ELSE IF x < 2 * c THEN x - c ELSE x - 2 * c
  BY Zenon, GoingRound
<1>2. s + k \in 0..(3 * c - 1) /\ s + k + c \in 0..(3 * c - 1)
  OBVIOUS
<1>3. \A i \in 2..k + 1 : s + (k + 1) - i + c \in 0..(3 * c - 1)
  OBVIOUS
<1>4. (s + k) % c \in 0..c - 1 /\ (s + k + c) % c = (s + k) % c
  BY <1>1, <1>2
<1>5. s + (k + 1) - 1 + c = s + k + c
  OBVIOUS
<1>6. ASSUME NEW i \in 2..k + 1
      PROVE  /\ i - 1 \in 1..k
             /\ s + (k + 1) - i + c = s + k - (i - 1) + c
             /\ (s + (k + 1) - i + c) % c \in 0..c - 1
             /\ (s + (k + 1) - i + c) % c # (s + k) % c
  BY SMTT(40), <1>1, <1>2, <1>3
<1> QED
  BY Zenon, <1>4, <1>5, <1>6

\* One more entry when the ring is full: it takes the oldest one's slot.
LEMMA SlotsOfFull ==
  ASSUME NEW c \in Nat \ {0}, NEW s \in 0..c - 1
  PROVE  /\ (s + c) % c = s /\ (s + 1) % c \in 0..c - 1
         /\ (((s + 1) % c) + c - 1 + c) % c = s
         /\ \A i \in 2..c :
               /\ i - 1 \in 1..c
               /\ (((s + 1) % c) + c - i + c) % c = (s + c - (i - 1) + c) % c
               /\ (((s + 1) % c) + c - i + c) % c \in 0..c - 1
               /\ (((s + 1) % c) + c - i + c) % c # s
<1>1. \A x \in 0..(3 * c - 1) :
        x % c = IF x < c THEN x ELSE IF x < 2 * c THEN x - c ELSE x - 2 * c
  BY Zenon, GoingRound
<1>2. s + c \in 0..(3 * c - 1) /\ s + 1 \in 0..(3 * c - 1)
  OBVIOUS
<1>3. (s + c) % c = s /\ (s + 1) % c = IF s + 1 = c THEN 0 ELSE s + 1
  BY <1>1, <1>2
<1> DEFINE n == IF s + 1 = c THEN 0 ELSE s + 1
<1>4. n \in 0..c - 1 /\ n + c - 1 + c \in 0..(3 * c - 1)
  OBVIOUS
<1>5. (n + c - 1 + c) % c = s
  BY <1>1, <1>4
<1>6. ASSUME NEW i \in 2..c
      PROVE  /\ i - 1 \in 1..c
             /\ (n + c - i + c) % c = (s + c - (i - 1) + c) % c
             /\ (n + c - i + c) % c \in 0..c - 1
             /\ (n + c - i + c) % c # s
  <2>1. n + c - i + c \in 0..(3 * c - 1) /\ s + c - (i - 1) + c \in 0..(3 * c - 1)
    OBVIOUS
  <2>2. i - 1 \in 1..c
    OBVIOUS
  <2>3. CASE s + 1 = c
    <3>1. n = 0 /\ n + c - i + c = 2 * c - i /\ s + c - (i - 1) + c = 3 * c - i
      BY <2>3
    <3>2. 2 * c - i \in 0..(3 * c - 1) /\ 3 * c - i \in 0..(3 * c - 1)
      OBVIOUS
    <3>3. (2 * c - i) % c = c - i /\ (3 * c - i) % c = c - i
      BY SMTT(40), <1>1, <3>2
    <3> QED
      BY <2>2, <2>3, <3>1, <3>3
  <2>4. CASE s + 1 # c
    <3>1. n + c - i + c = s + 1 + 2 * c - i /\ s + c - (i - 1) + c = s + 1 + 2 * c - i
      BY <2>4
    <3>2. (s + 1 + 2 * c - i) % c = IF i > s + 1 THEN s + 1 + c - i ELSE s + 1 - i
      BY <1>1, <2>1, <2>4
    <3> QED
      BY <2>2, <2>4, <3>1, <3>2
  <2> QED
    BY Zenon, <2>3, <2>4
<1> HIDE DEF n
<1>7. (s + 1) % c = n
  BY Zenon, <1>3 DEF n
<1> QED
  BY Zenon, <1>3, <1>4, <1>5, <1>6, <1>7

\* At first the ring is empty.
LEMMA InitRing == SlowlogInit => RingInv
  BY CapacityAssumption DEF SlowlogInit, RingInv, RingTypes, Slots, NoEntry

\* Every step keeps the ring in line with the history.
LEMMA StepKeepsRing == RingInv /\ [SlowlogNext]_slowlogVars => RingInv'
<1> SUFFICES ASSUME RingInv, [SlowlogNext]_slowlogVars PROVE RingInv'
  BY Zenon
<1>1. ASSUME NEW r \in Recorders, TakeID(r) PROVE RingInv'
  BY <1>1 DEF TakeID, RingInv, RingTypes, SlotOf
<1>2. ASSUME NEW r \in Recorders, RecordEntry(r) PROVE RingInv'
  <2> DEFINE e == holding[r]
  <2> DEFINE p == (start + count) % Capacity
  <2>1. /\ start \in 0..Capacity - 1 /\ count \in 0..Capacity /\ ring \in [0..Capacity - 1 -> Int]
        /\ kept \in Seq(Int) /\ e \in Int /\ Capacity \in Nat \ {0}
    BY Zenon, CapacityAssumption DEF RingInv, RingTypes, Slots
  <2>2. /\ kept' \in Seq(Int) /\ Len(kept) \in Nat /\ Len(kept') = Len(kept) + 1
        /\ kept'[Len(kept) + 1] = e
        /\ \A i \in 1..Len(kept) : kept'[i] = kept[i]
    <3>1. kept' = Append(kept, e)
      BY Zenon, <1>2 DEF RecordEntry
    <3> HIDE DEF e
    <3> QED
      <4>1. /\ Append(kept, e) \in Seq(Int) /\ Len(kept) \in Nat
            /\ Len(Append(kept, e)) = Len(kept) + 1
            /\ Append(kept, e)[Len(kept) + 1] = e
            /\ \A i \in 1..Len(kept) : Append(kept, e)[i] = kept[i]
        BY ONLY <2>1, OneMore
      <4> QED
        BY Zenon, <3>1, <4>1
  <2>3. ring' = [ring EXCEPT ![p] = e]
    BY Zenon, <1>2 DEF RecordEntry
  <2> HIDE DEF e, p
  <2>4. nextID' \in Int /\ holding' \in [Recorders -> Int]
    BY <1>2 DEF RecordEntry, RingInv, RingTypes, NoEntry
  <2>5. count <= Len(kept)
    BY <2>1, <2>2 DEF RingInv
  <2>6. \A i \in 2..count + 1 : kept'[Len(kept') - i + 1] = kept[Len(kept) - (i - 1) + 1]
    <3>1. count \in Nat /\ Len(kept) \in Nat
      BY ONLY <2>1, <2>2
    <3>2. \A i \in 2..count + 1 : /\ (Len(kept) + 1) - i + 1 = Len(kept) - (i - 1) + 1
                                  /\ Len(kept) - (i - 1) + 1 \in 1..Len(kept)
      BY ONLY SMTT(40), <2>5, <3>1
    <3>3. Len(kept') = Len(kept) + 1
      BY Zenon, <2>2
    <3>4. \A k \in 1..Len(kept) : kept'[k] = kept[k]
      BY ONLY SMTT(40), <2>2
    <3>5. SUFFICES ASSUME NEW i \in 2..count + 1
                   PROVE  kept'[Len(kept') - i + 1] = kept[Len(kept) - (i - 1) + 1]
      OBVIOUS
    <3>6. Len(kept') - i + 1 = Len(kept) - (i - 1) + 1
      BY ONLY Zenon, <3>2, <3>3, i \in 2..count + 1
    <3>7. Len(kept) - (i - 1) + 1 \in 1..Len(kept)
      BY ONLY Zenon, <3>2, i \in 2..count + 1
    <3> QED
      BY ONLY Zenon, <3>4, <3>6, <3>7
  <2>7. CASE count = Capacity
    <3>1. start' = (start + 1) % Capacity /\ count' = Capacity
      BY Zenon, <1>2, <2>7 DEF RecordEntry
    <3>2. /\ p = start /\ start' \in 0..Capacity - 1
          /\ SlotOf(1)' = start
          /\ \A i \in 2..Capacity :
               i - 1 \in 1..Capacity /\ SlotOf(i)' = SlotOf(i - 1)
               /\ SlotOf(i)' \in 0..Capacity - 1 /\ SlotOf(i)' # start
      <4>1. /\ (start + Capacity) % Capacity = start /\ (start + 1) % Capacity \in 0..Capacity - 1
            /\ (((start + 1) % Capacity) + Capacity - 1 + Capacity) % Capacity = start
            /\ \A i \in 2..Capacity :
                 /\ i - 1 \in 1..Capacity
                 /\ (((start + 1) % Capacity) + Capacity - i + Capacity) % Capacity
                       = (start + Capacity - (i - 1) + Capacity) % Capacity
                 /\ (((start + 1) % Capacity) + Capacity - i + Capacity) % Capacity \in 0..Capacity - 1
                 /\ (((start + 1) % Capacity) + Capacity - i + Capacity) % Capacity # start
        BY ONLY Zenon, <2>1, SlotsOfFull
      <4>2. \A i : SlotOf(i) = (start + Capacity - i + Capacity) % Capacity
        BY Zenon, <2>7 DEF SlotOf
      <4>3. \A i : SlotOf(i)' = (((start + 1) % Capacity) + Capacity - i + Capacity) % Capacity
        BY Zenon, <3>1 DEF SlotOf
      <4>4. p = (start + Capacity) % Capacity
        BY Zenon, <2>7 DEF p
      <4> QED
        BY Zenon, <3>1, <4>1, <4>2, <4>3, <4>4
    <3>3. ring'[start] = e /\ \A i \in 2..Capacity : ring'[SlotOf(i)'] = ring[SlotOf(i - 1)]
      BY Zenon, <2>1, <2>3, <3>2
    <3>4. \A i \in 2..Capacity : ring[SlotOf(i - 1)] = kept[Len(kept) - (i - 1) + 1]
      BY Zenon, <2>7, <3>2 DEF RingInv
    <3>6. kept'[Len(kept') - 1 + 1] = e
      BY <2>2
    <3>7. \A i \in 1..count' : i = 1 \/ (i \in 2..Capacity /\ i \in 2..count + 1)
      BY <2>1, <2>7, <3>1
    <3>8. \A i \in 1..count' : ring'[SlotOf(i)'] = kept'[Len(kept') - i + 1]
      BY Zenon, <3>2, <3>3, <3>4, <2>6, <3>6, <3>7
    <3>9. count' = IF Len(kept') < Capacity THEN Len(kept') ELSE Capacity
      BY <2>1, <2>2, <2>5, <2>7, <3>1
    <3>10. RingTypes'
      BY SMTT(40), <2>1, <2>2, <2>3, <2>4, <3>1, <3>2 DEF RingTypes, Slots
    <3> QED
      BY Zenon, <3>8, <3>9, <3>10 DEF RingInv
  <2>8. CASE count # Capacity
    <3>1. start' = start /\ count' = count + 1 /\ count \in 0..Capacity - 1
      BY <1>2, <2>1, <2>8 DEF RecordEntry
    <3>2. /\ p \in 0..Capacity - 1
          /\ SlotOf(1)' = p
          /\ \A i \in 2..count + 1 :
               i - 1 \in 1..count /\ SlotOf(i)' = SlotOf(i - 1)
               /\ SlotOf(i)' \in 0..Capacity - 1 /\ SlotOf(i)' # p
      <4>1. /\ (start + count) % Capacity \in 0..Capacity - 1
            /\ (start + (count + 1) - 1 + Capacity) % Capacity = (start + count) % Capacity
            /\ \A i \in 2..count + 1 :
                 /\ i - 1 \in 1..count
                 /\ (start + (count + 1) - i + Capacity) % Capacity
                       = (start + count - (i - 1) + Capacity) % Capacity
                 /\ (start + (count + 1) - i + Capacity) % Capacity \in 0..Capacity - 1
                 /\ (start + (count + 1) - i + Capacity) % Capacity # (start + count) % Capacity
        BY ONLY ZenonT(40), <2>1, <3>1, SlotsOfRoom
      <4>2. \A i : SlotOf(i) = (start + count - i + Capacity) % Capacity
        BY Zenon DEF SlotOf
      <4>3. \A i : SlotOf(i)' = (start + (count + 1) - i + Capacity) % Capacity
        BY Zenon, <3>1 DEF SlotOf
      <4> QED
        BY Zenon, <4>1, <4>2, <4>3 DEF p
    <3>3. ring'[p] = e /\ \A i \in 2..count + 1 : ring'[SlotOf(i)'] = ring[SlotOf(i - 1)]
      BY Zenon, <2>1, <2>3, <3>2
    <3>4. \A i \in 2..count + 1 : ring[SlotOf(i - 1)] = kept[Len(kept) - (i - 1) + 1]
      BY Zenon, <3>2 DEF RingInv
    <3>6. kept'[Len(kept') - 1 + 1] = e
      BY <2>2
    <3>7. \A i \in 1..count' : i = 1 \/ i \in 2..count + 1
      BY <2>1, <3>1
    <3>8. \A i \in 1..count' : ring'[SlotOf(i)'] = kept'[Len(kept') - i + 1]
      BY ZenonT(40), <3>2, <3>3, <3>4, <2>6, <3>6, <3>7
    <3>9. count' = IF Len(kept') < Capacity THEN Len(kept') ELSE Capacity
      BY <2>1, <2>2, <3>1 DEF RingInv
    <3>10. RingTypes'
      BY SMTT(40), <2>1, <2>2, <2>3, <2>4, <3>1, <3>2 DEF RingTypes, Slots
    <3> QED
      BY Zenon, <3>8, <3>9, <3>10 DEF RingInv
  <2> QED
    BY Zenon, <2>7, <2>8
<1>3. ASSUME Reset PROVE RingInv'
  BY <1>3, CapacityAssumption DEF Reset, RingInv, RingTypes, Slots, NoEntry
<1>4. CASE UNCHANGED slowlogVars
  BY Zenon, <1>4 DEF slowlogVars, RingInv, RingTypes, SlotOf
<1> QED
  BY Zenon, <1>1, <1>2, <1>3, <1>4 DEF SlowlogNext

\* SLOWLOG GET returns the newest entries first for every capacity, whatever
\* order recorders and resets take (Record, Entries and Reset of slowlog.go).
THEOREM SlowlogIsNewestFirst == SlowlogSpec => []NewestFirst
<1>1. RingInv => NewestFirst
  <2> SUFFICES ASSUME RingInv, NEW limit \in -1..Capacity
      PROVE LET n == Len(kept)
                size == IF n < Capacity THEN n ELSE Capacity
                asked == IF limit >= 0 /\ limit < size THEN limit ELSE size
            IN  Entries(limit) = [i \in 1..asked |-> kept[n - i + 1]]
    BY Zenon DEF NewestFirst
  <2> DEFINE asked == IF limit >= 0 /\ limit < count THEN limit ELSE count
  <2>1. count \in Nat
    BY CapacityAssumption DEF RingInv, RingTypes
  <2>2. \A i \in 1..asked : i \in 1..count
    BY <2>1, CapacityAssumption
  <2>3. Entries(limit) = [i \in 1..asked |-> ring[SlotOf(i)]]
    BY Zenon DEF Entries, SlotOf
  <2>4. \A i \in 1..asked : ring[SlotOf(i)] = kept[Len(kept) - i + 1]
    BY Zenon, <2>2 DEF RingInv
  <2>5. Entries(limit) = [i \in 1..asked |-> kept[Len(kept) - i + 1]]
    BY Zenon, <2>3, <2>4
  <2> QED
    BY Zenon, <2>5 DEF RingInv
<1> QED
  BY InitRing, StepKeepsRing, <1>1, PTL DEF SlowlogSpec

-----------------------------------------------------------------------------
(* Entries of a stream.                                                    *)

INSTANCE WellFoundedInduction

\* The search between lo and hi when the entries beyond k are the ones sought;
\* f is what it returns for the smaller ranges.
Middle(r) == (r[1] + r[2]) \div 2
Halving(n, k, f) ==
    [r \in (0..n) \X (0..n) |->
        IF r[1] >= r[2] THEN r[1]
        ELSE IF Middle(r) + 1 > k THEN f[<<r[1], Middle(r)>>]
        ELSE f[<<Middle(r) + 1, r[2]>>]]

\* The middle of a range lies in it, and both halves are smaller.
LEMMA MiddleIsBetween ==
  ASSUME NEW n \in Nat, NEW r \in (0..n) \X (0..n), r[1] < r[2]
  PROVE  /\ Middle(r) \in 0..n /\ Middle(r) + 1 \in 1..n
         /\ r[1] <= Middle(r) /\ Middle(r) < r[2]
<1>1. ASSUME NEW a \in 0..n, NEW b \in 0..n, a < b
      PROVE  LET m == (a + b) \div 2 IN m \in 0..n /\ m + 1 \in 1..n /\ a <= m /\ m < b
  BY <1>1
<1>2. r[1] \in 0..n /\ r[2] \in 0..n
  OBVIOUS
<1> QED
  BY Zenon, <1>1, <1>2 DEF Middle

\* There is such a search: it returns k, or the end of the range next to it.
LEMMA HalvingExists ==
  ASSUME NEW n \in Nat, NEW k \in 0..n
  PROVE  \E f : f = Halving(n, k, f)
<1> DEFINE D == (0..n) \X (0..n)
<1> DEFINE near(lo, hi) == IF lo >= hi \/ k <= lo THEN lo ELSE IF k >= hi THEN hi ELSE k
<1> DEFINE g == [r \in D |-> near(r[1], r[2])]
<1>1. ASSUME NEW r \in D
      PROVE  near(r[1], r[2]) =
                IF r[1] >= r[2] THEN r[1]
                ELSE IF Middle(r) + 1 > k THEN g[<<r[1], Middle(r)>>]
                ELSE g[<<Middle(r) + 1, r[2]>>]
  <2>1. r[1] \in 0..n /\ r[2] \in 0..n
    BY SMTT(40)
  <2>2. CASE r[1] >= r[2]
    BY <2>1, <2>2
  <2>3. CASE r[1] < r[2]
    <3>1. /\ Middle(r) \in 0..n /\ Middle(r) + 1 \in 1..n
          /\ r[1] <= Middle(r) /\ Middle(r) < r[2]
      BY Zenon, <2>3, MiddleIsBetween
    <3>2. Middle(r) + 1 \in 0..n
      BY SMTT(40), <3>1
    <3>3. /\ g[<<r[1], Middle(r)>>] = near(r[1], Middle(r))
          /\ g[<<Middle(r) + 1, r[2]>>] = near(Middle(r) + 1, r[2])
      BY SMTT(40), <2>1, <3>1, <3>2
    <3> HIDE DEF g
    <3>4. Middle(r) + 1 > k => near(r[1], r[2]) = near(r[1], Middle(r))
      BY SMTT(40), <2>1, <2>3, <3>1
    <3>5. ~(Middle(r) + 1 > k) => near(r[1], r[2]) = near(Middle(r) + 1, r[2])
      BY SMTT(40), <2>1, <2>3, <3>1
    <3>6. ~(r[1] >= r[2])
      BY SMTT(40), <2>1, <2>3
    <3> QED
      BY Zenon, <3>3, <3>4, <3>5, <3>6
  <2> QED
    BY <2>1, <2>2, <2>3
<1> HIDE DEF near
<1>2. g = Halving(n, k, g)
  BY Zenon, <1>1 DEF Halving
<1> QED
  BY ZenonT(40), <1>2

\* A set of natural numbers that is not empty has a least element.
LEMMA LeastNatural ==
  ASSUME NEW T \in SUBSET Nat, T # {}
  PROVE  \E x \in T : \A y \in T : x <= y
<1> DEFINE less == {p \in Nat \X Nat : p[1] < p[2]}
<1>1. IsWellFoundedOn(less, Nat)
  BY Zenon, NatLessThanWellFounded DEF OpToRel
<1>2. \A x, y \in Nat : <<y, x>> \notin less => x <= y
  OBVIOUS
<1> HIDE DEF less
<1>3. \E x \in T : \A y \in T : <<y, x>> \notin less
  BY Zenon, <1>1, WFMin
<1> QED
  BY Zenon, <1>2, <1>3

\* Whatever the search, from a range around k it ends at k.
LEMMA HalvingFinds ==
  ASSUME NEW n \in Nat, NEW k \in 0..n, NEW f, f = Halving(n, k, f)
  PROVE  f[<<0, n>>] = k
<1> DEFINE D == (0..n) \X (0..n)
<1> DEFINE Around(r) == r[1] <= k /\ k <= r[2]
<1> DEFINE T == {m \in Nat : \E r \in D : Around(r) /\ m = r[2] - r[1] /\ f[r] # k}
<1>1. ASSUME T # {} PROVE FALSE
  <2>1. PICK m \in T : \A y \in T : m <= y
    <3>1. T \in SUBSET Nat
      BY Zenon
    <3> QED
      BY Zenon, <1>1, <3>1, LeastNatural
  <2>2. PICK r \in D : Around(r) /\ m = r[2] - r[1] /\ f[r] # k
    BY Zenon, <2>1
  <2>3. r[1] \in 0..n /\ r[2] \in 0..n
    BY Zenon, <2>2
  <2>4. f[r] = IF r[1] >= r[2] THEN r[1]
               ELSE IF Middle(r) + 1 > k THEN f[<<r[1], Middle(r)>>]
               ELSE f[<<Middle(r) + 1, r[2]>>]
    <3>1. Halving(n, k, f)[r] =
             IF r[1] >= r[2] THEN r[1]
             ELSE IF Middle(r) + 1 > k THEN f[<<r[1], Middle(r)>>]
             ELSE f[<<Middle(r) + 1, r[2]>>]
      BY Zenon DEF Halving
    <3> QED
      BY Zenon, <3>1
  <2>5. ASSUME NEW q \in D, Around(q), q[2] - q[1] < r[2] - r[1], q[2] - q[1] \in Nat PROVE f[q] = k
    <3>1. SUFFICES ASSUME f[q] # k PROVE FALSE
      BY Zenon
    <3>2. q[2] - q[1] \in T
      BY Zenon, <2>5, <3>1
    <3>3. m <= q[2] - q[1]
      BY Zenon, <2>1, <3>2
    <3> HIDE DEF T
    <3> QED
      BY <2>2, <2>3, <2>5, <3>3
  <2> HIDE DEF T
  <2>6. CASE r[1] >= r[2]
    BY <2>2, <2>3, <2>4, <2>6
  <2>7. CASE r[1] < r[2]
    <3>1. /\ Middle(r) \in 0..n /\ Middle(r) + 1 \in 1..n
          /\ r[1] <= Middle(r) /\ Middle(r) < r[2]
      BY Zenon, <2>7, MiddleIsBetween
    <3>2. Middle(r) + 1 \in 0..n /\ ~(r[1] >= r[2])
      BY <2>3, <2>7, <3>1
    <3>3. CASE Middle(r) + 1 > k
      <4> DEFINE q == <<r[1], Middle(r)>>
      <4>1. q \in D /\ q[1] = r[1] /\ q[2] = Middle(r)
        BY Zenon, <2>3, <3>1
      <4> HIDE DEF q
      <4>2. Around(q) /\ q[2] - q[1] < r[2] - r[1] /\ q[2] - q[1] \in Nat
        BY SMTT(40), <2>2, <2>3, <3>1, <3>3, <4>1
      <4>3. f[q] = k
        BY Zenon, <2>5, <4>1, <4>2
      <4>4. f[r] = f[q]
        BY Zenon, <2>4, <3>2, <3>3 DEF q
      <4> QED
        BY Zenon, <2>2, <4>3, <4>4
    <3>4. CASE ~(Middle(r) + 1 > k)
      <4> DEFINE q == <<Middle(r) + 1, r[2]>>
      <4>1. q \in D /\ q[1] = Middle(r) + 1 /\ q[2] = r[2]
        BY Zenon, <2>3, <3>2
      <4> HIDE DEF q
      <4>2. Around(q) /\ q[2] - q[1] < r[2] - r[1] /\ q[2] - q[1] \in Nat
        BY SMTT(40), <2>2, <2>3, <3>1, <3>4, <4>1
      <4>3. f[q] = k
        BY Zenon, <2>5, <4>1, <4>2
      <4>4. f[r] = f[q]
        BY Zenon, <2>4, <3>2, <3>4 DEF q
      <4> QED
        BY Zenon, <2>2, <4>3, <4>4
    <3> QED
      BY Zenon, <3>3, <3>4
  <2> QED
    BY SMTT(40), <2>3, <2>6, <2>7
<1>2. SUFFICES ASSUME f[<<0, n>>] # k PROVE FALSE
  BY Zenon
<1> DEFINE r == <<0, n>>
<1>3. r \in D /\ Around(r) /\ n = r[2] - r[1]
  OBVIOUS
<1>4. n \in T
  BY Zenon, <1>2, <1>3
<1> QED
  BY Zenon, <1>1, <1>4

Times == [ms : Int, seq : Int]

\* The entries are numbered as add found them: the last one's ID is lastID, and
\* while no sequence ran over they ascend.
EntriesInv ==
    /\ entries \in Seq(Times) /\ lastID \in Times /\ hasEntries \in BOOLEAN
    /\ hasEntries <=> Len(entries) > 0
    /\ hasEntries => lastID = entries[Len(entries)]
    /\ NoWrap => \A i, j \in 1..Len(entries) : i < j => IDLess(entries[i], entries[j])

\* The order of IDs is transitive.
LEMMA LaterIsTransitive ==
  ASSUME NEW x \in Times, NEW y \in Times, NEW z \in Times, IDLess(x, y), IDLess(y, z)
  PROVE  IDLess(x, z)
  BY DEF IDLess, Times

\* In ascending entries, the ones after an ID are the ones beyond some point.
LEMMA LaterOnesAreBehind ==
  ASSUME NEW s \in Seq(Times), NEW id \in Times,
         \A i, j \in 1..Len(s) : i < j => IDLess(s[i], s[j])
  PROVE  \E k \in 0..Len(s) : \A i \in 1..Len(s) : IDLess(id, s[i]) <=> i > k
<1> DEFINE n == Len(s)
<1> DEFINE T == {i \in 1..n : IDLess(id, s[i])}
<1>1. n \in Nat /\ \A i \in 1..n : s[i] \in Times
  OBVIOUS
<1>2. CASE T = {}
  <2>1. n \in 0..Len(s) /\ \A i \in 1..n : ~(i > n)
    BY <1>1
  <2> QED
    BY Zenon, <1>2, <2>1
<1>3. CASE T # {}
  <2>1. T \in SUBSET Nat
    BY <1>1
  <2>2. PICK k \in T : \A y \in T : k <= y
    BY Zenon, <1>3, <2>1, LeastNatural
  <2>3. k \in 1..n /\ IDLess(id, s[k])
    BY Zenon, <2>2
  <2>4. k - 1 \in 0..Len(s)
    BY SMTT(40), <1>1, <2>3
  <2>5. ASSUME NEW i \in 1..n PROVE IDLess(id, s[i]) <=> i > k - 1
    <3>1. CASE i < k
      <4>1. i \notin T
        <5>1. i \in T => k <= i
          BY Zenon, <2>2
        <5> HIDE DEF T
        <5> QED
          BY <1>1, <2>3, <3>1, <5>1
      <4>2. ~(i > k - 1)
        BY <1>1, <2>3, <3>1
      <4> QED
        BY Zenon, <4>1, <4>2
    <3>2. CASE i = k
      <4>1. i > k - 1
        BY <1>1, <2>3, <3>2
      <4> QED
        BY Zenon, <2>3, <3>2, <4>1
    <3>3. CASE i > k
      <4>1. i > k - 1 /\ k < i
        BY <1>1, <2>3, <3>3
      <4>2. IDLess(s[k], s[i])
        BY Zenon, <2>3, <4>1
      <4> QED
        BY Zenon, <1>1, <2>3, <4>1, <4>2, LaterIsTransitive
    <3> QED
      BY SMTT(40), <1>1, <2>3, <3>1, <3>2, <3>3
  <2> QED
    BY Zenon, <2>4, <2>5
<1> QED
  BY Zenon, <1>2, <1>3

\* The binary search finds that point.
LEMMA SearchIsRight ==
  ASSUME EntriesInv, NoWrap, NEW id \in Times
  PROVE  /\ FirstAfter(id) \in 0..Len(entries)
         /\ \A i \in 1..Len(entries) : IDLess(id, entries[i]) <=> i > FirstAfter(id)
<1> DEFINE n == Len(entries)
<1> DEFINE D == (0..n) \X (0..n)
<1> DEFINE F(f) == [r \in D |->
                      IF r[1] >= r[2] THEN r[1]
                      ELSE IF IDLess(id, entries[Middle(r) + 1]) THEN f[<<r[1], Middle(r)>>]
                      ELSE f[<<Middle(r) + 1, r[2]>>]]
<1>1. n \in Nat
  BY DEF EntriesInv
<1>2. PICK k \in 0..n : \A i \in 1..n : IDLess(id, entries[i]) <=> i > k
  BY Zenon, LaterOnesAreBehind DEF EntriesInv
<1>3. FirstAfter(id) = (CHOOSE f : f = F(f))[<<0, n>>]
  BY Zenon DEF FirstAfter, Middle
<1>4. ASSUME NEW f PROVE F(f) = Halving(n, k, f)
  <2>1. \A r \in D : ~(r[1] >= r[2]) => (IDLess(id, entries[Middle(r) + 1]) <=> Middle(r) + 1 > k)
    <3> SUFFICES ASSUME NEW r \in D, ~(r[1] >= r[2])
        PROVE  IDLess(id, entries[Middle(r) + 1]) <=> Middle(r) + 1 > k
      BY Zenon
    <3>1. r[1] < r[2]
      BY <1>1
    <3>2. Middle(r) + 1 \in 1..n
      BY Zenon, <1>1, <3>1, MiddleIsBetween
    <3> QED
      BY Zenon, <1>2, <3>2
  <2>2. \A r \in D :
          (IF r[1] >= r[2] THEN r[1]
           ELSE IF IDLess(id, entries[Middle(r) + 1]) THEN f[<<r[1], Middle(r)>>]
           ELSE f[<<Middle(r) + 1, r[2]>>])
          = (IF r[1] >= r[2] THEN r[1]
             ELSE IF Middle(r) + 1 > k THEN f[<<r[1], Middle(r)>>]
             ELSE f[<<Middle(r) + 1, r[2]>>])
    BY Zenon, <2>1
  <2> QED
    BY Zenon, <2>2 DEF Halving
<1> HIDE DEF F, n
<1> DEFINE g == CHOOSE f : f = F(f)
<1>5. \E f : f = F(f)
  BY Zenon, <1>1, <1>4, HalvingExists
<1>6. g = F(g)
  BY Zenon, <1>5
<1> HIDE DEF g
<1>7. g = Halving(n, k, g)
  BY Zenon, <1>4, <1>6
<1>8. g[<<0, n>>] = k
  BY Zenon, <1>1, <1>7, HalvingFinds
<1> QED
  BY Zenon, <1>2, <1>3, <1>8 DEF g, n

\* A new stream has no entries.
LEMMA InitEntries == StreamInit => EntriesInv
<1> SUFFICES ASSUME StreamInit PROVE EntriesInv
  BY Zenon
<1>1. entries \in Seq(Times) /\ Len(entries) = 0
  BY DEF StreamInit
<1>2. lastID \in Times
  BY DEF StreamInit, ID, Times
<1>3. ~(0 > 0) /\ ~\E i \in 1..0 : TRUE
  OBVIOUS
<1> QED
  BY Zenon, <1>1, <1>2, <1>3 DEF StreamInit, EntriesInv

\* An entry whose ID is larger than lastID, or whose sequence ran over.
LEMMA AppendedInOrder ==
  ASSUME EntriesInv, NEW id \in Times, Appended(id),
         hasEntries /\ id.seq >= 0 => IDLess(lastID, id)
  PROVE  EntriesInv'
<1> DEFINE n == Len(entries)
<1>1. /\ entries \in Seq(Times) /\ entries' = Append(entries, id)
      /\ lastID' = id /\ hasEntries' = TRUE
  BY Zenon DEF EntriesInv, Appended
<1>2. /\ entries' \in Seq(Times) /\ n \in Nat /\ Len(entries') = n + 1
      /\ entries'[n + 1] = id
      /\ \A i \in 1..n : entries'[i] = entries[i]
  <2>1. /\ Append(entries, id) \in Seq(Times) /\ n \in Nat /\ Len(Append(entries, id)) = n + 1
        /\ Append(entries, id)[n + 1] = id
        /\ \A i \in 1..n : Append(entries, id)[i] = entries[i]
    BY ONLY <1>1, id \in Times, OneMore
  <2> QED
    BY Zenon, <1>1, <2>1
<1> HIDE DEF n
<1>3. DOMAIN entries' = 1..n + 1 /\ DOMAIN entries = 1..n
  <2>1. DOMAIN entries' = 1..Len(entries') /\ DOMAIN entries = 1..Len(entries)
    BY <1>1, <1>2
  <2> QED
    BY Zenon, <1>2, <2>1 DEF n
<1>4. ASSUME NoWrap', NEW i \in 1..n + 1, NEW j \in 1..n + 1, i < j
      PROVE  IDLess(entries'[i], entries'[j])
  <2>1. i \in 1..n /\ (j \in 1..n \/ j = n + 1)
    BY ONLY SMTT(40), <1>4, <1>2
  <2>2. \A h \in 1..n : h \in 1..n + 1
    BY ONLY <1>2
  <2>3. NoWrap
    BY Zenon, <1>2, <1>3, <1>4, <2>2 DEF NoWrap
  <2>4. \A h, l \in 1..n : h < l => IDLess(entries[h], entries[l])
    BY Zenon, <2>3 DEF EntriesInv, n
  <2>5. CASE j \in 1..n
    BY Zenon, <1>2, <1>4, <2>1, <2>4, <2>5
  <2>6. CASE j = n + 1
    <3>1. n + 1 \in 1..n + 1 /\ n \in 1..n /\ n > 0 /\ (i = n \/ i < n)
      BY ONLY <1>2, <2>1
    <3>2. id.seq >= 0
      BY Zenon, <1>2, <1>3, <1>4, <3>1 DEF NoWrap
    <3>3. IDLess(entries[n], id)
      BY ZenonT(40), <3>1, <3>2 DEF EntriesInv, n
    <3>4. entries[i] \in Times /\ entries[n] \in Times
      BY <1>1, <2>1, <3>1 DEF n
    <3>5. IDLess(entries[i], id)
      BY ZenonT(40), <2>1, <2>4, <3>1, <3>3, <3>4, LaterIsTransitive
    <3> QED
      BY Zenon, <1>2, <2>1, <2>6, <3>5
  <2> QED
    BY Zenon, <2>1, <2>5, <2>6
<1>5. n + 1 > 0
  BY <1>2
<1> QED
  BY Zenon, <1>1, <1>2, <1>4, <1>5 DEF EntriesInv

\* Every step keeps the entries in order.
LEMMA StepKeepsEntries == EntriesInv /\ [StreamNext]_streamVars => EntriesInv'
<1> SUFFICES ASSUME EntriesInv, [StreamNext]_streamVars PROVE EntriesInv'
  BY Zenon
<1>1. CASE AddAuto
  <2>1. PICK ms \in Millis : Appended(NextAutoID(ms))
    BY Zenon, <1>1 DEF AddAuto
  <2>2. ms \in Int
    BY SMTT(40), MaxMillisAssumption DEF Millis
  <2>3. /\ NextAutoID(ms) \in Times
        /\ hasEntries /\ NextAutoID(ms).seq >= 0 => IDLess(lastID, NextAutoID(ms))
    BY SMTT(40), <2>2, SeqMaxAssumption DEF NextAutoID, Successor, ID, IDLess, Times, EntriesInv
  <2> QED
    BY Zenon, <2>1, <2>3, AppendedInOrder
<1>2. CASE AddGiven
  <2>1. PICK id \in GivenIDs : ~TooSmall(id) /\ Appended(id)
    BY Zenon, <1>2 DEF AddGiven
  <2>2. id \in Times
    BY MaxMillisAssumption, SeqMaxAssumption DEF GivenIDs, Millis, ID, Times
  <2> QED
    BY Zenon, <2>1, <2>2, AppendedInOrder DEF TooSmall
<1>3. CASE UNCHANGED streamVars
  BY Zenon, <1>3 DEF streamVars, EntriesInv, NoWrap
<1> QED
  BY Zenon, <1>1, <1>2, <1>3 DEF StreamNext

\* A reader of a stream misses nothing, for every width of the sequences:
\* entries ascend whatever the clock and the clients do, and the binary search
\* of XREAD finds exactly the ones after an ID (add, nextAutoID and entriesAfter
\* of stream.go).
THEOREM StreamReadersMissNothing == StreamSpec => []ReadersMissNothing
<1>1. EntriesInv => ReadersMissNothing
  <2> SUFFICES ASSUME EntriesInv, NoWrap PROVE ReadersMissNothing
    BY Zenon DEF ReadersMissNothing
  <2>1. entries \in Seq(Times) /\ DOMAIN entries = 1..Len(entries) /\ Len(entries) \in Nat
    BY DEF EntriesInv
  <2>2. /\ \A i, j \in DOMAIN entries : i < j => IDLess(entries[i], entries[j])
        /\ hasEntries => lastID = entries[Len(entries)]
    BY Zenon, <2>1 DEF EntriesInv
  <2>3. ASSUME NEW id \in GivenIDs
        PROVE  LET read == EntriesAfter(id)
                   skipped == Len(entries) - Len(read)
               IN  /\ \A i \in DOMAIN entries : IDLess(id, entries[i]) <=> i > skipped
                   /\ \A i \in DOMAIN read : read[i] = entries[skipped + i]
    <3> DEFINE k == FirstAfter(id)
    <3> DEFINE read == EntriesAfter(id)
    <3>1. id \in Times
      BY MaxMillisAssumption, SeqMaxAssumption DEF GivenIDs, Millis, ID, Times
    <3>2. k \in 0..Len(entries) /\ \A i \in 1..Len(entries) : IDLess(id, entries[i]) <=> i > k
      BY Zenon, <3>1, SearchIsRight
    <3>3. read = SubSeq(entries, k + 1, Len(entries))
      BY Zenon DEF EntriesAfter
    <3> HIDE DEF k, read
    <3>4. Len(entries) - Len(read) = k /\ \A i \in DOMAIN read : read[i] = entries[k + i]
      BY ONLY Zenon, <2>1, <3>2, <3>3, TheRest
    <3> QED
      BY Zenon, <2>1, <3>2, <3>4 DEF read
  <2> QED
    BY Zenon, <2>2, <2>3 DEF ReadersMissNothing
<1> QED
  BY InitEntries, StepKeepsEntries, <1>1, PTL DEF StreamSpec
=============================================================================
