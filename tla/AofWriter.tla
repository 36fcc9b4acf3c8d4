----------------------------- MODULE AofWriter -----------------------------
(***************************************************************************)
(* The append-only file of the server: the write path of a mutation        *)
(* (internal/server/handler.go, internal/server/aof.go), the writer with   *)
(* its three fsync policies and its background rewrite                     *)
(* (internal/aof/writer.go), and the loader that replays the file after a  *)
(* crash or a shutdown (internal/aof/loader.go).                           *)
(*                                                                         *)
(* A mutation is an element of Ops: it is applied to the keyspace once, by *)
(* one connection goroutine, and then appended under Writer.mu.  A file is *)
(* a sequence of entries: {op} for the RESP frame of op, a set of          *)
(* mutations for the command stream a rewrite generates from the keyspace, *)
(* Torn for a frame of which only a first part reached the disk.           *)
(***************************************************************************)
EXTENDS Naturals, Sequences

CONSTANTS
    Ops,          \* the mutations clients issue
    Policy,       \* appendfsync: "always", "everysec" or "no"
    Faults,       \* the operations of the operating system that may fail
    Torn,         \* the entry left by a frame that was cut
    MaxCrashes,   \* bound on the number of crashes
    MaxStops,     \* bound on the number of graceful shutdowns
    MaxRewrites   \* bound on the number of BGREWRITEAOF commands

\* Every call of the writer that can return an error.  "torn" stands for a
\* write that the file keeps only in part; "dirsync" for the fsync of the
\* directory that follows the rename.
FaultPoints == {"flush", "sync", "torn", "create", "generate", "tempwrite",
                "tempsync", "closeold", "rename", "dirsync", "reopen"}

Policies == {"always", "everysec", "no"}

\* Holders of Writer.mu other than a mutation's goroutine.
Holders == {"free", "ticker", "rewriter"}

ASSUME PolicyAssumption == Policy \in Policies
ASSUME FaultsAssumption == Faults \subseteq FaultPoints
ASSUME TornAssumption == \A entry \in SUBSET Ops : entry # Torn
ASSUME OpsAssumption == Ops \cap Holders = {}
ASSUME BoundsAssumption == /\ MaxCrashes \in Nat
                           /\ MaxStops \in Nat
                           /\ MaxRewrites \in Nat

VARIABLES
    phase,          \* "up", "stopping" once the server's context is cancelled,
                    \* "down", or "refused": the startup failed on the file
    pc,             \* progress of each mutation through executeClientRequest
    store,          \* the mutations the in-memory keyspace reflects
    disk,           \* the file at Writer.path, as a process reads it
    synced,         \* length of the fsynced prefix of disk
    stale,          \* files the directory entry may name again after a crash
    buf,            \* the frames in Writer.writer, the bufio.Writer
    handle,         \* Writer.file and the error its bufio.Writer keeps: see Handles
    mu,             \* the holder of Writer.mu
    rw,             \* progress of the goroutine runRewrite
    rewriteMode,    \* Writer.rewritePending and Writer.rewriteActive
    rewriteBuffer,  \* Writer.rewriteBuffer
    snap,           \* the keyspace the rewrite snapshotted at its barrier
    temp,           \* contents of the rewrite's temporary file
    lost,           \* acknowledged mutations a restart did not find
    crashes, stops, rewrites

writerVars == <<buf, handle, mu>>
fileVars == <<disk, synced, stale>>
rewriteVars == <<rw, rewriteMode, rewriteBuffer, snap, temp>>
serverVars == <<phase, lost, crashes, stops, rewrites>>
vars == <<serverVars, pc, store, fileVars, writerVars, rewriteVars>>

FileEntries == (SUBSET Ops) \cup {Torn}
Files == [data : Seq(FileEntries), synced : Nat]

PcValues == {"new", "executed", "written", "flushed", "acked", "failed", "cut"}
RwValues == {"none", "spawned", "created", "snapped", "generated",
             "tempsync", "closeold", "rename", "dirsync", "reopen"}

\* "ok"; "stuck": the bufio.Writer keeps an error and refuses every write;
\* "closed": Writer.file is closed, which no write has noticed yet; "dead": both.
Handles == {"ok", "stuck", "closed", "dead"}
AfterClose(h) == IF h \in {"ok", "closed"} THEN "closed" ELSE "dead"

InFlight == {op \in Ops : pc[op] \in {"executed", "written", "flushed"}}
Acked == {op \in Ops : pc[op] = "acked"}

\* LoadFile stops at the first frame it cannot complete: an entry is replayed
\* when no torn frame precedes it.
Replayed(s) == {i \in 1..Len(s) : \A j \in 1..i : s[j] # Torn}
OpsOf(s) == {op \in Ops : \E i \in Replayed(s) : op \in s[i]}

Deferred == Policy # "always"

\* The process runs; a stopping server still completes what it has begun.
Running == phase \in {"up", "stopping"}

-----------------------------------------------------------------------------
Init ==
    /\ phase = "up"
    /\ pc = [op \in Ops |-> "new"]
    /\ store = {}
    /\ disk = <<>>
    /\ synced = 0
    /\ stale = {}
    /\ buf = <<>>
    /\ handle = "ok"
    /\ mu = "free"
    /\ rw = "none"
    /\ rewriteMode = "idle"
    /\ rewriteBuffer = <<>>
    /\ snap = {}
    /\ temp = <<>>
    /\ lost = {}
    /\ crashes = 0
    /\ stops = 0
    /\ rewrites = 0

-----------------------------------------------------------------------------
(* The write path of a mutation.                                           *)

\* ExecuteDetailed: the handler changes the keyspace under its shard lock and
\* returns the durability frame.  Writer.mu is not involved.  A request read
\* before the shutdown is still executed after it.
Execute(op) ==
    /\ Running
    /\ pc[op] = "new"
    /\ pc' = [pc EXCEPT ![op] = "executed"]
    /\ store' = store \cup {op}
    /\ UNCHANGED <<serverVars, fileVars, writerVars, rewriteVars>>

\* What a connection answers when the append returned an error: under
\* "always" the reply becomes a persistence failure and nothing is
\* propagated, otherwise the error is only logged.
AppendFailed(op) == pc' = [pc EXCEPT ![op] = IF Deferred THEN "acked" ELSE "failed"]

\* A write of the frames s that fails: only a first part of them reaches the
\* file, the last one possibly cut.
PartialWrite(s) ==
    \E n \in 0..Len(s), cut \in BOOLEAN :
       /\ n < Len(s)
       /\ cut => "torn" \in Faults
       /\ disk' = disk \o SubSeq(s, 1, n) \o IF cut THEN <<Torn>> ELSE <<>>

\* bufio.Writer writes the frames s and fails.  It keeps the error from then
\* on, so that what it still holds can never be written.
FlushError(s) ==
    /\ \/ /\ handle = "ok" /\ "flush" \in Faults
          /\ PartialWrite(s)
          /\ handle' = "stuck"
       \/ /\ handle = "closed"
          /\ UNCHANGED disk
          /\ handle' = "dead"
    /\ buf' = <<>>

\* bufio.Writer.Write and, during a rewrite, the copy into rewriteBuffer.  The
\* frame fits in the buffer, or the older frames are written first to make
\* room, or a frame larger than the buffer goes to the file directly.
BufferFrame(op) ==
    /\ \/ /\ buf' = Append(buf, {op})
          /\ UNCHANGED disk
       \/ /\ handle = "ok" /\ buf # <<>>
          /\ disk' = disk \o buf
          /\ buf' = <<{op}>>
       \/ /\ handle = "ok"
          /\ disk' = disk \o Append(buf, {op})
          /\ buf' = <<>>
    /\ rewriteBuffer' = IF rewriteMode = "active"
                          THEN Append(rewriteBuffer, {op})
                          ELSE rewriteBuffer

\* Writer.append up to the flush: "everysec" returns with the frame in the
\* buffer, the two other policies go on to flush it with Writer.mu held.
WriteFrame(op) ==
    /\ Running /\ mu = "free"
    /\ pc[op] = "executed"
    /\ handle \in {"ok", "closed"}
    /\ BufferFrame(op)
    /\ IF Policy = "everysec"
         THEN pc' = [pc EXCEPT ![op] = "acked"] /\ UNCHANGED mu
         ELSE pc' = [pc EXCEPT ![op] = "written"] /\ mu' = op
    /\ UNCHANGED <<serverVars, store, synced, stale, handle, rw, rewriteMode, snap,
                   temp>>

\* Writer.append returns early because the bufio.Writer reports an error, a
\* new one (the flush of a full buffer failed) or the one it has kept.
WriteFrameFails(op) ==
    /\ Running /\ mu = "free"
    /\ pc[op] = "executed"
    /\ \/ handle \in {"stuck", "dead"} /\ UNCHANGED <<disk, buf, handle>>
       \/ FlushError(Append(buf, {op}))
    /\ AppendFailed(op)
    /\ UNCHANGED <<serverVars, store, synced, stale, mu, rewriteVars>>

\* flushLocked, for the goroutine that holds Writer.mu.
Flush(op) ==
    /\ mu = op /\ pc[op] = "written"
    /\ handle = "ok"
    /\ disk' = disk \o buf
    /\ buf' = <<>>
    /\ IF Policy = "no"
         THEN pc' = [pc EXCEPT ![op] = "acked"] /\ mu' = "free"
         ELSE pc' = [pc EXCEPT ![op] = "flushed"] /\ UNCHANGED mu
    /\ UNCHANGED <<serverVars, store, synced, stale, handle, rewriteVars>>

FlushFails(op) ==
    /\ mu = op /\ pc[op] = "written"
    /\ buf # <<>> /\ FlushError(buf)
    /\ AppendFailed(op)
    /\ mu' = "free"
    /\ UNCHANGED <<serverVars, store, synced, stale, rewriteVars>>

\* syncLocked after the flush; the reply and the propagation follow.
Sync(op) ==
    /\ mu = op /\ pc[op] = "flushed"
    /\ synced' = Len(disk)
    /\ pc' = [pc EXCEPT ![op] = "acked"]
    /\ mu' = "free"
    /\ UNCHANGED <<serverVars, store, disk, stale, buf, handle, rewriteVars>>

SyncFails(op) ==
    /\ "sync" \in Faults
    /\ mu = op /\ pc[op] = "flushed"
    /\ pc' = [pc EXCEPT ![op] = "failed"]
    /\ mu' = "free"
    /\ UNCHANGED <<serverVars, store, fileVars, buf, handle, rewriteVars>>

-----------------------------------------------------------------------------
(* runEverysec: once a second, flush and fsync.                            *)

\* Mutant of TickFlush: the ticker fsyncs the file but skips the bufio flush.
TickWithoutFlush ==
    /\ Running /\ Policy = "everysec"
    /\ mu = "free" /\ handle = "ok"
    /\ synced < Len(disk \o buf)
    /\ mu' = "ticker"
    /\ UNCHANGED <<serverVars, pc, store, fileVars, buf, handle, rewriteVars>>

\* Mutant of TickFlush: the ticker does nothing when the buffer is empty, and
\* so does not repeat an fsync that failed.
TickOnlyWithBuffer ==
    /\ Running /\ Policy = "everysec"
    /\ mu = "free" /\ handle = "ok"
    /\ buf # <<>>
    /\ disk' = disk \o buf
    /\ buf' = <<>>
    /\ mu' = "ticker"
    /\ UNCHANGED <<serverVars, pc, store, synced, stale, handle, rewriteVars>>

TickFlush ==
    /\ Running /\ Policy = "everysec"
    /\ mu = "free" /\ handle = "ok"
    /\ synced < Len(disk \o buf)
    /\ disk' = disk \o buf
    /\ buf' = <<>>
    /\ mu' = "ticker"
    /\ UNCHANGED <<serverVars, pc, store, synced, stale, handle, rewriteVars>>

TickFlushFails ==
    /\ Running /\ Policy = "everysec"
    /\ mu = "free"
    /\ buf # <<>> /\ FlushError(buf)
    /\ UNCHANGED <<serverVars, pc, store, synced, stale, mu, rewriteVars>>

TickSync ==
    /\ mu = "ticker"
    /\ synced' = Len(disk)
    /\ mu' = "free"
    /\ UNCHANGED <<serverVars, pc, store, disk, stale, buf, handle, rewriteVars>>

TickSyncFails ==
    /\ "sync" \in Faults
    /\ mu = "ticker"
    /\ mu' = "free"
    /\ UNCHANGED <<serverVars, pc, store, fileVars, buf, handle, rewriteVars>>

-----------------------------------------------------------------------------
(* BGREWRITEAOF.  A stopping server lets the rewrite give up at its next   *)
(* check; it goes on when serve failed and the context is not cancelled.   *)

BeginRewrite ==
    /\ Running /\ mu = "free"
    /\ rewriteMode = "idle"
    /\ rewrites < MaxRewrites
    /\ rewrites' = rewrites + 1
    /\ rewriteMode' = "pending"
    /\ rw' = "spawned"
    /\ UNCHANGED <<phase, lost, crashes, stops, pc, store, fileVars,
                   writerVars, rewriteBuffer, snap, temp>>

\* clearRewriteStateLocked; the goroutine then removes its temporary file and
\* ends.
ClearRewriteState(active) ==
    /\ rewriteBuffer' = IF active THEN <<>> ELSE rewriteBuffer
    /\ rewriteMode' = "idle"
    /\ rw' = "none"
    /\ temp' = <<>>
    /\ snap' = {}

\* Mutant of RewriteGivesUpEarly: the early return forgets rewritePending.
GivesUpWithoutClearing ==
    /\ rw = "spawned" /\ mu = "free"
    /\ phase = "stopping" \/ "create" \in Faults
    /\ rw' = "none"
    /\ UNCHANGED <<serverVars, pc, store, fileVars, writerVars, rewriteMode,
                   rewriteBuffer, snap, temp>>

\* runRewrite gives up before the barrier: the server is stopping, or the
\* temporary file cannot be created.
RewriteGivesUpEarly ==
    /\ rw = "spawned" /\ mu = "free"
    /\ phase = "stopping" \/ "create" \in Faults
    /\ ClearRewriteState(FALSE)
    /\ UNCHANGED <<serverVars, pc, store, fileVars, writerVars>>

CreateTemp ==
    /\ rw = "spawned"
    /\ rw' = "created"
    /\ UNCHANGED <<serverVars, pc, store, fileVars, writerVars, rewriteMode,
                   rewriteBuffer, snap, temp>>

\* Mutant of Snapshot: rewritePending stays set beside rewriteActive.
BarrierKeepsPending ==
    /\ rw = "created" /\ mu = "free"
    /\ snap' = store
    /\ rewriteMode' = "pending and active"
    /\ rewriteBuffer' = <<>>
    /\ rw' = "snapped"
    /\ UNCHANGED <<serverVars, pc, store, fileVars, writerVars, temp>>

\* SnapshotAllWithWriteBarrier: every shard is write-locked, so no mutation
\* is applied between the snapshot and the switch of rewriteMode.  The
\* barrier finds the writer open: Close waits for this goroutine.
Snapshot ==
    /\ rw = "created" /\ mu = "free"
    /\ snap' = store
    /\ rewriteMode' = "active"
    /\ rewriteBuffer' = <<>>
    /\ rw' = "snapped"
    /\ UNCHANGED <<serverVars, pc, store, fileVars, writerVars, temp>>

RewriteGivesUpLate ==
    /\ rw = "snapped" /\ mu = "free"
    /\ phase = "stopping" \/ "generate" \in Faults
    /\ ClearRewriteState(TRUE)
    /\ UNCHANGED <<serverVars, pc, store, fileVars, writerVars>>

\* GenerateRewrite: commands that rebuild the snapshot, in the temporary file.
GenerateRewrite ==
    /\ rw = "snapped"
    /\ temp' = <<snap>>
    /\ rw' = "generated"
    /\ UNCHANGED <<serverVars, pc, store, fileVars, writerVars, rewriteMode,
                   rewriteBuffer, snap>>

\* Mutant of AppendBufferedRewrite: the frames kept since the barrier are
\* not written behind the generated commands.
FinalizeWithoutBuffer ==
    /\ rw = "generated" /\ mu = "free"
    /\ mu' = "rewriter"
    /\ rw' = "tempsync"
    /\ UNCHANGED <<serverVars, pc, store, fileVars, buf, handle, rewriteMode,
                   rewriteBuffer, snap, temp>>

\* finalizeRewrite holds Writer.mu from here to the end: first the frames
\* appended since the barrier, then fsync and close of the temporary file.
AppendBufferedRewrite ==
    /\ rw = "generated" /\ mu = "free"
    /\ temp' = temp \o rewriteBuffer
    /\ mu' = "rewriter"
    /\ rw' = "tempsync"
    /\ UNCHANGED <<serverVars, pc, store, fileVars, buf, handle, rewriteMode,
                   rewriteBuffer, snap>>

SyncTemp ==
    /\ rw = "tempsync"
    /\ rw' = "closeold"
    /\ UNCHANGED <<serverVars, pc, store, fileVars, writerVars, rewriteMode,
                   rewriteBuffer, snap, temp>>

\* An error in finalizeRewrite before the old file was touched.
FinalizeFails ==
    /\ \/ rw = "generated" /\ mu = "free" /\ "tempwrite" \in Faults
       \/ rw = "tempsync" /\ "tempsync" \in Faults
    /\ mu' = "free"
    /\ ClearRewriteState(TRUE)
    /\ UNCHANGED <<serverVars, pc, store, fileVars, buf, handle>>

\* swapRewriteFileLocked closes the file under the bufio.Writer, whose frames
\* are not flushed.  A file that is closed already cannot be closed again.
CloseOldFile ==
    /\ rw = "closeold"
    /\ handle \in {"ok", "stuck"}
    /\ rw' = "rename"
    /\ UNCHANGED <<serverVars, pc, store, fileVars, writerVars, rewriteMode,
                   rewriteBuffer, snap, temp>>

CloseOldFileFails ==
    /\ rw = "closeold"
    /\ "closeold" \in Faults \/ handle \in {"closed", "dead"}
    /\ handle' = AfterClose(handle)
    /\ mu' = "free"
    /\ ClearRewriteState(TRUE)
    /\ UNCHANGED <<serverVars, pc, store, fileVars, buf>>

\* replaceFile: the rename, then the fsync of the directory.  Until that
\* fsync a crash may bring the old directory entry back.
Rename ==
    /\ rw = "rename"
    /\ stale' = stale \cup {[data |-> disk, synced |-> synced]}
    /\ disk' = temp
    /\ synced' = Len(temp)
    /\ rw' = "dirsync"
    /\ UNCHANGED <<serverVars, pc, store, writerVars, rewriteMode,
                   rewriteBuffer, snap, temp>>

RenameFails ==
    /\ "rename" \in Faults
    /\ rw = "rename"
    /\ rw' = "reopen"
    /\ UNCHANGED <<serverVars, pc, store, fileVars, writerVars, rewriteMode,
                   rewriteBuffer, snap, temp>>

SyncDir ==
    /\ rw = "dirsync"
    /\ stale' = {}
    /\ rw' = "reopen"
    /\ UNCHANGED <<serverVars, pc, store, disk, synced, writerVars, rewriteMode,
                   rewriteBuffer, snap, temp>>

SyncDirFails ==
    /\ "dirsync" \in Faults
    /\ rw = "dirsync"
    /\ rw' = "reopen"
    /\ UNCHANGED <<serverVars, pc, store, fileVars, writerVars, rewriteMode,
                   rewriteBuffer, snap, temp>>

\* reopenAppendOnlyFileLocked, on success and on failure of the replacement:
\* a new bufio.Writer over whatever file the path names.  When the file cannot
\* be opened the old bufio.Writer stays, over the closed file.
Reopen ==
    /\ rw = "reopen"
    /\ \/ handle' = "ok" /\ buf' = <<>>
       \/ "reopen" \in Faults /\ handle' = AfterClose(handle) /\ UNCHANGED buf
    /\ mu' = "free"
    /\ ClearRewriteState(TRUE)
    /\ UNCHANGED <<serverVars, pc, store, fileVars>>

-----------------------------------------------------------------------------
(* Shutdown, crash and restart.                                            *)

\* The context is cancelled: no further command is read.
Stop ==
    /\ phase = "up"
    /\ stops < MaxStops
    /\ stops' = stops + 1
    /\ phase' = "stopping"
    /\ UNCHANGED <<lost, crashes, rewrites, pc, store, fileVars,
                   writerVars, rewriteVars>>

ProcessGone ==
    /\ phase' = "down"
    /\ store' = {}
    /\ buf' = <<>>
    /\ handle' = "ok"
    /\ mu' = "free"
    /\ rw' = "none"
    /\ rewriteMode' = "idle"
    /\ rewriteBuffer' = <<>>
    /\ snap' = {}
    /\ temp' = <<>>

\* Mutant of Close: the writer is closed while handlers still append.
CloseBeforeHandlers ==
    /\ phase = "stopping"
    /\ rw = "none" /\ mu = "free" /\ handle = "ok"
    /\ UNCHANGED <<disk, synced>>
    /\ pc' = [op \in Ops |-> IF op \in InFlight THEN "acked" ELSE pc[op]]
    /\ ProcessGone
    /\ UNCHANGED <<lost, crashes, stops, rewrites, stale>>

\* ListenAndServe after serve returned: the handlers are done, then
\* closeAOFWriter flushes, fsyncs and closes the file.
Close ==
    /\ phase = "stopping"
    /\ InFlight = {} /\ rw = "none" /\ mu = "free"
    /\ \/ /\ handle = "ok"
          /\ disk' = disk \o buf
          /\ \/ synced' = Len(disk \o buf)
             \/ "sync" \in Faults /\ UNCHANGED synced
       \/ /\ handle = "ok" /\ "flush" \in Faults
          /\ PartialWrite(buf)
          /\ UNCHANGED synced
       \/ /\ handle # "ok"
          /\ UNCHANGED <<disk, synced>>
    /\ ProcessGone
    /\ UNCHANGED <<lost, crashes, stops, rewrites, pc, stale>>

\* What the disk may hold of file f after a crash: the fsynced prefix, and
\* any part of what was written later, its last frame possibly cut.  more
\* says that bytes of a further frame may have reached the file.
Survivors(f, more) ==
    {SubSeq(f.data, 1, n) : n \in f.synced..Len(f.data)}
      \cup {Append(SubSeq(f.data, 1, n), Torn) :
               n \in {m \in f.synced..Len(f.data) :
                        "torn" \in Faults /\ (m < Len(f.data) \/ more)}}

CrashImages ==
    Survivors([data |-> disk, synced |-> synced],
              handle = "ok" /\ (buf # <<>> \/ InFlight # {}))
      \cup UNION {Survivors(f, FALSE) : f \in stale}

Crash ==
    /\ Running
    /\ crashes < MaxCrashes
    /\ crashes' = crashes + 1
    /\ disk' \in CrashImages
    /\ synced' = Len(disk')
    /\ stale' = {}
    /\ pc' = [op \in Ops |-> IF op \in InFlight THEN "cut" ELSE pc[op]]
    /\ ProcessGone
    /\ UNCHANGED <<lost, stops, rewrites>>

\* initializePersistence: LoadFile replays the file, and OpenWriter opens it
\* for appending as it is, a torn tail included.  Frames behind a torn one
\* are either given up as its tail or rejected, which stops the startup.
Restart ==
    /\ phase = "down"
    /\ store' = OpsOf(disk)
    /\ lost' = lost \cup (Acked \ OpsOf(disk))
    /\ \/ phase' = "up"
       \/ /\ \E i \in 1..Len(disk) : i < Len(disk) /\ disk[i] = Torn
          /\ phase' = "refused"
    /\ UNCHANGED <<crashes, stops, rewrites, pc, fileVars, writerVars,
                   rewriteVars>>

-----------------------------------------------------------------------------
OpStep(op) ==
    \/ WriteFrame(op) \/ WriteFrameFails(op)
    \/ Flush(op) \/ FlushFails(op)
    \/ Sync(op) \/ SyncFails(op)

Tick == TickFlush \/ TickFlushFails \/ TickSync \/ TickSyncFails

RewriteStep ==
    \/ RewriteGivesUpEarly \/ CreateTemp \/ Snapshot
    \/ RewriteGivesUpLate \/ GenerateRewrite
    \/ AppendBufferedRewrite \/ FinalizeFails \/ SyncTemp
    \/ CloseOldFile \/ CloseOldFileFails
    \/ Rename \/ RenameFails \/ SyncDir \/ SyncDirFails \/ Reopen

Next ==
    \/ \E op \in Ops : Execute(op) \/ OpStep(op)
    \/ Tick
    \/ BeginRewrite \/ RewriteStep
    \/ Stop \/ Close \/ Crash \/ Restart

Spec == Init /\ [][Next]_vars

\* Goroutines that can run do run: the handler of a request, the rewrite, the
\* teardown in ListenAndServe, and the everysec ticker until the context is
\* cancelled (runEverysec then returns; a sync it has begun still ends).
\* Fairness is strong because each of them waits for Writer.mu, and a
\* sync.Mutex hands itself to a waiter that has been starved.  Clients, signals
\* and crashes are free.
Fairness ==
    /\ \A op \in Ops : SF_vars(OpStep(op))
    /\ SF_vars(phase = "up" /\ (TickFlush \/ TickFlushFails))
    /\ SF_vars(TickSync \/ TickSyncFails)
    /\ SF_vars(RewriteStep)
    /\ SF_vars(Close)

FairSpec == Spec /\ Fairness

-----------------------------------------------------------------------------
(* Properties.                                                             *)

\* The variables keep their types (Writer's fields and the files on disk); in
\* particular rewritePending and rewriteActive are never both set.
TypeOK ==
    /\ phase \in {"up", "stopping", "down", "refused"}
    /\ pc \in [Ops -> PcValues]
    /\ store \in SUBSET Ops
    /\ disk \in Seq(FileEntries)
    /\ synced \in Nat
    /\ stale \in SUBSET Files
    /\ buf \in Seq(SUBSET Ops)
    /\ handle \in Handles
    /\ mu \in Holders \cup Ops
    /\ rw \in RwValues
    /\ rewriteMode \in {"idle", "pending", "active"}
    /\ rewriteBuffer \in Seq(SUBSET Ops)
    /\ snap \in SUBSET Ops
    /\ temp \in Seq(SUBSET Ops)
    /\ lost \in SUBSET Ops
    /\ crashes \in Nat /\ stops \in Nat /\ rewrites \in Nat

\* appendfsync always: no crash, no failed rewrite and no restart makes the
\* server forget a mutation it acknowledged (prepareDurabilityBeforeResponse
\* fsyncs the frame before the reply).  With the other policies the same is
\* promised over graceful shutdowns only (Close flushes and fsyncs).
NoAckedWriteLost == lost = {}

\* The writer's file is as the writer believes: it is open, no crash can bring
\* an older file back under its name, and no torn frame hides what follows.
Intact == handle = "ok" /\ stale = {} /\ \A i \in 1..Len(disk) : disk[i] # Torn

\* appendfsync everysec: when runEverysec has fsynced, every mutation
\* acknowledged so far survives any crash, so that a crash loses only what
\* was acknowledged since the last tick.
EverysecWindow ==
    [][TickSync /\ Intact =>
         \A image \in CrashImages' : Acked \ lost \subseteq OpsOf(image)]_vars

\* A graceful shutdown keeps every acknowledged mutation: the handlers have
\* appended before closeAOFWriter flushes, and a rewrite has ended, so a file
\* that Close could fsync holds them all (ListenAndServe).
CloseKeepsAcked ==
    [][phase = "stopping" /\ phase' = "down" /\ crashes' = crashes
         /\ Intact /\ synced' = Len(disk')
       => (Acked' \ lost) \subseteq OpsOf(disk')]_vars

\* A failed or abandoned rewrite never leaves the writer reporting
\* ErrRewriteInProgress for ever.
RewriteEnds == rewriteMode # "idle" ~> rewriteMode = "idle"

\* appendfsync everysec: an acknowledged mutation eventually survives a
\* crash, while the process runs and its file is intact, unless the fsync of
\* the ticker goes on failing.
EventuallySynced ==
    <>[][~TickSyncFails]_vars =>
    \A op \in Ops :
      (Running /\ op \in Acked \ lost) ~>
        (~(Running /\ Intact) \/ \A image \in CrashImages : op \in OpsOf(image))
-----------------------------------------------------------------------------
(* The inductive invariant behind NoAckedWriteLost under "always".         *)

Contains(s, op) == \E i \in 1..Len(s) : op \in s[i]
SyncedIn(d, k, op) == \E i \in 1..k : op \in d[i]

\* A file d, fsynced up to its k-th entry, from which no crash can take one
\* of the mutations in ops.
SafeFile(d, k, ops) ==
    /\ k <= Len(d)
    /\ \A i \in 1..Len(d) : d[i] # Torn
    /\ \A op \in ops : SyncedIn(d, k, op)

Swapping == rw \in {"tempsync", "closeold", "rename", "dirsync", "reopen"}

\* Writer.mu is held over the flush and the fsync of a frame, and over the
\* whole of finalizeRewrite; a process that is gone holds nothing.
LockInv ==
    /\ \A op \in Ops : pc[op] \in {"written", "flushed"} <=> mu = op
    /\ Swapping <=> mu = "rewriter"
    /\ ~Running => rw = "none" /\ InFlight = {}

\* The frame of a mutation that is being appended is where the next step
\* looks for it.
FrameInv ==
    \A op \in Ops : /\ pc[op] = "written" => Contains(buf, op) \/ Contains(disk, op)
                    /\ pc[op] = "flushed" => Contains(disk, op)

\* The keyspace holds whatever was executed or acknowledged.
StoreInv ==
    Running => (InFlight \cup Acked) \subseteq store

\* A mutation that Writer.append has seen is in the snapshot or in the frames
\* kept since the barrier, and so in the file that replaces the old one.
RewriteInv ==
    /\ rw \in {"snapped", "generated"} =>
         /\ rewriteMode = "active"
         /\ \A op \in Ops : pc[op] \in {"written", "flushed", "acked"} =>
              op \in snap \/ Contains(rewriteBuffer, op)
    /\ rw = "generated" => temp = <<snap>>
    /\ rw \in {"tempsync", "closeold", "rename"} =>
         \A op \in Acked : Contains(temp, op)

FilesInv ==
    /\ SafeFile(disk, synced, Acked)
    /\ \A f \in stale : rw = "dirsync" /\ SafeFile(f.data, f.synced, Acked)

AlwaysInv ==
    /\ TypeOK
    /\ LockInv /\ FrameInv /\ StoreInv /\ RewriteInv /\ FilesInv
    /\ NoAckedWriteLost
=============================================================================
