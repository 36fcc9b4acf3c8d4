------------------------------ MODULE Pipeline ------------------------------
(***************************************************************************)
(* A change on its way through the server: the shard locks                 *)
(* (internal/storage/shard.go), the keyspace, the queue of expired keys,   *)
(* the append-only file with its rewrite, and a replica                    *)
(* (executeClientRequest of internal/server/handler.go, recordExpiredKeys  *)
(* of internal/server/aof.go).  Client goroutines, the expiry loop, the    *)
(* rewrite and a snapshot reader interleave; no lock spans two stages.     *)
(*                                                                         *)
(* The stages have modules of their own (Keyspace, AofWriter, Replication) *)
(* and are one step each here, so that keys have values: a key holds a     *)
(* number with a deadline (0 for none).  An append reaches the disk or     *)
(* fails; the replica is connected all along and applies its stream late.  *)
(***************************************************************************)
EXTENDS Integers, FiniteSets, Sequences, Functions

CONSTANTS
    Clients, Keys,
    Shards,                     \* the shards, numbers
    Sweeper, Rewriter, Reader,  \* the other goroutines
    None,
    Casts,      \* the scenarios: see CastsAssumption
    MaxTime     \* bound on the clock

Procs == Clients \cup {Sweeper, Rewriter, Reader}

\* A value, and the frames of SET, INCR and DEL.
Value(n, exp) == [n |-> n, exp |-> exp]
SetFrame(ks, n, exp) == [op |-> "set", keys |-> ks, value |-> Value(n, exp)]
IncrFrame(ks) == [op |-> "incr", keys |-> ks, value |-> Value(0, 0)]
DelFrame(ks) == [op |-> "del", keys |-> ks, value |-> Value(0, 0)]

\* What a client may ask for: SET with a time to live (0 for none), INCR, DEL.
Set(k, n, ttl) == [op |-> "set", keys |-> {k}, n |-> n, ttl |-> ttl]
Incr(k) == [op |-> "incr", keys |-> {k}, n |-> 0, ttl |-> 0]
Del(ks) == [op |-> "del", keys |-> ks, n |-> 0, ttl |-> 0]

ASSUME ProcsAssumption ==
    /\ None \notin Procs /\ Clients \cap {Sweeper, Rewriter, Reader} = {}
    /\ Sweeper # Rewriter /\ Sweeper # Reader /\ Rewriter # Reader
    /\ Shards \subseteq Nat /\ IsFiniteSet(Keys)

ASSUME CastsAssumption ==
    \A cast \in Casts :
        /\ cast.policy \in {"always", "deferred"}
        /\ cast.runs \in Nat /\ cast.until \in 0..MaxTime   \* bounds
        /\ cast.shard \in [Keys -> Shards]
        /\ cast.accounting \in BOOLEAN   \* --maxmemory is set
        /\ cast.fails \in BOOLEAN        \* an append may fail
        /\ cast.others \subseteq {Sweeper, Rewriter, Reader}
        /\ DOMAIN cast.script = Clients
        /\ \A c \in Clients : \A r \in cast.script[c] :
              /\ r.op \in {"set", "incr", "del"} /\ r.keys \subseteq Keys
              /\ r.n \in Int /\ r.ttl \in Nat
              /\ r.op # "del" => Cardinality(r.keys) = 1

VARIABLES
    cast,            \* the scenario
    begun,           \* how many requests, sweeps and other runs have begun
    now,             \* the clock
    db,              \* the keyspace
    writer,          \* the goroutine that holds or waits to hold a shard's lock
    readers,         \* the goroutines with its read lock
    pc,              \* what each goroutine does
    want,            \* the shards whose locks it has yet to take
    nr,              \* the number of what it does now
    clock,           \* the reading of the clock it works with
    frames,          \* the frames of its own change
    noted,           \* pendingExpired
    taken,           \* the expired keys it is publishing
    log,             \* the append-only file
    base, buffer,    \* the rewritten file so far, rewriteBuffer
    rewriting,       \* rewriteActive
    stream,          \* the frames on their way to the replica
    replica,         \* its keyspace
    appended, sent,  \* history: the payloads that were logged, and propagated
    excused          \* history: keys that nothing is promised about, and why

lockVars == <<writer, readers>>
fileVars == <<log, base, buffer, rewriting, appended>>
replicaVars == <<stream, replica, sent>>
run == <<cast, begun, nr>>
vars == <<run, now, db, lockVars, pc, want, clock, frames, noted, taken,
          fileVars, replicaVars, excused>>

PcValues == {"idle", "locking", "publish", "log expired", "send expired",
             "append", "send", "installing"}

Live(d, t) == Restrict(d, {k \in DOMAIN d : d[k].exp = 0 \/ t <= d[k].exp})
ExpiredKeys(d, t) == DOMAIN d \ DOMAIN Live(d, t)
Without(d, S) == Restrict(d, DOMAIN d \ S)
With(d, f) == [k \in DOMAIN d \cup DOMAIN f |-> IF k \in DOMAIN f THEN f[k] ELSE d[k]]

\* A command against a keyspace: by a client, in the replay of the file, or on
\* the replica.  An expired value counts as absent; INCR keeps the deadline.
Execute(d, f, t) ==
    CASE f.op = "set" -> With(d, [k \in f.keys |-> f.value])
      [] f.op = "del" -> Without(d, f.keys)
      [] f.op = "incr" ->
            LET old(k) == IF k \in DOMAIN Live(d, t) THEN d[k] ELSE Value(0, 0)
            IN  With(d, [k \in f.keys |-> Value(old(k).n + 1, old(k).exp)])

\* LoadFile at time t.
Replay(file, t) ==
    LET load[i \in 0..Len(file)] ==
            IF i = 0 THEN <<>> ELSE Execute(load[i - 1], file[i], t)
    IN  load[Len(file)]

Init ==
    /\ cast \in Casts /\ begun = 0 /\ nr = [p \in Procs |-> 0]
    /\ now = 0 /\ db = <<>> /\ noted = {} /\ excused = {}
    /\ writer = [s \in Shards |-> None] /\ readers = [s \in Shards |-> {}]
    /\ pc = [p \in Procs |-> "idle"] /\ want = [p \in Procs |-> {}]
    /\ clock = [p \in Procs |-> 0] /\ frames = [p \in Procs |-> <<>>]
    /\ taken = [p \in Procs |-> {}]
    /\ log = <<>> /\ base = <<>> /\ buffer = <<>> /\ rewriting = FALSE
    /\ stream = <<>> /\ replica = <<>> /\ appended = {} /\ sent = {}

TimePasses ==
    /\ now < cast.until
    /\ now' = now + 1
    /\ UNCHANGED <<run, db, lockVars, pc, want, clock, frames, noted, taken,
                   fileVars, replicaVars, excused>>

-----------------------------------------------------------------------------
(* The locks.  Lock of a sync.RWMutex turns new readers away and then      *)
(* waits for the ones inside.                                              *)

\* Start an activity of p that needs the locks of the shards ss.
Begin(p, ss) ==
    /\ pc[p] = "idle" /\ begun < cast.runs
    /\ begun' = begun + 1
    /\ nr' = [nr EXCEPT ![p] = begun + 1]
    /\ clock' = [clock EXCEPT ![p] = now]
    /\ want' = [want EXCEPT ![p] = ss]
    /\ pc' = [pc EXCEPT ![p] = "locking"]
    /\ UNCHANGED <<cast, now, db, lockVars, noted, taken, fileVars, replicaVars,
                   excused>>

ShardsOf(ks) == {cast.shard[k] : k \in ks}
AllShards == ShardsOf(Keys)

\* Mutant of NextLock: clients go backwards, as they unlock.
NextLockBackwards(p) ==
    IF p \in Clients THEN CHOOSE s \in want[p] : \A t \in want[p] : t <= s
    ELSE CHOOSE s \in want[p] : \A t \in want[p] : s <= t

\* shardKeyGroups.lock, writeLockAllShards and readLockAllShards go by number.
NextLock(p) == CHOOSE s \in want[p] : \A t \in want[p] : s <= t

Lock(p) ==
    /\ pc[p] = "locking" /\ p # Reader /\ want[p] # {}
    /\ writer[NextLock(p)] = None
    /\ writer' = [writer EXCEPT ![NextLock(p)] = p]
    /\ UNCHANGED <<run, now, db, readers, pc, want, clock, frames, noted, taken,
                   fileVars, replicaVars, excused>>

Locked(p) ==
    /\ pc[p] = "locking" /\ p # Reader /\ want[p] # {}
    /\ writer[NextLock(p)] = p /\ readers[NextLock(p)] = {}
    /\ want' = [want EXCEPT ![p] = @ \ {NextLock(p)}]
    /\ UNCHANGED <<run, now, db, lockVars, pc, clock, frames, noted, taken,
                   fileVars, replicaVars, excused>>

Holds(p) == pc[p] = "locking" /\ want[p] = {}

Unlock(p) == writer' = [s \in Shards |-> IF writer[s] = p THEN None ELSE writer[s]]

\* readLockAllShards, as in SnapshotStrings; the copy is made and released.
RLock ==
    /\ pc[Reader] = "locking" /\ want[Reader] # {}
    /\ writer[NextLock(Reader)] = None
    /\ readers' = [readers EXCEPT ![NextLock(Reader)] = @ \cup {Reader}]
    /\ want' = [want EXCEPT ![Reader] = @ \ {NextLock(Reader)}]
    /\ UNCHANGED <<run, now, db, writer, pc, clock, frames, noted, taken,
                   fileVars, replicaVars, excused>>

SnapshotStrings ==
    /\ Holds(Reader)
    /\ readers' = [s \in Shards |-> readers[s] \ {Reader}]
    /\ pc' = [pc EXCEPT ![Reader] = "idle"]
    /\ UNCHANGED <<run, now, db, writer, want, clock, frames, noted, taken,
                   fileVars, replicaVars, excused>>

-----------------------------------------------------------------------------
(* Who changes what.                                                       *)

\* The keys of a change of p that are not logged and sent yet.
Dirty(p) ==
    taken[p] \cup
    (IF pc[p] \in {"idle", "locking", "installing"} THEN {}
     ELSE UNION {frames[p][i].keys : i \in DOMAIN frames[p]})

\* The keys of which another goroutine still has a change to log or send.
Busy(p) == noted \cup UNION {Dirty(q) : q \in Procs \ {p}}

\* p changes the keys S, some of which may be on their way in another change;
\* overwriting a key that is not makes up for all that went before.
Excuses(p, S, overwritten) ==
    {e \in excused : e[1] \notin overwritten \ Busy(p)}
        \cup {<<k, "overlap">> : k \in S \cap Busy(p)}

Step(p, next) == pc' = [pc EXCEPT ![p] = next]
Emits(p, fs) == frames' = [frames EXCEPT ![p] = fs]

-----------------------------------------------------------------------------
(* A request: SET, INCR or DEL.                                            *)

\* Mutant of LocksOf: DEL locks the shard of its first key only.
LocksOfFirst(r) ==
    IF cast.accounting /\ r.op # "del" THEN AllShards
    ELSE {CHOOSE s \in ShardsOf(r.keys) : \A t \in ShardsOf(r.keys) : s <= t}

LocksOf(r) ==
    IF cast.accounting /\ r.op # "del" THEN AllShards ELSE ShardsOf(r.keys)

Request(p) ==
    \E r \in cast.script[p] :
        /\ Begin(p, LocksOf(r))
        /\ Emits(p, << CASE r.op = "incr" -> IncrFrame(r.keys)
                         [] r.op = "del" -> DelFrame(r.keys)
                         [] r.op = "set" -> SetFrame(r.keys, r.n,
                               IF r.ttl = 0 THEN 0 ELSE now + r.ttl) >>)

\* An INCR that is told apart in the replay by the time of the replay: its key
\* has a deadline.
Leased(p) ==
    LET f == frames[p][1]
    IN  {<<k, "lease">> : k \in {k \in f.keys \cap DOMAIN Live(db, clock[p]) :
                                   f.op = "incr" /\ db[k].exp > 0}}
Overwritten(p) == IF frames[p][1].op = "incr" THEN {} ELSE frames[p][1].keys

\* Delete, DeleteMany, and writeKey without maxmemory.
Change(p) ==
    LET f == frames[p][1]
    IN  /\ Holds(p) /\ (cast.accounting => f.op = "del")
        /\ db' = Execute(db, f, clock[p])
        /\ excused' = Excuses(p, f.keys, Overwritten(p)) \cup Leased(p)
        /\ Step(p, "append")
        /\ Unlock(p)
        /\ UNCHANGED <<run, now, readers, want, clock, frames, noted, taken,
                       fileVars, replicaVars>>

\* writeKey with maxmemory and a value that does not grow.
ChangeInPlace(p) ==
    LET f == frames[p][1]
    IN  /\ Holds(p) /\ cast.accounting /\ f.op # "del"
        /\ db' = Execute(db, f, clock[p])
        /\ excused' = Excuses(p, f.keys, Overwritten(p)) \cup Leased(p)
        /\ Step(p, "publish")
        /\ Unlock(p)
        /\ UNCHANGED <<run, now, readers, want, clock, frames, noted, taken,
                       fileVars, replicaVars>>

\* Mutant of EvictedFrames: the evicted keys are not reported.
EvictedFramesNone(victims) == <<>>

\* recordEvictedKeys.
EvictedFrames(victims) ==
    IF victims = {} THEN <<>> ELSE <<DelFrame(victims)>>

\* What recalculateUsedMemoryLocked removes: the key itself has been reclaimed
\* silently if it was expired already when the write read the clock.
Swept(p) ==
    ExpiredKeys(db, now) \ (ExpiredKeys(db, clock[p]) \cap frames[p][1].keys)

\* writeKey with maxmemory and a value that grows: the keyspace is measured
\* again, keys are evicted to make room, and the value is stored.
ChangeWithEviction(p, victims) ==
    LET f == frames[p][1]
    IN  /\ Holds(p) /\ cast.accounting /\ f.op # "del"
        /\ victims \subseteq DOMAIN Live(db, now) \ f.keys
        /\ db' = With(Without(db, Swept(p) \cup victims),
                      Restrict(Execute(db, f, clock[p]), f.keys))
        /\ noted' = noted \cup Swept(p)
        /\ Emits(p, <<f>> \o EvictedFrames(victims))
        /\ excused' = Excuses(p, f.keys \cup victims \cup Swept(p),
                              (Overwritten(p) \cup victims) \ Swept(p))
                         \cup Leased(p)
                         \cup {<<j, "overlap">> : j \in Swept(p) \cap f.keys}
        /\ Step(p, "publish")
        /\ Unlock(p)
        /\ UNCHANGED <<run, now, readers, want, clock, taken, fileVars, replicaVars>>

\* The same, but there is no room: the error keeps what the measurement swept.
ChangeRefused(p) ==
    LET f == frames[p][1]
    IN  /\ Holds(p) /\ cast.accounting /\ f.op # "del"
        /\ db' = Without(db, Swept(p) \cup (ExpiredKeys(db, clock[p]) \cap f.keys))
        /\ noted' = noted \cup Swept(p)
        /\ Emits(p, <<>>)
        /\ excused' = Excuses(p, Swept(p), {})
        /\ Step(p, "publish")
        /\ Unlock(p)
        /\ UNCHANGED <<run, now, readers, want, clock, taken, fileVars, replicaVars>>

-----------------------------------------------------------------------------
(* What follows a change: expired keys, the file, the replica.             *)

WriteLog(fs) ==
    /\ log' = log \o fs
    /\ buffer' = IF rewriting THEN buffer \o fs ELSE buffer
    /\ UNCHANGED <<base, rewriting>>

\* After publishExpiredKeys: a request goes on with its own frames.
AfterPublish(p) == IF frames[p] = <<>> THEN "idle" ELSE "append"

\* publishExpiredKeys takes the whole queue, whoever filled it.
Take(p) ==
    /\ pc[p] = "publish"
    /\ taken' = [taken EXCEPT ![p] = noted]
    /\ noted' = {}
    /\ Step(p, IF noted = {} THEN AfterPublish(p) ELSE "log expired")
    /\ UNCHANGED <<run, now, db, lockVars, want, clock, frames, fileVars,
                   replicaVars, excused>>

ExpiredFrame(p) == DelFrame(taken[p])

\* recordExpiredKeys: persistDurabilityFrames ...
LogExpired(p) ==
    /\ pc[p] = "log expired"
    /\ WriteLog(<<ExpiredFrame(p)>>)
    /\ appended' = appended \cup {<<nr[p], "expired">>}
    /\ Step(p, "send expired")
    /\ UNCHANGED <<run, now, db, lockVars, want, clock, frames, noted, taken,
                   replicaVars, excused>>

\* ... which under always withholds the propagation when it fails ...
LogExpiredFails(p) ==
    /\ pc[p] = "log expired" /\ cast.fails
    /\ IF cast.policy = "always"
       THEN Step(p, AfterPublish(p)) /\ taken' = [taken EXCEPT ![p] = {}]
       ELSE Step(p, "send expired") /\ UNCHANGED taken
    /\ UNCHANGED <<run, now, db, lockVars, want, clock, frames, noted, fileVars,
                   replicaVars, excused>>

\* ... and propagateToReplicas.
SendExpired(p) ==
    /\ pc[p] = "send expired"
    /\ stream' = stream \o <<ExpiredFrame(p)>>
    /\ sent' = sent \cup {<<nr[p], "expired">>}
    /\ taken' = [taken EXCEPT ![p] = {}]
    /\ Step(p, AfterPublish(p))
    /\ UNCHANGED <<run, now, db, lockVars, want, clock, frames, noted, fileVars,
                   replica, excused>>

\* prepareDurabilityBeforeResponse, or the deferred append of
\* finalizeMutationEffects.
LogFrames(p) ==
    /\ pc[p] = "append"
    /\ WriteLog(frames[p])
    /\ appended' = appended \cup {<<nr[p], "own">>}
    /\ Step(p, "send")
    /\ UNCHANGED <<run, now, db, lockVars, want, clock, frames, noted, taken,
                   replicaVars, excused>>

FailedFrames(p) == {<<k, "failed">> : k \in Dirty(p)}

\* Mutant of LogFramesFails: the change is propagated although the client is
\* told that it failed.
LogFramesFailsButSends(p) ==
    /\ pc[p] = "append" /\ cast.fails
    /\ excused' = excused \cup FailedFrames(p)
    /\ Step(p, "send")
    /\ UNCHANGED <<run, now, db, lockVars, want, clock, frames, noted, taken,
                   fileVars, replicaVars>>

LogFramesFails(p) ==
    /\ pc[p] = "append" /\ cast.fails
    /\ excused' = excused \cup FailedFrames(p)
    /\ IF cast.policy = "always"
       THEN Step(p, "idle") /\ Emits(p, <<>>)
       ELSE Step(p, "send") /\ UNCHANGED frames
    /\ UNCHANGED <<run, now, db, lockVars, want, clock, noted, taken, fileVars,
                   replicaVars>>

\* propagateToReplicas, and the reply.
Send(p) ==
    /\ pc[p] = "send"
    /\ stream' = stream \o frames[p]
    /\ sent' = sent \cup {<<nr[p], "own">>}
    /\ Emits(p, <<>>)
    /\ Step(p, "idle")
    /\ UNCHANGED <<run, now, db, lockVars, want, clock, noted, taken, fileVars,
                   replica, excused>>

\* The replica's link executes a command of the stream.
Apply ==
    /\ stream # <<>>
    /\ replica' = Execute(replica, Head(stream), now)
    /\ stream' = Tail(stream)
    /\ UNCHANGED <<run, now, db, lockVars, pc, want, clock, frames, noted, taken,
                   fileVars, sent, excused>>

-----------------------------------------------------------------------------
(* The expiry loop, the rewrite and the snapshot reader.                   *)

\* evictExpiredSample: the clock, a sample of keys, then their locks.
BeginSweep ==
    \E sample \in SUBSET DOMAIN db \ {{}} :
        /\ Sweeper \in cast.others
        /\ Begin(Sweeper, ShardsOf(sample))
        /\ Emits(Sweeper, <<DelFrame(sample)>>)

Sweep ==
    LET expired == frames[Sweeper][1].keys \cap ExpiredKeys(db, clock[Sweeper])
    IN  /\ Holds(Sweeper)
        /\ db' = Without(db, expired)
        /\ noted' = noted \cup expired
        /\ excused' = Excuses(Sweeper, expired, {})
        /\ Emits(Sweeper, <<>>)
        /\ Step(Sweeper, IF expired = {} THEN "idle" ELSE "publish")
        /\ Unlock(Sweeper)
        /\ UNCHANGED <<run, now, readers, want, clock, taken, fileVars, replicaVars>>

BeginRewrite ==
    /\ Rewriter \in cast.others
    /\ Begin(Rewriter, AllShards)
    /\ UNCHANGED frames

\* rewriteFramesForEntry for every live key.
SnapshotFrames(d) ==
    LET ks == CHOOSE s \in Bijection(1..Cardinality(DOMAIN d), DOMAIN d) : TRUE
    IN  [i \in DOMAIN ks |-> SetFrame({ks[i]}, d[ks[i]].n, d[ks[i]].exp)]

\* An INCR between its change and its append will be in the snapshot and again
\* in the buffer.
CountedTwice ==
    {<<k, "overlap">> : k \in UNION
        {frames[p][1].keys :
            p \in {p \in Clients : pc[p] \in {"publish", "log expired", "send expired",
                                              "append"}
                                   /\ frames[p] # <<>> /\ frames[p][1].op = "incr"}}}

\* SnapshotAllWithWriteBarrier.
Barrier ==
    /\ Holds(Rewriter)
    /\ base' = SnapshotFrames(Live(db, now))
    /\ buffer' = <<>> /\ rewriting' = TRUE
    /\ excused' = excused \cup CountedTwice
    /\ Step(Rewriter, "installing")
    /\ Unlock(Rewriter)
    /\ UNCHANGED <<run, now, db, readers, want, clock, frames, noted, taken, log,
                   appended, replicaVars>>

\* finalizeRewrite, which may fail and leave the file as it was.
Install ==
    /\ pc[Rewriter] = "installing"
    /\ log' \in {base \o buffer} \cup (IF cast.fails THEN {log} ELSE {})
    /\ base' = <<>> /\ buffer' = <<>> /\ rewriting' = FALSE
    /\ Step(Rewriter, "idle")
    /\ UNCHANGED <<run, now, db, lockVars, want, clock, frames, noted, taken,
                   appended, replicaVars, excused>>

BeginSnapshot ==
    /\ Reader \in cast.others
    /\ Begin(Reader, AllShards)
    /\ UNCHANGED frames

-----------------------------------------------------------------------------
\* One disjunct for each stage of a goroutine's work.
Works(p) ==
    \/ Lock(p) \/ Locked(p) \/ Take(p) \/ LogExpired(p) \/ LogExpiredFails(p)
    \/ SendExpired(p)

Serves(p) ==
    \/ Change(p) \/ ChangeInPlace(p) \/ ChangeRefused(p)
    \/ \E victims \in SUBSET Keys : ChangeWithEviction(p, victims)
    \/ LogFrames(p) \/ LogFramesFails(p) \/ Send(p)

Next ==
    \/ TimePasses
    \/ \E p \in Clients : Request(p)
    \/ \E p \in Clients : Serves(p)
    \/ \E p \in Procs : Works(p)
    \/ RLock \/ SnapshotStrings
    \/ BeginSweep \/ Sweep
    \/ BeginRewrite \/ Barrier \/ Install
    \/ BeginSnapshot
    \/ Apply

Spec == Init /\ [][Next]_vars

\* Every goroutine runs when it can, and a mutex reaches everyone who waits for
\* it, since only finitely many activities begin.
FairSpec ==
    /\ Spec
    /\ \A p \in Clients : WF_vars(Serves(p) \/ Works(p))
    /\ WF_vars(Sweep \/ Works(Sweeper))
    /\ WF_vars(Barrier \/ Install \/ Works(Rewriter))
    /\ WF_vars(RLock \/ SnapshotStrings)

-----------------------------------------------------------------------------
(* Properties.                                                             *)

At(d, k) == IF k \in DOMAIN d THEN <<d[k]>> ELSE <<>>

\* Under always nothing is announced that is not durable: whatever a replica
\* was sent, the changes of clients and the deletion of expired keys, is in
\* the file (recordExpiredKeys and executeClientRequest withhold the rest).
AnnouncedIsDurable == cast.policy = "always" => sent \subseteq appended

\* A key that nobody is changing, and to which nothing happened that breaks
\* the promise.
Settled(k) ==
    /\ k \notin noted /\ k \notin {e[1] : e \in excused}
    /\ \A p \in Procs : k \notin Dirty(p)

\* The three copies of the data agree: a restart at any later time would find
\* in the file, and in the file a rewrite is about to install, what the
\* keyspace will then hold, and so does the replica once it has caught up.
\* Excused are keys that two goroutines changed at once (no lock spans the
\* change and its append), keys whose append failed, and counters with a
\* deadline; a later overwrite makes all of them agree again.
CopiesAgree ==
    LET settled == {k \in Keys : Settled(k)}
    IN  \A t \in now..MaxTime :
            LET here == Live(db, t)
                file == Live(Replay(log, t), t)
                next == Live(Replay(base \o buffer, t), t)
                there == Live(replica, t)
            IN  \A k \in settled :
                    /\ At(file, k) = At(here, k)
                    /\ rewriting => At(next, k) = At(here, k)
                    /\ stream = <<>> => At(there, k) = At(here, k)

\* A key changes only while its shard's lock is held for writing and no reader
\* is inside, whichever goroutine changes it: a request with one key or several,
\* a write that evicts keys of other shards, or a sweep.
ChangesUnderLock ==
    [][\A k \in Keys : At(db', k) # At(db, k) =>
          writer[cast.shard[k]] # None /\ readers[cast.shard[k]] = {}]_vars

\* No order in which goroutines take the locks of several shards makes them
\* wait for each other for ever: whatever has begun ends (NextLock).
EveryRunEnds == (\E p \in Procs : pc[p] # "idle") ~> (\A p \in Procs : pc[p] = "idle")
=============================================================================
