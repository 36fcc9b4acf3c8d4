------------------------------ MODULE Keyspace ------------------------------
(***************************************************************************)
(* The keyspace of the server (internal/storage): the map of live values,  *)
(* expiry on access and by sweeps, the approximate memory accounting with  *)
(* LRU eviction, the key counts per kind, and the queue of expired keys    *)
(* that is handed to the expiration listener.                              *)
(*                                                                         *)
(* A value is its kind, its length (bytes of a string, elements of a       *)
(* collection), its deadline and its access stamp; these decide its size.  *)
(* Every operation that holds the locks of the shards it touches from its  *)
(* first access to its last is one step.  What is several steps: a read    *)
(* that drops its read lock before it reclaims an expired key, a sweep     *)
(* that samples before it locks, an eviction (so that a failure half-way   *)
(* is visible), and every hand-over to the listener, which comes after the *)
(* locks are released.                                                     *)
(***************************************************************************)
EXTENDS Integers, FiniteSets, FiniteSetsExt, Functions

CONSTANTS
    Keys,         \* the keys clients use
    MaxLength,    \* bound on the length of a value
    MaxTime,      \* bound on the clock
    Limits,       \* the values of --maxmemory; 0 disables accounting
    SampleSize,   \* eviction-sample-size
    Loaded,       \* the keyspaces a load or a FULLRESYNC may bring
    MaxOwed,      \* bound on the goroutines about to publish expired keys
    NoKey         \* no key is being written

Kinds == {"string", "list", "hash", "set", "zset", "stream"}

\* A value: its kind, its length, its deadline (0: none) and its access stamp.
Values == [kind : Kinds, len : Nat, exp : Nat, at : Nat]
IsMap(d) == d \in [DOMAIN d -> Values] /\ DOMAIN d \subseteq Keys

ASSUME KeysAssumption == IsFiniteSet(Keys) /\ NoKey \notin Keys
ASSUME LimitsAssumption == Limits \subseteq Nat
ASSUME BoundsAssumption == MaxLength \in Nat /\ MaxTime \in Nat /\ SampleSize \in Nat
ASSUME LoadedAssumption == \A d \in Loaded : IsMap(d)

VARIABLES
    now,        \* the clock, in milliseconds
    data,       \* the maps of all shards
    used,       \* Store.usedMemory
    counts,     \* Store.keyKindCounts
    maxMemory,  \* Store.maxMemory, or Unset before ConfigureMaxMemory
    write,      \* the accounted write, or the startup pass, that holds all locks
    skew,       \* history: what used lacks since a write outlived its own key
    drops,      \* keys that readers found expired and will look at again
    sweep,      \* the sample of the active expiry loop, with its clock reading
    noted,      \* Store.pendingExpired
    owed,       \* number of goroutines that are about to call publishExpiredKeys
    saved       \* history: the live keyspace when the write took its locks

memVars == <<used, counts, skew>>
sweepVars == <<drops, sweep>>
vars == <<now, data, memVars, maxMemory, write, sweepVars, noted, owed, saved>>

\* What the holder of all locks is doing.  value is what it will store.
Idle == [key |-> NoKey, mode |-> "idle", value |-> {}, delta |-> 0, target |-> 0]
NoSweep == [keys |-> {}, at |-> 0]
Locked == write # Idle

\* Before ConfigureMaxMemory.
Unset == -1
accounting == maxMemory > 0

\* isExpired: the deadline itself is still alive.
Expired(v, t) == v.exp > 0 /\ t > v.exp

\* approximateValueObjectSize, with the constants scaled down: a base, eight
\* bytes for a deadline, a collection's overhead and its elements.
Size(v) ==
    1 + (IF v.exp > 0 THEN 1 ELSE 0) + (IF v.kind = "string" THEN 0 ELSE 1) + v.len

\* The bytes of the maps d, one pair for each, and their number.
BytesAt(d, k) == {k} \X (1..Size(d[k]))
Bytes(d) == UNION {BytesAt(d, k) : k \in DOMAIN d}
TotalSize(d) == Cardinality(Bytes(d))
KindCount(d, kind) == Cardinality({k \in DOMAIN d : d[k].kind = kind})

Without(d, ks) == Restrict(d, DOMAIN d \ ks)
With(d, k, v) == [j \in DOMAIN d \cup {k} |-> IF j = k THEN v ELSE d[j]]
ExpiredKeys(d, t) == {k \in DOMAIN d : Expired(d[k], t)}

\* The live value a write finds under k: prepareExistingValueLocked.
Current(k) == IF k \in DOMAIN data /\ ~Expired(data[k], now) THEN {data[k]} ELSE {}
OldSize(k) == IF Current(k) = {} THEN 0 ELSE Size(data[k])

\* The maps once prepareExistingValueLocked has dropped k if it is expired.
Prepared(k) == Without(data, {k} \cap ExpiredKeys(data, now))

\* adjustKeyKindCount for the keys that went and the one that came.
CountsAfter(d) ==
    [kind \in Kinds |->
       counts[kind]
         - Cardinality({k \in DOMAIN data :
                          data[k].kind = kind
                            /\ (k \notin DOMAIN d \/ d[k].kind # kind)})
         + Cardinality({k \in DOMAIN d :
                          d[k].kind = kind
                            /\ (k \notin DOMAIN data \/ data[k].kind # kind)})]

\* setKeyLocked and removeKeyLocked: the map changes and the counts follow.
Change(d) == data' = d /\ counts' = CountsAfter(d)

-----------------------------------------------------------------------------
Init ==
    /\ now = 1
    /\ data \in Loaded
    /\ used = 0
    /\ counts = [kind \in Kinds |-> KindCount(data, kind)]
    /\ skew = 0
    /\ maxMemory = Unset
    /\ write = Idle
    /\ drops = {}
    /\ sweep = NoSweep
    /\ noted = {}
    /\ owed = 0
    /\ saved = <<>>

Tick ==
    /\ now < MaxTime
    /\ now' = now + 1
    /\ UNCHANGED <<data, memVars, maxMemory, write, sweepVars, noted, owed, saved>>

\* recalculateUsedMemoryLocked of the maps d at clock reading t.
Recalculate(d, t) ==
    LET rest == Without(d, ExpiredKeys(d, t))
    IN  /\ Change(rest)
        /\ used' = TotalSize(rest)
        /\ skew' = 0
        /\ noted' = noted \cup ExpiredKeys(d, t)

\* ConfigureMaxMemory, and EnforceMaxMemory when it has something to enforce:
\* both run once, after the load and before the first connection.
Start ==
    /\ maxMemory = Unset
    /\ \E limit \in Limits :
         /\ maxMemory' = limit
         /\ \/ /\ limit = 0
               /\ UNCHANGED <<data, memVars, noted, write, saved>>
            \/ /\ limit > 0
               /\ Recalculate(data, now)
               /\ saved' = <<>>
               /\ write' = IF used' <= limit THEN Idle
                           ELSE [Idle EXCEPT !.mode = "startup", !.target = limit]
    /\ owed' = owed + 1
    /\ UNCHANGED <<now, sweepVars>>

Running == maxMemory # Unset /\ ~Locked

-----------------------------------------------------------------------------
(* Writes that may grow the key: writeKey.                                 *)

\* writeKey without accounting: one shard lock, the new value is stored.
StoreValue(k, v) ==
    /\ Running /\ ~accounting
    /\ Change(With(data, k, v))
    /\ UNCHANGED <<now, used, skew, maxMemory, write, sweepVars, noted, owed, saved>>

\* A write that does not grow the key is committed without a look at the rest.
StoreInPlace(k, v) ==
    /\ Running /\ accounting /\ owed < MaxOwed
    /\ Size(v) <= OldSize(k)
    /\ Change(With(data, k, v))
    /\ used' = used + (Size(v) - OldSize(k))
    /\ owed' = owed + 1
    /\ UNCHANGED <<now, skew, maxMemory, write, sweepVars, noted, saved>>

\* Mutant of MayFit: the key that is written counts as evictable.
MayFitCountingItself(d, k, room) == room >= 0

\* ensureMemoryAvailableLocked: is there room once all but k is evicted?
MayFit(d, k, room) ==
    room >= 0 /\ TotalSize(d) - TotalSize(Without(d, {k})) <= room

\* writeKey while accounting: every shard is locked and the keyspace is
\* measured again.  The measurement reads the clock a second time, when the
\* key that is being written may have expired too.
BeginWrite(k, v) ==
    /\ Running /\ accounting
    /\ Size(v) > OldSize(k)
    /\ LET delta == Size(v) - OldSize(k)
           room == maxMemory - delta
       IN  \E clock \in now..MaxTime :
             /\ now' = clock
             /\ Recalculate(Prepared(k), clock)
             /\ write' = [key |-> k, value |-> {v}, delta |-> delta, target |-> room,
                          mode |-> IF MayFit(data', k, room) THEN "room" ELSE "reject"]
    /\ saved' = data'
    /\ UNCHANGED <<maxMemory, sweepVars, owed>>

\* sampleKeysLocked: shards and maps are walked from an arbitrary start.
Samples == kSubset(Min({SampleSize, Cardinality(DOMAIN data)}), DOMAIN data)

\* findStalestCandidateLocked: the least recently used key of a sample, and of
\* all keys when the sample holds only protected ones.
Stalest(ks) == {k \in ks : \A j \in ks : data[k].at <= data[j].at}
Candidates ==
    LET free == DOMAIN data \ {write.key}
    IN  UNION {Stalest(IF s \cap free = {} THEN free ELSE s \cap free) : s \in Samples}

MustEvict == write.mode \in {"room", "startup"} /\ used > write.target

\* One turn of evictUntilMemoryAtOrBelowLocked.
EvictOne ==
    /\ MustEvict
    /\ \E k \in Candidates :
         /\ Change(Without(data, {k}))
         /\ used' = used - Size(data[k])
    /\ UNCHANGED <<now, skew, maxMemory, write, sweepVars, noted, owed, saved>>

\* The loop found no candidate and the write fails after all; what it evicted
\* is not reported.
NothingToEvict == MustEvict /\ Candidates = {}

\* The locks are released; the deferred publishExpiredKeys is still to come.
Release == write' = Idle /\ owed' = owed + 1 /\ saved' = <<>>

\* commitValueWithEvictionLocked after the room was made.  The old value's size
\* is taken off although the measurement may have removed it already.
CommitWrite ==
    /\ write.mode = "room" /\ used <= write.target /\ owed < MaxOwed
    /\ \E v \in write.value :
         /\ Change(With(data, write.key, v))
         /\ skew' = IF write.key \in DOMAIN data THEN skew
                    ELSE Size(v) - write.delta
    /\ used' = used + write.delta
    /\ Release
    /\ UNCHANGED <<now, maxMemory, sweepVars, noted>>

\* ErrMemoryLimitExceeded.
RejectWrite ==
    /\ write.mode = "reject" \/ (write.mode = "room" /\ NothingToEvict)
    /\ owed < MaxOwed
    /\ Release
    /\ UNCHANGED <<now, data, memVars, maxMemory, sweepVars, noted>>

FinishStartup ==
    /\ write.mode = "startup" /\ used <= write.target /\ owed < MaxOwed
    /\ Release
    /\ UNCHANGED <<now, data, memVars, maxMemory, sweepVars, noted>>

\* What a command stores under k, given the live value it finds there.  A
\* command that fails on its kind or its contents stores nothing.
New(kind, n, deadline) == [kind |-> kind, len |-> n, exp |-> deadline, at |-> now]
Live(k, kind) == {v \in Current(k) : v.kind = kind}
Lengths == 1..MaxLength

SetValue == {New("string", n, e) : n \in Lengths, e \in {0} \cup now..MaxTime}

\* INCR keeps the deadline; the number may get a digit more.
IncrementValue(k) ==
    IF Current(k) = {} THEN {New("string", 1, 0)}
    ELSE UNION {{New("string", v.len + d, v.exp) : d \in {0, 1}} : v \in Live(k, "string")}

\* SETBIT extends the string to the addressed byte.
SetBitValue(k) ==
    IF Current(k) = {} THEN {New("string", n, 0) : n \in Lengths}
    ELSE UNION {{New("string", Max({n, v.len}), v.exp) : n \in Lengths} : v \in Live(k, "string")}

\* PFADD creates or updates a string of fixed length.
PFAddValue(k) ==
    IF Current(k) = {} THEN {New("string", MaxLength, 0)}
    ELSE {New("string", v.len, v.exp) : v \in {u \in Live(k, "string") : u.len = MaxLength}}

\* A collection of the given kind with n of the given elements new to it.
Extended(k, kind, ns) ==
    IF Current(k) = {} THEN {New(kind, n, 0) : n \in Lengths}
    ELSE UNION {{New(kind, v.len + n, v.exp) : n \in ns} : v \in Live(k, kind)}

Write(k, vs) ==
    \E v \in vs : v.len <= MaxLength
                    /\ (StoreValue(k, v) \/ StoreInPlace(k, v) \/ BeginWrite(k, v))

Set(k) == Write(k, SetValue)
Increment(k) == Write(k, IncrementValue(k))
SetBit(k) == Write(k, SetBitValue(k))
PFAdd(k) == Write(k, PFAddValue(k))

\* A push and XADD add every element; the others only those that are new.
PushList(k) == Write(k, Extended(k, "list", {1, 2}))
XAdd(k) == Write(k, Extended(k, "stream", {1}))
HSet(k) == Write(k, Extended(k, "hash", {0, 1}))
SAdd(k) == Write(k, Extended(k, "set", {0, 1}))
ZAdd(k) == Write(k, Extended(k, "zset", {0, 1}))

-----------------------------------------------------------------------------
(* Removals: one shard lock, or the locks of all shards named.             *)

SizeOf(ks) == TotalSize(Restrict(data, ks \cap DOMAIN data))

\* deleteKeyLocked for the keys ks.
DeleteKeys(ks) ==
    /\ Change(Without(data, ks))
    /\ used' = IF accounting THEN used - SizeOf(ks) ELSE used
    /\ UNCHANGED skew

\* Delete and DeleteMany; an expired key goes as well.
Delete(ks) ==
    /\ Running
    /\ DeleteKeys(ks)
    /\ UNCHANGED <<now, maxMemory, write, sweepVars, noted, owed, saved>>

\* Mutant of Shrunk: the key is removed with the size it has once it is empty.
ShrunkWithNewSize(k, n) ==
    LET v == [data[k] EXCEPT !.len = @ - n, !.at = now]
    IN  /\ Change(IF v.len = 0 THEN Without(data, {k}) ELSE With(data, k, v))
        /\ used' = IF accounting
                     THEN used - IF v.len = 0 THEN Size(v) ELSE n
                     ELSE used
        /\ UNCHANGED skew

\* n elements go, and the key with the last of them.
Shrunk(k, n) ==
    LET v == [data[k] EXCEPT !.len = @ - n, !.at = now]
    IN  IF v.len = 0 THEN DeleteKeys({k})
        ELSE /\ Change(With(data, k, v))
             /\ used' = IF accounting THEN used + (Size(v) - Size(data[k])) ELSE used
             /\ UNCHANGED skew

\* A removal of up to n elements from a collection, which also goes when it is
\* found expired.
Shrink(k, kind, ns) ==
    /\ Running /\ k \in DOMAIN data
    /\ \/ Expired(data[k], now) /\ DeleteKeys({k})
       \/ /\ data[k].kind = kind /\ ~Expired(data[k], now)
          /\ \E n \in ns : Shrunk(k, Min({n, data[k].len}))
    /\ UNCHANGED <<now, maxMemory, write, sweepVars, noted, owed, saved>>

Pop(k) == Shrink(k, "list", {1})
PopN(k) == Shrink(k, "list", 0..MaxLength)
HDel(k) == Shrink(k, "hash", 0..MaxLength)
SRem(k) == Shrink(k, "set", 0..MaxLength)

-----------------------------------------------------------------------------
(* Reads and expiry.                                                       *)

\* readKey: an expired key is left to dropIfStillExpired, after the read lock
\* is released; a live one gets its access stamp.
Read(k) ==
    /\ Running /\ k \in DOMAIN data
    /\ IF Expired(data[k], now)
         THEN drops' = drops \cup {k} /\ UNCHANGED data
         ELSE data' = [data EXCEPT ![k].at = now] /\ UNCHANGED drops
    /\ UNCHANGED <<now, memVars, maxMemory, write, sweep, noted, owed, saved>>

\* Mutant of DropIfStillExpired: the key is deleted without a second look.
DropWithoutRecheck(k) ==
    /\ Running /\ k \in drops
    /\ drops' = drops \ {k}
    /\ DeleteKeys({k})
    /\ UNCHANGED <<now, maxMemory, write, sweep, noted, owed, saved>>

DropIfStillExpired(k) ==
    /\ Running /\ k \in drops
    /\ drops' = drops \ {k}
    /\ DeleteKeys({k} \cap ExpiredKeys(data, now))
    /\ UNCHANGED <<now, maxMemory, write, sweep, noted, owed, saved>>

\* The expiry loop reads the clock and samples keys, shard by shard.
SnapshotKeys ==
    /\ Running /\ sweep = NoSweep
    /\ \E ks \in SUBSET DOMAIN data :
         /\ ks # {} /\ Cardinality(ks) <= SampleSize
         /\ sweep' = [keys |-> ks, at |-> now]
    /\ UNCHANGED <<now, data, memVars, maxMemory, write, drops, noted, owed, saved>>

\* Mutant of EvictExpiredSample: what was removed is queued and not published.
SweepWithoutPublish ==
    /\ Running /\ sweep # NoSweep
    /\ LET gone == sweep.keys \cap ExpiredKeys(data, sweep.at)
       IN  DeleteKeys(gone) /\ noted' = noted \cup gone
    /\ sweep' = NoSweep
    /\ UNCHANGED <<now, maxMemory, write, drops, owed, saved>>

\* evictExpiredSample: the sampled keys' shards are locked and the values are
\* looked at again.  An empty result is not published.
EvictExpiredSample ==
    /\ Running /\ sweep # NoSweep /\ owed < MaxOwed
    /\ LET gone == sweep.keys \cap ExpiredKeys(data, sweep.at)
       IN  /\ DeleteKeys(gone)
           /\ noted' = noted \cup gone
           /\ owed' = IF gone = {} THEN owed ELSE owed + 1
    /\ sweep' = NoSweep
    /\ UNCHANGED <<now, maxMemory, write, drops, saved>>

\* publishExpiredKeys takes the queue, whoever queued the keys.
PublishExpiredKeys ==
    /\ owed > 0
    /\ owed' = owed - 1
    /\ noted' = {}
    /\ UNCHANGED <<now, data, memVars, maxMemory, write, sweepVars, saved>>

\* ReplaceWith: a replica swaps in the snapshot of its master.
ReplaceWith ==
    /\ Running /\ owed < MaxOwed
    /\ \E d \in Loaded :
         IF accounting THEN Recalculate(d, now)
         ELSE Change(d) /\ UNCHANGED <<used, skew, noted>>
    /\ owed' = owed + 1
    /\ UNCHANGED <<now, maxMemory, write, sweepVars, saved>>

-----------------------------------------------------------------------------
Next ==
    \/ Tick \/ Start
    \/ \E k \in Keys : \/ Set(k) \/ Increment(k) \/ SetBit(k) \/ PFAdd(k)
                       \/ PushList(k) \/ XAdd(k) \/ HSet(k) \/ SAdd(k) \/ ZAdd(k)
                       \/ Pop(k) \/ PopN(k) \/ HDel(k) \/ SRem(k)
                       \/ Read(k) \/ DropIfStillExpired(k)
    \/ \E ks \in SUBSET Keys : ks # {} /\ Delete(ks)
    \/ EvictOne \/ CommitWrite \/ RejectWrite \/ FinishStartup
    \/ SnapshotKeys \/ EvictExpiredSample \/ PublishExpiredKeys \/ ReplaceWith

Spec == Init /\ [][Next]_vars

-----------------------------------------------------------------------------
(* Properties.                                                             *)

\* UsedMemory is the size of what the maps hold, whatever mixture of commands,
\* expiries and evictions led there; all that can blur it is a write whose own
\* key expired between its two clock readings, until the next measurement.
\* KeyStats counts, kind by kind, what the maps hold (setKeyLocked and
\* removeKeyLocked see every change, an overwrite by another kind included).
AccountingExact ==
    /\ accounting => used + skew = TotalSize(data)
    /\ \A kind \in Kinds : counts[kind] = KindCount(data, kind)

\* Eviction for a write is all or nothing: a write that had to make room leaves
\* the keyspace within maxmemory, and one that is refused for memory has
\* evicted nothing (the decision is taken before the first eviction and never
\* revised after it).
EvictsEnoughOrNothing ==
    [][/\ CommitWrite => TotalSize(data') <= maxMemory + skew'
       /\ RejectWrite => data = saved]_vars

\* The reader's reclaim and the expiry loop act on what they saw before they
\* took the lock, yet remove no key that has been renewed in between.
OnlyExpiredSwept ==
    [][\A k \in DOMAIN data :
         (EvictExpiredSample \/ \E j \in Keys : DropIfStillExpired(j))
           /\ k \notin DOMAIN data' => Expired(data[k], now)]_vars

\* A key that a sweep removed is not forgotten: as long as it is queued, some
\* goroutine is on its way to publishExpiredKeys.
QueuedIsPublished == noted # {} => owed > 0 \/ Locked
=============================================================================
