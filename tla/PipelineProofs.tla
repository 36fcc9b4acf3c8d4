--------------------------- MODULE PipelineProofs ---------------------------
(***************************************************************************)
(* Proofs about Pipeline, for any number of clients, keys, shards and      *)
(* scenarios: nothing unlogged is announced under appendfsync always, and  *)
(* a key changes only under the lock of its shard.  Then what it takes for *)
(* the file and the replica to be copies of the keyspace, and what each    *)
(* step makes of that for one key; CopyProofs goes on from there.          *)
(***************************************************************************)
EXTENDS Pipeline, TLAPS

(***************************************************************************)
(* Announcements.  What is about to be sent is in the file already.        *)
(***************************************************************************)

\* The inductive invariant: a goroutine that has come as far as a send under
\* always has appended the same payload, and its number has not changed since.
LoggedFirst ==
    /\ pc \in [Procs -> PcValues] /\ nr \in [Procs -> Nat] /\ begun \in Nat
    /\ cast.policy = "always" =>
          /\ sent \subseteq appended
          /\ \A p \in Procs : pc[p] = "send" => <<nr[p], "own">> \in appended
          /\ \A p \in Procs : pc[p] = "send expired" => <<nr[p], "expired">> \in appended

\* Starting an activity cannot make anything pending.
LEMMA BeginLoggedFirst ==
  ASSUME LoggedFirst, NEW p \in Procs, NEW ss, Begin(p, ss)
  PROVE  LoggedFirst'
<1>1. pc' \in [Procs -> PcValues]
  BY Zenon DEF LoggedFirst, Begin, PcValues
<1>2. nr' \in [Procs -> Nat] /\ begun' \in Nat
  <2>1. begun' = begun + 1 /\ nr' = [nr EXCEPT ![p] = begun + 1]
    BY Zenon DEF Begin
  <2>2. begun \in Nat /\ nr \in [Procs -> Nat]
    BY Zenon DEF LoggedFirst
  <2>3. QED
    BY <2>1, <2>2
<1>3. UNCHANGED <<cast, appended, sent>>
  BY Zenon DEF Begin, fileVars, replicaVars
<1>4. \A q \in Procs : pc'[q] \in {"send", "send expired"} =>
         pc'[q] = pc[q] /\ nr'[q] = nr[q]
  BY Zenon DEF LoggedFirst, Begin
<1>5. QED
  BY Zenon, <1>1, <1>2, <1>3, <1>4 DEF LoggedFirst

\* Every step of the pipeline keeps LoggedFirst.
LEMMA LoggedFirstStep == ASSUME LoggedFirst, [Next]_vars PROVE LoggedFirst'
<1> USE DEF run, fileVars, replicaVars, Step, Procs, PcValues
<1>1. CASE UNCHANGED vars
  BY Zenon, <1>1 DEF LoggedFirst, vars
<1>2. CASE TimePasses \/ RLock \/ SnapshotStrings \/ Apply
  BY Zenon, <1>2 DEF LoggedFirst, TimePasses, RLock, SnapshotStrings, Apply
<1>3. CASE \E p \in Clients : Request(p)
  BY Zenon, <1>3, BeginLoggedFirst DEF Request
<1>4. CASE BeginSweep \/ BeginRewrite \/ BeginSnapshot
  BY Zenon, <1>4, BeginLoggedFirst DEF BeginSweep, BeginRewrite, BeginSnapshot
<1>5. CASE Sweep
  BY Zenon, <1>5 DEF LoggedFirst, Sweep
<1>6. CASE Barrier
  BY Zenon, <1>6 DEF LoggedFirst, Barrier
<1>7. CASE Install
  BY Zenon, <1>7 DEF LoggedFirst, Install
<1>8. ASSUME NEW p \in Clients, Serves(p) PROVE LoggedFirst'
  <2>1. CASE Change(p)
    BY Zenon, <2>1 DEF LoggedFirst, Change
  <2>2. CASE ChangeInPlace(p)
    BY Zenon, <2>2 DEF LoggedFirst, ChangeInPlace
  <2>3. CASE ChangeRefused(p)
    BY Zenon, <2>3 DEF LoggedFirst, ChangeRefused
  <2>4. CASE \E victims \in SUBSET Keys : ChangeWithEviction(p, victims)
    BY Zenon, <2>4 DEF LoggedFirst, ChangeWithEviction
  <2>5. CASE LogFrames(p)
    BY Zenon, <2>5 DEF LoggedFirst, LogFrames
  <2>6. CASE LogFramesFails(p)
    BY Zenon, <2>6 DEF LoggedFirst, LogFramesFails
  <2>7. CASE Send(p)
    BY Zenon, <2>7 DEF LoggedFirst, Send
  <2>8. QED
    BY <1>8, <2>1, <2>2, <2>3, <2>4, <2>5, <2>6, <2>7 DEF Serves
<1>9. ASSUME NEW p \in Procs, Works(p) PROVE LoggedFirst'
  <2>1. CASE Lock(p) \/ Locked(p)
    BY Zenon, <2>1 DEF LoggedFirst, Lock, Locked
  <2>2. CASE Take(p)
    BY Zenon, <2>2 DEF LoggedFirst, Take, AfterPublish
  <2>3. CASE LogExpired(p)
    BY Zenon, <2>3 DEF LoggedFirst, LogExpired
  <2>4. CASE LogExpiredFails(p)
    BY Zenon, <2>4 DEF LoggedFirst, LogExpiredFails, AfterPublish
  <2>5. CASE SendExpired(p)
    BY Zenon, <2>5 DEF LoggedFirst, SendExpired, AfterPublish
  <2>6. QED
    BY <1>9, <2>1, <2>2, <2>3, <2>4, <2>5 DEF Works
<1>10. QED
  BY <1>1, <1>2, <1>3, <1>4, <1>5, <1>6, <1>7, <1>8, <1>9 DEF Next

\* Under always a replica is sent nothing that is not in the file, neither a
\* client's change nor the deletion of an expired key (executeClientRequest,
\* recordExpiredKeys).
THEOREM NothingUnloggedIsSent == Spec => []AnnouncedIsDurable
<1>1. Init => LoggedFirst
  BY DEF Init, LoggedFirst, PcValues
<1>2. LoggedFirst => AnnouncedIsDurable
  BY Zenon DEF LoggedFirst, AnnouncedIsDurable
<1>3. QED
  BY <1>1, <1>2, LoggedFirstStep, PTL DEF Spec

(***************************************************************************)
(* Locks.  What a goroutine needs and no longer waits for, it owns.        *)
(***************************************************************************)

Owned(p, s) == writer[s] = p /\ readers[s] = {}

\* The shards of the keys that p may change.
Needs(p) ==
    IF p \in Clients /\ cast.accounting /\ frames[p][1].op # "del" THEN AllShards
    ELSE ShardsOf(frames[p][1].keys)

LockTypes ==
    /\ cast \in Casts /\ pc \in [Procs -> PcValues]
    /\ writer \in [Shards -> Procs \cup {None}] /\ readers \in [Shards -> SUBSET Procs]
    /\ want \in [Procs -> SUBSET Shards] /\ DOMAIN frames = Procs

LocksHeld ==
    \A p \in Clients \cup {Sweeper} : pc[p] = "locking" =>
        /\ frames[p][1].keys \subseteq Keys
        /\ frames[p][1].op \in {"set", "incr", "del"}
        /\ \A s \in Needs(p) \ want[p] : Owned(p, s)

\* A step that lets everyone but p alone, and after which p is not locking,
\* keeps LocksHeld if it takes no lock from the others.
LEMMA OthersKeepLocks ==
  ASSUME LockTypes, LocksHeld, NEW p \in Procs, cast' = cast,
         pc' \in [Procs -> PcValues], pc'[p] # "locking",
         \A q \in Procs \ {p} : pc'[q] = pc[q] /\ want'[q] = want[q]
                                               /\ frames'[q] = frames[q],
         \A q \in Procs \ {p} : \A s \in Shards : Owned(q, s) => Owned(q, s)'
  PROVE  LocksHeld'
<1> SUFFICES ASSUME NEW q \in Clients \cup {Sweeper}, pc'[q] = "locking"
             PROVE  /\ frames'[q][1].keys \subseteq Keys
                    /\ frames'[q][1].op \in {"set", "incr", "del"}
                    /\ \A s \in Needs(q)' \ want'[q] : Owned(q, s)'
  BY Zenon DEF LocksHeld
<1>1. q \in Procs \ {p}
  BY Zenon DEF Procs
<1>2. Needs(q)' = Needs(q)
  BY ZenonT(40), <1>1 DEF Needs, AllShards, ShardsOf
<1>3. frames[q][1].keys \subseteq Keys /\ Needs(q) \subseteq Shards
  BY <1>1, CastsAssumption DEF LocksHeld, LockTypes, Needs, AllShards, ShardsOf
<1>4. QED
  BY Zenon, <1>1, <1>2, <1>3 DEF LocksHeld

\* Unlock takes no lock from the others.
LEMMA UnlockKeepsOwned ==
  ASSUME LockTypes, NEW p \in Procs, Unlock(p), UNCHANGED readers,
         NEW q \in Procs \ {p}, NEW s \in Shards, Owned(q, s)
  PROVE  Owned(q, s)'
  BY Zenon DEF LockTypes, Unlock, Owned

\* The shards of keys are shards, and a request asks for the locks it needs.
LEMMA ShardsAreShards ==
  ASSUME cast \in Casts
  PROVE  /\ AllShards \subseteq Shards
         /\ \A ks \in SUBSET Keys : ShardsOf(ks) \subseteq AllShards
         /\ \A k \in Keys : cast.shard[k] \in AllShards
         /\ \A ks \in SUBSET Keys : \A k \in ks : cast.shard[k] \in ShardsOf(ks)
  BY Zenon, CastsAssumption DEF AllShards, ShardsOf

\* Starting an activity keeps the types of the locks.
LEMMA BeginTypes ==
  ASSUME LockTypes, NEW p \in Procs, NEW ss \in SUBSET Shards, Begin(p, ss),
         DOMAIN frames' = Procs
  PROVE  LockTypes'
  BY Zenon DEF LockTypes, Begin, lockVars, PcValues

\* Every step keeps the types of the locks.
LEMMA LockTypesStep ==
  ASSUME LockTypes, DOMAIN db \subseteq Keys, [Next]_vars
  PROVE  LockTypes'
<1> USE DEF run, lockVars, Step, Emits, Procs, PcValues
<1>1. CASE UNCHANGED vars
  BY Zenon, <1>1 DEF LockTypes, vars
<1>2. CASE TimePasses \/ SnapshotStrings \/ Apply
  <2>1. CASE TimePasses
    BY Zenon, <2>1 DEF LockTypes, TimePasses
  <2>2. CASE SnapshotStrings
    <3>1. readers' \in [Shards -> SUBSET Procs]
      BY Zenon, <2>2 DEF LockTypes, SnapshotStrings
    <3>2. QED
      BY Zenon, <2>2, <3>1 DEF LockTypes, SnapshotStrings
  <2>3. CASE Apply
    BY Zenon, <2>3 DEF LockTypes, Apply
  <2>4. QED
    BY <1>2, <2>1, <2>2, <2>3
<1>3. CASE RLock
  BY Zenon, <1>3 DEF LockTypes, RLock
<1>4. CASE \E p \in Clients : Request(p)
  <2>0. PICK p \in Clients : Request(p)
    BY Zenon, <1>4
  <2>1. PICK r \in cast.script[p] : Begin(p, LocksOf(r)) /\ DOMAIN frames' = Procs
    BY Zenon, <2>0 DEF Request, LockTypes
  <2>2. r.keys \subseteq Keys
    BY Zenon, <2>1, CastsAssumption DEF LockTypes
  <2>3. LocksOf(r) \in SUBSET Shards
    BY Zenon, <2>2, ShardsAreShards DEF LocksOf, LockTypes
  <2>4. QED
    BY <2>1, <2>3, BeginTypes
<1>5. CASE BeginSweep
  <2>1. PICK sample \in SUBSET DOMAIN db : Begin(Sweeper, ShardsOf(sample)) /\ DOMAIN frames' = Procs
    BY Zenon, <1>5 DEF BeginSweep, LockTypes
  <2>2. QED
    BY Zenon, <2>1, BeginTypes, ShardsAreShards DEF LockTypes
<1>6. CASE BeginRewrite \/ BeginSnapshot
  BY Zenon, <1>6, BeginTypes, ShardsAreShards DEF BeginRewrite, BeginSnapshot, LockTypes
<1>7. CASE Sweep
  BY Zenon, <1>7 DEF LockTypes, Sweep, Unlock
<1>8. CASE Barrier
  BY Zenon, <1>8 DEF LockTypes, Barrier, Unlock
<1>9. CASE Install
  BY Zenon, <1>9 DEF LockTypes, Install
<1>10. ASSUME NEW p \in Clients, Serves(p) PROVE LockTypes'
  <2>1. CASE Change(p)
    BY Zenon, <2>1 DEF LockTypes, Change, Unlock
  <2>2. CASE ChangeInPlace(p)
    BY Zenon, <2>2 DEF LockTypes, ChangeInPlace, Unlock
  <2>3. CASE ChangeRefused(p)
    BY Zenon, <2>3 DEF LockTypes, ChangeRefused, Unlock
  <2>4. CASE \E victims \in SUBSET Keys : ChangeWithEviction(p, victims)
    <3>1. writer' \in [Shards -> Procs \cup {None}] /\ DOMAIN frames' = Procs
      BY Zenon, <2>4 DEF LockTypes, ChangeWithEviction, Unlock
    <3>2. pc' \in [Procs -> PcValues] /\ UNCHANGED <<cast, readers, want>>
      BY ZenonT(40), <2>4 DEF LockTypes, ChangeWithEviction
    <3>3. QED
      BY Zenon, <3>1, <3>2 DEF LockTypes
  <2>5. CASE LogFrames(p)
    BY Zenon, <2>5 DEF LockTypes, LogFrames
  <2>6. CASE LogFramesFails(p)
    BY Zenon, <2>6 DEF LockTypes, LogFramesFails
  <2>7. CASE Send(p)
    BY Zenon, <2>7 DEF LockTypes, Send
  <2>8. QED
    BY <1>10, <2>1, <2>2, <2>3, <2>4, <2>5, <2>6, <2>7 DEF Serves
<1>11. ASSUME NEW p \in Procs, Works(p) PROVE LockTypes'
  <2>1. CASE Lock(p)
    BY Zenon, <2>1 DEF LockTypes, Lock
  <2>2. CASE Locked(p)
    BY Zenon, <2>2 DEF LockTypes, Locked
  <2>3. CASE Take(p)
    BY Zenon, <2>3 DEF LockTypes, Take, AfterPublish
  <2>4. CASE LogExpired(p)
    BY Zenon, <2>4 DEF LockTypes, LogExpired
  <2>5. CASE LogExpiredFails(p)
    BY Zenon, <2>5 DEF LockTypes, LogExpiredFails, AfterPublish
  <2>6. CASE SendExpired(p)
    BY Zenon, <2>6 DEF LockTypes, SendExpired, AfterPublish
  <2>7. QED
    BY <1>11, <2>1, <2>2, <2>3, <2>4, <2>5, <2>6 DEF Works
<1>12. QED
  BY Zenon, <1>1, <1>2, <1>3, <1>4, <1>5, <1>6, <1>7, <1>8, <1>9, <1>10, <1>11 DEF Next

\* A command leaves the other keys alone, and adds none but its own.
LEMMA ExecuteTouchesItsKeys ==
  ASSUME NEW d, NEW f, NEW t, f.op \in {"set", "incr", "del"}
  PROVE  /\ \A k : k \notin f.keys => At(Execute(d, f, t), k) = At(d, k)
         /\ DOMAIN Execute(d, f, t) \subseteq DOMAIN d \cup f.keys
<1>1. CASE f.op = "set"
  BY Zenon, <1>1 DEF Execute, At, With
<1>2. CASE f.op = "del"
  BY Zenon, <1>2 DEF Execute, At, Without, Restrict
<1>3. CASE f.op = "incr"
  <2> DEFINE old(k) == IF k \in DOMAIN Live(d, t) THEN d[k] ELSE Value(0, 0)
             new == [k \in f.keys |-> Value(old(k).n + 1, old(k).exp)]
  <2>1. Execute(d, f, t) = With(d, new)
    BY Zenon, <1>3 DEF Execute
  <2>2. DOMAIN new = f.keys
    BY Zenon
  <2> HIDE DEF new
  <2>3. QED
    BY Zenon, <2>1, <2>2 DEF At, With
<1>4. QED
  BY Zenon, <1>1, <1>2, <1>3

\* Taking keys away leaves the others alone.
LEMMA WithoutTouchesItsKeys ==
  ASSUME NEW d, NEW S
  PROVE  /\ \A k : k \notin S => At(Without(d, S), k) = At(d, k)
         /\ DOMAIN Without(d, S) \subseteq DOMAIN d
  BY Zenon DEF At, Without, Restrict

LockInv == LockTypes /\ LocksHeld /\ DOMAIN db \subseteq Keys

\* A step after which p does not lock, and which leaves the locks of others.
LEMMA FinishingKeepsLocks ==
  ASSUME LockInv, LockTypes', NEW p \in Procs, NEW next \in PcValues \ {"locking"},
         cast' = cast, Step(p, next), UNCHANGED want,
         \A q \in Procs \ {p} : frames'[q] = frames[q],
         (UNCHANGED writer \/ Unlock(p)), UNCHANGED readers
  PROVE  LocksHeld'
<1>1. pc'[p] # "locking" /\ \A q \in Procs \ {p} : pc'[q] = pc[q]
  BY Zenon DEF LockInv, LockTypes, Step
<1>2. \A q \in Procs \ {p} : \A s \in Shards : Owned(q, s) => Owned(q, s)'
  BY Zenon, UnlockKeepsOwned DEF LockInv, Owned
<1>3. QED
  BY Zenon, <1>1, <1>2, OthersKeepLocks DEF LockInv, LockTypes

\* A request or a sweep that begins waits for all the locks it needs.
LEMMA BeginningKeepsLocks ==
  ASSUME LockInv, NEW p \in Procs, NEW ss, Begin(p, ss),
         \A q \in Procs \ {p} : frames'[q] = frames[q],
         p \in Clients \cup {Sweeper} =>
            /\ Needs(p)' \subseteq ss
            /\ frames'[p][1].keys \subseteq Keys
            /\ frames'[p][1].op \in {"set", "incr", "del"}
  PROVE  LocksHeld'
<1> SUFFICES ASSUME NEW q \in Clients \cup {Sweeper}, pc'[q] = "locking"
             PROVE  /\ frames'[q][1].keys \subseteq Keys
                    /\ frames'[q][1].op \in {"set", "incr", "del"}
                    /\ \A s \in Needs(q)' \ want'[q] : Owned(q, s)'
  BY Zenon DEF LocksHeld
<1>1. q \in Procs
  BY Zenon DEF Procs
<1>2. CASE q = p
  BY Zenon, <1>2 DEF Begin, LockInv, LockTypes
<1>3. CASE q # p
  <2>1. pc[q] = "locking" /\ want'[q] = want[q] /\ frames'[q] = frames[q]
    BY Zenon, <1>1, <1>3 DEF Begin, LockInv, LockTypes
  <2>2. UNCHANGED <<cast, writer, readers>>
    BY Zenon DEF Begin, lockVars
  <2>3. Needs(q)' = Needs(q)
    BY Zenon, <2>1, <2>2 DEF Needs, AllShards, ShardsOf
  <2>4. QED
    BY <2>1, <2>2, <2>3 DEF LockInv, LocksHeld, Owned
<1>4. QED
  BY Zenon, <1>2, <1>3

\* Taking a lock keeps what is held, and a lock that is inside is owned.
LEMMA LockingKeepsLocks ==
  ASSUME LockInv, NEW p \in Procs, Lock(p) \/ Locked(p)
  PROVE  LocksHeld'
<1> SUFFICES ASSUME NEW q \in Clients \cup {Sweeper}, pc'[q] = "locking"
             PROVE  /\ frames'[q][1].keys \subseteq Keys
                    /\ frames'[q][1].op \in {"set", "incr", "del"}
                    /\ \A s \in Needs(q)' \ want'[q] : Owned(q, s)'
  BY Zenon DEF LocksHeld
<1>1. q \in Procs /\ q # None
  BY Zenon, ProcsAssumption DEF Procs
<1>2. UNCHANGED <<cast, pc, frames, readers>>
  BY Zenon DEF Lock, Locked, run, lockVars
<1>3. Needs(q)' = Needs(q)
  BY Zenon, <1>2 DEF Needs, AllShards, ShardsOf
<1>4. frames[q][1].keys \subseteq Keys /\ Needs(q) \subseteq Shards
  BY <1>2, CastsAssumption DEF LockInv, LocksHeld, LockTypes, Needs, AllShards, ShardsOf
<1>5. CASE Lock(p)
  <2>1. want' = want /\ writer[NextLock(p)] = None
        /\ writer' = [writer EXCEPT ![NextLock(p)] = p]
    BY Zenon, <1>5 DEF Lock
  <2>2. \A s \in Needs(q) \ want[q] : writer[s] = q /\ readers[s] = {} /\ s \in Shards
    BY Zenon, <1>2, <1>4 DEF LockInv, LocksHeld, Owned
  <2>3. \A s \in Needs(q) \ want[q] : writer'[s] = q
    BY Zenon, <1>1, <2>1, <2>2 DEF LockInv, LockTypes
  <2>4. QED
    BY Zenon, <1>2, <1>3, <2>1, <2>2, <2>3 DEF LockInv, LocksHeld, Owned
<1>6. CASE Locked(p)
  <2>1. writer' = writer /\ want' = [want EXCEPT ![p] = want[p] \ {NextLock(p)}]
        /\ writer[NextLock(p)] = p /\ readers[NextLock(p)] = {}
    BY Zenon, <1>6 DEF Locked, lockVars
  <2>2. \A s \in Needs(q) \ want'[q] : s \in Needs(q) \ want[q] \/ (q = p /\ s = NextLock(p))
    BY Zenon, <1>1, <2>1 DEF LockInv, LockTypes
  <2>3. QED
    BY <1>2, <1>3, <2>1, <2>2 DEF LockInv, LocksHeld, Owned
<1>7. QED
  BY Zenon, <1>5, <1>6

\* Readers come in only where nobody owns the lock.
LEMMA ReadingKeepsLocks ==
  ASSUME LockInv, LockTypes', RLock \/ SnapshotStrings
  PROVE  LocksHeld'
<1>1. Reader \in Procs /\ Reader \notin Clients \cup {Sweeper}
  BY Zenon, ProcsAssumption DEF Procs
<1>2. /\ UNCHANGED <<cast, writer, frames>>
      /\ \A q \in Procs \ {Reader} : pc'[q] = pc[q] /\ want'[q] = want[q]
  BY Zenon, <1>1 DEF RLock, SnapshotStrings, run, LockInv, LockTypes
<1>3. \A q \in Procs, s \in Shards : Owned(q, s) => Owned(q, s)'
  <2>1. CASE RLock
    BY <2>1, ProcsAssumption DEF RLock, Owned, LockInv, LockTypes
  <2>2. CASE SnapshotStrings
    BY Zenon, <2>2 DEF SnapshotStrings, Owned, LockInv, LockTypes
  <2>3. QED
    BY Zenon, <2>1, <2>2
<1> SUFFICES ASSUME NEW q \in Clients \cup {Sweeper}, pc'[q] = "locking"
             PROVE  /\ frames'[q][1].keys \subseteq Keys
                    /\ frames'[q][1].op \in {"set", "incr", "del"}
                    /\ \A s \in Needs(q)' \ want'[q] : Owned(q, s)'
  BY Zenon DEF LocksHeld
<1>4. q \in Procs /\ pc[q] = "locking" /\ want'[q] = want[q]
  BY Zenon, <1>1, <1>2 DEF Procs
<1>5. Needs(q)' = Needs(q)
  BY Zenon, <1>2 DEF Needs, AllShards, ShardsOf
<1>6. frames[q][1].keys \subseteq Keys /\ Needs(q) \subseteq Shards
  BY <1>4, CastsAssumption DEF LockInv, LocksHeld, LockTypes, Needs, AllShards, ShardsOf
<1>7. QED
  BY <1>2, <1>3, <1>4, <1>5, <1>6 DEF LockInv, LocksHeld

\* Every step keeps LocksHeld.
LEMMA LocksHeldStep == ASSUME LockInv, [Next]_vars PROVE LocksHeld'
<1>0. LockTypes'
  BY Zenon, LockTypesStep DEF LockInv
<1> USE DEF run, lockVars
<1>1. CASE UNCHANGED vars
  BY <1>1 DEF vars, LockInv, LocksHeld, Needs, AllShards, ShardsOf, Owned
<1>2. CASE TimePasses \/ Apply
  BY <1>2 DEF TimePasses, Apply, LockInv, LocksHeld, Needs, AllShards, ShardsOf, Owned
<1>3. CASE RLock \/ SnapshotStrings
  BY <1>0, <1>3, ReadingKeepsLocks
<1>4. CASE \E p \in Clients : Request(p)
  <2>1. PICK p \in Clients : Request(p)
    BY Zenon, <1>4
  <2>2. p \in Procs
    BY Zenon DEF Procs
  <2>3. PICK r \in cast.script[p] :
           /\ Begin(p, LocksOf(r)) /\ frames'[p][1].op = r.op /\ frames'[p][1].keys = r.keys
           /\ \A q \in Procs \ {p} : frames'[q] = frames[q]
    <3>1. PICK r \in cast.script[p] :
             /\ Begin(p, LocksOf(r))
             /\ Emits(p, << CASE r.op = "incr" -> IncrFrame(r.keys)
                              [] r.op = "del" -> DelFrame(r.keys)
                              [] r.op = "set" -> SetFrame(r.keys, r.n,
                                    IF r.ttl = 0 THEN 0 ELSE now + r.ttl) >>)
      BY Zenon, <2>1 DEF Request
    <3>2. r.op \in {"set", "incr", "del"}
      BY Zenon, <3>1, CastsAssumption DEF LockInv, LockTypes
    <3>3. QED
      BY <2>2, <3>1, <3>2 DEF Emits, IncrFrame, DelFrame, SetFrame, LockInv, LockTypes
  <2>4. r.op \in {"set", "incr", "del"} /\ r.keys \subseteq Keys
    BY Zenon, CastsAssumption DEF LockInv, LockTypes
  <2>5. Needs(p)' = LocksOf(r)
    BY Zenon, <2>3 DEF Needs, LocksOf, AllShards, ShardsOf, Begin
  <2>6. QED
    BY <2>2, <2>3, <2>4, <2>5, BeginningKeepsLocks
<1>5. CASE BeginSweep
  <2>1. PICK sample \in SUBSET DOMAIN db :
           /\ Begin(Sweeper, ShardsOf(sample))
           /\ frames' = [frames EXCEPT ![Sweeper] = <<DelFrame(sample)>>]
    BY Zenon, <1>5 DEF BeginSweep, Emits
  <2>2. Sweeper \in Procs /\ Sweeper \notin Clients
    BY Zenon, ProcsAssumption DEF Procs
  <2>3. frames'[Sweeper][1] = DelFrame(sample) /\ sample \subseteq Keys
    BY Zenon, <2>1, <2>2 DEF LockInv, LockTypes
  <2>4. Needs(Sweeper)' = ShardsOf(sample)
    <3>1. frames'[Sweeper][1].keys = sample
      BY <2>3 DEF DelFrame
    <3>2. cast' = cast
      BY Zenon, <2>1 DEF Begin
    <3> QED
      BY ONLY <2>2, <3>1, <3>2 DEF Needs, ShardsOf
  <2>5. QED
    BY <2>1, <2>2, <2>3, <2>4, BeginningKeepsLocks DEF DelFrame, LockInv, LockTypes
<1>6. CASE BeginRewrite \/ BeginSnapshot
  <2>1. Rewriter \in Procs \ (Clients \cup {Sweeper}) /\ Reader \in Procs \ (Clients \cup {Sweeper})
    BY Zenon, ProcsAssumption DEF Procs
  <2>2. QED
    BY <1>6, <2>1, BeginningKeepsLocks DEF BeginRewrite, BeginSnapshot
<1>7. CASE Sweep
  <2>1. Sweeper \in Procs
    BY Zenon DEF Procs
  <2>2. QED
    BY Zenon, <1>0, <1>7, <2>1, FinishingKeepsLocks DEF Sweep, PcValues, Emits, LockInv, LockTypes
<1>8. CASE Barrier \/ Install
  <2>1. Rewriter \in Procs
    BY Zenon DEF Procs
  <2>2. QED
    BY Zenon, <1>0, <1>8, <2>1, FinishingKeepsLocks DEF Barrier, Install, PcValues
<1>9. ASSUME NEW p \in Clients, Serves(p) PROVE LocksHeld'
  <2> USE <1>0, FinishingKeepsLocks DEF PcValues, Emits, LockInv, LockTypes
  <2>0. p \in Procs
    BY Zenon DEF Procs
  <2>1. CASE Change(p)
    BY Zenon, <2>0, <2>1 DEF Change
  <2>2. CASE ChangeInPlace(p)
    BY Zenon, <2>0, <2>2 DEF ChangeInPlace
  <2>3. CASE ChangeRefused(p)
    BY Zenon, <2>0, <2>3 DEF ChangeRefused
  <2>4. CASE \E victims \in SUBSET Keys : ChangeWithEviction(p, victims)
    BY Zenon, <2>0, <2>4 DEF ChangeWithEviction
  <2>5. CASE LogFrames(p)
    BY Zenon, <2>0, <2>5 DEF LogFrames
  <2>6. CASE LogFramesFails(p)
    BY Zenon, <2>0, <2>6 DEF LogFramesFails
  <2>7. CASE Send(p)
    BY Zenon, <2>0, <2>7 DEF Send
  <2>8. QED
    BY Zenon, <1>9, <2>1, <2>2, <2>3, <2>4, <2>5, <2>6, <2>7 DEF Serves
<1>10. ASSUME NEW p \in Procs, Works(p) PROVE LocksHeld'
  <2>1. CASE Lock(p) \/ Locked(p)
    BY <2>1, LockingKeepsLocks
  <2> USE <1>0, FinishingKeepsLocks DEF PcValues, AfterPublish
  <2>2. CASE Take(p)
    BY Zenon, <2>2 DEF Take
  <2>3. CASE LogExpired(p)
    BY Zenon, <2>3 DEF LogExpired
  <2>4. CASE LogExpiredFails(p)
    BY Zenon, <2>4 DEF LogExpiredFails
  <2>5. CASE SendExpired(p)
    BY Zenon, <2>5 DEF SendExpired
  <2>6. QED
    BY Zenon, <1>10, <2>1, <2>2, <2>3, <2>4, <2>5 DEF Works
<1>11. QED
  BY Zenon, <1>1, <1>2, <1>3, <1>4, <1>5, <1>6, <1>7, <1>8, <1>9, <1>10 DEF Next

\* What a step may do to the keyspace: nothing, or change keys of shards that
\* are owned by the goroutine that takes it.
LEMMA StepChangesOwnedKeys ==
  ASSUME LockInv, [Next]_vars
  PROVE  /\ \A k \in Keys : At(db', k) # At(db, k) =>
               \E p \in Procs : Owned(p, cast.shard[k])
         /\ DOMAIN db' \subseteq Keys
<1> USE DEF run, LockInv
<1>1. CASE UNCHANGED db
  BY Zenon, <1>1 DEF At
<1>2. CASE Sweep
  <2> DEFINE f == frames[Sweeper][1]
             gone == f.keys \cap ExpiredKeys(db, clock[Sweeper])
  <2>1. Sweeper \in Procs /\ Sweeper \notin Clients /\ Holds(Sweeper) /\ db' = Without(db, gone)
    BY Zenon, <1>2, ProcsAssumption DEF Sweep, Procs
  <2>2. f.keys \subseteq Keys /\ \A s \in Needs(Sweeper) : Owned(Sweeper, s)
    BY Zenon, <2>1 DEF Holds, LocksHeld
  <2>3. \A k \in f.keys : cast.shard[k] \in Needs(Sweeper)
    BY <2>1, <2>2, ShardsAreShards DEF Needs, LockTypes
  <2>4. QED
    BY <2>1, <2>2, <2>3, WithoutTouchesItsKeys
<1>3. ASSUME NEW p \in Clients, Change(p)
      PROVE  /\ \A k \in Keys : At(db', k) # At(db, k) => \E q \in Procs : Owned(q, cast.shard[k])
             /\ DOMAIN db' \subseteq Keys
  <2> DEFINE f == frames[p][1]
  <2>1. p \in Procs /\ Holds(p) /\ (cast.accounting => f.op = "del") /\ db' = Execute(db, f, clock[p])
    BY Zenon, <1>3 DEF Change, Procs
  <2>2. /\ f.keys \subseteq Keys /\ f.op \in {"set", "incr", "del"}
        /\ \A s \in Needs(p) : Owned(p, s)
    BY Zenon, <2>1 DEF Holds, LocksHeld
  <2>3. \A k \in f.keys : cast.shard[k] \in Needs(p)
    BY <2>1, <2>2, ShardsAreShards DEF Needs, LockTypes
  <2>4. /\ \A k : k \notin f.keys => At(Execute(db, f, clock[p]), k) = At(db, k)
        /\ DOMAIN Execute(db, f, clock[p]) \subseteq DOMAIN db \cup f.keys
    BY <2>2, ExecuteTouchesItsKeys
  <2>5. QED
    BY <2>1, <2>2, <2>3, <2>4
<1>4. ASSUME NEW p \in Clients, NEW victims \in SUBSET Keys,
             ChangeInPlace(p) \/ ChangeRefused(p) \/ ChangeWithEviction(p, victims)
      PROVE  /\ \A k \in Keys : At(db', k) # At(db, k) => \E q \in Procs : Owned(q, cast.shard[k])
             /\ DOMAIN db' \subseteq Keys
  <2> DEFINE f == frames[p][1]
  <2>1. p \in Procs /\ Holds(p) /\ cast.accounting /\ f.op # "del"
    BY Zenon, <1>4 DEF ChangeInPlace, ChangeRefused, ChangeWithEviction, Procs
  <2>2. /\ f.keys \subseteq Keys /\ f.op \in {"set", "incr", "del"}
        /\ \A s \in AllShards : Owned(p, s)
    BY Zenon, <2>1 DEF Holds, LocksHeld, Needs
  <2>3. \A k \in Keys : Owned(p, cast.shard[k])
    BY Zenon, <2>2, ShardsAreShards DEF LockTypes
  <2>4. DOMAIN db' \subseteq Keys
    <3>1. DOMAIN Execute(db, f, clock[p]) \subseteq Keys
      <4>1. DOMAIN Execute(db, f, clock[p]) \subseteq DOMAIN db \cup f.keys
        BY ONLY <2>2, ExecuteTouchesItsKeys
      <4> QED
        BY Zenon, <2>2, <4>1
    <3>2. CASE ChangeInPlace(p)
      BY Zenon, <3>1, <3>2 DEF ChangeInPlace
    <3>3. CASE ChangeRefused(p)
      BY Zenon, <3>3, WithoutTouchesItsKeys DEF ChangeRefused
    <3>4. CASE ChangeWithEviction(p, victims)
      <4>1. db' = With(Without(db, Swept(p) \cup victims),
                       Restrict(Execute(db, f, clock[p]), f.keys))
        BY Zenon, <3>4 DEF ChangeWithEviction
      <4>2. QED
        BY Zenon, <2>2, <4>1, WithoutTouchesItsKeys DEF With, Restrict
    <3>5. QED
      BY Zenon, <1>4, <3>2, <3>3, <3>4
  <2>5. QED
    BY Zenon, <2>1, <2>3, <2>4
<1>5. QED
  <2>1. CASE Next
    <3>1. CASE \E p \in Clients : Request(p)
      BY Zenon, <1>1, <3>1 DEF Request, Begin
    <3>2. CASE \E p \in Clients : Serves(p)
      <4>1. PICK p \in Clients : Serves(p)
        BY Zenon, <3>2
      <4>2. CASE LogFrames(p) \/ LogFramesFails(p) \/ Send(p)
        BY Zenon, <1>1, <4>2 DEF LogFrames, LogFramesFails, Send
      <4>3. QED
        BY <1>3, <1>4, <4>1, <4>2 DEF Serves
    <3>3. CASE \E p \in Procs : Works(p)
      BY Zenon, <1>1, <3>3 DEF Works, Lock, Locked, Take, LogExpired, LogExpiredFails, SendExpired
    <3>4. CASE TimePasses \/ RLock \/ SnapshotStrings \/ Apply
      BY Zenon, <1>1, <3>4 DEF TimePasses, RLock, SnapshotStrings, Apply
    <3>5. CASE BeginSweep \/ BeginRewrite \/ BeginSnapshot \/ Barrier \/ Install
      BY Zenon, <1>1, <3>5 DEF BeginSweep, BeginRewrite, BeginSnapshot, Barrier, Install, Begin
    <3>6. QED
      BY <1>2, <2>1, <3>1, <3>2, <3>3, <3>4, <3>5 DEF Next
  <2>2. QED
    BY Zenon, <1>1, <2>1 DEF vars

\* A key changes only while its shard's lock is held for writing and no reader
\* is inside, for any number of shards and of keys in a DEL (writeKey,
\* DeleteMany, evictExpiredSample).
THEOREM KeysChangeUnderLock == Spec => ChangesUnderLock
<1>1. Init => LockInv
  <2>1. Init => LockTypes
    BY Zenon DEF Init, LockTypes, PcValues
  <2>2. Init => \A p \in Clients \cup {Sweeper} : pc[p] # "locking"
    BY Zenon DEF Init, Procs
  <2>3. Init => DOMAIN db \subseteq Keys
    BY DEF Init
  <2>4. QED
    BY Zenon, <2>1, <2>2, <2>3 DEF LockInv, LocksHeld
<1>2. LockInv /\ [Next]_vars => LockInv'
  BY Zenon, LockTypesStep, LocksHeldStep, StepChangesOwnedKeys DEF LockInv
<1>3. LockInv /\ [Next]_vars =>
        [\A k \in Keys : At(db', k) # At(db, k) =>
            writer[cast.shard[k]] # None /\ readers[cast.shard[k]] = {}]_vars
  BY Zenon, StepChangesOwnedKeys, ProcsAssumption DEF Owned
<1>4. QED
  BY <1>1, <1>2, <1>3, PTL DEF Spec, ChangesUnderLock

(***************************************************************************)
(* Copies of the data.  A copy is a starting point and the frames executed *)
(* on it: the empty keyspace and the file, the empty keyspace and the file *)
(* of a rewrite, the replica and what is on its way to it.  Frames are     *)
(* executed at other times than the requests were, so that what matters of *)
(* a frame is what it makes of whatever it meets: it overwrites (Fixes) or *)
(* it counts, once, on the value that the request counted on (Tracks).     *)
(***************************************************************************)

\* The operations a frame can carry.
Ops == {"set", "incr", "del"}

\* What d holds under k, and what of that can be seen at time t.
Alike(d, e, k) ==
    (k \in DOMAIN d <=> k \in DOMAIN e) /\ (k \in DOMAIN d => d[k] = e[k])
Shows(d, k, t) == k \in DOMAIN d /\ (d[k].exp = 0 \/ t <= d[k].exp)

\* From time n on nobody can tell d from e by looking at k.
Same(d, e, k, n) ==
    \A t \in Nat : t >= n =>
        /\ Shows(d, k, t) <=> Shows(e, k, t)
        /\ Shows(d, k, t) => d[k] = e[k]

\* Executing the frames fs one after another, each at some time from n on,
\* may turn d into e.
Yields(n, d, fs, e) ==
    \E s : /\ s[0] = d /\ s[Len(fs)] = e
           /\ \A i \in 1..Len(fs) : \E t \in Nat : t >= n /\ s[i] = Execute(s[i - 1], fs[i], t)

\* The copy that is made of d and the frames fs has the keyspace's k, h, once
\* the frames F have been added (one at most, see OneOwner).
Tracks(n, h, d, fs, k, F) ==
    \A e : Yields(n, d, fs, e) =>
        IF F = {} THEN Same(e, h, k, n)
        ELSE \A f \in F : f.op = "incr" =>
                \A t \in Nat : t >= n => Same(Execute(e, f, t), h, k, n)

\* Executing f, an overwriting frame, makes the keyspace's k, h.
Fixes(n, h, f, k) ==
    f.op # "incr" => \A d, t : Same(Execute(d, f, t), h, k, n)

\* The live part of d is what shows of it.
LEMMA LiveShows ==
  ASSUME NEW d, NEW t
  PROVE  /\ \A k : k \in DOMAIN Live(d, t) <=> Shows(d, k, t)
         /\ \A k \in DOMAIN Live(d, t) : Live(d, t)[k] = d[k]
  BY Zenon DEF Live, Shows, Restrict

\* Keyspaces that hold the same under k look the same under k.
LEMMA AlikeIsSame ==
  ASSUME NEW d, NEW e, NEW k, Alike(d, e, k), NEW n
  PROVE  Same(d, e, k, n) /\ Same(e, d, k, n)
  BY Zenon DEF Alike, Same, Shows

\* Looking the same under k is symmetric and transitive.
LEMMA SameBoth ==
  ASSUME NEW d, NEW e, NEW k, NEW n, Same(d, e, k, n)
  PROVE  Same(e, d, k, n) /\ \A g : Same(e, g, k, n) => Same(d, g, k, n)
  BY Zenon DEF Same

\* A set frame leaves its value under each of its keys.
LEMMA SetGives ==
  ASSUME NEW d, NEW f, NEW t, f.op = "set", NEW k \in f.keys
  PROVE  k \in DOMAIN Execute(d, f, t) /\ Execute(d, f, t)[k] = f.value
<1>1. Execute(d, f, t) = With(d, [j \in f.keys |-> f.value])
  BY Zenon DEF Execute
<1> QED
  BY Zenon, <1>1 DEF With

\* A del frame leaves nothing under its keys.
LEMMA DelGives ==
  ASSUME NEW d, NEW f, NEW t, f.op = "del", NEW k \in f.keys
  PROVE  k \notin DOMAIN Execute(d, f, t)
<1>1. Execute(d, f, t) = Without(d, f.keys)
  BY Zenon DEF Execute
<1> QED
  BY Zenon, <1>1 DEF Without, Restrict

\* An incr frame counts on from what shows, or from nothing.
LEMMA IncrGives ==
  ASSUME NEW d, NEW f, NEW t, f.op = "incr", NEW k \in f.keys
  PROVE  LET old == IF Shows(d, k, t) THEN d[k] ELSE Value(0, 0)
         IN  /\ k \in DOMAIN Execute(d, f, t)
             /\ Execute(d, f, t)[k] = Value(old.n + 1, old.exp)
<1> DEFINE old(j) == IF j \in DOMAIN Live(d, t) THEN d[j] ELSE Value(0, 0)
           new == [j \in f.keys |-> Value(old(j).n + 1, old(j).exp)]
<1>1. Execute(d, f, t) = With(d, new)
  BY Zenon DEF Execute
<1>2. DOMAIN new = f.keys /\ new[k] = Value(old(k).n + 1, old(k).exp)
  BY Zenon
<1>3. old(k) = IF Shows(d, k, t) THEN d[k] ELSE Value(0, 0)
  BY Zenon, LiveShows
<1> HIDE DEF new, old
<1>4. DOMAIN Execute(d, f, t) = DOMAIN d \cup f.keys /\ Execute(d, f, t)[k] = new[k]
  BY Zenon, <1>1, <1>2 DEF With
<1> QED
  BY Zenon, <1>2, <1>3, <1>4

\* A frame leaves the keys it does not name.
LEMMA Elsewhere ==
  ASSUME NEW d, NEW f, NEW t, f.op \in Ops, NEW k, k \notin f.keys
  PROVE  Alike(Execute(d, f, t), d, k)
<1>1. CASE f.op = "set"
  BY Zenon, <1>1 DEF Execute, Alike, With
<1>2. CASE f.op = "del"
  BY Zenon, <1>2 DEF Execute, Alike, Without, Restrict
<1>3. CASE f.op = "incr"
  <2> DEFINE old(j) == IF j \in DOMAIN Live(d, t) THEN d[j] ELSE Value(0, 0)
             new == [j \in f.keys |-> Value(old(j).n + 1, old(j).exp)]
  <2>1. Execute(d, f, t) = With(d, new)
    BY Zenon, <1>3 DEF Execute
  <2>2. DOMAIN new = f.keys
    BY Zenon
  <2> HIDE DEF new
  <2>3. QED
    BY Zenon, <2>1, <2>2 DEF Alike, With
<1>4. QED
  BY Zenon, <1>1, <1>2, <1>3 DEF Ops

\* The same command on values that look the same.
LEMMA ExecuteAlike ==
  ASSUME NEW d, NEW e, NEW f, f.op \in Ops, NEW k, NEW t, NEW u, k \in f.keys,
         f.op = "incr" => /\ Shows(d, k, t) <=> Shows(e, k, u)
                          /\ Shows(d, k, t) => d[k] = e[k]
  PROVE  Alike(Execute(d, f, t), Execute(e, f, u), k)
<1>1. CASE f.op = "set"
  <2>1. k \in DOMAIN Execute(d, f, t) /\ Execute(d, f, t)[k] = f.value
    BY ONLY Zenon, <1>1, k \in f.keys, SetGives
  <2>2. k \in DOMAIN Execute(e, f, u) /\ Execute(e, f, u)[k] = f.value
    BY ONLY Zenon, <1>1, k \in f.keys, SetGives
  <2> QED
    BY Zenon, <2>1, <2>2 DEF Alike
<1>2. CASE f.op = "del"
  <2>1. k \notin DOMAIN Execute(d, f, t)
    BY ONLY Zenon, <1>2, k \in f.keys, DelGives
  <2>2. k \notin DOMAIN Execute(e, f, u)
    BY ONLY Zenon, <1>2, k \in f.keys, DelGives
  <2> QED
    BY Zenon, <2>1, <2>2 DEF Alike
<1>3. CASE f.op = "incr"
  <2> DEFINE dv == IF Shows(d, k, t) THEN d[k] ELSE Value(0, 0)
             ev == IF Shows(e, k, u) THEN e[k] ELSE Value(0, 0)
  <2>1. k \in DOMAIN Execute(d, f, t) /\ Execute(d, f, t)[k] = Value(dv.n + 1, dv.exp)
    BY ONLY Zenon, <1>3, k \in f.keys, IncrGives
  <2>2. k \in DOMAIN Execute(e, f, u) /\ Execute(e, f, u)[k] = Value(ev.n + 1, ev.exp)
    BY ONLY Zenon, <1>3, k \in f.keys, IncrGives
  <2>3. dv = ev
    BY Zenon, <1>3
  <2> HIDE DEF dv, ev
  <2> QED
    BY Zenon, <2>1, <2>2, <2>3 DEF Alike
<1>4. QED
  BY Zenon, <1>1, <1>2, <1>3 DEF Ops

\* A counter without a deadline is counted up alike at any time.
LEMMA CountedAlike ==
  ASSUME NEW n \in Nat, NEW c \in Nat, c <= n, NEW t \in Nat, t >= n,
         NEW d, NEW e, NEW k, Same(e, d, k, n), NEW f, f.op = "incr", k \in f.keys,
         k \in DOMAIN d => d[k].exp \in Nat,
         ~(Shows(d, k, c) /\ d[k].exp > 0)
  PROVE  Alike(Execute(e, f, t), Execute(d, f, c), k)
<1>1. Shows(d, k, c) <=> Shows(d, k, t)
  <2>1. CASE k \in DOMAIN d
    <3> DEFINE x == d[k].exp
    <3>1. x \in Nat /\ ~((x = 0 \/ c <= x) /\ x > 0)
      BY Zenon, <2>1 DEF Shows
    <3> HIDE DEF x
    <3>2. (x = 0 \/ c <= x) <=> (x = 0 \/ t <= x)
      BY <3>1
    <3> QED
      BY Zenon, <3>2 DEF Shows, x
  <2> QED
    BY Zenon, <2>1 DEF Shows
<1>2. (Shows(e, k, t) <=> Shows(d, k, t)) /\ (Shows(e, k, t) => e[k] = d[k])
  BY Zenon DEF Same
<1>3. f.op \in Ops
  BY Zenon DEF Ops
<1>4. (Shows(e, k, t) <=> Shows(d, k, c)) /\ (Shows(e, k, t) => e[k] = d[k])
  BY Zenon, <1>1, <1>2
<1> QED
  BY ONLY <1>3, <1>4, k \in f.keys, ExecuteAlike

\* Both parts of a join are executed, one after the other.
LEMMA YieldsJoin ==
  ASSUME NEW n, NEW d, NEW S, NEW fs \in Seq(S), NEW gs \in Seq(S), NEW e,
         Yields(n, d, fs \o gs, e)
  PROVE  \E m : Yields(n, d, fs, m) /\ Yields(n, m, gs, e)
<1> DEFINE w == fs \o gs
           l == Len(fs)
           m == Len(gs)
<1>1. /\ l \in Nat /\ m \in Nat /\ Len(w) = l + m
      /\ \A i \in 1..l : w[i] = fs[i]
      /\ \A i \in 1..m : w[l + i] = gs[i]
  OBVIOUS
<1> HIDE DEF w
<1>2. PICK s : /\ s[0] = d /\ s[Len(w)] = e
               /\ \A i \in 1..Len(w) : \E t \in Nat :
                     t >= n /\ s[i] = Execute(s[i - 1], w[i], t)
  BY Zenon DEF Yields, w
<1> DEFINE r == [i \in 0..m |-> s[l + i]]
<1>3. Yields(n, d, fs, s[l])
  <2>1. \A i \in 1..l : i \in 1..Len(w)
    BY <1>1
  <2>2. \A i \in 1..l : \E t \in Nat : t >= n /\ s[i] = Execute(s[i - 1], fs[i], t)
    BY Zenon, <1>1, <1>2, <2>1
  <2> QED
    BY ZenonT(40), <1>2, <2>2 DEF Yields
<1>4. Yields(n, s[l], gs, e)
  <2>1. r[0] = s[l] /\ r[m] = e
    <3>1. 0 \in 0..m /\ m \in 0..m /\ l + 0 = l
      BY <1>1
    <3> QED
      BY Zenon, <1>1, <1>2, <3>1
  <2>2. ASSUME NEW i \in 1..m
        PROVE  \E t \in Nat : t >= n /\ r[i] = Execute(r[i - 1], gs[i], t)
    <3>0. i - 1 \in 0..m /\ l + (i - 1) = l + i - 1 /\ l + i \in 1..(l + m) /\ i \in 0..m
      <4>1. l \in Nat /\ m \in Nat /\ i \in 1..m
        BY Zenon, <1>1
      <4> HIDE DEF l, m
      <4> QED
        BY ONLY <4>1
    <3>1. PICK h \in 0..m : h = i - 1 /\ l + h = l + i - 1 /\ l + i \in 1..Len(w) /\ i \in 0..m
      BY Zenon, <1>1, <3>0
    <3>2. PICK t \in Nat : t >= n /\ s[l + i] = Execute(s[l + i - 1], w[l + i], t)
      BY <1>2, <3>1
    <3>3. r[i] = s[l + i] /\ r[h] = s[l + h] /\ w[l + i] = gs[i]
      BY Zenon, <1>1, <3>1
    <3> HIDE DEF r
    <3>4. r[i - 1] = s[l + i - 1]
      BY ONLY Zenon, <3>1, <3>3
    <3> QED
      BY Zenon, <3>2, <3>3, <3>4
  <2> HIDE DEF r
  <2> QED
    BY Zenon, <2>1, <2>2 DEF Yields
<1> QED
  BY Zenon, <1>3, <1>4

\* One frame, and two.
LEMMA YieldsOne ==
  ASSUME NEW n, NEW d, NEW gs, Len(gs) = 1, NEW e, Yields(n, d, gs, e)
  PROVE  \E t \in Nat : t >= n /\ e = Execute(d, gs[1], t)
<1>1. 1 \in 1..Len(gs) /\ 1 - 1 = 0
  OBVIOUS
<1>2. PICK s : /\ s[0] = d /\ s[Len(gs)] = e
               /\ \A i \in 1..Len(gs) : \E t \in Nat : t >= n /\ s[i] = Execute(s[i - 1], gs[i], t)
  BY Zenon DEF Yields
<1>3. \E t \in Nat : t >= n /\ s[1] = Execute(s[1 - 1], gs[1], t)
  BY Zenon, <1>1, <1>2
<1> QED
  BY Zenon, <1>1, <1>2, <1>3

\* Two frames are executed one after the other.
LEMMA YieldsTwo ==
  ASSUME NEW n, NEW d, NEW gs, Len(gs) = 2, NEW e, Yields(n, d, gs, e)
  PROVE  \E t, u \in Nat : t >= n /\ u >= n /\ e = Execute(Execute(d, gs[1], t), gs[2], u)
<1>1. 1 - 1 = 0 /\ 2 - 1 = 1 /\ 1 \in 1..Len(gs) /\ 2 \in 1..Len(gs)
  OBVIOUS
<1>2. PICK s : /\ s[0] = d /\ s[Len(gs)] = e
               /\ \A i \in 1..Len(gs) : \E t \in Nat : t >= n /\ s[i] = Execute(s[i - 1], gs[i], t)
  BY Zenon DEF Yields
<1>3. PICK t \in Nat : t >= n /\ s[1] = Execute(s[1 - 1], gs[1], t)
  BY Zenon, <1>1, <1>2
<1>4. PICK u \in Nat : u >= n /\ s[2] = Execute(s[2 - 1], gs[2], u)
  BY Zenon, <1>1, <1>2
<1>5. s[1] = Execute(d, gs[1], t)
  BY Zenon, <1>1, <1>2, <1>3
<1>6. e = Execute(s[1], gs[2], u)
  BY Zenon, <1>1, <1>2, <1>4
<1> QED
  BY Zenon, <1>3, <1>4, <1>5, <1>6

\* No frames leave d as it is.
LEMMA YieldsNothing ==
  ASSUME NEW n, NEW d, NEW e
  PROVE  Yields(n, d, <<>>, e) <=> d = e
<1>1. Len(<<>>) = 0 /\ 1..0 = {}
  OBVIOUS
<1>2. ASSUME d = e PROVE Yields(n, d, <<>>, e)
  <2> DEFINE s == [i \in 0..0 |-> d]
  <2>1. 0 \in 0..0
    OBVIOUS
  <2>2. s[0] = d
    BY Zenon, <2>1
  <2> HIDE DEF s
  <2> QED
    BY Zenon, <1>1, <1>2, <2>2 DEF Yields
<1> QED
  BY Zenon, <1>1, <1>2 DEF Yields

\* The first frame has been executed.
LEMMA YieldsRest ==
  ASSUME NEW n \in Nat, NEW d, NEW S, NEW fs \in Seq(S), fs # <<>>, NEW e,
         Yields(n, Execute(d, Head(fs), n), Tail(fs), e)
  PROVE  Yields(n, d, fs, e)
<1>1. /\ Len(fs) \in Nat /\ Len(fs) > 0 /\ Len(Tail(fs)) = Len(fs) - 1 /\ Head(fs) = fs[1]
      /\ \A i \in 1..Len(fs) - 1 : Tail(fs)[i] = fs[i + 1]
  OBVIOUS
<1> DEFINE l == Len(fs)
<1>2. PICK r : /\ r[0] = Execute(d, Head(fs), n) /\ r[Len(Tail(fs))] = e
               /\ \A i \in 1..Len(Tail(fs)) : \E t \in Nat :
                     t >= n /\ r[i] = Execute(r[i - 1], Tail(fs)[i], t)
  BY Zenon DEF Yields
<1> DEFINE s == [i \in 0..l |-> IF i = 0 THEN d ELSE r[i - 1]]
<1>3. s[0] = d /\ s[l] = e
  <2>1. 0 \in 0..l /\ l \in 0..l /\ l # 0
    BY <1>1
  <2> QED
    BY Zenon, <1>1, <1>2, <2>1
<1>4. ASSUME NEW i \in 1..l
      PROVE  \E t \in Nat : t >= n /\ s[i] = Execute(s[i - 1], fs[i], t)
  <2>1. i \in 0..l /\ i - 1 \in 0..l /\ i # 0
    BY <1>1
  <2>2. s[i] = r[i - 1]
    BY Zenon, <2>1
  <2>3. CASE i = 1
    <3>1. i - 1 = 0 /\ n >= n
      BY <2>3
    <3>2. s[i - 1] = d /\ s[i] = Execute(d, fs[i], n)
      BY Zenon, <1>1, <1>2, <1>3, <2>2, <2>3, <3>1
    <3> HIDE DEF s
    <3> QED
      BY Zenon, <3>1, <3>2
  <2>4. CASE i # 1
    <3>1. PICK h \in 1..l - 1 : h = i - 1 /\ h + 1 = i /\ h # 0 /\ h \in 0..l
      BY <1>1, <2>4
    <3>2. PICK t \in Nat : t >= n /\ r[h] = Execute(r[h - 1], Tail(fs)[h], t)
      BY Zenon, <1>1, <1>2, <3>1
    <3>3. Tail(fs)[h] = fs[i]
      BY Zenon, <1>1, <3>1
    <3>4. s[h] = r[h - 1] /\ s[i] = r[h]
      BY Zenon, <2>2, <3>1
    <3> HIDE DEF s
    <3> QED
      BY Zenon, <3>1, <3>2, <3>3, <3>4
  <2> QED
    BY Zenon, <2>3, <2>4
<1> HIDE DEF s
<1> QED
  BY Zenon, <1>3, <1>4 DEF Yields

\* What may happen later may happen from now on.
LEMMA YieldsLater ==
  ASSUME NEW n \in Nat, NEW d, NEW fs, NEW e, Yields(n + 1, d, fs, e)
  PROVE  Yields(n, d, fs, e)
<1>1. \A t \in Nat : t >= n + 1 => t >= n
  OBVIOUS
<1> QED
  BY Zenon, <1>1 DEF Yields

\* A frame makes the same of what is the same.
LEMMA AlikeStays ==
  ASSUME NEW d, NEW e, NEW k, Alike(d, e, k), NEW f, f.op \in Ops, NEW t
  PROVE  Alike(Execute(d, f, t), Execute(e, f, t), k)
<1>1. CASE k \in f.keys
  <2>1. (Shows(d, k, t) <=> Shows(e, k, t)) /\ (Shows(d, k, t) => d[k] = e[k])
    BY Zenon DEF Alike, Shows
  <2> QED
    BY ONLY <1>1, <2>1, f.op \in Ops, ExecuteAlike
<1>2. CASE k \notin f.keys
  <2>1. Alike(Execute(d, f, t), d, k) /\ Alike(Execute(e, f, t), e, k)
    BY ONLY Zenon, <1>2, f.op \in Ops, Elsewhere
  <2> QED
    BY Zenon, <2>1 DEF Alike
<1> QED
  BY Zenon, <1>1, <1>2

\* Frames of other keys come on top of fs.
LEMMA OthersOnTop ==
  ASSUME NEW n, NEW d, NEW S, NEW fs \in Seq(S), NEW gs \in Seq(S), NEW e, NEW k,
         Len(gs) \in 0..2, \A i \in 1..Len(gs) : gs[i].op \in Ops /\ k \notin gs[i].keys,
         Yields(n, d, fs \o gs, e)
  PROVE  \E m : Yields(n, d, fs, m) /\ Alike(e, m, k)
<1>1. PICK m : Yields(n, d, fs, m) /\ Yields(n, m, gs, e)
  BY YieldsJoin
<1>2. CASE Len(gs) = 0
  <2>1. m = e
    BY Zenon, <1>1, <1>2 DEF Yields
  <2> QED
    BY Zenon, <1>1, <2>1 DEF Alike
<1>3. CASE Len(gs) = 1
  <2>1. PICK t \in Nat : e = Execute(m, gs[1], t)
    BY ONLY SMTT(40), <1>1, <1>3, YieldsOne
  <2>2. gs[1].op \in Ops /\ k \notin gs[1].keys
    BY <1>3
  <2>3. Alike(e, m, k)
    BY ONLY Zenon, <2>1, <2>2, Elsewhere
  <2> QED
    BY Zenon, <1>1, <2>3
<1>4. CASE Len(gs) = 2
  <2>1. PICK t \in Nat, u \in Nat : e = Execute(Execute(m, gs[1], t), gs[2], u)
    BY ONLY <1>1, <1>4, YieldsTwo
  <2>2. gs[1].op \in Ops /\ k \notin gs[1].keys /\ gs[2].op \in Ops /\ k \notin gs[2].keys
    BY <1>4
  <2>3. Alike(Execute(m, gs[1], t), m, k) /\ Alike(e, Execute(m, gs[1], t), k)
    BY ONLY Zenon, <2>1, <2>2, Elsewhere
  <2>4. Alike(e, m, k)
    BY Zenon, <2>3 DEF Alike
  <2> QED
    BY Zenon, <1>1, <2>4
<1> QED
  BY SMTT(40), <1>2, <1>3, <1>4

\* Frames one of which is for k come on top of fs.
LEMMA OneOnTop ==
  ASSUME NEW n, NEW d, NEW S, NEW fs \in Seq(S), NEW gs \in Seq(S), NEW e, NEW k,
         Len(gs) \in 0..2, \A i \in 1..Len(gs) : gs[i].op \in Ops,
         NEW j \in 1..Len(gs), \A i \in 1..Len(gs) : i # j => k \notin gs[i].keys,
         Yields(n, d, fs \o gs, e)
  PROVE  \E m : \E t \in Nat : t >= n /\ Yields(n, d, fs, m) /\ Alike(e, Execute(m, gs[j], t), k)
<1>1. PICK m : Yields(n, d, fs, m) /\ Yields(n, m, gs, e)
  BY YieldsJoin
<1>2. CASE Len(gs) = 1
  <2>1. PICK t \in Nat : t >= n /\ e = Execute(m, gs[1], t)
    BY ONLY <1>1, <1>2, YieldsOne
  <2>2. j = 1
    BY <1>2
  <2>3. Alike(e, Execute(m, gs[j], t), k)
    BY Zenon, <2>1, <2>2 DEF Alike
  <2> QED
    BY Zenon, <1>1, <2>1, <2>3
<1>3. CASE Len(gs) = 2
  <2>1. PICK t \in Nat, u \in Nat :
           t >= n /\ u >= n /\ e = Execute(Execute(m, gs[1], t), gs[2], u)
    BY ONLY <1>1, <1>3, YieldsTwo
  <2>2. gs[1].op \in Ops /\ gs[2].op \in Ops
    BY <1>3
  <2>3. CASE j = 1
    <3>1. k \notin gs[2].keys
      BY <1>3, <2>3
    <3>2. Alike(e, Execute(m, gs[1], t), k)
      BY ONLY Zenon, <2>1, <2>2, <3>1, Elsewhere
    <3> QED
      BY Zenon, <1>1, <2>1, <2>3, <3>2
  <2>4. CASE j = 2
    <3>1. k \notin gs[1].keys
      BY <1>3, <2>4
    <3>2. Alike(Execute(m, gs[1], t), m, k)
      BY ONLY Zenon, <2>2, <3>1, Elsewhere
    <3>3. Alike(e, Execute(m, gs[2], u), k)
      BY ONLY Zenon, <2>1, <2>2, <3>2, AlikeStays
    <3> QED
      BY Zenon, <1>1, <2>1, <2>4, <3>3
  <2> QED
    BY <1>3, <2>3, <2>4
<1> QED
  BY <1>2, <1>3

\* What looks the same from n on does so from n + 1 on.
LEMMA SameLater ==
  ASSUME NEW n \in Nat, NEW d, NEW e, NEW k, Same(d, e, k, n)
  PROVE  Same(d, e, k, n + 1)
<1>1. \A t \in Nat : t >= n + 1 => t >= n
  OBVIOUS
<1> QED
  BY Zenon, <1>1 DEF Same

\* Time passes.
LEMMA TracksLater ==
  ASSUME NEW n \in Nat, NEW h, NEW d, NEW fs, NEW k, NEW F, Tracks(n, h, d, fs, k, F)
  PROVE  Tracks(n + 1, h, d, fs, k, F)
<1> SUFFICES ASSUME NEW e, Yields(n + 1, d, fs, e)
             PROVE  IF F = {} THEN Same(e, h, k, n + 1)
                    ELSE \A f \in F : f.op = "incr" =>
                            \A t \in Nat : t >= n + 1 => Same(Execute(e, f, t), h, k, n + 1)
  BY Zenon DEF Tracks
<1>1. Yields(n, d, fs, e)
  BY Zenon, YieldsLater
<1>2. \A t \in Nat : t >= n + 1 => t >= n
  OBVIOUS
<1>3. CASE F = {}
  <2>1. Same(e, h, k, n)
    BY Zenon, <1>1, <1>3 DEF Tracks
  <2> QED
    BY Zenon, <1>3, <2>1, SameLater
<1>4. CASE F # {}
  <2>1. \A f \in F : f.op = "incr" => \A t \in Nat : t >= n => Same(Execute(e, f, t), h, k, n)
    BY Zenon, <1>1, <1>4 DEF Tracks
  <2> QED
    BY Zenon, <1>2, <1>4, <2>1, SameLater
<1> QED
  BY Zenon, <1>3, <1>4

\* The keyspace changes, but nobody can see it.
LEMMA TracksHere ==
  ASSUME NEW n, NEW h, NEW g, NEW d, NEW fs, NEW k, NEW F, Tracks(n, h, d, fs, k, F),
         Same(h, g, k, n)
  PROVE  Tracks(n, g, d, fs, k, F)
<1>1. \A e : Same(e, h, k, n) => Same(e, g, k, n)
  BY Zenon DEF Same
<1> QED
  BY Zenon, <1>1 DEF Tracks

\* Frames of other keys are added.
LEMMA TracksOthers ==
  ASSUME NEW n, NEW h, NEW d, NEW S, NEW fs \in Seq(S), NEW gs \in Seq(S), NEW k, NEW F,
         \A f \in F : f.op \in Ops,
         Len(gs) \in 0..2, \A i \in 1..Len(gs) : gs[i].op \in Ops /\ k \notin gs[i].keys,
         Tracks(n, h, d, fs, k, F)
  PROVE  Tracks(n, h, d, fs \o gs, k, F)
<1> SUFFICES ASSUME NEW e, Yields(n, d, fs \o gs, e)
             PROVE  IF F = {} THEN Same(e, h, k, n)
                    ELSE \A f \in F : f.op = "incr" =>
                            \A t \in Nat : t >= n => Same(Execute(e, f, t), h, k, n)
  BY Zenon DEF Tracks
<1>1. PICK m : Yields(n, d, fs, m) /\ Alike(e, m, k)
  BY Zenon, OthersOnTop
<1>2. CASE F = {}
  <2>1. Same(m, h, k, n)
    BY Zenon, <1>1, <1>2 DEF Tracks
  <2>2. Same(e, m, k, n)
    BY Zenon, <1>1, AlikeIsSame
  <2>3. Same(e, h, k, n)
    BY Zenon, <2>1, <2>2, SameBoth
  <2> QED
    BY Zenon, <1>2, <2>3
<1>3. CASE F # {}
  <2>1. ASSUME NEW f \in F, f.op = "incr", NEW t \in Nat, t >= n
        PROVE  Same(Execute(e, f, t), h, k, n)
    <3>1. Same(Execute(m, f, t), h, k, n)
      BY Zenon, <1>1, <1>3, <2>1 DEF Tracks
    <3>2. Alike(Execute(e, f, t), Execute(m, f, t), k)
      BY Zenon, <1>1, AlikeStays
    <3>3. Same(Execute(e, f, t), Execute(m, f, t), k, n)
      BY Zenon, <3>2, AlikeIsSame
    <3> QED
      BY Zenon, <3>1, <3>3, SameBoth
  <2> QED
    BY Zenon, <1>3, <2>1
<1> QED
  BY Zenon, <1>2, <1>3

\* The frame that was missing is added.
LEMMA TracksWritten ==
  ASSUME NEW n, NEW h, NEW d, NEW S, NEW fs \in Seq(S), NEW gs \in Seq(S), NEW k,
         Len(gs) \in 0..2, \A i \in 1..Len(gs) : gs[i].op \in Ops,
         NEW j \in 1..Len(gs), \A i \in 1..Len(gs) : i # j => k \notin gs[i].keys,
         Fixes(n, h, gs[j], k), Tracks(n, h, d, fs, k, {gs[j]})
  PROVE  Tracks(n, h, d, fs \o gs, k, {})
<1> SUFFICES ASSUME NEW e, Yields(n, d, fs \o gs, e)
             PROVE  Same(e, h, k, n)
  BY ZenonT(40) DEF Tracks
<1>0. PICK m : \E t \in Nat : t >= n /\ Yields(n, d, fs, m) /\ Alike(e, Execute(m, gs[j], t), k)
  BY Zenon, OneOnTop
<1>1. PICK t \in Nat : t >= n /\ Yields(n, d, fs, m) /\ Alike(e, Execute(m, gs[j], t), k)
  BY Zenon, <1>0
<1>2. Same(Execute(m, gs[j], t), h, k, n)
  <2>1. CASE gs[j].op = "incr"
    BY Zenon, <1>1, <2>1 DEF Tracks
  <2>2. CASE gs[j].op # "incr"
    BY Zenon, <2>2 DEF Fixes
  <2> QED
    BY Zenon, <2>1, <2>2
<1>3. Same(e, Execute(m, gs[j], t), k, n)
  BY Zenon, <1>1, AlikeIsSame
<1> QED
  BY Zenon, <1>2, <1>3, SameBoth

\* A counter without a deadline is counted up; the frame is missing now.
LEMMA TracksCounted ==
  ASSUME NEW n \in Nat, NEW c \in Nat, c <= n, NEW h, NEW g, NEW d, NEW fs, NEW k,
         Tracks(n, h, d, fs, k, {}), NEW f, f.op = "incr", k \in f.keys,
         k \in DOMAIN h => h[k].exp \in Nat,
         ~(Shows(h, k, c) /\ h[k].exp > 0),
         Alike(g, Execute(h, f, c), k)
  PROVE  Tracks(n, g, d, fs, k, {f})
<1> SUFFICES ASSUME NEW e, Yields(n, d, fs, e), NEW t \in Nat, t >= n
             PROVE  Same(Execute(e, f, t), g, k, n)
  BY Zenon DEF Tracks
<1>1. Same(e, h, k, n)
  BY Zenon DEF Tracks
<1>2. Alike(Execute(e, f, t), Execute(h, f, c), k)
  BY ONLY Zenon, <1>1, n \in Nat, c \in Nat, c <= n, t \in Nat, t >= n, f.op = "incr", k \in f.keys,
       k \in DOMAIN h => h[k].exp \in Nat, ~(Shows(h, k, c) /\ h[k].exp > 0), CountedAlike
<1>3. Alike(Execute(e, f, t), g, k)
  BY Zenon, <1>2 DEF Alike
<1> QED
  BY Zenon, <1>3, AlikeIsSame

\* The first frame is executed.
LEMMA TracksApplied ==
  ASSUME NEW n \in Nat, NEW h, NEW d, NEW S, NEW fs \in Seq(S), fs # <<>>, NEW k, NEW F,
         Tracks(n, h, d, fs, k, F)
  PROVE  Tracks(n, h, Execute(d, Head(fs), n), Tail(fs), k, F)
<1>1. \A e : Yields(n, Execute(d, Head(fs), n), Tail(fs), e) => Yields(n, d, fs, e)
  BY YieldsRest
<1> QED
  BY Zenon, <1>1 DEF Tracks

\* An overwriting frame that is missing.
LEMMA TracksOverwritten ==
  ASSUME NEW n, NEW h, NEW d, NEW fs, NEW k, NEW f, f.op # "incr"
  PROVE  Tracks(n, h, d, fs, k, {f})
  BY Zenon DEF Tracks

(***************************************************************************)
(* The loader and the snapshot of a rewrite.  Both run over a sequence,    *)
(* and their lemmas take the induction over its steps as a hypothesis that *)
(* the end of the module discharges.                                       *)
(***************************************************************************)

\* A set of steps that has the first one, and each one after one it has, has all.
Stepwise ==
    \A n \in Nat : \A G :
        0 \in G /\ (\A i \in 1..n : i - 1 \in G => i \in G) => \A i \in 0..n : i \in G

\* The members of S can be counted and listed.
Listed(S) == Cardinality(S) \in Nat /\ \E s : s \in Bijection(1..Cardinality(S), S)

\* What the loader computes.
Loading(file, t, load) ==
    [i \in 0..Len(file) |-> IF i = 0 THEN <<>> ELSE Execute(load[i - 1], file[i], t)]

\* The loader's recursion has a solution.
LEMMA LoadingExists ==
  ASSUME Stepwise, NEW S, NEW file \in Seq(S), NEW t
  PROVE  \E load : load = Loading(file, t, load)
<1> DEFINE n == Len(file)
           Upto(m, f) == f = [i \in 0..m |-> IF i = 0 THEN <<>> ELSE Execute(f[i - 1], file[i], t)]
           G == {m \in 0..n : \E f : Upto(m, f)}
<1>1. n \in Nat /\ 0 \in 0..n
  OBVIOUS
<1>2. 0 \in G
  <2> DEFINE f == [i \in 0..0 |-> <<>>]
  <2>1. \A i \in 0..0 : i = 0
    OBVIOUS
  <2>2. Upto(0, f)
    BY Zenon, <2>1
  <2> QED
    BY Zenon, <1>1, <2>2
<1>3. ASSUME NEW m \in 1..n, m - 1 \in G
      PROVE  m \in G
  <2>1. PICK f : Upto(m - 1, f)
    BY Zenon, <1>3
  <2> DEFINE step(d, i) == Execute(d, file[i], t)
             g == [i \in 0..m |-> IF i = m THEN step(f[m - 1], m) ELSE f[i]]
             r == [i \in 0..m |-> IF i = 0 THEN <<>> ELSE step(g[i - 1], i)]
  <2>2. ASSUME NEW i \in 0..m PROVE g[i] = r[i]
    <3>1. CASE i = 0
      <4>1. 0 \in 0..m - 1 /\ 0 # m /\ 0 \in 0..m
        BY <1>1
      <4>2. f[0] = <<>>
        BY Zenon, <2>1, <4>1
      <4> QED
        BY Zenon, <3>1, <4>1, <4>2
    <3>2. CASE i # 0
      <4>1. PICK h \in 0..m : h = i - 1 /\ h # m /\ h \in 0..m - 1
        BY <1>1, <3>2
      <4>2. g[h] = f[h]
        BY Zenon, <4>1
      <4>3. r[i] = step(g[h], i)
        BY Zenon, <3>2, <4>1
      <4>4. CASE i = m
        <5>1. g[i] = step(f[h], i)
          BY Zenon, <4>1, <4>4
        <5> QED
          BY Zenon, <4>2, <4>3, <5>1
      <4>5. CASE i # m
        <5>1. i \in 0..m - 1
          BY <1>1, <4>5
        <5>2. f[i] = step(f[h], i)
          BY Zenon, <2>1, <3>2, <4>1, <5>1
        <5>3. g[i] = f[i]
          BY Zenon, <4>5
        <5> QED
          BY Zenon, <4>2, <4>3, <5>2, <5>3
      <4> QED
        BY Zenon, <4>4, <4>5
    <3> QED
      BY Zenon, <3>1, <3>2
  <2>3. g = r
    BY Zenon, <2>2
  <2>4. Upto(m, g)
    BY Zenon, <2>3
  <2>5. m \in 0..n
    BY <1>1
  <2> HIDE DEF g, Upto
  <2> QED
    BY Zenon, <2>4, <2>5
<1>4. n \in G
  <2> HIDE DEF G
  <2>1. n \in 0..n
    BY <1>1
  <2> QED
    BY Zenon, <1>1, <1>2, <1>3, <2>1 DEF Stepwise
<1> QED
  BY Zenon, <1>4 DEF Loading

\* The replay of a file at one time is one of the ways to execute it.
LEMMA ReplayYields ==
  ASSUME Stepwise, NEW S, NEW file \in Seq(S), NEW n \in Nat, NEW t \in Nat, t >= n
  PROVE  Yields(n, <<>>, file, Replay(file, t))
<1> DEFINE load == CHOOSE f : f = Loading(file, t, f)
<1>1. load = Loading(file, t, load)
  BY Zenon, LoadingExists
<1>2. Replay(file, t) = load[Len(file)]
  BY Zenon DEF Replay, Loading
<1> HIDE DEF load
<1>3. Len(file) \in Nat /\ 0 \in 0..Len(file)
  OBVIOUS
<1>4. load[0] = <<>>
  BY Zenon, <1>1, <1>3 DEF Loading
<1>5. ASSUME NEW i \in 1..Len(file)
      PROVE  \E u \in Nat : u >= n /\ load[i] = Execute(load[i - 1], file[i], u)
  <2>1. i \in 0..Len(file) /\ i # 0
    BY <1>3
  <2>2. load[i] = Execute(load[i - 1], file[i], t)
    BY Zenon, <1>1, <2>1 DEF Loading
  <2> QED
    BY Zenon, <2>2
<1> QED
  BY Zenon, <1>2, <1>4, <1>5 DEF Yields

\* What a rewritten file makes of nothing.
LEMMA SnapshotYields ==
  ASSUME Stepwise, NEW h, Listed(DOMAIN h), \A k \in DOMAIN h : h[k] = Value(h[k].n, h[k].exp),
         NEW n, NEW e, Yields(n, <<>>, SnapshotFrames(h), e), NEW k
  PROVE  Alike(e, h, k)
<1> DEFINE N == Cardinality(DOMAIN h)
           ks == CHOOSE s \in Bijection(1..N, DOMAIN h) : TRUE
           fs == SnapshotFrames(h)
<1>1. N \in Nat /\ ks \in Bijection(1..N, DOMAIN h)
  BY Zenon DEF Listed
<1>2. fs = [i \in DOMAIN ks |-> SetFrame({ks[i]}, h[ks[i]].n, h[ks[i]].exp)]
  BY Zenon DEF SnapshotFrames
<1> HIDE DEF ks, N
<1>3. /\ DOMAIN ks = 1..N /\ \A i \in 1..N : ks[i] \in DOMAIN h
      /\ \A i, j \in 1..N : ks[i] = ks[j] => i = j
      /\ \A j \in DOMAIN h : \E i \in 1..N : ks[i] = j
  BY Zenon, <1>1 DEF Bijection, Injection, Surjection, IsInjective
<1>4. Len(fs) = N /\ \A i \in 1..N : fs[i] = SetFrame({ks[i]}, h[ks[i]].n, h[ks[i]].exp)
  <2>1. fs = [i \in 1..N |-> SetFrame({ks[i]}, h[ks[i]].n, h[ks[i]].exp)]
    BY ZenonT(40), <1>2, <1>3
  <2> HIDE DEF fs
  <2> QED
    BY <1>1, <2>1
<1> HIDE DEF fs
<1>5. \A i \in 1..N : fs[i].op = "set" /\ fs[i].keys = {ks[i]} /\ fs[i].value = h[ks[i]]
  <2> TAKE i \in 1..N
  <2>1. h[ks[i]] = Value(h[ks[i]].n, h[ks[i]].exp)
    BY Zenon, <1>3
  <2> QED
    BY <1>4, <2>1 DEF SetFrame, Value
<1>6. PICK s : /\ s[0] = <<>> /\ s[N] = e
               /\ \A i \in 1..N : \E t \in Nat : t >= n /\ s[i] = Execute(s[i - 1], fs[i], t)
  <2>1. PICK s : /\ s[0] = <<>> /\ s[Len(fs)] = e
                 /\ \A i \in 1..Len(fs) : \E t \in Nat : t >= n /\ s[i] = Execute(s[i - 1], fs[i], t)
    BY Zenon DEF Yields, fs
  <2> QED
    BY Zenon, <1>4, <2>1
<1> DEFINE Right(i) == IF \E j \in 1..i : ks[j] = k THEN Alike(s[i], h, k) ELSE k \notin DOMAIN s[i]
           G == {i \in 0..N : Right(i)}
<1>7. 0 \in G
  <2>1. 1..0 = {} /\ DOMAIN <<>> = {} /\ 0 \in 0..N
    BY <1>1
  <2>2. k \notin DOMAIN s[0]
    BY Zenon, <1>6, <2>1
  <2> QED
    BY Zenon, <2>1, <2>2
<1>8. ASSUME NEW i \in 1..N, i - 1 \in G
      PROVE  i \in G
  <2>1. PICK t \in Nat : s[i] = Execute(s[i - 1], fs[i], t)
    BY Zenon, <1>6
  <2>2. i \in 0..N /\ 1..i = 1..(i - 1) \cup {i} /\ 1..(i - 1) \subseteq 1..N /\ i \notin 1..(i - 1)
    BY <1>1
  <2>3. Right(i - 1)
    BY Zenon, <1>8
  <2>4. CASE ks[i] = k
    <3>0. fs[i].op = "set" /\ k \in fs[i].keys /\ fs[i].value = h[k]
      BY Zenon, <1>5, <2>4
    <3>1. k \in DOMAIN s[i] /\ s[i][k] = h[k]
      <4>1. /\ k \in DOMAIN Execute(s[i - 1], fs[i], t)
            /\ Execute(s[i - 1], fs[i], t)[k] = fs[i].value
        BY ONLY <3>0, SetGives
      <4> QED
        BY ONLY Zenon, <2>1, <3>0, <4>1
    <3>2. k \in DOMAIN h
      BY Zenon, <1>3, <2>4
    <3>3. Alike(s[i], h, k)
      BY Zenon, <3>1, <3>2 DEF Alike
    <3> QED
      BY Zenon, <2>2, <2>4, <3>3
  <2>5. CASE ks[i] # k
    <3>1. k \notin fs[i].keys /\ fs[i].op \in Ops
      BY Zenon, <1>5, <2>5 DEF Ops
    <3>2. Alike(s[i], s[i - 1], k)
      BY Zenon, <2>1, <3>1, Elsewhere
    <3>3. (\E j \in 1..i : ks[j] = k) <=> (\E j \in 1..(i - 1) : ks[j] = k)
      BY Zenon, <2>2, <2>5
    <3>4. Right(i)
      BY Zenon, <2>3, <3>2, <3>3 DEF Alike
    <3> QED
      BY Zenon, <2>2, <3>4
  <2> QED
    BY Zenon, <2>4, <2>5
<1>9. Right(N)
  <2>1. N \in G
    <3> HIDE DEF G
    <3>1. N \in 0..N
      BY <1>1
    <3> QED
      BY Zenon, <1>1, <1>7, <1>8, <3>1 DEF Stepwise
  <2> QED
    BY Zenon, <2>1
<1> QED
  BY Zenon, <1>3, <1>6, <1>9 DEF Alike

\* The file of a rewrite has what the keyspace has.
LEMMA TracksSnapshot ==
  ASSUME Stepwise, NEW h, NEW n \in Nat,
         \A k \in DOMAIN h : h[k] = Value(h[k].n, h[k].exp) /\ h[k].exp \in Nat, NEW k,
         Listed(DOMAIN Live(h, n))
  PROVE  Tracks(n, h, <<>>, SnapshotFrames(Live(h, n)), k, {})
<1> DEFINE g == Live(h, n)
<1>1. /\ DOMAIN g \subseteq DOMAIN h /\ \A j \in DOMAIN g : g[j] = h[j]
      /\ k \in DOMAIN g <=> Shows(h, k, n)
  BY Zenon, LiveShows DEF Shows
<1>2. Listed(DOMAIN g)
  OBVIOUS
<1>3. Same(g, h, k, n)
  <2> SUFFICES ASSUME NEW t \in Nat, t >= n
               PROVE  (Shows(g, k, t) <=> Shows(h, k, t)) /\ (Shows(g, k, t) => g[k] = h[k])
    BY Zenon DEF Same
  <2>1. Shows(h, k, t) => Shows(h, k, n)
    <3>1. k \in DOMAIN h => (t <= h[k].exp => n <= h[k].exp)
      OBVIOUS
    <3> QED
      BY Zenon, <3>1 DEF Shows
  <2> HIDE DEF g
  <2> QED
    BY Zenon, <1>1, <2>1 DEF Shows
<1>4. ASSUME NEW e, Yields(n, <<>>, SnapshotFrames(g), e) PROVE Same(e, h, k, n)
  <2>1. Alike(e, g, k)
    <3>1. \A j \in DOMAIN g : g[j] = Value(g[j].n, g[j].exp)
      BY Zenon, <1>1
    <3> HIDE DEF g
    <3> QED
      BY Zenon, <1>2, <1>4, <3>1, SnapshotYields
  <2> QED
    BY Zenon, <1>3, <2>1, AlikeIsSame, SameBoth
<1> QED
  BY Zenon, <1>4 DEF Tracks

(***************************************************************************)
(* The invariant, key by key.                                              *)
(***************************************************************************)

\* What a key holds, and what travels to the file and to the replicas.
Values == [n : Int, exp : Nat]
Frames == [op : Ops, keys : SUBSET Keys, value : Values]

\* Where a goroutine still has frames to append, and to send.
Unlogged == {"publish", "log expired", "send expired", "append"}
Unsent == Unlogged \cup {"send"}

\* The frames about k that wait at the stages S: those of p, and all.
Share(p, k, S) ==
    IF pc[p] \in S
    THEN {frames[p][i] : i \in {i \in 1..Len(frames[p]) : k \in frames[p][i].keys}}
    ELSE {}
Pending(k, S) == UNION {Share(p, k, S) : p \in Procs}

\* A key that has expired and whose deletion waits to be published.
Expiring(k) == k \in noted \/ \E p \in Procs : k \in taken[p]
Excused(k) == \E e \in excused : e[1] = k
Hidden(k) == \A t \in Nat : t >= now => ~Shows(db, k, t)

\* The frames of a goroutine have different keys, and only requests have any.
Shape(p) ==
    /\ Len(frames[p]) \in 0..2
    /\ Len(frames[p]) = 2 =>
          frames[p][2].op = "del" /\ frames[p][1].keys \cap frames[p][2].keys = {}
    /\ p \in Clients /\ pc[p] = "locking" => Len(frames[p]) = 1
    /\ p \notin Clients /\ pc[p] \in Unsent => frames[p] = <<>>
    /\ taken[p] # {} => pc[p] \in {"log expired", "send expired"}

\* The types of the variables the copies depend on.
CopyTypes ==
    /\ cast \in Casts /\ now \in Nat /\ pc \in [Procs -> PcValues]
    /\ clock \in [Procs -> Nat] /\ \A p \in Procs : clock[p] <= now
    /\ DOMAIN db \subseteq Keys /\ \A k \in DOMAIN db : db[k] \in Values
    /\ frames \in [Procs -> Seq(Frames)] /\ taken \in [Procs -> SUBSET Keys]
    /\ noted \subseteq Keys
    /\ log \in Seq(Frames) /\ base \in Seq(Frames) /\ buffer \in Seq(Frames)
    /\ stream \in Seq(Frames)
    /\ \A p \in Procs : Shape(p)
    /\ pc[Rewriter] = "installing" => rewriting

\* One goroutine at most has frames about k, and they fit the keyspace.
KeyAlone(k) ==
    /\ \A p, q \in Procs : Share(p, k, Unsent) # {} /\ Share(q, k, Unsent) # {} => p = q
    /\ Expiring(k) => Pending(k, Unsent) = {} /\ Hidden(k)
    /\ \A f \in Pending(k, Unsent) : Fixes(now, db, f, k)

\* The file, and the file of a rewrite, have k once the unlogged frames are in.
KeyFile(k) ==
    /\ Tracks(now, db, <<>>, log, k, Pending(k, Unlogged))
    /\ rewriting => Tracks(now, db, <<>>, base \o buffer, k, Pending(k, Unlogged))

\* The replica has k once what is under way and the unsent frames are applied.
KeyReplica(k) == Tracks(now, db, replica, stream, k, Pending(k, Unsent))

\* All of it, for one key.
KeyInv(k) == KeyAlone(k) /\ KeyFile(k) /\ KeyReplica(k)

\* The inductive invariant: it holds of every key that is not excused.
CopyInv == CopyTypes /\ \A k \in Keys : Excused(k) \/ KeyInv(k)

\* Pending frames about k carry an operation and name k.
LEMMA PendingOps ==
  ASSUME CopyTypes, NEW k, NEW S
  PROVE  /\ \A p \in Procs : \A f \in Share(p, k, S) : f.op \in Ops /\ k \in f.keys
         /\ \A f \in Pending(k, S) : f.op \in Ops
<1>1. ASSUME NEW p \in Procs PROVE \A i \in 1..Len(frames[p]) : frames[p][i].op \in Ops
  <2>1. frames[p] \in Seq(Frames)
    BY Zenon DEF CopyTypes
  <2>2. \A i \in 1..Len(frames[p]) : frames[p][i] \in Frames
    BY <2>1
  <2>3. \A f \in Frames : f.op \in Ops
    BY DEF Frames
  <2> QED
    BY Zenon, <2>2, <2>3
<1>2. \A p \in Procs : \A f \in Share(p, k, S) : f.op \in Ops /\ k \in f.keys
  BY Zenon, <1>1 DEF Share
<1> QED
  BY Zenon, <1>2 DEF Pending

\* A step of p that leaves its own frames about k.
LEMMA SharesStay ==
  ASSUME NEW k, NEW S, \A p \in Procs : Share(p, k, S)' = Share(p, k, S)
  PROVE  Pending(k, S)' = Pending(k, S)
  BY Zenon DEF Pending

\* KeyAlone survives a step that leaves k's frames and what shows of k.
LEMMA AloneStays ==
  ASSUME NEW k, KeyAlone(k), now' = now,
         \A p \in Procs : Share(p, k, Unsent)' = Share(p, k, Unsent),
         Expiring(k)' => Pending(k, Unsent) = {} /\ Hidden(k),
         Same(db, db', k, now)
  PROVE  KeyAlone(k)'
<1>1. Pending(k, Unsent)' = Pending(k, Unsent)
  BY Zenon, SharesStay
<1>2. Hidden(k) => Hidden(k)'
  BY Zenon DEF Hidden, Same
<1>3. \A e : Same(e, db, k, now) => Same(e, db', k, now')
  BY Zenon DEF Same
<1>4. \A f : Fixes(now, db, f, k) => Fixes(now', db', f, k)
  BY Zenon, <1>3 DEF Fixes
<1> QED
  BY Zenon, <1>1, <1>2, <1>4 DEF KeyAlone

\* KeyFile survives a step that leaves the files as well.
LEMMA FileStays ==
  ASSUME NEW k, KeyFile(k), now' = now, UNCHANGED <<log, base, buffer, rewriting>>,
         \A p \in Procs : Share(p, k, Unlogged)' = Share(p, k, Unlogged),
         Same(db, db', k, now)
  PROVE  KeyFile(k)'
<1>1. Pending(k, Unlogged)' = Pending(k, Unlogged)
  BY Zenon, SharesStay
<1>2. \A fs, F : Tracks(now, db, <<>>, fs, k, F) => Tracks(now, db', <<>>, fs, k, F)
  BY Zenon, TracksHere
<1> QED
  BY Zenon, <1>1, <1>2 DEF KeyFile

\* KeyReplica survives a step that leaves the replica as well.
LEMMA ReplicaStays ==
  ASSUME NEW k, KeyReplica(k), now' = now, UNCHANGED <<replica, stream>>,
         \A p \in Procs : Share(p, k, Unsent)' = Share(p, k, Unsent),
         Same(db, db', k, now)
  PROVE  KeyReplica(k)'
<1>1. Pending(k, Unsent)' = Pending(k, Unsent)
  BY Zenon, SharesStay
<1>2. \A F : Tracks(now, db, replica, stream, k, F) => Tracks(now, db', replica, stream, k, F)
  BY Zenon, TracksHere
<1> QED
  BY Zenon, <1>1, <1>2 DEF KeyReplica

\* So does the whole of KeyInv.
LEMMA KeyStays ==
  ASSUME NEW k, KeyInv(k), now' = now,
         UNCHANGED <<log, base, buffer, rewriting, replica, stream>>,
         \A p \in Procs : /\ Share(p, k, Unsent)' = Share(p, k, Unsent)
                          /\ Share(p, k, Unlogged)' = Share(p, k, Unlogged),
         Expiring(k)' => Pending(k, Unsent) = {} /\ Hidden(k),
         Same(db, db', k, now)
  PROVE  KeyInv(k)'
<1>1. KeyAlone(k)'
  BY Zenon, AloneStays DEF KeyInv
<1>2. KeyFile(k)'
  BY Zenon, FileStays DEF KeyInv
<1>3. KeyReplica(k)'
  BY Zenon, ReplicaStays DEF KeyInv
<1> QED
  BY Zenon, <1>1, <1>2, <1>3 DEF KeyInv

\* Appending to both files.
LEMMA JoinAgain ==
  ASSUME NEW S, NEW a \in Seq(S), NEW b \in Seq(S), NEW c \in Seq(S)
  PROVE  /\ a \o b \in Seq(S) /\ b \o c \in Seq(S)
         /\ a \o (b \o c) = (a \o b) \o c
  BY SMTT(40)

\* Frames that are not about k are appended.
LEMMA FileOthers ==
  ASSUME CopyTypes, NEW k, KeyFile(k), NEW gs \in Seq(Frames), Len(gs) \in 0..2,
         \A i \in 1..Len(gs) : gs[i].op \in Ops /\ k \notin gs[i].keys,
         now' = now, db' = db, WriteLog(gs),
         \A p \in Procs : Share(p, k, Unlogged)' = Share(p, k, Unlogged)
  PROVE  KeyFile(k)'
<1> DEFINE F == Pending(k, Unlogged)
<1>1. Pending(k, Unlogged)' = F
  BY Zenon, SharesStay
<1>2. \A f \in F : f.op \in Ops
  BY Zenon, PendingOps
<1>3. /\ log \in Seq(Frames) /\ base \o buffer \in Seq(Frames)
      /\ base \o (buffer \o gs) = (base \o buffer) \o gs
  <2>1. log \in Seq(Frames) /\ base \in Seq(Frames) /\ buffer \in Seq(Frames)
    BY Zenon DEF CopyTypes
  <2> QED
    BY ONLY SMTT(40), <2>1, gs \in Seq(Frames), JoinAgain
<1>4. /\ log' = log \o gs /\ base' = base /\ rewriting' = rewriting
      /\ rewriting => buffer' = buffer \o gs
  BY Zenon DEF WriteLog
<1>5. Tracks(now, db, <<>>, log, k, F) /\ (rewriting => Tracks(now, db, <<>>, base \o buffer, k, F))
  BY Zenon DEF KeyFile
<1> HIDE DEF F
<1>6. \A fs \in Seq(Frames) : Tracks(now, db, <<>>, fs, k, F) => Tracks(now, db, <<>>, fs \o gs, k, F)
  BY <1>2, TracksOthers
<1>7. Tracks(now, db, <<>>, log', k, F)
  BY Zenon, <1>3, <1>4, <1>5, <1>6
<1>8. ASSUME rewriting PROVE Tracks(now, db, <<>>, base' \o buffer', k, F)
  <2>1. Tracks(now, db, <<>>, (base \o buffer) \o gs, k, F)
    BY Zenon, <1>3, <1>5, <1>6, <1>8
  <2>2. base' \o buffer' = (base \o buffer) \o gs
    BY Zenon, <1>3, <1>4, <1>8
  <2> QED
    BY Zenon, <2>1, <2>2
<1> QED
  BY Zenon, <1>1, <1>4, <1>7, <1>8 DEF KeyFile

\* The frame about k that waited is appended, or one that deletes it again.
LEMMA FileWritten ==
  ASSUME CopyTypes, NEW k, KeyFile(k), NEW gs \in Seq(Frames), Len(gs) \in 0..2,
         \A i \in 1..Len(gs) : gs[i].op \in Ops,
         NEW j \in 1..Len(gs), \A i \in 1..Len(gs) : i # j => k \notin gs[i].keys,
         Pending(k, Unlogged) = {gs[j]} \/ gs[j].op # "incr",
         Fixes(now, db, gs[j], k),
         now' = now, db' = db, WriteLog(gs), Pending(k, Unlogged)' = {}
  PROVE  KeyFile(k)'
<1>1. /\ log \in Seq(Frames) /\ base \o buffer \in Seq(Frames)
      /\ base \o (buffer \o gs) = (base \o buffer) \o gs
  <2>1. log \in Seq(Frames) /\ base \in Seq(Frames) /\ buffer \in Seq(Frames)
    BY Zenon DEF CopyTypes
  <2> QED
    BY ONLY SMTT(40), <2>1, gs \in Seq(Frames), JoinAgain
<1>2. /\ log' = log \o gs /\ base' = base /\ rewriting' = rewriting
      /\ rewriting => buffer' = buffer \o gs
  BY Zenon DEF WriteLog
<1>3. /\ Tracks(now, db, <<>>, log, k, {gs[j]})
      /\ rewriting => Tracks(now, db, <<>>, base \o buffer, k, {gs[j]})
  BY Zenon, TracksOverwritten DEF KeyFile
<1>4. \A fs \in Seq(Frames) : Tracks(now, db, <<>>, fs, k, {gs[j]}) => Tracks(now, db, <<>>, fs \o gs, k, {})
  BY TracksWritten
<1>5. Tracks(now, db, <<>>, log', k, {})
  BY Zenon, <1>1, <1>2, <1>3, <1>4
<1>6. ASSUME rewriting PROVE Tracks(now, db, <<>>, base' \o buffer', k, {})
  <2>1. Tracks(now, db, <<>>, (base \o buffer) \o gs, k, {})
    BY Zenon, <1>1, <1>3, <1>4, <1>6
  <2>2. base' \o buffer' = (base \o buffer) \o gs
    BY Zenon, <1>1, <1>2, <1>6
  <2> QED
    BY Zenon, <2>1, <2>2
<1> QED
  BY Zenon, <1>2, <1>5, <1>6 DEF KeyFile

\* Sending frames about other keys keeps KeyReplica.
LEMMA ReplicaOthers ==
  ASSUME CopyTypes, NEW k, KeyReplica(k), NEW gs \in Seq(Frames), Len(gs) \in 0..2,
         \A i \in 1..Len(gs) : gs[i].op \in Ops /\ k \notin gs[i].keys,
         now' = now, db' = db, stream' = stream \o gs, replica' = replica,
         \A p \in Procs : Share(p, k, Unsent)' = Share(p, k, Unsent)
  PROVE  KeyReplica(k)'
<1> DEFINE F == Pending(k, Unsent)
<1>1. Pending(k, Unsent)' = F
  BY Zenon, SharesStay
<1>2. (\A f \in F : f.op \in Ops) /\ stream \in Seq(Frames)
  BY Zenon, PendingOps DEF CopyTypes
<1>3. Tracks(now, db, replica, stream, k, F)
  BY ZenonT(40) DEF KeyReplica
<1> HIDE DEF F
<1>4. Tracks(now, db, replica, stream \o gs, k, F)
  BY <1>2, <1>3, TracksOthers
<1> QED
  BY Zenon, <1>1, <1>4 DEF KeyReplica

\* Sending the frame about k settles k's debt to the replica.
LEMMA ReplicaWritten ==
  ASSUME CopyTypes, NEW k, KeyReplica(k), NEW gs \in Seq(Frames), Len(gs) \in 0..2,
         \A i \in 1..Len(gs) : gs[i].op \in Ops,
         NEW j \in 1..Len(gs), \A i \in 1..Len(gs) : i # j => k \notin gs[i].keys,
         Pending(k, Unsent) = {gs[j]} \/ gs[j].op # "incr",
         Fixes(now, db, gs[j], k),
         now' = now, db' = db, stream' = stream \o gs, replica' = replica,
         Pending(k, Unsent)' = {}
  PROVE  KeyReplica(k)'
<1>1. stream \in Seq(Frames)
  BY Zenon DEF CopyTypes
<1>2. Tracks(now, db, replica, stream, k, {gs[j]})
  BY ZenonT(40), TracksOverwritten DEF KeyReplica
<1>3. Tracks(now, db, replica, stream \o gs, k, {})
  BY SMTT(40), <1>1, <1>2, TracksWritten
<1> QED
  BY Zenon, <1>3 DEF KeyReplica

(***************************************************************************)
(* Steps that publish frames.                                              *)
(***************************************************************************)

\* A step of p leaves the frames of the others.
OthersStay(p) ==
    /\ \A q \in Procs : q # p => pc'[q] = pc[q] /\ frames'[q] = frames[q]
    /\ now' = now

\* A goroutine without frames has no share of them.
LEMMA NothingShared ==
  ASSUME NEW p, frames[p] = <<>>, NEW k, NEW S
  PROVE  Share(p, k, S) = {}
<1>1. 1..Len(frames[p]) = {}
  OBVIOUS
<1> QED
  BY Zenon, <1>1 DEF Share

\* p stays before the append, or has nothing to append, or is not at it.
LEMMA SharesSame ==
  ASSUME CopyTypes, NEW p \in Procs, OthersStay(p), NEW k,
         \/ pc[p] \notin Unsent /\ pc'[p] \notin Unsent
         \/ pc[p] \in Unlogged /\ pc'[p] \in Unlogged /\ frames'[p] = frames[p]
         \/ frames[p] = <<>> /\ frames'[p] = <<>>
  PROVE  \A q \in Procs : /\ Share(q, k, Unsent)' = Share(q, k, Unsent)
                          /\ Share(q, k, Unlogged)' = Share(q, k, Unlogged)
<1>1. Unlogged \subseteq Unsent
  BY Zenon DEF Unsent
<1>2. Share(p, k, Unsent)' = Share(p, k, Unsent) /\ Share(p, k, Unlogged)' = Share(p, k, Unlogged)
  <2>1. CASE pc[p] \notin Unsent /\ pc'[p] \notin Unsent
    BY Zenon, <1>1, <2>1 DEF Share
  <2>2. CASE pc[p] \in Unlogged /\ pc'[p] \in Unlogged /\ frames'[p] = frames[p]
    BY Zenon, <1>1, <2>2 DEF Share
  <2>3. CASE frames[p] = <<>> /\ frames'[p] = <<>>
    <3>1. \A S : Share(p, k, S) = {}
      BY Zenon, <2>3, NothingShared
    <3>2. 1..Len(frames'[p]) = {}
      BY <2>3
    <3>3. Share(p, k, Unsent)' = {} /\ Share(p, k, Unlogged)' = {}
      BY Zenon, <3>2 DEF Share
    <3> QED
      BY Zenon, <3>1, <3>3
  <2> QED
    BY Zenon, <2>1, <2>2, <2>3
<1>3. \A q \in Procs : q # p => Share(q, k, Unsent)' = Share(q, k, Unsent)
  BY ONLY Zenon, OthersStay(p) DEF OthersStay, Share
<1>4. \A q \in Procs : q # p => Share(q, k, Unlogged)' = Share(q, k, Unlogged)
  BY ONLY Zenon, OthersStay(p) DEF OthersStay, Share
<1> QED
  BY Zenon, <1>2, <1>3, <1>4

\* Dirty keys are those of Share and taken.
LEMMA DirtyShares ==
  ASSUME CopyTypes, NEW p \in Procs, NEW k
  PROVE  k \in Dirty(p) <=> k \in taken[p] \/ Share(p, k, Unsent) # {}
<1>1. pc[p] \in PcValues /\ frames[p] \in Seq(Frames)
  BY Zenon DEF CopyTypes
<1>2. pc[p] \in Unsent <=> pc[p] \notin {"idle", "locking", "installing"}
  BY Zenon, <1>1 DEF PcValues, Unsent, Unlogged
<1>3. DOMAIN frames[p] = 1..Len(frames[p])
  BY <1>1
<1>4. CASE pc[p] \in Unsent
  <2>1. Dirty(p) = taken[p] \cup UNION {frames[p][i].keys : i \in 1..Len(frames[p])}
    BY Zenon, <1>2, <1>3, <1>4 DEF Dirty
  <2>2. Share(p, k, Unsent) =
           {frames[p][i] : i \in {i \in 1..Len(frames[p]) : k \in frames[p][i].keys}}
    BY Zenon, <1>4 DEF Share
  <2>3. k \in UNION {frames[p][i].keys : i \in 1..Len(frames[p])} <=>
           \E i \in 1..Len(frames[p]) : k \in frames[p][i].keys
    BY Zenon
  <2>4. Share(p, k, Unsent) # {} <=> \E i \in 1..Len(frames[p]) : k \in frames[p][i].keys
    BY Zenon, <2>2
  <2> QED
    BY Zenon, <2>1, <2>3, <2>4
<1>5. CASE pc[p] \notin Unsent
  BY Zenon, <1>2, <1>5 DEF Dirty, Share
<1> QED
  BY Zenon, <1>4, <1>5

\* Deleting a key that nobody sees.
LEMMA HiddenFixes ==
  ASSUME NEW k, Hidden(k), NEW f, f.op = "del", k \in f.keys
  PROVE  Fixes(now, db, f, k)
<1> SUFFICES ASSUME NEW d, NEW t
             PROVE  Same(Execute(d, f, t), db, k, now)
  BY Zenon DEF Fixes
<1>1. k \notin DOMAIN Execute(d, f, t)
  BY Zenon, DelGives
<1> QED
  BY Zenon, <1>1 DEF Same, Shows, Hidden

\* A step that is none of a change's.
LEMMA IdleKeepsKeys ==
  ASSUME CopyInv, NEW p \in Procs, OthersStay(p), UNCHANGED excused,
         UNCHANGED <<db, log, base, buffer, rewriting, replica, stream>>,
         \/ pc[p] \notin Unsent /\ pc'[p] \notin Unsent
         \/ pc[p] \in Unlogged /\ pc'[p] \in Unlogged /\ frames'[p] = frames[p]
         \/ frames[p] = <<>> /\ frames'[p] = <<>>,
         \A k : Expiring(k)' => Expiring(k)
  PROVE  \A k \in Keys : Excused(k)' \/ KeyInv(k)'
<1> SUFFICES ASSUME NEW k \in Keys, ~Excused(k)'
             PROVE  KeyInv(k)'
  BY Zenon
<1>1. KeyInv(k) /\ CopyTypes
  BY Zenon DEF CopyInv, Excused
<1>2. \A q \in Procs : /\ Share(q, k, Unsent)' = Share(q, k, Unsent)
                       /\ Share(q, k, Unlogged)' = Share(q, k, Unlogged)
  BY Zenon, <1>1, SharesSame
<1>3. Same(db, db', k, now)
  BY Zenon DEF Same
<1>4. Expiring(k)' => Pending(k, Unsent) = {} /\ Hidden(k)
  BY Zenon, <1>1 DEF KeyInv, KeyAlone
<1>5. now' = now
  BY Zenon DEF OthersStay
<1> QED
  BY Zenon, <1>1, <1>2, <1>3, <1>4, <1>5, KeyStays

\* Starting an activity keeps KeyInv: the new frames wait at no stage yet.
LEMMA BeginKeepsKeys ==
  ASSUME CopyInv, NEW p \in Procs, NEW ss, Begin(p, ss),
         frames' = frames \/ \E fs : Emits(p, fs)
  PROVE  \A k \in Keys : Excused(k)' \/ KeyInv(k)'
<1>1. pc \in [Procs -> PcValues] /\ frames \in [Procs -> Seq(Frames)]
  BY Zenon DEF CopyInv, CopyTypes
<1>2. OthersStay(p)
  BY Zenon, <1>1 DEF OthersStay, Begin, Emits
<1>3. pc[p] = "idle" /\ pc'[p] = "locking"
  BY Zenon, <1>1 DEF Begin
<1>4. pc[p] \notin Unsent /\ pc'[p] \notin Unsent
  BY Zenon, <1>3 DEF Unsent, Unlogged
<1>5. \A k : Expiring(k)' => Expiring(k)
  BY Zenon DEF Expiring, Begin
<1>6. UNCHANGED <<db, log, base, buffer, rewriting, replica, stream>> /\ UNCHANGED excused
  BY Zenon DEF Begin, fileVars, replicaVars
<1> QED
  BY Zenon, <1>2, <1>4, <1>5, <1>6, IdleKeepsKeys

\* Nothing happens but at the locks.
LEMMA StillKeepsKeys ==
  ASSUME CopyInv, UNCHANGED <<now, db, pc, frames, noted, taken, excused>>,
         UNCHANGED <<log, base, buffer, rewriting, replica, stream>>
  PROVE  \A k \in Keys : Excused(k)' \/ KeyInv(k)'
<1>1. OthersStay(Reader)
  BY Zenon DEF OthersStay
<1>2. \A k : Expiring(k)' => Expiring(k)
  BY Zenon DEF Expiring
<1>3. Reader \in Procs /\ CopyTypes
  BY Zenon DEF Procs, CopyInv
<1>4. \/ pc[Reader] \notin Unsent /\ pc'[Reader] \notin Unsent
      \/ frames[Reader] = <<>> /\ frames'[Reader] = <<>>
  BY Zenon, <1>3, ProcsAssumption DEF CopyTypes, Shape
<1> QED
  BY Zenon, <1>1, <1>2, <1>3, <1>4, IdleKeepsKeys

\* Reading a shard for a snapshot keeps KeyInv.
LEMMA SnapshotStringsKeepsKeys ==
  ASSUME CopyInv, SnapshotStrings
  PROVE  \A k \in Keys : Excused(k)' \/ KeyInv(k)'
<1>1. pc \in [Procs -> PcValues] /\ Reader \in Procs
  BY Zenon DEF CopyInv, CopyTypes, Procs
<1>2. OthersStay(Reader)
  BY Zenon, <1>1 DEF OthersStay, SnapshotStrings
<1>3. pc[Reader] = "locking" /\ pc'[Reader] = "idle"
  BY Zenon, <1>1 DEF SnapshotStrings, Holds
<1>4. pc[Reader] \notin Unsent /\ pc'[Reader] \notin Unsent
  BY Zenon, <1>3 DEF Unsent, Unlogged
<1>5. \A k : Expiring(k)' => Expiring(k)
  BY Zenon DEF Expiring, SnapshotStrings
<1>6. UNCHANGED <<db, log, base, buffer, rewriting, replica, stream>> /\ UNCHANGED excused
  BY Zenon DEF SnapshotStrings, fileVars, replicaVars
<1> QED
  BY Zenon, <1>1, <1>2, <1>4, <1>5, <1>6, IdleKeepsKeys

\* Before its append a goroutine goes on to the append, or stops when there is none.
LEMMA AfterPublishFits ==
  ASSUME NEW p, frames' = frames, pc[p] \in Unlogged,
         pc'[p] = AfterPublish(p) \/ pc'[p] \in Unlogged
  PROVE  \/ pc[p] \in Unlogged /\ pc'[p] \in Unlogged /\ frames'[p] = frames[p]
         \/ frames[p] = <<>> /\ frames'[p] = <<>>
  BY Zenon DEF AfterPublish, Unlogged

\* Taking the noted keys over keeps KeyInv: they stay expiring.
LEMMA TakeKeepsKeys ==
  ASSUME CopyInv, NEW p \in Procs, Take(p)
  PROVE  \A k \in Keys : Excused(k)' \/ KeyInv(k)'
<1>1. pc \in [Procs -> PcValues] /\ taken \in [Procs -> SUBSET Keys]
  BY Zenon DEF CopyInv, CopyTypes
<1>2. OthersStay(p) /\ frames' = frames
  BY Zenon, <1>1 DEF OthersStay, Take, Step
<1>3. pc[p] \in Unlogged /\ (pc'[p] = AfterPublish(p) \/ pc'[p] \in Unlogged)
  BY Zenon, <1>1 DEF Take, Step, Unlogged
<1>4. \A k : Expiring(k)' => Expiring(k)
  BY Zenon, <1>1 DEF Expiring, Take
<1>5. UNCHANGED <<db, log, base, buffer, rewriting, replica, stream>> /\ UNCHANGED excused
  BY Zenon DEF Take, fileVars, replicaVars
<1>6. \/ pc[p] \in Unlogged /\ pc'[p] \in Unlogged /\ frames'[p] = frames[p]
      \/ frames[p] = <<>> /\ frames'[p] = <<>>
  BY ZenonT(40), <1>2, <1>3, AfterPublishFits
<1> QED
  BY Zenon, <1>2, <1>4, <1>5, <1>6, IdleKeepsKeys

\* An append of expired keys that fails keeps KeyInv: its keys are excused.
LEMMA LogExpiredFailsKeepsKeys ==
  ASSUME CopyInv, NEW p \in Procs, LogExpiredFails(p)
  PROVE  \A k \in Keys : Excused(k)' \/ KeyInv(k)'
<1>1. pc \in [Procs -> PcValues] /\ taken \in [Procs -> SUBSET Keys]
  BY Zenon DEF CopyInv, CopyTypes
<1>2. OthersStay(p) /\ frames' = frames
  BY Zenon, <1>1 DEF OthersStay, LogExpiredFails, Step
<1>3. pc[p] \in Unlogged /\ (pc'[p] = AfterPublish(p) \/ pc'[p] \in Unlogged)
  BY Zenon, <1>1 DEF LogExpiredFails, Step, Unlogged
<1>4. \A k : Expiring(k)' => Expiring(k)
  BY Zenon, <1>1 DEF Expiring, LogExpiredFails
<1>5. UNCHANGED <<db, log, base, buffer, rewriting, replica, stream>> /\ UNCHANGED excused
  BY Zenon DEF LogExpiredFails, fileVars, replicaVars
<1>6. \/ pc[p] \in Unlogged /\ pc'[p] \in Unlogged /\ frames'[p] = frames[p]
      \/ frames[p] = <<>> /\ frames'[p] = <<>>
  BY Zenon, <1>2, <1>3, AfterPublishFits
<1> QED
  BY Zenon, <1>2, <1>4, <1>5, <1>6, IdleKeepsKeys

\* What is unlogged is unsent.
LEMMA ShareParts ==
  ASSUME NEW k
  PROVE  /\ \A p \in Procs : Share(p, k, Unlogged) \subseteq Share(p, k, Unsent)
         /\ Pending(k, Unsent) = {} => Pending(k, Unlogged) = {}
<1>1. \A p \in Procs : Share(p, k, Unlogged) \subseteq Share(p, k, Unsent)
  BY Zenon DEF Share, Unsent
<1> QED
  BY ZenonT(40), <1>1 DEF Pending

\* A goroutine that publishes expired keys.
LEMMA ExpiredFrameFits ==
  ASSUME CopyTypes, NEW p \in Procs, NEW k
  PROVE  LET gs == <<ExpiredFrame(p)>>
         IN  /\ gs \in Seq(Frames) /\ Len(gs) = 1 /\ Len(gs) \in 0..2
             /\ \A i \in 1..Len(gs) : i = 1 /\ gs[i].op \in Ops /\ gs[i].op = "del" /\ gs[i].keys = taken[p]
<1> DEFINE f == ExpiredFrame(p)
<1>1. taken[p] \in SUBSET Keys
  BY Zenon DEF CopyTypes
<1>2. f.op = "del" /\ f.keys = taken[p] /\ f.op \in Ops
  BY Zenon DEF ExpiredFrame, DelFrame, Ops
<1>3. f \in Frames
  <2>1. Value(0, 0) \in Values
    BY DEF Value, Values
  <2>2. "del" \in Ops
    BY Zenon DEF Ops
  <2> QED
    BY SMTT(40), <1>1, <2>1, <2>2 DEF ExpiredFrame, DelFrame, Frames
<1> HIDE DEF f
<1>4. <<f>> \in Seq(Frames) /\ Len(<<f>>) = 1 /\ \A i \in 1..Len(<<f>>) : i = 1 /\ <<f>>[i] = f
  BY <1>3
<1>5. <<f>> \in Seq(Frames) /\ Len(<<f>>) = 1 /\ Len(<<f>>) \in 0..2
  BY <1>4
<1>6. \A i \in 1..Len(<<f>>) : i = 1 /\ <<f>>[i].op \in Ops /\ <<f>>[i].op = "del" /\ <<f>>[i].keys = taken[p]
  BY Zenon, <1>2, <1>4
<1> QED
  BY Zenon, <1>5, <1>6 DEF f

\* Appending the deletion of expired keys keeps KeyInv.
LEMMA LogExpiredKeepsKeys ==
  ASSUME CopyInv, NEW p \in Procs, LogExpired(p)
  PROVE  \A k \in Keys : Excused(k)' \/ KeyInv(k)'
<1> SUFFICES ASSUME NEW k \in Keys, ~Excused(k)'
             PROVE  KeyInv(k)'
  BY Zenon
<1>1. /\ CopyTypes /\ pc \in [Procs -> PcValues]
      /\ db' = db /\ now' = now /\ UNCHANGED <<frames, noted, taken, replica, stream, excused>>
  BY Zenon DEF LogExpired, CopyInv, CopyTypes, replicaVars
<1>2. KeyInv(k)
  BY Zenon, <1>1 DEF CopyInv, Excused
<1>3. OthersStay(p)
  BY Zenon, <1>1 DEF OthersStay, LogExpired, Step
<1>4. pc[p] \in Unlogged /\ pc'[p] \in Unlogged
  BY Zenon, <1>1 DEF LogExpired, Step, Unlogged
<1>5. \A q \in Procs : /\ Share(q, k, Unsent)' = Share(q, k, Unsent)
                       /\ Share(q, k, Unlogged)' = Share(q, k, Unlogged)
  BY Zenon, <1>1, <1>3, <1>4, SharesSame
<1>6. Same(db, db', k, now)
  BY Zenon, <1>1 DEF Same
<1>7. Expiring(k)' <=> Expiring(k)
  BY Zenon, <1>1 DEF Expiring
<1>8. Expiring(k) => Pending(k, Unsent) = {} /\ Hidden(k)
  BY Zenon, <1>2 DEF KeyInv, KeyAlone
<1>9. KeyAlone(k)'
  BY Zenon, <1>1, <1>2, <1>5, <1>6, <1>7, <1>8, AloneStays DEF KeyInv
<1>10. KeyReplica(k)'
  BY ZenonT(40), <1>1, <1>2, <1>5, <1>6, ReplicaStays DEF KeyInv
<1> DEFINE gs == <<ExpiredFrame(p)>>
<1>11. /\ gs \in Seq(Frames) /\ Len(gs) = 1 /\ Len(gs) \in 0..2
       /\ \A i \in 1..Len(gs) : i = 1 /\ gs[i].op \in Ops /\ gs[i].op = "del" /\ gs[i].keys = taken[p]
  BY SMTT(40), <1>1, ExpiredFrameFits
<1>12. WriteLog(gs)
  BY Zenon DEF LogExpired
<1>13. KeyFile(k)
  BY Zenon, <1>2 DEF KeyInv
<1> HIDE DEF gs
<1>14. KeyFile(k)'
  <2>1. CASE k \notin taken[p]
    <3>1. \A i \in 1..Len(gs) : gs[i].op \in Ops /\ k \notin gs[i].keys
      BY Zenon, <1>11, <2>1
    <3> QED
      BY ZenonT(40), <1>1, <1>5, <1>11, <1>12, <1>13, <3>1, FileOthers
  <2>2. CASE k \in taken[p]
    <3>1. Pending(k, Unsent) = {} /\ Hidden(k)
      BY Zenon, <1>8, <2>2 DEF Expiring
    <3>2. Pending(k, Unlogged) = {}
      BY Zenon, <3>1, ShareParts
    <3>3. Pending(k, Unlogged)' = {}
      BY Zenon, <1>5, <3>2, SharesStay
    <3>4. 1 \in 1..Len(gs)
      BY <1>11
    <3>5. gs[1].op = "del" /\ k \in gs[1].keys /\ gs[1].op # "incr"
      BY Zenon, <1>11, <2>2, <3>4
    <3>6. Fixes(now, db, gs[1], k)
      BY Zenon, <3>1, <3>5, HiddenFixes
    <3>7. \A i \in 1..Len(gs) : i # 1 => k \notin gs[i].keys
      BY Zenon, <1>11
    <3> QED
      BY ZenonT(40), <1>1, <1>11, <1>12, <1>13, <3>3, <3>4, <3>5, <3>6, <3>7, FileWritten
  <2> QED
    BY Zenon, <2>1, <2>2
<1> QED
  BY Zenon, <1>9, <1>10, <1>14 DEF KeyInv

\* Sending the deletion of expired keys keeps KeyInv.
LEMMA SendExpiredKeepsKeys ==
  ASSUME CopyInv, NEW p \in Procs, SendExpired(p)
  PROVE  \A k \in Keys : Excused(k)' \/ KeyInv(k)'
<1> SUFFICES ASSUME NEW k \in Keys, ~Excused(k)'
             PROVE  KeyInv(k)'
  BY Zenon
<1>1. /\ CopyTypes /\ pc \in [Procs -> PcValues] /\ taken \in [Procs -> SUBSET Keys]
      /\ db' = db /\ now' = now /\ replica' = replica
      /\ UNCHANGED <<frames, noted, excused, log, base, buffer, rewriting>>
  BY Zenon DEF SendExpired, CopyInv, CopyTypes, fileVars
<1>2. KeyInv(k)
  BY Zenon, <1>1 DEF CopyInv, Excused
<1>3. OthersStay(p)
  BY Zenon, <1>1 DEF OthersStay, SendExpired, Step
<1>4. pc[p] \in Unlogged /\ pc'[p] = AfterPublish(p)
  BY Zenon, <1>1 DEF SendExpired, Step, Unlogged
<1>4a. \/ pc[p] \in Unlogged /\ pc'[p] \in Unlogged /\ frames'[p] = frames[p]
       \/ frames[p] = <<>> /\ frames'[p] = <<>>
  BY Zenon, <1>1, <1>4, AfterPublishFits
<1>5. \A q \in Procs : /\ Share(q, k, Unsent)' = Share(q, k, Unsent)
                       /\ Share(q, k, Unlogged)' = Share(q, k, Unlogged)
  BY Zenon, <1>1, <1>3, <1>4a, SharesSame
<1>6. Same(db, db', k, now)
  BY Zenon, <1>1 DEF Same
<1>7. Expiring(k)' => Expiring(k)
  BY Zenon, <1>1 DEF Expiring, SendExpired
<1>8. Expiring(k) => Pending(k, Unsent) = {} /\ Hidden(k)
  BY Zenon, <1>2 DEF KeyInv, KeyAlone
<1>9. KeyAlone(k)'
  BY Zenon, <1>1, <1>2, <1>5, <1>6, <1>7, <1>8, AloneStays DEF KeyInv
<1>10. KeyFile(k)'
  BY ZenonT(40), <1>1, <1>2, <1>5, <1>6, FileStays DEF KeyInv
<1> DEFINE gs == <<ExpiredFrame(p)>>
<1>11. /\ gs \in Seq(Frames) /\ Len(gs) = 1 /\ Len(gs) \in 0..2
       /\ \A i \in 1..Len(gs) : i = 1 /\ gs[i].op \in Ops /\ gs[i].op = "del" /\ gs[i].keys = taken[p]
  BY <1>1, ExpiredFrameFits
<1>12. stream' = stream \o gs
  BY Zenon DEF SendExpired
<1>13. KeyReplica(k)
  BY Zenon, <1>2 DEF KeyInv
<1> HIDE DEF gs
<1>14. KeyReplica(k)'
  <2>1. CASE k \notin taken[p]
    <3>1. \A i \in 1..Len(gs) : gs[i].op \in Ops /\ k \notin gs[i].keys
      BY Zenon, <1>11, <2>1
    <3> QED
      BY ZenonT(40), <1>1, <1>5, <1>11, <1>12, <1>13, <3>1, ReplicaOthers
  <2>2. CASE k \in taken[p]
    <3>1. Pending(k, Unsent) = {} /\ Hidden(k)
      BY Zenon, <1>8, <2>2 DEF Expiring
    <3>3. Pending(k, Unsent)' = {}
      BY ZenonT(40), <1>5, <3>1, SharesStay
    <3>4. 1 \in 1..Len(gs)
      BY <1>11
    <3>5. gs[1].op = "del" /\ k \in gs[1].keys /\ gs[1].op # "incr"
      BY Zenon, <1>11, <2>2, <3>4
    <3>6. Fixes(now, db, gs[1], k)
      BY Zenon, <3>1, <3>5, HiddenFixes
    <3>7. \A i \in 1..Len(gs) : i # 1 => k \notin gs[i].keys
      BY Zenon, <1>11
    <3> QED
      BY ZenonT(40), <1>1, <1>11, <1>12, <1>13, <3>3, <3>4, <3>5, <3>6, <3>7, ReplicaWritten
  <2> QED
    BY Zenon, <2>1, <2>2
<1> QED
  BY Zenon, <1>9, <1>10, <1>14 DEF KeyInv

\* No frame of p is about k.
Apart(p, k) == \A i \in 1..Len(frames[p]) : k \notin frames[p][i].keys

\* A goroutine that is apart from k has no share of its frames.
LEMMA ApartShares ==
  ASSUME NEW p, NEW k, Apart(p, k), NEW S
  PROVE  Share(p, k, S) = {}
  BY Zenon DEF Apart, Share

\* What Shape says of the frames of a goroutine, one by one.
LEMMA FramesFit ==
  ASSUME CopyTypes, NEW p \in Procs
  PROVE  /\ frames[p] \in Seq(Frames) /\ Len(frames[p]) \in 0..2
         /\ \A i \in 1..Len(frames[p]) : frames[p][i] \in Frames /\ frames[p][i].op \in Ops
         /\ \A i, j \in 1..Len(frames[p]) : i # j => frames[p][i].keys \cap frames[p][j].keys = {}
<1> DEFINE fs == frames[p]
<1>1. fs \in Seq(Frames) /\ Shape(p)
  BY Zenon DEF CopyTypes
<1>2. /\ Len(fs) \in 0..2 /\ (Len(fs) = 2 => fs[1].keys \cap fs[2].keys = {})
  BY Zenon, <1>1 DEF Shape
<1> HIDE DEF fs
<1>3. \A i \in 1..Len(fs) : fs[i] \in Frames
  BY <1>1
<1>4. \A f \in Frames : f.op \in Ops
  BY DEF Frames
<1>5. \A i, j \in 1..Len(fs) : i # j => Len(fs) = 2 /\ ((i = 1 /\ j = 2) \/ (i = 2 /\ j = 1))
  <2> DEFINE l == Len(fs)
  <2>1. l \in 0..2
    BY Zenon, <1>2
  <2> HIDE DEF l
  <2>2. \A i, j \in 1..l : i # j => l = 2 /\ ((i = 1 /\ j = 2) \/ (i = 2 /\ j = 1))
    BY ONLY <2>1
  <2> QED
    BY Zenon, <2>2 DEF l
<1>6. \A i, j \in 1..Len(fs) : i # j => fs[i].keys \cap fs[j].keys = {}
  <2> SUFFICES ASSUME NEW i \in 1..Len(fs), NEW j \in 1..Len(fs), i # j
               PROVE  fs[i].keys \cap fs[j].keys = {}
    OBVIOUS
  <2>1. Len(fs) = 2 /\ ((i = 1 /\ j = 2) \/ (i = 2 /\ j = 1))
    BY Zenon, <1>5
  <2>2. fs[1].keys \cap fs[2].keys = {} /\ fs[2].keys \cap fs[1].keys = {}
    BY Zenon, <1>2, <2>1
  <2> QED
    BY Zenon, <2>1, <2>2
<1> QED
  BY Zenon, <1>1, <1>2, <1>3, <1>4, <1>6 DEF fs

\* The frame of p about k is all that waits for k.
LEMMA OwnFrame ==
  ASSUME CopyTypes, NEW k, KeyAlone(k), NEW p \in Procs, pc[p] \in Unsent,
         NEW j \in 1..Len(frames[p]), k \in frames[p][j].keys
  PROVE  /\ Pending(k, Unsent) = {frames[p][j]}
         /\ pc[p] \in Unlogged => Pending(k, Unlogged) = {frames[p][j]}
         /\ \A i \in 1..Len(frames[p]) : i # j => k \notin frames[p][i].keys
         /\ \A q \in Procs : q # p => Share(q, k, Unsent) = {} /\ Share(q, k, Unlogged) = {}
         /\ Fixes(now, db, frames[p][j], k)
<1>1. \A i \in 1..Len(frames[p]) : i # j => k \notin frames[p][i].keys
  BY Zenon, FramesFit
<1>2. {i \in 1..Len(frames[p]) : k \in frames[p][i].keys} = {j}
  BY Zenon, <1>1
<1>3. \A S : pc[p] \in S => Share(p, k, S) = {frames[p][j]}
  BY Zenon, <1>2 DEF Share
<1>4. Share(p, k, Unsent) = {frames[p][j]}
  BY Zenon, <1>3
<1>5. \A q \in Procs : q # p => Share(q, k, Unsent) = {}
  BY Zenon, <1>4 DEF KeyAlone
<1>6. \A q \in Procs : q # p => Share(q, k, Unlogged) = {}
  BY Zenon, <1>5, ShareParts
<1>7. Pending(k, Unsent) = {frames[p][j]}
  BY Zenon, <1>4, <1>5 DEF Pending
<1>8. ASSUME pc[p] \in Unlogged PROVE Pending(k, Unlogged) = {frames[p][j]}
  <2>1. Share(p, k, Unlogged) = {frames[p][j]}
    BY Zenon, <1>3, <1>8
  <2> QED
    BY Zenon, <1>6, <2>1 DEF Pending
<1>9. Fixes(now, db, frames[p][j], k)
  BY Zenon, <1>7 DEF KeyAlone
<1> QED
  BY Zenon, <1>1, <1>5, <1>6, <1>7, <1>8, <1>9

\* Appending a request's frames keeps KeyInv.
LEMMA LogFramesKeepsKeys ==
  ASSUME CopyInv, NEW p \in Procs, LogFrames(p)
  PROVE  \A k \in Keys : Excused(k)' \/ KeyInv(k)'
<1> SUFFICES ASSUME NEW k \in Keys, ~Excused(k)'
             PROVE  KeyInv(k)'
  BY Zenon
<1>1. /\ CopyTypes /\ pc \in [Procs -> PcValues]
      /\ db' = db /\ now' = now /\ UNCHANGED <<frames, noted, taken, replica, stream, excused>>
  BY Zenon DEF LogFrames, CopyInv, CopyTypes, replicaVars
<1>2. KeyInv(k)
  BY Zenon, <1>1 DEF CopyInv, Excused
<1>3. OthersStay(p)
  BY Zenon, <1>1 DEF OthersStay, LogFrames, Step
<1>4. pc[p] = "append" /\ pc'[p] = "send"
  BY Zenon, <1>1 DEF LogFrames, Step
<1>5. pc[p] \in Unlogged /\ pc[p] \in Unsent /\ pc'[p] \in Unsent /\ pc'[p] \notin Unlogged
  BY Zenon, <1>4 DEF Unlogged, Unsent
<1>6. \A q \in Procs : Share(q, k, Unsent)' = Share(q, k, Unsent)
  <2>1. \A q \in Procs : q # p => Share(q, k, Unsent)' = Share(q, k, Unsent)
    BY ONLY Zenon, <1>3 DEF OthersStay, Share
  <2>2. Share(p, k, Unsent)' = Share(p, k, Unsent)
    BY Zenon, <1>1, <1>5 DEF Share
  <2> QED
    BY Zenon, <2>1, <2>2
<1>7. Share(p, k, Unlogged)' = {}
  BY Zenon, <1>5 DEF Share
<1>8. \A q \in Procs : q # p => Share(q, k, Unlogged)' = Share(q, k, Unlogged)
  BY ONLY Zenon, <1>3 DEF OthersStay, Share
<1>9. Same(db, db', k, now)
  BY Zenon, <1>1 DEF Same
<1>10. Expiring(k)' => Pending(k, Unsent) = {} /\ Hidden(k)
  <2>1. Expiring(k)' => Expiring(k)
    BY Zenon, <1>1 DEF Expiring
  <2> QED
    BY Zenon, <1>2, <2>1 DEF KeyInv, KeyAlone
<1>11. KeyAlone(k)'
  BY ZenonT(40), <1>1, <1>2, <1>6, <1>9, <1>10, AloneStays DEF KeyInv
<1>12. KeyReplica(k)'
  BY ZenonT(40), <1>1, <1>2, <1>6, <1>9, ReplicaStays DEF KeyInv
<1>13. /\ frames[p] \in Seq(Frames) /\ Len(frames[p]) \in 0..2
       /\ \A i \in 1..Len(frames[p]) : frames[p][i].op \in Ops
  BY Zenon, <1>1, FramesFit
<1>14. WriteLog(frames[p]) /\ KeyFile(k) /\ KeyAlone(k)
  BY Zenon, <1>2 DEF LogFrames, KeyInv
<1>15. KeyFile(k)'
  <2>1. CASE Apart(p, k)
    <3>1. \A i \in 1..Len(frames[p]) : frames[p][i].op \in Ops /\ k \notin frames[p][i].keys
      BY Zenon, <1>13, <2>1 DEF Apart
    <3>2. Share(p, k, Unlogged) = {}
      BY Zenon, <2>1, ApartShares
    <3>3. \A q \in Procs : Share(q, k, Unlogged)' = Share(q, k, Unlogged)
      BY Zenon, <1>7, <1>8, <3>2
    <3> QED
      BY ZenonT(40), <1>1, <1>13, <1>14, <3>1, <3>3, FileOthers
  <2>2. CASE ~Apart(p, k)
    <3>1. PICK j \in 1..Len(frames[p]) : k \in frames[p][j].keys
      BY Zenon, <2>2 DEF Apart
    <3>2. /\ Pending(k, Unlogged) = {frames[p][j]}
          /\ \A i \in 1..Len(frames[p]) : i # j => k \notin frames[p][i].keys
          /\ \A q \in Procs : q # p => Share(q, k, Unlogged) = {}
          /\ Fixes(now, db, frames[p][j], k)
      BY Zenon, <1>1, <1>5, <1>14, <3>1, OwnFrame
    <3>3. Pending(k, Unlogged)' = {}
      <4>1. \A q \in Procs : Share(q, k, Unlogged)' = {}
        BY ONLY Zenon, <1>7, <1>8, <3>2
      <4> QED
        BY ONLY Zenon, <4>1 DEF Pending
    <3> DEFINE gs == frames[p]
    <3>4. /\ gs \in Seq(Frames) /\ Len(gs) \in 0..2 /\ \A i \in 1..Len(gs) : gs[i].op \in Ops
          /\ j \in 1..Len(gs) /\ \A i \in 1..Len(gs) : i # j => k \notin gs[i].keys
          /\ Pending(k, Unlogged) = {gs[j]} /\ Fixes(now, db, gs[j], k) /\ WriteLog(gs)
      BY ZenonT(40), <1>13, <1>14, <3>1, <3>2
    <3> HIDE DEF gs
    <3> QED
      BY Zenon, <1>1, <1>14, <3>3, <3>4, FileWritten
  <2> QED
    BY Zenon, <2>1, <2>2
<1> QED
  BY Zenon, <1>11, <1>12, <1>15 DEF KeyInv

\* Sending a request's frames keeps KeyInv.
LEMMA SendKeepsKeys ==
  ASSUME CopyInv, NEW p \in Procs, Send(p)
  PROVE  \A k \in Keys : Excused(k)' \/ KeyInv(k)'
<1> SUFFICES ASSUME NEW k \in Keys, ~Excused(k)'
             PROVE  KeyInv(k)'
  BY Zenon
<1>1. /\ CopyTypes /\ pc \in [Procs -> PcValues] /\ frames \in [Procs -> Seq(Frames)]
      /\ db' = db /\ now' = now /\ replica' = replica
      /\ UNCHANGED <<noted, taken, excused, log, base, buffer, rewriting>>
  BY Zenon DEF Send, CopyInv, CopyTypes, fileVars
<1>2. KeyInv(k)
  BY Zenon, <1>1 DEF CopyInv, Excused
<1>3. OthersStay(p)
  BY Zenon, <1>1 DEF OthersStay, Send, Step, Emits
<1>4. pc[p] = "send" /\ pc'[p] = "idle"
  BY Zenon, <1>1 DEF Send, Step
<1>5. pc[p] \notin Unlogged /\ pc[p] \in Unsent /\ pc'[p] \notin Unsent /\ pc'[p] \notin Unlogged
  BY Zenon, <1>4 DEF Unlogged, Unsent
<1>6. /\ Share(p, k, Unsent)' = {}
      /\ \A q \in Procs : q # p => Share(q, k, Unsent)' = Share(q, k, Unsent)
  <2>1. \A q \in Procs : q # p => Share(q, k, Unsent)' = Share(q, k, Unsent)
    BY ONLY Zenon, <1>3 DEF OthersStay, Share
  <2>2. Share(p, k, Unsent)' = {}
    BY Zenon, <1>5 DEF Share
  <2> QED
    BY Zenon, <2>1, <2>2
<1>7. \A q \in Procs : Share(q, k, Unlogged)' = Share(q, k, Unlogged)
  <2>1. \A q \in Procs : q # p => Share(q, k, Unlogged)' = Share(q, k, Unlogged)
    BY ONLY Zenon, <1>3 DEF OthersStay, Share
  <2>2. Share(p, k, Unlogged)' = {} /\ Share(p, k, Unlogged) = {}
    BY Zenon, <1>5 DEF Share
  <2> QED
    BY Zenon, <2>1, <2>2
<1>9. Same(db, db', k, now)
  BY Zenon, <1>1 DEF Same
<1>10. Pending(k, Unsent)' \subseteq Pending(k, Unsent)
  BY Zenon, <1>6 DEF Pending
<1>11. KeyAlone(k)'
  <2>1. Expiring(k)' => Expiring(k)
    BY Zenon, <1>1 DEF Expiring
  <2>2. \A q \in Procs : Share(q, k, Unsent)' # {} => Share(q, k, Unsent) # {}
    BY Zenon, <1>6
  <2>3. Hidden(k)' <=> Hidden(k)
    BY Zenon, <1>1 DEF Hidden
  <2>4. KeyAlone(k)
    BY Zenon, <1>2 DEF KeyInv
  <2> QED
    BY Zenon, <1>1, <1>10, <2>1, <2>2, <2>3, <2>4 DEF KeyAlone
<1>12. KeyFile(k)'
  BY ZenonT(40), <1>1, <1>2, <1>7, <1>9, FileStays DEF KeyInv
<1>13. /\ frames[p] \in Seq(Frames) /\ Len(frames[p]) \in 0..2
       /\ \A i \in 1..Len(frames[p]) : frames[p][i].op \in Ops
  BY Zenon, <1>1, FramesFit
<1>14. stream' = stream \o frames[p] /\ KeyReplica(k) /\ KeyAlone(k)
  BY Zenon, <1>2 DEF Send, KeyInv
<1>15. KeyReplica(k)'
  <2>1. CASE Apart(p, k)
    <3>1. \A i \in 1..Len(frames[p]) : frames[p][i].op \in Ops /\ k \notin frames[p][i].keys
      BY Zenon, <1>13, <2>1 DEF Apart
    <3>2. Share(p, k, Unsent) = {}
      BY Zenon, <2>1, ApartShares
    <3>3. \A q \in Procs : Share(q, k, Unsent)' = Share(q, k, Unsent)
      BY Zenon, <1>6, <3>2
    <3> QED
      BY ZenonT(40), <1>1, <1>13, <1>14, <3>1, <3>3, ReplicaOthers
  <2>2. CASE ~Apart(p, k)
    <3>1. PICK j \in 1..Len(frames[p]) : k \in frames[p][j].keys
      BY Zenon, <2>2 DEF Apart
    <3>2. /\ Pending(k, Unsent) = {frames[p][j]}
          /\ \A i \in 1..Len(frames[p]) : i # j => k \notin frames[p][i].keys
          /\ \A q \in Procs : q # p => Share(q, k, Unsent) = {}
          /\ Fixes(now, db, frames[p][j], k)
      BY ZenonT(40), <1>1, <1>5, <1>14, <3>1, OwnFrame
    <3>3. Pending(k, Unsent)' = {}
      <4>1. \A q \in Procs : Share(q, k, Unsent)' = {}
        BY ONLY Zenon, <1>6, <3>2
      <4> QED
        BY ONLY Zenon, <4>1 DEF Pending
    <3> DEFINE gs == frames[p]
    <3>4. /\ gs \in Seq(Frames) /\ Len(gs) \in 0..2 /\ \A i \in 1..Len(gs) : gs[i].op \in Ops
          /\ j \in 1..Len(gs) /\ \A i \in 1..Len(gs) : i # j => k \notin gs[i].keys
          /\ Pending(k, Unsent) = {gs[j]} /\ Fixes(now, db, gs[j], k) /\ stream' = stream \o gs
      BY Zenon, <1>13, <1>14, <3>1, <3>2
    <3> HIDE DEF gs
    <3> QED
      BY ZenonT(40), <1>1, <1>14, <3>3, <3>4, ReplicaWritten
  <2> QED
    BY Zenon, <2>1, <2>2
<1> QED
  BY Zenon, <1>11, <1>12, <1>15 DEF KeyInv

\* The keys of a failed append are excused.
LEMMA LogFramesFailsKeepsKeys ==
  ASSUME CopyInv, NEW p \in Procs, LogFramesFails(p)
  PROVE  \A k \in Keys : Excused(k)' \/ KeyInv(k)'
<1> SUFFICES ASSUME NEW k \in Keys, ~Excused(k)'
             PROVE  KeyInv(k)'
  BY Zenon
<1>1. /\ CopyTypes /\ pc \in [Procs -> PcValues] /\ frames \in [Procs -> Seq(Frames)]
      /\ db' = db /\ now' = now
      /\ UNCHANGED <<noted, taken, log, base, buffer, rewriting, replica, stream>>
  BY Zenon DEF LogFramesFails, CopyInv, CopyTypes, fileVars, replicaVars
<1>2. ~Excused(k) /\ k \notin Dirty(p)
  <2>1. excused \subseteq excused' /\ \A j \in Dirty(p) : <<j, "failed">> \in excused'
    BY Zenon DEF LogFramesFails, FailedFrames
  <2>2. \A j \in Dirty(p) : <<j, "failed">>[1] = j
    OBVIOUS
  <2> QED
    BY Zenon, <2>1, <2>2 DEF Excused
<1>3. KeyInv(k)
  BY Zenon, <1>2 DEF CopyInv
<1>4. OthersStay(p)
  BY Zenon, <1>1 DEF OthersStay, LogFramesFails, Step, Emits
<1>5. pc[p] = "append" /\ frames'[p] \in {frames[p], <<>>}
  BY Zenon, <1>1 DEF LogFramesFails, Step, Emits
<1>6. pc[p] \in Unsent
  BY Zenon, <1>5 DEF Unlogged, Unsent
<1>7. Share(p, k, Unsent) = {}
  BY Zenon, <1>1, <1>2, DirtyShares
<1>8. Apart(p, k)
  BY Zenon, <1>6, <1>7 DEF Apart, Share
<1>9. Apart(p, k)'
  <2>1. Len(<<>>) = 0 /\ 1..0 = {}
    OBVIOUS
  <2> QED
    BY Zenon, <1>5, <1>8, <2>1 DEF Apart
<1>10. Share(p, k, Unsent)' = {} /\ Share(p, k, Unlogged)' = {}
  BY ONLY Zenon, <1>9 DEF Apart, Share
<1>11. Share(p, k, Unsent) = {} /\ Share(p, k, Unlogged) = {}
  BY Zenon, <1>8, ApartShares
<1>12. \A q \in Procs : q # p => Share(q, k, Unsent)' = Share(q, k, Unsent)
  BY ONLY Zenon, <1>4 DEF OthersStay, Share
<1>13. \A q \in Procs : q # p => Share(q, k, Unlogged)' = Share(q, k, Unlogged)
  BY ONLY Zenon, <1>4 DEF OthersStay, Share
<1>14. \A q \in Procs : /\ Share(q, k, Unsent)' = Share(q, k, Unsent)
                        /\ Share(q, k, Unlogged)' = Share(q, k, Unlogged)
  BY Zenon, <1>10, <1>11, <1>12, <1>13
<1>15. Same(db, db', k, now)
  BY Zenon, <1>1 DEF Same
<1>16. Expiring(k)' => Pending(k, Unsent) = {} /\ Hidden(k)
  <2>1. Expiring(k)' => Expiring(k)
    BY Zenon, <1>1 DEF Expiring
  <2> QED
    BY Zenon, <1>3, <2>1 DEF KeyInv, KeyAlone
<1> QED
  BY ZenonT(40), <1>1, <1>3, <1>14, <1>15, <1>16, KeyStays

(***************************************************************************)
(* Steps of the replica, the clock and the rewrite, and steps that change  *)
(* the keyspace.                                                           *)
(***************************************************************************)

\* A frame that the replica applies moves from the stream into its keyspace.
LEMMA ApplyKeepsKeys ==
  ASSUME CopyInv, Apply
  PROVE  \A k \in Keys : Excused(k)' \/ KeyInv(k)'
<1> SUFFICES ASSUME NEW k \in Keys, ~Excused(k)'
             PROVE  KeyInv(k)'
  BY Zenon
<1>1. /\ CopyTypes /\ UNCHANGED <<now, db, pc, frames, noted, taken, excused>>
      /\ UNCHANGED <<log, base, buffer, rewriting>>
  BY Zenon DEF Apply, CopyInv, fileVars
<1>2. KeyInv(k)
  BY Zenon, <1>1 DEF CopyInv, Excused
<1>3. \A q \in Procs : /\ Share(q, k, Unsent)' = Share(q, k, Unsent)
                       /\ Share(q, k, Unlogged)' = Share(q, k, Unlogged)
  BY Zenon, <1>1 DEF Share
<1>4. Same(db, db', k, now)
  BY Zenon, <1>1 DEF Same
<1>5. Expiring(k)' => Pending(k, Unsent) = {} /\ Hidden(k)
  BY Zenon, <1>1, <1>2 DEF Expiring, KeyInv, KeyAlone
<1>6. KeyAlone(k)' /\ KeyFile(k)'
  BY ZenonT(40), <1>1, <1>2, <1>3, <1>4, <1>5, AloneStays, FileStays DEF KeyInv
<1>7. Pending(k, Unsent)' = Pending(k, Unsent)
  BY Zenon, <1>3, SharesStay
<1>8. /\ now \in Nat /\ stream \in Seq(Frames) /\ stream # <<>>
      /\ replica' = Execute(replica, Head(stream), now) /\ stream' = Tail(stream)
      /\ Tracks(now, db, replica, stream, k, Pending(k, Unsent))
  BY Zenon, <1>1, <1>2 DEF CopyTypes, Apply, KeyInv, KeyReplica
<1>9. Tracks(now, db, Execute(replica, Head(stream), now), Tail(stream), k, Pending(k, Unsent))
  BY ONLY SMTT(40), <1>8, TracksApplied
<1>10. KeyReplica(k)'
  BY Zenon, <1>1, <1>7, <1>8, <1>9 DEF KeyReplica
<1> QED
  BY Zenon, <1>6, <1>10 DEF KeyInv

\* The passing of time keeps KeyInv: every copy has the same deadlines.
LEMMA TimePassesKeepsKeys ==
  ASSUME CopyInv, TimePasses
  PROVE  \A k \in Keys : Excused(k)' \/ KeyInv(k)'
<1> SUFFICES ASSUME NEW k \in Keys, ~Excused(k)'
             PROVE  KeyInv(k)'
  BY Zenon
<1>1. /\ now \in Nat /\ now' = now + 1 /\ UNCHANGED <<db, pc, frames, noted, taken, excused>>
      /\ UNCHANGED <<log, base, buffer, rewriting, replica, stream>>
  BY Zenon DEF TimePasses, CopyInv, CopyTypes, fileVars, replicaVars
<1>2. KeyInv(k)
  BY Zenon, <1>1 DEF CopyInv, Excused
<1>3. \A q \in Procs : /\ Share(q, k, Unsent)' = Share(q, k, Unsent)
                       /\ Share(q, k, Unlogged)' = Share(q, k, Unlogged)
  BY Zenon, <1>1 DEF Share
<1>4. Pending(k, Unsent)' = Pending(k, Unsent) /\ Pending(k, Unlogged)' = Pending(k, Unlogged)
  BY Zenon, <1>3, SharesStay
<1>5. \A d, fs, F : Tracks(now, db, d, fs, k, F) => Tracks(now', db', d, fs, k, F)
  BY Zenon, <1>1, TracksLater
<1>6. KeyFile(k)' /\ KeyReplica(k)'
  BY Zenon, <1>1, <1>2, <1>4, <1>5 DEF KeyInv, KeyFile, KeyReplica
<1>7. \A f : Fixes(now, db, f, k) => Fixes(now', db', f, k)
  BY Zenon, <1>1, SameLater DEF Fixes
<1>8. \A t \in Nat : t >= now + 1 => t >= now
  BY <1>1
<1>9. Hidden(k) => Hidden(k)'
  BY ZenonT(40), <1>1, <1>8 DEF Hidden
<1>10. Expiring(k)' => Expiring(k)
  BY Zenon, <1>1 DEF Expiring
<1>11. KeyAlone(k)
  BY Zenon, <1>2 DEF KeyInv
<1>12. KeyAlone(k)'
  BY ZenonT(40), <1>3, <1>4, <1>7, <1>9, <1>10, <1>11 DEF KeyAlone
<1> QED
  BY Zenon, <1>6, <1>12 DEF KeyInv

\* Installing the rewritten file keeps KeyInv: it tracked the keyspace already.
LEMMA InstallKeepsKeys ==
  ASSUME CopyInv, Install
  PROVE  \A k \in Keys : Excused(k)' \/ KeyInv(k)'
<1> SUFFICES ASSUME NEW k \in Keys, ~Excused(k)'
             PROVE  KeyInv(k)'
  BY Zenon
<1>1. /\ CopyTypes /\ pc \in [Procs -> PcValues] /\ Rewriter \in Procs
      /\ UNCHANGED <<now, db, frames, noted, taken, excused, replica, stream>>
  BY Zenon DEF Install, CopyInv, CopyTypes, replicaVars, Procs
<1>2. KeyInv(k)
  BY Zenon, <1>1 DEF CopyInv, Excused
<1>3. pc[Rewriter] = "installing" /\ pc'[Rewriter] = "idle"
  BY Zenon, <1>1 DEF Install, Step
<1>4. pc[Rewriter] \notin Unsent /\ pc'[Rewriter] \notin Unsent
  BY Zenon, <1>3 DEF Unsent, Unlogged
<1>5. OthersStay(Rewriter)
  BY Zenon, <1>1 DEF OthersStay, Install, Step
<1>6. \A q \in Procs : /\ Share(q, k, Unsent)' = Share(q, k, Unsent)
                       /\ Share(q, k, Unlogged)' = Share(q, k, Unlogged)
  BY Zenon, <1>1, <1>4, <1>5, SharesSame
<1>7. Same(db, db', k, now)
  BY Zenon, <1>1 DEF Same
<1>8. Expiring(k)' => Pending(k, Unsent) = {} /\ Hidden(k)
  BY Zenon, <1>1, <1>2 DEF Expiring, KeyInv, KeyAlone
<1>9. KeyAlone(k)' /\ KeyReplica(k)'
  BY ZenonT(40), <1>1, <1>2, <1>6, <1>7, <1>8, AloneStays, ReplicaStays DEF KeyInv
<1>10. Pending(k, Unlogged)' = Pending(k, Unlogged)
  BY Zenon, <1>6, SharesStay
<1>11. log' = base \o buffer \/ log' = log
  BY Zenon DEF Install
<1>12. rewriting /\ rewriting' = FALSE
  BY Zenon, <1>1, <1>3 DEF CopyTypes, Install
<1>13. KeyFile(k)'
  BY Zenon, <1>1, <1>2, <1>10, <1>11, <1>12 DEF KeyInv, KeyFile
<1> QED
  BY Zenon, <1>9, <1>13 DEF KeyInv

\* A key that nobody else has to do with.
LEMMA NotBusy ==
  ASSUME CopyTypes, NEW p, NEW k, k \notin Busy(p)
  PROVE  /\ k \notin noted
         /\ \A q \in Procs : q # p => /\ k \notin taken[q] /\ Share(q, k, Unsent) = {}
                                      /\ Share(q, k, Unlogged) = {}
<1>1. k \notin noted /\ \A q \in Procs : q # p => k \notin Dirty(q)
  BY Zenon DEF Busy
<1>2. \A q \in Procs : q # p => k \notin taken[q] /\ Share(q, k, Unsent) = {}
  BY Zenon, <1>1, DirtyShares
<1> QED
  BY Zenon, <1>1, <1>2, ShareParts

\* What it takes for k not to be excused by a change.
LEMMA ExcusesMean ==
  ASSUME NEW p, NEW S, NEW ow, NEW k, Excuses(p, S, ow) \subseteq excused', ~Excused(k)'
  PROVE  /\ k \in S => k \notin Busy(p)
         /\ Excused(k) => k \in ow \ Busy(p)
<1>1. \A j \in S \cap Busy(p) : <<j, "overlap">> \in excused'
  BY Zenon DEF Excuses
<1>2. \A j \in S \cap Busy(p) : <<j, "overlap">>[1] = j
  OBVIOUS
<1>3. k \in S => k \notin Busy(p)
  BY Zenon, <1>1, <1>2 DEF Excused
<1>4. \A e \in excused : e[1] \notin ow \ Busy(p) => e \in excused'
  BY Zenon DEF Excuses
<1>5. Excused(k) => k \in ow \ Busy(p)
  BY Zenon, <1>4 DEF Excused
<1> QED
  BY Zenon, <1>3, <1>5

\* What has expired at the time a goroutine read stays hidden.
LEMMA ExpiredHides ==
  ASSUME CopyTypes, NEW c \in Nat, c <= now, NEW k \in ExpiredKeys(db, c)
  PROVE  Hidden(k) /\ k \in ExpiredKeys(db, now) /\ k \in DOMAIN db
<1>1. k \in DOMAIN db /\ ~Shows(db, k, c)
  BY Zenon, LiveShows DEF ExpiredKeys
<1>2. db[k] \in Values /\ now \in Nat
  BY Zenon, <1>1 DEF CopyTypes
<1> DEFINE x == db[k].exp
<1>3. x \in Nat /\ ~(x = 0 \/ c <= x)
  BY Zenon, <1>1, <1>2 DEF Shows, Values
<1> HIDE DEF x
<1>4. \A t \in Nat : t >= now => ~(x = 0 \/ t <= x)
  BY SMTT(40), <1>2, <1>3
<1>5. now >= now
  BY <1>2
<1>6. Hidden(k)
  BY Zenon, <1>1, <1>4 DEF Hidden, Shows, x
<1>7. ~Shows(db, k, now)
  BY Zenon, <1>2, <1>5, <1>6 DEF Hidden
<1> QED
  BY Zenon, <1>1, <1>6, <1>7, LiveShows DEF ExpiredKeys

\* What an expired key leaves behind cannot be seen.
LEMMA GoneIsSame ==
  ASSUME NEW k, Hidden(k), k \notin DOMAIN db'
  PROVE  Same(db, db', k, now)
  BY Zenon DEF Hidden, Same, Shows

\* p, at the locks, leaves k, or drops what has expired of it.
LEMMA KeyLeft ==
  ASSUME CopyTypes, NEW p \in Procs, OthersStay(p), pc[p] = "locking",
         NEW k \in Keys, KeyInv(k), Apart(p, k)', taken' = taken,
         UNCHANGED <<log, base, buffer, rewriting, replica, stream>>,
         Same(db, db', k, now),
         k \in noted' => k \in noted \/ (k \notin Busy(p) /\ Hidden(k))
  PROVE  KeyInv(k)'
<1>1. now' = now
  BY Zenon DEF OthersStay
<1>2. Share(p, k, Unsent) = {} /\ Share(p, k, Unlogged) = {}
  BY Zenon DEF Share, Unsent, Unlogged
<1>3. Share(p, k, Unsent)' = {} /\ Share(p, k, Unlogged)' = {}
  BY ONLY Zenon, Apart(p, k)' DEF Apart, Share
<1>4. \A q \in Procs : q # p => Share(q, k, Unsent)' = Share(q, k, Unsent)
  BY ONLY Zenon, OthersStay(p) DEF OthersStay, Share
<1>5. \A q \in Procs : q # p => Share(q, k, Unlogged)' = Share(q, k, Unlogged)
  BY ONLY Zenon, OthersStay(p) DEF OthersStay, Share
<1>6. \A q \in Procs : /\ Share(q, k, Unsent)' = Share(q, k, Unsent)
                       /\ Share(q, k, Unlogged)' = Share(q, k, Unlogged)
  BY Zenon, <1>2, <1>3, <1>4, <1>5
<1>7. Expiring(k)' => Pending(k, Unsent) = {} /\ Hidden(k)
  <2>1. CASE k \notin Busy(p) /\ Hidden(k)
    <3>1. \A q \in Procs : q # p => Share(q, k, Unsent) = {}
      BY Zenon, <2>1, NotBusy
    <3> QED
      BY Zenon, <1>2, <2>1, <3>1 DEF Pending
  <2>2. CASE ~(k \notin Busy(p) /\ Hidden(k))
    <3>1. Expiring(k)' => Expiring(k)
      BY Zenon, <2>2 DEF Expiring
    <3> QED
      BY Zenon, <3>1 DEF KeyInv, KeyAlone
  <2> QED
    BY Zenon, <2>1, <2>2
<1> QED
  BY Zenon, <1>1, <1>6, <1>7, KeyStays

\* p, at the locks, finds expired keys; it drops G and notes E.
LEMMA SweepsKeepKeys ==
  ASSUME CopyInv, NEW p \in Procs, OthersStay(p), pc[p] = "locking", frames'[p] = <<>>,
         NEW E, NEW G, E \subseteq G, G \subseteq ExpiredKeys(db, now),
         db' = Without(db, G), noted' = noted \cup E, taken' = taken,
         excused' = Excuses(p, E, {}),
         UNCHANGED <<log, base, buffer, rewriting, replica, stream>>
  PROVE  \A k \in Keys : Excused(k)' \/ KeyInv(k)'
<1> SUFFICES ASSUME NEW k \in Keys, ~Excused(k)'
             PROVE  KeyInv(k)'
  BY Zenon
<1>1. CopyTypes /\ now \in Nat
  BY Zenon DEF CopyInv, CopyTypes
<1>2. (k \in E => k \notin Busy(p)) /\ ~Excused(k)
  <2>1. Excuses(p, E, {}) \subseteq excused'
    BY Zenon
  <2>2. (k \in E => k \notin Busy(p)) /\ (Excused(k) => k \in {} \ Busy(p))
    BY ONLY Zenon, <2>1, ~Excused(k)', ExcusesMean
  <2> QED
    BY Zenon, <2>2
<1>3. KeyInv(k)
  BY Zenon, <1>2 DEF CopyInv
<1>4. Apart(p, k)'
  <2>1. 1..Len(frames'[p]) = {}
    BY ONLY frames'[p] = <<>>
  <2> QED
    BY Zenon, <2>1 DEF Apart
<1>5. k \in G => Hidden(k)
  <2>1. now <= now
    BY <1>1
  <2> QED
    BY ZenonT(40), <1>1, <2>1, ExpiredHides
<1>6. Same(db, db', k, now)
  <2>1. CASE k \in G
    <3>1. k \notin DOMAIN db'
      BY Zenon, <2>1 DEF Without, Restrict
    <3> QED
      BY Zenon, <1>5, <2>1, <3>1, GoneIsSame
  <2>2. CASE k \notin G
    <3>1. Alike(db, db', k)
      BY Zenon, <2>2 DEF Without, Restrict, Alike
    <3> QED
      BY Zenon, <3>1, AlikeIsSame
  <2> QED
    BY Zenon, <2>1, <2>2
<1>7. k \in noted' => k \in noted \/ (k \notin Busy(p) /\ Hidden(k))
  BY Zenon, <1>2, <1>5
<1> QED
  BY ZenonT(40), <1>1, <1>3, <1>4, <1>6, <1>7, KeyLeft

\* The active expiry cycle keeps KeyInv.
LEMMA SweepKeepsKeys ==
  ASSUME CopyInv, Sweep
  PROVE  \A k \in Keys : Excused(k)' \/ KeyInv(k)'
<1> DEFINE E == frames[Sweeper][1].keys \cap ExpiredKeys(db, clock[Sweeper])
<1>1. /\ Sweeper \in Procs /\ CopyTypes /\ pc \in [Procs -> PcValues]
      /\ frames \in [Procs -> Seq(Frames)]
  BY Zenon DEF CopyInv, CopyTypes, Procs
<1>2. clock[Sweeper] \in Nat /\ clock[Sweeper] <= now
  BY Zenon, <1>1 DEF CopyTypes
<1>3. /\ OthersStay(Sweeper) /\ pc[Sweeper] = "locking" /\ frames'[Sweeper] = <<>>
  BY Zenon, <1>1 DEF OthersStay, Sweep, Holds, Step, Emits
<1>4. /\ db' = Without(db, E) /\ noted' = noted \cup E /\ taken' = taken
      /\ excused' = Excuses(Sweeper, E, {})
      /\ UNCHANGED <<log, base, buffer, rewriting, replica, stream>>
  BY Zenon DEF Sweep, fileVars, replicaVars
<1>5. E \subseteq ExpiredKeys(db, now)
  BY Zenon, <1>1, <1>2, ExpiredHides
<1> HIDE DEF E
<1>6. E \subseteq E
  BY Zenon
<1> QED
  BY ZenonT(40), <1>1, <1>3, <1>4, <1>5, <1>6, SweepsKeepKeys

\* A refused request keeps KeyInv: it only removes what has expired.
LEMMA ChangeRefusedKeepsKeys ==
  ASSUME CopyInv, NEW p \in Clients, ChangeRefused(p)
  PROVE  \A k \in Keys : Excused(k)' \/ KeyInv(k)'
<1> DEFINE E == Swept(p)
           G == E \cup (ExpiredKeys(db, clock[p]) \cap frames[p][1].keys)
<1>1. /\ p \in Procs /\ CopyTypes /\ pc \in [Procs -> PcValues]
      /\ frames \in [Procs -> Seq(Frames)]
  BY Zenon DEF CopyInv, CopyTypes, Procs
<1>2. clock[p] \in Nat /\ clock[p] <= now
  BY Zenon, <1>1 DEF CopyTypes
<1>3. /\ OthersStay(p) /\ pc[p] = "locking" /\ frames'[p] = <<>>
  BY Zenon, <1>1 DEF OthersStay, ChangeRefused, Holds, Step, Emits
<1>4. /\ db' = Without(db, G) /\ noted' = noted \cup E /\ taken' = taken
      /\ excused' = Excuses(p, E, {})
      /\ UNCHANGED <<log, base, buffer, rewriting, replica, stream>>
  BY Zenon DEF ChangeRefused, fileVars, replicaVars
<1>5. E \subseteq ExpiredKeys(db, now)
  BY Zenon DEF Swept
<1>6. G \subseteq ExpiredKeys(db, now) /\ E \subseteq G
  BY Zenon, <1>1, <1>2, <1>5, ExpiredHides
<1> HIDE DEF E, G
<1> QED
  BY ZenonT(40), <1>1, <1>3, <1>4, <1>6, SweepsKeepKeys

\* p has changed k, alone, and will log and send the frame f about it.
LEMMA KeyChanged ==
  ASSUME CopyTypes, NEW p \in Procs, OthersStay(p), pc[p] = "locking",
         taken' = taken, UNCHANGED <<log, base, buffer, rewriting, replica, stream>>,
         NEW k \in Keys, k \notin Busy(p), k \notin noted',
         NEW f, k \in f.keys, Share(p, k, Unsent)' = {f}, Share(p, k, Unlogged)' = {f},
         \/ f.op # "incr" /\ Fixes(now, db', f, k)
         \/ /\ f.op = "incr" /\ KeyInv(k) /\ Alike(db', Execute(db, f, clock[p]), k)
            /\ ~(Shows(db, k, clock[p]) /\ db[k].exp > 0)
  PROVE  KeyInv(k)'
<1>1. /\ now' = now /\ now \in Nat /\ clock[p] \in Nat /\ clock[p] <= now
  BY Zenon DEF CopyTypes, OthersStay
<1>2. \A q \in Procs : q # p => /\ k \notin taken[q] /\ Share(q, k, Unsent) = {}
                                /\ Share(q, k, Unlogged) = {}
  BY Zenon, NotBusy
<1>3. \A q \in Procs : q # p => Share(q, k, Unsent)' = Share(q, k, Unsent)
  BY ONLY Zenon, OthersStay(p) DEF OthersStay, Share
<1>4. \A q \in Procs : q # p => Share(q, k, Unlogged)' = Share(q, k, Unlogged)
  BY ONLY Zenon, OthersStay(p) DEF OthersStay, Share
<1>5. Pending(k, Unsent)' = {f} /\ Pending(k, Unlogged)' = {f}
  <2>1. \A q \in Procs : q # p => Share(q, k, Unsent)' = {}
    BY Zenon, <1>2, <1>3
  <2>2. \A q \in Procs : q # p => Share(q, k, Unlogged)' = {}
    BY Zenon, <1>2, <1>4
  <2>3. Pending(k, Unsent)' = {f}
    <3>1. \A x : x \in Pending(k, Unsent)' <=> \E q \in Procs : x \in Share(q, k, Unsent)'
      BY Zenon DEF Pending
    <3>2. \A x : x \in Pending(k, Unsent)' <=> x = f
      <4>1. \A q \in Procs : q = p => Share(q, k, Unsent)' = {f}
        BY ONLY Zenon, Share(p, k, Unsent)' = {f} DEF Share
      <4> QED
        BY ONLY SMTT(40), p \in Procs, <2>1, <3>1, <4>1
    <3> QED
      BY Zenon, <3>2
  <2>4. Pending(k, Unlogged)' = {f}
    <3>1. \A x : x \in Pending(k, Unlogged)' <=> \E q \in Procs : x \in Share(q, k, Unlogged)'
      BY Zenon DEF Pending
    <3>2. \A x : x \in Pending(k, Unlogged)' <=> x = f
      <4>1. \A q \in Procs : q = p => Share(q, k, Unlogged)' = {f}
        BY ONLY Zenon, Share(p, k, Unlogged)' = {f} DEF Share
      <4> QED
        BY ONLY p \in Procs, <2>2, <3>1, <4>1
    <3> QED
      BY Zenon, <3>2
  <2> QED
    BY Zenon, <2>3, <2>4
<1>6. ~Expiring(k)'
  <2>1. taken[p] = {}
    BY Zenon DEF CopyTypes, Shape
  <2> QED
    BY Zenon, <1>2, <2>1 DEF Expiring
<1>7. KeyAlone(k)'
  <2>1. Fixes(now', db', f, k)
    BY Zenon, <1>1 DEF Fixes
  <2> QED
    BY Zenon, <1>2, <1>3, <1>5, <1>6, <2>1 DEF KeyAlone
<1>8. ASSUME NEW d, NEW fs, KeyInv(k) => Tracks(now, db, d, fs, k, {})
      PROVE  Tracks(now, db', d, fs, k, {f})
  <2>1. CASE f.op # "incr"
    BY Zenon, <2>1, TracksOverwritten
  <2>2. CASE f.op = "incr"
    <3>1. /\ Tracks(now, db, d, fs, k, {}) /\ Alike(db', Execute(db, f, clock[p]), k)
          /\ ~(Shows(db, k, clock[p]) /\ db[k].exp > 0)
      BY Zenon, <1>8, <2>2
    <3>2. k \in DOMAIN db => db[k].exp \in Nat
      BY Zenon DEF CopyTypes, Values
    <3> QED
      BY Zenon, <1>1, <2>2, <3>1, <3>2, TracksCounted
  <2> QED
    BY Zenon, <2>1, <2>2
<1>9. Pending(k, Unsent) = {} /\ Pending(k, Unlogged) = {}
  <2>1. Share(p, k, Unsent) = {} /\ Share(p, k, Unlogged) = {}
    BY Zenon DEF Share, Unsent, Unlogged
  <2> QED
    BY Zenon, <1>2, <2>1 DEF Pending
<1>10. /\ KeyInv(k) => Tracks(now, db, <<>>, log, k, {})
       /\ KeyInv(k) => (rewriting => Tracks(now, db, <<>>, base \o buffer, k, {}))
       /\ KeyInv(k) => Tracks(now, db, replica, stream, k, {})
  BY Zenon, <1>9 DEF KeyInv, KeyFile, KeyReplica
<1>11. KeyFile(k)' /\ KeyReplica(k)'
  BY Zenon, <1>1, <1>5, <1>8, <1>10 DEF KeyFile, KeyReplica
<1> QED
  BY Zenon, <1>7, <1>11 DEF KeyInv

\* What the change of p may not excuse.
LEMMA LeasedMeans ==
  ASSUME NEW p, Leased(p) \subseteq excused', NEW k, ~Excused(k)',
         k \in frames[p][1].keys, frames[p][1].op = "incr"
  PROVE  ~(Shows(db, k, clock[p]) /\ db[k].exp > 0)
<1>1. <<k, "lease">>[1] = k
  OBVIOUS
<1>2. <<k, "lease">> \notin excused'
  BY Zenon, <1>1 DEF Excused
<1>3. k \notin {j \in frames[p][1].keys \cap DOMAIN Live(db, clock[p]) :
                    frames[p][1].op = "incr" /\ db[j].exp > 0}
  BY Zenon, <1>2 DEF Leased
<1> QED
  BY Zenon, <1>3, LiveShows

\* The frame at position i is the only one of p about k.
LEMMA SoleShare ==
  ASSUME NEW p, NEW k, pc'[p] \in Unlogged, NEW i \in 1..Len(frames'[p]),
         k \in frames'[p][i].keys,
         \A j \in 1..Len(frames'[p]) : j # i => k \notin frames'[p][j].keys
  PROVE  Share(p, k, Unsent)' = {frames'[p][i]} /\ Share(p, k, Unlogged)' = {frames'[p][i]}
<1>1. {j \in 1..Len(frames'[p]) : k \in frames'[p][j].keys} = {i}
  BY Zenon
<1>2. pc'[p] \in Unsent
  BY Zenon DEF Unsent
<1> QED
  BY Zenon, <1>1, <1>2 DEF Share

\* A change without evictions.
LEMMA PlainChangeKeepsKeys ==
  ASSUME CopyInv, NEW p \in Clients, OthersStay(p), Holds(p), frames' = frames,
         db' = Execute(db, frames[p][1], clock[p]),
         excused' = Excuses(p, frames[p][1].keys, Overwritten(p)) \cup Leased(p),
         pc'[p] \in Unlogged, UNCHANGED <<noted, taken>>,
         UNCHANGED <<log, base, buffer, rewriting, replica, stream>>
  PROVE  \A k \in Keys : Excused(k)' \/ KeyInv(k)'
<1> SUFFICES ASSUME NEW k \in Keys, ~Excused(k)'
             PROVE  KeyInv(k)'
  BY Zenon
<1> DEFINE f == frames[p][1]
<1>1. CopyTypes /\ p \in Procs /\ pc[p] = "locking"
  BY Zenon DEF CopyInv, Procs, Holds
<1>2. Shape(p) /\ Len(frames[p]) = 1
  BY ZenonT(40), <1>1 DEF CopyTypes, Shape
<1>3. 1 \in 1..Len(frames[p]) /\ \A i \in 1..Len(frames[p]) : i = 1
  BY <1>2
<1>4. f.op \in Ops
  BY Zenon, <1>1, <1>3, FramesFit
<1>5. /\ k \in f.keys => k \notin Busy(p)
      /\ Excused(k) => k \in Overwritten(p)
  <2> DEFINE S == f.keys
             ow == Overwritten(p)
  <2>1. Excuses(p, S, ow) \subseteq excused'
    BY Zenon
  <2> HIDE DEF S, ow
  <2>2. (k \in S => k \notin Busy(p)) /\ (Excused(k) => k \in ow \ Busy(p))
    BY ONLY Zenon, <2>1, ~Excused(k)', ExcusesMean
  <2> QED
    BY Zenon, <2>2 DEF S, ow
<1>6. CASE k \in f.keys
  <2>1. k \notin Busy(p)
    BY Zenon, <1>5, <1>6
  <2>2. k \notin noted'
    BY Zenon, <1>1, <2>1, NotBusy
  <2>3. Share(p, k, Unsent)' = {f} /\ Share(p, k, Unlogged)' = {f}
    <3>1. /\ 1 \in 1..Len(frames'[p]) /\ k \in frames'[p][1].keys
          /\ \A j \in 1..Len(frames'[p]) : j # 1 => k \notin frames'[p][j].keys
      BY Zenon, <1>3, <1>6
    <3>2. Share(p, k, Unsent)' = {frames'[p][1]} /\ Share(p, k, Unlogged)' = {frames'[p][1]}
      BY ONLY Zenon, <3>1, pc'[p] \in Unlogged, SoleShare
    <3> QED
      BY Zenon, <3>2
  <2>4. CASE f.op # "incr"
    <3>1. \A d, t : Alike(Execute(d, f, t), db', k)
      BY Zenon, <1>4, <1>6, <2>4, ExecuteAlike
    <3>2. Fixes(now, db', f, k)
      BY Zenon, <3>1, AlikeIsSame DEF Fixes
    <3> HIDE DEF f
    <3> QED
      BY ZenonT(40), <1>1, <1>6, <2>1, <2>2, <2>3, <2>4, <3>2, KeyChanged
  <2>5. CASE f.op = "incr"
    <3>1. KeyInv(k)
      BY Zenon, <1>5, <2>5 DEF Overwritten, CopyInv
    <3>2. ~(Shows(db, k, clock[p]) /\ db[k].exp > 0)
      BY Zenon, <1>6, <2>5, LeasedMeans
    <3>3. Alike(db', Execute(db, f, clock[p]), k)
      BY Zenon DEF Alike
    <3> HIDE DEF f
    <3> QED
      BY ZenonT(40), <1>1, <1>6, <2>1, <2>2, <2>3, <2>5, <3>1, <3>2, <3>3, KeyChanged
  <2> QED
    BY Zenon, <2>4, <2>5
<1>7. CASE k \notin f.keys
  <2>1. KeyInv(k)
    BY Zenon, <1>5, <1>7 DEF Overwritten, CopyInv
  <2>2. Alike(db', db, k)
    BY Zenon, <1>4, <1>7, Elsewhere
  <2>3. Same(db, db', k, now)
    BY Zenon, <2>2, AlikeIsSame
  <2>4. Apart(p, k)'
    BY Zenon, <1>3, <1>7 DEF Apart
  <2> QED
    BY ZenonT(40), <1>1, <2>1, <2>3, <2>4, KeyLeft
<1> QED
  BY Zenon, <1>6, <1>7

\* A request that changes a key keeps KeyInv.
LEMMA ChangeKeepsKeys ==
  ASSUME CopyInv, NEW p \in Clients, Change(p) \/ ChangeInPlace(p)
  PROVE  \A k \in Keys : Excused(k)' \/ KeyInv(k)'
<1>1. pc \in [Procs -> PcValues] /\ p \in Procs
  BY Zenon DEF CopyInv, CopyTypes, Procs
<1>2. OthersStay(p) /\ Holds(p) /\ frames' = frames
  BY Zenon, <1>1 DEF OthersStay, Change, ChangeInPlace, Step
<1>3. /\ db' = Execute(db, frames[p][1], clock[p])
      /\ excused' = Excuses(p, frames[p][1].keys, Overwritten(p)) \cup Leased(p)
  BY Zenon DEF Change, ChangeInPlace
<1>4. pc'[p] \in Unlogged
  BY Zenon, <1>1 DEF Change, ChangeInPlace, Step, Unlogged
<1>5. UNCHANGED <<noted, taken>> /\ UNCHANGED <<log, base, buffer, rewriting, replica, stream>>
  BY Zenon DEF Change, ChangeInPlace, fileVars, replicaVars
<1> QED
  BY Zenon, <1>2, <1>3, <1>4, <1>5, PlainChangeKeepsKeys

\* The frames of a change with evictions.
LEMMA EvictionFrames ==
  ASSUME NEW f, NEW victims
  PROVE  LET fs == <<f>> \o EvictedFrames(victims)
         IN  /\ Len(fs) \in 1..2 /\ fs[1] = f
             /\ Len(fs) = 2 => fs[2] = DelFrame(victims)
             /\ Len(fs) = 1 => victims = {}
<1> DEFINE g == DelFrame(victims)
<1>1. CASE victims = {}
  <2>1. EvictedFrames(victims) = <<>>
    BY Zenon, <1>1 DEF EvictedFrames
  <2>2. Len(<<f>> \o <<>>) = 1 /\ (<<f>> \o <<>>)[1] = f
    OBVIOUS
  <2> QED
    BY SMTT(40), <1>1, <2>1, <2>2
<1>2. CASE victims # {}
  <2>1. EvictedFrames(victims) = <<g>>
    BY Zenon, <1>2 DEF EvictedFrames
  <2> HIDE DEF g
  <2>2. Len(<<f>> \o <<g>>) = 2 /\ (<<f>> \o <<g>>)[1] = f /\ (<<f>> \o <<g>>)[2] = g
    OBVIOUS
  <2> QED
    BY SMTT(40), <1>2, <2>1, <2>2 DEF g
<1> QED
  BY Zenon, <1>1, <1>2

\* The keyspace after it.
LEMMA EvictionGives ==
  ASSUME NEW d, NEW G, NEW e, NEW K, NEW k
  PROVE  LET n == With(Without(d, G), Restrict(e, K))
         IN  /\ k \in K /\ k \in DOMAIN e => Alike(n, e, k)
             /\ k \notin K /\ k \in G => k \notin DOMAIN n
             /\ k \notin K /\ k \notin G => Alike(n, d, k)
<1> DEFINE a == Without(d, G)
           b == Restrict(e, K)
           n == With(a, b)
<1>1. /\ k \in DOMAIN a <=> k \in DOMAIN d /\ k \notin G
      /\ k \in DOMAIN a => a[k] = d[k]
  BY Zenon DEF Without, Restrict
<1>2. /\ k \in DOMAIN b <=> k \in K
      /\ k \in DOMAIN b => b[k] = e[k]
  BY Zenon DEF Restrict
<1> HIDE DEF a, b
<1>3. /\ k \in DOMAIN n <=> k \in DOMAIN a \/ k \in DOMAIN b
      /\ k \in DOMAIN b => n[k] = b[k]
      /\ k \notin DOMAIN b /\ k \in DOMAIN a => n[k] = a[k]
  BY Zenon DEF With
<1> HIDE DEF n
<1>4. /\ k \in K /\ k \in DOMAIN e => Alike(n, e, k)
      /\ k \notin K /\ k \in G => k \notin DOMAIN n
      /\ k \notin K /\ k \notin G => Alike(n, d, k)
  BY Zenon, <1>1, <1>2, <1>3 DEF Alike
<1> QED
  BY Zenon, <1>4 DEF n, a, b

\* A request that evicts keys keeps KeyInv.
LEMMA ChangeWithEvictionKeepsKeys ==
  ASSUME CopyInv, NEW p \in Clients, NEW victims, ChangeWithEviction(p, victims)
  PROVE  \A k \in Keys : Excused(k)' \/ KeyInv(k)'
<1> SUFFICES ASSUME NEW k \in Keys, ~Excused(k)'
             PROVE  KeyInv(k)'
  BY Zenon
<1> DEFINE f == frames[p][1]
           E == Swept(p)
           fs == <<f>> \o EvictedFrames(victims)
<1>1. /\ CopyTypes /\ p \in Procs /\ pc[p] = "locking" /\ pc \in [Procs -> PcValues]
      /\ frames \in [Procs -> Seq(Frames)] /\ now \in Nat
  BY Zenon DEF CopyInv, CopyTypes, Procs, Holds, ChangeWithEviction
<1>2. clock[p] \in Nat /\ clock[p] <= now
  BY Zenon, <1>1 DEF CopyTypes
<1>3. 1 \in 1..Len(frames[p])
  <2>1. Len(frames[p]) = 1
    BY Zenon, <1>1 DEF CopyTypes, Shape
  <2> QED
    BY <2>1
<1>4. f.op \in {"set", "incr"} /\ f.op \in Ops
  <2>1. f.op \in Ops
    BY Zenon, <1>1, <1>3, FramesFit
  <2> QED
    BY Zenon, <2>1 DEF ChangeWithEviction, Ops
<1>5. OthersStay(p) /\ frames'[p] = fs
  BY Zenon, <1>1 DEF OthersStay, ChangeWithEviction, Step, Emits
<1>6. pc'[p] \in Unlogged
  BY Zenon, <1>1 DEF ChangeWithEviction, Step, Unlogged
<1>7. /\ taken' = taken /\ noted' = noted \cup E
      /\ UNCHANGED <<log, base, buffer, rewriting, replica, stream>>
      /\ victims \subseteq DOMAIN Live(db, now) \ f.keys
      /\ db' = With(Without(db, E \cup victims), Restrict(Execute(db, f, clock[p]), f.keys))
  BY Zenon DEF ChangeWithEviction, fileVars, replicaVars
<1>8. /\ Excuses(p, f.keys \cup victims \cup E, (Overwritten(p) \cup victims) \ E) \subseteq excused'
      /\ Leased(p) \subseteq excused'
      /\ \A j \in E \cap f.keys : <<j, "overlap">> \in excused'
  BY Zenon DEF ChangeWithEviction
<1>9. E \subseteq ExpiredKeys(db, now)
  BY Zenon DEF Swept
<1>10. E \cap victims = {}
  BY Zenon, <1>7, <1>9 DEF ExpiredKeys
<1>11. /\ k \in f.keys \cup victims \cup E => k \notin Busy(p)
       /\ Excused(k) => k \in (Overwritten(p) \cup victims) \ E
  <2> DEFINE S == f.keys \cup victims \cup E
             ow == (Overwritten(p) \cup victims) \ E
  <2>1. Excuses(p, S, ow) \subseteq excused'
    BY ZenonT(40), <1>8
  <2> HIDE DEF S, ow
  <2>2. (k \in S => k \notin Busy(p)) /\ (Excused(k) => k \in ow \ Busy(p))
    BY ONLY Zenon, <2>1, ~Excused(k)', ExcusesMean
  <2> QED
    BY Zenon, <2>2 DEF S, ow
<1>12. ~(k \in E /\ k \in f.keys)
  <2>1. <<k, "overlap">>[1] = k
    OBVIOUS
  <2> QED
    BY Zenon, <1>8, <2>1 DEF Excused
<1>13. Overwritten(p) \subseteq f.keys
  BY Zenon DEF Overwritten
<1>14. /\ Len(fs) \in 1..2 /\ fs[1] = f /\ (Len(fs) = 2 => fs[2] = DelFrame(victims))
       /\ Len(fs) = 1 => victims = {}
  BY Zenon, EvictionFrames
<1>15. /\ k \in f.keys /\ k \in DOMAIN Execute(db, f, clock[p]) => Alike(db', Execute(db, f, clock[p]), k)
       /\ k \notin f.keys /\ k \in E \cup victims => k \notin DOMAIN db'
       /\ k \notin f.keys /\ k \notin E \cup victims => Alike(db', db, k)
  BY Zenon, <1>7, EvictionGives
<1>16. DelFrame(victims).op = "del" /\ DelFrame(victims).keys = victims
  BY Zenon DEF DelFrame
<1> HIDE DEF fs, E
<1>20. 1 \in 1..Len(fs) /\ \A j \in 1..Len(fs) : j # 1 => j = 2 /\ Len(fs) = 2
  <2> DEFINE l == Len(fs)
  <2>1. l \in 1..2
    BY Zenon, <1>14
  <2> HIDE DEF l
  <2>2. 1 \in 1..l /\ \A j \in 1..l : j # 1 => j = 2 /\ l = 2
    BY ONLY <2>1
  <2> QED
    BY Zenon, <2>2 DEF l
<1>17. CASE k \in f.keys
  <2>1. k \notin Busy(p) /\ k \notin E
    BY Zenon, <1>11, <1>12, <1>17
  <2>2. k \notin noted'
    BY ZenonT(40), <1>1, <1>7, <2>1, NotBusy
  <2>3. k \notin victims
    BY Zenon, <1>7, <1>17
  <2>5. Share(p, k, Unsent)' = {f} /\ Share(p, k, Unlogged)' = {f}
    <3>1. /\ 1 \in 1..Len(frames'[p]) /\ k \in frames'[p][1].keys
          /\ \A j \in 1..Len(frames'[p]) : j # 1 => k \notin frames'[p][j].keys
      BY ZenonT(40), <1>5, <1>14, <1>16, <1>17, <1>20, <2>3
    <3>2. Share(p, k, Unsent)' = {frames'[p][1]} /\ Share(p, k, Unlogged)' = {frames'[p][1]}
      BY ONLY Zenon, <3>1, <1>6, SoleShare
    <3> QED
      BY Zenon, <1>5, <1>14, <3>2
  <2>6. Alike(db', Execute(db, f, clock[p]), k)
    <3>1. k \in DOMAIN Execute(db, f, clock[p])
      BY ZenonT(40), <1>4, <1>17, SetGives, IncrGives
    <3> QED
      BY Zenon, <1>15, <1>17, <3>1
  <2>7. CASE f.op # "incr"
    <3>1. \A d, t : Alike(Execute(d, f, t), Execute(db, f, clock[p]), k)
      BY ZenonT(40), <1>4, <1>17, <2>7, ExecuteAlike
    <3>2. \A d, t : Alike(Execute(d, f, t), db', k)
      BY Zenon, <2>6, <3>1 DEF Alike
    <3>3. Fixes(now, db', f, k)
      BY Zenon, <3>2, AlikeIsSame DEF Fixes
    <3> HIDE DEF f
    <3> QED
      BY ZenonT(40), <1>1, <1>5, <1>7, <1>17, <2>1, <2>2, <2>5, <2>7, <3>3, KeyChanged
  <2>8. CASE f.op = "incr"
    <3>1. KeyInv(k)
      BY Zenon, <1>11, <2>3, <2>8 DEF Overwritten, CopyInv
    <3>2. ~(Shows(db, k, clock[p]) /\ db[k].exp > 0)
      BY Zenon, <1>8, <1>17, <2>8, LeasedMeans
    <3> HIDE DEF f
    <3> QED
      BY ZenonT(40), <1>1, <1>5, <1>7, <1>17, <2>1, <2>2, <2>5, <2>6, <2>8, <3>1, <3>2, KeyChanged
  <2> QED
    BY Zenon, <2>7, <2>8
<1>18. CASE k \in victims
  <2> DEFINE g == DelFrame(victims)
  <2>1. k \notin Busy(p) /\ k \notin E /\ k \notin f.keys
    BY Zenon, <1>7, <1>10, <1>11, <1>18
  <2>2. k \notin noted'
    BY ZenonT(40), <1>1, <1>7, <2>1, NotBusy
  <2>3. Len(fs) = 2
    <3>1. Len(fs) # 1
      BY Zenon, <1>14, <1>18
    <3> QED
      BY SMTT(40), <1>14, <3>1
  <2>4. 2 \in 1..Len(fs) /\ \A j \in 1..Len(fs) : j # 2 => j = 1
    BY <2>3
  <2>5. Share(p, k, Unsent)' = {g} /\ Share(p, k, Unlogged)' = {g}
    <3>1. /\ 2 \in 1..Len(frames'[p]) /\ k \in frames'[p][2].keys
          /\ \A j \in 1..Len(frames'[p]) : j # 2 => k \notin frames'[p][j].keys
      BY ZenonT(40), <1>5, <1>14, <1>16, <1>18, <2>1, <2>3, <2>4
    <3>2. Share(p, k, Unsent)' = {frames'[p][2]} /\ Share(p, k, Unlogged)' = {frames'[p][2]}
      BY ONLY Zenon, <3>1, <1>6, SoleShare
    <3> QED
      BY Zenon, <1>5, <1>14, <2>3, <3>2
  <2>6. k \in g.keys /\ g.op = "del" /\ g.op # "incr"
    BY Zenon, <1>16, <1>18
  <2>7. k \notin DOMAIN db'
    BY Zenon, <1>15, <1>18, <2>1
  <2> HIDE DEF g
  <2>8. Fixes(now, db', g, k)
    <3>1. \A d, t : k \notin DOMAIN Execute(d, g, t)
      BY Zenon, <2>6, DelGives
    <3> QED
      BY Zenon, <2>7, <3>1 DEF Fixes, Same, Shows
  <2> QED
    BY ZenonT(40), <1>1, <1>5, <1>7, <2>1, <2>2, <2>5, <2>6, <2>8, KeyChanged
<1>19. CASE k \notin f.keys /\ k \notin victims
  <2>1. KeyInv(k)
    BY Zenon, <1>11, <1>13, <1>19 DEF CopyInv
  <2>2. Apart(p, k)'
    BY ZenonT(40), <1>5, <1>14, <1>16, <1>19, <1>20 DEF Apart
  <2>3. k \in E => Hidden(k)
    <3>1. now <= now
      BY <1>1
    <3> QED
      BY ZenonT(40), <1>1, <1>9, <3>1, ExpiredHides
  <2>4. Same(db, db', k, now)
    <3>1. CASE k \in E
      BY ZenonT(40), <1>15, <1>19, <2>3, <3>1, GoneIsSame
    <3>2. CASE k \notin E
      BY Zenon, <1>15, <1>19, <3>2, AlikeIsSame
    <3> QED
      BY Zenon, <3>1, <3>2
  <2>5. k \in noted' => k \in noted \/ (k \notin Busy(p) /\ Hidden(k))
    BY Zenon, <1>7, <1>11, <2>3
  <2> QED
    BY ZenonT(40), <1>1, <1>5, <1>7, <2>1, <2>2, <2>4, <2>5, KeyLeft
<1> QED
  BY Zenon, <1>17, <1>18, <1>19
=============================================================================
