--------------------------- MODULE StorageProofs ----------------------------
(***************************************************************************)
(* Proofs about internal/storage.  The keyspace (Keyspace), for every set  *)
(* of keys, every limit and every sample size: the memory accounting and   *)
(* the counts per kind are exact, eviction makes enough room or evicts     *)
(* nothing, sweeps remove only what is expired, and no queued key is       *)
(* forgotten.  The clients that wait in BLPOP (ListWaiters): their queue   *)
(* is exact.                                                               *)
(***************************************************************************)
EXTENDS Keyspace, ListWaiters, FiniteSetTheorems, FunctionTheorems, WellFoundedInduction, TLAPS

-----------------------------------------------------------------------------
(* The keyspace: sizes.                                                    *)

\* A value takes at least one byte.
LEMMA SizeIsPositive ==
  ASSUME NEW v \in Values
  PROVE  Size(v) \in Nat /\ Size(v) > 0
BY DEF Size, Values

\* The keyspace is finite (the maps of the shards).
LEMMA MapIsFinite ==
  ASSUME NEW d, IsMap(d)
  PROVE  IsFiniteSet(DOMAIN d)
BY Zenon, KeysAssumption, FS_Subset DEF IsMap

\* A finite set has a number of elements.
LEMMA SizesAreNat == \A S : IsFiniteSet(S) => Cardinality(S) \in Nat
BY Zenon, FS_CardinalityType

\* One key takes as many bytes as approximateValueObjectSize says.
LEMMA BytesOfOne ==
  ASSUME NEW d, IsMap(d), NEW k \in DOMAIN d
  PROVE  IsFiniteSet(BytesAt(d, k)) /\ Cardinality(BytesAt(d, k)) = Size(d[k])
<1> DEFINE n == Size(d[k])
<1>1. n \in Nat /\ n > 0
  BY Zenon, SizeIsPositive DEF IsMap
<1> HIDE DEF n
<1>2. IsFiniteSet(1..n) /\ Cardinality(1..n) = n
  BY <1>1, FS_Interval
<1>3. IsFiniteSet({k}) /\ Cardinality({k}) = 1
  BY Zenon, FS_Singleton
<1>4. IsFiniteSet({k} \X (1..n)) /\ Cardinality({k} \X (1..n)) = n
  BY SMTT(40), <1>1, <1>2, <1>3, FS_Product
<1>5. QED
  BY Zenon, <1>4 DEF BytesAt, n

\* The bytes of a keyspace can be counted.
LEMMA BytesAreFinite ==
  ASSUME NEW d, IsMap(d)
  PROVE  IsFiniteSet(Bytes(d)) /\ TotalSize(d) \in Nat
<1> DEFINE f == [k \in DOMAIN d |-> BytesAt(d, k)]
           T == {BytesAt(d, k) : k \in DOMAIN d}
<1>1. f \in Surjection(DOMAIN d, T)
  BY Zenon DEF Surjection
<1>2. IsFiniteSet(DOMAIN d)
  BY Zenon, MapIsFinite
<1> HIDE DEF f
<1>3. IsFiniteSet(T)
  BY Zenon, <1>1, <1>2, FS_Surjection
<1>4. \A B \in T : IsFiniteSet(B)
  BY Zenon, BytesOfOne
<1>5. IsFiniteSet(UNION T)
  BY Zenon, <1>3, <1>4, FS_UNION
<1>6. QED
  BY Zenon, <1>5, FS_CardinalityType DEF Bytes, TotalSize

\* The size of a keyspace is that of any part of it and of the rest.
LEMMA SizeSplits ==
  ASSUME NEW d, IsMap(d), NEW ks
  PROVE  /\ IsMap(Without(d, ks)) /\ IsMap(Restrict(d, ks \cap DOMAIN d))
         /\ TotalSize(d) = TotalSize(Without(d, ks)) + TotalSize(Restrict(d, ks \cap DOMAIN d))
<1> DEFINE e == Without(d, ks)
           g == Restrict(d, ks \cap DOMAIN d)
<1>1. /\ DOMAIN e = DOMAIN d \ ks /\ \A k \in DOMAIN e : e[k] = d[k]
      /\ DOMAIN g = ks \cap DOMAIN d /\ \A k \in DOMAIN g : g[k] = d[k]
  BY Zenon DEF Without, Restrict
<1>2. IsMap(e) /\ IsMap(g)
  BY Zenon DEF Without, Restrict, IsMap
<1>3. /\ \A k \in DOMAIN e : BytesAt(e, k) = BytesAt(d, k)
      /\ \A k \in DOMAIN g : BytesAt(g, k) = BytesAt(d, k)
  BY Zenon, <1>1 DEF BytesAt
<1> HIDE DEF e, g
<1>4. Bytes(d) = Bytes(e) \cup Bytes(g)
  BY Zenon, <1>1, <1>3 DEF Bytes
<1>5. \A k, j : k # j => BytesAt(d, k) \cap BytesAt(d, j) = {}
  BY Zenon DEF BytesAt
<1>6. Bytes(e) \cap Bytes(g) = {}
  BY <1>1, <1>3, <1>5 DEF Bytes
<1>7. IsFiniteSet(Bytes(e)) /\ IsFiniteSet(Bytes(g))
      /\ TotalSize(e) \in Nat /\ TotalSize(g) \in Nat
  BY Zenon, <1>2, BytesAreFinite
<1>8. TotalSize(d) = TotalSize(e) + TotalSize(g)
  BY SMTT(40), <1>4, <1>6, <1>7, FS_Union, FS_EmptySet DEF TotalSize
<1>9. QED
  BY Zenon, <1>2, <1>8 DEF e, g

\* The size of a keyspace of one key, and of the empty one.
LEMMA SizeOfOne ==
  ASSUME NEW d, IsMap(d), NEW k
  PROVE  TotalSize(Restrict(d, {k} \cap DOMAIN d)) = IF k \in DOMAIN d THEN Size(d[k]) ELSE 0
<1> DEFINE g == Restrict(d, {k} \cap DOMAIN d)
<1>1. CASE k \in DOMAIN d
  <2>1. DOMAIN g = {k} /\ g[k] = d[k]
    BY Zenon, <1>1 DEF Restrict
  <2>2. Bytes(g) = BytesAt(d, k)
    BY Zenon, <2>1 DEF Bytes, BytesAt
  <2>3. QED
    BY Zenon, <1>1, <2>2, BytesOfOne DEF TotalSize
<1>2. CASE k \notin DOMAIN d
  <2>1. DOMAIN g = {}
    BY Zenon, <1>2 DEF Restrict
  <2>2. Bytes(g) = {}
    BY Zenon, <2>1 DEF Bytes
  <2>3. QED
    BY Zenon, <1>2, <2>2, FS_EmptySet DEF TotalSize
<1>3. QED
  BY Zenon, <1>1, <1>2

\* Storing a value replaces the bytes of its key.
LEMMA SizeWith ==
  ASSUME NEW d, IsMap(d), NEW k \in Keys, NEW v \in Values
  PROVE  /\ IsMap(With(d, k, v)) /\ TotalSize(d) \in Nat
         /\ TotalSize(With(d, k, v)) =
              TotalSize(d) + Size(v) - IF k \in DOMAIN d THEN Size(d[k]) ELSE 0
<1> DEFINE e == With(d, k, v)
<1>1. DOMAIN e = DOMAIN d \cup {k} /\ e[k] = v /\ \A j \in DOMAIN d \ {k} : e[j] = d[j]
  BY Zenon DEF With
<1>2. IsMap(e)
  BY Zenon DEF IsMap, With
<1>3. Without(e, {k}) = Without(d, {k})
  BY Zenon, <1>1 DEF Without, Restrict
<1> HIDE DEF e
<1>4. /\ TotalSize(e) = TotalSize(Without(e, {k})) + Size(v)
      /\ TotalSize(d) = TotalSize(Without(d, {k}))
                          + IF k \in DOMAIN d THEN Size(d[k]) ELSE 0
  <2>1. /\ TotalSize(e) = TotalSize(Without(e, {k})) + TotalSize(Restrict(e, {k} \cap DOMAIN e))
        /\ TotalSize(d) = TotalSize(Without(d, {k})) + TotalSize(Restrict(d, {k} \cap DOMAIN d))
    BY Zenon, <1>2, SizeSplits
  <2>2. /\ TotalSize(Restrict(e, {k} \cap DOMAIN e)) = Size(v)
        /\ TotalSize(Restrict(d, {k} \cap DOMAIN d)) = IF k \in DOMAIN d THEN Size(d[k]) ELSE 0
    BY Zenon, <1>1, <1>2, SizeOfOne
  <2>3. QED
    BY Zenon, <2>1, <2>2
<1>5. /\ TotalSize(Without(d, {k})) \in Nat /\ TotalSize(d) \in Nat
      /\ Size(v) \in Nat /\ (k \in DOMAIN d => Size(d[k]) \in Nat)
  BY Zenon, SizeSplits, BytesAreFinite, SizeIsPositive DEF IsMap
<1>6. QED
  BY SMTT(40), <1>2, <1>3, <1>4, <1>5 DEF e

\* An access stamp (readKey) does not change the size of anything.
LEMMA SizeStamped ==
  ASSUME NEW d, IsMap(d), NEW k \in DOMAIN d, NEW t \in Nat
  PROVE  /\ IsMap([d EXCEPT ![k].at = t])
         /\ TotalSize([d EXCEPT ![k].at = t]) = TotalSize(d)
         /\ \A kind : KindCount([d EXCEPT ![k].at = t], kind) = KindCount(d, kind)
<1> DEFINE e == [d EXCEPT ![k].at = t]
<1>1. /\ DOMAIN e = DOMAIN d /\ e \in [DOMAIN d -> Values]
      /\ \A j \in DOMAIN d : e[j].kind = d[j].kind /\ e[j].len = d[j].len /\ e[j].exp = d[j].exp
  BY Zenon DEF IsMap, Values
<1>2. IsMap(e)
  BY Zenon, <1>1 DEF IsMap
<1> HIDE DEF e
<1>3. \A j \in DOMAIN d : Size(e[j]) = Size(d[j])
  BY Zenon, <1>1 DEF Size
<1>4. \A j \in DOMAIN d : BytesAt(e, j) = BytesAt(d, j)
  BY Zenon, <1>3 DEF BytesAt
<1>5. Bytes(e) = Bytes(d)
  BY Zenon, <1>1, <1>4 DEF Bytes
<1>6. \A kind : {j \in DOMAIN e : e[j].kind = kind} = {j \in DOMAIN d : d[j].kind = kind}
  BY Zenon, <1>1
<1>7. QED
  BY Zenon, <1>2, <1>5, <1>6 DEF TotalSize, KindCount, e

-----------------------------------------------------------------------------
(* Counts per kind.                                                        *)

\* adjustKeyKindCount, called for what went and what came, keeps the counts
\* exact whatever the change of the maps.
LEMMA CountsFollow ==
  ASSUME IsMap(data), counts \in [Kinds -> Int],
         \A kind \in Kinds : counts[kind] = KindCount(data, kind),
         NEW d, IsMap(d), Change(d)
  PROVE  /\ IsMap(data')
         /\ counts' \in [Kinds -> Int]
         /\ \A kind \in Kinds : counts'[kind] = KindCount(data', kind)
<1> DEFINE A(kind) == {k \in DOMAIN data : data[k].kind = kind}
           B(kind) == {k \in DOMAIN d : d[k].kind = kind}
           gone(kind) == {k \in DOMAIN data : data[k].kind = kind
                                    /\ (k \notin DOMAIN d \/ d[k].kind # kind)}
           come(kind) == {k \in DOMAIN d : d[k].kind = kind
                                    /\ (k \notin DOMAIN data \/ data[k].kind # kind)}
<1>1. ASSUME NEW kind \in Kinds
      PROVE  /\ Cardinality(gone(kind)) \in Nat /\ Cardinality(come(kind)) \in Nat
             /\ Cardinality(A(kind)) \in Nat
             /\ Cardinality(B(kind)) =
                  Cardinality(A(kind)) - Cardinality(gone(kind)) + Cardinality(come(kind))
  <2>1. gone(kind) = A(kind) \ B(kind) /\ come(kind) = B(kind) \ A(kind)
    BY Zenon
  <2>2. IsFiniteSet(DOMAIN data) /\ IsFiniteSet(DOMAIN d)
    BY Zenon, MapIsFinite
  <2>3. A(kind) \subseteq DOMAIN data /\ B(kind) \subseteq DOMAIN d
    BY Zenon
  <2>4. IsFiniteSet(A(kind)) /\ IsFiniteSet(B(kind))
    BY Zenon, <2>2, <2>3, FS_Subset
  <2> HIDE DEF A, B, gone, come
  <2>5. /\ Cardinality(A(kind) \ B(kind)) =
              Cardinality(A(kind)) - Cardinality(A(kind) \cap B(kind))
        /\ Cardinality(B(kind) \ A(kind)) =
              Cardinality(B(kind)) - Cardinality(B(kind) \cap A(kind))
        /\ IsFiniteSet(A(kind) \ B(kind)) /\ IsFiniteSet(B(kind) \ A(kind))
        /\ IsFiniteSet(A(kind) \cap B(kind))
    BY Zenon, <2>4, FS_Difference, FS_Intersection
  <2>6. A(kind) \cap B(kind) = B(kind) \cap A(kind)
    BY Zenon
  <2>7. /\ Cardinality(A(kind)) \in Nat /\ Cardinality(B(kind)) \in Nat
        /\ Cardinality(A(kind) \cap B(kind)) \in Nat
        /\ Cardinality(A(kind) \ B(kind)) \in Nat /\ Cardinality(B(kind) \ A(kind)) \in Nat
    BY Zenon, <2>4, <2>5, SizesAreNat
  <2> DEFINE a == Cardinality(A(kind))
             b == Cardinality(B(kind))
             both == Cardinality(A(kind) \cap B(kind))
             minus == Cardinality(A(kind) \ B(kind))
             plus == Cardinality(B(kind) \ A(kind))
  <2>8. /\ a \in Nat /\ b \in Nat /\ both \in Nat /\ minus \in Nat /\ plus \in Nat
        /\ minus = a - both /\ plus = b - both
    BY Zenon, <2>5, <2>6, <2>7
  <2>9. Cardinality(gone(kind)) = minus /\ Cardinality(come(kind)) = plus
    BY Zenon, <2>1
  <2> HIDE DEF a, b, both, minus, plus
  <2>10. b = a - minus + plus
    BY <2>8
  <2>11. QED
    BY Zenon, <2>8, <2>9, <2>10 DEF a, b
<1>2. \A kind \in Kinds :
        counts'[kind] = counts[kind] - Cardinality(gone(kind)) + Cardinality(come(kind))
  BY Zenon DEF Change, CountsAfter
<1>3. counts' = [kind \in Kinds |->
                   counts[kind] - Cardinality(gone(kind)) + Cardinality(come(kind))]
  BY Zenon DEF Change, CountsAfter
<1>4. \A kind \in Kinds : KindCount(data, kind) = Cardinality(A(kind))
                            /\ KindCount(d, kind) = Cardinality(B(kind))
  BY Zenon DEF KindCount
<1> HIDE DEF A, B, gone, come
<1>5. QED
  BY SMTT(40), <1>1, <1>2, <1>3, <1>4 DEF Change

-----------------------------------------------------------------------------
(* The inductive invariant.                                                *)

Types ==
    /\ now \in Nat /\ owed \in Nat
    /\ IsMap(data)
    /\ used \in Int /\ skew \in Int /\ counts \in [Kinds -> Int]
    /\ maxMemory \in Limits \cup {Unset}

\* A sweep holds a clock reading of the past.
SweepInThePast == sweep.at \in Nat /\ sweep.at <= now

\* The write in flight: it has locked an exactly measured keyspace, the change
\* of size it announced is still right unless its key is gone, a write that was
\* let through needs no more room than its own key and the evictable ones
\* leave, and one that was refused has changed nothing.
WriteInFlight ==
    /\ write.mode \in {"idle", "startup", "room", "reject"}
    /\ Locked => accounting /\ skew = 0
    /\ write.mode = "startup" => write.target = maxMemory
    /\ write.mode \in {"room", "reject"} =>
         /\ write.key \in Keys
         /\ write.delta \in Nat /\ write.target = maxMemory - write.delta
         /\ \A v \in write.value :
              /\ v \in Values
              /\ write.key \in DOMAIN data => Size(v) = Size(data[write.key]) + write.delta
    /\ write.mode = "room" =>
         /\ write.target >= 0
         /\ write.key \in DOMAIN data => Size(data[write.key]) <= write.target
    /\ write.mode = "reject" => data = saved

KeyspaceInv == Types /\ SweepInThePast /\ WriteInFlight /\ AccountingExact /\ QueuedIsPublished

\* recalculateUsedMemoryLocked leaves exact figures behind.
LEMMA MeasuredIsExact ==
  ASSUME Types, AccountingExact, NEW d, IsMap(d), NEW t, Recalculate(d, t)
  PROVE  /\ IsMap(data') /\ used' \in Int /\ skew' = 0 /\ counts' \in [Kinds -> Int]
         /\ AccountingExact'
         /\ data' = Without(d, ExpiredKeys(d, t))
<1> DEFINE rest == Without(d, ExpiredKeys(d, t))
<1>1. Change(rest) /\ used' = TotalSize(rest) /\ skew' = 0
  BY Zenon DEF Recalculate
<1>2. IsMap(rest)
  BY Zenon, SizeSplits
<1> HIDE DEF rest
<1>3. /\ IsMap(data') /\ counts' \in [Kinds -> Int]
      /\ \A kind \in Kinds : counts'[kind] = KindCount(data', kind)
  BY Zenon, <1>1, <1>2, CountsFollow DEF Types, AccountingExact
<1>4. data' = rest /\ TotalSize(rest) \in Nat
  BY Zenon, <1>1, <1>2, BytesAreFinite DEF Change
<1>5. used' = TotalSize(data') /\ used' \in Int /\ used' + skew' = TotalSize(data')
  BY SMTT(40), <1>1, <1>4
<1>6. QED
  BY Zenon, <1>1, <1>3, <1>4, <1>5 DEF AccountingExact, rest

\* deleteKeyLocked takes off what the keys occupied.
LEMMA DeletedIsExact ==
  ASSUME Types, AccountingExact, NEW ks, DeleteKeys(ks), UNCHANGED maxMemory
  PROVE  /\ IsMap(data') /\ used' \in Int /\ skew' = skew /\ counts' \in [Kinds -> Int]
         /\ AccountingExact'
<1> DEFINE rest == Without(data, ks)
<1>1. Change(rest) /\ used' = (IF accounting THEN used - SizeOf(ks) ELSE used) /\ skew' = skew
  BY Zenon DEF DeleteKeys
<1>2. IsMap(data) /\ IsMap(rest) /\ TotalSize(data) = TotalSize(rest) + SizeOf(ks)
  BY Zenon, SizeSplits DEF Types, SizeOf
<1>3. TotalSize(data) \in Nat /\ TotalSize(rest) \in Nat /\ SizeOf(ks) \in Nat
  BY Zenon, <1>2, SizeSplits, BytesAreFinite DEF SizeOf
<1> HIDE DEF rest
<1>4. /\ IsMap(data') /\ counts' \in [Kinds -> Int]
      /\ \A kind \in Kinds : counts'[kind] = KindCount(data', kind)
  BY Zenon, <1>1, <1>2, CountsFollow DEF Types, AccountingExact
<1>5. data' = rest
  BY Zenon, <1>1 DEF Change
<1>6. used' \in Int /\ (accounting => used' + skew' = TotalSize(data'))
  BY SMTT(40), <1>1, <1>2, <1>3, <1>5 DEF Types, AccountingExact
<1>7. QED
  BY Zenon, <1>1, <1>4, <1>6 DEF AccountingExact, accounting

\* setKeyLocked with the change of size that its caller accounts for.
LEMMA StoredIsExact ==
  ASSUME Types, AccountingExact, NEW k \in Keys, NEW v \in Values, Change(With(data, k, v)),
         UNCHANGED maxMemory, skew' \in Int, used' \in Int,
         accounting => used' + skew' = used + skew + Size(v)
                                         - IF k \in DOMAIN data THEN Size(data[k]) ELSE 0
  PROVE  /\ IsMap(data') /\ counts' \in [Kinds -> Int]
         /\ AccountingExact'
<1> DEFINE new == With(data, k, v)
<1>1. /\ IsMap(data) /\ IsMap(new) /\ TotalSize(data) \in Nat
      /\ TotalSize(new) =
           TotalSize(data) + Size(v) - IF k \in DOMAIN data THEN Size(data[k]) ELSE 0
  BY Zenon, SizeWith DEF Types
<1> HIDE DEF new
<1>2. /\ IsMap(data') /\ counts' \in [Kinds -> Int]
      /\ \A kind \in Kinds : counts'[kind] = KindCount(data', kind)
  BY Zenon, <1>1, CountsFollow DEF Types, AccountingExact, new
<1>3. data' = new
  BY Zenon DEF Change, new
<1>4. Size(v) \in Nat /\ (k \in DOMAIN data => Size(data[k]) \in Nat)
  BY Zenon, SizeIsPositive DEF Types, IsMap
<1>5. accounting => used' + skew' = TotalSize(data')
  BY Zenon, <1>1, <1>3, <1>4 DEF Types, AccountingExact
<1>6. QED
  BY Zenon, <1>2, <1>5 DEF AccountingExact, accounting

-----------------------------------------------------------------------------
(* What the commands store.                                                *)

\* Every command that grows a key stores a value of the model, with a length
\* and a deadline of its own or taken from the live value.
LEMMA WritesStoreValues ==
  ASSUME Types, NEW k \in Keys,
         \/ Set(k) \/ Increment(k) \/ SetBit(k) \/ PFAdd(k)
         \/ PushList(k) \/ XAdd(k) \/ HSet(k) \/ SAdd(k) \/ ZAdd(k)
  PROVE  \E v \in Values : StoreValue(k, v) \/ StoreInPlace(k, v) \/ BeginWrite(k, v)
<1>1. \A kind \in Kinds : Live(k, kind) \subseteq Values
  BY Zenon DEF Current, Live, Types, IsMap
<1>2. \A kind \in Kinds, n \in Nat, e \in Nat : New(kind, n, e) \in Values
  BY Zenon DEF New, Values, Types
<1>3. \A n \in Lengths : n \in Nat
  BY SMTT(40), BoundsAssumption DEF Lengths
<1>4. \A m, n \in Nat : Max({m, n}) \in Nat
  BY DEF Max
<1>5. \A u \in Values : u.len \in Nat /\ u.exp \in Nat
  BY Zenon DEF Values
<1>6. /\ "string" \in Kinds /\ "list" \in Kinds /\ "hash" \in Kinds
      /\ "set" \in Kinds /\ "zset" \in Kinds /\ "stream" \in Kinds
  BY Zenon DEF Kinds
<1>7. SetValue \subseteq Values
  BY SMTT(40), <1>2, <1>3, <1>6, BoundsAssumption DEF SetValue, Types
<1>8. \A kind \in Kinds : \A u \in Live(k, kind) :
        /\ u.len \in Nat /\ u.exp \in Nat
        /\ \A n \in Nat : New(kind, n, u.exp) \in Values
  BY Zenon, <1>1, <1>2, <1>5
<1>9. IncrementValue(k) \subseteq Values
  <2>1. New("string", 1, 0) \in Values
    BY Zenon, <1>2, <1>6
  <2>2. \A u \in Live(k, "string"), d \in {0, 1} : New("string", u.len + d, u.exp) \in Values
    BY <1>6, <1>8
  <2>3. QED
    BY <2>1, <2>2, Zenon DEF IncrementValue
<1>10. SetBitValue(k) \subseteq Values
  <2>1. \A n \in Lengths : New("string", n, 0) \in Values
    BY Zenon, <1>2, <1>3, <1>6
  <2>2. \A u \in Live(k, "string"), n \in Lengths :
          New("string", Max({n, u.len}), u.exp) \in Values
    BY Zenon, <1>3, <1>4, <1>6, <1>8
  <2>3. CASE Current(k) = {}
    BY Zenon, <2>1, <2>3 DEF SetBitValue
  <2>4. CASE Current(k) # {}
    <3>1. SetBitValue(k) = UNION {{New("string", Max({n, v.len}), v.exp) : n \in Lengths} :
                                     v \in Live(k, "string")}
      BY <2>4, Zenon DEF SetBitValue
    <3>2. \A v \in Live(k, "string") :
            {New("string", Max({n, v.len}), v.exp) : n \in Lengths} \subseteq Values
      BY Zenon, <2>2
    <3>3. QED
      BY <3>1, <3>2, Zenon
  <2>5. QED
    BY Zenon, <2>3, <2>4
<1>11. PFAddValue(k) \subseteq Values
  BY Zenon, <1>2, <1>6, <1>8, BoundsAssumption DEF PFAddValue
<1>12. ASSUME NEW kind \in Kinds, NEW ns \in SUBSET Nat
       PROVE  Extended(k, kind, ns) \subseteq Values
  <2>1. \A n \in Lengths : New(kind, n, 0) \in Values
    BY Zenon, <1>2, <1>3
  <2>2. \A u \in Live(k, kind), n \in ns : New(kind, u.len + n, u.exp) \in Values
    BY <1>8
  <2>3. CASE Current(k) = {}
    BY Zenon, <2>1, <2>3 DEF Extended
  <2>4. CASE Current(k) # {}
    BY <2>2, <2>4 DEF Extended
  <2>5. QED
    BY Zenon, <2>3, <2>4
<1>13. \E vs \in SUBSET Values : Write(k, vs)
  <2>1. {1, 2} \subseteq Nat /\ {1} \subseteq Nat /\ {0, 1} \subseteq Nat
    OBVIOUS
  <2>2. QED
    BY ZenonT(40), <1>6, <1>7, <1>9, <1>10, <1>11, <1>12, <2>1
       DEF Set, Increment, SetBit, PFAdd, PushList, XAdd, HSet, SAdd, ZAdd
<1>14. QED
  BY Zenon, <1>13 DEF Write

\* The commands that take elements away.
LEMMA ShrinksAreShrinks ==
  ASSUME NEW k \in Keys, Pop(k) \/ PopN(k) \/ HDel(k) \/ SRem(k)
  PROVE  \E kind \in Kinds, ns \in SUBSET Nat : Shrink(k, kind, ns)
<1>1. "list" \in Kinds /\ "hash" \in Kinds /\ "set" \in Kinds
  BY Zenon DEF Kinds
<1>2. 0..MaxLength \subseteq Nat /\ {1} \subseteq Nat
  BY BoundsAssumption
<1>3. QED
  BY Zenon, <1>1, <1>2 DEF Pop, PopN, HDel, SRem

-----------------------------------------------------------------------------
(* The invariant is inductive.                                             *)

\* Nobody holds all locks after a step that releases them or never took them.
LEMMA IdleIsSound ==
  ASSUME write' = Idle
  PROVE  WriteInFlight' /\ ~Locked'
BY Zenon DEF WriteInFlight, Locked, Idle

\* What the steps of one shard leave alone: the locks of all shards.
LEMMA RunningIsIdle ==
  ASSUME Running
  PROVE  write = Idle /\ ~Locked /\ maxMemory \in Limits \cup {Unset} => maxMemory \in Nat
BY Zenon, LimitsAssumption DEF Running, Locked, Unset

\* writeKey keeps the invariant, by each of its three ways.
LEMMA WriteKeepsInv ==
  ASSUME KeyspaceInv, NEW k \in Keys, NEW v \in Values,
         StoreValue(k, v) \/ StoreInPlace(k, v) \/ BeginWrite(k, v)
  PROVE  KeyspaceInv'
<1> USE DEF KeyspaceInv
<1>1. /\ Size(v) \in Nat /\ (k \in DOMAIN data => Size(data[k]) \in Nat)
      /\ OldSize(k) \in Nat
      /\ Current(k) # {} => k \in DOMAIN data
  BY Zenon, SizeIsPositive DEF Types, IsMap, OldSize, Current
<1>2. CASE StoreValue(k, v)
  <2>1. /\ Change(With(data, k, v)) /\ ~accounting /\ write = Idle
        /\ UNCHANGED <<now, used, skew, maxMemory, write, sweepVars, noted, owed, saved>>
    BY Zenon, <1>2 DEF StoreValue, Running, Locked
  <2>2. IsMap(data') /\ counts' \in [Kinds -> Int] /\ AccountingExact'
    BY Zenon, <2>1, StoredIsExact DEF Types
  <2>3. WriteInFlight' /\ ~Locked'
    BY Zenon, <2>1, IdleIsSound
  <2>4. QED
    BY Zenon, <2>1, <2>2, <2>3 DEF Types, SweepInThePast, QueuedIsPublished, Locked, sweepVars
<1>3. CASE StoreInPlace(k, v)
  <2>1. /\ Change(With(data, k, v)) /\ write = Idle /\ Size(v) <= OldSize(k)
        /\ used' = used + (Size(v) - OldSize(k)) /\ owed' = owed + 1
        /\ UNCHANGED <<now, skew, maxMemory, write, sweepVars, noted, saved>>
    BY Zenon, <1>3 DEF StoreInPlace, Running, Locked
  <2>2. k \in DOMAIN data /\ OldSize(k) = Size(data[k])
    BY SMTT(40), <1>1, <2>1, SizeIsPositive DEF OldSize
  <2>3. used' \in Int /\ used' + skew' = used + skew + Size(v) - Size(data[k])
    BY SMTT(40), <1>1, <2>1, <2>2 DEF Types
  <2>4. IsMap(data') /\ counts' \in [Kinds -> Int] /\ AccountingExact'
    BY Zenon, <2>1, <2>2, <2>3, StoredIsExact DEF Types
  <2>5. WriteInFlight' /\ ~Locked'
    BY Zenon, <2>1, IdleIsSound
  <2>6. QED
    BY SMTT(40), <2>1, <2>3, <2>4, <2>5 DEF Types, SweepInThePast, QueuedIsPublished, sweepVars
<1>4. CASE BeginWrite(k, v)
  <2> DEFINE delta == Size(v) - OldSize(k)
             room == maxMemory - delta
  <2>1. /\ accounting /\ Size(v) > OldSize(k) /\ maxMemory' = maxMemory
        /\ UNCHANGED <<maxMemory, sweepVars, owed>>
        /\ saved' = data'
        /\ delta \in Nat /\ room \in Int /\ maxMemory \in Nat
    BY SMTT(40), <1>1, <1>4, RunningIsIdle, LimitsAssumption DEF BeginWrite, Types, accounting, Unset
  <2>2. PICK clock \in now..MaxTime :
          /\ now' = clock
          /\ Recalculate(Prepared(k), clock)
          /\ write' = [key |-> k, value |-> {v}, delta |-> delta, target |-> room,
                       mode |-> IF MayFit(data', k, room) THEN "room" ELSE "reject"]
    BY Zenon, <1>4 DEF BeginWrite
  <2>3. IsMap(Prepared(k))
    BY Zenon, SizeSplits DEF Prepared, Types
  <2>4. /\ IsMap(data') /\ used' \in Int /\ skew' = 0 /\ counts' \in [Kinds -> Int]
        /\ AccountingExact'
        /\ data' = Without(Prepared(k), ExpiredKeys(Prepared(k), clock))
    BY Zenon, <2>2, <2>3, MeasuredIsExact
  <2>5. ASSUME k \in DOMAIN data'
        PROVE  data'[k] = data[k] /\ OldSize(k) = Size(data[k])
    <3>1. k \in DOMAIN Prepared(k) /\ data'[k] = Prepared(k)[k]
      BY Zenon, <2>4, <2>5 DEF Without, Restrict
    <3>2. k \in DOMAIN data /\ k \notin ExpiredKeys(data, now) /\ Prepared(k)[k] = data[k]
      BY Zenon, <3>1 DEF Prepared, Without, Restrict
    <3>3. Current(k) = {data[k]}
      BY Zenon, <3>2 DEF Current, ExpiredKeys
    <3>4. QED
      BY Zenon, <3>1, <3>2, <3>3 DEF OldSize
  <2>6. ASSUME MayFit(data', k, room), k \in DOMAIN data'
        PROVE  Size(data'[k]) <= room
    <3>1. TotalSize(data') - TotalSize(Without(data', {k})) <= room
      BY Zenon, <2>6 DEF MayFit
    <3>2. TotalSize(data') = TotalSize(Without(data', {k})) + TotalSize(Restrict(data', {k} \cap DOMAIN data'))
      BY Zenon, <2>4, SizeSplits
    <3>3. TotalSize(Restrict(data', {k} \cap DOMAIN data')) = Size(data'[k])
      BY Zenon, <2>4, <2>6, SizeOfOne
    <3>4. Size(data'[k]) \in Nat /\ TotalSize(Without(data', {k})) \in Nat
      BY ZenonT(40), <2>4, <2>6, SizeIsPositive, SizeSplits, BytesAreFinite DEF IsMap
    <3>5. QED
      BY SMTT(40), <2>1, <3>1, <3>2, <3>3, <3>4
  <2>7. MayFit(data', k, room) => room >= 0
    BY Zenon DEF MayFit
  <2>8. Locked'
    BY Zenon, <2>2, KeysAssumption DEF Locked, Idle
  <2>9. /\ write'.key = k /\ write'.value = {v} /\ write'.delta = delta /\ write'.target = room
        /\ write'.mode \in {"room", "reject"}
        /\ write'.mode = "room" => MayFit(data', k, room)
    BY Zenon, <2>2
  <2>10. now' \in Nat /\ now' >= now
    BY SMTT(40), <2>2, BoundsAssumption DEF Types
  <2>11. k \in DOMAIN data' => Size(v) = Size(data'[k]) + delta
    BY <1>1, <2>5
  <2>12. room = maxMemory' - delta /\ room \in Int /\ delta \in Nat
    BY Zenon, <2>1
  <2> HIDE DEF delta, room
  <2>13. WriteInFlight'
    <3>1. /\ write'.key \in Keys /\ write'.delta \in Nat /\ write'.target = maxMemory' - write'.delta
          /\ \A u \in write'.value :
               u \in Values /\ (write'.key \in DOMAIN data' => Size(u) = Size(data'[write'.key]) + write'.delta)
      BY Zenon, <2>9, <2>11, <2>12
    <3>2. write'.mode = "room" =>
            /\ write'.target >= 0
            /\ write'.key \in DOMAIN data' => Size(data'[write'.key]) <= write'.target
      BY Zenon, <2>6, <2>7, <2>9
    <3>3. accounting' /\ skew' = 0 /\ data' = saved'
      BY Zenon, <2>1, <2>4 DEF accounting
    <3>4. QED
      BY Zenon, <2>9, <3>1, <3>2, <3>3 DEF WriteInFlight
  <2>14. QED
    BY SMTT(40), <2>1, <2>4, <2>8, <2>10, <2>13 DEF Types, SweepInThePast, QueuedIsPublished, sweepVars
<1>5. QED
  BY Zenon, <1>2, <1>3, <1>4

\* Removing keys keeps the invariant, for every caller of deleteKeyLocked.
LEMMA DeleteKeepsInv ==
  ASSUME KeyspaceInv, Running, NEW ks, DeleteKeys(ks), SweepInThePast', QueuedIsPublished',
         UNCHANGED <<now, maxMemory, write>>, owed' \in Nat
  PROVE  KeyspaceInv'
<1>1. /\ IsMap(data') /\ used' \in Int /\ skew' = skew /\ counts' \in [Kinds -> Int]
      /\ AccountingExact'
  BY Zenon, DeletedIsExact DEF KeyspaceInv
<1>2. WriteInFlight'
  BY Zenon, IdleIsSound DEF Running, Locked
<1>3. QED
  BY Zenon, <1>1, <1>2 DEF KeyspaceInv, Types

\* Pop, HDel and SRem keep the invariant, whether the key survives them or not.
LEMMA ShrinkKeepsInv ==
  ASSUME KeyspaceInv, NEW k \in Keys, NEW kind \in Kinds, NEW ns \in SUBSET Nat,
         Shrink(k, kind, ns)
  PROVE  KeyspaceInv'
<1>1. /\ Running /\ k \in DOMAIN data
      /\ UNCHANGED <<now, maxMemory, write, sweepVars, noted, owed, saved>>
  BY Zenon DEF Shrink
<1>2. SweepInThePast' /\ QueuedIsPublished' /\ owed' \in Nat /\ WriteInFlight' /\ ~Locked'
  BY Zenon, <1>1, IdleIsSound
     DEF KeyspaceInv, SweepInThePast, QueuedIsPublished, sweepVars, Running, Locked, Types
<1>3. ASSUME NEW ks, DeleteKeys(ks)
      PROVE  KeyspaceInv'
  BY Zenon, <1>1, <1>2, <1>3, DeleteKeepsInv
<1>4. ASSUME NEW n \in ns, Shrunk(k, Min({n, data[k].len}))
      PROVE  KeyspaceInv'
  <2> DEFINE m == Min({n, data[k].len})
             v == [data[k] EXCEPT !.len = @ - m, !.at = now]
  <2>1. data[k] \in Values /\ now \in Nat
    BY Zenon, <1>1 DEF KeyspaceInv, Types, IsMap
  <2>2. n \in Nat /\ data[k].len \in Nat
    BY Zenon, <2>1 DEF Values
  <2>3. m \in Nat /\ m <= data[k].len
    BY <2>2 DEF Min
  <2> HIDE DEF m
  <2>4. v \in Values
    <3>1. data[k].len - m \in Nat
      BY SMTT(40), <2>2, <2>3
    <3>2. QED
      BY Zenon, <2>1, <3>1 DEF Values
  <2>5. CASE v.len = 0
    BY Zenon, <1>3, <1>4, <2>5 DEF Shrunk, m
  <2>6. CASE v.len # 0
    <3>1. /\ Change(With(data, k, v)) /\ skew' = skew
          /\ used' = IF accounting THEN used + (Size(v) - Size(data[k])) ELSE used
      BY Zenon, <1>4, <2>6 DEF Shrunk, m
    <3> HIDE DEF v
    <3>2. Size(v) \in Nat /\ Size(data[k]) \in Nat /\ used \in Int /\ skew \in Int
      BY Zenon, <2>1, <2>4, SizeIsPositive DEF KeyspaceInv, Types
    <3>3. used' \in Int /\ (accounting => used' + skew' = used + skew + Size(v) - Size(data[k]))
      BY SMTT(40), <3>1, <3>2
    <3>4. IsMap(data') /\ counts' \in [Kinds -> Int] /\ AccountingExact'
      BY Zenon, <1>1, <2>4, <3>1, <3>2, <3>3, StoredIsExact DEF KeyspaceInv
    <3>5. QED
      BY ZenonT(40), <1>1, <1>2, <3>1, <3>2, <3>3, <3>4 DEF KeyspaceInv, Types
  <2>7. QED
    BY Zenon, <2>5, <2>6
<1>5. QED
  BY Zenon, <1>3, <1>4 DEF Shrink

\* Eviction keeps the invariant: the victim is never the key being written.
LEMMA EvictKeepsInv ==
  ASSUME KeyspaceInv, EvictOne
  PROVE  KeyspaceInv'
<1>1. /\ write.mode \in {"room", "startup"} /\ Locked /\ accounting /\ skew = 0
      /\ UNCHANGED <<now, skew, maxMemory, write, sweepVars, noted, owed, saved>>
  BY DEF EvictOne, MustEvict, KeyspaceInv, WriteInFlight, Locked, Idle
<1>2. PICK k \in Candidates : Change(Without(data, {k})) /\ used' = used - Size(data[k])
  BY Zenon DEF EvictOne
<1>3. k \in DOMAIN data /\ k # write.key
  <2>1. \A ks : Stalest(ks) \subseteq ks
    BY Zenon DEF Stalest
  <2>2. QED
    BY Zenon, <2>1 DEF Candidates
<1>4. IsMap(data) /\ TotalSize(Restrict(data, {k} \cap DOMAIN data)) = Size(data[k])
  BY Zenon, <1>3, SizeOfOne DEF KeyspaceInv, Types
<1>5. SizeOf({k}) = Size(data[k])
  BY Zenon, <1>4 DEF SizeOf
<1>6. DeleteKeys({k})
  BY Zenon, <1>1, <1>2, <1>5 DEF DeleteKeys
<1>7. /\ IsMap(data') /\ used' \in Int /\ skew' = skew /\ counts' \in [Kinds -> Int]
      /\ AccountingExact'
  BY Zenon, <1>1, <1>6, DeletedIsExact DEF KeyspaceInv
<1>8. \A j : j # k => (j \in DOMAIN data' <=> j \in DOMAIN data)
                      /\ (j \in DOMAIN data => data'[j] = data[j])
  BY Zenon, <1>2 DEF Change, Without, Restrict
<1>9. WriteInFlight'
  BY ZenonT(40), <1>1, <1>3, <1>8 DEF KeyspaceInv, WriteInFlight, Locked, accounting
<1>10. QED
  BY Zenon, <1>1, <1>7, <1>9
     DEF KeyspaceInv, Types, SweepInThePast, QueuedIsPublished, sweepVars, Locked

\* The commit keeps the invariant: what the write's own expired key leaves in
\* usedMemory is exactly skew.
LEMMA CommitKeepsInv ==
  ASSUME KeyspaceInv, CommitWrite
  PROVE  KeyspaceInv'
<1>1. /\ write.mode = "room" /\ Locked /\ accounting /\ skew = 0
      /\ used' = used + write.delta /\ write' = Idle /\ owed' = owed + 1
      /\ UNCHANGED <<now, maxMemory, sweepVars, noted>>
  BY SMTT(40) DEF CommitWrite, Release, KeyspaceInv, WriteInFlight, Locked, Idle
<1>2. PICK v \in write.value :
        /\ Change(With(data, write.key, v))
        /\ skew' = IF write.key \in DOMAIN data THEN skew ELSE Size(v) - write.delta
  BY Zenon DEF CommitWrite
<1>3. /\ write.key \in Keys /\ write.delta \in Nat /\ v \in Values
      /\ write.key \in DOMAIN data => Size(v) = Size(data[write.key]) + write.delta
  BY Zenon, <1>1, <1>2 DEF KeyspaceInv, WriteInFlight
<1>4. Size(v) \in Nat /\ (write.key \in DOMAIN data => Size(data[write.key]) \in Nat)
  BY ZenonT(40), <1>3, SizeIsPositive DEF KeyspaceInv, Types, IsMap
<1>5. /\ used' \in Int /\ skew' \in Int
      /\ used' + skew' = used + skew + Size(v)
                           - IF write.key \in DOMAIN data THEN Size(data[write.key]) ELSE 0
  BY SMTT(40), <1>1, <1>2, <1>3, <1>4 DEF KeyspaceInv, Types
<1>6. IsMap(data') /\ counts' \in [Kinds -> Int] /\ AccountingExact'
  BY ZenonT(40), <1>1, <1>2, <1>3, <1>5, StoredIsExact DEF KeyspaceInv
<1>7. WriteInFlight'
  BY Zenon, <1>1, IdleIsSound
<1>8. QED
  BY SMTT(40), <1>1, <1>5, <1>6, <1>7
     DEF KeyspaceInv, Types, SweepInThePast, QueuedIsPublished, sweepVars

\* ConfigureMaxMemory and EnforceMaxMemory establish the accounting.
LEMMA StartKeepsInv ==
  ASSUME KeyspaceInv, Start
  PROVE  KeyspaceInv'
<1>1. owed' = owed + 1 /\ UNCHANGED <<now, sweepVars>> /\ maxMemory = Unset
  BY ZenonT(40) DEF Start
<1>2. write = Idle
  BY SMTT(40), <1>1 DEF KeyspaceInv, WriteInFlight, Locked, accounting, Unset
<1>3. PICK limit \in Limits :
        /\ maxMemory' = limit
        /\ \/ limit = 0 /\ UNCHANGED <<data, memVars, noted, write, saved>>
           \/ /\ limit > 0
              /\ Recalculate(data, now)
              /\ write' = IF used' <= limit THEN Idle
                          ELSE [Idle EXCEPT !.mode = "startup", !.target = limit]
  BY Zenon DEF Start
<1>4. owed' \in Nat /\ owed' > 0 /\ now' \in Nat /\ SweepInThePast'
  BY <1>1 DEF KeyspaceInv, Types, SweepInThePast, sweepVars
<1>5. CASE limit = 0
  <2>1. UNCHANGED <<data, memVars, noted, write, saved>>
    BY SMTT(40), <1>3, <1>5
  <2>2. AccountingExact' /\ WriteInFlight'
    BY SMTT(40), <1>2, <1>3, <1>5, <2>1, IdleIsSound DEF KeyspaceInv, AccountingExact, accounting, memVars
  <2>3. QED
    BY Zenon, <1>3, <1>4, <2>1, <2>2 DEF KeyspaceInv, Types, QueuedIsPublished, memVars
<1>6. CASE limit > 0
  <2>1. /\ Recalculate(data, now)
        /\ write' = IF used' <= limit THEN Idle
                    ELSE [Idle EXCEPT !.mode = "startup", !.target = limit]
    BY SMTT(40), <1>3, <1>6
  <2>2. /\ IsMap(data') /\ used' \in Int /\ skew' = 0 /\ counts' \in [Kinds -> Int]
        /\ AccountingExact'
    BY Zenon, <2>1, MeasuredIsExact DEF KeyspaceInv, Types
  <2>3. WriteInFlight'
    <3>1. CASE write' = Idle
      BY Zenon, <3>1, IdleIsSound
    <3>2. CASE write' # Idle
      <4>1. write'.mode = "startup" /\ write'.target = maxMemory'
        BY Zenon, <1>3, <2>1, <3>2 DEF Idle
      <4>2. accounting' /\ skew' = 0
        BY Zenon, <1>3, <1>6, <2>2 DEF accounting
      <4>3. QED
        BY Zenon, <4>1, <4>2 DEF WriteInFlight
    <3>3. QED
      BY Zenon, <3>1, <3>2
  <2>4. QED
    BY SMTT(40), <1>3, <1>4, <2>2, <2>3 DEF KeyspaceInv, Types, QueuedIsPublished
<1>7. QED
  BY Zenon, <1>3, <1>5, <1>6

\* Readers, sweeps and replacements keep the invariant.
LEMMA ExpiryKeepsInv ==
  ASSUME KeyspaceInv,
         \/ \E k \in Keys : Read(k) \/ DropIfStillExpired(k)
         \/ \E ks \in SUBSET Keys : ks # {} /\ Delete(ks)
         \/ SnapshotKeys \/ EvictExpiredSample \/ ReplaceWith
  PROVE  KeyspaceInv'
<1>1. ASSUME NEW k \in Keys, Read(k)
      PROVE  KeyspaceInv'
  <2>1. /\ k \in DOMAIN data /\ UNCHANGED <<now, memVars, maxMemory, write, sweep, noted, owed, saved>>
        /\ data' = data \/ data' = [data EXCEPT ![k].at = now]
        /\ Running
    BY Zenon, <1>1 DEF Read
  <2>2. /\ IsMap(data') /\ TotalSize(data') = TotalSize(data)
        /\ \A kind : KindCount(data', kind) = KindCount(data, kind)
    BY <2>1, SizeStamped DEF KeyspaceInv, Types
  <2>3. AccountingExact'
    BY Zenon, <2>1, <2>2 DEF KeyspaceInv, AccountingExact, accounting, memVars
  <2>4. WriteInFlight'
    BY Zenon, <2>1, IdleIsSound DEF Running, Locked
  <2>5. QED
    BY Zenon, <2>1, <2>2, <2>3, <2>4
       DEF KeyspaceInv, Types, SweepInThePast, QueuedIsPublished, Locked, memVars
<1>2. ASSUME NEW k \in Keys, DropIfStillExpired(k)
      PROVE  KeyspaceInv'
  <2>1. /\ Running /\ DeleteKeys({k} \cap ExpiredKeys(data, now))
        /\ UNCHANGED <<now, maxMemory, write, sweep, noted, owed, saved>>
    BY Zenon, <1>2 DEF DropIfStillExpired
  <2>2. SweepInThePast' /\ QueuedIsPublished' /\ owed' \in Nat
    BY Zenon, <2>1 DEF KeyspaceInv, Types, SweepInThePast, QueuedIsPublished, Locked
  <2>3. QED
    BY Zenon, <2>1, <2>2, DeleteKeepsInv
<1>3. ASSUME NEW ks \in SUBSET Keys, Delete(ks)
      PROVE  KeyspaceInv'
  <2>1. /\ Running /\ DeleteKeys(ks)
        /\ UNCHANGED <<now, maxMemory, write, sweepVars, noted, owed, saved>>
    BY Zenon, <1>3 DEF Delete
  <2>2. SweepInThePast' /\ QueuedIsPublished' /\ owed' \in Nat
    BY Zenon, <2>1 DEF KeyspaceInv, Types, SweepInThePast, QueuedIsPublished, Locked, sweepVars
  <2>3. QED
    BY Zenon, <2>1, <2>2, DeleteKeepsInv
<1>4. CASE SnapshotKeys
  <2>1. /\ UNCHANGED <<now, data, memVars, maxMemory, write, drops, noted, owed, saved>>
        /\ sweep'.at = now
    BY <1>4 DEF SnapshotKeys
  <2>2. AccountingExact' /\ WriteInFlight'
    BY Zenon, <2>1 DEF KeyspaceInv, AccountingExact, accounting, WriteInFlight, Locked, memVars
  <2>3. QED
    BY SMTT(40), <2>1, <2>2 DEF KeyspaceInv, Types, SweepInThePast, QueuedIsPublished, Locked, memVars
<1>5. CASE EvictExpiredSample
  <2> DEFINE gone == sweep.keys \cap ExpiredKeys(data, sweep.at)
  <2>1. /\ Running /\ DeleteKeys(gone)
        /\ noted' = noted \cup gone /\ owed' = (IF gone = {} THEN owed ELSE owed + 1)
        /\ sweep' = NoSweep /\ UNCHANGED <<now, maxMemory, write, drops, saved>>
    BY Zenon, <1>5 DEF EvictExpiredSample
  <2>2. SweepInThePast'
    <3>1. sweep'.at = 0 /\ now' = now /\ now \in Nat
      BY Zenon, <2>1 DEF NoSweep, KeyspaceInv, Types
    <3>2. QED
      BY <3>1 DEF SweepInThePast
  <2> HIDE DEF gone
  <2>3. owed' \in Nat /\ QueuedIsPublished'
    BY SMTT(40), <2>1 DEF KeyspaceInv, Types, QueuedIsPublished, Locked
  <2>4. QED
    BY Zenon, <2>1, <2>2, <2>3, DeleteKeepsInv
<1>6. CASE ReplaceWith
  <2>1. /\ Running /\ owed' = owed + 1 /\ UNCHANGED <<now, maxMemory, write, sweepVars, saved>>
    BY Zenon, <1>6 DEF ReplaceWith
  <2>2. PICK d \in Loaded : IF accounting THEN Recalculate(d, now)
                            ELSE Change(d) /\ UNCHANGED <<used, skew, noted>>
    BY Zenon, <1>6 DEF ReplaceWith
  <2>3. IsMap(d)
    BY Zenon, LoadedAssumption
  <2>4. IsMap(data') /\ used' \in Int /\ skew' \in Int /\ counts' \in [Kinds -> Int] /\ AccountingExact'
    <3>1. CASE accounting
      BY SMTT(40), <2>2, <2>3, <3>1, MeasuredIsExact DEF KeyspaceInv
    <3>2. CASE ~accounting
      <4>1. Change(d) /\ UNCHANGED <<used, skew>> /\ ~accounting'
        BY Zenon, <2>1, <2>2, <3>2 DEF accounting
      <4>2. /\ IsMap(data') /\ counts' \in [Kinds -> Int]
            /\ \A kind \in Kinds : counts'[kind] = KindCount(data', kind)
        BY Zenon, <2>3, <4>1, CountsFollow DEF KeyspaceInv, Types, AccountingExact
      <4>3. QED
        BY Zenon, <4>1, <4>2 DEF KeyspaceInv, Types, AccountingExact
    <3>3. QED
      BY Zenon, <3>1, <3>2
  <2>5. WriteInFlight'
    BY Zenon, <2>1, IdleIsSound DEF Running, Locked
  <2>6. QED
    BY SMTT(40), <2>1, <2>4, <2>5 DEF KeyspaceInv, Types, SweepInThePast, QueuedIsPublished, sweepVars
<1>7. QED
  BY Zenon, <1>1, <1>2, <1>3, <1>4, <1>5, <1>6

\* The invariant holds when the load is done, before the limit is configured.
LEMMA InitEstablishesInv ==
  ASSUME Init
  PROVE  KeyspaceInv
<1>1. IsMap(data)
  BY Zenon, LoadedAssumption DEF Init
<1>2. \A kind \in Kinds : KindCount(data, kind) \in Int
  <2> TAKE kind \in Kinds
  <2>1. {k \in DOMAIN data : data[k].kind = kind} \subseteq DOMAIN data
    BY Zenon
  <2>2. QED
    BY SMTT(40), <1>1, <2>1, MapIsFinite, FS_Subset, SizesAreNat DEF KindCount
<1>3. Types /\ SweepInThePast
  BY <1>1, <1>2 DEF Init, Types, SweepInThePast, NoSweep
<1>4. WriteInFlight
  BY Zenon DEF Init, WriteInFlight, Locked, Idle
<1>5. AccountingExact /\ QueuedIsPublished
  BY DEF Init, AccountingExact, accounting, Unset, QueuedIsPublished
<1>6. QED
  BY Zenon, <1>3, <1>4, <1>5 DEF KeyspaceInv

\* Every step of the server keeps the invariant.
LEMMA NextKeepsInv ==
  ASSUME KeyspaceInv, [Next]_vars
  PROVE  KeyspaceInv'
<1>1. CASE UNCHANGED vars
  BY SMTT(40), <1>1 DEF KeyspaceInv, Types, SweepInThePast, WriteInFlight, AccountingExact,
              QueuedIsPublished, Locked, accounting, vars, memVars, sweepVars
<1>2. CASE Tick
  <2>1. /\ UNCHANGED <<data, memVars, maxMemory, write, sweepVars, noted, owed, saved>>
        /\ now' = now + 1
    BY Zenon, <1>2 DEF Tick
  <2>2. AccountingExact' /\ WriteInFlight'
    BY Zenon, <2>1 DEF KeyspaceInv, AccountingExact, accounting, WriteInFlight, Locked, memVars
  <2>3. QED
    BY <2>1, <2>2 DEF KeyspaceInv, Types, SweepInThePast, QueuedIsPublished, Locked,
                      memVars, sweepVars
<1>3. CASE Start
  BY Zenon, <1>3, StartKeepsInv
<1>4. ASSUME NEW k \in Keys,
             \/ Set(k) \/ Increment(k) \/ SetBit(k) \/ PFAdd(k)
             \/ PushList(k) \/ XAdd(k) \/ HSet(k) \/ SAdd(k) \/ ZAdd(k)
      PROVE  KeyspaceInv'
  BY Zenon, <1>4, WritesStoreValues, WriteKeepsInv DEF KeyspaceInv
<1>5. ASSUME NEW k \in Keys, Pop(k) \/ PopN(k) \/ HDel(k) \/ SRem(k)
      PROVE  KeyspaceInv'
  BY Zenon, <1>5, ShrinksAreShrinks, ShrinkKeepsInv
<1>6. CASE \/ \E k \in Keys : Read(k) \/ DropIfStillExpired(k)
           \/ \E ks \in SUBSET Keys : ks # {} /\ Delete(ks)
           \/ SnapshotKeys \/ EvictExpiredSample \/ ReplaceWith
  BY ZenonT(40), <1>6, ExpiryKeepsInv
<1>7. CASE EvictOne
  BY Zenon, <1>7, EvictKeepsInv
<1>8. CASE CommitWrite
  BY Zenon, <1>8, CommitKeepsInv
<1>9. CASE RejectWrite \/ FinishStartup
  <2>1. /\ write' = Idle /\ owed' = owed + 1
        /\ UNCHANGED <<now, data, memVars, maxMemory, sweepVars, noted>>
    BY Zenon, <1>9 DEF RejectWrite, FinishStartup, Release
  <2>2. AccountingExact' /\ WriteInFlight'
    BY Zenon, <2>1, IdleIsSound DEF KeyspaceInv, AccountingExact, accounting, memVars
  <2>3. QED
    BY SMTT(40), <2>1, <2>2 DEF KeyspaceInv, Types, SweepInThePast, QueuedIsPublished, memVars, sweepVars
<1>10. CASE PublishExpiredKeys
  <2>1. /\ owed > 0 /\ owed' = owed - 1 /\ noted' = {}
        /\ UNCHANGED <<now, data, memVars, maxMemory, write, sweepVars, saved>>
    BY Zenon, <1>10 DEF PublishExpiredKeys
  <2>2. AccountingExact' /\ WriteInFlight'
    BY Zenon, <2>1 DEF KeyspaceInv, AccountingExact, accounting, WriteInFlight, Locked, memVars
  <2>3. QED
    BY SMTT(40), <2>1, <2>2 DEF KeyspaceInv, Types, SweepInThePast, QueuedIsPublished, memVars, sweepVars
<1>11. QED
  BY ZenonT(40), <1>1, <1>2, <1>3, <1>4, <1>5, <1>6, <1>7, <1>8, <1>9, <1>10 DEF Next

\* In every reachable state UsedMemory is the size of what the maps hold, up to
\* the blur of a write that outlived its own key, and KeyStats counts the keys
\* of each kind (setKeyLocked, deleteKeyLocked, recalculateUsedMemoryLocked).
THEOREM AccountingIsExact == Spec => []AccountingExact
<1>1. KeyspaceInv => AccountingExact
  BY ZenonT(40) DEF KeyspaceInv
<1>2. QED
  BY <1>1, InitEstablishesInv, NextKeepsInv, PTL DEF Spec

\* No expired key stays queued with nobody on the way to publishExpiredKeys.
THEOREM QueueIsPublished == Spec => []QueuedIsPublished
<1>1. KeyspaceInv => QueuedIsPublished
  BY Zenon DEF KeyspaceInv
<1>2. QED
  BY <1>1, InitEstablishesInv, NextKeepsInv, PTL DEF Spec

-----------------------------------------------------------------------------
(* Eviction.                                                               *)

\* A set of natural numbers that is not empty has a least element.
LEMMA LeastNatural ==
  ASSUME NEW T \in SUBSET Nat, T # {}
  PROVE  \E x \in T : \A y \in T : x <= y
<1> DEFINE less == {p \in Nat \X Nat : p[1] < p[2]}
<1>1. IsWellFoundedOn(less, Nat)
  BY Zenon, NatLessThanWellFounded DEF OpToRel
<1>2. \A x, y \in Nat : <<y, x>> \notin less => x <= y
  OBVIOUS
<1> HIDE DEF less
<1>3. \E x \in T : \A y \in T : <<y, x>> \notin less
  BY Zenon, <1>1, WFMin
<1>4. QED
  BY Zenon, <1>2, <1>3

\* A finite set has a subset of every size up to its own.
LEMMA SubsetOfSize ==
  ASSUME NEW S, IsFiniteSet(S), NEW n \in Nat, n <= Cardinality(S)
  PROVE  \E T \in SUBSET S : Cardinality(T) = n
<1>1. Cardinality(S) \in Nat /\ ExistsBijection(1..Cardinality(S), S)
  BY Zenon, FS_CardinalityType
<1>2. PICK f : f \in Bijection(1..Cardinality(S), S)
  BY Zenon, <1>1 DEF ExistsBijection
<1> DEFINE T == {f[i] : i \in 1..n}
           g == [i \in 1..n |-> f[i]]
<1>3. /\ f \in [1..Cardinality(S) -> S]
      /\ \A i, j \in 1..Cardinality(S) : f[i] = f[j] => i = j
  BY Zenon, <1>2 DEF Bijection, Injection, IsInjective
<1>4. \A i \in 1..n : i \in 1..Cardinality(S)
  BY <1>1
<1>5. T \in SUBSET S
  BY SMTT(40), <1>3, <1>4
<1>6. g \in Bijection(1..n, T)
  BY SMTT(40), <1>3, <1>4 DEF Bijection, Injection, Surjection, IsInjective
<1> HIDE DEF g
<1>7. ExistsBijection(1..n, T)
  BY Zenon, <1>6 DEF ExistsBijection
<1>8. IsFiniteSet(1..n) /\ Cardinality(1..n) = n
  BY FS_Interval
<1>9. Cardinality(T) = n
  BY Zenon, <1>7, <1>8, FS_Bijection
<1>10. QED
  BY Zenon, <1>5, <1>9

\* findStalestCandidateLocked finds a victim as long as there is a key besides
\* the one being written, whatever the sample.
LEMMA VictimIsFound ==
  ASSUME Types, Candidates = {}
  PROVE  DOMAIN data \subseteq {write.key}
<1> DEFINE D == DOMAIN data
           free == D \ {write.key}
           n == Min({SampleSize, Cardinality(D)})
           pool(s) == IF s \cap free = {} THEN free ELSE s \cap free
<1>1. IsFiniteSet(D) /\ Cardinality(D) \in Nat
  BY Zenon, MapIsFinite, SizesAreNat DEF Types
<1>2. n \in Nat /\ n <= Cardinality(D)
  BY <1>1, BoundsAssumption DEF Min
<1>3. \E s \in SUBSET D : Cardinality(s) = n
  BY Zenon, <1>1, <1>2, SubsetOfSize
<1>4. \E s : s \in Samples
  BY Zenon, <1>3 DEF Samples, kSubset
<1>5. PICK s : s \in Samples
  BY Zenon, <1>4
<1>6. Candidates = UNION {Stalest(pool(t)) : t \in Samples}
  BY Zenon DEF Candidates
<1>7. Stalest(pool(s)) = {}
  BY Zenon, <1>5, <1>6
<1>8. \A k \in D : data[k].at \in Nat
  BY Zenon DEF Types, IsMap, Values
<1>9. ASSUME NEW P \in SUBSET D, P # {}
      PROVE  Stalest(P) # {}
  <2> DEFINE T == {data[k].at : k \in P}
  <2>1. T \in SUBSET Nat /\ T # {}
    BY Zenon, <1>8, <1>9
  <2>2. \E x \in T : \A y \in T : x <= y
    BY Zenon, <2>1, LeastNatural
  <2>3. QED
    BY <2>2 DEF Stalest
<1>10. free = {}
  <2>1. SUFFICES ASSUME free # {} PROVE FALSE
    BY Zenon
  <2>2. pool(s) \in SUBSET D /\ pool(s) # {}
    BY Zenon, <2>1
  <2>3. QED
    BY Zenon, <1>7, <1>9, <2>2
<1>11. QED
  BY Zenon, <1>10

\* A write that was let through always finds the room it was promised.
LEMMA RoomIsFound ==
  ASSUME KeyspaceInv, write.mode = "room"
  PROVE  ~NothingToEvict
<1> SUFFICES ASSUME NothingToEvict PROVE FALSE
  BY Zenon
<1> DEFINE k == write.key
           own == IF k \in DOMAIN data THEN Size(data[k]) ELSE 0
<1>1. used > write.target /\ DOMAIN data \subseteq {k}
  BY Zenon, VictimIsFound DEF NothingToEvict, MustEvict, KeyspaceInv
<1>2. /\ accounting /\ skew = 0 /\ write.target >= 0
      /\ k \in DOMAIN data => Size(data[k]) <= write.target
  BY DEF KeyspaceInv, WriteInFlight, Locked, Idle
<1>3. own <= write.target
  BY Zenon, <1>2
<1>4. TotalSize(data) = TotalSize(Without(data, {k})) + own
  <2>1. TotalSize(data) = TotalSize(Without(data, {k}))
                            + TotalSize(Restrict(data, {k} \cap DOMAIN data))
    BY Zenon, SizeSplits DEF KeyspaceInv, Types
  <2>2. TotalSize(Restrict(data, {k} \cap DOMAIN data)) = own
    BY Zenon, SizeOfOne DEF KeyspaceInv, Types
  <2>3. QED
    BY Zenon, <2>1, <2>2
<1>5. TotalSize(Without(data, {k})) = 0
  <2>1. DOMAIN Without(data, {k}) = {}
    BY Zenon, <1>1 DEF Without, Restrict
  <2>2. Bytes(Without(data, {k})) = {}
    BY Zenon, <2>1 DEF Bytes
  <2>3. QED
    BY Zenon, <2>2, FS_EmptySet DEF TotalSize
<1>6. used \in Int /\ write.target \in Int /\ own \in Nat
  <2>1. maxMemory \in Int
    BY LimitsAssumption DEF KeyspaceInv, Types, Unset
  <2>2. QED
    BY SMTT(40), <2>1, SizeIsPositive DEF KeyspaceInv, Types, IsMap, WriteInFlight
<1>7. used + skew = TotalSize(data)
  BY Zenon, <1>2 DEF KeyspaceInv, AccountingExact
<1> HIDE DEF own
<1>8. used = own
  BY SMTT(40), <1>2, <1>4, <1>5, <1>6, <1>7
<1>9. QED
  BY SMTT(40), <1>1, <1>3, <1>6, <1>8

\* A write that makes room leaves the keyspace within maxmemory, and one that
\* is refused for memory has evicted nothing (commitValueWithEvictionLocked).
THEOREM EvictionIsAllOrNothing == Spec => EvictsEnoughOrNothing
<1>1. ASSUME KeyspaceInv, KeyspaceInv', CommitWrite
      PROVE  TotalSize(data') <= maxMemory + skew'
  <2>1. /\ write.mode = "room" /\ used <= write.target /\ used' = used + write.delta
        /\ maxMemory' = maxMemory
    BY ZenonT(40), <1>1 DEF CommitWrite
  <2>2. /\ accounting /\ write.target = maxMemory - write.delta /\ write.delta \in Nat
    BY SMTT(40), <1>1, <2>1 DEF KeyspaceInv, WriteInFlight, Locked, Idle
  <2>3. used' + skew' = TotalSize(data')
    BY Zenon, <1>1, <2>1, <2>2 DEF KeyspaceInv, AccountingExact, accounting
  <2>4. used \in Int /\ used' \in Int /\ skew' \in Int /\ maxMemory \in Int
    BY SMTT(40), <1>1, LimitsAssumption DEF KeyspaceInv, Types, Unset
  <2>5. QED
    BY SMTT(40), <2>1, <2>2, <2>3, <2>4
<1>2. ASSUME KeyspaceInv, RejectWrite
      PROVE  data = saved
  BY Zenon, <1>2, RoomIsFound DEF RejectWrite, KeyspaceInv, WriteInFlight
<1>3. KeyspaceInv /\ KeyspaceInv' =>
        [/\ CommitWrite => TotalSize(data') <= maxMemory + skew'
         /\ RejectWrite => data = saved]_vars
  BY Zenon, <1>1, <1>2
<1>4. QED
  BY <1>3, InitEstablishesInv, NextKeepsInv, PTL DEF Spec, EvictsEnoughOrNothing

\* The reader's reclaim and the expiry loop remove no key that was renewed
\* after they saw it expired (dropIfStillExpired, evictExpiredSample).
THEOREM SweepsOnlyExpired == Spec => OnlyExpiredSwept
<1>1. ASSUME KeyspaceInv, NEW k \in DOMAIN data,
             EvictExpiredSample \/ \E j \in Keys : DropIfStillExpired(j),
             k \notin DOMAIN data'
      PROVE  Expired(data[k], now)
  <2>1. CASE EvictExpiredSample
    <3>1. data' = Without(data, sweep.keys \cap ExpiredKeys(data, sweep.at))
      BY Zenon, <2>1 DEF EvictExpiredSample, DeleteKeys, Change
    <3>2. Expired(data[k], sweep.at)
      BY Zenon, <1>1, <3>1 DEF Without, Restrict, ExpiredKeys
    <3>3. data[k].exp \in Nat /\ sweep.at \in Nat /\ now \in Nat /\ sweep.at <= now
      BY Zenon, <1>1 DEF KeyspaceInv, Types, SweepInThePast, IsMap, Values
    <3>4. QED
      BY SMTT(40), <3>2, <3>3 DEF Expired
  <2>2. ASSUME NEW j \in Keys, DropIfStillExpired(j)
        PROVE  Expired(data[k], now)
    <3>1. data' = Without(data, {j} \cap ExpiredKeys(data, now))
      BY Zenon, <2>2 DEF DropIfStillExpired, DeleteKeys, Change
    <3>2. QED
      BY Zenon, <1>1, <3>1 DEF Without, Restrict, ExpiredKeys
  <2>3. QED
    BY Zenon, <1>1, <2>1, <2>2
<1>2. KeyspaceInv =>
        [\A k \in DOMAIN data :
           (EvictExpiredSample \/ \E j \in Keys : DropIfStillExpired(j))
             /\ k \notin DOMAIN data' => Expired(data[k], now)]_vars
  BY Zenon, <1>1
<1>3. QED
  BY <1>2, InitEstablishesInv, NextKeepsInv, PTL DEF Spec, OnlyExpiredSwept

-----------------------------------------------------------------------------
(* Clients that wait in BLPOP.                                             *)

\* The types of the variables the queue of waiters is about.
WaiterTypes ==
    /\ queue \in Seq(Clients)
    /\ pc \in [Clients -> {"out", "loop", "subscribed", "blocked"} \cup Leaving]
    /\ sending \subseteq Clients /\ signalled \subseteq Clients

\* A client is queued at most once, only while it is in a turn of the loop, and
\* one that looks into the list or waits is queued or about to be told.
WaiterInv ==
    /\ WaiterTypes
    /\ \A i, j \in 1..Len(queue) : queue[i] = queue[j] => i = j
    /\ \A i \in 1..Len(queue) : pc[queue[i]] \notin {"out", "loop"}
    /\ \A c \in Clients : pc[c] \in {"subscribed", "blocked"} =>
          c \in sending \cup signalled \/ \E i \in 1..Len(queue) : queue[i] = c

\* One sequence after another.
LEMMA Joined ==
  ASSUME NEW S, NEW s \in Seq(S), NEW t \in Seq(S)
  PROVE  /\ s \o t \in Seq(S) /\ Len(s \o t) = Len(s) + Len(t)
         /\ \A i \in 1..Len(s) : (s \o t)[i] = s[i]
         /\ \A i \in 1..Len(t) : (s \o t)[Len(s) + i] = t[i]
<1>1. /\ s \o t \in Seq(S) /\ Len(s \o t) = Len(s) + Len(t) /\ Len(s) \in Nat /\ Len(t) \in Nat
      /\ \A i \in 1..Len(s) + Len(t) : (s \o t)[i] = IF i <= Len(s) THEN s[i] ELSE t[i - Len(s)]
  OBVIOUS
<1> QED
  BY <1>1

\* One more element at the end of a sequence.
LEMMA OneMore ==
  ASSUME NEW S, NEW s \in Seq(S), NEW e \in S
  PROVE  /\ Append(s, e) \in Seq(S) /\ Len(s) \in Nat /\ Len(Append(s, e)) = Len(s) + 1
         /\ Append(s, e)[Len(s) + 1] = e
         /\ \A i \in 1..Len(s) : Append(s, e)[i] = s[i]
  OBVIOUS

\* A sequence without its first elements.
LEMMA TheRest ==
  ASSUME NEW S, NEW s \in Seq(S), NEW k \in 0..Len(s)
  PROVE  /\ Len(s) - Len(SubSeq(s, k + 1, Len(s))) = k
         /\ \A i \in DOMAIN SubSeq(s, k + 1, Len(s)) : SubSeq(s, k + 1, Len(s))[i] = s[k + i]
<1> DEFINE r == SubSeq(s, k + 1, Len(s))
<1>1. Len(s) \in Nat /\ Len(r) = Len(s) - k /\ DOMAIN r = 1..Len(r)
  BY SMTT(40)
<1>2. \A i \in 1..Len(s) - k : r[i] = s[k + i]
  BY SMTT(40)
<1> HIDE DEF r
<1>3. Len(s) - Len(r) = k
  BY ONLY SMTT(40), <1>1, k \in 0..Len(s)
<1>4. \A i \in DOMAIN r : r[i] = s[k + i]
  BY ONLY Zenon, <1>1, <1>2
<1> QED
  BY Zenon, <1>3, <1>4 DEF r

\* Taking one element out of a sequence without duplicates.
LEMMA TakenOut ==
  ASSUME NEW S, NEW q \in Seq(S), NEW k \in 1..Len(q),
         \A i, j \in 1..Len(q) : q[i] = q[j] => i = j
  PROVE  LET p == SubSeq(q, 1, k - 1) \o SubSeq(q, k + 1, Len(q))
         IN  /\ p \in Seq(S)
             /\ \A i, j \in 1..Len(p) : p[i] = p[j] => i = j
             /\ \A i \in 1..Len(p) : p[i] # q[k] /\ \E j \in 1..Len(q) : p[i] = q[j]
             /\ \A j \in 1..Len(q) : q[j] # q[k] => \E i \in 1..Len(p) : p[i] = q[j]
<1> DEFINE p == SubSeq(q, 1, k - 1) \o SubSeq(q, k + 1, Len(q))
<1> DEFINE front == SubSeq(q, 1, k - 1)
           rest == SubSeq(q, k + 1, Len(q))
<1>1. /\ front \in Seq(S) /\ Len(front) = k - 1
      /\ \A i \in 1..k - 1 : front[i] = q[i]
  OBVIOUS
<1>2. /\ rest \in Seq(S) /\ Len(rest) = Len(q) - k
      /\ \A i \in 1..Len(q) - k : rest[i] = q[k + i]
  OBVIOUS
<1>3. p = front \o rest
  OBVIOUS
<1> HIDE DEF p, front, rest
<1>4. Len(q) \in Nat
  OBVIOUS
<1>5. /\ p \in Seq(S) /\ Len(p) = Len(front) + Len(rest)
      /\ \A i \in 1..Len(front) : p[i] = front[i]
      /\ \A i \in 1..Len(rest) : p[Len(front) + i] = rest[i]
  <2>1. front \in Seq(S) /\ rest \in Seq(S)
    BY SMTT(40), <1>1, <1>2
  <2> QED
    BY ONLY SMTT(40), <1>3, <2>1, Joined
<1>6. /\ p \in Seq(S) /\ Len(p) = (k - 1) + (Len(q) - k)
      /\ \A i \in 1..k - 1 : p[i] = q[i]
      /\ \A i \in 1..Len(q) - k : p[(k - 1) + i] = q[k + i]
  BY Zenon, <1>1, <1>2, <1>5
<1>7. p \in Seq(S) /\ Len(p) = Len(q) - 1
  BY SMTT(40), <1>6, <1>4
<1>8. \A i \in 1..Len(p) : p[i] = IF i < k THEN q[i] ELSE q[i + 1]
  <2> SUFFICES ASSUME NEW i \in 1..Len(p)
               PROVE  p[i] = IF i < k THEN q[i] ELSE q[i + 1]
    OBVIOUS
  <2>1. CASE i < k
    <3>1. i \in 1..k - 1
      BY ONLY SMTT(40), <1>7, <1>4, <2>1, i \in 1..Len(p), k \in 1..Len(q)
    <3> QED
      BY ZenonT(40), <1>6, <2>1, <3>1
  <2>2. CASE ~(i < k)
    <3>1. /\ i - (k - 1) \in 1..Len(q) - k /\ (k - 1) + (i - (k - 1)) = i
          /\ k + (i - (k - 1)) = i + 1
      BY ONLY SMTT(40), <1>7, <1>4, <2>2, i \in 1..Len(p), k \in 1..Len(q)
    <3> QED
      BY ZenonT(40), <1>6, <2>2, <3>1
  <2> QED
    BY SMTT(40), <2>1, <2>2
<1>9. \A j \in 1..Len(q) : j < k => j \in 1..Len(p) /\ p[j] = q[j]
  BY SMTT(40), <1>7, <1>8
<1>10. \A j \in 1..Len(q) : j > k => j - 1 \in 1..Len(p) /\ p[j - 1] = q[j]
  BY SMTT(40), <1>7, <1>8
<1>11. \A j \in 1..Len(q) : j # k => \E i \in 1..Len(p) : p[i] = q[j]
  BY SMTT(40), <1>9, <1>10
<1>12. \A i, j \in 1..Len(p) : p[i] = p[j] => i = j
  BY SMTT(40), <1>7, <1>8
<1>13. \A i \in 1..Len(p) : p[i] # q[k] /\ \E j \in 1..Len(q) : p[i] = q[j]
  BY SMTT(40), <1>7, <1>8
<1> QED
  BY Zenon, <1>7, <1>11, <1>12, <1>13 DEF p

\* Taking the first element off a sequence.
LEMMA FirstOut ==
  ASSUME NEW S, NEW q \in Seq(S), q # <<>>
  PROVE  /\ Tail(q) \in Seq(S) /\ Len(Tail(q)) = Len(q) - 1 /\ Len(q) \in Nat \ {0}
         /\ \A i \in 1..Len(Tail(q)) : Tail(q)[i] = q[i + 1]
         /\ Head(q) = q[1] /\ q[1] \in S
  OBVIOUS

\* What unsubscribe leaves of the order: everyone but the client.
LEMMA OrderWithout ==
  ASSUME NEW c \in Clients, WaiterInv, RemoveFromOrder(c)
  PROVE  /\ queue' \in Seq(Clients)
         /\ \A i, j \in 1..Len(queue') : queue'[i] = queue'[j] => i = j
         /\ \A i \in 1..Len(queue') :
               queue'[i] # c /\ \E j \in 1..Len(queue) : queue'[i] = queue[j]
         /\ \A j \in 1..Len(queue) :
               queue[j] # c => \E i \in 1..Len(queue') : queue'[i] = queue[j]
<1>1. /\ queue \in Seq(Clients) /\ DOMAIN queue = 1..Len(queue)
      /\ \A i, j \in 1..Len(queue) : queue[i] = queue[j] => i = j
  BY DEF WaiterInv, WaiterTypes
<1>2. CASE c \notin Range(queue)
  <2>1. queue' = queue
    BY Zenon, <1>2 DEF RemoveFromOrder
  <2>2. \A i \in 1..Len(queue) : queue[i] # c
    BY Zenon, <1>1, <1>2 DEF Range
  <2> QED
    BY ONLY <1>1, <2>1, <2>2
<1>3. CASE c \in Range(queue)
  <2>1. PICK k \in 1..Len(queue) :
          /\ queue[k] = c
          /\ queue' = SubSeq(queue, 1, k - 1) \o SubSeq(queue, k + 1, Len(queue))
    BY Zenon, <1>1, <1>3 DEF RemoveFromOrder
  <2> DEFINE p == SubSeq(queue, 1, k - 1) \o SubSeq(queue, k + 1, Len(queue))
  <2>2. /\ p \in Seq(Clients)
        /\ \A i, j \in 1..Len(p) : p[i] = p[j] => i = j
        /\ \A i \in 1..Len(p) : p[i] # queue[k] /\ \E j \in 1..Len(queue) : p[i] = queue[j]
        /\ \A j \in 1..Len(queue) : queue[j] # queue[k] => \E i \in 1..Len(p) : p[i] = queue[j]
    BY ONLY ZenonT(40), <1>1, k \in 1..Len(queue), TakenOut
  <2>3. queue' = p /\ queue[k] = c
    BY Zenon, <2>1
  <2> HIDE DEF p
  <2> QED
    BY ONLY <2>2, <2>3
<1> QED
  BY Zenon, <1>2, <1>3

\* At first nobody waits.
LEMMA InitWaiters == WaitersInit => WaiterInv
  BY DEF WaitersInit, WaiterInv, WaiterTypes

\* Every step keeps the queue exact.
LEMMA StepKeepsWaiters == WaiterInv /\ [WaitersNext]_waitersVars => WaiterInv'
<1> SUFFICES ASSUME WaiterInv, [WaitersNext]_waitersVars PROVE WaiterInv'
  BY Zenon
<1> USE DEF waitVars, Leaving
<1>1. ASSUME NEW c \in Clients, Call(c) \/ LeftPop(c) \/ Receive(c) \/ Cancel(c) PROVE WaiterInv'
  BY SMTT(40), <1>1 DEF Call, LeftPop, Receive, Cancel, WaiterInv, WaiterTypes
<1>2. ASSUME NEW c \in Clients, Subscribe(c) PROVE WaiterInv'
  <2>1. /\ queue' \in Seq(Clients) /\ Len(queue') = Len(queue) + 1 /\ Len(queue) \in Nat
        /\ queue'[Len(queue) + 1] = c
        /\ \A i \in 1..Len(queue) : queue'[i] = queue[i]
    BY SMTT(40), <1>2 DEF Subscribe, WaiterInv, WaiterTypes
  <2>2. \A i \in 1..Len(queue') : i \in 1..Len(queue) \/ i = Len(queue) + 1
    BY SMTT(40), <2>1
  <2>3. \A i \in 1..Len(queue) : queue[i] # c /\ queue[i] \in Clients
    BY SMTT(40), <1>2 DEF Subscribe, WaiterInv, WaiterTypes
  <2>4. \A i \in 1..Len(queue) : i \in 1..Len(queue')
    BY SMTT(40), <2>1
  <2>5. Len(queue) + 1 \in 1..Len(queue')
    BY <2>1
  <2> QED
    BY SMTT(40), <1>2, <2>1, <2>2, <2>3, <2>4, <2>5 DEF Subscribe, WaiterInv, WaiterTypes
<1>3. ASSUME NEW c \in Clients, Unsubscribe(c) PROVE WaiterInv'
  <2>1. RemoveFromOrder(c)
    BY Zenon, <1>3 DEF Unsubscribe
  <2>2. WaiterTypes'
    BY Zenon, <1>3, <2>1, OrderWithout DEF Unsubscribe, WaiterInv, WaiterTypes
  <2>3. \A i \in 1..Len(queue') : pc'[queue'[i]] \notin {"out", "loop"}
    <3> SUFFICES ASSUME NEW i \in 1..Len(queue') PROVE pc'[queue'[i]] \notin {"out", "loop"}
      BY Zenon
    <3>1. PICK j \in 1..Len(queue) : queue'[i] = queue[j] /\ queue'[i] # c
      BY Zenon, <2>1, OrderWithout
    <3>2. queue[j] \in Clients
      BY SMTT(40), <3>1 DEF WaiterInv, WaiterTypes
    <3> QED
      BY Zenon, <1>3, <3>1, <3>2 DEF Unsubscribe, WaiterInv, WaiterTypes
  <2>4. ASSUME NEW d \in Clients, pc'[d] \in {"subscribed", "blocked"}
        PROVE  d \in sending' \cup signalled' \/ \E i \in 1..Len(queue') : queue'[i] = d
    <3>1. d # c /\ pc[d] \in {"subscribed", "blocked"}
      BY Zenon, <1>3, <2>4 DEF Unsubscribe, WaiterInv, WaiterTypes
    <3> QED
      BY SMTT(40), <1>3, <3>1, <2>1, OrderWithout DEF Unsubscribe, WaiterInv
  <2> QED
    BY ZenonT(40), <2>1, <2>2, <2>3, <2>4, OrderWithout DEF WaiterInv
<1>4. ASSUME NotifyOne PROVE WaiterInv'
  <2>1. CASE queue = <<>>
    BY SMTT(40), <1>4, <2>1 DEF NotifyOne, WaiterInv, WaiterTypes
  <2>2. CASE queue # <<>>
    <3>1. queue \in Seq(Clients) /\ queue' = Tail(queue) /\ sending' = sending \cup {Head(queue)}
      BY Zenon, <1>4, <2>2 DEF NotifyOne, WaiterInv, WaiterTypes
    <3>2. /\ queue' \in Seq(Clients) /\ Len(queue') = Len(queue) - 1 /\ Len(queue) \in Nat \ {0}
          /\ \A i \in 1..Len(queue') : queue'[i] = queue[i + 1]
          /\ sending' = sending \cup {queue[1]} /\ queue[1] \in Clients
      BY ONLY ZenonT(40), <3>1, <2>2, FirstOut
    <3>3. /\ \A i \in 1..Len(queue') : i + 1 \in 1..Len(queue)
          /\ \A i, j \in 1..Len(queue') : i + 1 = j + 1 => i = j
          /\ \A i \in 1..Len(queue) : i = 1 \/ (i - 1 \in 1..Len(queue') /\ queue'[i - 1] = queue[i])
      BY ONLY <3>2
    <3>4. WaiterTypes'
      BY Zenon, <1>4, <3>2 DEF NotifyOne, WaiterInv, WaiterTypes
    <3>5. \A i, j \in 1..Len(queue') : queue'[i] = queue'[j] => i = j
      BY SMTT(40), <3>2, <3>3 DEF WaiterInv
    <3>6. \A i \in 1..Len(queue') : pc'[queue'[i]] \notin {"out", "loop"}
      BY SMTT(40), <1>4, <3>2, <3>3 DEF NotifyOne, WaiterInv
    <3>7. ASSUME NEW c \in Clients, pc'[c] \in {"subscribed", "blocked"}
          PROVE  c \in sending' \cup signalled' \/ \E i \in 1..Len(queue') : queue'[i] = c
      <4>1. pc' = pc /\ signalled' = signalled
        BY Zenon, <1>4 DEF NotifyOne
      <4>2. c \in sending \cup signalled \/ \E i \in 1..Len(queue) : queue[i] = c
        BY Zenon, <4>1, <3>7 DEF WaiterInv
      <4> QED
        BY ZenonT(40), <4>1, <4>2, <3>2, <3>3
    <3> QED
      BY ZenonT(40), <3>4, <3>5, <3>6, <3>7 DEF WaiterInv
  <2> QED
    BY Zenon, <2>1, <2>2
<1>5. ASSUME NEW c \in Clients, Send(c) PROVE WaiterInv'
  BY Zenon, <1>5 DEF Send, WaiterInv, WaiterTypes
<1>6. CASE \/ \E n \in PushSizes : Push(n)
           \/ \E n \in 1..len : PopList(n)
           \/ \E k \in {"list", "string"} : Replace(k)
           \/ Stop \/ UNCHANGED waitersVars
  BY Zenon, <1>6 DEF Push, PopList, Replace, Stop, waitersVars, WaiterInv, WaiterTypes
<1> QED
  BY Zenon, <1>1, <1>2, <1>3, <1>4, <1>5, <1>6 DEF WaitersNext, ClientStep

\* The queue of waiters is exact whatever pushes, pops, wake-ups and shutdowns
\* interleave: nobody is queued twice or after leaving, and nobody waits who is
\* neither queued nor about to be told (subscribe, unsubscribe and notifyOne of
\* list_waiters.go under handleBLPop).
THEOREM QueueIsExact == WaitersSpec => []NoDeadWaiter
<1>1. WaiterInv => NoDeadWaiter
  <2> SUFFICES ASSUME WaiterInv PROVE NoDeadWaiter
    BY Zenon
  <2>1. \A i \in 1..Len(queue) : queue[i] \in Range(queue)
    BY DEF WaiterInv, WaiterTypes, Range
  <2> QED
    BY <2>1 DEF WaiterInv, NoDeadWaiter
<1> QED
  BY InitWaiters, StepKeepsWaiters, <1>1, PTL DEF WaitersSpec
=============================================================================
