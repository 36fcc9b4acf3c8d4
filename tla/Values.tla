------------------------------- MODULE Values -------------------------------
(***************************************************************************)
(* The value of one key that holds a set, a hash or a sorted set, in the   *)
(* encodings the storage layer gives it (internal/storage/                 *)
(* collection_value.go): a sorted slice of integers or a Go map for a set  *)
(* (intset.go), entries over one byte arena or a map for a hash            *)
(* (compact_hash.go), a sorted slice or a skip list for a sorted set       *)
(* (compact_zset.go, zset.go).  A value starts small, changes encoding     *)
(* when it outgrows the small one, and goes away when it is empty.         *)
(*                                                                         *)
(* A set's member is a text; IntOf says which texts strconv.ParseInt       *)
(* accepts and TextOf how FormatInt writes the number again.  A hash's     *)
(* fields and values are sequences of bytes, a sorted set's members are    *)
(* the numbers of module SkipList.                                         *)
(***************************************************************************)
EXTENDS SkipList, FiniteSets, SequencesExt, FiniteSetsExt

CONSTANTS
    IntOf, TextOf,       \* strconv.ParseInt and FormatInt on the texts used
    IntSetMax,           \* intSetMaxEntries
    HashMax, HashMaxLen, \* compactHashMaxEntries, compactHashMaxStringSize
    ZSetMax,             \* compactZSetMaxEntries
    LongMembers,         \* the members longer than compactZSetMaxMemberLen
    Puts, Takes          \* the writes and removals of each kind

ASSUME FormatAssumption ==
    \A t \in DOMAIN IntOf : IntOf[TextOf[IntOf[t]]] = IntOf[t]

Kinds == {"set", "hash", "zset"}

VARIABLES
    kind,    \* what the key holds
    val,     \* the ValueObject, or Absent
    answer   \* the reply of the last operation

valueVars == <<kind, val, answer>>

Absent == [enc |-> "absent"]

ValuesInit == kind \in Kinds /\ val = Absent /\ answer = 0

Firsts(ps) == [i \in DOMAIN ps |-> ps[i][1]]

\* A Go map after the pairs were assigned in order.
Assigned(f, ps) ==
    FoldLeft(LAMBDA g, p : [e \in DOMAIN g \cup {p[1]} |->
                               IF e = p[1] THEN p[2] ELSE g[e]], f, ps)

-----------------------------------------------------------------------------
(* Sets.                                                                   *)

\* Mutant of Canonical: any text that parses is kept as a number.
CanonicalIfParsed(t) == t \in DOMAIN IntOf

\* parseIntSetMember: the number's own text must be the member.
Canonical(t) == t \in DOMAIN IntOf /\ (t \in DOMAIN IntOf => TextOf[IntOf[t]] = t)

\* slices.Sort and compactUniqueInts.
SortedInts(ms) == SetToSortSeq({IntOf[ms[i]] : i \in DOMAIN ms}, <)

\* The merge of addMany, with the count of added numbers.
RECURSIVE Merge(_, _)
Merge(xs, ys) ==
    IF xs = <<>> THEN [seq |-> ys, added |-> Len(ys)]
    ELSE IF ys = <<>> THEN [seq |-> xs, added |-> 0]
    ELSE LET x == Head(xs)
             y == Head(ys)
             rest == Merge(IF x <= y THEN Tail(xs) ELSE xs,
                           IF y <= x THEN Tail(ys) ELSE ys)
         IN  [seq |-> <<IF x <= y THEN x ELSE y>> \o rest.seq,
              added |-> rest.added + IF y < x THEN 1 ELSE 0]

AllCanonical(ms) == \A i \in DOMAIN ms : Canonical(ms[i])
GeneralSet(ints) == {TextOf[ints[i]] : i \in DOMAIN ints}
Ints(xs) == [enc |-> "ints", ints |-> xs]
Texts(ms) == [enc |-> "general", set |-> ms]

\* newSetValueForMembers.
NewSet(ms) ==
    IF AllCanonical(ms) /\ (AllCanonical(ms) => Len(SortedInts(ms)) <= IntSetMax)
    THEN Ints(SortedInts(ms))
    ELSE Texts(Range(ms))

\* setAdd: the new value and the number of added members.
SetAdd(v, ms) ==
    LET merged == Merge(v.ints, SortedInts(ms))
        members == IF v.enc = "ints" THEN GeneralSet(v.ints) ELSE v.set
    IN  IF v.enc = "ints" /\ AllCanonical(ms)
        THEN [val |-> IF Len(merged.seq) > IntSetMax
                      THEN Texts(GeneralSet(merged.seq)) ELSE Ints(merged.seq),
              n |-> merged.added]
        ELSE [val |-> Texts(members \cup Range(ms)),
              n |-> Cardinality(Range(ms) \ members)]

SetContains(v, t) ==
    IF v.enc = "ints"
    THEN Canonical(t) /\ \E i \in DOMAIN v.ints : v.ints[i] = IntOf[t]
    ELSE t \in v.set

SetMembers(v) == IF v.enc = "ints" THEN GeneralSet(v.ints) ELSE v.set

\* setRemove takes the members out one by one.
SetRemove(v, ms) ==
    LET out == {ms[i] : i \in {j \in DOMAIN ms : SetContains(v, ms[j])}}
    IN  [val |-> IF v.enc = "ints"
                 THEN Ints(SelectSeq(v.ints, LAMBDA x : TextOf[x] \notin out))
                 ELSE Texts(v.set \ out),
         n |-> Cardinality(out)]

-----------------------------------------------------------------------------
(* Hashes.                                                                 *)

Bytes(h, start, len) == SubSeq(h.arena, start + 1, start + len)
Field(h, e) == Bytes(h, e.fieldStart, e.fieldLen)
Value(h, e) == Bytes(h, e.valueStart, e.valueLen)

NoEntries == [enc |-> "compact", entries |-> <<>>, arena |-> <<>>]

\* The entry of a field, 0 if there is none.
EntryOf(h, f) ==
    LET hits == {i \in DOMAIN h.entries : Field(h, h.entries[i]) = f}
    IN  IF hits = {} THEN 0 ELSE CHOOSE i \in hits : \A j \in hits : i <= j

AppendEntry(h, p) ==
    [h EXCEPT !.arena = @ \o p[1] \o p[2],
              !.entries = Append(@, [fieldStart |-> Len(h.arena),
                                     fieldLen |-> Len(p[1]),
                                     valueStart |-> Len(h.arena) + Len(p[1]),
                                     valueLen |-> Len(p[2])])]

\* CompactHash.all.
Pairs(h) == [i \in DOMAIN h.entries |->
                <<Field(h, h.entries[i]), Value(h, h.entries[i])>>]

\* rebuild: the replacements first, then every entry but one, in a new arena.
Rebuild(h, skip, ps) ==
    FoldLeft(AppendEntry, NoEntries, ps \o RemoveAt(Pairs(h), skip))

\* The new value is no longer than the one in the arena.
Overwrites(h, i, v) == Len(v) <= h.entries[i].valueLen

\* Mutant of CopyValue: the entry keeps its length.
CopyValueKeepsLength(h, i, v) ==
    LET at == h.entries[i].valueStart
    IN  [h EXCEPT !.arena = [j \in 1..Len(h.arena) |->
                                IF j > at /\ j <= at + Len(v) THEN v[j - at]
                                ELSE h.arena[j]]]

\* copy into the arena at the entry's value; the entry's length becomes v's.
CopyValue(h, i, v) ==
    LET at == h.entries[i].valueStart
    IN  [h EXCEPT !.arena = [j \in 1..Len(h.arena) |->
                                IF j > at /\ j <= at + Len(v) THEN v[j - at]
                                ELSE h.arena[j]],
                  !.entries[i].valueLen = Len(v)]

\* CompactHash.set.
CompactSet(h, p) ==
    LET i == EntryOf(h, p[1])
    IN  IF i = 0 THEN AppendEntry(h, p)
        ELSE IF Overwrites(h, i, p[2]) THEN CopyValue(h, i, p[2])
        ELSE Rebuild(h, i, <<p>>)

\* CompactHash.del.
CompactDel(h, f) ==
    IF EntryOf(h, f) = 0 THEN h ELSE Rebuild(h, EntryOf(h, f), <<>>)

Short(p) == Len(p[1]) <= HashMaxLen /\ Len(p[2]) <= HashMaxLen

Fields(h) == Range(Firsts(Pairs(h)))

\* compactHashCanSet.
CompactHashCanSet(h, ps) ==
    /\ \A i \in DOMAIN ps : Short(ps[i])
    /\ Cardinality(Fields(h) \cup Range(Firsts(ps))) <= HashMax

Mapped(f) == [enc |-> "general", map |-> f]

\* newHashValueForPairs; a Go map is walked in any order.
NewHashes(ps) ==
    LET map == Assigned(<<>>, ps)
        small == /\ \A i \in DOMAIN ps : Short(ps[i])
                 /\ Cardinality(DOMAIN map) <= HashMax
    IN  IF ~small THEN {Mapped(map)}
        ELSE {FoldLeft(CompactSet, NoEntries, [i \in DOMAIN fs |-> <<fs[i], map[fs[i]]>>]) :
                 fs \in SetToSeqs(DOMAIN map)}

HashMap(v) == IF v.enc = "compact" THEN Assigned(<<>>, Pairs(v)) ELSE v.map

\* hashSet, with upgradeCompactHash when the small encoding cannot take it.
HashSet(v, ps) ==
    [val |-> IF v.enc = "compact" /\ CompactHashCanSet(v, ps)
             THEN FoldLeft(CompactSet, v, ps)
             ELSE Mapped(Assigned(HashMap(v), ps)),
     n |-> Cardinality(Range(Firsts(ps)) \ DOMAIN HashMap(v))]

HashDel(v, fs) ==
    [val |-> IF v.enc = "compact" THEN FoldLeft(CompactDel, v, fs)
             ELSE Mapped([f \in DOMAIN v.map \ Range(fs) |-> v.map[f]]),
     n |-> Cardinality(Range(fs) \cap DOMAIN HashMap(v))]

HashGet(v, f) ==
    IF v.enc = "general" THEN v.map[f] ELSE Value(v, v.entries[EntryOf(v, f)])
-----------------------------------------------------------------------------
(* Sorted sets.  A small one is the sequence of its (member, score) pairs. *)

EntryLess(p, q) == Less(p[2], p[1], q[2], q[1])

\* CompactZSet.sort.
SortEntries(es) == SortSeq(es, EntryLess)

\* CompactZSet.add.
CompactAdd(es, p) ==
    SortEntries(Append(SelectSeq(es, LAMBDA q : q[1] # p[1]), p))

CompactZ(es) == [enc |-> "compact", list |-> es]
Skip(l) == [enc |-> "skip", list |-> l]

Scores(v) == IF v.enc = "compact" THEN Assigned(<<>>, v.list) ELSE v.list.index

\* compactZSetCanAdd.
CompactZSetCanAdd(v, ps) ==
    /\ Range(Firsts(ps)) \cap LongMembers = {}
    /\ Cardinality(DOMAIN Scores(v) \cup Range(Firsts(ps))) <= ZSetMax

\* The lists that inserting every member of a score map may build: newSortedSet-
\* FromMap, compactZSetGeneralSet and cloneSortedSet, with a random level each.
SkipListsOf(score) ==
    {InsertAll(EmptyList, SetToSeq(DOMAIN score), score, lv) :
        lv \in [DOMAIN score -> 1..MaxLevel]}

\* zsetAddGeneral.
AddGeneral(l, ps, lv) ==
    FoldLeft(LAMBDA acc, i : SkipAdd(acc, ps[i][1], ps[i][2], lv[i]),
             l, [i \in DOMAIN ps |-> i])

\* newZSetValueForEntries.
NewZSets(ps) ==
    LET score == Assigned(<<>>, ps)
        small == /\ DOMAIN score \cap LongMembers = {}
                 /\ Cardinality(DOMAIN score) <= ZSetMax
    IN  IF small THEN {CompactZ(FoldLeft(CompactAdd, <<>>, ps))}
        ELSE {Skip(l) : l \in SkipListsOf(score)}

\* The values zsetAdd may leave; with maxmemory set it works on a clone.
ZSetAdds(v, ps) ==
    IF v.enc = "compact" /\ CompactZSetCanAdd(v, ps)
    THEN {CompactZ(FoldLeft(CompactAdd, v.list, ps))}
    ELSE LET from == SkipListsOf(Scores(v)) \cup
                     (IF v.enc = "skip" THEN {v.list} ELSE {})
         IN  {Skip(AddGeneral(l, ps, lv)) :
                 l \in from, lv \in [DOMAIN ps -> 1..MaxLevel]}

RankRange(v, start, stop) ==
    IF v.enc = "skip" THEN RangeByRank(v.list, start, stop)
    ELSE LET n == Len(v.list)
             last == IF stop >= n THEN n - 1 ELSE stop
         IN  IF start < 0 \/ stop < start \/ start >= n THEN <<>>
             ELSE Firsts(SubSeq(v.list, start + 1, last + 1))

ScoreRange(v, r) ==
    IF v.enc = "skip" THEN RangeByScore(v.list, r)
    ELSE LET above == {i \in DOMAIN v.list : AboveMax(r, v.list[i][2])}
             end == IF above = {} THEN Len(v.list) ELSE Min(above) - 1
         IN  Firsts(SelectSeq(SubSeq(v.list, 1, end),
                              LAMBDA p : ~BelowMin(r, p[2])))

-----------------------------------------------------------------------------
(* What the value holds, and the operations.                               *)

\* The element-to-value function of a value.
Content(v) ==
    IF v = Absent THEN <<>>
    ELSE CASE kind = "set" -> [m \in SetMembers(v) |-> "member"]
           [] kind = "hash" -> HashMap(v)
           [] kind = "zset" -> Scores(v)

Size(v) ==
    CASE v = Absent -> 0
      [] kind = "set" -> IF v.enc = "ints" THEN Len(v.ints) ELSE Cardinality(v.set)
      [] kind = "hash" -> IF v.enc = "compact" THEN Len(v.entries)
                          ELSE Cardinality(DOMAIN v.map)
      [] kind = "zset" -> IF v.enc = "compact" THEN Len(v.list) ELSE v.list.length

\* The store drops a key whose collection is empty.
Kept(v) == IF Size(v) = 0 THEN Absent ELSE v

SAdd ==
    /\ kind = "set"
    /\ \E ps \in Puts["set"] :
          LET ms == Firsts(ps)
              done == IF val = Absent
                      THEN [val |-> NewSet(ms), n |-> Size(NewSet(ms))]
                      ELSE SetAdd(val, ms)
          IN  val' = done.val /\ answer' = done.n
    /\ UNCHANGED kind

SRem ==
    /\ kind = "set"
    /\ \E ms \in Takes["set"] :
          LET done == IF val = Absent THEN [val |-> Absent, n |-> 0]
                      ELSE SetRemove(val, ms)
          IN  val' = Kept(done.val) /\ answer' = done.n
    /\ UNCHANGED kind

HSet ==
    /\ kind = "hash"
    /\ \E ps \in Puts["hash"] :
          IF val = Absent
          THEN \E v \in NewHashes(ps) : val' = v /\ answer' = Size(v)
          ELSE val' = HashSet(val, ps).val /\ answer' = HashSet(val, ps).n
    /\ UNCHANGED kind

HDel ==
    /\ kind = "hash"
    /\ \E fs \in Takes["hash"] :
          LET done == IF val = Absent THEN [val |-> Absent, n |-> 0]
                      ELSE HashDel(val, fs)
          IN  val' = Kept(done.val) /\ answer' = done.n
    /\ UNCHANGED kind

ZAdd ==
    /\ kind = "zset"
    /\ \E ps \in Puts["zset"] :
          /\ val' \in IF val = Absent THEN NewZSets(ps) ELSE ZSetAdds(val, ps)
          /\ answer' = IF val = Absent THEN Size(val')
                       ELSE Cardinality(Range(Firsts(ps)) \ DOMAIN Scores(val))
    /\ UNCHANGED kind

ValuesNext == SAdd \/ SRem \/ HSet \/ HDel \/ ZAdd

ValuesSpec == ValuesInit /\ [][ValuesNext]_valueVars
-----------------------------------------------------------------------------
(* Properties.                                                             *)

Collected == INSTANCE Collection WITH content <- Content(val)

\* Whatever encodings a value goes through, it behaves as the function of its
\* elements: no member, field or score is lost, invented or mixed up by an
\* in-place overwrite, a rebuild, a merge or an upgrade, and every reply counts
\* the new or the removed elements (setAdd, setRemove, hashSet, hashDel,
\* zsetAdd of collection_value.go).
IsCollection == Collected!CollectionSpec

\* The members in the order of zsetLess.
Ordered(score) ==
    SetToSortSeq(DOMAIN score, LAMBDA m, n : Less(score[m], m, score[n], n))

ScoreRanges(score) ==
    LET edges == {score[m] : m \in DOMAIN score} \cup {0}
    IN  [min : edges, max : edges, minExclusive : BOOLEAN, maxExclusive : BOOLEAN]

\* Each read of a value agrees with what the value holds, in either encoding:
\* SISMEMBER and SCARD with the members, HGET and HLEN with the entries, and
\* the rank and score ranges of a sorted set with its members in order.
ReadsAgree ==
    val # Absent =>
    /\ Size(val) = Cardinality(DOMAIN Content(val))
    /\ kind = "set" =>
          \A ps \in Puts["set"] : \A t \in Range(Firsts(ps)) :
              SetContains(val, t) <=> t \in SetMembers(val)
    /\ kind = "hash" =>
          \A f \in DOMAIN HashMap(val) : HashGet(val, f) = HashMap(val)[f]
    /\ kind = "zset" =>
          LET order == Ordered(Scores(val))
              n == Len(order)
          IN  /\ \A start, stop \in -1..n + 1 :
                    RankRange(val, start, stop) =
                    IF start < 0 THEN <<>>
                    ELSE SubSeq(order, start + 1, IF stop < n THEN stop + 1 ELSE n)
              /\ \A r \in ScoreRanges(Scores(val)) :
                    ScoreRange(val, r) =
                    SelectSeq(order, LAMBDA m :
                        ~BelowMin(r, Scores(val)[m]) /\ ~AboveMax(r, Scores(val)[m]))

\* The links of a skip list after any inserts, moves and clones: every level is
\* a subsequence of the ordered members, each span is the distance it covers,
\* the backward pointers and the tail mirror the bottom level, and the level
\* of the list is that of its tallest node (insert and deleteNode of zset.go).
SkipListSound ==
    kind = "zset" /\ val.enc = "skip" =>
    LET l == val.list
        order == Ordered(l.index)
        rank == [n \in Nodes |-> IF n = Root THEN 0
                                 ELSE IF n \in DOMAIN l.index
                                 THEN CHOOSE i \in DOMAIN order : order[i] = n
                                 ELSE -1]
        linked(i) == {n \in DOMAIN l.index :
                        \E p \in {Root} \cup DOMAIN l.index : l.fwd[i][p] = n}
    IN  /\ Chain(l, l.fwd[0][Root]) = order
        /\ \A i \in 0..l.level - 1 : \A p \in {Root} \cup linked(i) :
              IF l.fwd[i][p] = Nil
              THEN \A n \in linked(i) : rank[n] <= rank[p]
              ELSE /\ rank[l.fwd[i][p]] = rank[p] + l.span[i][p]
                   /\ rank[l.fwd[i][p]] > rank[p]
        /\ \A i \in 1..l.level - 1 : linked(i) \subseteq linked(i - 1)
        /\ \A i \in DOMAIN order : l.back[order[i]] = IF i = 1 THEN Nil ELSE order[i - 1]
        /\ order # <<>> => l.tail = order[Len(order)]
        /\ \A i \in Levels : linked(i) # {} => i < l.level
        /\ l.level > 1 => linked(l.level - 1) # {}
=============================================================================
