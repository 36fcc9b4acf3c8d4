------------------------------ MODULE SkipList ------------------------------
(***************************************************************************)
(* The skip list behind a large sorted set (internal/storage/zset.go), as  *)
(* operators on a record: fwd and span give, for each level, the forward   *)
(* pointer and the span of each node, back the backward pointers, tail,    *)
(* level and length the fields of the same names, index the score of each  *)
(* member.  A node is its member; Root is the header.                      *)
(***************************************************************************)
EXTENDS Integers, Sequences

CONSTANTS
    Members,    \* the members, numbers in the order of their bytes
    MaxLevel    \* zsetMaxLevel

Root == 0
Nil == -1
Levels == 0..MaxLevel - 1
Nodes == Members \cup {Root}

ASSUME MembersAssumption == Members \subseteq Nat \ {0}
ASSUME MaxLevelAssumption == MaxLevel \in Nat \ {0}

EmptyList ==
    [fwd |-> [i \in Levels |-> [n \in Nodes |-> Nil]],
     span |-> [i \in Levels |-> [n \in Nodes |-> 0]],
     back |-> [n \in Nodes |-> Nil],
     tail |-> Nil, level |-> 1, length |-> 0, index |-> <<>>]

\* zsetLess on (score, member).
Less(s, m, t, n) == s < t \/ (s = t /\ m < n)

\* What a search looks for: the place of an entry, a rank, or the first score
\* of a range; and whether node n, of rank r, comes before it.
ByEntry(s, m) == [by |-> "entry", score |-> s, member |-> m]
ByRank(k) == [by |-> "rank", rank |-> k]
ByScore(range) == [by |-> "score", range |-> range]

\* ScoreRange: bounds with flags that exclude them.
BelowMin(r, s) == s < r.min \/ (r.minExclusive /\ s = r.min)
AboveMax(r, s) == s > r.max \/ (r.maxExclusive /\ s = r.max)

Before(l, q, n, r) ==
    CASE q.by = "entry" -> Less(l.index[n], n, q.score, q.member)
      [] q.by = "rank" -> r <= q.rank
      [] q.by = "score" -> BelowMin(q.range, l.index[n])

\* One level of a search: forward while the next node comes before.  A position
\* is a node and its rank.
RECURSIVE Forward(_, _, _, _)
Forward(l, q, i, at) ==
    LET next == l.fwd[i][at.node]
        rank == at.rank + l.span[i][at.node]
    IN  IF next # Nil /\ Before(l, q, next, rank)
        THEN Forward(l, q, i, [node |-> next, rank |-> rank])
        ELSE at

\* The positions where a search leaves each level, from level i down.
RECURSIVE Descend(_, _, _, _)
Descend(l, q, i, at) ==
    IF i < 0 THEN <<>>
    ELSE LET stop == Forward(l, q, i, at)
         IN  Append(Descend(l, q, i - 1, stop), stop)

Path(l, q) ==
    LET found == Descend(l, q, l.level - 1, [node |-> Root, rank |-> 0])
    IN  [i \in 0..l.level - 1 |-> found[i + 1]]

\* The span of a pointer that passes over a new node.
Widened(span) == span + 1

\* zsetSkipList.insert, with the level of the new node drawn by the caller.
SkipInsert(l, s, m, lvl) ==
    LET path == Path(l, ByEntry(s, m))
        update == [i \in Levels |-> IF i < l.level THEN path[i].node ELSE Root]
        rank == [i \in Levels |-> IF i < l.level THEN path[i].rank ELSE 0]
        skipped == [i \in Levels |-> rank[0] - rank[i]]
        old == [i \in Levels |-> IF i < l.level THEN l.span[i][update[i]]
                                 ELSE l.length]
        next == l.fwd[0][update[0]]
    IN  [fwd |-> [i \in Levels |->
                     IF i >= lvl THEN l.fwd[i]
                     ELSE [l.fwd[i] EXCEPT ![m] = l.fwd[i][update[i]],
                                           ![update[i]] = m]],
         span |-> [i \in Levels |->
                     IF i < lvl
                     THEN [l.span[i] EXCEPT ![m] = old[i] - skipped[i],
                                            ![update[i]] = skipped[i] + 1]
                     ELSE IF i < l.level
                     THEN [l.span[i] EXCEPT ![update[i]] = Widened(@)]
                     ELSE l.span[i]],
         back |-> [n \in Nodes |->
                     IF n = m THEN IF update[0] = Root THEN Nil ELSE update[0]
                     ELSE IF n = next THEN m ELSE l.back[n]],
         tail |-> IF next = Nil THEN m ELSE l.tail,
         level |-> IF lvl > l.level THEN lvl ELSE l.level,
         length |-> l.length + 1, index |-> l.index]

\* Mutant of Lower: the list keeps its level.
LowerNever(fwd, lvl) == lvl

\* The end of deleteNode: empty levels at the top go.
RECURSIVE Lower(_, _)
Lower(fwd, lvl) ==
    IF lvl > 1 /\ fwd[lvl - 1][Root] = Nil THEN Lower(fwd, lvl - 1) ELSE lvl

\* zsetSkipList.delete and deleteNode.  A node that left the list keeps no
\* pointers here; in the code it is garbage.
SkipDelete(l, s, m) ==
    LET path == Path(l, ByEntry(s, m))
        next == l.fwd[0][m]
        fwd == [i \in Levels |->
                  IF i < l.level /\ l.fwd[i][path[i].node] = m
                  THEN [l.fwd[i] EXCEPT ![path[i].node] = l.fwd[i][m], ![m] = Nil]
                  ELSE l.fwd[i]]
        span == [i \in Levels |->
                  IF i >= l.level THEN l.span[i]
                  ELSE IF l.fwd[i][path[i].node] = m
                  THEN [l.span[i] EXCEPT ![path[i].node] = @ + l.span[i][m] - 1,
                                         ![m] = 0]
                  ELSE [l.span[i] EXCEPT ![path[i].node] = @ - 1]]
    IN  IF l.fwd[0][path[0].node] # m THEN l
        ELSE [fwd |-> fwd, span |-> span,
              back |-> [n \in Nodes |-> IF n = m THEN Nil
                                        ELSE IF n = next THEN l.back[m]
                                        ELSE l.back[n]],
              tail |-> IF next = Nil THEN l.back[m] ELSE l.tail,
              level |-> Lower(fwd, l.level),
              length |-> l.length - 1, index |-> l.index]

\* SortedSet.add: a changed score moves the member.
SkipAdd(l, m, s, lvl) ==
    LET known == m \in DOMAIN l.index
        rest == IF known THEN SkipDelete(l, l.index[m], m) ELSE l
        inserted == SkipInsert(rest, s, m, lvl)
    IN  IF known /\ l.index[m] = s THEN l
        ELSE [inserted EXCEPT !.index =
                 [n \in DOMAIN l.index \cup {m} |->
                     IF n = m THEN s ELSE l.index[n]]]

\* The bottom level from node n on.
RECURSIVE Chain(_, _)
Chain(l, n) == IF n = Nil THEN <<>> ELSE <<n>> \o Chain(l, l.fwd[0][n])

\* getByRank: the first level at which the search lands on the rank.
GetByRank(l, rank) ==
    LET path == Path(l, ByRank(rank))
        hits == {i \in DOMAIN path : path[i].rank = rank}
    IN  IF rank <= 0 \/ rank > l.length \/ hits = {} THEN Nil
        ELSE path[CHOOSE i \in hits : \A j \in hits : j <= i].node

\* rangeByRank, with ranks from 0.
RangeByRank(l, start, stop) ==
    LET last == IF stop >= l.length THEN l.length - 1 ELSE stop
        first == GetByRank(l, start + 1)
    IN  IF start < 0 \/ stop < start \/ start >= l.length \/ first = Nil
        THEN <<>>
        ELSE SubSeq(Chain(l, first), 1, last - start + 1)

FirstInScoreRange(l, r) ==
    LET path == Path(l, ByScore(r))
    IN  l.fwd[0][path[0].node]

RECURSIVE UpTo(_, _, _)
UpTo(l, n, r) ==
    IF n = Nil THEN <<>>
    ELSE IF AboveMax(r, l.index[n]) THEN <<>>
    ELSE <<n>> \o UpTo(l, l.fwd[0][n], r)

RangeByScore(l, r) == UpTo(l, FirstInScoreRange(l, r), r)

\* cloneSortedSet: the copy inserts the members in order, with new levels.
RECURSIVE InsertAll(_, _, _, _)
InsertAll(l, ms, score, lvl) ==
    IF ms = <<>> THEN l
    ELSE InsertAll(SkipAdd(l, Head(ms), score[Head(ms)], lvl[Head(ms)]),
                   Tail(ms), score, lvl)
=============================================================================
