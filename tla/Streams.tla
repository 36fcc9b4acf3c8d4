------------------------------ MODULE Streams -------------------------------
(***************************************************************************)
(* The value of a key that holds a stream (internal/storage/stream.go).    *)
(* Entries are only appended.  The ID of an entry is given by the client   *)
(* or made from the wall clock, which may step back.  Times and sequences  *)
(* have the width of SeqMax, so that the successor of the largest sequence *)
(* is the smallest one, as int64 addition wraps.                           *)
(***************************************************************************)
EXTENDS Integers, Sequences

CONSTANTS
    MaxMillis,   \* the largest milliseconds considered
    SeqMax,      \* the largest sequence (2^63 - 1)
    MaxEntries   \* bound on the length of the stream

ASSUME MaxMillisAssumption == MaxMillis \in Nat
ASSUME SeqMaxAssumption == SeqMax \in Nat

VARIABLES
    entries,     \* the IDs of the entries, in the order they were appended
    lastID,      \* StreamValue.lastID
    hasEntries   \* StreamValue.hasEntries

streamVars == <<entries, lastID, hasEntries>>

Millis == 0..MaxMillis
ID(ms, seq) == [ms |-> ms, seq |-> seq]
GivenIDs == {ID(ms, seq) : ms \in Millis, seq \in 0..SeqMax}

\* compareStreamIDs(x, y) < 0.
IDLess(x, y) == x.ms < y.ms \/ (x.ms = y.ms /\ x.seq < y.seq)

StreamInit == entries = <<>> /\ lastID = ID(0, 0) /\ hasEntries = FALSE

\* Mutant of NextAutoID: the wall clock is believed when it steps back.
NextAutoIDFromClock(now) ==
    IF hasEntries /\ now = lastID.ms THEN ID(now, lastID.seq + 1) ELSE ID(now, 0)

\* lastID.sequence + 1 in 64 bits.
Successor(seq) == IF seq = SeqMax THEN -SeqMax - 1 ELSE seq + 1

\* nextAutoID.
NextAutoID(now) ==
    IF hasEntries /\ now <= lastID.ms
    THEN ID(lastID.ms, Successor(lastID.seq))
    ELSE ID(now, 0)

Appended(id) ==
    /\ entries' = Append(entries, id)
    /\ lastID' = id
    /\ hasEntries' = TRUE

\* The early return of add.
TooSmall(id) == hasEntries /\ ~IDLess(lastID, id)

\* XADD key *: the time is read once per write.
AddAuto ==
    /\ Len(entries) < MaxEntries
    /\ \E now \in Millis : Appended(NextAutoID(now))

\* XADD key ms-seq.
AddGiven ==
    /\ Len(entries) < MaxEntries
    /\ \E id \in GivenIDs : ~TooSmall(id) /\ Appended(id)

StreamNext == AddAuto \/ AddGiven

StreamSpec == StreamInit /\ [][StreamNext]_streamVars

\* sort.Search for the first entry after an ID: the entries up to lo are not, the
\* ones beyond hi are.
FirstAfter(id) ==
    LET search[r \in (0..Len(entries)) \X (0..Len(entries))] ==
            LET lo == r[1]
                hi == r[2]
                mid == (lo + hi) \div 2
            IN  IF lo >= hi THEN lo
                ELSE IF IDLess(id, entries[mid + 1]) THEN search[<<lo, mid>>]
                ELSE search[<<mid + 1, hi>>]
    IN  search[<<0, Len(entries)>>]

\* entriesAfter: what XREAD returns after an ID.
EntriesAfter(id) == SubSeq(entries, FirstAfter(id) + 1, Len(entries))

-----------------------------------------------------------------------------
\* The sequence has not run over: no entry with the largest sequence was
\* followed by an automatic one in the same millisecond.
NoWrap == \A i \in DOMAIN entries : entries[i].seq >= 0

\* Until a sequence runs over 64 bits, the entries are in strictly ascending
\* order whatever the clock does and whichever IDs clients choose, lastID is
\* the largest of them, and XREAD after any ID returns exactly the later
\* entries, so a reader that goes on from the last ID it saw misses none and
\* sees none twice (add, nextAutoID and entriesAfter).
ReadersMissNothing ==
    NoWrap =>
    /\ \A i, j \in DOMAIN entries : i < j => IDLess(entries[i], entries[j])
    /\ hasEntries => lastID = entries[Len(entries)]
    /\ \A id \in GivenIDs :
          LET read == EntriesAfter(id)
              skipped == Len(entries) - Len(read)
          IN  /\ \A i \in DOMAIN entries : IDLess(id, entries[i]) <=> i > skipped
              /\ \A i \in DOMAIN read : read[i] = entries[skipped + i]
=============================================================================
