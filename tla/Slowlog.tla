------------------------------ MODULE Slowlog -------------------------------
(***************************************************************************)
(* The slow log (internal/server/slowlog.go): goroutines that ran a slow   *)
(* command record it in a ring of Capacity entries; SLOWLOG RESET clears   *)
(* the ring.  Record takes its ID from an atomic counter and only then the *)
(* lock, so two recorders may write their entries in the other order.  An  *)
(* entry is its ID here, the rest of it is carried along.                  *)
(***************************************************************************)
EXTENDS Integers, Sequences

CONSTANTS
    Recorders,   \* the goroutines that execute commands
    Capacity,    \* defaultSlowlogCapacity
    MaxRecords   \* bound on the commands recorded

ASSUME CapacityAssumption == Capacity \in Nat \ {0}

VARIABLES
    ring, start, count, nextID,  \* SlowlogRegistry
    holding,                     \* the ID a recorder has taken, or NoEntry
    kept                         \* history: entries since the reset, in order

slowlogVars == <<ring, start, count, nextID, holding, kept>>

NoEntry == -1
Slots == 0..Capacity - 1

SlowlogInit ==
    /\ ring = [i \in Slots |-> NoEntry]
    /\ start = 0 /\ count = 0 /\ nextID = 0
    /\ holding = [r \in Recorders |-> NoEntry]
    /\ kept = <<>>

\* Record: nextID.Add(1) - 1, before the lock.
TakeID(r) ==
    /\ holding[r] = NoEntry
    /\ nextID < MaxRecords
    /\ holding' = [holding EXCEPT ![r] = nextID]
    /\ nextID' = nextID + 1
    /\ UNCHANGED <<ring, start, count, kept>>

\* Mutant of RecordEntry: a full ring keeps its start.
RecordEntryKeepsStart(r) ==
    /\ holding[r] # NoEntry
    /\ ring' = [ring EXCEPT ![(start + count) % Capacity] = holding[r]]
    /\ count' = IF count = Capacity THEN count ELSE count + 1
    /\ kept' = Append(kept, holding[r])
    /\ holding' = [holding EXCEPT ![r] = NoEntry]
    /\ UNCHANGED <<start, nextID>>

\* Record, under the lock.
RecordEntry(r) ==
    /\ holding[r] # NoEntry
    /\ ring' = [ring EXCEPT ![(start + count) % Capacity] = holding[r]]
    /\ IF count = Capacity
       THEN start' = (start + 1) % Capacity /\ UNCHANGED count
       ELSE count' = count + 1 /\ UNCHANGED start
    /\ kept' = Append(kept, holding[r])
    /\ holding' = [holding EXCEPT ![r] = NoEntry]
    /\ UNCHANGED nextID

\* SLOWLOG RESET.
Reset ==
    /\ ring' = [i \in Slots |-> NoEntry]
    /\ start' = 0 /\ count' = 0 /\ kept' = <<>>
    /\ UNCHANGED <<nextID, holding>>

SlowlogNext ==
    \/ \E r \in Recorders : TakeID(r)
    \/ \E r \in Recorders : RecordEntry(r)
    \/ Reset

SlowlogSpec == SlowlogInit /\ [][SlowlogNext]_slowlogVars

\* Entries(limit), newest first; a negative limit asks for all.
Entries(limit) ==
    LET n == IF limit >= 0 /\ limit < count THEN limit ELSE count
    IN  [i \in 1..n |-> ring[(start + count - i + Capacity) % Capacity]]

-----------------------------------------------------------------------------
\* SLOWLOG GET returns the entries written last since the reset, newest first,
\* as many as were asked for and the ring holds, whatever order recorders and
\* resets took and however often the ring went round (Record, Entries, Reset).
NewestFirst ==
    \A limit \in -1..Capacity :
        LET n == Len(kept)
            size == IF n < Capacity THEN n ELSE Capacity
            asked == IF limit >= 0 /\ limit < size THEN limit ELSE size
        IN  Entries(limit) = [i \in 1..asked |-> kept[n - i + 1]]
=============================================================================
