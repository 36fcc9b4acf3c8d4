-------------------------------- MODULE Rdb ---------------------------------
(***************************************************************************)
(* The snapshot file: SaveSnapshot at shutdown (internal/rdb/snapshot.go)  *)
(* and LoadFile at the next start (internal/rdb/loader.go), with crashes   *)
(* between the steps of the file system.                                   *)
(*                                                                         *)
(* A file is a sequence of units: a byte, an expiry of eight bytes, a      *)
(* string's bytes, the file header, or the eight bytes of the checksum.    *)
(* Lengths are encoded in bytes as the code does.                          *)
(***************************************************************************)
EXTENDS Integers, Sequences, SequencesExt

CONSTANTS
    Strings,    \* the keys and values
    LengthOf,   \* the length of each
    OldKeys,    \* the snapshot on disk: key -> [value, expires]
    NewKeys,    \* the keyspace to be saved, likewise
    MaxNow      \* bound on time

ASSUME LengthAssumption == LengthOf \in [Strings -> 0..2^24]

Byte(b) == [is |-> "byte", b |-> b]
Unit(kind, x) == [is |-> kind, b |-> x]

Header == <<Unit("header", "REDIS0011")>>
Checksum == <<Unit("checksum", "zero")>>
OpExpireTimeMS == 252
OpSelectDB == 254
OpEOF == 255
TypeString == 0

-----------------------------------------------------------------------------
(* Writing.                                                                *)

\* Mutant of AppendLength: the second form starts one too late.
AppendLengthLate(n) ==
    IF n <= 64 THEN <<Byte(n)>>
    ELSE IF n < 16384 THEN <<Byte(64 + ((n \div 256) % 64)), Byte(n % 256)>>
    ELSE <<Byte(128)>> \o [i \in 1..4 |-> Byte((n \div 256^(4 - i)) % 256)]

\* appendLength: 6, 14 or 32 bits.
AppendLength(n) ==
    IF n < 64 THEN <<Byte(n)>>
    ELSE IF n < 16384 THEN <<Byte(64 + ((n \div 256) % 64)), Byte(n % 256)>>
    ELSE <<Byte(128)>> \o [i \in 1..4 |-> Byte((n \div 256^(4 - i)) % 256)]

AppendString(s) ==
    AppendLength(LengthOf[s])
    \o (IF LengthOf[s] = 0 THEN <<>> ELSE <<Unit("string", s)>>)

\* Expired when a snapshot is written or read.
Expired(e, now) == e.expires > 0 /\ e.expires <= now

AppendKey(keys, k) ==
    (IF keys[k].expires > 0
     THEN <<Byte(OpExpireTimeMS), Unit("u64", keys[k].expires)>> ELSE <<>>)
    \o <<Byte(TypeString)>> \o AppendString(k) \o AppendString(keys[k].value)

\* BuildSnapshot; the order of the keys is fixed.
BuildSnapshot(keys, now) ==
    LET live == SetToSeq({k \in DOMAIN keys : ~Expired(keys[k], now)})
    IN  IF DOMAIN keys = {} THEN Header \o <<Byte(OpEOF)>> \o Checksum
        ELSE Header \o <<Byte(OpSelectDB)>> \o AppendLength(0)
             \o FlattenSeq([i \in DOMAIN live |-> AppendKey(keys, live[i])])
             \o <<Byte(OpEOF)>> \o Checksum

-----------------------------------------------------------------------------
(* Reading.  A read gives what it read and the position after it; at 0 it  *)
(* has failed.                                                             *)

Failed == [at |-> 0, n |-> 0]
IsByte(f, at) == at > 0 /\ at <= Len(f) /\ (at <= Len(f) => f[at].is = "byte")

\* readLength, without the special encodings that only other writers use.
ReadLength(f, at) ==
    IF ~IsByte(f, at) THEN Failed
    ELSE CASE f[at].b < 64 -> [at |-> at + 1, n |-> f[at].b]
           [] f[at].b \in 64..127 ->
                IF ~IsByte(f, at + 1) THEN Failed
                ELSE [at |-> at + 2, n |-> (f[at].b - 64) * 256 + f[at + 1].b]
           [] f[at].b \in 128..191 ->
                IF \E i \in 1..4 : ~IsByte(f, at + i) THEN Failed
                ELSE [at |-> at + 5,
                      n |-> f[at + 1].b * 256^3 + f[at + 2].b * 256^2
                            + f[at + 3].b * 256 + f[at + 4].b]
           [] f[at].b >= 192 -> Failed

\* readString: the length must be that of the bytes that follow.
ReadString(f, at) ==
    LET l == ReadLength(f, at)
        empty == {s \in Strings : LengthOf[s] = 0}
    IN  IF l.at = 0 THEN [at |-> 0, s |-> ""]
        ELSE IF l.n = 0 THEN [at |-> l.at, s |-> CHOOSE s \in empty : TRUE]
        ELSE IF l.at > Len(f) THEN [at |-> 0, s |-> ""]
        ELSE IF f[l.at].is # "string" THEN [at |-> 0, s |-> ""]
        ELSE IF LengthOf[f[l.at].b] # l.n THEN [at |-> 0, s |-> ""]
        ELSE [at |-> l.at + 1, s |-> f[l.at].b]

\* What a load ends with: the keys, or that the file was refused.
Refused == [ok |-> FALSE, keys |-> <<>>]

With(keys, k, e) == [x \in DOMAIN keys \cup {k} |-> IF x = k THEN e ELSE keys[x]]

\* consumeEOF: nothing but a checksum follows, which is not verified.
EndsHere(f, at) == SubSeq(f, at + 1, Len(f)) \in {<<>>, Checksum}

\* readDatabaseSelection: where to go on, 0 if it is not database 0.
SelectDB(f, at) ==
    LET db == ReadLength(f, at) IN IF db.n = 0 THEN db.at ELSE 0

\* readEntry: the type, the key and the value at a position.
ReadEntry(f, at, expires) ==
    LET key == ReadString(f, at + 1)
        value == ReadString(f, key.at)
        fits == IsByte(f, at) /\ (IsByte(f, at) => f[at].b = TypeString) /\ key.at # 0
    IN  [at |-> IF fits THEN value.at ELSE 0, key |-> key.s,
         entry |-> [value |-> value.s, expires |-> expires]]

\* The loop of load and processMarker, from the marker at a position.  The
\* markers that BuildSnapshot does not write are left out.
RECURSIVE LoadFrom(_, _, _, _)
LoadFrom(f, at, now, keys) ==
    LET timed == f[at].b = OpExpireTimeMS
        read == ReadEntry(f, IF timed THEN at + 2 ELSE at,
                          IF timed THEN f[at + 1].b ELSE 0)
    IN  IF ~IsByte(f, at) THEN Refused
        ELSE CASE f[at].b = OpEOF ->
                    IF EndsHere(f, at) THEN [ok |-> TRUE, keys |-> keys] ELSE Refused
               [] f[at].b = OpSelectDB -> LoadFrom(f, SelectDB(f, at + 1), now, keys)
               [] f[at].b \in {OpExpireTimeMS, TypeString} ->
                    IF timed /\ at = Len(f) THEN Refused
                    ELSE LoadFrom(f, read.at, now,
                                  IF read.at = 0 \/ Expired(read.entry, now) THEN keys
                                  ELSE With(keys, read.key, read.entry))
               [] OTHER -> Refused

\* LoadFile on a file that exists.
Load(f, now) ==
    IF f = <<>> THEN Refused
    ELSE IF f[1] # Header[1] THEN Refused ELSE LoadFrom(f, 2, now, <<>>)

-----------------------------------------------------------------------------
(* Saving, step by step.                                                   *)

VARIABLES
    phase,      \* how far SaveSnapshot is
    now,        \* the wall clock
    temp,       \* the bytes of the new file
    synced,     \* its bytes are on disk
    shows,      \* the file the directory shows at the path
    onDisk,     \* the files that the disk may show there after a crash
    replaces,   \* rename replaces an existing file on this platform
    outcome,    \* what SaveSnapshot returned
    restart     \* the result of the load after a crash or an exit

rdbVars == <<phase, now, temp, synced, shows, onDisk, replaces, outcome, restart>>

NotLoaded == [pending |-> TRUE]
OldFile == BuildSnapshot(OldKeys, 0)

RdbInit ==
    /\ phase = "start" /\ now = 1
    /\ temp = <<>> /\ synced = FALSE
    /\ shows = "old" /\ onDisk = {"old"}
    /\ replaces \in BOOLEAN
    /\ outcome = "none" /\ restart = NotLoaded

\* Build the payload and write all of it to the temporary file.
WriteTemp ==
    /\ phase = "start"
    /\ temp' = BuildSnapshot(NewKeys, now)
    /\ phase' = "written"
    /\ UNCHANGED <<now, synced, shows, onDisk, replaces, outcome, restart>>

\* MkdirAll, CreateTemp, Write, Sync or Close fails: the temporary file goes.
SaveFails ==
    /\ phase \in {"start", "written", "synced", "removed"}
    /\ phase' = "returned" /\ outcome' = "error"
    /\ UNCHANGED <<now, temp, synced, shows, onDisk, replaces, restart>>

SyncTemp ==
    /\ phase = "written"
    /\ synced' = TRUE
    /\ phase' = "synced"
    /\ UNCHANGED <<now, temp, shows, onDisk, replaces, outcome, restart>>

\* replaceFile: rename over the target.
Rename ==
    /\ phase = "removed" \/ (phase = "synced" /\ replaces)
    /\ shows' = "new" /\ onDisk' = onDisk \cup {"new"}
    /\ phase' = "renamed"
    /\ UNCHANGED <<now, temp, synced, replaces, outcome, restart>>

\* replaceFile where rename refuses an existing target: remove it first.
RemoveTarget ==
    /\ phase = "synced" /\ ~replaces
    /\ shows' = "none" /\ onDisk' = onDisk \cup {"none"}
    /\ phase' = "removed"
    /\ UNCHANGED <<now, temp, synced, replaces, outcome, restart>>

\* syncDir, and the return.
SyncDir ==
    /\ phase = "renamed"
    /\ phase' = "returned"
    /\ \/ onDisk' = {"new"} /\ outcome' = "ok"
       \/ UNCHANGED onDisk /\ outcome' = "error"
    /\ UNCHANGED <<now, temp, synced, shows, replaces, restart>>

TimePasses ==
    /\ now < MaxNow /\ restart = NotLoaded
    /\ now' = now + 1
    /\ UNCHANGED <<phase, temp, synced, shows, onDisk, replaces, outcome, restart>>

\* A missing file is an error of os.Open, and the start fails.
LoadedFrom(file) ==
    CASE file = "old" -> Load(OldFile, now)
      [] file = "new" -> Load(temp, now)
      [] file = "none" -> Refused

\* The machine stops and the server starts again: the directory shows any of
\* the files the disk may have, and of bytes that were not synced a prefix.
Crash ==
    /\ restart = NotLoaded
    /\ phase' = "down"
    /\ \E file \in onDisk :
          restart' \in IF file = "new" /\ ~synced
                       THEN {Load(SubSeq(temp, 1, n), now) : n \in 0..Len(temp)}
                       ELSE {LoadedFrom(file)}
    /\ UNCHANGED <<now, temp, synced, shows, onDisk, replaces, outcome>>

\* The process ends after SaveSnapshot returned and is started again.
ExitAndStart ==
    /\ phase = "returned" /\ restart = NotLoaded
    /\ phase' = "down"
    /\ restart' = LoadedFrom(shows)
    /\ UNCHANGED <<now, temp, synced, shows, onDisk, replaces, outcome>>

RdbNext ==
    \/ WriteTemp \/ SaveFails \/ SyncTemp \/ Rename \/ RemoveTarget \/ SyncDir
    \/ TimePasses \/ Crash \/ ExitAndStart

RdbSpec == RdbInit /\ [][RdbNext]_rdbVars

-----------------------------------------------------------------------------
\* A keyspace without the keys that have expired by now.
Live(keys) ==
    [ok |-> TRUE, keys |-> [k \in {x \in DOMAIN keys : ~Expired(keys[x], now)} |-> keys[k]]]

\* A start never refuses the snapshot file and never takes half of one: after
\* a crash at any step, the keyspace is the old snapshot or the new one, less
\* what has expired, with every key, value and expiry as it was saved
\* (SaveSnapshot syncs before it renames; appendLength against readLength).
\* Where rename does not replace a file, the old one is removed first; a crash
\* at that moment leaves none and the start fails.  Once SaveSnapshot has
\* returned without an error, no crash brings the old snapshot back (the
\* directory is synced after the rename).
SnapshotIsWhole ==
    restart # NotLoaded =>
    /\ \/ restart \in {Live(OldKeys), Live(NewKeys)}
       \/ ~replaces /\ "none" \in onDisk /\ restart = Refused
    /\ outcome = "ok" => restart = Live(NewKeys)
=============================================================================
