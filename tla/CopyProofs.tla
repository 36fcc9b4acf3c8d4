---------------------------- MODULE CopyProofs ------------------------------
(***************************************************************************)
(* The copies of the data in Pipeline: the file, the file of a rewrite and *)
(* the replica are copies of the keyspace.  PipelineProofs has CopyInv and *)
(* what each step makes of it for one key; here are the types, the barrier *)
(* of a rewrite, the reading of CopyInv and the theorem.                   *)
(***************************************************************************)
EXTENDS PipelineProofs

(***************************************************************************)
(* The types that CopyInv needs are kept by every step.                    *)
(***************************************************************************)

\* A keyspace of the right type.
Typed(d) == DOMAIN d \subseteq Keys /\ \A k \in DOMAIN d : d[k] \in Values

\* Executing a frame keeps a keyspace typed.
LEMMA ExecuteTyped ==
  ASSUME NEW d, Typed(d), NEW f \in Frames, NEW t
  PROVE  Typed(Execute(d, f, t))
<1> DEFINE e == Execute(d, f, t)
<1>1. f.op \in Ops /\ f.keys \subseteq Keys /\ f.value \in Values
  BY DEF Frames
<1>2. \A k : k \notin f.keys => Alike(e, d, k)
  BY Zenon, <1>1, Elsewhere
<1>3. CASE f.op = "set"
  <2>1. \A k \in f.keys : e[k] = f.value
    BY Zenon, <1>3, SetGives
  <2> HIDE DEF e
  <2> QED
    BY Zenon, <1>1, <1>2, <2>1 DEF Typed, Alike, e
<1>4. CASE f.op = "del"
  <2>1. \A k \in f.keys : k \notin DOMAIN e
    BY Zenon, <1>4, DelGives
  <2> HIDE DEF e
  <2> QED
    BY Zenon, <1>1, <1>2, <2>1 DEF Typed, Alike, e
<1>5. CASE f.op = "incr"
  <2>1. ASSUME NEW k \in f.keys PROVE e[k] \in Values
    <3> DEFINE old == IF Shows(d, k, t) THEN d[k] ELSE Value(0, 0)
    <3>1. e[k] = Value(old.n + 1, old.exp)
      BY Zenon, <1>5, IncrGives
    <3>2. old \in Values
      <4>1. Value(0, 0) \in Values
        BY DEF Value, Values
      <4> QED
        BY Zenon, <4>1 DEF Shows, Typed
    <3> HIDE DEF old, e
    <3>3. Value(old.n + 1, old.exp) \in Values
      BY <3>2 DEF Value, Values
    <3> QED
      BY Zenon, <3>1, <3>3
  <2> HIDE DEF e
  <2> QED
    BY Zenon, <1>1, <1>2, <2>1 DEF Typed, Alike, e
<1> QED
  BY Zenon, <1>1, <1>3, <1>4, <1>5 DEF Ops

\* Removing keys keeps a keyspace typed.
LEMMA WithoutTyped ==
  ASSUME NEW d, Typed(d), NEW S
  PROVE  Typed(Without(d, S))
  BY Zenon DEF Typed, Without, Restrict

\* The keyspace is typed.
LEMMA CopyTypesTyped ==
  CopyTypes => Typed(db)
  BY Zenon DEF CopyTypes, Typed

\* What a step of p has to show.
LEMMA TypesOf ==
  ASSUME CopyTypes, NEW p \in Procs, OthersStay(p), cast' = cast,
         \A q \in Procs : q # p => taken'[q] = taken[q],
         pc' \in [Procs -> PcValues], frames' \in [Procs -> Seq(Frames)],
         taken' \in [Procs -> SUBSET Keys], noted' \subseteq Keys,
         clock' = clock \/ clock' = [clock EXCEPT ![p] = now],
         Typed(db'), Shape(p)',
         log' \in Seq(Frames), base' \in Seq(Frames), buffer' \in Seq(Frames),
         stream' \in Seq(Frames),
         pc'[Rewriter] = "installing" => rewriting'
  PROVE  CopyTypes'
<1>1. \A q \in Procs : q # p => Shape(q)'
  <2> SUFFICES ASSUME NEW q \in Procs, q # p PROVE Shape(q)'
    BY Zenon
  <2>1. Shape(q)
    BY Zenon DEF CopyTypes
  <2>2. pc'[q] = pc[q] /\ frames'[q] = frames[q] /\ taken'[q] = taken[q]
    BY Zenon DEF OthersStay
  <2> QED
    BY ONLY Zenon, <2>1, <2>2 DEF Shape
<1>2. now' = now /\ now \in Nat /\ clock \in [Procs -> Nat] /\ \A q \in Procs : clock[q] <= now
  BY Zenon DEF CopyTypes, OthersStay
<1>3. clock' \in [Procs -> Nat] /\ \A q \in Procs : clock'[q] <= now
  <2>1. now <= now
    BY <1>2
  <2>2. CASE clock' = clock
    BY Zenon, <1>2, <2>2
  <2>3. CASE clock' = [clock EXCEPT ![p] = now]
    BY Zenon, <1>2, <2>1, <2>3
  <2> QED
    BY Zenon, <2>2, <2>3
<1>4. \A q \in Procs : Shape(q)'
  <2>1. \A q \in Procs : q = p => Shape(q)'
    BY Zenon DEF Shape
  <2> QED
    BY Zenon, <1>1, <2>1
<1>5. cast \in Casts
  BY Zenon DEF CopyTypes
<1> QED
  BY Zenon, <1>2, <1>3, <1>4, <1>5 DEF CopyTypes, Typed

\* A new request keeps CopyTypes.
LEMMA RequestTypes ==
  ASSUME CopyTypes, NEW p \in Clients, Request(p)
  PROVE  CopyTypes'
<1>1. PICK r \in cast.script[p] :
        /\ Begin(p, LocksOf(r))
        /\ Emits(p, << CASE r.op = "incr" -> IncrFrame(r.keys)
                         [] r.op = "del" -> DelFrame(r.keys)
                         [] r.op = "set" -> SetFrame(r.keys, r.n,
                               IF r.ttl = 0 THEN 0 ELSE now + r.ttl) >>)
  BY Zenon DEF Request
<1> DEFINE f == CASE r.op = "incr" -> IncrFrame(r.keys)
                  [] r.op = "del" -> DelFrame(r.keys)
                  [] r.op = "set" -> SetFrame(r.keys, r.n, IF r.ttl = 0 THEN 0 ELSE now + r.ttl)
<1>2. /\ p \in Procs /\ cast \in Casts /\ pc \in [Procs -> PcValues] /\ now \in Nat
      /\ frames \in [Procs -> Seq(Frames)] /\ taken \in [Procs -> SUBSET Keys]
      /\ Shape(p) /\ p # Rewriter
  BY Zenon, ProcsAssumption DEF CopyTypes, Procs
<1>3. r.op \in {"set", "incr", "del"} /\ r.keys \subseteq Keys /\ r.n \in Int /\ r.ttl \in Nat
  BY Zenon, <1>2, CastsAssumption
<1>4. f \in Frames
  <2>1. \A ks \in SUBSET Keys, v \in Values, o \in Ops : [op |-> o, keys |-> ks, value |-> v] \in Frames
    BY DEF Frames
  <2>2. \A n \in Int, x \in Nat : Value(n, x) \in Values
    BY DEF Value, Values
  <2>3. 0 \in Int /\ 0 \in Nat /\ (IF r.ttl = 0 THEN 0 ELSE now + r.ttl) \in Nat
    BY <1>2, <1>3
  <2>4. IncrFrame(r.keys) \in Frames /\ DelFrame(r.keys) \in Frames
    BY Zenon, <1>3, <2>1, <2>2, <2>3 DEF IncrFrame, DelFrame, Ops
  <2>5. \A x \in Nat : SetFrame(r.keys, r.n, x) \in Frames
    BY Zenon, <1>3, <2>1, <2>2 DEF SetFrame, Ops
  <2>6. SetFrame(r.keys, r.n, IF r.ttl = 0 THEN 0 ELSE now + r.ttl) \in Frames
    BY Zenon, <2>3, <2>5
  <2> QED
    BY Zenon, <1>3, <2>4, <2>6
<1>5. Emits(p, <<f>>)
  BY Zenon, <1>1
<1> HIDE DEF f
<1>6. <<f>> \in Seq(Frames) /\ Len(<<f>>) = 1 /\ Len(<<f>>) \in 0..2 /\ Len(<<f>>) # 2
  BY <1>4
<1>7. pc[p] = "idle" /\ pc'[p] = "locking" /\ frames'[p] = <<f>> /\ taken' = taken
  BY Zenon, <1>1, <1>2, <1>5 DEF Begin, Emits
<1>8. taken[p] = {}
  BY Zenon, <1>2, <1>7 DEF Shape
<1>9. Shape(p)'
  <2>1. pc'[p] \notin Unsent
    BY Zenon, <1>7 DEF Unsent, Unlogged
  <2> QED
    BY Zenon, <1>6, <1>7, <1>8, <2>1 DEF Shape
<1>10. OthersStay(p)
  BY Zenon, <1>1, <1>2, <1>5 DEF OthersStay, Begin, Emits
<1>11. /\ pc' \in [Procs -> PcValues] /\ frames' \in [Procs -> Seq(Frames)]
       /\ clock' = [clock EXCEPT ![p] = now] /\ cast' = cast
       /\ pc'[Rewriter] = pc[Rewriter]
  <2>1. /\ pc' = [pc EXCEPT ![p] = "locking"] /\ frames' = [frames EXCEPT ![p] = <<f>>]
        /\ clock' = [clock EXCEPT ![p] = now] /\ cast' = cast
    BY Zenon, <1>1, <1>5 DEF Begin, Emits
  <2>2. pc' \in [Procs -> PcValues]
    BY Zenon, <1>2, <2>1 DEF PcValues
  <2>3. frames' \in [Procs -> Seq(Frames)]
    BY Zenon, <1>2, <1>6, <2>1
  <2>4. pc'[Rewriter] = pc[Rewriter]
    BY Zenon, <1>2, <2>1 DEF Procs
  <2> QED
    BY Zenon, <2>1, <2>2, <2>3, <2>4
<1>12. /\ UNCHANGED <<db, noted, log, base, buffer, rewriting, stream>>
  BY Zenon, <1>1 DEF Begin, fileVars, replicaVars
<1>13. /\ Typed(db') /\ noted' \subseteq Keys /\ log' \in Seq(Frames) /\ base' \in Seq(Frames)
       /\ buffer' \in Seq(Frames) /\ stream' \in Seq(Frames)
       /\ pc'[Rewriter] = "installing" => rewriting'
  BY Zenon, <1>11, <1>12 DEF CopyTypes, Typed
<1> QED
  BY ZenonT(40), <1>2, <1>7, <1>9, <1>10, <1>11, <1>13, TypesOf

\* No frames are a short sequence of frames.
LEMMA EmptyFits ==
  ASSUME NEW fs, fs = <<>>
  PROVE  fs \in Seq(Frames) /\ Len(fs) \in 0..2 /\ Len(fs) # 2
<1>1. Len(<<>>) = 0 /\ 0 \in 0..2 /\ 0 # 2 /\ <<>> \in Seq(Frames)
  OBVIOUS
<1> QED
  BY Zenon, <1>1

\* A goroutine past its locks keeps its frames or drops them.
LEMMA ShapeKept ==
  ASSUME NEW p, Shape(p), frames'[p] = frames[p] \/ frames'[p] = <<>>, pc'[p] # "locking",
         \/ p \in Clients
         \/ pc[p] \in Unsent
         \/ pc'[p] \notin Unsent
         \/ frames'[p] = <<>>,
         taken'[p] # {} => pc'[p] \in {"log expired", "send expired"}
  PROVE  Shape(p)'
<1>1. Len(<<>>) \in 0..2 /\ Len(<<>>) # 2
  BY Zenon, EmptyFits
<1> QED
  BY Zenon, <1>1 DEF Shape

\* The files, the stream and the keyspace are left alone.
LEMMA RestStays ==
  ASSUME CopyTypes, UNCHANGED <<db, noted, log, base, buffer, rewriting, stream>>,
         pc'[Rewriter] = "installing" => pc[Rewriter] = "installing"
  PROVE  /\ Typed(db') /\ noted' \subseteq Keys /\ log' \in Seq(Frames) /\ base' \in Seq(Frames)
         /\ buffer' \in Seq(Frames) /\ stream' \in Seq(Frames)
         /\ pc'[Rewriter] = "installing" => rewriting'
  BY Zenon DEF CopyTypes, Typed

\* The other activities keep CopyTypes when they start.
LEMMA BeginsTypes ==
  ASSUME CopyTypes, BeginSweep \/ BeginRewrite \/ BeginSnapshot
  PROVE  CopyTypes'
<1>1. ASSUME NEW p \in Procs \ Clients, NEW ss, Begin(p, ss), NEW fs,
             frames' = [frames EXCEPT ![p] = fs], fs \in Seq(Frames), Len(fs) \in 0..2,
             Len(fs) = 2 => fs[2].op = "del" /\ fs[1].keys \cap fs[2].keys = {}
      PROVE  CopyTypes'
  <2>1. /\ pc \in [Procs -> PcValues] /\ frames \in [Procs -> Seq(Frames)]
        /\ taken \in [Procs -> SUBSET Keys] /\ Shape(p) /\ Rewriter \in Procs
    BY Zenon, <1>1 DEF CopyTypes, Procs
  <2>2. pc[p] = "idle" /\ pc'[p] = "locking" /\ frames'[p] = fs /\ taken' = taken
    BY Zenon, <1>1, <2>1 DEF Begin
  <2>3. taken[p] = {}
    BY Zenon, <2>1, <2>2 DEF Shape
  <2>4. pc'[p] \notin Unsent
    BY Zenon, <2>2 DEF Unsent, Unlogged
  <2>5. Shape(p)'
    BY Zenon, <1>1, <2>2, <2>3, <2>4 DEF Shape
  <2>6. OthersStay(p) /\ \A q \in Procs : q # p => taken'[q] = taken[q]
    BY Zenon, <1>1, <2>1, <2>2 DEF OthersStay, Begin
  <2>7. /\ pc' \in [Procs -> PcValues] /\ frames' \in [Procs -> Seq(Frames)]
        /\ clock' = [clock EXCEPT ![p] = now] /\ cast' = cast
        /\ pc'[Rewriter] = "installing" => pc[Rewriter] = "installing"
    BY Zenon, <1>1, <2>1 DEF Begin, PcValues
  <2>8. /\ UNCHANGED <<db, noted, log, base, buffer, rewriting, stream>>
    BY Zenon, <1>1 DEF Begin, fileVars, replicaVars
  <2>9. /\ Typed(db') /\ noted' \subseteq Keys /\ log' \in Seq(Frames) /\ base' \in Seq(Frames)
        /\ buffer' \in Seq(Frames) /\ stream' \in Seq(Frames)
        /\ pc'[Rewriter] = "installing" => rewriting'
    BY Zenon, <2>7, <2>8, RestStays
  <2>10. p \in Procs /\ taken' \in [Procs -> SUBSET Keys]
    BY Zenon, <1>1, <2>1, <2>2
  <2> QED
    BY ZenonT(40), <2>5, <2>6, <2>7, <2>9, <2>10, TypesOf
<1>2. Sweeper \in Procs \ Clients /\ Rewriter \in Procs \ Clients /\ Reader \in Procs \ Clients
  BY Zenon, ProcsAssumption DEF Procs
<1>3. CASE BeginSweep
  <2>1. PICK sample \in SUBSET DOMAIN db :
           Begin(Sweeper, ShardsOf(sample)) /\ Emits(Sweeper, <<DelFrame(sample)>>)
    BY Zenon, <1>3 DEF BeginSweep
  <2>2. DelFrame(sample) \in Frames
    <3>1. sample \in SUBSET Keys
      BY Zenon DEF CopyTypes
    <3>2. "del" \in Ops /\ Value(0, 0) \in Values
      BY DEF Ops, Value, Values
    <3> QED
      BY SMTT(40), <3>1, <3>2 DEF DelFrame, Frames
  <2>3. /\ <<DelFrame(sample)>> \in Seq(Frames) /\ Len(<<DelFrame(sample)>>) \in 0..2
        /\ Len(<<DelFrame(sample)>>) # 2
    BY <2>2
  <2> QED
    BY Zenon, <1>1, <1>2, <2>1, <2>3 DEF Emits
<1>4. ASSUME NEW p \in Procs \ Clients, NEW ss, Begin(p, ss), frames' = frames
      PROVE  CopyTypes'
  <2>1. frames \in [Procs -> Seq(Frames)] /\ frames[p] \in Seq(Frames) /\ Shape(p)
    BY Zenon DEF CopyTypes
  <2>2. frames' = [frames EXCEPT ![p] = frames[p]]
    BY Zenon, <1>4, <2>1
  <2>3. /\ Len(frames[p]) \in 0..2
        /\ Len(frames[p]) = 2 =>
              frames[p][2].op = "del" /\ frames[p][1].keys \cap frames[p][2].keys = {}
    BY Zenon, <2>1 DEF Shape
  <2> DEFINE fs == frames[p]
  <2>4. /\ frames' = [frames EXCEPT ![p] = fs] /\ fs \in Seq(Frames) /\ Len(fs) \in 0..2
        /\ Len(fs) = 2 => fs[2].op = "del" /\ fs[1].keys \cap fs[2].keys = {}
    BY Zenon, <2>1, <2>2, <2>3
  <2> HIDE DEF fs
  <2> QED
    BY Zenon, <1>1, <1>4, <2>4
<1>5. CASE BeginRewrite
  BY Zenon, <1>2, <1>4, <1>5 DEF BeginRewrite
<1>6. CASE BeginSnapshot
  BY Zenon, <1>2, <1>4, <1>6 DEF BeginSnapshot
<1> QED
  BY Zenon, <1>3, <1>5, <1>6

\* A step that changes none of these variables keeps CopyTypes.
LEMMA StillTypes ==
  ASSUME CopyTypes,
         UNCHANGED <<cast, now, db, pc, clock, frames, noted, taken>>,
         UNCHANGED <<log, base, buffer, rewriting, stream>>
  PROVE  CopyTypes'
  BY Zenon DEF CopyTypes, Shape

\* A frame the replica applies keeps CopyTypes.
LEMMA ApplyTypes ==
  ASSUME CopyTypes, Apply
  PROVE  CopyTypes'
<1>1. UNCHANGED <<cast, now, pc, clock, db, frames, taken, noted, log, base, buffer, rewriting>>
  BY Zenon DEF Apply, run, fileVars
<1>2. stream' = Tail(stream) /\ stream # <<>> /\ stream \in Seq(Frames)
  BY Zenon DEF Apply, CopyTypes
<1>3. stream' \in Seq(Frames)
  BY <1>2
<1> QED
  BY Zenon, <1>1, <1>3 DEF CopyTypes, Shape

\* The passing of time keeps CopyTypes.
LEMMA TimePassesTypes ==
  ASSUME CopyTypes, TimePasses
  PROVE  CopyTypes'
<1>1. UNCHANGED <<cast, pc, clock, db, frames, taken, noted, log, base, buffer, stream, rewriting>>
  BY Zenon DEF TimePasses, run, fileVars, replicaVars
<1>2. now \in Nat /\ now' = now + 1 /\ clock \in [Procs -> Nat] /\ \A p \in Procs : clock[p] <= now
  BY Zenon DEF TimePasses, CopyTypes
<1>3. now' \in Nat /\ \A p \in Procs : clock[p] <= now'
  BY <1>2
<1> QED
  BY Zenon, <1>1, <1>3 DEF CopyTypes, Shape

\* Steps of the goroutines that change neither the files nor the keyspace.
LEMMA QuietTypes ==
  ASSUME CopyTypes, NEW p \in Procs,
         \/ p = Reader /\ SnapshotStrings
         \/ Take(p)
         \/ LogExpiredFails(p)
         \/ p \in Clients /\ LogFramesFails(p)
  PROVE  CopyTypes'
<1>1. /\ pc \in [Procs -> PcValues] /\ frames \in [Procs -> Seq(Frames)] /\ noted \subseteq Keys
      /\ taken \in [Procs -> SUBSET Keys] /\ Shape(p) /\ Rewriter \in Procs
  BY Zenon DEF CopyTypes, Procs
<1>2. CASE p = Reader /\ SnapshotStrings
  <2>1. /\ pc[p] = "locking" /\ pc'[p] = "idle" /\ frames' = frames /\ taken' = taken
        /\ noted' = noted /\ UNCHANGED <<cast, clock>> /\ pc' \in [Procs -> PcValues]
        /\ OthersStay(p) /\ (pc'[Rewriter] = "installing" => pc[Rewriter] = "installing")
    BY Zenon, <1>1, <1>2, ProcsAssumption DEF SnapshotStrings, Holds, PcValues, OthersStay, run
  <2>2. pc'[p] \notin Unsent /\ taken[p] = {} /\ pc'[p] # "locking"
    BY Zenon, <1>1, <2>1 DEF Shape, Unsent, Unlogged
  <2>3. Shape(p)'
    BY Zenon, <1>1, <2>1, <2>2, ShapeKept
  <2>4. UNCHANGED <<db, noted, log, base, buffer, rewriting, stream>>
    BY Zenon, <1>2 DEF SnapshotStrings, fileVars, replicaVars
  <2>5. /\ Typed(db') /\ noted' \subseteq Keys /\ log' \in Seq(Frames) /\ base' \in Seq(Frames)
        /\ buffer' \in Seq(Frames) /\ stream' \in Seq(Frames)
        /\ pc'[Rewriter] = "installing" => rewriting'
    BY Zenon, <2>1, <2>4, RestStays
  <2> QED
    BY ZenonT(40), <1>1, <2>1, <2>3, <2>5, TypesOf
<1>3. CASE Take(p)
  <2>1. /\ pc[p] = "publish" /\ frames' = frames /\ taken' = [taken EXCEPT ![p] = noted]
        /\ noted' = {} /\ UNCHANGED <<cast, clock>> /\ pc' \in [Procs -> PcValues]
        /\ OthersStay(p) /\ pc'[p] = (IF noted = {} THEN AfterPublish(p) ELSE "log expired")
    BY Zenon, <1>1, <1>3 DEF Take, Step, AfterPublish, PcValues, OthersStay, run
  <2>2. /\ pc'[p] \in {"idle", "append", "log expired"} /\ pc'[p] # "locking" /\ pc[p] \in Unsent
        /\ (noted # {} => pc'[p] = "log expired") /\ pc'[p] # "installing"
    BY Zenon, <2>1 DEF AfterPublish, Unsent, Unlogged
  <2>3. taken' \in [Procs -> SUBSET Keys] /\ taken'[p] = noted
        /\ \A q \in Procs : q # p => taken'[q] = taken[q]
    BY Zenon, <1>1, <2>1
  <2>4. Shape(p)'
    BY Zenon, <1>1, <2>1, <2>2, <2>3, ShapeKept
  <2>5. pc'[Rewriter] = "installing" => pc[Rewriter] = "installing"
    BY Zenon, <1>1, <2>1, <2>2 DEF OthersStay
  <2>6. UNCHANGED <<db, log, base, buffer, rewriting, stream>>
    BY Zenon, <1>3 DEF Take, fileVars, replicaVars
  <2>7. /\ Typed(db') /\ log' \in Seq(Frames) /\ base' \in Seq(Frames)
        /\ buffer' \in Seq(Frames) /\ stream' \in Seq(Frames)
        /\ pc'[Rewriter] = "installing" => rewriting'
    BY Zenon, <2>5, <2>6 DEF CopyTypes, Typed
  <2>8. frames' \in [Procs -> Seq(Frames)] /\ noted' \subseteq Keys
    BY Zenon, <1>1, <2>1
  <2> QED
    BY ZenonT(40), <2>1, <2>3, <2>4, <2>7, <2>8, TypesOf
<1>4. CASE LogExpiredFails(p)
  <2>1. /\ pc[p] = "log expired" /\ frames' = frames
        /\ taken' \in [Procs -> SUBSET Keys] /\ \A q \in Procs : q # p => taken'[q] = taken[q]
        /\ UNCHANGED <<cast, clock>> /\ pc' \in [Procs -> PcValues] /\ OthersStay(p)
        /\ \/ pc'[p] = AfterPublish(p) /\ taken'[p] = {}
           \/ pc'[p] = "send expired"
    BY Zenon, <1>1, <1>4 DEF LogExpiredFails, Step, AfterPublish, PcValues, OthersStay, run
  <2>2. /\ pc'[p] # "locking" /\ pc'[p] # "installing" /\ pc[p] \in Unsent
        /\ (taken'[p] # {} => pc'[p] = "send expired")
    BY Zenon, <2>1 DEF AfterPublish, Unsent, Unlogged
  <2>3. Shape(p)'
    BY Zenon, <1>1, <2>1, <2>2, ShapeKept
  <2>4. pc'[Rewriter] = "installing" => pc[Rewriter] = "installing"
    BY Zenon, <1>1, <2>1, <2>2 DEF OthersStay
  <2>5. UNCHANGED <<db, noted, log, base, buffer, rewriting, stream>>
    BY Zenon, <1>4 DEF LogExpiredFails, fileVars, replicaVars
  <2>6. /\ Typed(db') /\ noted' \subseteq Keys /\ log' \in Seq(Frames) /\ base' \in Seq(Frames)
        /\ buffer' \in Seq(Frames) /\ stream' \in Seq(Frames)
        /\ pc'[Rewriter] = "installing" => rewriting'
    BY Zenon, <2>4, <2>5, RestStays
  <2> QED
    BY ZenonT(40), <1>1, <2>1, <2>3, <2>6, TypesOf
<1>5. CASE p \in Clients /\ LogFramesFails(p)
  <2>0. <<>> \in Seq(Frames)
    OBVIOUS
  <2>1. /\ pc[p] = "append" /\ frames' \in [Procs -> Seq(Frames)]
        /\ (frames'[p] = frames[p] \/ frames'[p] = <<>>)
        /\ taken' = taken /\ UNCHANGED <<cast, clock>>
        /\ pc' \in [Procs -> PcValues] /\ OthersStay(p) /\ pc'[p] \in {"idle", "send"}
    BY Zenon, <1>1, <1>5, <2>0 DEF LogFramesFails, Step, Emits, PcValues, OthersStay, run
  <2>2. pc'[p] # "locking" /\ pc'[p] # "installing" /\ taken[p] = {}
    BY Zenon, <1>1, <2>1 DEF Shape
  <2>3. Shape(p)'
    BY Zenon, <1>1, <1>5, <2>1, <2>2, ShapeKept
  <2>4. pc'[Rewriter] = "installing" => pc[Rewriter] = "installing"
    BY Zenon, <1>1, <2>1, <2>2 DEF OthersStay
  <2>5. UNCHANGED <<db, noted, log, base, buffer, rewriting, stream>>
    BY ZenonT(40), <1>5 DEF LogFramesFails, fileVars, replicaVars
  <2>6. /\ Typed(db') /\ noted' \subseteq Keys /\ log' \in Seq(Frames) /\ base' \in Seq(Frames)
        /\ buffer' \in Seq(Frames) /\ stream' \in Seq(Frames)
        /\ pc'[Rewriter] = "installing" => rewriting'
    BY Zenon, <2>4, <2>5, RestStays
  <2> QED
    BY ZenonT(40), <1>1, <2>1, <2>3, <2>6, TypesOf
<1> QED
  BY ZenonT(40), <1>2, <1>3, <1>4, <1>5

\* Steps that write the file or the stream.
LEMMA WritesTypes ==
  ASSUME CopyTypes, NEW p \in Procs,
         \/ LogExpired(p)
         \/ SendExpired(p)
         \/ p \in Clients /\ LogFrames(p)
         \/ p \in Clients /\ Send(p)
  PROVE  CopyTypes'
<1>1. /\ pc \in [Procs -> PcValues] /\ frames \in [Procs -> Seq(Frames)] /\ noted \subseteq Keys
      /\ taken \in [Procs -> SUBSET Keys] /\ Shape(p) /\ Rewriter \in Procs
      /\ frames[p] \in Seq(Frames) /\ log \in Seq(Frames) /\ base \in Seq(Frames)
      /\ buffer \in Seq(Frames) /\ stream \in Seq(Frames)
  BY Zenon DEF CopyTypes, Procs
<1>2. <<ExpiredFrame(p)>> \in Seq(Frames)
  BY Zenon, ExpiredFrameFits
<1>3. ASSUME NEW gs \in Seq(Frames)
      PROVE  /\ log \o gs \in Seq(Frames) /\ buffer \o gs \in Seq(Frames)
             /\ stream \o gs \in Seq(Frames) /\ <<>> \in Seq(Frames)
  BY <1>1
<1>4. ASSUME NEW gs \in Seq(Frames), WriteLog(gs)
      PROVE  /\ log' \in Seq(Frames) /\ base' \in Seq(Frames) /\ buffer' \in Seq(Frames)
             /\ rewriting' = rewriting
  BY Zenon, <1>1, <1>3, <1>4 DEF WriteLog
<1>5. /\ cast' = cast /\ clock' = clock /\ db' = db /\ noted' = noted /\ OthersStay(p)
      /\ pc' \in [Procs -> PcValues] /\ pc'[p] # "locking" /\ pc'[p] # "installing"
  BY Zenon, <1>1 DEF LogExpired, SendExpired, LogFrames, Send, Step, Emits, AfterPublish, PcValues,
                     OthersStay, run
<1>6. Typed(db') /\ noted' \subseteq Keys
  BY ZenonT(40), <1>1, <1>5, CopyTypesTyped
<1>7. pc'[Rewriter] = "installing" => rewriting
  BY Zenon, <1>1, <1>5 DEF CopyTypes, OthersStay
<1>8. ASSUME \/ frames' = frames
             \/ frames' = [frames EXCEPT ![p] = <<>>],
             taken' = taken \/ taken' = [taken EXCEPT ![p] = {}],
             p \in Clients \/ pc[p] \in Unsent,
             taken'[p] # {} => pc'[p] \in {"log expired", "send expired"},
             log' \in Seq(Frames), base' \in Seq(Frames), buffer' \in Seq(Frames),
             stream' \in Seq(Frames), rewriting' = rewriting
      PROVE  CopyTypes'
  <2>1. <<>> \in Seq(Frames)
    OBVIOUS
  <2>2. frames' \in [Procs -> Seq(Frames)] /\ (frames'[p] = frames[p] \/ frames'[p] = <<>>)
    BY ZenonT(40), <1>1, <1>8, <2>1
  <2>3. taken' \in [Procs -> SUBSET Keys] /\ \A q \in Procs : q # p => taken'[q] = taken[q]
    BY Zenon, <1>1, <1>8
  <2>4. Shape(p)'
    BY ZenonT(40), <1>1, <1>5, <1>8, <2>2, ShapeKept
  <2> QED
    BY ZenonT(40), <1>5, <1>6, <1>7, <1>8, <2>2, <2>3, <2>4, TypesOf
<1>9. CASE LogExpired(p)
  <2>1. /\ frames' = frames /\ taken' = taken /\ pc[p] \in Unsent /\ pc'[p] = "send expired"
        /\ WriteLog(<<ExpiredFrame(p)>>) /\ stream' = stream
    BY Zenon, <1>1, <1>9 DEF LogExpired, Step, Unsent, Unlogged, replicaVars
  <2> QED
    BY ZenonT(40), <1>1, <1>2, <1>4, <1>8, <2>1
<1>10. CASE SendExpired(p)
  <2>1. /\ frames' = frames /\ taken' = [taken EXCEPT ![p] = {}] /\ pc[p] \in Unsent
        /\ stream' = stream \o <<ExpiredFrame(p)>> /\ taken'[p] = {}
        /\ UNCHANGED <<log, base, buffer, rewriting>>
    BY Zenon, <1>1, <1>10 DEF SendExpired, Step, Unsent, Unlogged, fileVars
  <2> QED
    BY ZenonT(40), <1>1, <1>2, <1>3, <1>8, <2>1
<1>11. CASE p \in Clients /\ LogFrames(p)
  <2>1. /\ frames' = frames /\ taken' = taken /\ pc[p] = "append"
        /\ WriteLog(frames[p]) /\ stream' = stream
    BY Zenon, <1>1, <1>11 DEF LogFrames, replicaVars
  <2>2. taken[p] = {}
    BY Zenon, <1>1, <2>1 DEF Shape
  <2> QED
    BY ZenonT(40), <1>1, <1>4, <1>8, <1>11, <2>1, <2>2
<1>12. CASE p \in Clients /\ Send(p)
  <2>1. /\ frames' = [frames EXCEPT ![p] = <<>>] /\ taken' = taken /\ pc[p] = "send"
        /\ stream' = stream \o frames[p] /\ UNCHANGED <<log, base, buffer, rewriting>>
    BY Zenon, <1>1, <1>12 DEF Send, Emits, fileVars
  <2>2. taken[p] = {}
    BY Zenon, <1>1, <2>1 DEF Shape
  <2> QED
    BY ZenonT(40), <1>1, <1>3, <1>8, <1>12, <2>1, <2>2
<1> QED
  BY ZenonT(40), <1>9, <1>10, <1>11, <1>12

\* Installing the rewritten file keeps CopyTypes.
LEMMA InstallTypes ==
  ASSUME CopyTypes, Install
  PROVE  CopyTypes'
<1>1. /\ pc \in [Procs -> PcValues] /\ frames \in [Procs -> Seq(Frames)] /\ noted \subseteq Keys
      /\ taken \in [Procs -> SUBSET Keys] /\ Shape(Rewriter) /\ Rewriter \in Procs
      /\ log \in Seq(Frames) /\ base \in Seq(Frames) /\ buffer \in Seq(Frames)
      /\ stream \in Seq(Frames)
  BY Zenon DEF CopyTypes, Procs
<1>2. base \o buffer \in Seq(Frames) /\ <<>> \in Seq(Frames)
  BY <1>1
<1>3. /\ log' \in Seq(Frames) /\ base' \in Seq(Frames) /\ buffer' \in Seq(Frames)
  BY Zenon, <1>1, <1>2 DEF Install
<1>4. /\ cast' = cast /\ clock' = clock /\ db' = db /\ noted' = noted /\ OthersStay(Rewriter)
      /\ pc' \in [Procs -> PcValues] /\ pc[Rewriter] = "installing" /\ pc'[Rewriter] = "idle"
      /\ frames' = frames /\ taken' = taken /\ stream' = stream
  BY Zenon, <1>1 DEF Install, Step, PcValues, OthersStay, run, replicaVars
<1>5. taken[Rewriter] = {} /\ pc'[Rewriter] \notin Unsent
  BY Zenon, <1>1, <1>4 DEF Shape, Unsent, Unlogged
<1>6. Shape(Rewriter)'
  BY Zenon, <1>1, <1>4, <1>5, ShapeKept
<1>7. Typed(db') /\ pc'[Rewriter] # "installing"
  BY Zenon, <1>4, CopyTypesTyped
<1> QED
  BY ZenonT(40), <1>1, <1>3, <1>4, <1>6, <1>7, TypesOf

\* Steps that change the keyspace.
LEMMA ChangesTypes ==
  ASSUME CopyTypes, NEW p \in Procs, OthersStay(p), pc[p] = "locking",
         pc' = [pc EXCEPT ![p] = "idle"] \/ pc' = [pc EXCEPT ![p] = "publish"]
            \/ pc' = [pc EXCEPT ![p] = "append"],
         Typed(db'), noted' \subseteq Keys, frames' \in [Procs -> Seq(Frames)],
         p \in Clients \/ frames'[p] = <<>>,
         Len(frames'[p]) \in 0..2,
         Len(frames'[p]) = 2 =>
            frames'[p][2].op = "del" /\ frames'[p][1].keys \cap frames'[p][2].keys = {},
         UNCHANGED <<cast, clock, taken, log, base, buffer, rewriting, stream>>
  PROVE  CopyTypes'
<1>1. /\ pc \in [Procs -> PcValues] /\ taken \in [Procs -> SUBSET Keys] /\ Shape(p)
      /\ Rewriter \in Procs
  BY Zenon DEF CopyTypes, Procs
<1>2. pc'[p] \in {"idle", "publish", "append"} /\ pc' \in [Procs -> PcValues]
  BY Zenon, <1>1 DEF PcValues
<1>3. taken[p] = {}
  BY Zenon, <1>1 DEF Shape
<1>4. Shape(p)'
  BY Zenon, <1>2, <1>3 DEF Shape
<1>5. pc'[Rewriter] = "installing" => pc[Rewriter] = "installing"
  BY Zenon, <1>1, <1>2 DEF OthersStay
<1>6. /\ log' \in Seq(Frames) /\ base' \in Seq(Frames) /\ buffer' \in Seq(Frames)
      /\ stream' \in Seq(Frames) /\ (pc'[Rewriter] = "installing" => rewriting')
      /\ taken' \in [Procs -> SUBSET Keys] /\ \A q \in Procs : q # p => taken'[q] = taken[q]
  BY Zenon, <1>1, <1>5 DEF CopyTypes
<1> QED
  BY ZenonT(40), <1>2, <1>4, <1>6, TypesOf

\* A request that changes a key keeps CopyTypes.
LEMMA ChangeTypes ==
  ASSUME CopyTypes, NEW p \in Clients, Change(p) \/ ChangeInPlace(p)
  PROVE  CopyTypes'
<1>1. /\ pc \in [Procs -> PcValues] /\ p \in Procs /\ Shape(p) /\ noted \subseteq Keys
      /\ frames \in [Procs -> Seq(Frames)] /\ pc[p] = "locking" /\ Len(frames[p]) = 1
  BY Zenon DEF CopyTypes, Procs, Change, ChangeInPlace, Holds, Shape
<1>2. OthersStay(p) /\ frames' = frames /\ noted' = noted
  BY Zenon, <1>1 DEF OthersStay, Change, ChangeInPlace, Step
<1>3. db' = Execute(db, frames[p][1], clock[p])
  BY Zenon DEF Change, ChangeInPlace
<1>4. pc' = [pc EXCEPT ![p] = "publish"] \/ pc' = [pc EXCEPT ![p] = "append"]
  BY Zenon DEF Change, ChangeInPlace, Step
<1>5. UNCHANGED <<cast, clock, taken, log, base, buffer, rewriting, stream>>
  BY Zenon DEF Change, ChangeInPlace, run, fileVars, replicaVars
<1>6. frames[p][1] \in Frames
  <2>1. 1 \in 1..Len(frames[p])
    BY <1>1
  <2> QED
    BY Zenon, <1>1, <2>1, FramesFit
<1>7. Typed(db')
  BY Zenon, <1>3, <1>6, CopyTypesTyped, ExecuteTyped
<1>8. /\ Len(frames'[p]) \in 0..2
      /\ Len(frames'[p]) = 2 =>
            frames'[p][2].op = "del" /\ frames'[p][1].keys \cap frames'[p][2].keys = {}
  BY Zenon, <1>1, <1>2 DEF Shape
<1> QED
  BY ZenonT(40), <1>1, <1>2, <1>4, <1>5, <1>7, <1>8, ChangesTypes

\* The expiry cycle and refused requests keep CopyTypes.
LEMMA SweepsTypes ==
  ASSUME CopyTypes, \/ Sweep
                    \/ \E p \in Clients : ChangeRefused(p)
  PROVE  CopyTypes'
<1>1. /\ pc \in [Procs -> PcValues] /\ frames \in [Procs -> Seq(Frames)] /\ noted \subseteq Keys
      /\ Sweeper \in Procs /\ Clients \subseteq Procs /\ Typed(db)
  BY Zenon, CopyTypesTyped DEF CopyTypes, Procs
<1>2. <<>> \in Seq(Frames)
  BY Zenon, EmptyFits
<1>3. \A c : ExpiredKeys(db, c) \subseteq Keys
  BY Zenon, <1>1 DEF ExpiredKeys, Typed
<1>4. CASE Sweep
  <2>1. /\ pc[Sweeper] = "locking" /\ OthersStay(Sweeper) /\ frames'[Sweeper] = <<>>
        /\ frames' \in [Procs -> Seq(Frames)]
        /\ UNCHANGED <<cast, clock, taken, log, base, buffer, rewriting, stream>>
    BY Zenon, <1>1, <1>2, <1>4 DEF Sweep, Holds, OthersStay, Step, Emits, run, fileVars, replicaVars
  <2>2. pc' = [pc EXCEPT ![Sweeper] = "idle"] \/ pc' = [pc EXCEPT ![Sweeper] = "publish"]
    BY Zenon, <1>4 DEF Sweep, Step
  <2>3. Typed(db')
    BY Zenon, <1>1, <1>4, WithoutTyped DEF Sweep
  <2>4. noted' \subseteq Keys
    BY Zenon, <1>1, <1>3, <1>4 DEF Sweep
  <2>5. Len(frames'[Sweeper]) \in 0..2 /\ Len(frames'[Sweeper]) # 2
    BY Zenon, <2>1, EmptyFits
  <2> QED
    BY ZenonT(40), <1>1, <2>1, <2>2, <2>3, <2>4, <2>5, ChangesTypes
<1>5. ASSUME NEW p \in Clients, ChangeRefused(p) PROVE CopyTypes'
  <2>1. /\ pc[p] = "locking" /\ OthersStay(p) /\ frames'[p] = <<>>
        /\ frames' \in [Procs -> Seq(Frames)] /\ p \in Procs
        /\ UNCHANGED <<cast, clock, taken, log, base, buffer, rewriting, stream>>
    BY ZenonT(40), <1>1, <1>2, <1>5 DEF ChangeRefused, Holds, OthersStay, Step, Emits, run, fileVars,
                                   replicaVars
  <2>2. pc' = [pc EXCEPT ![p] = "publish"]
    BY ZenonT(40), <1>5 DEF ChangeRefused, Step
  <2>3. Typed(db')
    BY Zenon, <1>1, <1>5, WithoutTyped DEF ChangeRefused
  <2>4. noted' \subseteq Keys
    BY Zenon, <1>1, <1>3, <1>5 DEF ChangeRefused, Swept
  <2>5. Len(frames'[p]) \in 0..2 /\ Len(frames'[p]) # 2
    BY ZenonT(40), <2>1, EmptyFits
  <2> QED
    BY ZenonT(40), <1>1, <2>1, <2>2, <2>3, <2>4, <2>5, ChangesTypes
<1> QED
  BY Zenon, <1>4, <1>5

\* A request that evicts keys keeps CopyTypes.
LEMMA ChangeWithEvictionTypes ==
  ASSUME CopyTypes, NEW p \in Clients, NEW victims, ChangeWithEviction(p, victims)
  PROVE  CopyTypes'
<1> DEFINE f == frames[p][1]
           g == DelFrame(victims)
           fs == <<f>> \o EvictedFrames(victims)
<1>1. /\ pc \in [Procs -> PcValues] /\ p \in Procs /\ Shape(p) /\ noted \subseteq Keys
      /\ frames \in [Procs -> Seq(Frames)] /\ pc[p] = "locking" /\ Len(frames[p]) = 1
      /\ Typed(db)
  BY Zenon, CopyTypesTyped DEF CopyTypes, Procs, ChangeWithEviction, Holds, Shape
<1>2. f \in Frames /\ f.op \in Ops
  <2>1. 1 \in 1..Len(frames[p])
    BY <1>1
  <2> QED
    BY Zenon, <1>1, <2>1, FramesFit
<1>3. /\ victims \subseteq DOMAIN Live(db, now) \ f.keys
      /\ db' = With(Without(db, Swept(p) \cup victims), Restrict(Execute(db, f, clock[p]), f.keys))
      /\ noted' = noted \cup Swept(p) /\ f.op # "del"
      /\ UNCHANGED <<cast, clock, taken, log, base, buffer, rewriting, stream>>
      /\ pc' = [pc EXCEPT ![p] = "publish"] /\ frames' = [frames EXCEPT ![p] = fs]
  BY Zenon DEF ChangeWithEviction, Step, Emits, run, fileVars, replicaVars
<1>4. victims \subseteq Keys
  BY Zenon, <1>1, <1>3, LiveShows DEF Typed, Shows
<1>5. g \in Frames
  <2>1. "del" \in Ops /\ Value(0, 0) \in Values
    BY DEF Ops, Value, Values
  <2> QED
    BY SMTT(40), <1>4, <2>1 DEF DelFrame, Frames
<1>6. fs \in Seq(Frames)
  <2>1. EvictedFrames(victims) = <<>> \/ EvictedFrames(victims) = <<g>>
    BY Zenon DEF EvictedFrames
  <2> HIDE DEF f, g
  <2>2. <<f>> \o <<>> \in Seq(Frames) /\ <<f>> \o <<g>> \in Seq(Frames)
    BY SMTT(40), <1>2, <1>5
  <2> QED
    BY Zenon, <2>1, <2>2 DEF f, g
<1>7. /\ Len(fs) \in 1..2 /\ fs[1] = f /\ (Len(fs) = 2 => fs[2] = DelFrame(victims))
  BY Zenon, EvictionFrames
<1>8. Len(fs) \in 0..2
  <2> DEFINE l == Len(fs)
  <2>1. l \in 1..2
    BY Zenon, <1>7
  <2> HIDE DEF l
  <2>2. l \in 0..2
    BY ONLY <2>1
  <2> QED
    BY Zenon, <2>2 DEF l
<1>9. g.op = "del" /\ g.keys = victims
  BY Zenon DEF DelFrame
<1>10. Typed(db')
  <2> DEFINE e == Execute(db, f, clock[p])
  <2>1. Typed(e)
    BY Zenon, <1>1, <1>2, ExecuteTyped
  <2>2. \A k \in f.keys : k \in DOMAIN e
    BY Zenon, <1>2, <1>3, SetGives, IncrGives DEF Ops
  <2> HIDE DEF e
  <2>3. Typed(Without(db, Swept(p) \cup victims))
    BY Zenon, <1>1, WithoutTyped
  <2>4. DOMAIN Restrict(e, f.keys) = f.keys /\ \A k \in f.keys : Restrict(e, f.keys)[k] = e[k]
    BY Zenon DEF Restrict
  <2>5. Typed(Restrict(e, f.keys))
    BY Zenon, <2>1, <2>2, <2>4 DEF Typed
  <2>6. \A a, b : Typed(a) /\ Typed(b) => Typed(With(a, b))
    BY Zenon DEF Typed, With
  <2> QED
    BY Zenon, <1>3, <2>3, <2>5, <2>6 DEF e
<1>11. Swept(p) \subseteq Keys
  BY Zenon, <1>1 DEF Swept, ExpiredKeys, Typed
<1>12. OthersStay(p) /\ frames'[p] = fs /\ frames' \in [Procs -> Seq(Frames)]
  <2>1. now' = now
    BY Zenon DEF ChangeWithEviction
  <2> HIDE DEF fs
  <2> QED
    BY ZenonT(40), <1>1, <1>3, <1>6, <2>1 DEF OthersStay
<1>13. f.keys \cap victims = {}
  BY Zenon, <1>3
<1>14. Len(fs) = 2 => fs[2].op = "del" /\ fs[1].keys \cap fs[2].keys = {}
  BY Zenon, <1>7, <1>9, <1>13
<1> HIDE DEF fs
<1>15. /\ Len(frames'[p]) \in 0..2
       /\ Len(frames'[p]) = 2 =>
             frames'[p][2].op = "del" /\ frames'[p][1].keys \cap frames'[p][2].keys = {}
  BY Zenon, <1>8, <1>12, <1>14
<1>16. noted' \subseteq Keys
  BY ZenonT(40), <1>1, <1>3, <1>11
<1> QED
  BY ZenonT(40), <1>1, <1>3, <1>10, <1>12, <1>15, <1>16, ChangesTypes

(***************************************************************************)
(* Every step keeps CopyInv.                                               *)
(***************************************************************************)

\* Stuttering and locking keep CopyInv.
LEMMA StillKeeps ==
  ASSUME CopyInv,
         \/ UNCHANGED vars
         \/ RLock
         \/ \E p \in Procs : Lock(p) \/ Locked(p)
  PROVE  CopyInv'
<1>1. /\ UNCHANGED <<now, db, pc, frames, noted, taken, excused>>
      /\ UNCHANGED <<log, base, buffer, rewriting, replica, stream>> /\ UNCHANGED <<cast, clock>>
  BY Zenon DEF vars, RLock, Lock, Locked, run, fileVars, replicaVars
<1>2. \A k \in Keys : Excused(k)' \/ KeyInv(k)'
  BY Zenon, <1>1, StillKeepsKeys
<1>3. CopyTypes'
  BY Zenon, <1>1, StillTypes DEF CopyInv
<1> QED
  BY Zenon, <1>2, <1>3 DEF CopyInv

\* Starting an activity keeps CopyInv.
LEMMA BeginsKeep ==
  ASSUME CopyInv,
         \/ \E p \in Clients : Request(p)
         \/ BeginSweep
         \/ BeginRewrite
         \/ BeginSnapshot
  PROVE  CopyInv'
<1>1. CopyTypes'
  BY Zenon, RequestTypes, BeginsTypes DEF CopyInv
<1>2. \E p \in Procs : \E ss : Begin(p, ss) /\ (frames' = frames \/ \E fs : Emits(p, fs))
  BY Zenon DEF Request, BeginSweep, BeginRewrite, BeginSnapshot, Procs
<1>3. \A k \in Keys : Excused(k)' \/ KeyInv(k)'
  BY ZenonT(40), <1>2, BeginKeepsKeys
<1> QED
  BY ZenonT(40), <1>1, <1>3 DEF CopyInv

\* The steps that serve a request keep CopyInv.
LEMMA ServesKeeps ==
  ASSUME CopyInv, NEW p \in Clients, Serves(p)
  PROVE  CopyInv'
<1>0. CopyTypes /\ p \in Procs
  BY Zenon DEF CopyInv, Procs
<1>1. CASE Change(p) \/ ChangeInPlace(p)
  BY ZenonT(40), <1>0, <1>1, ChangeTypes, ChangeKeepsKeys DEF CopyInv
<1>2. CASE ChangeRefused(p)
  BY ZenonT(40), <1>0, <1>2, SweepsTypes, ChangeRefusedKeepsKeys DEF CopyInv
<1>3. CASE \E victims \in SUBSET Keys : ChangeWithEviction(p, victims)
  BY ZenonT(40), <1>0, <1>3, ChangeWithEvictionTypes, ChangeWithEvictionKeepsKeys DEF CopyInv
<1>4. CASE LogFrames(p)
  BY ZenonT(40), <1>0, <1>4, WritesTypes, LogFramesKeepsKeys DEF CopyInv
<1>5. CASE LogFramesFails(p)
  BY ZenonT(40), <1>0, <1>5, QuietTypes, LogFramesFailsKeepsKeys DEF CopyInv
<1>6. CASE Send(p)
  BY ZenonT(40), <1>0, <1>6, WritesTypes, SendKeepsKeys DEF CopyInv
<1> QED
  BY ZenonT(40), <1>1, <1>2, <1>3, <1>4, <1>5, <1>6 DEF Serves

\* The steps that publish frames keep CopyInv.
LEMMA WorksKeeps ==
  ASSUME CopyInv, NEW p \in Procs, Works(p)
  PROVE  CopyInv'
<1>0. CopyTypes
  BY Zenon DEF CopyInv
<1>1. CASE Lock(p) \/ Locked(p)
  BY Zenon, <1>1, StillKeeps
<1>2. CASE Take(p)
  BY ZenonT(40), <1>0, <1>2, QuietTypes, TakeKeepsKeys DEF CopyInv
<1>3. CASE LogExpired(p)
  BY ZenonT(40), <1>0, <1>3, WritesTypes, LogExpiredKeepsKeys DEF CopyInv
<1>4. CASE LogExpiredFails(p)
  BY ZenonT(40), <1>0, <1>4, QuietTypes, LogExpiredFailsKeepsKeys DEF CopyInv
<1>5. CASE SendExpired(p)
  BY ZenonT(40), <1>0, <1>5, WritesTypes, SendExpiredKeepsKeys DEF CopyInv
<1> QED
  BY ZenonT(40), <1>1, <1>2, <1>3, <1>4, <1>5 DEF Works

\* The clock, the expiry cycle, the installation and the replica keep CopyInv.
LEMMA OthersKeep ==
  ASSUME CopyInv,
         \/ TimePasses
         \/ SnapshotStrings
         \/ Sweep
         \/ Install
         \/ Apply
  PROVE  CopyInv'
<1>0. CopyTypes /\ Reader \in Procs
  BY Zenon DEF CopyInv, Procs
<1>1. CASE TimePasses
  BY ZenonT(40), <1>0, <1>1, TimePassesTypes, TimePassesKeepsKeys DEF CopyInv
<1>2. CASE SnapshotStrings
  BY ZenonT(40), <1>0, <1>2, QuietTypes, SnapshotStringsKeepsKeys DEF CopyInv
<1>3. CASE Sweep
  BY Zenon, <1>0, <1>3, SweepsTypes, SweepKeepsKeys DEF CopyInv
<1>4. CASE Install
  BY Zenon, <1>0, <1>4, InstallTypes, InstallKeepsKeys DEF CopyInv
<1>5. CASE Apply
  BY ZenonT(40), <1>0, <1>5, ApplyTypes, ApplyKeepsKeys DEF CopyInv
<1> QED
  BY ZenonT(40), <1>1, <1>2, <1>3, <1>4, <1>5

\* At first there is nothing in any copy.
LEMMA CopyInvInit ==
  ASSUME Init
  PROVE  CopyInv
<1>1. 0 \in Nat /\ 0 <= 0 /\ <<>> \in Seq(Frames) /\ <<>> \o <<>> = <<>> /\ DOMAIN <<>> = {}
  OBVIOUS
<1>2. Len(<<>>) \in 0..2 /\ Len(<<>>) # 2
  BY Zenon, EmptyFits
<1>3. \A p \in Procs : pc[p] = "idle" /\ frames[p] = <<>> /\ taken[p] = {}
  BY Zenon DEF Init
<1>4. \A p \in Procs : Shape(p)
  BY Zenon, <1>2, <1>3 DEF Shape, Unsent, Unlogged
<1>5. /\ cast \in Casts /\ now \in Nat /\ pc \in [Procs -> PcValues]
      /\ clock \in [Procs -> Nat] /\ \A p \in Procs : clock[p] <= now
      /\ frames \in [Procs -> Seq(Frames)] /\ taken \in [Procs -> SUBSET Keys]
  BY Zenon, <1>1 DEF Init, PcValues
<1>6. Rewriter \in Procs
  BY Zenon DEF Procs
<1>7. CopyTypes
  BY ZenonT(40), <1>1, <1>3, <1>4, <1>5, <1>6 DEF Init, CopyTypes
<1>8. ASSUME NEW k \in Keys PROVE KeyInv(k)
  <2>1. \A p \in Procs : Share(p, k, Unsent) = {} /\ Share(p, k, Unlogged) = {}
    BY Zenon, <1>3, NothingShared
  <2>2. Pending(k, Unsent) = {} /\ Pending(k, Unlogged) = {}
    BY Zenon, <2>1 DEF Pending
  <2>3. ~Expiring(k)
    BY Zenon, <1>3 DEF Expiring, Init
  <2>4. \A n : Tracks(n, <<>>, <<>>, <<>>, k, {})
    <3>1. \A n, e : Yields(n, <<>>, <<>>, e) => e = <<>>
      BY SMTT(40), YieldsNothing
    <3>2. \A n : Same(<<>>, <<>>, k, n)
      BY Zenon DEF Same
    <3> QED
      BY Zenon, <3>1, <3>2 DEF Tracks
  <2>5. db = <<>> /\ log = <<>> /\ rewriting = FALSE /\ replica = <<>> /\ stream = <<>>
    BY Zenon DEF Init
  <2> QED
    BY ZenonT(40), <2>1, <2>2, <2>3, <2>4, <2>5 DEF KeyInv, KeyAlone, KeyFile, KeyReplica
<1> QED
  BY Zenon, <1>7, <1>8 DEF CopyInv

\* A copy that tracks the keyspace shows what the keyspace shows.
LEMMA TrackedIsShown ==
  ASSUME NEW d, NEW h, NEW k, NEW n \in Nat, Same(d, h, k, n), NEW t \in Nat, t >= n
  PROVE  At(Live(d, t), k) = At(Live(h, t), k)
<1>1. (Shows(d, k, t) <=> Shows(h, k, t)) /\ (Shows(d, k, t) => d[k] = h[k])
  BY Zenon DEF Same
<1> QED
  BY Zenon, <1>1, LiveShows DEF At

\* The frames of a snapshot are frames.
LEMMA SnapshotTypes ==
  ASSUME NEW h, Typed(h), Listed(DOMAIN h)
  PROVE  SnapshotFrames(h) \in Seq(Frames)
<1> DEFINE N == Cardinality(DOMAIN h)
           ks == CHOOSE s \in Bijection(1..N, DOMAIN h) : TRUE
           fs == SnapshotFrames(h)
<1>1. N \in Nat /\ ks \in Bijection(1..N, DOMAIN h)
  BY Zenon DEF Listed
<1>2. ks \in [1..N -> DOMAIN h]
  BY Zenon, <1>1 DEF Bijection, Injection, Surjection
<1>3. fs = [i \in 1..N |-> SetFrame({ks[i]}, h[ks[i]].n, h[ks[i]].exp)]
  BY Zenon, <1>2 DEF SnapshotFrames
<1> HIDE DEF ks, fs, N
<1>4. ASSUME NEW i \in 1..N PROVE SetFrame({ks[i]}, h[ks[i]].n, h[ks[i]].exp) \in Frames
  <2>1. h[ks[i]] \in Values /\ ks[i] \in Keys
    BY Zenon, <1>2 DEF Typed
  <2>2. \A x \in Keys, v \in Values : SetFrame({x}, v.n, v.exp) \in Frames
    BY DEF SetFrame, Value, Values, Frames, Ops
  <2> QED
    BY Zenon, <2>1, <2>2
<1>5. fs \in [1..N -> Frames]
  BY Zenon, <1>3, <1>4
<1>6. fs \in Seq(Frames)
  BY SMTT(40), <1>1, <1>5
<1> QED
  BY Zenon, <1>6 DEF fs

\* The barrier of a rewrite keeps CopyInv when its snapshot is the keyspace: the
\* counters whose frames wait are excused, and other frames overwrite.
LEMMA BarrierKeeps ==
  ASSUME CopyInv, Barrier, SnapshotFrames(Live(db, now)) \in Seq(Frames),
         \A k : Tracks(now, db, <<>>, SnapshotFrames(Live(db, now)), k, {})
  PROVE  CopyInv'
<1>1. /\ CopyTypes /\ Rewriter \in Procs /\ pc \in [Procs -> PcValues]
      /\ frames \in [Procs -> Seq(Frames)] /\ taken \in [Procs -> SUBSET Keys]
      /\ Shape(Rewriter) /\ now \in Nat /\ Typed(db)
  BY Zenon, CopyTypesTyped DEF CopyInv, CopyTypes, Procs
<1>2. /\ UNCHANGED <<cast, now, db, clock, frames, noted, taken, log, stream, replica>>
      /\ base' = SnapshotFrames(Live(db, now)) /\ buffer' = <<>> /\ rewriting' = TRUE
      /\ excused' = excused \cup CountedTwice
      /\ pc[Rewriter] = "locking" /\ pc' = [pc EXCEPT ![Rewriter] = "installing"]
  BY Zenon DEF Barrier, Holds, Step, run, replicaVars
<1>3. pc'[Rewriter] = "installing" /\ pc' \in [Procs -> PcValues] /\ OthersStay(Rewriter)
  BY Zenon, <1>1, <1>2 DEF PcValues, OthersStay
<1>4. pc[Rewriter] \notin Unsent /\ pc'[Rewriter] \notin Unsent
  BY Zenon, <1>2, <1>3 DEF Unsent, Unlogged
<1>6. base' \in Seq(Frames) /\ buffer' \in Seq(Frames)
  BY ZenonT(40), <1>2, EmptyFits
<1>7. CopyTypes'
  <2>1. taken[Rewriter] = {}
    BY Zenon, <1>1, <1>2 DEF Shape
  <2>2. Shape(Rewriter)'
    BY ZenonT(40), <1>1, <1>2, <1>3, <1>4, <2>1, ShapeKept
  <2>3. noted' \subseteq Keys /\ log' \in Seq(Frames) /\ stream' \in Seq(Frames)
    BY Zenon, <1>1, <1>2 DEF CopyTypes
  <2> QED
    BY ZenonT(40), <1>1, <1>2, <1>3, <1>6, <2>2, <2>3, TypesOf
<1>8. ASSUME NEW k \in Keys, ~Excused(k)' PROVE KeyInv(k)'
  <2>1. KeyInv(k)
    BY ZenonT(40), <1>2, <1>8 DEF CopyInv, Excused
  <2>2. \A q \in Procs : /\ Share(q, k, Unsent)' = Share(q, k, Unsent)
                         /\ Share(q, k, Unlogged)' = Share(q, k, Unlogged)
    BY ZenonT(40), <1>1, <1>3, <1>4, SharesSame
  <2>3. Same(db, db', k, now)
    BY Zenon, <1>2 DEF Same
  <2>4. Expiring(k)' => Pending(k, Unsent) = {} /\ Hidden(k)
    BY ZenonT(40), <1>2, <2>1 DEF Expiring, KeyInv, KeyAlone
  <2>5. KeyAlone(k)' /\ KeyReplica(k)'
    BY ZenonT(40), <1>2, <2>1, <2>2, <2>3, <2>4, AloneStays, ReplicaStays DEF KeyInv
  <2>6. Pending(k, Unlogged)' = Pending(k, Unlogged)
    BY Zenon, <2>2, SharesStay
  <2>7. \A f \in Pending(k, Unlogged) : f.op # "incr"
    <3> SUFFICES ASSUME NEW q \in Procs, NEW f \in Share(q, k, Unlogged), f.op = "incr"
                 PROVE  FALSE
      BY Zenon DEF Pending
    <3>1. pc[q] \in Unlogged /\ \E i \in 1..Len(frames[q]) : f = frames[q][i] /\ k \in frames[q][i].keys
      BY Zenon DEF Share
    <3>2. PICK i \in 1..Len(frames[q]) : f = frames[q][i] /\ k \in frames[q][i].keys
      BY Zenon, <3>1
    <3>3. Shape(q) /\ Len(frames[q]) \in 0..2 /\ (Len(frames[q]) = 2 => frames[q][2].op = "del")
      BY Zenon, <1>1 DEF CopyTypes, Shape
    <3>4. i = 1
      <4> DEFINE l == Len(frames[q])
      <4>1. l \in 0..2 /\ i \in 1..l
        BY Zenon, <3>2, <3>3
      <4> HIDE DEF l
      <4>2. i = 1 \/ (i = 2 /\ l = 2)
        BY ONLY SMTT(40), <4>1
      <4>3. ~(i = 2 /\ l = 2)
        BY Zenon, <3>2, <3>3 DEF l
      <4> QED
        BY Zenon, <4>2, <4>3
    <3>5. frames[q] # <<>>
      <4>1. 1..Len(<<>>) = {}
        OBVIOUS
      <4> QED
        BY Zenon, <3>2, <4>1
    <3>6. q \in Clients
      BY Zenon, <3>1, <3>3, <3>5 DEF Shape, Unsent
    <3>7. k \in UNION {frames[p][1].keys :
                 p \in {p \in Clients : pc[p] \in {"publish", "log expired", "send expired", "append"}
                                        /\ frames[p] # <<>> /\ frames[p][1].op = "incr"}}
      BY ZenonT(40), <3>1, <3>2, <3>4, <3>5, <3>6 DEF Unlogged
    <3>8. <<k, "overlap">> \in excused'
      BY Zenon, <1>2, <3>7 DEF CountedTwice
    <3>9. <<k, "overlap">>[1] = k
      OBVIOUS
    <3> QED
      BY Zenon, <1>8, <3>8, <3>9 DEF Excused
  <2>8. Tracks(now, db, <<>>, SnapshotFrames(Live(db, now)), k, Pending(k, Unlogged))
    <3>1. CASE Pending(k, Unlogged) = {}
      BY Zenon, <3>1
    <3>2. CASE Pending(k, Unlogged) # {}
      BY Zenon, <2>7, <3>2 DEF Tracks
    <3> QED
      BY Zenon, <3>1, <3>2
  <2>9. base' \o buffer' = SnapshotFrames(Live(db, now))
    <3>1. \A s \in Seq(Frames) : s \o <<>> = s
      OBVIOUS
    <3> QED
      BY ZenonT(40), <1>2, <1>6, <3>1
  <2>10. KeyFile(k)'
    <3>1. Tracks(now, db, <<>>, log, k, Pending(k, Unlogged))
      BY Zenon, <2>1 DEF KeyInv, KeyFile
    <3> QED
      BY ZenonT(40), <1>2, <2>6, <2>8, <2>9, <3>1 DEF KeyFile
  <2> QED
    BY Zenon, <2>5, <2>10 DEF KeyInv
<1> QED
  BY Zenon, <1>7, <1>8 DEF CopyInv

\* CopyInv says of settled keys what CopiesAgree says.
LEMMA CopyInvAgrees == ASSUME Stepwise PROVE CopyInv => CopiesAgree
<1> SUFFICES ASSUME CopyInv, NEW t \in now..MaxTime, NEW k \in Keys, Settled(k)
             PROVE  /\ At(Live(Replay(log, t), t), k) = At(Live(db, t), k)
                    /\ rewriting => At(Live(Replay(base \o buffer, t), t), k) = At(Live(db, t), k)
                    /\ stream = <<>> => At(Live(replica, t), k) = At(Live(db, t), k)
  BY Zenon DEF CopiesAgree
<1>1. CopyTypes /\ now \in Nat
  BY Zenon DEF CopyInv, CopyTypes
<1>2. t \in Nat /\ t >= now
  BY SMTT(40), <1>1
<1>3. KeyInv(k)
  <2>0. k \notin {e[1] : e \in excused}
    BY Zenon DEF Settled
  <2>1. ~Excused(k)
    BY Zenon, <2>0 DEF Excused
  <2> QED
    BY Zenon, <2>1 DEF CopyInv
<1>4. Pending(k, Unsent) = {} /\ Pending(k, Unlogged) = {}
  <2>1. \A p \in Procs : k \notin Dirty(p)
    BY Zenon DEF Settled
  <2>2. \A p \in Procs : Share(p, k, Unsent) = {}
    BY Zenon, <1>1, <2>1, DirtyShares
  <2>3. Pending(k, Unsent) = {}
    BY Zenon, <2>2 DEF Pending
  <2> QED
    BY Zenon, <2>3, ShareParts
<1>5. At(Live(Replay(log, t), t), k) = At(Live(db, t), k)
  <2>1. log \in Seq(Frames)
    BY Zenon, <1>1 DEF CopyTypes
  <2>2. Yields(now, <<>>, log, Replay(log, t))
    BY ZenonT(40), <1>1, <1>2, <2>1, ReplayYields
  <2>3. Same(Replay(log, t), db, k, now)
    BY ZenonT(40), <1>3, <1>4, <2>2 DEF KeyInv, KeyFile, Tracks
  <2> QED
    BY ONLY SMTT(40), <1>1, <1>2, <2>3, TrackedIsShown
<1>6. ASSUME rewriting PROVE At(Live(Replay(base \o buffer, t), t), k) = At(Live(db, t), k)
  <2>1. base \o buffer \in Seq(Frames)
    <3>1. base \in Seq(Frames) /\ buffer \in Seq(Frames)
      BY Zenon, <1>1 DEF CopyTypes
    <3> QED
      BY ONLY SMTT(40), <3>1
  <2> DEFINE file == base \o buffer
  <2>2. file \in Seq(Frames) /\ Tracks(now, db, <<>>, file, k, {})
    BY ZenonT(40), <1>3, <1>4, <1>6, <2>1 DEF KeyInv, KeyFile
  <2> HIDE DEF file
  <2>3. Yields(now, <<>>, file, Replay(file, t))
    BY ZenonT(40), <1>1, <1>2, <2>2, ReplayYields
  <2>4. Same(Replay(file, t), db, k, now)
    BY Zenon, <2>2, <2>3 DEF Tracks
  <2>5. At(Live(Replay(file, t), t), k) = At(Live(db, t), k)
    BY ONLY SMTT(40), <1>1, <1>2, <2>4, TrackedIsShown
  <2> QED
    BY Zenon, <2>5 DEF file
<1>7. ASSUME stream = <<>> PROVE At(Live(replica, t), k) = At(Live(db, t), k)
  <2>1. Yields(now, replica, <<>>, replica)
    BY YieldsNothing
  <2>2. Same(replica, db, k, now)
    BY ZenonT(40), <1>3, <1>4, <1>7, <2>1 DEF KeyInv, KeyReplica, Tracks
  <2> QED
    BY ONLY SMTT(40), <1>1, <1>2, <2>2, TrackedIsShown
<1> QED
  BY ZenonT(40), <1>5, <1>6, <1>7

(***************************************************************************)
(* The two hypotheses discharged, and the theorem.                         *)
(***************************************************************************)

INSTANCE WellFoundedInduction
INSTANCE FiniteSetTheorems

\* A set of natural numbers that is not empty has a least element.
LEMMA LeastNatural ==
  ASSUME NEW T \in SUBSET Nat, T # {}
  PROVE  \E x \in T : \A y \in T : x <= y
<1> DEFINE less == {p \in Nat \X Nat : p[1] < p[2]}
<1>1. IsWellFoundedOn(less, Nat)
  BY ZenonT(40), NatLessThanWellFounded DEF OpToRel
<1>2. \A x, y \in Nat : <<y, x>> \notin less => x <= y
  BY SMTT(40)
<1> HIDE DEF less
<1>3. \E x \in T : \A y \in T : <<y, x>> \notin less
  BY ZenonT(40), <1>1, WFMin
<1> QED
  BY ZenonT(40), <1>2, <1>3

\* A set of steps that has the first one, and each one after one it has, has all.
LEMMA AllSteps == Stepwise
<1> SUFFICES ASSUME NEW n \in Nat, NEW G, 0 \in G, \A i \in 1..n : i - 1 \in G => i \in G
             PROVE  \A i \in 0..n : i \in G
  BY Zenon DEF Stepwise
<1> DEFINE T == {i \in 0..n : i \notin G}
<1> SUFFICES ASSUME T # {} PROVE FALSE
  BY Zenon
<1>1. T \in SUBSET Nat
  BY SMTT(40)
<1>2. PICK x \in T : \A y \in T : x <= y
  BY ZenonT(40), <1>1, LeastNatural
<1>3. x # 0 /\ x \in 0..n /\ x \notin G
  BY ZenonT(40), <1>2
<1>4. x \in 1..n /\ x - 1 \in 0..n /\ ~(x <= x - 1)
  BY ONLY SMTT(40), <1>3, n \in Nat
<1>5. x - 1 \in G
  BY ZenonT(40), <1>2, <1>4
<1> QED
  BY ZenonT(40), <1>3, <1>4, <1>5

\* The rewrite's snapshot is the keyspace.
LEMMA SnapshotFits ==
  ASSUME CopyTypes
  PROVE  /\ SnapshotFrames(Live(db, now)) \in Seq(Frames)
         /\ \A k : Tracks(now, db, <<>>, SnapshotFrames(Live(db, now)), k, {})
<1>1. now \in Nat /\ Typed(db)
  BY ZenonT(40), CopyTypesTyped DEF CopyTypes
<1>2. DOMAIN Live(db, now) \subseteq DOMAIN db /\ \A k \in DOMAIN Live(db, now) : Live(db, now)[k] = db[k]
  BY ZenonT(40), LiveShows DEF Shows
<1>3. DOMAIN db \subseteq Keys /\ IsFiniteSet(Keys)
  BY ZenonT(40), <1>1, ProcsAssumption DEF Typed
<1>4. IsFiniteSet(DOMAIN db)
  BY ZenonT(40), <1>3, FS_Subset
<1>5. Listed(DOMAIN Live(db, now))
  <2>1. IsFiniteSet(DOMAIN Live(db, now))
    BY ZenonT(40), <1>2, <1>4, FS_Subset
  <2> QED
    BY ZenonT(40), <2>1, FS_CardinalityType DEF Listed, ExistsBijection
<1>6. Typed(Live(db, now))
  BY ZenonT(40), <1>1, <1>2 DEF Typed
<1>7. \A j \in DOMAIN db : db[j] = Value(db[j].n, db[j].exp) /\ db[j].exp \in Nat
  <2>1. \A v \in Values : v = Value(v.n, v.exp) /\ v.exp \in Nat
    BY DEF Value, Values
  <2> QED
    BY ZenonT(40), <1>1, <2>1 DEF Typed
<1> QED
  BY ZenonT(40), <1>1, <1>5, <1>6, <1>7, AllSteps, SnapshotTypes, TracksSnapshot

\* Every step keeps CopyInv.
LEMMA CopyInvStep == ASSUME CopyInv, [Next]_vars PROVE CopyInv'
<1>1. CASE UNCHANGED vars
  BY ZenonT(40), <1>1, StillKeeps
<1>2. CASE Next
  BY ZenonT(40), <1>2, StillKeeps, BeginsKeep, ServesKeeps, WorksKeeps, OthersKeep, BarrierKeeps, SnapshotFits
     DEF Next, CopyInv
<1> QED
  BY ZenonT(40), <1>1, <1>2

\* Spec => []CopiesAgree: at every time from now on the append-only file, the
\* file a rewrite is about to install, and the replica that has caught up
\* show under every settled key what the keyspace shows, however the requests,
\* the expiry cycle, the rewrite, evictions and failing appends interleave
\* (executeClientRequest, recordExpiredKeys, the rewrite in aof/rewrite.go, the
\* loader in aof/loader.go).
THEOREM CopiesStayEqual == Spec => []CopiesAgree
<1>1. Init => CopyInv
  BY ZenonT(40), CopyInvInit
<1>2. CopyInv /\ [Next]_vars => CopyInv'
  BY ZenonT(40), CopyInvStep
<1>3. CopyInv => CopiesAgree
  BY ZenonT(40), AllSteps, CopyInvAgrees
<1> QED
  BY <1>1, <1>2, <1>3, PTL DEF Spec
=============================================================================
