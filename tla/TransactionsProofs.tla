------------------------- MODULE TransactionsProofs -------------------------
(***************************************************************************)
(* Proofs, for any number of clients and keys, that EXEC does not run a    *)
(* transaction whose watched keys a finished write has changed, that a     *)
(* connection that ended is in no watcher set, and that the frame of every *)
(* write reaches the file.                                                 *)
(***************************************************************************)
EXTENDS Transactions, TLAPS

\* The types of the variables the argument is about.
WatchTypes ==
    /\ pc \in [Clients -> PcValues]
    /\ after \in [Clients -> {"idle", "run", "gone"}]
    /\ watched \in [Clients -> SUBSET Keys]
    /\ registry \in [Keys -> SUBSET Clients]
    /\ touching \in [Clients -> SUBSET Keys]
    /\ marking \in [Clients -> SUBSET Clients]
    /\ victims \in [Clients -> SUBSET Clients]
    /\ queue \in [Clients -> Seq(Commands)]

\* watchedKeys of a client and the registry are two copies of one relation.
CopiesMatch ==
    \A c \in Clients, k \in Keys : k \in watched[c] <=> c \in registry[k]

\* Between the halves of UnwatchAll, and once it ended, a client watches
\* nothing and no write in progress or finished concerns it.
Released ==
    \A d \in Clients :
      /\ pc[d] \in {"clear", "gone"} => watched[d] = {}
      /\ pc[d] = "clear" => d \notin hit /\ \A c \in Clients : d \notin victims[c]

\* A client that a write in progress concerns will be collected by its Touch;
\* after that it is to be marked, or marked, or gives up its watches.
VictimsAreReached ==
    \A c \in Clients : \A d \in victims[c] :
      /\ pc[c] = "touch" => \E k \in touching[c] : k \in watched[d]
      /\ pc[c] = "mark" => d \in marking[c] \/ d \in failed \/ pc[d] = "unwatch"

\* A client that a finished write concerns is marked, or gives up its watches.
HitIsFailed == \A d \in hit : d \in failed \/ pc[d] = "unwatch"

WatchInv == WatchTypes /\ CopiesMatch /\ Released /\ VictimsAreReached /\ HitIsFailed
            /\ hit \subseteq Clients

\* The initial state, in which nobody watches anything.
LEMMA InitWatches == Init => WatchInv
  BY SMTT(40) DEF Init, WatchInv, WatchTypes, CopiesMatch, Released, VictimsAreReached,
         HitIsFailed, PcValues

\* Commands that change neither the watches nor the writes in progress: WATCH
\* before a transaction, MULTI, the queueing of commands, a request's start
\* and its end.
LEMMA OwnStateKeepsWatches ==
  ASSUME WatchInv, NEW c \in Clients,
         \/ \E k \in Keys : Watch(c, k)
         \/ \E cmd \in Commands : Queue(c, cmd) \/ Request(c, cmd)
         \/ Multi(c) \/ QueueInvalid(c)
         \/ RunWait(c) \/ WaitCancelled(c) \/ Reply(c)
  PROVE  WatchInv'
<1> USE DEF WatchInv, WatchTypes, CopiesMatch, Released, VictimsAreReached,
            HitIsFailed, PcValues, outVars, histVars, touchVars, watchVars, txVars
<1>1. ASSUME NEW k \in Keys, Watch(c, k) PROVE WatchInv'
  BY <1>1 DEF Watch
<1>2. ASSUME NEW cmd \in Commands, Queue(c, cmd) PROVE WatchInv'
  BY <1>2 DEF Queue
<1>3. ASSUME NEW cmd \in Commands, Request(c, cmd) PROVE WatchInv'
  BY <1>3 DEF Request
<1>4. CASE Multi(c)
  BY <1>4 DEF Multi
<1>5. CASE QueueInvalid(c)
  BY SMTT(40), <1>5 DEF QueueInvalid
<1>6. CASE RunWait(c)
  BY <1>6 DEF RunWait
<1>7. CASE WaitCancelled(c)
  BY SMTT(40), <1>7 DEF WaitCancelled
<1>8. CASE Reply(c)
  BY SMTT(40), <1>8 DEF Reply
<1> QED
  BY <1>1, <1>2, <1>3, <1>4, <1>5, <1>6, <1>7, <1>8

\* EXEC, DISCARD and the end of a connection, with the two halves of UnwatchAll.
LEMMA EndingKeepsWatches ==
  ASSUME WatchInv, NEW c \in Clients,
         GiveUp(c) \/ Exec(c) \/ Disconnect(c) \/ Unwatch(c) \/ Clear(c)
  PROVE  WatchInv'
<1> USE DEF WatchInv, WatchTypes, CopiesMatch, Released, VictimsAreReached,
            HitIsFailed, PcValues, outVars, histVars, touchVars, watchVars, txVars
<1>1. CASE GiveUp(c)
  BY <1>1 DEF GiveUp, Reset
<1>2. CASE Exec(c)
  BY <1>2 DEF Exec
<1>3. CASE Disconnect(c)
  BY <1>3 DEF Disconnect, Reset
<1>4. CASE Unwatch(c)
  BY <1>4 DEF Unwatch, Forget
<1>5. CASE Clear(c)
  BY SMTT(40), <1>5 DEF Clear
<1> QED
  BY <1>1, <1>2, <1>3, <1>4, <1>5

\* A write and the steps of its Touch.
LEMMA WritingKeepsWatches ==
  ASSUME WatchInv, NEW c \in Clients,
         RunWrite(c) \/ Collect(c) \/ Touched(c) \/ \E d \in Clients : Mark(c, d)
  PROVE  WatchInv'
<1> USE DEF WatchInv, WatchTypes, CopiesMatch, Released, VictimsAreReached,
            HitIsFailed, PcValues, outVars, histVars, touchVars, watchVars, txVars
<1>1. CASE RunWrite(c)
  BY <1>1, CommandsAssumption DEF RunWrite
<1>2. CASE Collect(c)
  BY SMTT(40), <1>2 DEF Collect
<1>3. CASE Touched(c)
  BY <1>3 DEF Touched
<1>4. ASSUME NEW d \in Clients, Mark(c, d) PROVE WatchInv'
  BY <1>4 DEF Mark
<1> QED
  BY SMTT(40), <1>1, <1>2, <1>3, <1>4

\* Every step keeps the inductive invariant.
LEMMA StepKeepsWatches == WatchInv /\ [Next]_vars => WatchInv'
<1> SUFFICES ASSUME WatchInv, [Next]_vars PROVE WatchInv'
  OBVIOUS
<1>1. CASE Stop \/ UNCHANGED vars
  BY <1>1 DEF Stop, vars, WatchInv, WatchTypes, CopiesMatch, Released,
              VictimsAreReached, HitIsFailed, outVars, histVars, touchVars,
              watchVars, txVars
<1>2. CASE Next
  BY <1>1, <1>2, OwnStateKeepsWatches, EndingKeepsWatches, WritingKeepsWatches
     DEF Next
<1> QED
  BY <1>1, <1>2

\* EXEC runs no transaction of a client one of whose watched keys was changed
\* by a write that has returned (handleExec, WatchRegistry.Touch), however the
\* steps of Touch and of UnwatchAll interleave.
THEOREM ExecAborts == Spec => AbortsAfterWrite
<1>1. WatchInv /\ [Next]_vars => [\A c \in Clients : Commits(c) => c \notin hit]_vars
  <2> SUFFICES ASSUME WatchInv, Next, NEW c \in Clients, Commits(c)
               PROVE  c \notin hit
    BY SMTT(40)
  <2>1. Exec(c)
    <3>1. /\ pc \in [Clients -> PcValues] /\ after \in [Clients -> {"idle", "run", "gone"}]
          /\ pc[c] = "idle" /\ pc'[c] = "unwatch" /\ after'[c] = "run"
      BY Zenon DEF WatchInv, WatchTypes, Commits
    <3>2. ASSUME UNCHANGED pc PROVE FALSE
      BY Zenon, <3>1, <3>2
    <3>3. ASSUME NEW d \in Clients, GiveUp(d) \/ Disconnect(d) PROVE FALSE
      BY Zenon, <3>1, <3>3 DEF GiveUp, Disconnect, Reset
    <3>4. ASSUME NEW d \in Clients, NEW next \in PcValues \ {"unwatch"},
                 pc' = [pc EXCEPT ![d] = next]
          PROVE  FALSE
      BY Zenon, <3>1, <3>4
    <3>5. ASSUME NEW d \in Clients, NEW cmd \in Commands, Request(d, cmd) PROVE FALSE
      BY Zenon, <3>4, <3>5 DEF Request, PcValues
    <3>6. ASSUME NEW d \in Clients, Unwatch(d) \/ RunWrite(d) \/ Collect(d) \/ Touched(d)
                                   \/ WaitCancelled(d) \/ Reply(d)
          PROVE  FALSE
      BY Zenon, <3>4, <3>6 DEF Unwatch, RunWrite, Collect, Touched, WaitCancelled, Reply,
                               PcValues
    <3>7. ASSUME NEW d \in Clients, Clear(d) PROVE FALSE
      <4>1. after[d] \in PcValues \ {"unwatch"}
        BY Zenon, <3>1 DEF PcValues
      <4> QED
        BY Zenon, <3>4, <3>7, <4>1 DEF Clear
    <3>8. ASSUME NEW d \in Clients, Exec(d) PROVE d = c
      BY Zenon, <3>1, <3>8 DEF Exec
    <3> QED
      BY Zenon, <3>2, <3>3, <3>5, <3>6, <3>7, <3>8
         DEF Next, Watch, Queue, Mark, Multi, QueueInvalid, RunWait, Stop
  <2> QED
    BY <2>1 DEF Exec, WatchInv, HitIsFailed
<1> QED
  BY InitWatches, StepKeepsWatches, <1>1, PTL DEF Spec, AbortsAfterWrite

\* A connection that ended is in no watcher set (WatchRegistry.UnwatchAll).
THEOREM GoneLeavesRegistry == Spec => []GoneIsUnwatched
<1>1. WatchInv => GoneIsUnwatched
  BY SMTT(40) DEF WatchInv, CopiesMatch, Released, GoneIsUnwatched
<1> QED
  BY InitWatches, StepKeepsWatches, <1>1, PTL DEF Spec

-----------------------------------------------------------------------------
(* Every write reaches the append-only file once.                          *)

FrameTypes ==
    /\ writes \in Nat
    /\ emitted \in Seq(Nat)
    /\ frames \in [Clients -> Seq(Nat)]
    /\ writing \in [Clients -> Nat]

\* A write is in progress, or its frame is with its request, or emitted: in one
\* of these places, and in one place of the sequence.
InOnePlace ==
    /\ IsInjective(emitted) /\ Range(emitted) \subseteq 1..writes
    /\ \A c \in Clients :
          /\ IsInjective(frames[c]) /\ Range(frames[c]) \subseteq 1..writes
          /\ Range(frames[c]) \cap Range(emitted) = {}
          /\ writing[c] \in 0..writes /\ writing[c] \notin Range(emitted)
    /\ \A c, d \in Clients :
          /\ writing[c] \notin Range(frames[d])
          /\ c # d => /\ Range(frames[c]) \cap Range(frames[d]) = {}
                      /\ writing[c] = writing[d] => writing[c] = 0

\* A request that is over holds no frames.
HeldByRequests ==
    \A c \in Clients :
        /\ pc[c] \notin {"run", "touch", "mark"} => frames[c] = <<>>
        /\ pc[c] \in {"touch", "mark"} <=> writing[c] # 0

\* While the server runs no write is forgotten.
NoneForgotten ==
    stopping = "no" =>
        \A n \in 1..writes :
            \/ n \in Range(emitted)
            \/ \E c \in Clients : n \in Range(frames[c]) \/ writing[c] = n

EmitInv == FrameTypes /\ InOnePlace /\ HeldByRequests /\ NoneForgotten

\* The numbers of a sequence with one more, and of two sequences in a row.
LEMMA RangeOfAppend ==
  ASSUME NEW s \in Seq(Nat), NEW n \in Nat
  PROVE  /\ Append(s, n) \in Seq(Nat) /\ Range(Append(s, n)) = Range(s) \cup {n}
         /\ IsInjective(s) /\ n \notin Range(s) => IsInjective(Append(s, n))
<1> DEFINE t == Append(s, n)
<1>1. /\ t \in Seq(Nat) /\ DOMAIN s = 1..Len(s) /\ DOMAIN t = 1..(Len(s) + 1) /\ Len(s) \in Nat
      /\ t[Len(s) + 1] = n /\ \A i \in 1..Len(s) : t[i] = s[i]
  OBVIOUS
<1>2. 1..(Len(s) + 1) = 1..Len(s) \cup {Len(s) + 1}
  BY <1>1
<1>3. Len(s) + 1 \notin 1..Len(s)
  BY <1>1
<1> HIDE DEF t
<1>4. Range(t) = Range(s) \cup {n}
  <2>1. \A x : x \in DOMAIN t <=> x \in DOMAIN s \/ x = Len(s) + 1
    BY <1>1, <1>2
  <2> QED
    BY Zenon, <1>1, <2>1 DEF Range
<1>5. IsInjective(s) /\ n \notin Range(s) => IsInjective(t)
  BY SMTT(40), <1>1, <1>2, <1>3 DEF Range, IsInjective
<1> QED
  BY <1>1, <1>4, <1>5 DEF t

\* The same for two sequences in a row.
LEMMA RangeOfConcat ==
  ASSUME NEW s \in Seq(Nat), NEW t \in Seq(Nat)
  PROVE  /\ s \o t \in Seq(Nat) /\ Range(s \o t) = Range(s) \cup Range(t)
         /\ IsInjective(s) /\ IsInjective(t) /\ Range(s) \cap Range(t) = {}
              => IsInjective(s \o t)
<1> DEFINE u == s \o t
<1>1. /\ u \in Seq(Nat) /\ DOMAIN s = 1..Len(s) /\ DOMAIN t = 1..Len(t)
      /\ DOMAIN u = 1..(Len(s) + Len(t)) /\ Len(s) \in Nat /\ Len(t) \in Nat
      /\ \A i \in 1..Len(s) : u[i] = s[i]
  OBVIOUS
<1>2. \A i \in 1..(Len(s) + Len(t)) : i > Len(s) => u[i] = t[i - Len(s)]
  OBVIOUS
<1>3. \A i \in 1..(Len(s) + Len(t)) :
         \/ i \in 1..Len(s)
         \/ i > Len(s) /\ i - Len(s) \in 1..Len(t)
  BY <1>1
<1>4. \A i \in 1..Len(t) : Len(s) + i \in DOMAIN u /\ Len(s) + i > Len(s)
                           /\ (Len(s) + i) - Len(s) = i
  BY <1>1
<1>5. \A i \in 1..Len(s) : i \in 1..(Len(s) + Len(t))
  BY <1>1
<1>6. \A i, j \in Nat : i - Len(s) = j - Len(s) => i = j
  BY <1>1
<1> HIDE DEF u
<1>7. Range(u) \subseteq Range(s) \cup Range(t)
  BY Zenon, <1>1, <1>2, <1>3 DEF Range
<1>8. Range(s) \subseteq Range(u)
  BY <1>1, <1>5 DEF Range
<1>9. Range(t) \subseteq Range(u)
  <2>1. \A i \in 1..Len(t) : u[Len(s) + i] = t[i]
    BY Zenon, <1>1, <1>2, <1>4
  <2>2. ASSUME NEW x \in Range(t) PROVE x \in Range(u)
    <3>1. PICK i \in 1..Len(t) : x = t[i]
      BY <1>1 DEF Range
    <3>2. Len(s) + i \in DOMAIN u /\ x = u[Len(s) + i]
      BY <1>4, <2>1, <3>1
    <3> QED
      BY <3>2 DEF Range
  <2> QED
    BY <2>2
<1>10. ASSUME IsInjective(s), IsInjective(t), Range(s) \cap Range(t) = {},
              NEW i \in DOMAIN u, NEW j \in DOMAIN u, u[i] = u[j]
       PROVE  i = j
  <2>1. \A k \in DOMAIN u : \/ k \in 1..Len(s) /\ u[k] = s[k] /\ u[k] \in Range(s)
                            \/ k - Len(s) \in 1..Len(t) /\ u[k] = t[k - Len(s)]
                               /\ u[k] \in Range(t)
    BY Zenon, <1>1, <1>2, <1>3 DEF Range
  <2>2. CASE i \in 1..Len(s) /\ j \in 1..Len(s) /\ u[i] = s[i] /\ u[j] = s[j]
    BY Zenon, <1>1, <1>10, <2>2 DEF IsInjective
  <2>3. CASE /\ i - Len(s) \in 1..Len(t) /\ j - Len(s) \in 1..Len(t)
             /\ u[i] = t[i - Len(s)] /\ u[j] = t[j - Len(s)]
    <3>1. i - Len(s) = j - Len(s)
      BY Zenon, <1>1, <1>10, <2>3 DEF IsInjective
    <3>2. i \in Nat /\ j \in Nat
      BY <1>1
    <3> QED
      BY <1>6, <3>1, <3>2
  <2> QED
    BY <1>10, <2>1, <2>2, <2>3
<1> QED
  BY Zenon, <1>1, <1>7, <1>8, <1>9, <1>10 DEF u, IsInjective

\* Steps that neither write nor touch the frames.
LEMMA OthersKeepFrames ==
  ASSUME WatchTypes, EmitInv, UNCHANGED <<outVars, writing>>, NEW c \in Clients,
         stopping' = "no" => stopping = "no",
         \/ pc' = pc
         \/ \E p \in {"idle", "unwatch", "clear", "run", "gone"} :
               pc[c] \notin {"run", "touch", "mark"} /\ pc' = [pc EXCEPT ![c] = p]
         \/ pc[c] = "touch" /\ pc' = [pc EXCEPT ![c] = "mark"]
  PROVE  EmitInv'
<1>1. UNCHANGED <<writes, emitted, frames, writing>>
  BY SMTT(40) DEF outVars
<1>2. FrameTypes' /\ InOnePlace' /\ NoneForgotten'
  BY SMTT(40), <1>1 DEF EmitInv, FrameTypes, InOnePlace, NoneForgotten
<1>3. HeldByRequests'
  BY <1>1 DEF EmitInv, HeldByRequests, WatchTypes
<1> QED
  BY <1>2, <1>3 DEF EmitInv

\* The store changes the keys: a write with a new number is in progress.
LEMMA RunWriteKeepsFrames ==
  ASSUME WatchTypes, EmitInv, NEW c \in Clients, RunWrite(c)
  PROVE  EmitInv'
<1> DEFINE w == writes + 1
<1>1. /\ writes' = w /\ writing' = [writing EXCEPT ![c] = w]
      /\ UNCHANGED <<frames, emitted, stopping>>
      /\ pc[c] = "run" /\ pc' = [pc EXCEPT ![c] = "touch"]
  BY DEF RunWrite
<1>2. /\ w \in Nat /\ w # 0 /\ w \notin 1..writes /\ 1..w = 1..writes \cup {w}
      /\ 0..writes \subseteq 0..w /\ w \in 0..w /\ w \notin 0..writes
  BY DEF EmitInv, FrameTypes
<1> HIDE DEF w
<1>3. FrameTypes'
  BY <1>1, <1>2 DEF EmitInv, FrameTypes
<1>4. \A d \in Clients : writing'[d] = IF d = c THEN w ELSE writing[d]
  BY SMTT(40), <1>1 DEF EmitInv, FrameTypes
<1>5. InOnePlace'
  <2>1. /\ Range(emitted) \subseteq 1..w /\ w \notin Range(emitted)
        /\ \A d \in Clients : Range(frames[d]) \subseteq 1..w /\ w \notin Range(frames[d])
    BY <1>2 DEF EmitInv, InOnePlace
  <2>2. \A d \in Clients : writing[d] # w /\ writing'[d] \in 0..w
    BY SMTT(40), <1>2, <1>4 DEF EmitInv, InOnePlace
  <2> QED
    BY SMTT(40), <1>1, <1>4, <2>1, <2>2 DEF EmitInv, InOnePlace
<1>6. HeldByRequests'
  BY <1>1, <1>2, <1>4 DEF EmitInv, HeldByRequests, WatchTypes
<1>7. NoneForgotten'
  <2>1. writing[c] = 0
    BY <1>1 DEF EmitInv, HeldByRequests
  <2>2. 0 \notin 1..writes
    BY DEF EmitInv, FrameTypes
  <2>3. ASSUME stopping = "no", NEW n \in 1..writes
        PROVE  \/ n \in Range(emitted)
               \/ \E d \in Clients : n \in Range(frames[d]) \/ writing'[d] = n
    BY <1>4, <2>1, <2>2, <2>3 DEF EmitInv, NoneForgotten
  <2>4. writing'[c] = w
    BY <1>4
  <2> QED
    BY <1>1, <1>2, <2>3, <2>4 DEF NoneForgotten
<1> QED
  BY <1>3, <1>5, <1>6, <1>7 DEF EmitInv

\* The handler returns: the frame of the write joins those of the request.
LEMMA TouchedKeepsFrames ==
  ASSUME WatchTypes, EmitInv, NEW c \in Clients, Touched(c)
  PROVE  EmitInv'
<1> DEFINE w == writing[c]
<1>1. /\ frames' = [frames EXCEPT ![c] = Append(frames[c], w)]
      /\ writing' = [writing EXCEPT ![c] = 0]
      /\ UNCHANGED <<writes, emitted, stopping>>
      /\ pc[c] = "mark" /\ pc' = [pc EXCEPT ![c] = "run"]
  BY SMTT(40) DEF Touched
<1>2. /\ w \in Nat /\ frames[c] \in Seq(Nat) /\ w # 0 /\ w \in 0..writes /\ writes \in Nat
      /\ w \notin Range(frames[c]) /\ IsInjective(frames[c])
  BY SMTT(40), <1>1 DEF EmitInv, FrameTypes, HeldByRequests, InOnePlace
<1>3. w \in 1..writes
  BY <1>2
<1>4. /\ Append(frames[c], w) \in Seq(Nat)
      /\ Range(Append(frames[c], w)) = Range(frames[c]) \cup {w}
      /\ IsInjective(Append(frames[c], w))
  BY <1>2, RangeOfAppend
<1>5. \A d \in Clients : /\ writing'[d] = IF d = c THEN 0 ELSE writing[d]
                         /\ frames'[d] = IF d = c THEN Append(frames[c], w) ELSE frames[d]
  BY <1>1 DEF EmitInv, FrameTypes
<1> HIDE DEF w
<1>6. FrameTypes'
  BY <1>1, <1>4 DEF EmitInv, FrameTypes
<1>7. \A d \in Clients : /\ IsInjective(frames'[d])
                         /\ Range(frames'[d]) = IF d = c THEN Range(frames[c]) \cup {w}
                                                ELSE Range(frames[d])
  BY Zenon, <1>4, <1>5 DEF EmitInv, InOnePlace
<1>8. InOnePlace'
  <2>1. 0 \in 0..writes /\ 0 \notin 1..writes
    BY SMTT(40), <1>2
  <2>2. \A d \in Clients : 0 \notin Range(frames[d]) /\ 0 \notin Range(emitted)
    BY SMTT(40), <2>1 DEF EmitInv, InOnePlace
  <2>3. \A d \in Clients : w \notin Range(frames[d]) /\ w \notin Range(emitted)
                           /\ (d # c => writing[d] # w)
    BY SMTT(40), <1>2 DEF EmitInv, InOnePlace, w
  <2>4. \A d \in Clients : /\ Range(frames'[d]) \subseteq 1..writes
                           /\ Range(frames'[d]) \cap Range(emitted) = {}
                           /\ writing'[d] \in 0..writes /\ writing'[d] \notin Range(emitted)
    BY SMTT(40), <1>3, <1>5, <1>7, <2>1, <2>2, <2>3 DEF EmitInv, InOnePlace
  <2>5. \A d, e \in Clients : writing'[d] \notin Range(frames'[e])
    BY SMTT(40), <1>2, <1>5, <1>7, <2>2, <2>3 DEF EmitInv, InOnePlace
  <2>6. \A d, e \in Clients : d # e => /\ Range(frames'[d]) \cap Range(frames'[e]) = {}
                                       /\ writing'[d] = writing'[e] => writing'[d] = 0
    BY <1>5, <1>7, <2>3 DEF EmitInv, InOnePlace
  <2> QED
    BY Zenon, <1>1, <1>7, <2>4, <2>5, <2>6 DEF EmitInv, InOnePlace
<1>9. HeldByRequests'
  BY <1>1, <1>5 DEF EmitInv, HeldByRequests, WatchTypes
<1>10. NoneForgotten'
  <2>1. ASSUME stopping = "no", NEW n \in 1..writes, n \notin Range(emitted)
        PROVE  \E d \in Clients : n \in Range(frames'[d]) \/ writing'[d] = n
    <3>1. PICK d \in Clients : n \in Range(frames[d]) \/ writing[d] = n
      BY <2>1 DEF EmitInv, NoneForgotten
    <3> QED
      BY <1>5, <1>7, <3>1 DEF w
  <2> QED
    BY <1>1, <2>1 DEF NoneForgotten
<1> QED
  BY <1>6, <1>8, <1>9, <1>10 DEF EmitInv

\* The request ends: its frames are handed over.
LEMMA ReplyKeepsFrames ==
  ASSUME WatchTypes, EmitInv, NEW c \in Clients, Reply(c)
  PROVE  EmitInv'
<1>1. /\ frames' = [frames EXCEPT ![c] = <<>>] /\ emitted' = emitted \o frames[c]
      /\ UNCHANGED <<writes, writing, stopping>>
      /\ pc[c] = "run" /\ pc' = [pc EXCEPT ![c] = "idle"]
  BY DEF Reply, histVars
<1>2. /\ emitted \in Seq(Nat) /\ frames[c] \in Seq(Nat)
      /\ IsInjective(emitted) /\ IsInjective(frames[c])
      /\ Range(emitted) \cap Range(frames[c]) = {}
  BY DEF EmitInv, FrameTypes, InOnePlace
<1>3. /\ emitted' \in Seq(Nat) /\ Range(emitted') = Range(emitted) \cup Range(frames[c])
      /\ IsInjective(emitted')
  BY <1>1, <1>2, RangeOfConcat
<1>4. \A d \in Clients : frames'[d] = IF d = c THEN <<>> ELSE frames[d]
  BY <1>1 DEF EmitInv, FrameTypes
<1>5. IsInjective(<<>>) /\ Range(<<>>) = {}
  BY SMTT(40) DEF IsInjective, Range
<1>6. \A d \in Clients : /\ IsInjective(frames'[d])
                         /\ Range(frames'[d]) = IF d = c THEN {} ELSE Range(frames[d])
  BY Zenon, <1>4, <1>5 DEF EmitInv, InOnePlace
<1>7. FrameTypes'
  BY <1>1, <1>3 DEF EmitInv, FrameTypes
<1>8. InOnePlace'
  <2>1. \A d \in Clients : /\ Range(frames'[d]) \subseteq 1..writes
                           /\ Range(frames'[d]) \cap Range(emitted') = {}
                           /\ writing[d] \in 0..writes /\ writing[d] \notin Range(emitted')
    BY SMTT(40), <1>3, <1>6 DEF EmitInv, InOnePlace
  <2>2. \A d, e \in Clients : writing[d] \notin Range(frames'[e])
    BY SMTT(40), <1>6 DEF EmitInv, InOnePlace
  <2>3. \A d, e \in Clients : d # e => /\ Range(frames'[d]) \cap Range(frames'[e]) = {}
                                       /\ writing[d] = writing[e] => writing[d] = 0
    BY SMTT(40), <1>6 DEF EmitInv, InOnePlace
  <2>4. Range(emitted') \subseteq 1..writes
    BY SMTT(40), <1>3 DEF EmitInv, InOnePlace
  <2> QED
    BY Zenon, <1>1, <1>3, <1>6, <2>1, <2>2, <2>3, <2>4 DEF InOnePlace
<1>9. HeldByRequests'
  BY <1>1, <1>4 DEF EmitInv, HeldByRequests, WatchTypes
<1>10. NoneForgotten'
  <2>1. ASSUME stopping = "no", NEW n \in 1..writes, n \notin Range(emitted')
        PROVE  \E d \in Clients : n \in Range(frames'[d]) \/ writing[d] = n
    <3>1. n \notin Range(emitted) /\ n \notin Range(frames[c])
      BY <1>3, <2>1
    <3>2. PICK d \in Clients : n \in Range(frames[d]) \/ writing[d] = n
      BY <2>1, <3>1 DEF EmitInv, NoneForgotten
    <3> QED
      BY <1>6, <3>1, <3>2
  <2> QED
    BY <1>1, <2>1 DEF NoneForgotten
<1> QED
  BY <1>7, <1>8, <1>9, <1>10 DEF EmitInv

\* A cancelled request drops its frames, which happens only in a shutdown.
LEMMA CancelKeepsFrames ==
  ASSUME WatchTypes, EmitInv, NEW c \in Clients, WaitCancelled(c)
  PROVE  EmitInv'
<1>1. /\ frames' = [frames EXCEPT ![c] = <<>>]
      /\ UNCHANGED <<writes, emitted, writing, stopping>> /\ stopping = "yes"
      /\ pc[c] = "run" /\ pc' = [pc EXCEPT ![c] = "cancelled"]
  BY DEF WaitCancelled, histVars
<1>2. \A d \in Clients : frames'[d] = IF d = c THEN <<>> ELSE frames[d]
  BY <1>1 DEF EmitInv, FrameTypes
<1>3. IsInjective(<<>>) /\ Range(<<>>) = {}
  BY DEF IsInjective, Range
<1>4. \A d \in Clients : /\ IsInjective(frames'[d])
                         /\ Range(frames'[d]) = IF d = c THEN {} ELSE Range(frames[d])
  BY Zenon, <1>2, <1>3 DEF EmitInv, InOnePlace
<1>5. FrameTypes'
  BY SMTT(40), <1>1 DEF EmitInv, FrameTypes
<1>6. InOnePlace'
  <2>1. \A d \in Clients : /\ Range(frames'[d]) \subseteq 1..writes
                           /\ Range(frames'[d]) \cap Range(emitted) = {}
    BY SMTT(40), <1>4 DEF EmitInv, InOnePlace
  <2>2. \A d, e \in Clients : writing[d] \notin Range(frames'[e])
    BY <1>4 DEF EmitInv, InOnePlace
  <2>3. \A d, e \in Clients : d # e => Range(frames'[d]) \cap Range(frames'[e]) = {}
    BY SMTT(40), <1>4 DEF EmitInv, InOnePlace
  <2> QED
    BY Zenon, <1>1, <1>4, <2>1, <2>2, <2>3 DEF EmitInv, InOnePlace
<1>7. HeldByRequests' /\ NoneForgotten'
  BY SMTT(40), <1>1, <1>2 DEF EmitInv, HeldByRequests, NoneForgotten, WatchTypes
<1> QED
  BY SMTT(40), <1>5, <1>6, <1>7 DEF EmitInv

\* Every step accounts for every write.
LEMMA StepKeepsFrames == WatchTypes /\ EmitInv /\ [Next]_vars => EmitInv'
<1> SUFFICES ASSUME WatchTypes, EmitInv, [Next]_vars PROVE EmitInv'
  OBVIOUS
<1> USE DEF histVars
<1>1. ASSUME NEW c \in Clients,
             \/ \E k \in Keys : Watch(c, k)
             \/ \E cmd \in Commands : Queue(c, cmd)
             \/ \E d \in Clients : Mark(c, d)
             \/ Multi(c) \/ QueueInvalid(c) \/ RunWait(c)
      PROVE  EmitInv'
  <2>1. UNCHANGED <<pc, outVars, writing, stopping>>
    BY <1>1 DEF Watch, Queue, Mark, Multi, QueueInvalid, RunWait
  <2> QED
    BY SMTT(40), <2>1, OthersKeepFrames
<1>2. ASSUME NEW c \in Clients,
             \/ \E cmd \in Commands : Request(c, cmd)
             \/ GiveUp(c) \/ Exec(c) \/ Disconnect(c) \/ Unwatch(c) \/ Clear(c)
      PROVE  EmitInv'
  <2>1. UNCHANGED <<outVars, writing, stopping>> /\ pc[c] \notin {"run", "touch", "mark"}
    BY SMTT(40), <1>2 DEF Request, GiveUp, Exec, Disconnect, Reset, Unwatch, Clear
  <2>2. \E p \in {"idle", "unwatch", "clear", "run", "gone"} : pc' = [pc EXCEPT ![c] = p]
    BY <1>2 DEF Request, GiveUp, Exec, Disconnect, Reset, Unwatch, Clear, WatchTypes
  <2> QED
    BY Zenon, <2>1, <2>2, OthersKeepFrames
<1>3. ASSUME NEW c \in Clients, Collect(c) PROVE EmitInv'
  <2>1. /\ UNCHANGED <<outVars, writing, stopping>>
        /\ pc[c] = "touch" /\ pc' = [pc EXCEPT ![c] = "mark"]
    BY SMTT(40), <1>3 DEF Collect
  <2> QED
    BY Zenon, <2>1, OthersKeepFrames
<1>4. CASE Stop \/ UNCHANGED vars
  <2>1. /\ UNCHANGED <<writes, emitted, frames, writing, pc>>
        /\ stopping' = "no" => stopping = "no"
    BY <1>4 DEF Stop, vars, outVars
  <2> QED
    BY <2>1 DEF EmitInv, FrameTypes, InOnePlace, HeldByRequests, NoneForgotten
<1> QED
  BY <1>1, <1>2, <1>3, <1>4, RunWriteKeepsFrames, TouchedKeepsFrames,
     ReplyKeepsFrames, CancelKeepsFrames DEF Next

\* While the server runs and no request is in progress, the frames emitted are
\* those of the writes done, each of them once: the frames of a transaction
\* whose commands wrote are not lost when it ends (executionFrames, handleExec).
THEOREM WritesReachTheLog == Spec => []WritesAreEmitted
<1>1. Init => EmitInv
  BY DEF Init, EmitInv, FrameTypes, InOnePlace, HeldByRequests, NoneForgotten,
         IsInjective, Range
<1>2. EmitInv => WritesAreEmitted
  <2> SUFFICES ASSUME EmitInv, stopping = "no",
                      \A c \in Clients : pc[c] \notin {"run", "touch", "mark"}
               PROVE  IsInjective(emitted) /\ Range(emitted) = 1..writes
    BY DEF WritesAreEmitted
  <2>1. \A c \in Clients : frames[c] = <<>> /\ writing[c] = 0
    BY DEF EmitInv, HeldByRequests
  <2>2. Range(<<>>) = {} /\ 0 \notin 1..writes
    BY DEF Range, EmitInv, FrameTypes
  <2>3. ASSUME NEW n \in 1..writes PROVE n \in Range(emitted)
    BY <2>1, <2>2 DEF EmitInv, NoneForgotten
  <2> QED
    BY Zenon, <2>3 DEF EmitInv, InOnePlace
<1>3. WatchInv => WatchTypes
  BY DEF WatchInv
<1> QED
  BY <1>1, <1>2, <1>3, InitWatches, StepKeepsWatches, StepKeepsFrames, PTL DEF Spec
=============================================================================
