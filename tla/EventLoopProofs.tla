-------------------------- MODULE EventLoopProofs ---------------------------
(***************************************************************************)
(* Proofs about the event loop, for every set of connections, every limit  *)
(* and every number of requests, pushes and stops: output stays bounded    *)
(* and watched, and no push is lost; what a client receives implements the *)
(* abstract reply channel, and a client that finished sending is answered  *)
(* in full.                                                                *)
(***************************************************************************)
EXTENDS EventLoop, TLAPS

-----------------------------------------------------------------------------
(* The inductive invariant.                                                *)

Unit == (Nat \X Nat) \cup {Push}
Machines == {"none", "active", "closing", "closed"}
Peers == {"absent", "open", "eof", "reset"}

Types ==
    /\ asked \in [Conns -> Seq(Kinds)]
    /\ unread \in [Conns -> Seq(Nat)] /\ pending \in [Conns -> Seq(Nat)]
    /\ got \in [Conns -> Seq(Unit)] /\ output \in [Conns -> Seq(Unit)]
    /\ pushBuf \in [Conns -> Nat] /\ work \in [Conns -> Nat]
    /\ machine \in [Conns -> Machines] /\ peer \in [Conns -> Peers]

\* The loop has the connections whose machine runs; a connection it does not
\* have yet, or no more, holds nothing.
Membership ==
    /\ conns = {c \in Conns : machine[c] \in {"active", "closing"}}
    /\ \A c \in backlog : c \in Conns /\ machine[c] = "none" /\ peer[c] # "absent"
    /\ \A c \in Conns : peer[c] = "absent" => machine[c] = "none"
    /\ \A c \in Conns \ conns : /\ output[c] = <<>> /\ pushBuf[c] = 0
                                /\ c \notin peerClosed /\ c \notin wantWrite

\* Between the events of a connection the loop is at one it has.
Busy == loop \in {"process", "finish"}
Position == Busy => at \in conns /\ back \in {"pushes", "events"}

\* The interest set of every connection fits its buffers, but for the one the
\* loop is working on.
Settled(c) ==
    /\ c \in wantWrite <=> output[c] # <<>>
    /\ c \in wantRead <=> c \notin peerClosed /\ Len(output[c]) <= HighWater
InterestSettled == \A c \in conns : Settled(c) \/ (Busy /\ at = c)

BuffersBounded == \A c \in Conns : Len(output[c]) <= MaxOutput /\ pushBuf[c] <= MaxOutput

\* The loop has read all that a client sent before it notes its EOF.
HalfClosed == \A c \in peerClosed : c \in conns /\ unread[c] = <<>> /\ peer[c] = "eof"

LoopInv == /\ Types /\ Membership /\ Position /\ InterestSettled
           /\ BuffersBounded /\ HalfClosed /\ NoLostPush

-----------------------------------------------------------------------------
(* Sequences.                                                              *)

\* The length, the domain and the elements of a sequence.
LEMMA SeqElements ==
  ASSUME NEW S, NEW s \in Seq(S)
  PROVE  /\ Len(s) \in Nat /\ DOMAIN s = 1..Len(s) /\ s \in [1..Len(s) -> S]
         /\ \A i \in 1..Len(s) : s[i] \in S
  OBVIOUS

\* A sequence that is not empty has a first element.
LEMMA NoElements ==
  ASSUME NEW S
  PROVE  <<>> \in Seq(S) /\ Len(<<>>) = 0 /\ \A s \in Seq(S) : s # <<>> => Len(s) > 0
  OBVIOUS

\* Adding one element behind a sequence.
LEMMA Appended ==
  ASSUME NEW S, NEW s \in Seq(S), NEW e \in S
  PROVE  /\ Append(s, e) \in Seq(S) /\ Append(s, e) # <<>>
         /\ Len(Append(s, e)) = Len(s) + 1 /\ Append(s, e)[Len(s) + 1] = e
         /\ \A i \in 1..Len(s) : Append(s, e)[i] = s[i]
  OBVIOUS

\* One sequence behind another.
LEMMA Joined ==
  ASSUME NEW S, NEW s \in Seq(S), NEW t \in Seq(S)
  PROVE  /\ s \o t \in Seq(S) /\ Len(s \o t) = Len(s) + Len(t)
         /\ \A i \in 1..Len(s) + Len(t) :
              (s \o t)[i] = IF i <= Len(s) THEN s[i] ELSE t[i - Len(s)]
  OBVIOUS

\* Sequences with the same elements are the same.
LEMMA SameElements ==
  ASSUME NEW S, NEW s \in Seq(S), NEW t \in Seq(S), Len(s) = Len(t),
         \A i \in 1..Len(s) : s[i] = t[i]
  PROVE  s = t
  OBVIOUS

\* The sequence without its first element.
LEMMA Shifted ==
  ASSUME NEW S, NEW s \in Seq(S), s # <<>>
  PROVE  /\ Head(s) \in S /\ Tail(s) \in Seq(S) /\ Len(Tail(s)) = Len(s) - 1
         /\ \A i \in 1..Len(Tail(s)) : Tail(s)[i] = s[i + 1]
  OBVIOUS

\* What a flush leaves of the output.
LEMMA RestOfOutput ==
  ASSUME NEW U, NEW s \in Seq(U), NEW n \in 0..Len(s)
  PROVE  /\ SubSeq(s, n + 1, Len(s)) \in Seq(U) /\ SubSeq(s, 1, n) \in Seq(U)
         /\ Len(SubSeq(s, n + 1, Len(s))) = Len(s) - n
         /\ Len(SubSeq(s, 1, n)) = n
         /\ \A i \in 1..n : SubSeq(s, 1, n)[i] = s[i]
         /\ \A i \in 1..(Len(s) - n) : SubSeq(s, n + 1, Len(s))[i] = s[n + i]
  OBVIOUS

-----------------------------------------------------------------------------
(* Control: steps that touch neither the connections nor their buffers.    *)

connVars == <<clientVars, got, backlog, conns, machineVars, peerClosed, interestVars,
              pushBuf, work>>

\* A step that leaves the connections alone keeps what is said of them.
LEMMA ConnectionsUntouched ==
  ASSUME LoopInv, UNCHANGED connVars
  PROVE  Types' /\ Membership' /\ BuffersBounded' /\ HalfClosed'
         /\ conns' = conns /\ pushBuf' = pushBuf /\ \A d : Settled(d)' <=> Settled(d)
<1> USE DEF connVars, clientVars, machineVars, interestVars
<1>1. Types' /\ Membership'
  BY Zenon DEF LoopInv, Types, Membership
<1>2. BuffersBounded' /\ HalfClosed'
  BY Zenon DEF LoopInv, BuffersBounded, HalfClosed
<1>3. QED
  BY Zenon, <1>1, <1>2 DEF Settled

\* Steps of the other goroutines that queue nothing, and steps of the loop
\* from one event to the next.
LEMMA ControlKeepsInv ==
  ASSUME LoopInv,
         \/ Wake \/ Stop \/ ResumeTimer \/ Wait \/ EventsDone \/ AcceptDone \/ PauseAccepting
         \/ \E c \in Conns : CloseHandle(c) \/ ConnWritable(c)
  PROVE  LoopInv'
<1>1. CASE Wake \/ Stop \/ ResumeTimer \/ \E c \in Conns : CloseHandle(c)
  <2>1. /\ UNCHANGED connVars /\ UNCHANGED <<loop, at, back, pushed>>
        /\ waking' # {} \/ wake' \/ (waking' = waking /\ wake' = wake)
    BY Zenon, <1>1 DEF Wake, Stop, ResumeTimer, CloseHandle, RequestClose, connVars, acceptVars,
                queueVars, loopVars
  <2>2. /\ Types' /\ Membership' /\ BuffersBounded' /\ HalfClosed'
        /\ conns' = conns /\ pushBuf' = pushBuf /\ \A d : Settled(d)' <=> Settled(d)
    BY Zenon, <2>1, ConnectionsUntouched
  <2>3. Position'
    BY Zenon, <2>1, <2>2 DEF LoopInv, Position, Busy
  <2>4. InterestSettled'
    BY Zenon, <2>1, <2>2 DEF LoopInv, InterestSettled, Busy
  <2>5. NoLostPush'
    BY <2>1, <2>2 DEF LoopInv, NoLostPush
  <2>6. QED
    BY Zenon, <2>2, <2>3, <2>4, <2>5 DEF LoopInv
<1>2. CASE Wait \/ EventsDone
  <2>1. /\ UNCHANGED connVars /\ UNCHANGED <<at, back, pushed, waking>>
        /\ loop \in {"wait", "events"} /\ loop' \in {"queues", "wait"}
        /\ loop' = "queues" \/ wake' = wake
    BY Zenon, <1>2 DEF Wait, EventsDone, connVars, acceptVars, queueVars, loopVars
  <2>2. /\ Types' /\ Membership' /\ BuffersBounded' /\ HalfClosed'
        /\ conns' = conns /\ pushBuf' = pushBuf /\ \A d : Settled(d)' <=> Settled(d)
    BY Zenon, <2>1, ConnectionsUntouched
  <2>3. Position'
    BY Zenon, <2>1, <2>2 DEF LoopInv, Position, Busy
  <2>4. InterestSettled'
    BY Zenon, <2>1, <2>2 DEF LoopInv, InterestSettled, Busy
  <2>5. NoLostPush'
    BY SMTT(40), <2>1, <2>2 DEF LoopInv, NoLostPush
  <2>6. QED
    BY Zenon, <2>2, <2>3, <2>4, <2>5 DEF LoopInv
<1>3. CASE AcceptDone \/ PauseAccepting
  <2>1. UNCHANGED connVars /\ UNCHANGED <<loop, at, back, pushed, waking, wake>>
    BY Zenon, <1>3 DEF AcceptDone, PauseAccepting, connVars, acceptVars, queueVars, loopVars
  <2>2. /\ Types' /\ Membership' /\ BuffersBounded' /\ HalfClosed'
        /\ conns' = conns /\ pushBuf' = pushBuf /\ \A d : Settled(d)' <=> Settled(d)
    BY Zenon, <2>1, ConnectionsUntouched
  <2>3. Position'
    BY Zenon, <2>1, <2>2 DEF LoopInv, Position, Busy
  <2>4. InterestSettled'
    BY Zenon, <2>1, <2>2 DEF LoopInv, InterestSettled, Busy
  <2>5. NoLostPush'
    BY Zenon, <2>1, <2>2 DEF LoopInv, NoLostPush
  <2>6. QED
    BY Zenon, <2>2, <2>3, <2>4, <2>5 DEF LoopInv
<1>4. ASSUME NEW c \in Conns, ConnWritable(c)
      PROVE  LoopInv'
  <2>1. /\ UNCHANGED connVars /\ UNCHANGED <<pushed, waking, wake>>
        /\ loop = "events" /\ back' = "events"
        /\ \/ c \in conns /\ loop' = "process" /\ at' = c
           \/ loop' = "events"
    BY Zenon, <1>4 DEF ConnWritable, Goto, connVars, acceptVars, queueVars, loopVars
  <2>2. /\ Types' /\ Membership' /\ BuffersBounded' /\ HalfClosed'
        /\ conns' = conns /\ pushBuf' = pushBuf /\ \A d : Settled(d)' <=> Settled(d)
    BY Zenon, <2>1, ConnectionsUntouched
  <2>3. Position'
    BY Zenon, <2>1, <2>2 DEF LoopInv, Position, Busy
  <2>4. InterestSettled'
    BY Zenon, <2>1, <2>2 DEF LoopInv, InterestSettled, Busy
  <2>5. NoLostPush'
    BY Zenon, <2>1, <2>2 DEF LoopInv, NoLostPush
  <2>6. QED
    BY Zenon, <2>2, <2>3, <2>4, <2>5 DEF LoopInv
<1>5. QED
  BY Zenon, <1>1, <1>2, <1>3, <1>4

-----------------------------------------------------------------------------
(* Ends of connections.                                                    *)

\* What closeConn leaves behind, connection by connection.
LEMMA CloseEffect ==
  ASSUME Types, NEW S, CloseConns(S)
  PROVE  /\ conns' = conns \ S /\ peerClosed' = peerClosed \ S
         /\ wantRead' = wantRead \ S /\ wantWrite' = wantWrite \ S
         /\ \A c \in Conns : IF c \in S
                             THEN /\ machine'[c] = "closed" /\ pending'[c] = <<>>
                                  /\ output'[c] = <<>> /\ pushBuf'[c] = 0
                             ELSE /\ machine'[c] = machine[c] /\ pending'[c] = pending[c]
                                  /\ output'[c] = output[c] /\ pushBuf'[c] = pushBuf[c]
         /\ machine' \in [Conns -> Machines] /\ pending' \in [Conns -> Seq(Nat)]
         /\ output' \in [Conns -> Seq(Unit)] /\ pushBuf' \in [Conns -> Nat]
<1>1. /\ conns' = conns \ S /\ peerClosed' = peerClosed \ S
      /\ wantRead' = wantRead \ S /\ wantWrite' = wantWrite \ S
  BY Zenon DEF CloseConns
<1>2. /\ machine' = [c \in Conns |-> IF c \in S THEN "closed" ELSE machine[c]]
      /\ machine' \in [Conns -> Machines]
  BY Zenon DEF CloseConns, Types, Machines
<1>3. /\ pending' = [c \in Conns |-> IF c \in S THEN <<>> ELSE pending[c]]
      /\ pending' \in [Conns -> Seq(Nat)]
  BY Zenon, NoElements DEF CloseConns, Types
<1>4. /\ output' = [c \in Conns |-> IF c \in S THEN <<>> ELSE output[c]]
      /\ output' \in [Conns -> Seq(Unit)]
  BY Zenon, NoElements DEF CloseConns, Types
<1>5. /\ pushBuf' = [c \in Conns |-> IF c \in S THEN 0 ELSE pushBuf[c]]
      /\ pushBuf' \in [Conns -> Nat]
  BY Zenon DEF CloseConns, Types
<1>6. QED
  BY Zenon, <1>1, <1>2, <1>3, <1>4, <1>5

\* Ending connections keeps the invariant, provided the one the loop worked on
\* is among them.
LEMMA CloseKeepsInv ==
  ASSUME LoopInv, NEW S \in SUBSET conns, CloseConns(S),
         UNCHANGED <<asked, unread, peer, backlog, pushed, waking, wake>>,
         got' \in [Conns -> Seq(Unit)], work' \in [Conns -> Nat],
         ~Busy', Busy => at \in S, loop \notin {"queues", "stopped"}
  PROVE  LoopInv'
<1>1. /\ conns' = conns \ S /\ peerClosed' = peerClosed \ S
      /\ wantRead' = wantRead \ S /\ wantWrite' = wantWrite \ S
      /\ \A c \in Conns : IF c \in S
                          THEN /\ machine'[c] = "closed" /\ pending'[c] = <<>>
                               /\ output'[c] = <<>> /\ pushBuf'[c] = 0
                          ELSE /\ machine'[c] = machine[c] /\ pending'[c] = pending[c]
                               /\ output'[c] = output[c] /\ pushBuf'[c] = pushBuf[c]
      /\ machine' \in [Conns -> Machines] /\ pending' \in [Conns -> Seq(Nat)]
      /\ output' \in [Conns -> Seq(Unit)] /\ pushBuf' \in [Conns -> Nat]
  BY Zenon, CloseEffect DEF LoopInv
<1>2. Types'
  BY Zenon, <1>1 DEF LoopInv, Types
<1>3. S \subseteq Conns /\ conns \subseteq Conns /\ \A c \in S : machine[c] \in {"active", "closing"}
  BY Zenon DEF LoopInv, Membership
<1>4. Membership'
  <2>1. conns' = {c \in Conns : machine'[c] \in {"active", "closing"}}
    BY Zenon, <1>1, <1>3 DEF LoopInv, Membership
  <2>2. \A c \in backlog' : c \in Conns /\ machine'[c] = "none" /\ peer'[c] # "absent"
    BY Zenon, <1>1, <1>3 DEF LoopInv, Membership
  <2>3. \A c \in Conns : peer'[c] = "absent" => machine'[c] = "none"
    BY Zenon, <1>1, <1>3 DEF LoopInv, Membership
  <2>4. \A c \in Conns \ conns' : /\ output'[c] = <<>> /\ pushBuf'[c] = 0
                                  /\ c \notin peerClosed' /\ c \notin wantWrite'
    BY ZenonT(40), <1>1, <1>3 DEF LoopInv, Membership
  <2>5. QED
    BY Zenon, <2>1, <2>2, <2>3, <2>4 DEF Membership
<1>5. Position'
  BY Zenon DEF Position
<1>6. InterestSettled'
  BY Zenon, <1>1, <1>3 DEF LoopInv, InterestSettled, Settled
<1>7. BuffersBounded'
  <2>1. Len(<<>>) <= MaxOutput /\ 0 <= MaxOutput
    BY LimitsAssumption
  <2>2. QED
    BY Zenon, <1>1, <2>1 DEF LoopInv, BuffersBounded
<1>8. HalfClosed'
  BY Zenon, <1>1, <1>3 DEF LoopInv, HalfClosed
<1>9. NoLostPush'
  BY Zenon, <1>1, <1>3 DEF LoopInv, NoLostPush
<1>10. QED
  BY Zenon, <1>2, <1>4, <1>5, <1>6, <1>7, <1>8, <1>9 DEF LoopInv

-----------------------------------------------------------------------------
(* Work on one connection.                                                 *)

\* Work on one connection keeps the invariant if it ends with the interest set
\* of the connection settled or goes on with that connection.
LEMMA WorkKeepsInv ==
  ASSUME LoopInv, NEW c \in conns,
         output' \in [Conns -> Seq(Unit)], Len(output'[c]) <= MaxOutput,
         got' \in [Conns -> Seq(Unit)], pending' \in [Conns -> Seq(Nat)],
         unread' \in [Conns -> Seq(Nat)], work' \in [Conns -> Nat],
         machine' \in [Conns -> Machines], machine'[c] \in {"active", "closing"},
         \A d \in Conns \ {c} : /\ output'[d] = output[d] /\ machine'[d] = machine[d]
                                /\ unread'[d] = unread[d]
                                /\ d \in peerClosed' <=> d \in peerClosed
                                /\ d \in wantRead' <=> d \in wantRead
                                /\ d \in wantWrite' <=> d \in wantWrite,
         peerClosed' \subseteq Conns, c \in peerClosed' => unread'[c] = <<>> /\ peer[c] = "eof",
         UNCHANGED <<asked, peer, backlog, conns, pushBuf, pushed, waking, wake>>,
         Busy => at = c, loop \notin {"queues", "stopped"},
         \/ Busy' /\ at' = c /\ back' \in {"pushes", "events"}
         \/ ~Busy' /\ Settled(c)'
  PROVE  LoopInv'
<1>1. Types'
  BY Zenon DEF LoopInv, Types
<1>2. c \in Conns /\ conns \subseteq Conns
  BY Zenon DEF LoopInv, Membership
<1>3. Membership'
  <2>1. conns' = {d \in Conns : machine'[d] \in {"active", "closing"}}
    BY Zenon, <1>2 DEF LoopInv, Membership
  <2>2. \A d \in backlog' : d \in Conns /\ machine'[d] = "none" /\ peer'[d] # "absent"
    BY ZenonT(40), <1>2 DEF LoopInv, Membership
  <2>3. \A d \in Conns : peer'[d] = "absent" => machine'[d] = "none"
    BY Zenon, <1>2 DEF LoopInv, Membership
  <2>4. \A d \in Conns \ conns' : /\ output'[d] = <<>> /\ pushBuf'[d] = 0
                                  /\ d \notin peerClosed' /\ d \notin wantWrite'
    BY ZenonT(40), <1>2 DEF LoopInv, Membership
  <2>5. QED
    BY Zenon, <2>1, <2>2, <2>3, <2>4 DEF Membership
<1>4. Position'
  BY Zenon DEF Position
<1>5. InterestSettled'
  <2>1. \A d \in conns \ {c} : Settled(d)
    BY Zenon DEF LoopInv, InterestSettled
  <2>2. \A d \in conns \ {c} : Settled(d)'
    BY Zenon, <1>2, <2>1 DEF Settled
  <2>3. QED
    BY Zenon, <2>2 DEF InterestSettled
<1>6. BuffersBounded'
  BY Zenon, <1>2 DEF LoopInv, BuffersBounded
<1>7. HalfClosed'
  BY Zenon, <1>2 DEF LoopInv, HalfClosed
<1>8. NoLostPush'
  BY Zenon DEF LoopInv, NoLostPush
<1>9. QED
  BY Zenon, <1>1, <1>3, <1>4, <1>5, <1>6, <1>7, <1>8 DEF LoopInv

\* applyQueuedWork: a push is buffered, dropped with its connection, or ends a
\* connection that does not take its output.
LEMMA BufferPushKeepsInv ==
  ASSUME LoopInv, NEW c \in Conns, BufferPush(c)
  PROVE  LoopInv'
<1>1. /\ loop = "pushes" /\ work' = [work EXCEPT ![c] = 0] /\ back' = "pushes"
      /\ UNCHANGED <<asked, unread, peer, got, backlog, pushed, waking, wake>>
  BY Zenon DEF BufferPush, clientVars, acceptVars
<1>2. work' \in [Conns -> Nat] /\ got' \in [Conns -> Seq(Unit)] /\ ~Busy /\ work[c] \in Nat
  BY Zenon, <1>1 DEF LoopInv, Types, Busy
<1>3. CASE c \notin conns
  <2>1. /\ loop' = "pushes" /\ UNCHANGED <<conns, machineVars, peerClosed, interestVars, pushBuf>>
    BY Zenon, <1>3 DEF BufferPush, Goto
  <2>2. Types' /\ Membership'
    BY Zenon, <1>1, <1>2, <2>1 DEF LoopInv, Types, Membership, machineVars, interestVars
  <2>3. Position' /\ BuffersBounded' /\ HalfClosed'
    BY Zenon, <1>1, <2>1 DEF LoopInv, Position, Busy, BuffersBounded, HalfClosed, machineVars
  <2>4. InterestSettled' /\ NoLostPush'
    BY Zenon, <1>1, <2>1 DEF LoopInv, InterestSettled, Settled, Busy, NoLostPush, machineVars, interestVars
  <2>5. QED
    BY Zenon, <2>2, <2>3, <2>4 DEF LoopInv
<1>4. CASE c \in conns /\ Len(output[c]) + work[c] > MaxOutput
  <2>1. CloseConns({c}) /\ loop' = "pushes"
    BY Zenon, <1>4 DEF BufferPush, Goto
  <2>2. {c} \in SUBSET conns /\ ~Busy'
    BY Zenon, <1>4, <2>1 DEF Busy
  <2>3. QED
    BY Zenon, <1>1, <1>2, <2>1, <2>2, CloseKeepsInv
<1>5. CASE c \in conns /\ ~(Len(output[c]) + work[c] > MaxOutput)
  <2> DEFINE frames == [i \in 1..work[c] |-> Push]
  <2>1. /\ output' = [output EXCEPT ![c] = @ \o frames] /\ loop' = "finish" /\ at' = c
        /\ UNCHANGED <<conns, machine, pending, peerClosed, interestVars, pushBuf>>
    BY Zenon, <1>5 DEF BufferPush, Goto
  <2>2. frames \in Seq(Unit) /\ Len(frames) = work[c]
    BY <1>2, NoElements, SeqElements DEF Unit
  <2> HIDE DEF frames
  <2>3. output[c] \o frames \in Seq(Unit) /\ Len(output[c] \o frames) = Len(output[c]) + work[c]
    <3>1. output[c] \in Seq(Unit)
      BY Zenon DEF LoopInv, Types
    <3>2. QED
      BY <2>2, <3>1, Joined
  <2>4. /\ output' \in [Conns -> Seq(Unit)] /\ Len(output'[c]) <= MaxOutput
        /\ \A d \in Conns \ {c} : output'[d] = output[d]
    BY SMTT(40), <1>2, <1>5, <2>1, <2>3, SeqElements, LimitsAssumption DEF LoopInv, Types
  <2>5. machine[c] \in {"active", "closing"} /\ peerClosed \subseteq Conns
    BY Zenon, <1>5 DEF LoopInv, Membership, HalfClosed
  <2>6. Types /\ HalfClosed
    BY Zenon DEF LoopInv
  <2>7. Busy'
    BY Zenon, <2>1 DEF Busy
  <2>8. QED
    BY SMTT(40), <1>1, <1>2, <1>5, <2>1, <2>4, <2>5, <2>6, <2>7, WorkKeepsInv
       DEF Types, HalfClosed, interestVars
<1>6. QED
  BY Zenon, <1>3, <1>4, <1>5

\* The first k items, of which only the last may be malformed, and all of them
\* if none is.
CutAt(kinds, items, taken, k) ==
    /\ taken \in Seq(Nat) /\ Len(taken) = k /\ \A i \in 1..k : taken[i] = items[i]
    /\ \A i \in 1..(k - 1) : kinds[items[i]] # "bad"
    /\ \/ k > 0 /\ kinds[items[k]] = "bad"
       \/ k = Len(items) /\ \A i \in 1..k : kinds[items[i]] # "bad"

\* What UpToBad leaves of the items is cut off behind the first malformed one.
LEMMA UpToBadCuts ==
  ASSUME NEW c, NEW items \in Seq(Nat), NEW k \in 0..Len(items), UpToBad(c, items, k)
  PROVE  CutAt(asked[c], items, SubSeq(items, 1, k), k)
<1>1. Len(items) \in Nat /\ k \in Nat /\ \A i \in 1..k : i = k \/ i \in 1..k - 1
  BY SeqElements
<1>2. /\ SubSeq(items, 1, k) \in Seq(Nat) /\ Len(SubSeq(items, 1, k)) = k
      /\ \A i \in 1..k : SubSeq(items, 1, k)[i] = items[i]
  BY SMTT(40), RestOfOutput
<1>3. CASE k > 0 /\ asked[c][items[k]] = "bad"
  BY Zenon, <1>2, <1>3 DEF UpToBad, CutAt
<1>4. CASE ~(k > 0 /\ asked[c][items[k]] = "bad")
  <2>1. \A i \in 1..k : asked[c][items[i]] # "bad"
    BY <1>1, <1>4 DEF UpToBad
  <2>2. QED
    BY Zenon, <1>2, <1>4, <2>1 DEF UpToBad, CutAt
<1>5. QED
  BY Zenon, <1>3, <1>4

-----------------------------------------------------------------------------
(* The clients and the queues.                                             *)

\* A client connects, sends or finishes: the loop has not seen its EOF yet.
LEMMA ClientsKeepInv ==
  ASSUME LoopInv, NEW c \in Conns,
         \/ Connect(c) \/ (\E kind \in Kinds : Send(c, kind))
         \/ (\E how \in {"eof", "reset"} : Leave(c, how))
  PROVE  LoopInv'
<1>1. /\ UNCHANGED <<got, conns, machineVars, peerClosed, interestVars, pushBuf, pushed, waking,
                     wake, loop, at, back, work>>
      /\ c \notin peerClosed
  BY Zenon DEF Connect, Send, Leave, queueVars, loopVars, LoopInv, HalfClosed
<1>2. Types'
  <2>1. CASE Connect(c) \/ \E how \in {"eof", "reset"} : Leave(c, how)
    <3>1. peer' \in [Conns -> Peers] /\ UNCHANGED <<asked, unread>>
      BY Zenon, <2>1 DEF Connect, Leave, LoopInv, Types, Peers
    <3>2. QED
      BY Zenon, <1>1, <3>1 DEF LoopInv, Types, machineVars
  <2>2. ASSUME NEW kind \in Kinds, Send(c, kind)
        PROVE  Types'
    <3>1. /\ asked' = [asked EXCEPT ![c] = Append(@, kind)] /\ peer' = peer
          /\ unread' = [unread EXCEPT ![c] = Append(@, Len(asked'[c]))]
      BY Zenon, <2>2 DEF Send
    <3>2. asked[c] \in Seq(Kinds) /\ unread[c] \in Seq(Nat)
      BY Zenon DEF LoopInv, Types
    <3>3. Append(asked[c], kind) \in Seq(Kinds) /\ Len(Append(asked[c], kind)) \in Nat
      BY Zenon, <3>2, Appended, SeqElements
    <3>4. asked' \in [Conns -> Seq(Kinds)] /\ Len(asked'[c]) \in Nat
      BY Zenon, <3>1, <3>3 DEF LoopInv, Types
    <3>5. unread' \in [Conns -> Seq(Nat)]
      BY Zenon, <3>1, <3>2, <3>4, Appended DEF LoopInv, Types
    <3>6. QED
      BY Zenon, <1>1, <3>1, <3>4, <3>5 DEF LoopInv, Types, machineVars
  <2>3. QED
    BY Zenon, <2>1, <2>2
<1>3. /\ \A d \in Conns : peer'[d] = peer[d] \/ (d = c /\ peer'[c] # "absent")
      /\ \A d \in backlog' : d \in backlog \/ (d = c /\ peer[c] = "absent" /\ peer'[c] # "absent")
  BY Zenon DEF Connect, Send, Leave, LoopInv, Types, acceptVars
<1>4. Membership'
  BY Zenon, <1>1, <1>3 DEF LoopInv, Membership, machineVars, interestVars
<1>5. Position' /\ BuffersBounded' /\ NoLostPush'
  BY Zenon, <1>1 DEF LoopInv, Position, Busy, BuffersBounded, NoLostPush, machineVars
<1>6. InterestSettled'
  BY Zenon, <1>1 DEF LoopInv, InterestSettled, Settled, Busy, machineVars, interestVars
<1>7. HalfClosed'
  <2>1. \A d \in Conns \ {c} : peer'[d] = peer[d] /\ unread'[d] = unread[d]
    BY Zenon DEF Connect, Send, Leave, LoopInv, Types
  <2>2. peerClosed \subseteq Conns
    BY Zenon DEF LoopInv, HalfClosed, Membership
  <2>3. QED
    BY Zenon, <1>1, <2>1, <2>2 DEF LoopInv, HalfClosed
<1>8. QED
  BY Zenon, <1>2, <1>4, <1>5, <1>6, <1>7 DEF LoopInv

\* queuePush: a frame that would overflow the queue is refused, and one that
\* is queued comes with the wake-up that makes the loop take it.
LEMMA QueuePushKeepsInv ==
  ASSUME LoopInv, NEW c \in Conns, NEW n \in {1, MaxOutput + 1}, QueuePush(c, n)
  PROVE  LoopInv'
<1>1. UNCHANGED <<clientVars, got, backlog, conns, machineVars, peerClosed, interestVars, wake,
                  loop, at, back, work>>
  BY Zenon DEF QueuePush, loopVars, acceptVars
<1>2. n \in Nat /\ n > 0 /\ c \in conns
  BY LimitsAssumption DEF QueuePush
<1>3. /\ pushBuf' \in [Conns -> Nat] /\ \A d \in Conns : pushBuf'[d] <= MaxOutput
      /\ \A d \in Conns \ {c} : pushBuf'[d] = pushBuf[d]
      /\ \/ pushBuf' = pushBuf /\ pushed' = pushed /\ (waking' # {} \/ waking' = waking)
         \/ c \in pushed' /\ pushed \subseteq pushed' /\ waking' # {}
  <2>1. CASE pushBuf[c] + n > MaxOutput
    <3>1. RequestClose(c) /\ pushBuf' = pushBuf /\ pushed' = pushed
      BY Zenon, <2>1 DEF QueuePush
    <3>2. QED
      BY Zenon, <3>1 DEF RequestClose, LoopInv, Types, BuffersBounded
  <2>2. CASE ~(pushBuf[c] + n > MaxOutput)
    <3>1. /\ pushBuf' = [pushBuf EXCEPT ![c] = @ + n]
          /\ pushed' = pushed \cup {c} /\ waking' = waking \cup {"push"}
      BY Zenon, <2>2 DEF QueuePush
    <3>2. pushBuf[c] \in Nat /\ pushBuf[c] + n \in Nat /\ pushBuf[c] + n <= MaxOutput
      BY <1>2, <2>2, LimitsAssumption DEF LoopInv, Types
    <3>3. QED
      BY Zenon, <3>1, <3>2 DEF LoopInv, Types, BuffersBounded
  <2>3. QED
    BY Zenon, <2>1, <2>2
<1>4. Types' /\ Membership'
  BY Zenon, <1>1, <1>2, <1>3 DEF LoopInv, Types, Membership, clientVars, machineVars, interestVars
<1>5. Position' /\ BuffersBounded' /\ HalfClosed'
  BY Zenon, <1>1, <1>3 DEF LoopInv, Position, Busy, BuffersBounded, HalfClosed, clientVars, machineVars
<1>6. InterestSettled'
  BY Zenon, <1>1 DEF LoopInv, InterestSettled, Settled, Busy, machineVars, interestVars
<1>7. NoLostPush'
  BY Zenon, <1>1, <1>3 DEF LoopInv, NoLostPush, Membership
<1>8. QED
  BY Zenon, <1>4, <1>5, <1>6, <1>7 DEF LoopInv

\* applyQueuedWork takes everything that is queued.
LEMMA TakeQueuesKeepsInv ==
  ASSUME LoopInv, TakeQueues
  PROVE  LoopInv'
<1>1. /\ UNCHANGED <<clientVars, got, backlog, conns, machineVars, peerClosed, interestVars>>
      /\ loop = "queues" /\ loop' = "pushes"
      /\ work' = [c \in Conns |-> IF c \in pushed THEN pushBuf[c] ELSE 0]
      /\ pushBuf' = [c \in Conns |-> IF c \in pushed THEN 0 ELSE pushBuf[c]]
  BY Zenon DEF TakeQueues
<1>2. /\ work' \in [Conns -> Nat] /\ pushBuf' \in [Conns -> Nat]
      /\ \A c \in Conns : pushBuf'[c] = 0 \/ (pushBuf'[c] = pushBuf[c] /\ c \notin pushed)
  BY Zenon, <1>1 DEF LoopInv, Types
<1>3. Types' /\ Membership'
  BY Zenon, <1>1, <1>2 DEF LoopInv, Types, Membership, clientVars, machineVars, interestVars
<1>4. Position' /\ HalfClosed'
  BY Zenon, <1>1 DEF LoopInv, Position, Busy, HalfClosed, clientVars
<1>5. BuffersBounded'
  BY <1>1, <1>2, LimitsAssumption DEF LoopInv, BuffersBounded, machineVars
<1>6. InterestSettled'
  BY Zenon, <1>1 DEF LoopInv, InterestSettled, Settled, Busy, machineVars, interestVars
<1>7. NoLostPush'
  BY <1>1, <1>2 DEF LoopInv, NoLostPush, Membership
<1>8. QED
  BY Zenon, <1>3, <1>4, <1>5, <1>6, <1>7 DEF LoopInv

\* A connection enters the loop, or is refused by it.
LEMMA AcceptKeepsInv ==
  ASSUME LoopInv, NEW c \in Conns, RegisterConn(c) \/ RefuseConn(c)
  PROVE  LoopInv'
<1>1. /\ UNCHANGED <<clientVars, got, pending, output, peerClosed, wantWrite, pushBuf, pushed,
                     waking, wake, loop, at, back, work>>
      /\ loop = "events" /\ c \in backlog /\ backlog' = backlog \ {c}
      /\ \/ /\ conns' = conns \cup {c} /\ machine' = [machine EXCEPT ![c] = "active"]
            /\ wantRead' = wantRead \cup {c}
         \/ /\ conns' = conns /\ machine' = [machine EXCEPT ![c] = "closed"]
            /\ wantRead' = wantRead
  BY Zenon DEF RegisterConn, RefuseConn, Accepting, queueVars, loopVars, interestVars
<1>2. /\ machine[c] = "none" /\ peer[c] # "absent" /\ c \notin conns /\ output[c] = <<>>
      /\ pushBuf[c] = 0 /\ c \notin peerClosed /\ c \notin wantWrite
  BY Zenon, <1>1 DEF LoopInv, Membership
<1>3. Types'
  BY Zenon, <1>1 DEF LoopInv, Types, Machines, clientVars
<1>4. Membership'
  <2>1. conns' = {d \in Conns : machine'[d] \in {"active", "closing"}}
    BY SMTT(40), <1>1, <1>2 DEF LoopInv, Types, Membership
  <2>2. \A d \in backlog' : d \in Conns /\ machine'[d] = "none" /\ peer'[d] # "absent"
    BY Zenon, <1>1 DEF LoopInv, Types, Membership, clientVars
  <2>3. \A d \in Conns : peer'[d] = "absent" => machine'[d] = "none"
    BY Zenon, <1>1, <1>2 DEF LoopInv, Types, Membership, clientVars
  <2>4. \A d \in Conns \ conns' : /\ output'[d] = <<>> /\ pushBuf'[d] = 0
                                  /\ d \notin peerClosed' /\ d \notin wantWrite'
    BY Zenon, <1>1, <1>2 DEF LoopInv, Membership
  <2>5. QED
    BY Zenon, <2>1, <2>2, <2>3, <2>4 DEF Membership
<1>5. Position' /\ BuffersBounded' /\ HalfClosed'
  BY Zenon, <1>1 DEF LoopInv, Position, Busy, BuffersBounded, HalfClosed, clientVars
<1>6. InterestSettled'
  <2>1. Len(<<>>) <= HighWater
    BY LimitsAssumption
  <2>2. QED
    BY Zenon, <1>1, <1>2, <2>1 DEF LoopInv, InterestSettled, Settled, Busy
<1>7. NoLostPush'
  <2>1. \A d \in conns' : pushBuf[d] > 0 => d \in conns
    BY <1>1, <1>2
  <2>2. QED
    BY Zenon, <1>1, <2>1 DEF LoopInv, NoLostPush
<1>8. QED
  BY Zenon, <1>3, <1>4, <1>5, <1>6, <1>7 DEF LoopInv

-----------------------------------------------------------------------------
(* The events of a connection.                                             *)

\* What Feed appends to the parsed requests.
LEMMA FeedEffect ==
  ASSUME Types, NEW c \in Conns, NEW items \in Seq(Nat), Feed(c, items)
  PROVE  /\ pending' \in [Conns -> Seq(Nat)] /\ machine' \in [Conns -> Machines]
         /\ \A d \in Conns \ {c} : pending'[d] = pending[d] /\ machine'[d] = machine[d]
         /\ machine'[c] = machine[c] \/ machine'[c] = "closing"
<1>0. PICK k \in 0..Len(items) :
        /\ pending' = [pending EXCEPT ![c] = @ \o SubSeq(items, 1, k)]
        /\ machine' = [machine EXCEPT ![c] =
               IF \E i \in Range(SubSeq(items, 1, k)) : asked[c][i] = "bad" THEN "closing" ELSE @]
  BY Zenon DEF Feed
<1> DEFINE taken == SubSeq(items, 1, k)
<1>1. taken \in Seq(Nat)
  BY Zenon, RestOfOutput
<1>2. /\ pending' = [pending EXCEPT ![c] = @ \o taken]
      /\ machine' = [machine EXCEPT ![c] =
             IF \E i \in Range(taken) : asked[c][i] = "bad" THEN "closing" ELSE @]
  BY Zenon, <1>0
<1> HIDE DEF taken
<1>3. pending[c] \o taken \in Seq(Nat)
  <2>1. pending[c] \in Seq(Nat)
    BY Zenon DEF Types
  <2>2. QED
    BY Zenon, <1>1, <2>1, Joined
<1>4. pending' \in [Conns -> Seq(Nat)] /\ \A d \in Conns \ {c} : pending'[d] = pending[d]
  BY Zenon, <1>2, <1>3 DEF Types
<1>5. QED
  BY Zenon, <1>2, <1>4 DEF Types, Machines

\* connReadable.
LEMMA ConnReadableKeepsInv ==
  ASSUME LoopInv, NEW c \in Conns, ConnReadable(c)
  PROVE  LoopInv'
<1>1. /\ loop = "events" /\ back' = "events"
      /\ UNCHANGED <<asked, peer, got, backlog, pushed, waking, wake, work>>
  BY Zenon DEF ConnReadable, acceptVars
<1>2. ~Busy /\ got' \in [Conns -> Seq(Unit)] /\ work' \in [Conns -> Nat]
  BY Zenon, <1>1 DEF Busy, LoopInv, Types
<1>3. CASE c \notin conns
  <2>1. UNCHANGED connVars /\ UNCHANGED <<pushed, waking, wake>> /\ loop' = "events"
    BY Zenon, <1>1, <1>3 DEF ConnReadable, Goto, connVars, clientVars
  <2>2. /\ Types' /\ Membership' /\ BuffersBounded' /\ HalfClosed'
        /\ conns' = conns /\ pushBuf' = pushBuf /\ \A d : Settled(d)' <=> Settled(d)
    BY Zenon, <2>1, ConnectionsUntouched
  <2>3. Position' /\ InterestSettled' /\ NoLostPush'
    BY <1>1, <2>1, <2>2 DEF LoopInv, Position, InterestSettled, NoLostPush, Busy
  <2>4. QED
    BY Zenon, <2>2, <2>3 DEF LoopInv
<1>4. CASE c \in conns /\ CloseConns({c}) /\ loop' = "events" /\ unread' = unread
  <2>1. {c} \in SUBSET conns /\ ~Busy'
    BY Zenon, <1>4 DEF Busy
  <2>2. QED
    BY Zenon, <1>1, <1>2, <1>4, <2>1, CloseKeepsInv
<1>5. ASSUME c \in conns, NEW n \in 0..Len(unread[c]),
             Feed(c, SubSeq(unread[c], 1, n)),
             unread' = [unread EXCEPT ![c] = SubSeq(@, n + 1, Len(@))],
             \/ peerClosed' = peerClosed
             \/ unread'[c] = <<>> /\ peer[c] = "eof" /\ peerClosed' = peerClosed \cup {c},
             loop' = "process", at' = c, UNCHANGED <<conns, output, interestVars, pushBuf>>
      PROVE  LoopInv'
  <2>1. unread[c] \in Seq(Nat) /\ Types
    BY Zenon DEF LoopInv, Types
  <2>2. SubSeq(unread[c], 1, n) \in Seq(Nat) /\ SubSeq(unread[c], n + 1, Len(unread[c])) \in Seq(Nat)
    BY Zenon, <2>1, RestOfOutput
  <2>3. /\ unread' \in [Conns -> Seq(Nat)]
        /\ unread'[c] = SubSeq(unread[c], n + 1, Len(unread[c]))
        /\ \A d \in Conns \ {c} : unread'[d] = unread[d]
    BY Zenon, <1>5, <2>2 DEF LoopInv, Types
  <2>4. /\ pending' \in [Conns -> Seq(Nat)] /\ machine' \in [Conns -> Machines]
        /\ \A d \in Conns \ {c} : pending'[d] = pending[d] /\ machine'[d] = machine[d]
        /\ machine'[c] = machine[c] \/ machine'[c] = "closing"
    BY Zenon, <1>5, <2>1, <2>2, FeedEffect
  <2>5. machine'[c] \in {"active", "closing"}
    BY Zenon, <1>5, <2>4 DEF LoopInv, Membership
  <2>6. /\ peerClosed' \subseteq Conns /\ \A d \in Conns \ {c} : d \in peerClosed' <=> d \in peerClosed
        /\ c \in peerClosed' => unread'[c] = <<>> /\ peer[c] = "eof"
    <3>1. c \in peerClosed => unread'[c] = <<>> /\ peer[c] = "eof"
      <4>1. SUFFICES ASSUME c \in peerClosed PROVE unread'[c] = <<>> /\ peer[c] = "eof"
        BY Zenon
      <4>2. unread[c] = <<>> /\ peer[c] = "eof"
        BY Zenon, <4>1 DEF LoopInv, HalfClosed
      <4>3. Len(unread[c]) = 0 /\ n = 0
        BY <4>2
      <4>4. Len(unread'[c]) = 0
        BY <2>1, <2>3, <4>3, RestOfOutput
      <4>5. unread'[c] \in Seq(Nat)
        BY Zenon, <2>2, <2>3
      <4>6. QED
        BY SMTT(40), <4>2, <4>4, <4>5, NoElements
    <3>2. peerClosed \subseteq Conns
      BY Zenon DEF LoopInv, HalfClosed, Membership
    <3>3. QED
      BY Zenon, <1>5, <3>1, <3>2
  <2>7. Len(output'[c]) <= MaxOutput /\ output' \in [Conns -> Seq(Unit)] /\ Busy'
    BY Zenon, <1>5 DEF LoopInv, Types, BuffersBounded, Busy
  <2>8. QED
    BY Zenon, <1>1, <1>2, <1>5, <2>3, <2>4, <2>5, <2>6, <2>7, WorkKeepsInv DEF interestVars
<1>6. CASE c \in conns /\ loop' = "process" /\ at' = c
           /\ UNCHANGED <<unread, conns, machineVars, peerClosed, interestVars, pushBuf>>
  <2>1. UNCHANGED connVars /\ UNCHANGED <<pushed, waking, wake>>
    BY Zenon, <1>1, <1>6 DEF connVars, clientVars
  <2>2. /\ Types' /\ Membership' /\ BuffersBounded' /\ HalfClosed'
        /\ conns' = conns /\ pushBuf' = pushBuf /\ \A d : Settled(d)' <=> Settled(d)
    BY Zenon, <2>1, ConnectionsUntouched
  <2>3. Position' /\ InterestSettled' /\ NoLostPush'
    BY SMTT(40), <1>1, <1>6, <2>1, <2>2 DEF LoopInv, Position, InterestSettled, NoLostPush, Busy
  <2>4. QED
    BY Zenon, <2>2, <2>3 DEF LoopInv
<1>7. QED
  <2>1. SUFFICES ASSUME c \in conns PROVE LoopInv'
    BY Zenon, <1>3
  <2>2. \/ CloseConns({c}) /\ Goto("events", None) /\ UNCHANGED unread
        \/ /\ \E n \in 0..Len(unread[c]) :
                /\ Feed(c, SubSeq(unread[c], 1, n))
                /\ unread' = [unread EXCEPT ![c] = SubSeq(@, n + 1, Len(@))]
                /\ \/ UNCHANGED peerClosed
                   \/ unread'[c] = <<>> /\ peer[c] = "eof" /\ peerClosed' = peerClosed \cup {c}
           /\ Goto("process", c) /\ UNCHANGED <<conns, output, interestVars, pushBuf>>
        \/ /\ Goto("process", c)
           /\ UNCHANGED <<unread, conns, machineVars, peerClosed, interestVars, pushBuf>>
    BY Zenon, <2>1 DEF ConnReadable
  <2>3. QED
    BY Zenon, <2>1, <2>2, <1>4, <1>5, <1>6 DEF Goto

\* What a flush of n units does to the buffers.
LEMMA FlushEffect ==
  ASSUME Types, NEW c \in Conns, NEW n \in 0..Len(output[c]), Written(c, n)
  PROVE  /\ got' \in [Conns -> Seq(Unit)] /\ \A d \in Conns \ {c} : got'[d] = got[d]
         /\ got'[c] = got[c] \o SubSeq(output[c], 1, n)
         /\ Rest(c, n) \in Seq(Unit) /\ Len(Rest(c, n)) = Len(output[c]) - n
<1>1. output[c] \in Seq(Unit) /\ got[c] \in Seq(Unit)
  BY Zenon DEF Types
<1>2. /\ SubSeq(output[c], 1, n) \in Seq(Unit) /\ Rest(c, n) \in Seq(Unit)
      /\ Len(Rest(c, n)) = Len(output[c]) - n
  BY <1>1, RestOfOutput DEF Rest
<1>3. got[c] \o SubSeq(output[c], 1, n) \in Seq(Unit)
  BY Zenon, <1>1, <1>2, Joined
<1>4. QED
  BY Zenon, <1>2, <1>3 DEF Types, Written

\* processConn and finishConnEvent: a flush ends the connection or leaves less
\* output behind; the last one settles the interest set.
LEMMA FlushKeepsInv ==
  ASSUME LoopInv, NEW c \in Conns, ProcessFlush(c) \/ FinishConnEvent(c)
  PROVE  LoopInv'
<1>1. /\ Busy /\ at = c /\ back' = back /\ loop \notin {"queues", "stopped"}
      /\ UNCHANGED <<asked, unread, peer, backlog, pushed, waking, wake, work>>
  BY Zenon DEF ProcessFlush, FinishConnEvent, Busy, clientVars, acceptVars
<1>2. c \in conns /\ back \in {"pushes", "events"} /\ work' \in [Conns -> Nat] /\ Types
  BY Zenon, <1>1 DEF LoopInv, Position, Types
<1>3. \E n \in 0..Len(output[c]) :
        /\ Written(c, n)
        /\ \/ CloseConns({c}) /\ loop' = back
           \/ /\ output' = [output EXCEPT ![c] = Rest(c, n)] /\ loop' \in {"finish", "process"}
              /\ at' = c /\ UNCHANGED <<conns, machine, pending, peerClosed, interestVars, pushBuf>>
           \/ /\ output' = [output EXCEPT ![c] = Rest(c, n)] /\ loop' = back
              /\ SetInterest(c, Rest(c, n))
              /\ UNCHANGED <<conns, machine, pending, peerClosed, pushBuf>>
  BY Zenon DEF ProcessFlush, FinishConnEvent, Goto
<1>4. PICK n \in 0..Len(output[c]) :
        /\ Written(c, n)
        /\ \/ CloseConns({c}) /\ loop' = back
           \/ /\ output' = [output EXCEPT ![c] = Rest(c, n)] /\ loop' \in {"finish", "process"}
              /\ at' = c /\ UNCHANGED <<conns, machine, pending, peerClosed, interestVars, pushBuf>>
           \/ /\ output' = [output EXCEPT ![c] = Rest(c, n)] /\ loop' = back
              /\ SetInterest(c, Rest(c, n))
              /\ UNCHANGED <<conns, machine, pending, peerClosed, pushBuf>>
  BY Zenon, <1>3
<1>5. /\ got' \in [Conns -> Seq(Unit)]
      /\ Rest(c, n) \in Seq(Unit) /\ Len(Rest(c, n)) = Len(output[c]) - n
  BY Zenon, <1>2, <1>4, FlushEffect
<1>6. CASE CloseConns({c}) /\ loop' = back
  <2>1. {c} \in SUBSET conns /\ ~Busy'
    BY Zenon, <1>2, <1>6 DEF Busy
  <2>2. QED
    BY Zenon, <1>1, <1>2, <1>5, <1>6, <2>1, CloseKeepsInv
<1>7. ASSUME output' = [output EXCEPT ![c] = Rest(c, n)],
             UNCHANGED <<conns, machine, pending, peerClosed, pushBuf>>
      PROVE  /\ output' \in [Conns -> Seq(Unit)] /\ Len(output'[c]) <= MaxOutput
             /\ output'[c] = Rest(c, n)
             /\ \A d \in Conns \ {c} : /\ output'[d] = output[d] /\ machine'[d] = machine[d]
                                       /\ unread'[d] = unread[d]
                                       /\ d \in peerClosed' <=> d \in peerClosed
             /\ pending' \in [Conns -> Seq(Nat)] /\ machine' \in [Conns -> Machines]
             /\ unread' \in [Conns -> Seq(Nat)]
             /\ machine'[c] \in {"active", "closing"} /\ peerClosed' \subseteq Conns
             /\ c \in peerClosed' => unread'[c] = <<>> /\ peer[c] = "eof"
  <2>1. Len(output[c]) <= MaxOutput /\ Len(output[c]) \in Nat
    BY Zenon, SeqElements DEF LoopInv, BuffersBounded, Types
  <2>2. output'[c] = Rest(c, n) /\ Len(Rest(c, n)) <= MaxOutput
    BY <1>2, <1>5, <1>7, <2>1, LimitsAssumption DEF Types
  <2>3. output' \in [Conns -> Seq(Unit)] /\ \A d \in Conns \ {c} : output'[d] = output[d]
    BY Zenon, <1>2, <1>5, <1>7 DEF Types
  <2>4. machine[c] \in {"active", "closing"} /\ peerClosed \subseteq Conns
    BY Zenon, <1>2 DEF LoopInv, Membership, HalfClosed
  <2>5. c \in peerClosed => unread[c] = <<>> /\ peer[c] = "eof"
    BY Zenon DEF LoopInv, HalfClosed
  <2>6. QED
    BY Zenon, <1>1, <1>2, <1>7, <2>2, <2>3, <2>4, <2>5 DEF Types
<1>8. CASE /\ output' = [output EXCEPT ![c] = Rest(c, n)] /\ loop' \in {"finish", "process"}
           /\ at' = c /\ UNCHANGED <<conns, machine, pending, peerClosed, interestVars, pushBuf>>
  <2>1. Busy'
    BY Zenon, <1>8 DEF Busy
  <2>2. QED
    BY Zenon, <1>1, <1>2, <1>5, <1>7, <1>8, <2>1, WorkKeepsInv DEF interestVars
<1>9. CASE /\ output' = [output EXCEPT ![c] = Rest(c, n)] /\ loop' = back
           /\ SetInterest(c, Rest(c, n))
           /\ UNCHANGED <<conns, machine, pending, peerClosed, pushBuf>>
  <2>1. ~Busy'
    BY Zenon, <1>2, <1>9 DEF Busy
  <2>2. output'[c] = Rest(c, n)
    BY Zenon, <1>7, <1>9
  <2>3. /\ Settled(c)'
        /\ \A d \in Conns \ {c} : /\ d \in wantRead' <=> d \in wantRead
                                  /\ d \in wantWrite' <=> d \in wantWrite
    BY Zenon, <1>9, <2>2 DEF SetInterest, Settled
  <2>4. QED
    BY Zenon, <1>1, <1>2, <1>5, <1>7, <1>9, <2>1, <2>3, WorkKeepsInv
<1>10. QED
  BY Zenon, <1>4, <1>6, <1>8, <1>9

\* The units of a reply.
LEMMA ReplyIsUnits ==
  ASSUME NEW i \in Nat, NEW kind
  PROVE  /\ ReplyTo(i, kind) \in Seq(Unit) /\ Len(ReplyTo(i, kind)) = UnitsOf(kind)
         /\ UnitsOf(kind) \in Nat
         /\ \A j \in 1..UnitsOf(kind) : ReplyTo(i, kind)[j] = <<i, j>>
<1>1. UnitsOf(kind) \in Nat
  BY Zenon DEF UnitsOf
<1>2. \A j \in 1..UnitsOf(kind) : <<i, j>> \in Unit
  BY <1>1 DEF Unit
<1>3. ReplyTo(i, kind) \in Seq(Unit)
  BY <1>1, <1>2, NoElements DEF ReplyTo
<1>4. DOMAIN ReplyTo(i, kind) = 1..UnitsOf(kind)
  BY Zenon DEF ReplyTo
<1>5. QED
  BY <1>1, <1>3, <1>4, SeqElements DEF ReplyTo

\* processConn: a request runs, or ends the connection.
LEMMA ProcessNextKeepsInv ==
  ASSUME LoopInv, NEW c \in Conns, ProcessNext(c)
  PROVE  LoopInv'
<1>1. /\ Busy /\ at = c /\ back' = back /\ loop \notin {"queues", "stopped"}
      /\ UNCHANGED <<asked, unread, peer, got, backlog, pushed, waking, wake, work>>
  BY Zenon DEF ProcessNext, Busy, clientVars, acceptVars
<1>2. /\ c \in conns /\ back \in {"pushes", "events"} /\ work' \in [Conns -> Nat]
      /\ got' \in [Conns -> Seq(Unit)] /\ Types
  BY Zenon, <1>1 DEF LoopInv, Position, Types
<1> DEFINE kind == asked[c][Head(pending[c])]
           out == output[c] \o ReplyTo(Head(pending[c]), kind)
<1>3. CASE pending[c] = <<>>
  <2>1. loop' = "finish" /\ at' = c /\ UNCHANGED connVars
    BY Zenon, <1>1, <1>3 DEF ProcessNext, Goto, connVars, clientVars
  <2>2. /\ Types' /\ Membership' /\ BuffersBounded' /\ HalfClosed'
        /\ conns' = conns /\ pushBuf' = pushBuf /\ \A d : Settled(d)' <=> Settled(d)
    BY Zenon, <2>1, ConnectionsUntouched
  <2>3. Position' /\ InterestSettled' /\ NoLostPush'
    BY Zenon, <1>1, <1>2, <2>1, <2>2 DEF LoopInv, Position, InterestSettled, NoLostPush, Busy
  <2>4. QED
    BY Zenon, <2>2, <2>3 DEF LoopInv
<1>4. CASE pending[c] # <<>> /\ (kind = "fatal" \/ Len(out) > MaxOutput)
  <2>1. CloseConns({c}) /\ loop' = back
    BY Zenon, <1>4 DEF ProcessNext, Goto
  <2>2. {c} \in SUBSET conns /\ ~Busy'
    BY Zenon, <1>2, <2>1 DEF Busy
  <2>3. QED
    BY Zenon, <1>1, <1>2, <2>1, <2>2, CloseKeepsInv
<1>5. CASE pending[c] # <<>> /\ ~(kind = "fatal" \/ Len(out) > MaxOutput)
  <2>1. /\ pending' = [pending EXCEPT ![c] = Tail(@)] /\ output' = [output EXCEPT ![c] = out]
        /\ loop' \in {"finish", "process"} /\ at' = c
        /\ UNCHANGED <<conns, machine, peerClosed, interestVars, pushBuf>>
    BY Zenon, <1>5 DEF ProcessNext, Goto
  <2>2. pending[c] \in Seq(Nat) /\ output[c] \in Seq(Unit)
    BY Zenon, <1>2 DEF Types
  <2>3. Head(pending[c]) \in Nat /\ Tail(pending[c]) \in Seq(Nat)
    BY Zenon, <1>5, <2>2, Shifted
  <2>4. out \in Seq(Unit) /\ Len(out) \in Nat
    BY Zenon, <2>2, <2>3, ReplyIsUnits, Joined, SeqElements
  <2> HIDE DEF kind, out
  <2>5. Len(out) <= MaxOutput
    BY <1>5, <2>4, LimitsAssumption
  <2>6. /\ output' \in [Conns -> Seq(Unit)] /\ Len(output'[c]) <= MaxOutput
        /\ \A d \in Conns \ {c} : output'[d] = output[d]
    BY Zenon, <1>2, <2>1, <2>4, <2>5 DEF Types
  <2>7. pending' \in [Conns -> Seq(Nat)]
    BY Zenon, <1>2, <2>1, <2>3 DEF Types
  <2>8. /\ machine[c] \in {"active", "closing"} /\ peerClosed \subseteq Conns /\ Busy'
        /\ c \in peerClosed => unread[c] = <<>> /\ peer[c] = "eof"
    BY Zenon, <1>2, <2>1 DEF LoopInv, Membership, HalfClosed, Busy
  <2>9. machine' \in [Conns -> Machines] /\ unread' \in [Conns -> Seq(Nat)]
    BY Zenon, <1>1, <1>2, <2>1 DEF Types
  <2>10. QED
    BY Zenon, <1>1, <1>2, <2>1, <2>6, <2>7, <2>8, <2>9, WorkKeepsInv DEF interestVars
<1>6. QED
  BY Zenon, <1>3, <1>4, <1>5

\* The other ends of connections: a failed flush, queued close requests, and
\* the end of the loop.
LEMMA EndsKeepInv ==
  ASSUME LoopInv, (\E c \in Conns : FlushFails(c)) \/ CloseRequests \/ Cleanup
  PROVE  LoopInv'
<1>1. /\ UNCHANGED <<asked, unread, peer, got, backlog, pushed, waking, wake, work>>
  BY Zenon DEF FlushFails, CloseRequests, Cleanup, clientVars, acceptVars
<1>2. got' \in [Conns -> Seq(Unit)] /\ work' \in [Conns -> Nat]
  BY Zenon, <1>1 DEF LoopInv, Types
<1>3. ASSUME NEW c \in Conns, FlushFails(c)
      PROVE  LoopInv'
  <2>1. Busy /\ at = c /\ CloseConns({c}) /\ loop' = back /\ loop \notin {"queues", "stopped"}
    BY Zenon, <1>3 DEF FlushFails, Busy, Goto
  <2>2. {c} \in SUBSET conns /\ ~Busy'
    BY Zenon, <2>1 DEF LoopInv, Position, Busy
  <2>3. QED
    BY Zenon, <1>1, <1>2, <2>1, <2>2, CloseKeepsInv
<1>4. CASE CloseRequests
  <2>1. CloseConns(closes \cap conns) /\ ~Busy /\ ~Busy' /\ loop \notin {"queues", "stopped"}
    BY Zenon, <1>4 DEF CloseRequests, Busy
  <2>2. closes \cap conns \in SUBSET conns
    BY Zenon
  <2>3. QED
    BY Zenon, <1>1, <1>2, <2>1, <2>2, CloseKeepsInv
<1>5. CASE Cleanup
  <2>1. CloseConns(conns) /\ ~Busy /\ ~Busy' /\ loop \notin {"queues", "stopped"}
    BY Zenon, <1>5 DEF Cleanup, Accepting, Busy
  <2>2. conns \in SUBSET conns
    BY Zenon
  <2>3. QED
    BY Zenon, <1>1, <1>2, <2>1, <2>2, CloseKeepsInv
<1>6. QED
  BY Zenon, <1>3, <1>4, <1>5

\* A loop with no connections yet.
LEMMA InitEstablishesLoopInv == Init => LoopInv
<1>1. SUFFICES ASSUME Init PROVE LoopInv
  BY Zenon
<1>2. /\ <<>> \in Seq(Kinds) /\ <<>> \in Seq(Nat) /\ <<>> \in Seq(Unit)
      /\ Len(<<>>) <= MaxOutput /\ 0 <= MaxOutput
  BY NoElements, LimitsAssumption
<1>3. Types
  BY Zenon, <1>1, <1>2 DEF Init, Types, Machines, Peers
<1>4. Membership
  BY Zenon, <1>1 DEF Init, Membership
<1>5. Position /\ InterestSettled /\ HalfClosed /\ NoLostPush
  BY Zenon, <1>1 DEF Init, Position, Busy, InterestSettled, HalfClosed, NoLostPush
<1>6. BuffersBounded
  BY Zenon, <1>1, <1>2 DEF Init, BuffersBounded
<1>7. QED
  BY Zenon, <1>3, <1>4, <1>5, <1>6 DEF LoopInv

\* Every step keeps the invariant.
LEMMA NextKeepsLoopInv == LoopInv /\ [Next]_vars => LoopInv'
<1>1. SUFFICES ASSUME LoopInv, [Next]_vars PROVE LoopInv'
  BY Zenon
<1>2. CASE UNCHANGED vars
  <2>1. UNCHANGED connVars /\ UNCHANGED <<loop, at, back, pushed, waking, wake>>
    BY Zenon, <1>2 DEF vars, connVars, clientVars, acceptVars, machineVars, interestVars, queueVars, loopVars
  <2>2. /\ Types' /\ Membership' /\ BuffersBounded' /\ HalfClosed'
        /\ conns' = conns /\ pushBuf' = pushBuf /\ \A d : Settled(d)' <=> Settled(d)
    BY Zenon, <1>1, <2>1, ConnectionsUntouched
  <2>3. Position' /\ InterestSettled' /\ NoLostPush'
    BY Zenon, <1>1, <2>1, <2>2 DEF LoopInv, Position, InterestSettled, NoLostPush, Busy
  <2>4. QED
    BY Zenon, <2>2, <2>3 DEF LoopInv
<1>3. CASE LoopStep
  BY Zenon, <1>1, <1>3, ControlKeepsInv, TakeQueuesKeepsInv, EndsKeepInv, BufferPushKeepsInv,
     ConnReadableKeepsInv, FlushKeepsInv, ProcessNextKeepsInv, AcceptKeepsInv DEF LoopStep
<1>4. CASE OthersStep
  BY Zenon, <1>1, <1>4, ControlKeepsInv, ClientsKeepInv, QueuePushKeepsInv DEF OthersStep
<1>5. QED
  BY Zenon, <1>1, <1>2, <1>3, <1>4 DEF Next

\* LoopInv is an invariant.
LEMMA LoopInvHolds == Spec => []LoopInv
<1>1. QED
  BY InitEstablishesLoopInv, NextKeepsLoopInv, PTL DEF Spec

\* The loop bounds what a slow client costs: no buffer exceeds its limit, and
\* when the loop waits, the interest set of every connection fits its output
\* (queuePush, finishConnEvent).
THEOREM OutputIsBounded == Spec => []Backpressure
<1>1. LoopInv => Backpressure
  BY Zenon DEF LoopInv, BuffersBounded, InterestSettled, Settled, Busy, Backpressure
<1>2. QED
  BY <1>1, LoopInvHolds, PTL

\* A frame queued for an open connection is in the list the loop will take, and
\* a waiting loop has been woken or is about to be (queuePush).
THEOREM NoPushIsLost == Spec => []NoLostPush
<1>1. LoopInv => NoLostPush
  BY Zenon DEF LoopInv
<1>2. QED
  BY <1>1, LoopInvHolds, PTL

-----------------------------------------------------------------------------
(* Replies: which requests the stream to a client answers.                 *)

\* The first m requests of a client are answered: the units of their replies,
\* and no others, are in the stream to it, in order.
Replied(units, kinds, m) ==
    /\ Channel!InOrder(units, kinds)
    /\ \A u \in Channel!Expected(kinds) :
         u[1] <= m <=> \E q \in DOMAIN units : units[q] = u

\* The first k requests are parsed, up to the first malformed one, and the
\* others are left in the socket in order.
Unparsed(kinds, left, closing, k) ==
    /\ k <= Len(kinds) /\ \A i \in 1..(k - 1) : kinds[i] # "bad"
    /\ closing => k > 0 /\ kinds[k] = "bad"
    /\ ~closing => /\ \A i \in 1..k : kinds[i] # "bad"
                   /\ k + Len(left) = Len(kinds)
                   /\ \A j \in 1..Len(left) : left[j] = k + j

\* m requests are answered and the parsed ones are the next.
Service(kinds, left, parsed, closing, units, m) ==
    /\ m \in Nat /\ \A k \in 1..Len(parsed) : parsed[k] = m + k
    /\ Unparsed(kinds, left, closing, m + Len(parsed))
    /\ Replied(units, kinds, m)

Stream(c) == got[c] \o output[c]
ServedUpTo(c, m) ==
    Service(asked[c], unread[c], pending[c], machine[c] = "closing", Stream(c), m)
RepliesInOrder == \A c \in Conns : machine[c] # "closed" => \E m \in Nat : ServedUpTo(c, m)

-----------------------------------------------------------------------------
(* The replies: what one change of a connection does to them.              *)

\* The units of the replies that a list of requests gets.
LEMMA ExpectedUnits ==
  ASSUME NEW kinds \in Seq(Kinds)
  PROVE  /\ Len(kinds) \in Nat
         /\ \A u \in Channel!Expected(kinds) :
              /\ u[1] \in 1..Len(kinds) /\ u[2] \in 1..UnitsOf(kinds[u[1]]) /\ u = <<u[1], u[2]>>
              /\ u[2] \in Nat /\ u # Push /\ \A j \in 1..(u[1] - 1) : kinds[j] # "bad"
         /\ \A i \in 1..Len(kinds), j \in Nat :
              <<i, j>> \in Channel!Expected(kinds) <=>
                  j \in 1..UnitsOf(kinds[i]) /\ \A k \in 1..(i - 1) : kinds[k] # "bad"
<1>1. Len(kinds) \in Nat /\ \A kind : UnitsOf(kind) \in Nat
  BY Zenon, SeqElements DEF UnitsOf
<1>2. ASSUME NEW u \in Channel!Expected(kinds)
      PROVE  /\ u[1] \in 1..Len(kinds) /\ u[2] \in 1..UnitsOf(kinds[u[1]]) /\ u = <<u[1], u[2]>>
             /\ u[2] \in Nat /\ u # Push /\ \A j \in 1..(u[1] - 1) : kinds[j] # "bad"
  <2>1. PICK i \in Channel!Answered(kinds) : u \in {i} \X (1..UnitsOf(kinds[i]))
    BY Zenon, <1>2 DEF Channel!Expected
  <2>2. u[1] = i /\ u[2] \in 1..UnitsOf(kinds[i]) /\ u = <<u[1], u[2]>>
    BY <2>1
  <2>3. i \in 1..Len(kinds) /\ \A j \in 1..(i - 1) : kinds[j] # "bad"
    BY Zenon DEF Channel!Answered
  <2>4. u[1] \in Nat /\ u[2] \in Nat
    BY <1>1, <2>2, <2>3
  <2>5. u \in Nat \X Nat
    BY Zenon, <2>2, <2>4
  <2>6. QED
    BY Zenon, <2>2, <2>3, <2>4, <2>5, PushAssumption
<1>3. ASSUME NEW i \in 1..Len(kinds), NEW j \in Nat,
             j \in 1..UnitsOf(kinds[i]), \A k \in 1..(i - 1) : kinds[k] # "bad"
      PROVE  <<i, j>> \in Channel!Expected(kinds)
  <2>1. i \in Channel!Answered(kinds)
    BY Zenon, <1>3 DEF Channel!Answered
  <2>2. <<i, j>> \in {i} \X (1..UnitsOf(kinds[i]))
    BY Zenon, <1>3
  <2>3. QED
    BY Zenon, <2>1, <2>2 DEF Channel!Expected
<1>4. QED
  BY Zenon, <1>1, <1>2, <1>3

\* A client may send more: the replies it has are still the first ones.
LEMMA SendIsServed ==
  ASSUME NEW kinds \in Seq(Kinds), NEW left \in Seq(Nat), NEW parsed \in Seq(Nat),
         NEW closing, NEW units \in Seq(Unit), NEW m \in Nat,
         Service(kinds, left, parsed, closing, units, m), NEW kind \in Kinds
  PROVE  Service(Append(kinds, kind), Append(left, Len(kinds) + 1), parsed, closing, units, m)
<1> DEFINE more == Append(kinds, kind)
           rest == Append(left, Len(kinds) + 1)
<1>1. /\ Len(kinds) \in Nat /\ Len(parsed) \in Nat /\ Len(left) \in Nat
      /\ more \in Seq(Kinds) /\ Len(more) = Len(kinds) + 1
      /\ \A i \in 1..Len(kinds) : more[i] = kinds[i]
  BY SeqElements, Appended
<1>2. /\ Len(rest) = Len(left) + 1 /\ rest[Len(left) + 1] = Len(kinds) + 1
      /\ \A i \in 1..Len(left) : rest[i] = left[i]
  BY <1>1, SeqElements, Appended
<1>3. /\ Channel!Expected(kinds) \subseteq Channel!Expected(more)
      /\ \A u \in Channel!Expected(more) \ Channel!Expected(kinds) : u[1] = Len(kinds) + 1
      /\ \A u \in Channel!Expected(kinds) : u[1] <= Len(kinds) /\ u[1] \in Nat
  <2>1. ASSUME NEW u \in Channel!Expected(kinds)
        PROVE  u \in Channel!Expected(more) /\ u[1] <= Len(kinds) /\ u[1] \in Nat
    <3>1. /\ u[1] \in 1..Len(kinds) /\ u[2] \in 1..UnitsOf(kinds[u[1]]) /\ u = <<u[1], u[2]>>
          /\ u[2] \in Nat /\ \A j \in 1..(u[1] - 1) : kinds[j] # "bad"
      BY Zenon, ExpectedUnits
    <3>2. /\ u[1] \in 1..Len(more) /\ more[u[1]] = kinds[u[1]]
          /\ \A j \in 1..(u[1] - 1) : more[j] # "bad"
      BY SMTT(40), <1>1, <3>1
    <3> HIDE DEF more
    <3>3. <<u[1], u[2]>> \in Channel!Expected(more)
      BY Zenon, <1>1, <3>1, <3>2, ExpectedUnits
    <3>4. u[1] <= Len(kinds) /\ u[1] \in Nat
      BY <1>1, <3>1
    <3>5. u \in Channel!Expected(more)
      BY <3>1, <3>3, Zenon
    <3>6. QED
      BY Zenon, <3>4, <3>5
  <2>2. ASSUME NEW u \in Channel!Expected(more), u[1] # Len(kinds) + 1
        PROVE  u \in Channel!Expected(kinds)
    <3>1. /\ u[1] \in 1..Len(more) /\ u[2] \in 1..UnitsOf(more[u[1]]) /\ u = <<u[1], u[2]>>
          /\ u[2] \in Nat /\ \A j \in 1..(u[1] - 1) : more[j] # "bad"
      BY Zenon, <1>1, ExpectedUnits
    <3>2. /\ u[1] \in 1..Len(kinds) /\ more[u[1]] = kinds[u[1]]
          /\ \A j \in 1..(u[1] - 1) : kinds[j] # "bad"
      BY SMTT(40), <1>1, <2>2, <3>1
    <3>3. QED
      BY SMTT(40), <3>1, <3>2, ExpectedUnits
  <2>3. QED
    BY Zenon, <2>1, <2>2
<1> HIDE DEF more, rest
<1>4. /\ Channel!InOrder(units, kinds) /\ m + Len(parsed) <= Len(kinds)
      /\ \A u \in Channel!Expected(kinds) : u[1] <= m <=> \E q \in DOMAIN units : units[q] = u
  BY Zenon DEF Service, Unparsed, Replied
<1>5. \A u \in Channel!Expected(more) \ Channel!Expected(kinds) :
        \A q \in DOMAIN units : units[q] # u
  <2>1. \A u \in Channel!Expected(more) : u # Push
    BY Zenon, <1>1, ExpectedUnits
  <2>2. \A q \in DOMAIN units : units[q] = Push \/ units[q] \in Channel!Expected(kinds)
    BY Zenon, <1>4 DEF Channel!InOrder
  <2>3. QED
    BY Zenon, <2>1, <2>2
<1>6. Channel!InOrder(units, more)
  <2>1. SUFFICES ASSUME NEW p \in DOMAIN units, units[p] # Push
                 PROVE  /\ units[p] \in Channel!Expected(more)
                        /\ \A u \in Channel!Expected(more) :
                             Channel!Before(u, units[p]) <=> \E q \in 1..(p - 1) : units[q] = u
    BY Zenon DEF Channel!InOrder
  <2>2. /\ units[p] \in Channel!Expected(kinds)
        /\ \A u \in Channel!Expected(kinds) :
             Channel!Before(u, units[p]) <=> \E q \in 1..(p - 1) : units[q] = u
    BY Zenon, <1>4, <2>1 DEF Channel!InOrder
  <2>3. ASSUME NEW u \in Channel!Expected(more) \ Channel!Expected(kinds)
        PROVE  ~Channel!Before(u, units[p]) /\ \A q \in 1..(p - 1) : units[q] # u
    <3>1. u[1] = Len(kinds) + 1 /\ units[p][1] <= Len(kinds) /\ units[p][1] \in Nat
      BY Zenon, <1>3, <2>2
    <3>2. \A q \in 1..(p - 1) : q \in DOMAIN units
      BY SMTT(40), <2>1, SeqElements
    <3>3. QED
      BY SMTT(40), <1>1, <1>5, <3>1, <3>2 DEF Channel!Before
  <2>4. QED
    BY Zenon, <1>3, <2>2, <2>3
<1>7. \A u \in Channel!Expected(more) : u[1] <= m <=> \E q \in DOMAIN units : units[q] = u
  <2>1. \A u \in Channel!Expected(more) \ Channel!Expected(kinds) : ~(u[1] <= m)
    BY <1>1, <1>3, <1>4
  <2>2. QED
    BY Zenon, <1>4, <1>5, <2>1
<1>0. \A i \in 1..(m + Len(parsed)) : i \in 1..Len(kinds) /\ more[i] = kinds[i]
  BY SMTT(40), <1>1, <1>4
<1>8. /\ m + Len(parsed) <= Len(more)
      /\ \A k \in 1..Len(parsed) : parsed[k] = m + k
      /\ \A i \in 1..(m + Len(parsed) - 1) : more[i] # "bad"
      /\ closing => m + Len(parsed) > 0 /\ more[m + Len(parsed)] = "bad"
  <2>1. /\ \A k \in 1..Len(parsed) : parsed[k] = m + k
        /\ \A i \in 1..(m + Len(parsed) - 1) : kinds[i] # "bad"
        /\ closing => m + Len(parsed) > 0 /\ kinds[m + Len(parsed)] = "bad"
    BY DEF Service, Unparsed, Replied
  <2>3. m + Len(parsed) <= Len(more)
    BY <1>1, <1>4
  <2>4. \A i \in 1..(m + Len(parsed) - 1) : i \in 1..(m + Len(parsed))
    BY <1>1
  <2>5. m + Len(parsed) > 0 => m + Len(parsed) \in 1..(m + Len(parsed))
    BY <1>1
  <2>6. QED
    BY Zenon, <1>0, <2>1, <2>3, <2>4, <2>5
<1>9. ~closing => /\ \A i \in 1..(m + Len(parsed)) : more[i] # "bad"
                  /\ m + Len(parsed) + Len(rest) = Len(more)
                  /\ \A k \in 1..Len(rest) : rest[k] = m + Len(parsed) + k
  <2>1. SUFFICES ASSUME ~closing
                 PROVE  /\ \A i \in 1..(m + Len(parsed)) : more[i] # "bad"
                        /\ m + Len(parsed) + Len(rest) = Len(more)
                        /\ \A k \in 1..Len(rest) : rest[k] = m + Len(parsed) + k
    BY Zenon
  <2>2. /\ \A i \in 1..(m + Len(parsed)) : kinds[i] # "bad"
        /\ m + Len(parsed) + Len(left) = Len(kinds)
        /\ \A k \in 1..Len(left) : left[k] = m + Len(parsed) + k
    BY Zenon, <2>1 DEF Service, Unparsed, Replied
  <2>3. \A i \in 1..(m + Len(parsed)) : more[i] # "bad"
    BY Zenon, <1>0, <2>2
  <2>4. m + Len(parsed) + Len(rest) = Len(more)
    BY SMTT(40), <1>1, <1>2, <2>2
  <2>5. ASSUME NEW k \in 1..Len(rest) PROVE rest[k] = m + Len(parsed) + k
    <3>1. k \in 1..Len(left) \/ k = Len(left) + 1
      BY <1>1, <1>2
    <3>2. m + Len(parsed) + (Len(left) + 1) = Len(kinds) + 1
      BY SMTT(40), <1>1, <2>2
    <3>3. QED
      BY Zenon, <1>2, <2>2, <3>1, <3>2
  <2>6. QED
    BY Zenon, <2>3, <2>4, <2>5
<1>10. Replied(units, more, m)
  BY Zenon, <1>6, <1>7 DEF Replied
<1>11. Unparsed(more, rest, closing, m + Len(parsed))
  BY <1>8, <1>9 DEF Unparsed
<1>12. QED
  BY Zenon, <1>8, <1>10, <1>11 DEF Service, more, rest

\* Parsing moves requests from the socket to the parsed ones, up to the first
\* malformed one.
LEMMA FeedIsServed ==
  ASSUME NEW kinds \in Seq(Kinds), NEW left \in Seq(Nat), NEW parsed \in Seq(Nat),
         NEW units \in Seq(Unit), NEW m \in Nat,
         Service(kinds, left, parsed, FALSE, units, m), NEW n \in 0..Len(left), NEW k \in 0..n,
         NEW taken \in Seq(Nat), Len(taken) = k, \A i \in 1..k : taken[i] = left[i],
         \A i \in 1..(k - 1) : kinds[left[i]] # "bad"
  PROVE  /\ (k > 0 /\ kinds[left[k]] = "bad") =>
              \A rest : Service(kinds, rest, parsed \o taken, TRUE, units, m)
         /\ (k = n /\ \A i \in 1..k : kinds[left[i]] # "bad") =>
              Service(kinds, SubSeq(left, n + 1, Len(left)), parsed \o taken, FALSE, units, m)
<1> DEFINE now == parsed \o taken
           rest == SubSeq(left, n + 1, Len(left))
<1>1. Len(kinds) \in Nat /\ Len(parsed) \in Nat /\ Len(left) \in Nat /\ n \in Nat /\ k \in Nat /\ k <= n
      /\ n <= Len(left)
  BY SeqElements
<1>2. Len(now) = Len(parsed) + k
  BY ZenonT(40), <1>1, Joined
<1>3. Len(rest) = Len(left) - n
  BY RestOfOutput
<1>4. \A i \in 1..(Len(left) - n) : rest[i] = left[n + i]
  BY RestOfOutput
<1>5. \A i \in 1..(Len(parsed) + k) :
        now[i] = IF i <= Len(parsed) THEN parsed[i] ELSE taken[i - Len(parsed)]
  BY SMTT(40), <1>1, Joined
<1> HIDE DEF now, rest
<1>11. m + Len(parsed) + Len(left) = Len(kinds) /\ m + Len(now) <= Len(kinds)
  <2>1. m + Len(parsed) + Len(left) = Len(kinds)
    BY Zenon DEF Service, Unparsed, Replied
  <2>2. QED
    BY <1>1, <1>2, <2>1
<1>12. \A i \in 1..Len(left) : left[i] = m + Len(parsed) + i
  BY Zenon DEF Service, Unparsed, Replied
<1>13. \A i \in 1..Len(parsed) : parsed[i] = m + i
  BY Zenon DEF Service, Unparsed, Replied
<1>14. \A i \in 1..(m + Len(parsed)) : kinds[i] # "bad"
  BY Zenon DEF Service, Unparsed, Replied
<1>15. /\ Channel!InOrder(units, kinds)
       /\ \A u \in Channel!Expected(kinds) : u[1] <= m <=> \E q \in DOMAIN units : units[q] = u
  BY Zenon DEF Service, Unparsed, Replied
<1>6. ASSUME NEW i \in 1..Len(now)
      PROVE  now[i] = m + i
  <2>1. CASE i <= Len(parsed)
    <3>1. i \in 1..Len(parsed) /\ i \in 1..(Len(parsed) + k)
      BY <1>1, <1>2, <2>1
    <3>2. QED
      BY Zenon, <1>5, <1>13, <2>1, <3>1
  <2>2. CASE ~(i <= Len(parsed))
    <3>0. i \in 1..(Len(parsed) + k) /\ i \in Nat
      BY <1>1, <1>2
    <3>1. i - Len(parsed) \in 1..k /\ i - Len(parsed) \in 1..Len(left)
      BY ONLY <1>1, <2>2, <3>0
    <3>2. now[i] = left[i - Len(parsed)]
      BY Zenon, <1>5, <2>2, <3>0, <3>1
    <3>3. left[i - Len(parsed)] = m + Len(parsed) + (i - Len(parsed))
      BY Zenon, <1>12, <3>1
    <3>4. QED
      BY SMTT(40), <1>1, <1>2, <3>2, <3>3
  <2>3. QED
    BY Zenon, <2>1, <2>2
<1>7. ASSUME NEW j \in 0..k, \A i \in 1..j : kinds[left[i]] # "bad"
      PROVE  \A i \in 1..(m + Len(parsed) + j) : kinds[i] # "bad"
  <2>1. SUFFICES ASSUME NEW i \in 1..(m + Len(parsed) + j), ~(i <= m + Len(parsed))
                 PROVE  kinds[i] # "bad"
    BY <1>1, <1>14
  <2>2. i - (m + Len(parsed)) \in 1..j /\ i - (m + Len(parsed)) \in 1..Len(left)
    BY SMTT(40), <1>1, <2>1
  <2>3. left[i - (m + Len(parsed))] = m + Len(parsed) + (i - (m + Len(parsed)))
    BY Zenon, <1>12, <2>2
  <2>4. m + Len(parsed) + (i - (m + Len(parsed))) = i
    BY <1>1
  <2>5. QED
    BY SMTT(40), <1>7, <2>2, <2>3, <2>4
<1>8. ASSUME k > 0, kinds[left[k]] = "bad", NEW later
      PROVE  Service(kinds, later, now, TRUE, units, m)
  <2>1. k - 1 \in 0..k /\ k \in 1..Len(left)
    BY <1>1, <1>8
  <2>2. \A i \in 1..(m + Len(parsed) + (k - 1)) : kinds[i] # "bad"
    BY Zenon, <1>7, <2>1
  <2>3. m + Len(parsed) + (k - 1) = m + Len(now) - 1 /\ m + Len(now) > 0
    <3>1. k \in Nat /\ k > 0 /\ Len(parsed) \in Nat /\ Len(now) = Len(parsed) + k
      BY Zenon, <1>1, <1>2, <1>8
    <3>2. QED
      BY <3>1
  <2>4. left[k] = m + Len(now)
    <3>1. left[k] = m + Len(parsed) + k
      BY Zenon, <1>12, <2>1
    <3>2. QED
      BY <1>1, <1>2, <3>1
  <2>5. Unparsed(kinds, later, TRUE, m + Len(now))
    BY SMTT(40), <1>8, <1>11, <2>2, <2>3, <2>4 DEF Unparsed
  <2>6. QED
    BY Zenon, <1>6, <1>15, <2>5 DEF Service, Replied
<1>9. ASSUME k = n, \A i \in 1..k : kinds[left[i]] # "bad"
      PROVE  Service(kinds, rest, now, FALSE, units, m)
  <2>1. k \in 0..k
    BY <1>1
  <2>2. \A i \in 1..(m + Len(parsed) + k) : kinds[i] # "bad"
    BY Zenon, <1>7, <1>9, <2>1
  <2>3. m + Len(parsed) + k = m + Len(now) /\ m + Len(now) + Len(rest) = Len(kinds)
    <3>1. /\ k \in Nat /\ Len(parsed) \in Nat /\ Len(left) \in Nat /\ Len(now) = Len(parsed) + k
          /\ Len(rest) = Len(left) - k /\ m + Len(parsed) + Len(left) = Len(kinds)
      BY Zenon, <1>1, <1>2, <1>3, <1>11, <1>9
    <3>2. m + Len(parsed) + k = m + Len(now)
      BY <3>1
    <3>3. m + (Len(parsed) + k) + (Len(left) - k) = m + Len(parsed) + Len(left)
      BY <3>1
    <3>4. QED
      BY Zenon, <3>1, <3>2, <3>3
  <2>4. ASSUME NEW i \in 1..Len(rest)
        PROVE  rest[i] = m + Len(now) + i
    <3>1. n + i \in 1..Len(left) /\ i \in 1..(Len(left) - n)
      BY SMTT(40), <1>1, <1>3
    <3>2. left[n + i] = m + Len(parsed) + (n + i)
      BY Zenon, <1>12, <3>1
    <3>3. QED
      BY SMTT(40), <1>1, <1>2, <1>3, <1>4, <1>9, <3>1, <3>2
  <2>5. \A i \in 1..(m + Len(now) - 1) : kinds[i] # "bad"
    BY <1>1, <1>2, <2>2, <2>3
  <2>6. \A i \in 1..(m + Len(now)) : kinds[i] # "bad"
    BY Zenon, <2>2, <2>3
  <2>7. m + Len(now) <= Len(kinds) /\ m + Len(now) + Len(rest) = Len(kinds)
    BY Zenon, <1>11, <2>3
  <2>8. Unparsed(kinds, rest, FALSE, m + Len(now))
    BY <2>4, <2>5, <2>6, <2>7 DEF Unparsed
  <2>9. QED
    BY Zenon, <1>6, <1>15, <2>8 DEF Service, Replied
<1>10. QED
  BY Zenon, <1>8, <1>9 DEF now, rest

\* A reply appended behind the replies to all earlier requests is in order.
LEMMA ReplyInOrder ==
  ASSUME NEW kinds \in Seq(Kinds), NEW units \in Seq(Unit), NEW m \in Nat, m + 1 <= Len(kinds),
         \A i \in 1..m : kinds[i] # "bad", Replied(units, kinds, m),
         NEW more, more = units \o ReplyTo(m + 1, kinds[m + 1])
  PROVE  Replied(more, kinds, m + 1)
<1>0. /\ Channel!InOrder(units, kinds)
      /\ \A u \in Channel!Expected(kinds) : u[1] <= m <=> \E q \in DOMAIN units : units[q] = u
  BY Zenon DEF Replied
<1> DEFINE reply == ReplyTo(m + 1, kinds[m + 1])
           size == UnitsOf(kinds[m + 1])
           len == Len(units)
<1>1. /\ reply \in Seq(Unit) /\ Len(reply) = size /\ size \in Nat
      /\ \A j \in 1..size : reply[j] = <<m + 1, j>>
  BY SMTT(40), ReplyIsUnits
<1>2. len \in Nat /\ DOMAIN units = 1..len
  BY Zenon, SeqElements
<1>3. /\ more \in Seq(Unit) /\ Len(more) = len + size
      /\ \A i \in 1..(len + size) : more[i] = IF i <= len THEN units[i] ELSE reply[i - len]
  <2>1. more = units \o reply
    BY Zenon
  <2> HIDE DEF reply
  <2>2. units \o reply \in Seq(Unit) /\ Len(units \o reply) = Len(units) + Len(reply)
    BY Zenon, <1>1, Joined
  <2>3. \A i \in 1..(Len(units) + Len(reply)) :
          (units \o reply)[i] = IF i <= Len(units) THEN units[i] ELSE reply[i - Len(units)]
    BY Zenon, <1>1, Joined
  <2>4. QED
    BY Zenon, <1>1, <2>1, <2>2, <2>3
<1>4. DOMAIN more = 1..(len + size)
  BY Zenon, <1>3, SeqElements
<1>5. m + 1 \in 1..Len(kinds) /\ Len(kinds) \in Nat
  BY SeqElements
<1> HIDE DEF reply, size, len
<1>6. \A i \in 1..len : more[i] = units[i]
  BY <1>1, <1>2, <1>3
<1>7. ASSUME NEW i \in (len + 1)..(len + size)
      PROVE  i - len \in 1..size /\ more[i] = <<m + 1, i - len>>
  <2>1. i \in 1..(len + size) /\ ~(i <= len) /\ i - len \in 1..size
    BY <1>1, <1>2
  <2>2. QED
    BY Zenon, <1>1, <1>3, <2>1
<1>8. /\ \A u \in Channel!Expected(kinds) :
           /\ u[1] \in Nat /\ u[2] \in Nat /\ u = <<u[1], u[2]>>
           /\ u[1] = m + 1 => u[2] \in 1..size
      /\ \A j \in 1..size : <<m + 1, j>> \in Channel!Expected(kinds)
  <2>1. ASSUME NEW u \in Channel!Expected(kinds)
        PROVE  /\ u[1] \in Nat /\ u[2] \in Nat /\ u = <<u[1], u[2]>>
               /\ u[1] = m + 1 => u[2] \in 1..size
    <3>1. u[1] \in 1..Len(kinds) /\ u[2] \in 1..UnitsOf(kinds[u[1]]) /\ u = <<u[1], u[2]>> /\ u[2] \in Nat
      BY Zenon, ExpectedUnits
    <3>2. u[1] \in Nat
      BY SMTT(40), <3>1, <1>5
    <3>3. QED
      BY Zenon, <3>1, <3>2 DEF size
  <2>2. ASSUME NEW j \in 1..size
        PROVE  <<m + 1, j>> \in Channel!Expected(kinds)
    <3>1. j \in Nat /\ \A k \in 1..((m + 1) - 1) : kinds[k] # "bad"
      BY <1>1
    <3>2. QED
      BY Zenon, <1>5, <3>1, ExpectedUnits DEF size
  <2>3. QED
    BY Zenon, <2>1, <2>2
\* Up to any place p behind the old units, the units there are the earlier
\* replies and the first p - len units of the new one.
<1>9. ASSUME NEW p \in len..(len + size), NEW u \in Channel!Expected(kinds)
      PROVE  (\E q \in 1..p : more[q] = u) <=> (u[1] <= m \/ (u[1] = m + 1 /\ u[2] <= p - len))
  <2>0. p \in Nat /\ len <= p /\ p <= len + size
    BY SMTT(40), <1>1, <1>2
  <2>1. ASSUME u[1] <= m
        PROVE  \E q \in 1..p : more[q] = u
    <3>1. PICK q \in 1..len : units[q] = u
      BY Zenon, <1>0, <1>2, <2>1
    <3>2. q \in 1..p /\ more[q] = u
      BY <1>2, <1>6, <2>0, <3>1
    <3>3. QED
      BY Zenon, <3>2
  <2>2. ASSUME u[1] = m + 1, u[2] <= p - len
        PROVE  \E q \in 1..p : more[q] = u
    <3>1. u[2] \in 1..size /\ u = <<m + 1, u[2]>>
      BY Zenon, <1>8, <2>2
    <3>2. len + u[2] \in 1..p /\ len + u[2] \in (len + 1)..(len + size) /\ (len + u[2]) - len = u[2]
      BY SMTT(40), <1>1, <1>2, <2>0, <2>2, <3>1
    <3>3. more[len + u[2]] = <<m + 1, u[2]>>
      BY Zenon, <1>7, <3>2
    <3>4. QED
      BY Zenon, <3>1, <3>2, <3>3
  <2>3. ASSUME NEW q \in 1..p, more[q] = u
        PROVE  u[1] <= m \/ (u[1] = m + 1 /\ u[2] <= p - len)
    <3>1. CASE q <= len
      <4>1. q \in 1..len
        BY <1>2, <2>0, <3>1
      <4>2. units[q] = u
        BY Zenon, <1>6, <2>3, <4>1
      <4>3. QED
        BY Zenon, <1>0, <1>2, <4>1, <4>2
    <3>2. CASE ~(q <= len)
      <4>1. q \in (len + 1)..(len + size) /\ q - len <= p - len
        BY SMTT(40), <1>1, <1>2, <2>0, <3>2
      <4>2. u = <<m + 1, q - len>>
        BY Zenon, <1>7, <2>3, <4>1
      <4>3. QED
        BY Zenon, <4>1, <4>2
    <3>3. QED
      BY Zenon, <3>1, <3>2
  <2>4. QED
    BY Zenon, <2>1, <2>2, <2>3
<1>10. Channel!InOrder(more, kinds)
  <2>1. SUFFICES ASSUME NEW p \in 1..(len + size), more[p] # Push
                 PROVE  /\ more[p] \in Channel!Expected(kinds)
                        /\ \A u \in Channel!Expected(kinds) :
                             Channel!Before(u, more[p]) <=> \E q \in 1..(p - 1) : more[q] = u
    BY Zenon, <1>4 DEF Channel!InOrder
  <2>2. CASE p \in 1..len
    <3>1. /\ units[p] \in Channel!Expected(kinds)
          /\ \A u \in Channel!Expected(kinds) :
               Channel!Before(u, units[p]) <=> \E q \in 1..(p - 1) : units[q] = u
      BY ZenonT(40), <1>0, <1>2, <1>6, <2>1, <2>2 DEF Channel!InOrder
    <3>2. \A q \in 1..(p - 1) : more[q] = units[q]
      BY <1>2, <1>6, <2>2
    <3>3. QED
      BY Zenon, <1>6, <2>2, <3>1, <3>2
  <2>3. CASE p \in (len + 1)..(len + size)
    <3>1. more[p] = <<m + 1, p - len>> /\ p - len \in 1..size
      BY Zenon, <1>7, <2>3
    <3>2. p - 1 \in len..(len + size) /\ p - len = (p - 1) - len + 1 /\ (p - 1) - len \in Nat
      <4>1. p \in Nat /\ len + 1 <= p /\ p <= len + size
        BY <1>1, <1>2, <2>3
      <4>2. QED
        BY SMTT(40), <1>1, <1>2, <4>1
    <3>3. ASSUME NEW u \in Channel!Expected(kinds)
          PROVE  Channel!Before(u, more[p]) <=> \E q \in 1..(p - 1) : more[q] = u
      <4>1. u[1] \in Nat /\ u[2] \in Nat
        BY Zenon, <1>8
      <4>2. Channel!Before(u, more[p]) <=> (u[1] < m + 1 \/ (u[1] = m + 1 /\ u[2] < p - len))
        <5>1. Channel!Before(u, <<m + 1, p - len>>) <=>
                  (u[1] < m + 1 \/ (u[1] = m + 1 /\ u[2] < p - len))
          BY Zenon DEF Channel!Before
        <5>2. QED
          BY Zenon, <3>1, <5>1
      <4>3. (\E q \in 1..(p - 1) : more[q] = u) <=>
                (u[1] <= m \/ (u[1] = m + 1 /\ u[2] <= (p - 1) - len))
        BY Zenon, <1>9, <3>2
      <4>4. (u[1] < m + 1 <=> u[1] <= m) /\ (u[2] < p - len <=> u[2] <= (p - 1) - len)
        BY SMTT(40), <3>2, <4>1
      <4>5. QED
        BY Zenon, <4>2, <4>3, <4>4
    <3>4. QED
      BY Zenon, <1>8, <3>1, <3>3
  <2>4. p \in 1..len \/ p \in (len + 1)..(len + size)
    BY <1>1, <1>2
  <2>5. QED
    BY Zenon, <2>2, <2>3, <2>4
<1>11. ASSUME NEW u \in Channel!Expected(kinds)
       PROVE  u[1] <= m + 1 <=> \E q \in DOMAIN more : more[q] = u
  <2>1. len + size \in len..(len + size) /\ (len + size) - len = size
    BY <1>1, <1>2
  <2>2. (\E q \in 1..(len + size) : more[q] = u) <=> (u[1] <= m \/ (u[1] = m + 1 /\ u[2] <= size))
    <3>1. (\E q \in 1..(len + size) : more[q] = u) <=>
              (u[1] <= m \/ (u[1] = m + 1 /\ u[2] <= (len + size) - len))
      BY Zenon, <1>9, <2>1
    <3>2. QED
      BY Zenon, <2>1, <3>1
  <2>3. u[1] \in Nat /\ (u[1] = m + 1 => u[2] <= size)
    BY <1>1, <1>8
  <2>4. u[1] <= m + 1 <=> (u[1] <= m \/ (u[1] = m + 1 /\ u[2] <= size))
    BY SMTT(40), <2>3
  <2>5. QED
    BY Zenon, <1>4, <2>2, <2>4
<1>12. QED
  BY Zenon, <1>10, <1>11 DEF Replied

\* processConn runs the next parsed request.
LEMMA ReplyIsServed ==
  ASSUME NEW kinds \in Seq(Kinds), NEW left \in Seq(Nat), NEW parsed \in Seq(Nat),
         NEW closing, NEW units \in Seq(Unit), NEW m \in Nat,
         Service(kinds, left, parsed, closing, units, m), parsed # <<>>
  PROVE  /\ Head(parsed) = m + 1
         /\ Service(kinds, left, Tail(parsed), closing,
                    units \o ReplyTo(m + 1, kinds[m + 1]), m + 1)
<1> DEFINE rest == Tail(parsed)
           more == units \o ReplyTo(m + 1, kinds[m + 1])
<1>1. Len(parsed) \in Nat /\ Len(kinds) \in Nat /\ Len(left) \in Nat
  BY Zenon, SeqElements
<1>2. /\ Len(parsed) >= 1 /\ Head(parsed) = parsed[1] /\ Len(rest) = Len(parsed) - 1
  BY <1>1, NoElements, Shifted
<1>3. \A i \in 1..Len(rest) : rest[i] = parsed[i + 1]
  BY Zenon, Shifted
<1>4. m + Len(parsed) <= Len(kinds) /\ m + 1 <= Len(kinds)
  <2>1. m + Len(parsed) <= Len(kinds)
    BY Zenon DEF Service, Unparsed, Replied
  <2>2. QED
    BY <1>1, <1>2, <2>1
<1>5. m + 1 + Len(rest) = m + Len(parsed) /\ Len(rest) \in Nat
  BY <1>1, <1>2
<1>6. \A i \in 1..Len(parsed) : parsed[i] = m + i
  BY Zenon DEF Service, Unparsed, Replied
<1>7. Head(parsed) = m + 1
  BY <1>1, <1>2, <1>6
<1> HIDE DEF rest, more
<1>8. ASSUME NEW i \in 1..Len(rest)
      PROVE  rest[i] = m + 1 + i
  <2>1. i + 1 \in 1..Len(parsed) /\ m + (i + 1) = m + 1 + i
    BY <1>1, <1>2
  <2>2. QED
    BY Zenon, <1>3, <1>6, <2>1
<1>9. Unparsed(kinds, left, closing, m + Len(parsed)) /\ Replied(units, kinds, m)
  BY Zenon DEF Service
<1>10. \A i \in 1..m : kinds[i] # "bad"
  <2>1. \A i \in 1..m : i \in 1..(m + Len(parsed) - 1)
    BY <1>1, <1>2
  <2>2. QED
    BY <1>9, <2>1 DEF Unparsed
<1>11. Replied(more, kinds, m + 1)
  BY Zenon, <1>4, <1>9, <1>10, ReplyInOrder DEF more
<1>12. Service(kinds, left, rest, closing, more, m + 1)
  BY SMTT(40), <1>5, <1>8, <1>9, <1>11 DEF Service
<1>13. QED
  BY Zenon, <1>7, <1>12 DEF rest, more

\* Pushed messages come between whole replies.
LEMMA PushIsServed ==
  ASSUME NEW kinds \in Seq(Kinds), NEW left, NEW parsed, NEW closing,
         NEW units \in Seq(Unit), NEW m, Service(kinds, left, parsed, closing, units, m),
         NEW frames \in Seq(Unit), \A i \in 1..Len(frames) : frames[i] = Push
  PROVE  Service(kinds, left, parsed, closing, units \o frames, m)
<1> DEFINE more == units \o frames
           len == Len(units)
<1>1. len \in Nat /\ DOMAIN units = 1..len /\ Len(frames) \in Nat
  BY Zenon, SeqElements
<1>2. more \in Seq(Unit) /\ Len(more) = len + Len(frames)
  BY Zenon, Joined
<1>3. \A i \in 1..(len + Len(frames)) : more[i] = IF i <= len THEN units[i] ELSE frames[i - len]
  BY Zenon, Joined
<1>4. DOMAIN more = 1..(len + Len(frames))
  BY Zenon, <1>2, SeqElements
<1> HIDE DEF more, len
<1>5. \A i \in 1..len : more[i] = units[i] /\ i \in 1..(len + Len(frames))
  BY <1>1, <1>3
<1>6. ASSUME NEW i \in 1..(len + Len(frames)), i \notin 1..len
      PROVE  more[i] = Push
  <2>1. ~(i <= len) /\ i - len \in 1..Len(frames)
    BY <1>1, <1>6
  <2>2. QED
    BY Zenon, <1>3, <2>1
<1>7. /\ Channel!InOrder(units, kinds)
      /\ \A u \in Channel!Expected(kinds) : u[1] <= m <=> \E q \in DOMAIN units : units[q] = u
  BY Zenon DEF Service, Unparsed, Replied
<1>8. Channel!InOrder(more, kinds)
  <2>1. SUFFICES ASSUME NEW p \in 1..(len + Len(frames)), more[p] # Push
                 PROVE  /\ more[p] \in Channel!Expected(kinds)
                        /\ \A u \in Channel!Expected(kinds) :
                             Channel!Before(u, more[p]) <=> \E q \in 1..(p - 1) : more[q] = u
    BY Zenon, <1>4 DEF Channel!InOrder
  <2>2. p \in 1..len /\ more[p] = units[p]
    BY Zenon, <1>5, <1>6, <2>1
  <2>3. /\ units[p] \in Channel!Expected(kinds)
        /\ \A u \in Channel!Expected(kinds) :
             Channel!Before(u, units[p]) <=> \E q \in 1..(p - 1) : units[q] = u
    BY Zenon, <1>1, <1>7, <2>1, <2>2 DEF Channel!InOrder
  <2>4. \A q \in 1..(p - 1) : q \in 1..len
    BY <1>1, <2>2
  <2>5. QED
    BY Zenon, <1>5, <2>2, <2>3, <2>4
<1>9. ASSUME NEW u \in Channel!Expected(kinds)
      PROVE  u[1] <= m <=> \E q \in DOMAIN more : more[q] = u
  <2>1. u # Push
    BY Zenon, ExpectedUnits
  <2>2. (\E q \in DOMAIN more : more[q] = u) <=> (\E q \in DOMAIN units : units[q] = u)
    BY Zenon, <1>1, <1>4, <1>5, <1>6, <2>1
  <2>3. QED
    BY Zenon, <1>7, <2>2
<1>10. QED
  BY Zenon, <1>8, <1>9 DEF Service, Unparsed, Replied, more

\* What is appended to the output is appended to the stream.
LEMMA StreamGrows ==
  \A sent, out, more \in Seq(Unit) : (sent \o out) \o more = sent \o (out \o more)
<1>1. SUFFICES ASSUME NEW sent \in Seq(Unit), NEW out \in Seq(Unit), NEW more \in Seq(Unit)
               PROVE  (sent \o out) \o more = sent \o (out \o more)
  BY Zenon
<1>2. QED
  BY SMTT(40), SameElements

\* A flush moves units from the output to the client and leaves the stream as
\* it is.
LEMMA FlushKeepsStream ==
  ASSUME NEW sent \in Seq(Unit), NEW out \in Seq(Unit), NEW n \in 0..Len(out)
  PROVE  (sent \o SubSeq(out, 1, n)) \o SubSeq(out, n + 1, Len(out)) = sent \o out
<1> DEFINE first == SubSeq(out, 1, n)
           rest == SubSeq(out, n + 1, Len(out))
<1>1. /\ first \in Seq(Unit) /\ rest \in Seq(Unit) /\ Len(rest) = Len(out) - n /\ Len(first) = n
      /\ \A i \in 1..n : first[i] = out[i]
      /\ \A i \in 1..(Len(out) - n) : rest[i] = out[n + i]
  BY RestOfOutput
<1>2. n \in Nat /\ Len(out) \in Nat /\ n <= Len(out)
  BY SeqElements
<1> HIDE DEF first, rest
<1>3. first \o rest \in Seq(Unit) /\ Len(first \o rest) = n + (Len(out) - n)
  BY Zenon, <1>1, Joined
<1>4. \A i \in 1..(n + (Len(out) - n)) :
        (first \o rest)[i] = IF i <= n THEN first[i] ELSE rest[i - n]
  BY SMTT(40), <1>1, Joined
<1>5. n + (Len(out) - n) = Len(out)
  BY <1>2
<1>6. ASSUME NEW i \in 1..Len(out)
      PROVE  (first \o rest)[i] = out[i]
  <2>1. CASE i <= n
    <3>1. i \in 1..n
      BY <1>2, <2>1
    <3>2. QED
      BY Zenon, <1>1, <1>4, <1>5, <2>1, <3>1
  <2>2. CASE ~(i <= n)
    <3>1. i - n \in 1..(Len(out) - n) /\ n + (i - n) = i
      BY <1>2, <2>2
    <3>2. rest[i - n] = out[n + (i - n)]
      BY Zenon, <1>1, <3>1
    <3>3. QED
      BY Zenon, <1>4, <1>5, <2>2, <3>1, <3>2
  <2>3. QED
    BY Zenon, <2>1, <2>2
<1>7. first \o rest = out
  BY Zenon, <1>3, <1>5, <1>6, SameElements
<1>8. (sent \o first) \o rest = sent \o (first \o rest)
  <2>1. first \in Seq(Unit) /\ rest \in Seq(Unit)
    BY Zenon, <1>1
  <2>2. QED
    BY ZenonT(40), <2>1, StreamGrows
<1>9. QED
  BY Zenon, <1>7, <1>8 DEF first, rest

-----------------------------------------------------------------------------
(* The replies: every step keeps them in order.                            *)

\* A step that is not about a connection.
Kept(c) == /\ machine[c] # "closed" /\ (machine'[c] = "closing") = (machine[c] = "closing")
           /\ asked'[c] = asked[c] /\ unread'[c] = unread[c] /\ pending'[c] = pending[c]
           /\ Stream(c)' = Stream(c)

\* It keeps the replies of the connections that it is not about.
LEMMA KeptIsServed ==
  ASSUME RepliesInOrder,
         \A c \in Conns : machine'[c] # "closed" => Kept(c) \/ \E m \in Nat : ServedUpTo(c, m)'
  PROVE  RepliesInOrder'
<1>1. SUFFICES ASSUME NEW c \in Conns, machine'[c] # "closed", Kept(c)
               PROVE  \E m \in Nat : ServedUpTo(c, m)'
  BY Zenon DEF RepliesInOrder
<1>2. PICK m \in Nat : ServedUpTo(c, m)
  BY Zenon, <1>1 DEF RepliesInOrder, Kept
<1>3. ServedUpTo(c, m)'
  BY Zenon, <1>1, <1>2 DEF ServedUpTo, Kept
<1>4. QED
  BY Zenon, <1>3

\* Steps that leave requests and replies alone.
LEMMA QuietKeepsReplies ==
  ASSUME RepliesInOrder, UNCHANGED <<asked, unread, pending, got, output, machine>>
  PROVE  RepliesInOrder'
<1>1. \A c \in Conns : machine'[c] # "closed" => Kept(c)
  BY Zenon DEF Kept, Stream
<1>2. QED
  BY Zenon, <1>1, KeptIsServed

\* Steps that end connections.
LEMMA CloseKeepsReplies ==
  ASSUME LoopInv, RepliesInOrder, NEW S, CloseConns(S), UNCHANGED <<asked, unread>>,
         \A c \in Conns \ S : got'[c] = got[c]
  PROVE  RepliesInOrder'
<1>1. \A c \in Conns : IF c \in S
                       THEN machine'[c] = "closed"
                       ELSE /\ machine'[c] = machine[c] /\ pending'[c] = pending[c]
                            /\ output'[c] = output[c]
  BY CloseEffect DEF LoopInv
<1>2. \A c \in Conns : machine'[c] # "closed" => Kept(c)
  BY Zenon, <1>1 DEF Kept, Stream
<1>3. QED
  BY Zenon, <1>2, KeptIsServed

\* Work on one connection: it is enough to look at that one.
LEMMA WorkKeepsReplies ==
  ASSUME RepliesInOrder, NEW c \in Conns,
         \A d \in Conns \ {c} : /\ asked'[d] = asked[d] /\ unread'[d] = unread[d]
                                /\ pending'[d] = pending[d] /\ machine'[d] = machine[d]
                                /\ got'[d] = got[d] /\ output'[d] = output[d],
         machine'[c] # "closed" => Kept(c) \/ \E m \in Nat : ServedUpTo(c, m)'
  PROVE  RepliesInOrder'
<1>1. \A d \in Conns \ {c} : machine'[d] # "closed" => Kept(d)
  BY Zenon DEF Kept, Stream
<1>2. QED
  BY Zenon, <1>1, KeptIsServed

\* The types of a connection.
LEMMA ConnectionTypes ==
  ASSUME LoopInv, NEW c \in Conns
  PROVE  /\ asked[c] \in Seq(Kinds) /\ unread[c] \in Seq(Nat) /\ pending[c] \in Seq(Nat)
         /\ got[c] \in Seq(Unit) /\ output[c] \in Seq(Unit) /\ Stream(c) \in Seq(Unit)
<1>1. /\ asked[c] \in Seq(Kinds) /\ unread[c] \in Seq(Nat) /\ pending[c] \in Seq(Nat)
      /\ got[c] \in Seq(Unit) /\ output[c] \in Seq(Unit)
  BY Zenon DEF LoopInv, Types
<1>2. QED
  BY Zenon, <1>1, Joined DEF Stream

\* A client sends.
LEMMA SendKeepsReplies ==
  ASSUME LoopInv, RepliesInOrder, NEW c \in Conns, NEW kind \in Kinds, Send(c, kind)
  PROVE  RepliesInOrder'
<1>1. /\ asked' = [asked EXCEPT ![c] = Append(@, kind)] /\ machine[c] # "closed"
      /\ unread' = [unread EXCEPT ![c] = Append(@, Len(asked'[c]))]
      /\ UNCHANGED <<pending, machine, got, output>>
  BY Zenon DEF Send, machineVars
<1>2. /\ asked[c] \in Seq(Kinds) /\ unread[c] \in Seq(Nat) /\ pending[c] \in Seq(Nat)
      /\ got[c] \in Seq(Unit) /\ output[c] \in Seq(Unit) /\ Stream(c) \in Seq(Unit)
  BY Zenon, ConnectionTypes
<1>3. asked'[c] = Append(asked[c], kind) /\ \A d \in Conns \ {c} : asked'[d] = asked[d]
  BY Zenon, <1>1 DEF LoopInv, Types
<1>4. Len(Append(asked[c], kind)) = Len(asked[c]) + 1
  BY <1>2, Appended
<1>5. unread'[c] = Append(unread[c], Len(asked[c]) + 1) /\ \A d \in Conns \ {c} : unread'[d] = unread[d]
  BY Zenon, <1>1, <1>3, <1>4 DEF LoopInv, Types
<1>6. PICK m \in Nat : ServedUpTo(c, m)
  BY Zenon, <1>1 DEF RepliesInOrder
<1>7. Service(Append(asked[c], kind), Append(unread[c], Len(asked[c]) + 1), pending[c],
              machine[c] = "closing", Stream(c), m)
  BY Zenon, <1>2, <1>6, SendIsServed DEF ServedUpTo
<1>8. Stream(c)' = Stream(c)
  BY Zenon, <1>1 DEF Stream
<1>9. ServedUpTo(c, m)'
  BY Zenon, <1>1, <1>3, <1>5, <1>7, <1>8 DEF ServedUpTo
<1>10. QED
  BY Zenon, <1>1, <1>3, <1>5, <1>9, WorkKeepsReplies

\* connReadable parses what it has read.
LEMMA FeedKeepsReplies ==
  ASSUME LoopInv, RepliesInOrder, NEW c \in conns, NEW n \in 0..Len(unread[c]),
         Feed(c, SubSeq(unread[c], 1, n)),
         unread' = [unread EXCEPT ![c] = SubSeq(@, n + 1, Len(@))],
         UNCHANGED <<asked, got, output>>
  PROVE  RepliesInOrder'
<1> DEFINE items == SubSeq(unread[c], 1, n)
<1>1. c \in Conns /\ machine[c] \in {"active", "closing"}
  BY Zenon DEF LoopInv, Membership
<1>2. /\ asked[c] \in Seq(Kinds) /\ unread[c] \in Seq(Nat) /\ pending[c] \in Seq(Nat)
      /\ Stream(c) \in Seq(Unit) /\ Types
  BY Zenon, <1>1, ConnectionTypes DEF LoopInv
<1>3. items \in Seq(Nat) /\ Len(items) = n /\ \A i \in 1..n : items[i] = unread[c][i]
  <2>1. unread[c] \in Seq(Nat) /\ n \in 0..Len(unread[c])
    BY Zenon, <1>2
  <2>2. QED
    BY ONLY <2>1, RestOfOutput
<1>4. \A d \in Conns \ {c} : pending'[d] = pending[d] /\ machine'[d] = machine[d]
  BY Zenon, <1>1, <1>2, <1>3, FeedEffect
<1>0. PICK k \in 0..Len(items) :
        /\ IF machine[c] = "active" THEN UpToBad(c, items, k) ELSE k = 0
        /\ pending' = [pending EXCEPT ![c] = @ \o SubSeq(items, 1, k)]
        /\ machine' = [machine EXCEPT ![c] =
               IF \E i \in Range(SubSeq(items, 1, k)) : asked[c][i] = "bad" THEN "closing" ELSE @]
  BY Zenon DEF Feed
<1> DEFINE taken == SubSeq(items, 1, k)
<1>5. /\ pending'[c] = pending[c] \o taken
      /\ machine'[c] = IF \E i \in Range(taken) : asked[c][i] = "bad" THEN "closing" ELSE machine[c]
  BY Zenon, <1>0, <1>1, <1>2 DEF Types
<1>6. /\ unread'[c] = SubSeq(unread[c], n + 1, Len(unread[c]))
      /\ \A d \in Conns \ {c} : unread'[d] = unread[d]
  BY Zenon, <1>1, <1>2 DEF Types
<1>7. Stream(c)' = Stream(c) /\ asked'[c] = asked[c]
  BY Zenon DEF Stream
<1>8. PICK m \in Nat : ServedUpTo(c, m)
  BY Zenon, <1>1 DEF RepliesInOrder
<1> HIDE DEF items, taken
<1>9. CASE machine[c] = "closing"
  <2>1. taken = <<>>
    BY SMTT(40), <1>0, <1>3, <1>9 DEF taken
  <2>2. pending'[c] = pending[c] /\ machine'[c] = "closing"
    BY SMTT(40), <1>2, <1>5, <1>9, <2>1
  <2>3. Service(asked[c], unread[c], pending[c], TRUE, Stream(c), m)
    BY Zenon, <1>8, <1>9 DEF ServedUpTo
  <2>4. Service(asked[c], unread'[c], pending[c], TRUE, Stream(c), m)
    BY Zenon, <2>3 DEF Service, Unparsed
  <2>5. ServedUpTo(c, m)'
    BY Zenon, <1>7, <2>2, <2>4 DEF ServedUpTo
  <2>6. QED
    BY ZenonT(40), <1>1, <1>4, <1>6, <2>5, WorkKeepsReplies
<1>10. CASE machine[c] = "active"
  <2>1. CutAt(asked[c], items, taken, k)
    BY Zenon, <1>0, <1>3, <1>10, UpToBadCuts DEF taken
  <2>2. taken \in Seq(Nat) /\ Len(taken) = k
    BY ZenonT(40), <2>1 DEF CutAt
  <2>3. k \in 0..n /\ k \in Nat /\ n \in Nat /\ k <= n
    BY SMTT(40), <1>2, <1>3, SeqElements
  <2>4. ASSUME NEW i \in 1..k
        PROVE  taken[i] = unread[c][i] /\ items[i] = unread[c][i]
    <3>1. i \in 1..n
      BY <2>3
    <3>2. QED
      BY Zenon, <1>3, <2>1, <3>1 DEF CutAt
  <2>5. ASSUME NEW i \in 1..(k - 1)
        PROVE  asked[c][unread[c][i]] # "bad"
    <3>1. i \in 1..k
      BY <2>3
    <3>2. QED
      BY Zenon, <2>1, <2>4, <3>1 DEF CutAt
  <2>6. Service(asked[c], unread[c], pending[c], FALSE, Stream(c), m)
    BY Zenon, <1>8, <1>10 DEF ServedUpTo
  <2>7. DOMAIN taken = 1..k
    BY ZenonT(40), <2>2, SeqElements
  <2>8. CASE k > 0 /\ asked[c][items[k]] = "bad"
    <3>1. k \in 1..k /\ asked[c][unread[c][k]] = "bad" /\ taken[k] = unread[c][k]
      BY <2>3, <2>4, <2>8
    <3>2. machine'[c] = "closing"
      BY Zenon, <1>5, <2>7, <3>1 DEF Range
    <3>3. Service(asked[c], unread'[c], pending[c] \o taken, TRUE, Stream(c), m)
      BY ZenonT(40), <1>2, <2>2, <2>3, <2>4, <2>5, <2>6, <2>8, <3>1, FeedIsServed
    <3>4. ServedUpTo(c, m)'
      BY Zenon, <1>5, <1>7, <3>2, <3>3 DEF ServedUpTo
    <3>5. QED
      BY Zenon, <1>1, <1>4, <1>6, <3>4, WorkKeepsReplies
  <2>9. CASE k = Len(items) /\ \A i \in 1..k : asked[c][items[i]] # "bad"
    <3>1. k = n /\ \A i \in 1..k : asked[c][unread[c][i]] # "bad"
      BY ZenonT(40), <1>3, <2>4, <2>9
    <3>2. machine'[c] = "active"
      BY SMTT(40), <1>5, <1>10, <2>4, <2>7, <3>1 DEF Range
    <3>3. Service(asked[c], unread'[c], pending[c] \o taken, FALSE, Stream(c), m)
      <4>1. Service(asked[c], SubSeq(unread[c], n + 1, Len(unread[c])), pending[c] \o taken,
                    FALSE, Stream(c), m)
        BY ZenonT(40), <1>2, <2>2, <2>3, <2>4, <2>5, <2>6, <3>1, FeedIsServed
      <4>2. QED
        BY Zenon, <1>6, <4>1
    <3>4. ServedUpTo(c, m)'
      BY Zenon, <1>5, <1>7, <3>2, <3>3 DEF ServedUpTo
    <3>5. QED
      BY Zenon, <1>1, <1>4, <1>6, <3>4, WorkKeepsReplies
  <2>10. QED
    BY Zenon, <2>1, <2>8, <2>9 DEF CutAt
<1>11. QED
  BY Zenon, <1>1, <1>9, <1>10

\* applyQueuedWork: pushed messages follow whole replies.
LEMMA BufferPushKeepsReplies ==
  ASSUME LoopInv, RepliesInOrder, NEW c \in Conns, BufferPush(c)
  PROVE  RepliesInOrder'
<1>1. UNCHANGED <<asked, unread, got>>
  BY Zenon DEF BufferPush, clientVars
<1>2. CASE c \notin conns
  BY Zenon, <1>1, <1>2, QuietKeepsReplies DEF BufferPush, machineVars
<1>3. CASE c \in conns /\ Len(output[c]) + work[c] > MaxOutput
  <2>1. CloseConns({c})
    BY Zenon, <1>3 DEF BufferPush
  <2>2. QED
    BY Zenon, <1>1, <2>1, CloseKeepsReplies
<1>4. CASE c \in conns /\ ~(Len(output[c]) + work[c] > MaxOutput)
  <2> DEFINE frames == [i \in 1..work[c] |-> Push]
  <2>1. output' = [output EXCEPT ![c] = @ \o frames] /\ UNCHANGED <<machine, pending>>
    BY Zenon, <1>4 DEF BufferPush
  <2>2. work[c] \in Nat /\ machine[c] # "closed"
    BY Zenon, <1>4 DEF LoopInv, Types, Membership
  <2>3. frames \in Seq(Unit) /\ Len(frames) = work[c] /\ \A i \in 1..Len(frames) : frames[i] = Push
    <3>1. frames \in Seq(Unit)
      BY <2>2, NoElements DEF Unit
    <3>2. QED
      BY SMTT(40), <2>2, <3>1, SeqElements
  <2> HIDE DEF frames
  <2>4. /\ asked[c] \in Seq(Kinds) /\ got[c] \in Seq(Unit) /\ output[c] \in Seq(Unit)
        /\ Stream(c) \in Seq(Unit)
    BY Zenon, ConnectionTypes
  <2>5. output'[c] = output[c] \o frames /\ \A d \in Conns \ {c} : output'[d] = output[d]
    BY Zenon, <2>1 DEF LoopInv, Types
  <2>6. Stream(c)' = Stream(c) \o frames
    <3>1. (got[c] \o output[c]) \o frames = got[c] \o (output[c] \o frames)
      <4>1. got[c] \in Seq(Unit) /\ output[c] \in Seq(Unit) /\ frames \in Seq(Unit)
        BY Zenon, <2>3, <2>4
      <4>2. QED
        BY Zenon, <4>1, StreamGrows
    <3>2. QED
      BY Zenon, <1>1, <2>5, <3>1 DEF Stream
  <2>7. PICK m \in Nat : ServedUpTo(c, m)
    BY Zenon, <2>2 DEF RepliesInOrder
  <2>8. Service(asked[c], unread[c], pending[c], machine[c] = "closing", Stream(c) \o frames, m)
    BY Zenon, <2>3, <2>4, <2>7, PushIsServed DEF ServedUpTo
  <2>9. ServedUpTo(c, m)'
    BY Zenon, <1>1, <2>1, <2>6, <2>8 DEF ServedUpTo
  <2>10. QED
    BY Zenon, <1>1, <2>1, <2>5, <2>9, WorkKeepsReplies
<1>5. QED
  BY Zenon, <1>2, <1>3, <1>4

\* connReadable.
LEMMA ConnReadableKeepsReplies ==
  ASSUME LoopInv, RepliesInOrder, NEW c \in Conns, ConnReadable(c)
  PROVE  RepliesInOrder'
<1>1. UNCHANGED <<asked, got>>
  BY Zenon DEF ConnReadable
<1>2. \/ UNCHANGED <<unread, machineVars>>
      \/ CloseConns({c}) /\ UNCHANGED unread
      \/ /\ c \in conns /\ output' = output
         /\ \E n \in 0..Len(unread[c]) :
              /\ Feed(c, SubSeq(unread[c], 1, n))
              /\ unread' = [unread EXCEPT ![c] = SubSeq(@, n + 1, Len(@))]
  BY Zenon DEF ConnReadable
<1>3. CASE UNCHANGED <<unread, machineVars>>
  BY Zenon, <1>1, <1>3, QuietKeepsReplies DEF machineVars
<1>4. CASE CloseConns({c}) /\ UNCHANGED unread
  BY Zenon, <1>1, <1>4, CloseKeepsReplies
<1>5. CASE /\ c \in conns /\ output' = output
           /\ \E n \in 0..Len(unread[c]) :
                /\ Feed(c, SubSeq(unread[c], 1, n))
                /\ unread' = [unread EXCEPT ![c] = SubSeq(@, n + 1, Len(@))]
  BY Zenon, <1>1, <1>5, FeedKeepsReplies
<1>6. QED
  BY Zenon, <1>2, <1>3, <1>4, <1>5

\* A flush: what is written is what is taken from the output.
LEMMA FlushKeepsReplies ==
  ASSUME LoopInv, RepliesInOrder, NEW c \in Conns, ProcessFlush(c) \/ FinishConnEvent(c)
  PROVE  RepliesInOrder'
<1>1. UNCHANGED <<asked, unread>> /\ at = c /\ Busy
  BY Zenon DEF ProcessFlush, FinishConnEvent, clientVars, Busy
<1>2. PICK n \in 0..Len(output[c]) :
        /\ Written(c, n)
        /\ \/ CloseConns({c})
           \/ output' = [output EXCEPT ![c] = Rest(c, n)] /\ UNCHANGED <<machine, pending>>
  BY Zenon DEF ProcessFlush, FinishConnEvent
<1>3. Types /\ machine[c] # "closed"
  BY Zenon, <1>1 DEF LoopInv, Membership, Position
<1>4. got'[c] = got[c] \o SubSeq(output[c], 1, n) /\ \A d \in Conns \ {c} : got'[d] = got[d]
  BY Zenon, <1>2, <1>3, FlushEffect
<1>5. CASE CloseConns({c})
  BY Zenon, <1>1, <1>4, <1>5, CloseKeepsReplies
<1>6. CASE output' = [output EXCEPT ![c] = Rest(c, n)] /\ UNCHANGED <<machine, pending>>
  <2>1. output'[c] = Rest(c, n) /\ \A d \in Conns \ {c} : output'[d] = output[d]
    BY Zenon, <1>3, <1>6 DEF Types
  <2>2. (got[c] \o SubSeq(output[c], 1, n)) \o Rest(c, n) = got[c] \o output[c]
    BY Zenon, ConnectionTypes, FlushKeepsStream DEF Rest
  <2>3. Kept(c)
    BY Zenon, <1>1, <1>3, <1>4, <1>6, <2>1, <2>2 DEF Kept, Stream
  <2>4. QED
    BY Zenon, <1>1, <1>4, <1>6, <2>1, <2>3, WorkKeepsReplies
<1>7. QED
  BY Zenon, <1>2, <1>5, <1>6

\* A request runs, and its reply follows those to all earlier ones.
LEMMA ProcessNextKeepsReplies ==
  ASSUME LoopInv, RepliesInOrder, NEW c \in Conns, ProcessNext(c)
  PROVE  RepliesInOrder'
<1> DEFINE i == Head(pending[c])
           reply == ReplyTo(i, asked[c][i])
<1>1. UNCHANGED <<asked, unread, got>> /\ at = c /\ Busy
  BY Zenon DEF ProcessNext, clientVars, Busy
<1>2. \/ UNCHANGED machineVars
      \/ CloseConns({c})
      \/ /\ pending[c] # <<>> /\ pending' = [pending EXCEPT ![c] = Tail(@)]
         /\ output' = [output EXCEPT ![c] = output[c] \o reply] /\ machine' = machine
  BY Zenon DEF ProcessNext
<1>3. CASE UNCHANGED machineVars
  BY Zenon, <1>1, <1>3, QuietKeepsReplies DEF machineVars
<1>4. CASE CloseConns({c})
  BY Zenon, <1>1, <1>4, CloseKeepsReplies
<1>5. CASE /\ pending[c] # <<>> /\ pending' = [pending EXCEPT ![c] = Tail(@)]
           /\ output' = [output EXCEPT ![c] = output[c] \o reply] /\ machine' = machine
  <2>1. /\ pending'[c] = Tail(pending[c]) /\ output'[c] = output[c] \o reply
        /\ \A d \in Conns \ {c} : pending'[d] = pending[d] /\ output'[d] = output[d]
    BY Zenon, <1>5 DEF LoopInv, Types
  <2>2. machine[c] # "closed"
    BY Zenon, <1>1 DEF LoopInv, Membership, Position
  <2>3. /\ asked[c] \in Seq(Kinds) /\ unread[c] \in Seq(Nat) /\ pending[c] \in Seq(Nat)
        /\ got[c] \in Seq(Unit) /\ output[c] \in Seq(Unit) /\ Stream(c) \in Seq(Unit)
    BY Zenon, ConnectionTypes
  <2>4. PICK m \in Nat : ServedUpTo(c, m)
    BY Zenon, <2>2 DEF RepliesInOrder
  <2>5. /\ i = m + 1
        /\ Service(asked[c], unread[c], Tail(pending[c]), machine[c] = "closing",
                   Stream(c) \o ReplyTo(m + 1, asked[c][m + 1]), m + 1)
    <3>1. Service(asked[c], unread[c], pending[c], machine[c] = "closing", Stream(c), m)
      BY ZenonT(40), <2>4 DEF ServedUpTo
    <3>2. pending[c] # <<>>
      BY SMTT(40), <1>5
    <3>3. /\ Head(pending[c]) = m + 1
          /\ Service(asked[c], unread[c], Tail(pending[c]), machine[c] = "closing",
                     Stream(c) \o ReplyTo(m + 1, asked[c][m + 1]), m + 1)
      BY ONLY SMTT(40), <2>3, <3>1, <3>2, m \in Nat, ReplyIsServed
    <3>4. QED
      BY Zenon, <3>3
  <2>6. reply \in Seq(Unit) /\ m + 1 \in Nat
    BY <2>5, ReplyIsUnits
  <2>7. reply = ReplyTo(m + 1, asked[c][m + 1])
    BY Zenon, <2>5
  <2> HIDE DEF i, reply
  <2>8. Stream(c)' = Stream(c) \o reply
    <3>1. (got[c] \o output[c]) \o reply = got[c] \o (output[c] \o reply)
      <4>1. got[c] \in Seq(Unit) /\ output[c] \in Seq(Unit) /\ reply \in Seq(Unit)
        BY Zenon, <2>3, <2>6
      <4>2. QED
        BY ZenonT(40), <4>1, StreamGrows
    <3>2. QED
      BY Zenon, <1>1, <2>1, <3>1 DEF Stream
  <2>9. ServedUpTo(c, m + 1)'
    BY ZenonT(40), <1>1, <1>5, <2>1, <2>5, <2>7, <2>8 DEF ServedUpTo
  <2>10. QED
    BY Zenon, <1>1, <1>5, <2>1, <2>6, <2>9, WorkKeepsReplies
<1>6. QED
  BY Zenon, <1>2, <1>3, <1>4, <1>5

\* A connection enters the loop with the requests it has sent so far.
LEMMA AcceptKeepsReplies ==
  ASSUME LoopInv, RepliesInOrder, NEW c \in Conns, RegisterConn(c) \/ RefuseConn(c)
  PROVE  RepliesInOrder'
<1>1. /\ UNCHANGED <<asked, unread, got, pending, output>> /\ c \in backlog
      /\ \/ machine' = [machine EXCEPT ![c] = "active"]
         \/ machine' = [machine EXCEPT ![c] = "closed"]
  BY Zenon DEF RegisterConn, RefuseConn, clientVars
<1>2. machine[c] = "none"
  BY Zenon, <1>1 DEF LoopInv, Membership
<1>3. /\ machine'[c] = "active" \/ machine'[c] = "closed"
      /\ \A d \in Conns \ {c} : machine'[d] = machine[d]
  BY Zenon, <1>1 DEF LoopInv, Types
<1>4. machine'[c] # "closed" => Kept(c)
  BY Zenon, <1>1, <1>2, <1>3 DEF Kept, Stream
<1>5. QED
  BY Zenon, <1>1, <1>3, <1>4, WorkKeepsReplies

\* No client has asked anything.
LEMMA InitEstablishesReplies == Init => RepliesInOrder
<1>1. SUFFICES ASSUME Init, NEW c \in Conns PROVE ServedUpTo(c, 0)
  BY Zenon DEF RepliesInOrder
<1>2. /\ asked[c] = <<>> /\ unread[c] = <<>> /\ pending[c] = <<>> /\ machine[c] # "closing"
      /\ got[c] = <<>> /\ output[c] = <<>>
  BY Zenon, <1>1 DEF Init
<1>3. Stream(c) = <<>>
  BY SMTT(40), <1>2, NoElements, NoElements DEF Stream
<1>4. Channel!Expected(<<>>) = {}
  BY SMTT(40) DEF Channel!Expected, Channel!Answered
<1>5. Replied(<<>>, <<>>, 0)
  BY SMTT(40), <1>4 DEF Replied, Channel!InOrder
<1>6. Unparsed(<<>>, <<>>, FALSE, 0)
  BY DEF Unparsed
<1>7. Service(<<>>, <<>>, <<>>, FALSE, <<>>, 0)
  <2>1. 0 + Len(<<>>) = 0 /\ 1..Len(<<>>) = {}
    OBVIOUS
  <2>2. QED
    BY Zenon, <1>5, <1>6, <2>1 DEF Service
<1>8. QED
  BY Zenon, <1>2, <1>3, <1>7 DEF ServedUpTo

\* Every step keeps the replies in order.
LEMMA NextKeepsReplies == LoopInv /\ RepliesInOrder /\ [Next]_vars => RepliesInOrder'
<1>1. SUFFICES ASSUME LoopInv, RepliesInOrder, [Next]_vars PROVE RepliesInOrder'
  BY Zenon
<1>2. CASE \/ UNCHANGED vars \/ Wake \/ Stop \/ ResumeTimer \/ Wait \/ EventsDone \/ AcceptDone
           \/ PauseAccepting \/ TakeQueues
           \/ \E c \in Conns : \/ CloseHandle(c) \/ ConnWritable(c) \/ Connect(c)
                               \/ (\E n \in {1, MaxOutput + 1} : QueuePush(c, n))
                               \/ (\E how \in {"eof", "reset"} : Leave(c, how))
  <2>1. UNCHANGED <<asked, unread, pending, got, output, machine>>
    BY Zenon, <1>2 DEF vars, Wake, Stop, ResumeTimer, Wait, EventsDone, AcceptDone, PauseAccepting,
                TakeQueues, CloseHandle, ConnWritable, Connect, QueuePush, Leave, clientVars,
                machineVars
  <2>2. QED
    BY Zenon, <1>1, <2>1, QuietKeepsReplies
<1>3. CASE (\E c \in Conns : FlushFails(c)) \/ CloseRequests \/ Cleanup
  <2>1. UNCHANGED <<asked, unread, got>> /\ \E S : CloseConns(S)
    BY Zenon, <1>3 DEF FlushFails, CloseRequests, Cleanup, clientVars
  <2>2. QED
    BY Zenon, <1>1, <2>1, CloseKeepsReplies
<1>4. CASE LoopStep
  BY SMTT(40), <1>1, <1>2, <1>3, <1>4, BufferPushKeepsReplies, ConnReadableKeepsReplies,
     FlushKeepsReplies, ProcessNextKeepsReplies, AcceptKeepsReplies DEF LoopStep
<1>5. CASE OthersStep
  BY Zenon, <1>1, <1>2, <1>5, SendKeepsReplies DEF OthersStep
<1>6. QED
  BY Zenon, <1>1, <1>2, <1>4, <1>5 DEF Next

\* Both parts of the invariant hold.
LEMMA RepliesHold == Spec => [](LoopInv /\ RepliesInOrder)
<1>1. QED
  BY InitEstablishesLoopInv, NextKeepsLoopInv, InitEstablishesReplies, NextKeepsReplies, PTL
     DEF Spec

-----------------------------------------------------------------------------
(* The loop implements the reply channel.                                  *)

\* What a client has of an ordered stream is in order.
LEMMA PrefixInOrder ==
  ASSUME NEW kinds, NEW first \in Seq(Unit), NEW rest \in Seq(Unit),
         Channel!InOrder(first \o rest, kinds)
  PROVE  Channel!InOrder(first, kinds)
<1> DEFINE all == first \o rest
<1>1. Len(first) \in Nat /\ Len(rest) \in Nat /\ DOMAIN first = 1..Len(first)
  BY Zenon, SeqElements
<1>2. all \in Seq(Unit) /\ Len(all) = Len(first) + Len(rest)
  BY Zenon, Joined
<1>3. \A i \in 1..(Len(first) + Len(rest)) :
        all[i] = IF i <= Len(first) THEN first[i] ELSE rest[i - Len(first)]
  BY Zenon, Joined
<1>4. DOMAIN all = 1..(Len(first) + Len(rest))
  BY Zenon, <1>2, SeqElements
<1>5. Channel!InOrder(all, kinds)
  BY Zenon
<1> HIDE DEF all
<1>6. \A i \in DOMAIN first : i \in DOMAIN all /\ all[i] = first[i]
  BY <1>1, <1>3, <1>4
<1>7. SUFFICES ASSUME NEW p \in DOMAIN first, first[p] # Push
               PROVE  /\ first[p] \in Channel!Expected(kinds)
                      /\ \A u \in Channel!Expected(kinds) :
                           Channel!Before(u, first[p]) <=> \E q \in 1..(p - 1) : first[q] = u
  BY Zenon DEF Channel!InOrder
<1>8. /\ all[p] \in Channel!Expected(kinds)
      /\ \A u \in Channel!Expected(kinds) :
           Channel!Before(u, all[p]) <=> \E q \in 1..(p - 1) : all[q] = u
  BY Zenon, <1>5, <1>6, <1>7 DEF Channel!InOrder
<1>9. \A q \in 1..(p - 1) : q \in DOMAIN first
  BY <1>1
<1>10. QED
  BY Zenon, <1>6, <1>8, <1>9

\* Joining an empty sequence changes nothing.
LEMMA NothingJoined == ASSUME NEW S, NEW s \in Seq(S) PROVE s \o <<>> = s
  OBVIOUS

\* A flush delivers the next units of the stream, or nothing.
LEMMA FlushDelivers ==
  ASSUME LoopInv, RepliesInOrder, NEW c \in Conns, ProcessFlush(c) \/ FinishConnEvent(c)
  PROVE  got' = got \/ Channel!Deliver(c)
<1>1. asked' = asked /\ at = c /\ Busy
  BY Zenon DEF ProcessFlush, FinishConnEvent, clientVars, Busy
<1>2. PICK n \in 0..Len(output[c]) : Written(c, n)
  BY Zenon DEF ProcessFlush, FinishConnEvent
<1>3. Types /\ machine[c] # "closed"
  BY Zenon, <1>1 DEF LoopInv, Membership, Position
<1>4. /\ got' \in [Conns -> Seq(Unit)] /\ \A d \in Conns \ {c} : got'[d] = got[d]
      /\ got'[c] = got[c] \o SubSeq(output[c], 1, n)
  BY Zenon, <1>2, <1>3, FlushEffect
<1>5. got[c] \in Seq(Unit) /\ output[c] \in Seq(Unit) /\ got \in [Conns -> Seq(Unit)]
  BY Zenon, <1>3 DEF Types
<1>6. /\ SubSeq(output[c], 1, n) \in Seq(Unit) /\ Len(SubSeq(output[c], 1, n)) = n
      /\ SubSeq(output[c], n + 1, Len(output[c])) \in Seq(Unit)
  BY SMTT(40), <1>5, RestOfOutput
<1>7. n \in Nat /\ Len(got[c]) \in Nat /\ Len(got'[c]) = Len(got[c]) + n
  BY SMTT(40), <1>4, <1>5, <1>6, Joined, SeqElements
<1>8. CASE n = 0
  <2>1. SubSeq(output[c], 1, n) = <<>>
    BY SMTT(40), <1>6, <1>8, NoElements
  <2>2. got'[c] = got[c]
    <3>1. got'[c] = got[c] \o <<>>
      BY Zenon, <1>4, <2>1
    <3>2. QED
      BY Zenon, <1>5, <3>1, NothingJoined
  <2>3. QED
    BY SMTT(40), <1>4, <1>5, <2>2
<1>9. CASE n # 0
  <2>1. Len(got[c]) < Len(got'[c])
    BY SMTT(40), <1>7, <1>9
  <2>2. SubSeq(got'[c], 1, Len(got[c])) = got[c]
    <3> DEFINE first == SubSeq(got'[c], 1, Len(got[c]))
    <3>1. Len(got[c]) \in 0..Len(got'[c]) /\ got'[c] \in Seq(Unit)
      <4>1. Len(got[c]) \in 0..Len(got'[c])
        BY SMTT(40), <1>7
      <4>2. QED
        BY Zenon, <1>4, <4>1
    <3>2. /\ first \in Seq(Unit) /\ Len(first) = Len(got[c])
          /\ \A i \in 1..Len(got[c]) : first[i] = got'[c][i]
      BY SMTT(40), <3>1, RestOfOutput
    <3>3. \A i \in 1..(Len(got[c]) + n) :
            got'[c][i] = IF i <= Len(got[c]) THEN got[c][i]
                         ELSE SubSeq(output[c], 1, n)[i - Len(got[c])]
      BY SMTT(40), <1>4, <1>5, <1>6, Joined
    <3> HIDE DEF first
    <3>4. ASSUME NEW i \in 1..Len(got[c]) PROVE first[i] = got[c][i]
      <4>1. i \in 1..(Len(got[c]) + n) /\ i <= Len(got[c])
        BY ONLY <1>7, i \in 1..Len(got[c])
      <4>2. QED
        BY Zenon, <3>2, <3>3, <4>1
    <3>5. QED
      BY SMTT(40), <1>5, <3>2, <3>4, SameElements DEF first
  <2>3. Channel!InOrder(got'[c], asked[c])
    <3>1. PICK m \in Nat : ServedUpTo(c, m)
      BY Zenon, <1>3 DEF RepliesInOrder
    <3>2. Channel!InOrder(got[c] \o output[c], asked[c])
      BY Zenon, <3>1 DEF ServedUpTo, Service, Replied, Stream
    <3>3. got'[c] \o SubSeq(output[c], n + 1, Len(output[c])) = got[c] \o output[c]
      BY Zenon, <1>4, <1>5, FlushKeepsStream
    <3>4. got'[c] \in Seq(Unit)
      BY Zenon, <1>4
    <3>5. QED
      BY Zenon, <1>6, <3>2, <3>3, <3>4, PrefixInOrder
  <2>4. QED
    BY Zenon, <1>1, <1>3, <1>4, <2>1, <2>2, <2>3 DEF Channel!Deliver
<1>10. QED
  BY Zenon, <1>8, <1>9

\* A machine that is closed stays closed, and of what clients ask and get only
\* Send and a flush change anything.
LEMMA OnlyFlushesDeliver ==
  ASSUME LoopInv, Next
  PROVE  /\ \A c \in Conns : machine[c] = "closed" => machine'[c] = "closed"
         /\ \/ \E c \in Conns, kind \in Kinds : Send(c, kind)
            \/ asked' = asked /\ got' = got
            \/ asked' = asked /\ \E c \in Conns : ProcessFlush(c) \/ FinishConnEvent(c)
<1>1. ASSUME NEW S, CloseConns(S)
      PROVE  \A c \in Conns : machine[c] = "closed" => machine'[c] = "closed"
  BY Zenon, <1>1 DEF CloseConns
<1>2. ASSUME NEW d \in Conns, RegisterConn(d) \/ RefuseConn(d)
      PROVE  \A c \in Conns : machine[c] = "closed" => machine'[c] = "closed"
  <2>1. machine[d] = "none"
    BY Zenon, <1>2 DEF RegisterConn, RefuseConn, LoopInv, Membership
  <2>2. machine' = [machine EXCEPT ![d] = "active"] \/ machine' = [machine EXCEPT ![d] = "closed"]
    BY Zenon, <1>2 DEF RegisterConn, RefuseConn
  <2>3. QED
    BY Zenon, <2>1, <2>2 DEF LoopInv, Types
<1>3. ASSUME NEW d \in conns, NEW items, Feed(d, items)
      PROVE  \A c \in Conns : machine[c] = "closed" => machine'[c] = "closed"
  <2>1. machine[d] # "closed" /\ d \in Conns
    BY Zenon DEF LoopInv, Membership
  <2>2. \A c \in Conns \ {d} : machine'[c] = machine[c]
    BY Zenon, <1>3 DEF Feed, LoopInv, Types
  <2>3. QED
    BY Zenon, <2>1, <2>2
<1>4. CASE \/ Wait \/ TakeQueues \/ EventsDone \/ AcceptDone \/ PauseAccepting \/ Wake \/ Stop
           \/ ResumeTimer
           \/ \E c \in Conns : \/ ConnWritable(c) \/ Connect(c) \/ CloseHandle(c)
                               \/ \E n \in {1, MaxOutput + 1} : QueuePush(c, n)
                               \/ \E how \in {"eof", "reset"} : Leave(c, how)
  BY Zenon, <1>4 DEF Wait, TakeQueues, EventsDone, AcceptDone, PauseAccepting, Wake, Stop, ResumeTimer,
              ConnWritable, Connect, CloseHandle, QueuePush, Leave, clientVars, machineVars
<1>5. ASSUME NEW c \in Conns, NEW kind \in Kinds, Send(c, kind)
      PROVE  machine' = machine
  BY Zenon, <1>5 DEF Send, machineVars
<1>6. CASE (\E c \in Conns : FlushFails(c)) \/ CloseRequests \/ Cleanup
  BY Zenon, <1>1, <1>6 DEF FlushFails, CloseRequests, Cleanup, clientVars
<1>7. ASSUME NEW c \in Conns, BufferPush(c) \/ ProcessNext(c)
      PROVE  asked' = asked /\ got' = got /\ (machine' = machine \/ CloseConns({c}))
  BY Zenon, <1>7 DEF BufferPush, ProcessNext, clientVars, machineVars
<1>8. ASSUME NEW c \in Conns, ConnReadable(c)
      PROVE  /\ asked' = asked /\ got' = got
             /\ machine' = machine \/ CloseConns({c}) \/ (c \in conns /\ \E items : Feed(c, items))
  BY Zenon, <1>8 DEF ConnReadable, machineVars
<1>9. ASSUME NEW c \in Conns, ProcessFlush(c) \/ FinishConnEvent(c)
      PROVE  asked' = asked /\ (machine' = machine \/ CloseConns({c}))
  BY Zenon, <1>9 DEF ProcessFlush, FinishConnEvent, clientVars
<1>10. ASSUME NEW c \in Conns, RegisterConn(c) \/ RefuseConn(c)
       PROVE  asked' = asked /\ got' = got
  BY Zenon, <1>10 DEF RegisterConn, RefuseConn, clientVars
<1>11. CASE LoopStep
  BY ZenonT(40), <1>1, <1>2, <1>3, <1>4, <1>6, <1>7, <1>8, <1>9, <1>10, <1>11 DEF LoopStep
<1>12. CASE OthersStep
  BY Zenon, <1>4, <1>5, <1>12 DEF OthersStep
<1>13. QED
  BY Zenon, <1>11, <1>12 DEF Next

\* Whatever a client receives is what the abstract channel promises: the
\* replies in the order of its requests, none lost or doubled, an error reply
\* last, and nothing behind the end of the connection (ConnMachine).
THEOREM RepliesStayInOrder == Spec => KeepsReplyOrder
<1>1. Init => Channel!ChannelInit
  BY Zenon DEF Init, Channel!ChannelInit
<1>2. LoopInv /\ RepliesInOrder /\ [Next]_vars => [Channel!ChannelNext]_(Channel!channelVars)
  <2>1. SUFFICES ASSUME LoopInv, RepliesInOrder, [Next]_vars
                 PROVE  [Channel!ChannelNext]_(Channel!channelVars)
    BY Zenon
  <2> DEFINE over == {c \in Conns : machine[c] = "closed"}
  <2>2. CASE UNCHANGED vars
    BY Zenon, <2>2 DEF vars, clientVars, machineVars, Channel!channelVars
  <2>3. ASSUME NEW c \in Conns, NEW kind \in Kinds, Send(c, kind)
        PROVE  Channel!ChannelNext
    <3>1. /\ asked' = [asked EXCEPT ![c] = Append(@, kind)]
          /\ UNCHANGED <<got, machine>>
      BY Zenon, <2>3 DEF Send, machineVars
    <3>2. Channel!Ask(c)
      BY Zenon, <3>1 DEF Channel!Ask
    <3>3. QED
      BY Zenon, <3>2 DEF Channel!ChannelNext
  <2>4. ASSUME \A c \in Conns : machine[c] = "closed" => machine'[c] = "closed",
               (\E c \in Conns : Channel!Deliver(c)) \/ UNCHANGED <<asked, got>>
        PROVE  Channel!ChannelNext
    <3>1. over' \ over \in SUBSET (Conns \ over) /\ over' = over \cup (over' \ over)
      BY Zenon, <2>4
    <3>2. \E S \in SUBSET (Conns \ over) : Channel!End(S)
      BY Zenon, <3>1 DEF Channel!End
    <3>3. QED
      BY Zenon, <2>4, <3>2 DEF Channel!ChannelNext
  <2>5. CASE Next
    BY Zenon, <2>1, <2>3, <2>4, <2>5, OnlyFlushesDeliver, FlushDelivers
  <2>6. QED
    BY Zenon, <2>1, <2>2, <2>5
<1>3. QED
  BY <1>1, <1>2, RepliesHold, PTL DEF Spec, KeepsReplyOrder, Channel!ChannelSpec

-----------------------------------------------------------------------------
(* A client that finishes sending is answered in full.                     *)

\* When finishConnEvent ends an active connection because its peer finished
\* sending, nothing is unread, unparsed or unwritten.
LEMMA ServedIsAll ==
  ASSUME LoopInv, RepliesInOrder, NEW c \in conns, machine[c] = "active",
         NEW n \in 0..Len(output[c]), Written(c, n), Served(c, n)
  PROVE  Channel!Expected(asked[c]) \subseteq Range(got'[c])
<1>1. c \in Conns /\ Types
  BY Zenon DEF LoopInv, Membership
<1>2. /\ asked[c] \in Seq(Kinds) /\ unread[c] \in Seq(Nat) /\ pending[c] \in Seq(Nat)
      /\ got[c] \in Seq(Unit) /\ output[c] \in Seq(Unit)
  BY Zenon, <1>1, ConnectionTypes
<1>3. unread[c] = <<>> /\ Rest(c, n) = <<>> /\ PendingRequests(c) = {}
  BY Zenon DEF Served, LoopInv, HalfClosed
<1>4. PICK m \in Nat : ServedUpTo(c, m)
  BY Zenon, <1>1 DEF RepliesInOrder
<1>5. Service(asked[c], unread[c], pending[c], FALSE, Stream(c), m)
  BY Zenon, <1>4 DEF ServedUpTo
<1>6. /\ Len(pending[c]) \in Nat /\ Len(asked[c]) \in Nat /\ Len(unread[c]) = 0
      /\ DOMAIN pending[c] = 1..Len(pending[c])
  BY <1>2, <1>3, SeqElements
<1>7. Len(pending[c]) = 0
  <2>1. SUFFICES ASSUME Len(pending[c]) # 0 PROVE FALSE
    BY Zenon
  <2>2. 1 \in 1..Len(pending[c]) /\ m + 1 \in 1..(m + Len(pending[c]))
    BY <1>6, <2>1
  <2>3. pending[c][1] = m + 1 /\ asked[c][m + 1] # "bad"
    BY Zenon, <1>5, <2>2 DEF Service, Unparsed
  <2>4. pending[c][1] \in PendingRequests(c)
    BY Zenon, <1>6, <2>2, <2>3 DEF PendingRequests, Range
  <2>5. QED
    BY Zenon, <1>3, <2>4
<1>8. m = Len(asked[c])
  <2>1. m + Len(pending[c]) + Len(unread[c]) = Len(asked[c])
    BY Zenon, <1>5 DEF Service, Unparsed
  <2>2. QED
    BY SMTT(40), <1>6, <1>7, <2>1
<1>9. got'[c] = Stream(c)
  <2>1. got'[c] = got[c] \o SubSeq(output[c], 1, n) /\ got' \in [Conns -> Seq(Unit)]
    BY Zenon, <1>1, FlushEffect
  <2>2. (got[c] \o SubSeq(output[c], 1, n)) \o Rest(c, n) = got[c] \o output[c]
    BY Zenon, <1>2, FlushKeepsStream DEF Rest
  <2>3. got'[c] \in Seq(Unit)
    BY Zenon, <1>1, <2>1
  <2>4. got'[c] \o <<>> = got'[c]
    BY <2>3, NoElements
  <2>5. QED
    BY Zenon, <1>3, <2>1, <2>2, <2>4 DEF Stream
<1>10. ASSUME NEW u \in Channel!Expected(asked[c])
       PROVE  u \in Range(got'[c])
  <2>1. u[1] \in 1..Len(asked[c])
    BY Zenon, <1>2, ExpectedUnits
  <2>2. u[1] <= m
    BY <1>6, <1>8, <2>1
  <2>3. \E q \in DOMAIN Stream(c) : Stream(c)[q] = u
    BY Zenon, <1>5, <2>2 DEF Service, Replied
  <2>4. QED
    BY Zenon, <1>9, <2>3 DEF Range
<1>11. QED
  BY Zenon, <1>10

\* While the loop finishes with a connection, only finishConnEvent ends one
\* whose peer has not reset it, and only that one.
LEMMA FinishEnds ==
  ASSUME LoopInv, [Next]_vars, loop = "finish", NEW c \in conns \ conns', peer[c] # "reset"
  PROVE  FinishConnEvent(c)
<1>1. ASSUME NEW d, CloseConns({d})
      PROVE  c = d
  BY Zenon, <1>1 DEF CloseConns
<1>2. c \in Conns
  BY Zenon DEF LoopInv, Membership
<1>3. conns' # conns
  BY Zenon
<1>4. CASE LoopStep
  <2>1. PICK d \in Conns : FinishConnEvent(d) \/ FlushFails(d)
    BY ZenonT(40), <1>3, <1>4 DEF LoopStep, Wait, TakeQueues, CloseRequests, EventsDone, AcceptDone,
       PauseAccepting, Cleanup, Accepting, BufferPush, ConnReadable, ConnWritable, ProcessFlush,
       ProcessNext, RegisterConn, RefuseConn
  <2>2. CASE FlushFails(d)
    BY Zenon, <1>1, <2>2 DEF FlushFails
  <2>3. CASE FinishConnEvent(d)
    <3>1. CloseConns({d}) \/ conns' = conns
      BY Zenon, <2>3 DEF FinishConnEvent
    <3>2. QED
      BY Zenon, <1>1, <1>3, <2>3, <3>1
  <2>4. QED
    BY Zenon, <2>1, <2>2, <2>3
<1>5. CASE OthersStep \/ UNCHANGED vars
  BY Zenon, <1>3, <1>5 DEF OthersStep, Wake, Stop, ResumeTimer, Connect, CloseHandle, QueuePush, Send,
     Leave, vars
<1>6. QED
  BY Zenon, <1>4, <1>5 DEF Next

\* A connection that ends because its client finished sending has received the
\* replies to everything the client ever sent (connReadable).
THEOREM EofIsServed == Spec => EofServesAll
<1>1. ASSUME LoopInv, RepliesInOrder, [Next]_vars, NEW c \in conns \ conns',
             loop = "finish", peer[c] = "eof", machine[c] = "active"
      PROVE  Channel!Expected(asked[c]) \subseteq Range(got'[c])
  <2>1. FinishConnEvent(c) /\ c \in Conns
    BY Zenon, <1>1, FinishEnds DEF LoopInv, Membership
  <2>2. PICK n \in 0..Len(output[c]) :
           /\ Written(c, n)
           /\ IF Drained(c, n) \/ Served(c, n) THEN CloseConns({c}) ELSE conns' = conns
    BY Zenon, <2>1 DEF FinishConnEvent
  <2>3. Served(c, n)
    BY Zenon, <1>1, <2>2 DEF Drained
  <2>4. QED
    BY Zenon, <1>1, <2>2, <2>3, ServedIsAll
<1>2. LoopInv /\ RepliesInOrder /\ [Next]_vars =>
        [\A c \in conns \ conns' :
           (loop = "finish" /\ peer[c] = "eof" /\ machine[c] = "active") =>
               Channel!Expected(asked[c]) \subseteq Range(got'[c])]_vars
  BY Zenon, <1>1
<1>3. QED
  BY <1>2, RepliesHold, PTL DEF Spec, EofServesAll
=============================================================================
