------------------------- MODULE ReplicationProofs --------------------------
(***************************************************************************)
(* Proofs about replication, for any number of clients and replicas and    *)
(* any number of broken connections: no propagated command precedes the    *)
(* snapshot, only authenticated replicas are registered, no client sleeps  *)
(* in WAIT on an acknowledgement that has already come; and as long as     *)
(* fan-outs and handshakes do not overlap, a replica that WAIT counted has *)
(* applied the write, and a connected replica has been sent the master's   *)
(* writes in order and without a gap.                                      *)
(***************************************************************************)
EXTENDS Replication, TLAPS

-----------------------------------------------------------------------------
(* The handshake.                                                          *)

Handshake == {"ping", "auth", "port", "psync"}

\* The types of the variables the handshake is about.
StreamTypes ==
    /\ serve \in [Replicas -> {"commands", "built", "sent", "acks", "closed"}]
    /\ link \in [Replicas -> Handshake \cup {"resync", "streaming", "ended"}]
    /\ down \in [Replicas -> Seq(Items)]
    /\ built \in [Replicas -> Seq(Clients)]
    /\ store \in Seq(Clients)
    /\ todo \in [Clients -> SUBSET Replicas]
    /\ registered \subseteq Replicas

NoSnapshot(s) == \A i \in 1..Len(s) : s[i].kind # "resync"

\* How far the two ends of one connection are apart: the snapshot is written
\* once, in state "built", before the peer is registered and chosen by any
\* fan-out; a link goes on only while its connection is intact.
InStep(r) ==
    /\ link[r] # "ended" => r \in intact /\ serve[r] # "closed"
    /\ link[r] \in Handshake => serve[r] = "commands"
    /\ serve[r] = "commands" => link[r] \notin {"resync", "streaming"} /\ down[r] = <<>>
    /\ serve[r] = "built" => link[r] # "streaming" /\ down[r] = <<>>
    /\ link[r] = "resync" /\ serve[r] # "built" =>
          down[r] # <<>> /\ Head(down[r]).kind = "resync" /\ NoSnapshot(Tail(down[r]))
    /\ link[r] = "streaming" => NoSnapshot(down[r])

\* Peers, and the peers a fan-out has chosen, are past the snapshot; only a
\* connection that passed the check of its password gets that far.
PeersAreServed ==
    /\ \A r \in registered : serve[r] = "acks"
    /\ \A c \in Clients : \A r \in todo[c] : serve[r] \in {"acks", "closed"}
    /\ \A r \in Replicas : serve[r] \in {"built", "sent", "acks"} => Authenticated(r)

StreamInv == StreamTypes /\ (\A r \in Replicas : InStep(r)) /\ PeersAreServed

\* In the initial state the replicas that joined have nothing to read.
LEMMA InitStreams == Init => StreamInv
<1> SUFFICES ASSUME NEW start \in Starts,
        /\ store = <<>>
        /\ todo = [c \in Clients |-> {}]
        /\ registered = start.joined
        /\ serve = [r \in Replicas |-> CASE r \in start.joined -> "acks"
                                         [] r \in start.late -> "commands"
                                         [] OTHER -> "closed"]
        /\ intact = Replicas /\ built = [r \in Replicas |-> <<>>]
        /\ down = [r \in Replicas |-> <<>>]
        /\ link = [r \in Replicas |-> CASE r \in start.joined -> "streaming"
                                        [] r \in start.late -> "ping"
                                        [] OTHER -> "ended"]
      PROVE StreamInv
  BY Zenon DEF Init
<1> USE StartsAssumption
<1>1. /\ start.joined \subseteq Replicas /\ start.joined \cap start.late = {}
      /\ \A r \in start.joined : Protected => Passwords[r] = "right"
  BY Zenon
<1>2. \A r \in Replicas :
        \/ r \in start.joined /\ serve[r] = "acks" /\ link[r] = "streaming"
        \/ r \in start.late /\ serve[r] = "commands" /\ link[r] = "ping"
        \/ r \notin start.joined /\ serve[r] = "closed" /\ link[r] = "ended"
  BY Zenon, <1>1
<1>3. StreamTypes
  BY <1>1, <1>2 DEF StreamTypes, Handshake
<1>4. \A r \in Replicas : InStep(r)
  BY <1>2 DEF InStep, Handshake, NoSnapshot
<1>5. PeersAreServed
  BY Zenon, <1>1, <1>2 DEF PeersAreServed, Authenticated
<1> QED
  BY Zenon, <1>3, <1>4, <1>5 DEF StreamInv

\* A frame at the end of a stream brings no second snapshot.
LEMMA AppendFrame ==
  ASSUME NEW s \in Seq(Items), NEW f \in Items, f.kind # "resync"
  PROVE  /\ Append(s, f) \in Seq(Items)
         /\ NoSnapshot(s) => NoSnapshot(Append(s, f))
         /\ (s # <<>> /\ Head(s).kind = "resync" /\ NoSnapshot(Tail(s))) =>
               /\ Append(s, f) # <<>> /\ Head(Append(s, f)).kind = "resync"
               /\ NoSnapshot(Tail(Append(s, f)))
  BY DEF NoSnapshot

\* The first frame of a stream.
LEMMA FirstFrame ==
  ASSUME NEW f \in Items
  PROVE  /\ Append(<<>>, f) \in Seq(Items) /\ Append(<<>>, f) # <<>>
         /\ Head(Append(<<>>, f)) = f /\ NoSnapshot(Tail(Append(<<>>, f)))
  BY DEF NoSnapshot

\* What is left of a stream without a snapshot has none.
LEMMA TakeFrame ==
  ASSUME NEW s \in Seq(Items), s # <<>>
  PROVE  Tail(s) \in Seq(Items) /\ (NoSnapshot(s) => NoSnapshot(Tail(s)))
  BY DEF NoSnapshot

\* The frames of a fan-out are items of the stream, and no snapshots.
LEMMA FramesAreItems ==
  ASSUME NEW c \in Clients
  PROVE  Frame(c) \in Items /\ Frame(c).kind # "resync"
  BY DEF Frame, WriteFrame, GetAck, Items

streamVars == <<serve, link, down, built, store, todo, registered, intact>>

\* Steps of clients: a write, its fan-out, and WAIT.
LEMMA ClientsKeepStreams ==
  ASSUME StreamInv, NEW c \in Clients,
         \/ Execute(c) \/ ExecuteUnlogged(c) \/ PickPeers(c)
         \/ AdvanceMasterOffset(c) \/ RecordWriteOffset(c)
         \/ AdvanceForGetAck(c) \/ PickPeersForGetAck(c) \/ AskedAll(c)
         \/ CountWithNotify(c) \/ Woken(c) \/ WaitTimeout(c)
         \/ \E n \in Needs, t \in {"zero", "some"} : Wait(c, n, t)
         \/ \E r \in Replicas : WriteToReplica(c, r) \/ WriteFails(c, r)
  PROVE  StreamInv'
<1> USE DEF StreamInv, PeersAreServed, Authenticated,
            storeVars, peerVars, connVars, replicaVars, clientVars
<1>1. CASE Execute(c) \/ ExecuteUnlogged(c)
  <2>1. /\ UNCHANGED <<serve, link, down, built, todo, registered, intact>>
        /\ store' = Append(store, c)
    BY Zenon, <1>1 DEF Execute, ExecuteUnlogged
  <2>2. StreamTypes'
    BY <2>1 DEF StreamTypes
  <2>3. \A r \in Replicas : InStep(r)'
    BY Zenon, <2>1 DEF InStep
  <2> QED
    BY Zenon, <2>1, <2>2, <2>3
<1>2. CASE PickPeers(c) \/ PickPeersForGetAck(c)
  <2>1. /\ UNCHANGED <<serve, link, down, built, store, registered, intact>>
        /\ todo' = [todo EXCEPT ![c] = registered]
    BY Zenon, <1>2 DEF PickPeers, PickPeersForGetAck
  <2>2. StreamTypes'
    BY Zenon, <2>1 DEF StreamTypes
  <2>3. \A r \in Replicas : InStep(r)'
    BY Zenon, <2>1 DEF InStep
  <2>4. PeersAreServed'
    BY Zenon, <2>1 DEF StreamTypes
  <2> QED
    BY Zenon, <2>2, <2>3, <2>4
<1>3. CASE \/ AdvanceMasterOffset(c) \/ RecordWriteOffset(c)
           \/ AdvanceForGetAck(c) \/ AskedAll(c)
           \/ CountWithNotify(c) \/ Woken(c) \/ WaitTimeout(c)
           \/ \E n \in Needs, t \in {"zero", "some"} : Wait(c, n, t)
  <2>1. UNCHANGED streamVars
    BY Zenon, <1>3 DEF streamVars, AdvanceMasterOffset, RecordWriteOffset,
                AdvanceForGetAck, AskedAll, CountWithNotify, Woken, WaitTimeout, Wait
  <2> QED
    BY Zenon, <2>1 DEF streamVars, StreamTypes, InStep
<1>4. ASSUME NEW r \in Replicas, WriteFails(c, r) PROVE StreamInv'
  BY <1>4 DEF WriteFails, RemovePeer, StreamTypes, InStep
<1>5. ASSUME NEW r \in Replicas, WriteToReplica(c, r) PROVE StreamInv'
  <2> USE <1>5 DEF WriteToReplica
  <2>1. serve[r] = "acks" /\ down[r] \in Seq(Items)
    BY Zenon DEF StreamTypes
  <2>2. StreamTypes'
    BY Zenon, <2>1, FramesAreItems, AppendFrame DEF StreamTypes
  <2>3. \A q \in Replicas : q # r => InStep(q)'
    BY Zenon DEF InStep, StreamTypes
  <2>4. InStep(r)'
    BY ZenonT(40), <2>1, FramesAreItems, AppendFrame DEF InStep, StreamTypes, Handshake
  <2>5. PeersAreServed'
    BY Zenon DEF StreamTypes
  <2> QED
    BY Zenon, <2>2, <2>3, <2>4, <2>5
<1> QED
  BY Zenon, <1>1, <1>2, <1>3, <1>4, <1>5

\* Steps of the connection of a replica, at the master's end.
LEMMA ServingKeepsStreams ==
  ASSUME StreamInv, NEW r \in Replicas,
         \/ PSync(r) \/ WriteResync(r) \/ RegisterReplicaPeer(r) \/ ReadAck(r)
         \/ Teardown(r)
  PROVE  StreamInv'
<1> USE DEF StreamInv, PeersAreServed, Authenticated,
            storeVars, peerVars, connVars, replicaVars, clientVars
<1>1. CASE PSync(r)
  BY <1>1 DEF PSync, StreamTypes, InStep, Handshake
<1>2. CASE WriteResync(r)
  <2> USE <1>2 DEF WriteResync
  <2>1. down[r] = <<>> /\ Resync(built[r]) \in Items /\ Resync(built[r]).kind = "resync"
    BY Zenon DEF InStep, StreamTypes, Resync, Items
  <2>2. /\ Append(down[r], Resync(built[r])) \in Seq(Items)
        /\ Append(down[r], Resync(built[r])) # <<>>
        /\ Head(Append(down[r], Resync(built[r]))) = Resync(built[r])
        /\ NoSnapshot(Tail(Append(down[r], Resync(built[r]))))
    BY ONLY Zenon, <2>1, FirstFrame
  <2>3. StreamTypes'
    BY Zenon, <2>2 DEF StreamTypes
  <2>4. \A q \in Replicas : q # r => InStep(q)'
    BY ZenonT(40) DEF InStep, StreamTypes
  <2>5. InStep(r)'
    BY Zenon, <2>1, <2>2 DEF InStep, StreamTypes, Handshake
  <2>6. PeersAreServed'
    BY Zenon DEF StreamTypes
  <2> QED
    BY Zenon, <2>3, <2>4, <2>5, <2>6
<1>3. CASE RegisterReplicaPeer(r)
  BY ZenonT(40), <1>3 DEF RegisterReplicaPeer, AddPeer, StreamTypes, InStep, Handshake
<1>4. CASE ReadAck(r)
  BY Zenon, <1>4 DEF ReadAck, UpdateAck, StreamTypes, InStep
<1>5. CASE Teardown(r)
  BY <1>5 DEF Teardown, RemovePeer, StreamTypes, InStep, Handshake
<1> QED
  BY Zenon, <1>1, <1>2, <1>3, <1>4, <1>5

\* Steps of the replica's link.
LEMMA LinkKeepsStreams ==
  ASSUME StreamInv, NEW r \in Replicas,
         \/ Ping(r) \/ Auth(r) \/ ReplConfPort(r)
         \/ ConsumeFullResync(r) \/ Apply(r) \/ ApplyFails(r) \/ Break(r)
  PROVE  StreamInv'
<1> USE DEF StreamInv, PeersAreServed, Authenticated,
            storeVars, peerVars, connVars, replicaVars, clientVars
<1>1. CASE Ping(r) \/ Auth(r) \/ ReplConfPort(r)
  <2>1. /\ link[r] \in Handshake
        /\ UNCHANGED <<serve, down, built, store, todo, registered>>
        /\ \/ \E next \in Handshake : link' = [link EXCEPT ![r] = next] /\ UNCHANGED intact
           \/ link' = [link EXCEPT ![r] = "ended"] /\ intact' = intact \ {r}
    BY Zenon, <1>1 DEF Ping, Auth, ReplConfPort, Continue, Handshake
  <2>2. StreamTypes'
    BY ZenonT(40), <2>1 DEF StreamTypes
  <2>3. \A q \in Replicas : q # r => InStep(q)'
    BY ZenonT(40), <2>1 DEF InStep, StreamTypes
  <2>4. InStep(r)'
    BY Zenon, <2>1 DEF InStep, StreamTypes, Handshake
  <2>5. PeersAreServed'
    BY Zenon, <2>1
  <2> QED
    BY Zenon, <2>2, <2>3, <2>4, <2>5
<1>2. CASE Break(r)
  BY <1>2 DEF Break, StreamTypes, InStep, Handshake
<1>3. CASE ConsumeFullResync(r) \/ Apply(r) \/ ApplyFails(r)
  <2> USE <1>3 DEF ConsumeFullResync, Apply, ApplyFails, Take
  <2>1. /\ down[r] # <<>> /\ down[r] \in Seq(Items)
        /\ down' = [down EXCEPT ![r] = Tail(@)]
    BY Zenon DEF StreamTypes
  <2>2. StreamTypes'
    BY ZenonT(40), <2>1, TakeFrame DEF StreamTypes
  <2>3. \A q \in Replicas : q # r => InStep(q)'
    <3> SUFFICES ASSUME NEW q \in Replicas, q # r PROVE InStep(q)'
      BY Zenon
    <3>1. /\ down'[q] = down[q] /\ link'[q] = link[q] /\ serve'[q] = serve[q]
          /\ q \in intact' <=> q \in intact
      BY ZenonT(40) DEF StreamTypes
    <3> QED
      BY ZenonT(40), <3>1 DEF InStep
  <2>4. InStep(r)'
    <3>1. CASE ConsumeFullResync(r)
      BY ZenonT(40), <3>1, <2>1, TakeFrame DEF InStep, StreamTypes, Handshake
    <3>2. CASE Apply(r)
      BY Zenon, <3>2, <2>1, TakeFrame DEF InStep, StreamTypes, Handshake
    <3>3. CASE ApplyFails(r)
      BY Zenon, <3>3, <2>1, TakeFrame DEF InStep, StreamTypes, Handshake
    <3> QED
      BY Zenon, <3>1, <3>2, <3>3
  <2>5. PeersAreServed'
    BY Zenon
  <2> QED
    BY Zenon, <2>2, <2>3, <2>4, <2>5
<1> QED
  BY Zenon, <1>1, <1>2, <1>3

\* Every step keeps the two ends of each connection in step.
LEMMA StepKeepsStreams == StreamInv /\ [Next]_vars => StreamInv'
<1> SUFFICES ASSUME StreamInv, [Next]_vars PROVE StreamInv'
  BY Zenon
<1>1. CASE Next
  BY Zenon, <1>1, ClientsKeepStreams, ServingKeepsStreams, LinkKeepsStreams DEF Next
<1>2. CASE UNCHANGED vars
  BY Zenon, <1>2 DEF vars, StreamInv, StreamTypes, InStep, PeersAreServed, Authenticated,
              storeVars, peerVars, connVars, replicaVars, clientVars
<1> QED
  BY Zenon, <1>1, <1>2

\* No propagated command precedes the snapshot in the stream of a replica, and
\* no second snapshot follows it (handlePSync, registerReplicaPeer).
THEOREM SnapshotComesFirst == Spec => []ResyncFirst
<1>1. StreamInv => ResyncFirst
  BY Zenon DEF StreamInv, InStep, ResyncFirst, NoSnapshot
<1> QED
  BY InitStreams, StepKeepsStreams, <1>1, PTL DEF Spec

\* A protected master registers only replicas that gave its password
\* (validateAuthContext).
THEOREM PeersAreAuthenticated == Spec => []OnlyAuthenticated
<1>1. StreamInv => OnlyAuthenticated
  BY Zenon DEF StreamInv, StreamTypes, PeersAreServed, Authenticated, OnlyAuthenticated
<1> QED
  BY InitStreams, StepKeepsStreams, <1>1, PTL DEF Spec

-----------------------------------------------------------------------------
(* WAIT.                                                                   *)

\* The types of the variables WAIT is about.
WaitTypes ==
    /\ pc \in [Clients -> {"absent", "idle", "refused", "executed", "picked",
                           "sending", "written", "ask", "asked", "asking", "counting",
                           "blocked", "answered"}]
    /\ end \in [Clients -> Nat] /\ need \in [Clients -> Nat] /\ offset \in Nat
    /\ registered \subseteq Replicas

WaitInv == WaitTypes /\ NoMissedAck

-----------------------------------------------------------------------------
(* What WAIT counts.                                                       *)

\* The types of the variables the count is about.
CountTypes ==
    /\ data \in [Replicas -> Seq(Clients \cup Replicas)]
    /\ processed \in [Replicas -> Nat] /\ acked \in [Replicas -> Nat]
    /\ up \in [Replicas -> Seq(Nat)] /\ intact \subseteq Replicas
    /\ answer \in [Clients -> SUBSET Replicas]

\* The write of a client has its offset.
Advanced(c) == pc[c] \in {"sending", "written", "ask", "asked", "asking",
                          "counting", "blocked", "answered"}

\* A replica past its snapshot, or with the snapshot in its stream.
Live(r) == link[r] = "streaming" \/ (link[r] = "resync" /\ serve[r] # "built")

\* The snapshot in front of a stream has no offset.
Ahead(r) == IF link[r] = "resync" THEN 1 ELSE 0

\* A frame whose offset is counted is still to be sent to a replica.
Owed(r) == \E c \in Clients : \/ pc[c] = "asked" /\ r \in registered
                              \/ pc[c] \in {"sending", "asking"} /\ r \in todo[c]

\* One activity at a time.
Alone ==
    /\ \A c, d \in Clients : Sending(c) /\ Sending(d) => c = d
    /\ \A c \in Clients, r \in Replicas : Sending(c) => ~Joining(r)

\* A write in progress and the offset it was given; the peers it will reach.
Numbered(c) ==
    /\ pc[c] \notin {"absent", "idle"} => c \in Range(store)
    /\ Advanced(c) => end[c] > 0
    /\ pc[c] = "sending" => end[c] = offset
    /\ pc[c] = "picked" => \A r \in Replicas : Live(r) => r \in todo[c]

\* A connection that holds is a peer's; a link before its snapshot has
\* acknowledged nothing.
Connected(r) ==
    /\ link[r] # "ended" /\ serve[r] = "acks" => r \in registered
    /\ link[r] \notin {"streaming", "ended"} => acked[r] = 0 /\ up[r] = <<>> /\ processed[r] = 0

\* What a replica has processed and will process is no more than the master's offset.
Bounded(r) ==
    Live(r) => /\ processed[r] + Len(down[r]) <= offset + Ahead(r)
               /\ Owed(r) => processed[r] + Len(down[r]) < offset + Ahead(r)

\* A numbered write is with the replica, in its stream no later than its
\* offset, or about to be sent.
Traced(c, r) ==
    /\ Live(r) => \/ link[r] = "streaming" /\ c \in Range(data[r])
                  \/ \E i \in 1..Len(down[r]) : /\ c \in Range(down[r][i].by)
                                                /\ processed[r] + i <= end[c] + Ahead(r)
                  \/ pc[c] = "sending" /\ r \in todo[c]
    /\ serve[r] = "built" => c \in Range(built[r])

\* An acknowledged offset at or above that of a write says that it is applied.
Means(n, r) ==
    n <= offset /\ \A c \in Clients : Advanced(c) /\ n >= end[c] => c \in Range(data[r])

Acknowledged(r) == Means(acked[r], r) /\ \A n \in Range(up[r]) : Means(n, r)

Counted(c, r) == r \in answer[c] => link[r] \in {"streaming", "ended"} /\ c \in Range(data[r])

InOrder ==
    /\ Alone
    /\ \A c \in Clients : Numbered(c)
    /\ \A r \in Replicas : Connected(r) /\ Bounded(r) /\ Acknowledged(r)
    /\ \A c \in Clients, r \in Replicas : (Advanced(c) => Traced(c, r)) /\ Counted(c, r)

CountInv == CountTypes /\ (overlap = "no" => InOrder)

\* What a sequence with one more element holds.
LEMMA RangeOfAppend ==
  ASSUME NEW S, NEW s \in Seq(S), NEW e \in S
  PROVE  /\ Append(s, e) \in Seq(S) /\ Len(Append(s, e)) = Len(s) + 1
         /\ Append(s, e)[Len(s) + 1] = e /\ \A i \in 1..Len(s) : Append(s, e)[i] = s[i]
         /\ Range(Append(s, e)) = Range(s) \cup {e}
<1>1. /\ Append(s, e) \in Seq(S) /\ Len(Append(s, e)) = Len(s) + 1 /\ Len(s) \in Nat
      /\ Append(s, e)[Len(s) + 1] = e /\ \A i \in 1..Len(s) : Append(s, e)[i] = s[i]
      /\ DOMAIN s = 1..Len(s) /\ DOMAIN Append(s, e) = 1..(Len(s) + 1)
  OBVIOUS
<1>2. 1..(Len(s) + 1) = 1..Len(s) \cup {Len(s) + 1}
  BY <1>1
<1> QED
  BY <1>1, <1>2 DEF Range

\* What two sequences hold together.
LEMMA RangeOfJoin ==
  ASSUME NEW S, NEW s \in Seq(S), NEW t \in Seq(S)
  PROVE  s \o t \in Seq(S) /\ Range(s \o t) = Range(s) \cup Range(t)
<1>1. /\ s \o t \in Seq(S) /\ Len(s \o t) = Len(s) + Len(t) /\ Len(s) \in Nat /\ Len(t) \in Nat
      /\ \A i \in 1..Len(s) + Len(t) : (s \o t)[i] = IF i <= Len(s) THEN s[i] ELSE t[i - Len(s)]
      /\ DOMAIN s = 1..Len(s) /\ DOMAIN t = 1..Len(t) /\ DOMAIN (s \o t) = 1..Len(s) + Len(t)
  OBVIOUS
<1>2. \A i \in 1..Len(s) : i \in 1..Len(s) + Len(t) /\ (s \o t)[i] = s[i]
  BY <1>1
<1>3. \A i \in 1..Len(t) : Len(s) + i \in 1..Len(s) + Len(t) /\ (s \o t)[Len(s) + i] = t[i]
  BY <1>1
<1>4. \A i \in 1..Len(s) + Len(t) :
         \/ i \in 1..Len(s) /\ (s \o t)[i] = s[i]
         \/ i - Len(s) \in 1..Len(t) /\ (s \o t)[i] = t[i - Len(s)]
  BY <1>1
<1>5. Range(s \o t) \subseteq Range(s) \cup Range(t)
  BY ONLY Zenon, <1>1, <1>4 DEF Range
<1>6. Range(s) \subseteq Range(s \o t)
  BY ONLY Zenon, <1>1, <1>2 DEF Range
<1>7. Range(t) \subseteq Range(s \o t)
  <2>1. \A i \in DOMAIN t : \E j \in DOMAIN (s \o t) : t[i] = (s \o t)[j]
    <3> TAKE i \in DOMAIN t
    <3>1. i \in 1..Len(t)
      BY ONLY Zenon, <1>1
    <3>2. Len(s) + i \in DOMAIN (s \o t) /\ (s \o t)[Len(s) + i] = t[i]
      BY ONLY Zenon, <1>1, <1>3, <3>1
    <3> QED
      BY ONLY Zenon, <3>2
  <2> QED
    BY ONLY Zenon, <2>1 DEF Range
<1> QED
  BY ONLY Zenon, <1>1, <1>5, <1>6, <1>7

\* The rest of a sequence, and what it holds.
LEMMA RangeOfTail ==
  ASSUME NEW S, NEW s \in Seq(S), s # <<>>
  PROVE  /\ Head(s) \in S /\ Head(s) = s[1] /\ Tail(s) \in Seq(S)
         /\ Len(s) \in Nat /\ Len(s) > 0 /\ Len(Tail(s)) = Len(s) - 1
         /\ \A i \in 1..Len(Tail(s)) : Tail(s)[i] = s[i + 1]
         /\ Head(s) \in Range(s) /\ Range(Tail(s)) \subseteq Range(s)
<1>1. /\ Head(s) \in S /\ Head(s) = s[1] /\ Tail(s) \in Seq(S) /\ Len(Tail(s)) = Len(s) - 1
      /\ \A i \in 1..Len(Tail(s)) : Tail(s)[i] = s[i + 1]
      /\ Len(s) \in Nat /\ Len(s) > 0 /\ DOMAIN s = 1..Len(s) /\ DOMAIN Tail(s) = 1..Len(s) - 1
  OBVIOUS
<1>2. 1 \in 1..Len(s) /\ \A i \in 1..Len(s) - 1 : i + 1 \in 1..Len(s)
  BY <1>1
<1> QED
  BY <1>1, <1>2 DEF Range

\* Every step keeps the types.
LEMMA StepKeepsCountTypes ==
  ASSUME StreamInv, WaitInv, CountTypes, Next
  PROVE  CountTypes'
<1> USE DEF storeVars, peerVars, connVars, replicaVars, clientVars
<1>a. acked \in [Replicas -> Nat]
  BY Zenon DEF CountTypes
<1>b. processed \in [Replicas -> Nat]
  BY Zenon DEF CountTypes
<1>c. up \in [Replicas -> Seq(Nat)]
  BY Zenon DEF CountTypes
<1>d. data \in [Replicas -> Seq(Clients \cup Replicas)]
  BY Zenon DEF CountTypes
<1>e. intact \subseteq Replicas /\ answer \in [Clients -> SUBSET Replicas]
  BY Zenon DEF CountTypes
<1>1. ASSUME NEW c \in Clients,
             \/ Execute(c) \/ ExecuteUnlogged(c) \/ PickPeers(c)
             \/ AdvanceMasterOffset(c) \/ RecordWriteOffset(c)
             \/ AdvanceForGetAck(c) \/ PickPeersForGetAck(c) \/ AskedAll(c)
             \/ \E r \in Replicas : WriteToReplica(c, r) \/ WriteFails(c, r)
      PROVE  CountTypes'
  <2>1. UNCHANGED <<data, processed, acked, up, intact, answer>>
    BY Zenon, <1>1 DEF Execute, ExecuteUnlogged, PickPeers, AdvanceMasterOffset, RecordWriteOffset,
                AdvanceForGetAck, PickPeersForGetAck, AskedAll, WriteToReplica, WriteFails,
                RemovePeer
  <2> QED
    BY Zenon, <2>1 DEF CountTypes
<1>2. ASSUME NEW c \in Clients,
             \/ CountWithNotify(c) \/ Woken(c) \/ WaitTimeout(c)
             \/ \E n \in Needs, t \in {"zero", "some"} : Wait(c, n, t)
      PROVE  CountTypes'
  <2>1. /\ UNCHANGED <<data, processed, acked, up, intact>>
        /\ answer' = answer \/ answer' = [answer EXCEPT ![c] = AtOrAbove(end[c])]
    BY Zenon, <1>2 DEF CountWithNotify, Woken, WaitTimeout, Wait, Answer
  <2>2. AtOrAbove(end[c]) \subseteq Replicas
    BY Zenon DEF AtOrAbove, StreamInv, StreamTypes
  <2>3. answer' \in [Clients -> SUBSET Replicas]
    BY Zenon, <1>e, <2>1, <2>2
  <2> QED
    BY Zenon, <2>1, <2>3 DEF CountTypes
<1>3. ASSUME NEW r \in Replicas,
             \/ Ping(r) \/ Auth(r) \/ ReplConfPort(r) \/ PSync(r)
             \/ WriteResync(r) \/ RegisterReplicaPeer(r) \/ Break(r) \/ ApplyFails(r)
      PROVE  CountTypes'
  <2>1. /\ UNCHANGED <<data, up, answer>> /\ intact' \subseteq intact
        /\ acked' = acked \/ acked' = [acked EXCEPT ![r] = 0]
        /\ processed' = processed \/ processed' = [processed EXCEPT ![r] = @ + 1]
    BY Zenon, <1>3 DEF Ping, Auth, ReplConfPort, Continue, PSync, WriteResync, RegisterReplicaPeer,
                AddPeer, Break, ApplyFails, AdvanceReplicaOffset
  <2>2. acked' \in [Replicas -> Nat]
    BY <1>a, <2>1
  <2>3. processed' \in [Replicas -> Nat]
    BY <1>b, <2>1
  <2> QED
    BY Zenon, <2>1, <2>2, <2>3 DEF CountTypes
<1>4. ASSUME NEW r \in Replicas, ReadAck(r) \/ Teardown(r) PROVE CountTypes'
  <2>1. /\ UNCHANGED <<data, processed, answer, intact>>
        /\ \/ up[r] # <<>> /\ up' = [up EXCEPT ![r] = Tail(@)]
           \/ up' = [up EXCEPT ![r] = <<>>]
        /\ acked' = acked \/ (up[r] # <<>> /\ acked' = [acked EXCEPT ![r] = Head(up[r])])
    BY Zenon, <1>4 DEF ReadAck, UpdateAck, Teardown, RemovePeer
  <2>2. up[r] # <<>> => Head(up[r]) \in Nat /\ Tail(up[r]) \in Seq(Nat)
    BY Zenon, <1>c, RangeOfTail
  <2>3. acked' \in [Replicas -> Nat]
    BY Zenon, <1>a, <2>1, <2>2
  <2>4. up' \in [Replicas -> Seq(Nat)]
    <3>1. CASE up' = [up EXCEPT ![r] = <<>>]
      BY <1>c, <3>1
    <3>2. CASE up[r] # <<>> /\ up' = [up EXCEPT ![r] = Tail(@)]
      BY Zenon, <1>c, <2>2, <3>2
    <3> QED
      BY Zenon, <2>1, <3>1, <3>2
  <2> QED
    BY Zenon, <2>1, <2>3, <2>4 DEF CountTypes
<1>5. ASSUME NEW r \in Replicas, ConsumeFullResync(r) \/ Apply(r) PROVE CountTypes'
  <2>1. down[r] # <<>> /\ down[r] \in Seq(Items)
    BY Zenon, <1>5 DEF ConsumeFullResync, Apply, StreamInv, StreamTypes
  <2>2. Head(down[r]).by \in Seq(Clients)
    <3>1. Head(down[r]) \in Items
      BY Zenon, <2>1, RangeOfTail
    <3> QED
      BY Zenon, <3>1 DEF Items
  <2>3. Head(down[r]).by \in Seq(Clients \cup Replicas)
    BY <2>2
  <2>4. data[r] \o Head(down[r]).by \in Seq(Clients \cup Replicas)
    BY Zenon, <1>d, <2>3, RangeOfJoin
  <2>5. CASE ConsumeFullResync(r)
    <3>1. data' \in [Replicas -> Seq(Clients \cup Replicas)]
      BY Zenon, <1>d, <2>5, <2>3 DEF ConsumeFullResync
    <3>2. intact' \subseteq intact /\ UNCHANGED <<acked, processed, up, answer>>
      BY Zenon, <2>5 DEF ConsumeFullResync
    <3> QED
      BY Zenon, <3>1, <3>2 DEF CountTypes
  <2>6. CASE Apply(r)
    <3>1. processed' \in [Replicas -> Nat]
      BY <1>b, <2>6 DEF Apply, AdvanceReplicaOffset
    <3>2. Append(up[r], processed'[r]) \in Seq(Nat)
      BY Zenon, <1>c, <3>1, RangeOfAppend
    <3>3. (IF Head(down[r]).kind = "getack" /\ r \in intact
           THEN Append(up[r], processed'[r]) ELSE up[r]) \in Seq(Nat)
      BY Zenon, <1>c, <3>2
    <3>4. up' \in [Replicas -> Seq(Nat)]
      BY Zenon, <1>c, <2>6, <3>3 DEF Apply
    <3>5. data' \in [Replicas -> Seq(Clients \cup Replicas)]
      BY Zenon, <1>d, <2>6, <2>4 DEF Apply
    <3>6. UNCHANGED <<acked, intact, answer>>
      BY Zenon, <2>6 DEF Apply
    <3> QED
      BY Zenon, <3>1, <3>4, <3>5, <3>6 DEF CountTypes
  <2> QED
    BY Zenon, <1>5, <2>5, <2>6
<1> QED
  BY Zenon, <1>1, <1>2, <1>3, <1>4, <1>5 DEF Next

countVars == <<link, serve, built, down, data, processed, acked, up, registered>>

\* A step that gives no write an offset and sends nothing keeps what is said of
\* streams and acknowledgements.
LEMMA SendsNothing ==
  ASSUME InOrder, UNCHANGED countVars, offset' = offset,
         \A c \in Clients : Advanced(c)' => Advanced(c) /\ end'[c] = end[c],
         \A r \in Replicas : Owed(r)' => Owed(r),
         \A c \in Clients, r \in Replicas :
            pc[c] = "sending" /\ r \in todo[c] => pc'[c] = "sending" /\ r \in todo'[c]
  PROVE  /\ \A r \in Replicas : Connected(r)' /\ Bounded(r)' /\ Acknowledged(r)'
         /\ \A c \in Clients, r \in Replicas : Advanced(c)' => Traced(c, r)'
<1> USE DEF countVars
<1>1. \A r : (Live(r)' <=> Live(r)) /\ Ahead(r)' = Ahead(r)
  BY Zenon DEF Live, Ahead
<1>2. \A r \in Replicas : Connected(r)' /\ Bounded(r)'
  BY Zenon, <1>1 DEF InOrder, Connected, Bounded
<1>3. \A r \in Replicas : Acknowledged(r)'
  BY Zenon DEF InOrder, Acknowledged, Means
<1>4. \A c \in Clients, r \in Replicas : Advanced(c)' => Traced(c, r)'
  BY Zenon, <1>1 DEF InOrder, Traced
<1> QED
  BY Zenon, <1>2, <1>3, <1>4

\* Steps of WAIT that count or sleep: what is counted has been applied.
LEMMA CountingKeepsOrder ==
  ASSUME StreamInv, WaitInv, CountTypes, InOrder, NEW c \in Clients,
         \/ CountWithNotify(c) \/ Woken(c) \/ WaitTimeout(c)
         \/ \E n \in Needs, t \in {"zero", "some"} : Wait(c, n, t)
  PROVE  InOrder'
<1> USE DEF storeVars, peerVars, connVars, replicaVars, clientVars
<1> DEFINE Idle == {"written", "counting", "blocked", "ask", "answered"}
<1>1. /\ UNCHANGED <<countVars, offset, todo, end, store>>
      /\ pc[c] \in Idle
      /\ \E p \in Idle : pc' = [pc EXCEPT ![c] = p]
      /\ answer' = answer \/ answer' = [answer EXCEPT ![c] = AtOrAbove(end[c])]
  BY Zenon DEF CountWithNotify, Woken, WaitTimeout, Wait, Answer, countVars
<1>2. /\ pc'[c] \in Idle /\ \A d \in Clients : d # c => pc'[d] = pc[d]
  BY Zenon, <1>1 DEF WaitInv, WaitTypes
<1>3. /\ \A d \in Clients : (Sending(d)' <=> Sending(d)) /\ (Advanced(d)' <=> Advanced(d))
      /\ \A d \in Clients : \A s \in {"sending", "asked", "asking", "picked", "idle", "absent"} :
            pc'[d] = s <=> pc[d] = s
  BY Zenon, <1>1, <1>2 DEF Sending, Advanced
<1>4. Alone'
  BY Zenon, <1>1, <1>3 DEF InOrder, Alone, Joining, countVars
<1>5. \A d \in Clients : Numbered(d)'
  BY Zenon, <1>1, <1>3 DEF InOrder, Numbered, Live, countVars
<1>6. \A r \in Replicas : Owed(r)' => Owed(r)
  BY Zenon, <1>1, <1>3 DEF Owed, countVars
<1>7. /\ \A r \in Replicas : Connected(r)' /\ Bounded(r)' /\ Acknowledged(r)'
      /\ \A d \in Clients, r \in Replicas : Advanced(d)' => Traced(d, r)'
  BY Zenon, <1>1, <1>3, <1>6, SendsNothing
<1>8. \A r \in AtOrAbove(end[c]) : link[r] \in {"streaming", "ended"} /\ c \in Range(data[r])
  <2> SUFFICES ASSUME NEW r \in AtOrAbove(end[c])
               PROVE  link[r] \in {"streaming", "ended"} /\ c \in Range(data[r])
    BY Zenon
  <2>1. r \in Replicas /\ acked[r] >= end[c]
    BY Zenon DEF AtOrAbove, StreamInv, StreamTypes
  <2>2. Advanced(c)
    BY Zenon, <1>1 DEF Advanced
  <2>3. end[c] > 0 /\ end[c] \in Nat /\ acked[r] \in Nat
    BY Zenon, <2>1, <2>2 DEF InOrder, Numbered, WaitInv, WaitTypes, CountTypes
  <2>4. acked[r] # 0
    BY <2>1, <2>3
  <2> QED
    BY Zenon, <2>1, <2>2, <2>4 DEF InOrder, Connected, Acknowledged, Means
<1>9. \A d \in Clients, r \in Replicas : Counted(d, r)'
  <2> SUFFICES ASSUME NEW d \in Clients, NEW r \in Replicas, r \in answer'[d]
               PROVE  link[r] \in {"streaming", "ended"} /\ d \in Range(data[r])
    BY Zenon, <1>1 DEF Counted, countVars
  <2>1. r \in answer[d] \/ (d = c /\ r \in AtOrAbove(end[c]))
    BY Zenon, <1>1 DEF CountTypes
  <2> QED
    BY Zenon, <1>8, <2>1 DEF InOrder, Counted
<1> QED
  BY Zenon, <1>4, <1>5, <1>7, <1>9 DEF InOrder

\* Steps of a write before its offset, and the ends of fan-outs.
LEMMA WritesKeepOrder ==
  ASSUME StreamInv, WaitInv, CountTypes, InOrder, overlap' = "no", NEW c \in Clients,
         \/ Execute(c) \/ PickPeers(c) \/ RecordWriteOffset(c)
         \/ PickPeersForGetAck(c) \/ AskedAll(c)
  PROVE  InOrder'
<1> USE DEF storeVars, peerVars, connVars, replicaVars, clientVars
<1>1. UNCHANGED <<countVars, offset, end, answer>>
  BY Zenon DEF Execute, PickPeers, RecordWriteOffset, PickPeersForGetAck, AskedAll, countVars
<1>2. \A d \in Clients, r \in Replicas : Counted(d, r)'
  BY Zenon, <1>1 DEF InOrder, Counted, countVars
<1>3. \A d \in Clients : d # c => pc'[d] = pc[d] /\ todo'[d] = todo[d]
  BY Zenon DEF Execute, PickPeers, RecordWriteOffset, PickPeersForGetAck, AskedAll,
         WaitInv, WaitTypes, StreamInv, StreamTypes
<1>4. \A r : (Live(r)' <=> Live(r)) /\ (Joining(r)' <=> Joining(r))
  BY Zenon, <1>1 DEF Live, Joining, countVars
<1>5. \/ /\ pc[c] = "idle" /\ pc'[c] = "executed" /\ todo' = todo /\ store' = Append(store, c)
         /\ \A d \in Clients : ~Sending(d)
         /\ \A r \in Replicas : ~Joining(r)
      \/ pc[c] = "executed" /\ pc'[c] = "picked" /\ todo'[c] = registered /\ store' = store
      \/ pc[c] = "sending" /\ todo[c] = {} /\ pc'[c] = "written" /\ todo' = todo /\ store' = store
      \/ pc[c] = "asked" /\ pc'[c] = "asking" /\ todo'[c] = registered /\ store' = store
      \/ pc[c] = "asking" /\ todo[c] = {} /\ pc'[c] = "counting" /\ todo' = todo /\ store' = store
  <2> USE DEF WaitInv, WaitTypes, StreamInv, StreamTypes
  <2>1. CASE Execute(c)
    BY Zenon, <2>1 DEF Execute, MarkOverlap, SomeSending, SomeJoining
  <2>2. CASE PickPeers(c) \/ PickPeersForGetAck(c)
    BY Zenon, <2>2 DEF PickPeers, PickPeersForGetAck
  <2>3. CASE RecordWriteOffset(c) \/ AskedAll(c)
    BY Zenon, <2>3 DEF RecordWriteOffset, AskedAll
  <2> QED
    BY Zenon, <2>1, <2>2, <2>3
<1>6. \A d \in Clients : Advanced(d)' <=> Advanced(d)
  BY Zenon, <1>3, <1>5 DEF Advanced
<1>7. \A r \in Replicas : Owed(r)' => Owed(r)
  BY Zenon, <1>1, <1>3, <1>5 DEF Owed, countVars
<1>8. \A d \in Clients, r \in Replicas :
         pc[d] = "sending" /\ r \in todo[d] => pc'[d] = "sending" /\ r \in todo'[d]
  BY Zenon, <1>3, <1>5
<1>9. /\ \A r \in Replicas : Connected(r)' /\ Bounded(r)' /\ Acknowledged(r)'
      /\ \A d \in Clients, r \in Replicas : Advanced(d)' => Traced(d, r)'
  BY Zenon, <1>1, <1>6, <1>7, <1>8, SendsNothing
<1>10. Alone'
  <2>1. CASE pc[c] = "idle"
    BY Zenon, <1>3, <1>4, <1>5, <2>1 DEF Alone, Sending
  <2>2. CASE pc[c] # "idle"
    <3>1. \A d \in Clients : Sending(d)' => Sending(d)
      BY Zenon, <1>3, <1>5, <2>2 DEF Sending
    <3> QED
      BY Zenon, <3>1, <1>4 DEF InOrder, Alone
  <2> QED
    BY Zenon, <2>1, <2>2
<1>11. Range(store) \subseteq Range(store') /\ (pc[c] = "idle" => c \in Range(store'))
  <2>1. Range(Append(store, c)) = Range(store) \cup {c}
    BY RangeOfAppend DEF StreamInv, StreamTypes
  <2> QED
    BY Zenon, <1>5, <2>1
<1>12. \A d \in Clients : Numbered(d)'
  <2>1. \A d \in Clients : d # c => Numbered(d)'
    BY Zenon, <1>1, <1>3, <1>4, <1>6, <1>11 DEF InOrder, Numbered
  <2>2. pc'[c] = "picked" => \A r \in Replicas : Live(r) => r \in registered
    <3> SUFFICES ASSUME pc'[c] = "picked", NEW r \in Replicas, Live(r) PROVE r \in registered
      BY Zenon
    <3>1. pc[c] = "executed"
      BY Zenon, <1>5
    <3>2. ~Joining(r)
      BY Zenon, <3>1 DEF InOrder, Alone, Sending
    <3>3. link[r] # "ended" /\ serve[r] = "acks"
      BY Zenon, <3>2 DEF Live, Joining, StreamInv, StreamTypes, InStep, Handshake
    <3> QED
      BY Zenon, <3>3 DEF InOrder, Connected
  <2>3. Numbered(c)'
    BY Zenon, <1>1, <1>4, <1>5, <1>6, <1>11, <2>2 DEF InOrder, Numbered
  <2> QED
    BY Zenon, <2>1, <2>3
<1> QED
  BY Zenon, <1>2, <1>9, <1>10, <1>12 DEF InOrder

\* A new offset is above every acknowledged one, and the write that gets it is
\* about to be sent to every replica; a GETACK likewise.
LEMMA OffsetsKeepOrder ==
  ASSUME StreamInv, WaitInv, CountTypes, InOrder, overlap' = "no", NEW c \in Clients,
         AdvanceMasterOffset(c) \/ AdvanceForGetAck(c)
  PROVE  InOrder'
<1> USE DEF storeVars, peerVars, connVars, replicaVars, clientVars
<1>1. UNCHANGED <<countVars, todo, answer, store>> /\ offset' = offset + 1
  BY Zenon DEF AdvanceMasterOffset, AdvanceForGetAck, countVars
<1>2. \/ /\ pc[c] = "picked" /\ pc'[c] = "sending" /\ end'[c] = offset + 1
         /\ \A d \in Clients : d # c => end'[d] = end[d]
      \/ /\ pc[c] = "ask" /\ pc'[c] = "asked" /\ end' = end
         /\ \A d \in Clients : ~Sending(d)
         /\ \A r \in Replicas : ~Joining(r)
  BY Zenon DEF AdvanceMasterOffset, AdvanceForGetAck, MarkOverlap, SomeSending, SomeJoining,
         WaitInv, WaitTypes
<1>3. \A d \in Clients : d # c => pc'[d] = pc[d] /\ end'[d] = end[d]
  BY Zenon DEF AdvanceMasterOffset, AdvanceForGetAck, WaitInv, WaitTypes
<1>4. offset \in Nat /\ end \in [Clients -> Nat]
  BY Zenon DEF WaitInv, WaitTypes
<1>5. \A r : /\ Live(r)' <=> Live(r)
             /\ Joining(r)' <=> Joining(r)
             /\ Ahead(r)' = Ahead(r)
  BY Zenon, <1>1 DEF Live, Joining, Ahead, countVars
<1>6. Alone'
  BY Zenon, <1>2, <1>3, <1>5 DEF InOrder, Alone, Sending
<1>7. \A d \in Clients : d # c => pc[d] \notin {"sending", "picked"}
  BY Zenon, <1>2 DEF InOrder, Alone, Sending
<1>8. \A d \in Clients : Advanced(d)' <=> Advanced(d) \/ d = c
  BY Zenon, <1>2, <1>3 DEF Advanced
<1>9. \A d \in Clients : Numbered(d)'
  <2>1. \A d \in Clients : d # c => Numbered(d)'
    BY Zenon, <1>1, <1>3, <1>7, <1>8 DEF InOrder, Numbered
  <2>2. Numbered(c)'
    <3>1. end'[c] > 0
      BY <1>2, <1>4 DEF InOrder, Numbered, Advanced
    <3> QED
      BY Zenon, <1>1, <1>2, <3>1 DEF InOrder, Numbered
  <2> QED
    BY Zenon, <2>1, <2>2
<1>10. \A r \in Replicas : Connected(r)'
  BY Zenon, <1>1 DEF InOrder, Connected, countVars
<1>11. \A r \in Replicas : Bounded(r)'
  <2> SUFFICES ASSUME NEW r \in Replicas, Live(r)
               PROVE  processed[r] + Len(down[r]) < offset + 1 + Ahead(r)
    BY SMTT(40), <1>1, <1>4, <1>5 DEF Bounded, countVars, Ahead, CountTypes, StreamInv, StreamTypes
  <2>1. processed[r] \in Nat /\ Len(down[r]) \in Nat /\ Ahead(r) \in Nat
    BY DEF CountTypes, StreamInv, StreamTypes, Ahead
  <2>2. processed[r] + Len(down[r]) <= offset + Ahead(r)
    BY Zenon DEF InOrder, Bounded
  <2> QED
    BY SMTT(40), <1>4, <2>1, <2>2
<1>12. \A n \in Nat, r \in Replicas : Means(n, r) => Means(n, r)'
  <2> SUFFICES ASSUME NEW n \in Nat, NEW r \in Replicas, Means(n, r) PROVE Means(n, r)'
    BY Zenon
  <2>1. n <= offset' /\ ~(n >= offset + 1)
    BY <1>1, <1>4 DEF Means
  <2>2. ASSUME NEW d \in Clients, Advanced(d)', n >= end'[d] PROVE d \in Range(data[r])
    <3>1. Advanced(d) /\ end'[d] = end[d]
      BY Zenon, <1>2, <1>3, <1>8, <2>1, <2>2 DEF Advanced
    <3> QED
      BY Zenon, <2>2, <3>1 DEF Means
  <2> QED
    BY Zenon, <1>1, <2>1, <2>2 DEF Means, countVars
<1>13. \A r \in Replicas : Acknowledged(r)'
  <2> SUFFICES ASSUME NEW r \in Replicas PROVE Acknowledged(r)'
    BY Zenon
  <2>1. acked[r] \in Nat /\ Range(up[r]) \subseteq Nat
    BY DEF CountTypes, Range
  <2>2. acked'[r] = acked[r] /\ up'[r] = up[r]
    BY Zenon, <1>1 DEF countVars
  <2> QED
    BY Zenon, <1>12, <2>1, <2>2 DEF InOrder, Acknowledged
<1>14. \A d \in Clients, r \in Replicas : Advanced(d)' => Traced(d, r)'
  <2> SUFFICES ASSUME NEW d \in Clients, NEW r \in Replicas, Advanced(d)' PROVE Traced(d, r)'
    BY Zenon
  <2>1. CASE Advanced(d) /\ end'[d] = end[d]
    <3>1. pc[d] = "sending" => pc'[d] = "sending"
      BY Zenon, <1>2, <1>3
    <3> QED
      BY Zenon, <1>1, <1>5, <2>1, <3>1 DEF InOrder, Traced, countVars
  <2>2. CASE d = c /\ pc[c] = "picked"
    <3>1. Live(r) => r \in todo[c]
      BY Zenon, <2>2 DEF InOrder, Numbered
    <3>2. serve[r] # "built"
      BY Zenon, <2>2 DEF InOrder, Alone, Sending, Joining
    <3> QED
      BY Zenon, <1>1, <1>2, <1>5, <2>2, <3>1, <3>2 DEF Traced, countVars
  <2> QED
    BY Zenon, <1>2, <1>3, <1>8, <2>1, <2>2 DEF Advanced
<1>15. \A d \in Clients, r \in Replicas : Counted(d, r)'
  BY Zenon, <1>1 DEF InOrder, Counted, countVars
<1> QED
  BY Zenon, <1>6, <1>9, <1>10, <1>11, <1>13, <1>14, <1>15 DEF InOrder

\* A frame that reaches the stream of a replica is where its offset says.
LEMMA SendingKeepsOrder ==
  ASSUME StreamInv, WaitInv, CountTypes, InOrder, NEW c \in Clients, NEW r \in Replicas,
         WriteToReplica(c, r)
  PROVE  InOrder'
<1> USE DEF storeVars, peerVars, connVars, replicaVars, clientVars
<1>1. /\ UNCHANGED <<link, serve, built, data, processed, acked, up, registered, offset,
                     pc, end, store, answer, intact>>
      /\ pc[c] \in {"sending", "asking"} /\ r \in todo[c]
  BY Zenon DEF WriteToReplica
<1>2. /\ r \notin todo'[c] /\ todo'[c] \subseteq todo[c]
      /\ \A q \in Replicas : q # r => (q \in todo'[c] <=> q \in todo[c])
      /\ \A d \in Clients : d # c => todo'[d] = todo[d]
  BY Zenon DEF WriteToReplica, StreamInv, StreamTypes
<1>3. \A q : /\ Live(q)' <=> Live(q)
             /\ Joining(q)' <=> Joining(q)
             /\ Ahead(q)' = Ahead(q)
  BY Zenon, <1>1 DEF Live, Joining, Ahead
<1>4. \A d : (Advanced(d)' <=> Advanced(d)) /\ (Sending(d)' <=> Sending(d))
  BY Zenon, <1>1 DEF Advanced, Sending
<1>5. /\ \A q \in Replicas : q # r => down'[q] = down[q]
      /\ Live(r) => down'[r] = Append(down[r], Frame(c))
  BY Zenon DEF WriteToReplica, StreamInv, StreamTypes, InStep, Live
<1>6. /\ down[r] \in Seq(Items) /\ Frame(c) \in Items
      /\ (pc[c] = "sending" => c \in Range(Frame(c).by))
  <2>1. c \in Range(<<c>>)
    BY SMTT(40) DEF Range
  <2> QED
    BY Zenon, <2>1, FramesAreItems DEF StreamInv, StreamTypes, Frame, WriteFrame
<1>7. /\ Len(down[r]) \in Nat /\ Len(Append(down[r], Frame(c))) = Len(down[r]) + 1
      /\ Append(down[r], Frame(c))[Len(down[r]) + 1] = Frame(c)
      /\ \A i \in 1..Len(down[r]) : Append(down[r], Frame(c))[i] = down[r][i]
  BY <1>6, RangeOfAppend
<1>8. /\ Owed(r) /\ ~Owed(r)'
      /\ \A q \in Replicas : Owed(q)' => Owed(q)
  <2>1. \A d \in Clients : pc[d] \in {"sending", "asking", "asked"} => d = c
    BY Zenon, <1>1 DEF InOrder, Alone, Sending
  <2> QED
    BY Zenon, <1>1, <1>2, <2>1 DEF Owed
<1>9. Alone'
  BY Zenon, <1>3, <1>4 DEF InOrder, Alone
<1>10. \A d \in Clients : Numbered(d)'
  BY Zenon, <1>1, <1>2, <1>3, <1>4 DEF InOrder, Numbered
<1>11. \A q \in Replicas : Connected(q)' /\ Acknowledged(q)'
  BY Zenon, <1>1, <1>4 DEF InOrder, Connected, Acknowledged, Means
<1>12. \A q \in Replicas : q # r => Bounded(q)'
  BY Zenon, <1>1, <1>3, <1>5, <1>8 DEF InOrder, Bounded
<1>13. processed[r] \in Nat /\ Ahead(r) \in Nat /\ offset \in Nat
  BY Zenon DEF CountTypes, WaitInv, WaitTypes, Ahead
<1>14. Live(r) => processed[r] + Len(down[r]) + 1 <= offset + Ahead(r)
  <2>1. Live(r) => processed[r] + Len(down[r]) < offset + Ahead(r)
    BY Zenon, <1>8 DEF InOrder, Bounded
  <2> QED
    BY <1>7, <1>13, <2>1
<1>15. Bounded(r)'
  <2>1. Live(r) => processed'[r] + Len(down'[r]) <= offset' + Ahead(r)'
    BY SMTT(40), <1>1, <1>3, <1>5, <1>7, <1>13, <1>14
  <2> QED
    BY Zenon, <1>3, <1>8, <2>1 DEF Bounded
<1>16. \A d \in Clients, q \in Replicas : Advanced(d) /\ q # r => Traced(d, q)'
  BY ZenonT(40), <1>1, <1>2, <1>3, <1>5 DEF InOrder, Traced
<1>17. \A d \in Clients : Advanced(d) => Traced(d, r)'
  <2> SUFFICES ASSUME NEW d \in Clients, Advanced(d) PROVE Traced(d, r)'
    BY Zenon
  <2>1. Traced(d, r)
    BY Zenon DEF InOrder
  <2>2. CASE ~Live(r)
    BY Zenon, <1>1, <1>3, <2>1, <2>2 DEF Traced
  <2>3. CASE Live(r) /\ pc[d] = "sending" /\ r \in todo[d]
    <3>1. d = c
      BY Zenon, <1>1, <2>3 DEF InOrder, Alone, Sending
    <3>2. end[c] = offset
      BY Zenon, <2>3, <3>1 DEF InOrder, Numbered
    <3>3. /\ Len(down[r]) + 1 \in 1..Len(down'[r])
          /\ processed[r] + (Len(down[r]) + 1) <= end[c] + Ahead(r)
      BY SMTT(40), <1>5, <1>7, <1>13, <1>14, <2>3, <3>2
    <3>4. c \in Range(down'[r][Len(down[r]) + 1].by)
      BY Zenon, <1>5, <1>6, <1>7, <2>3, <3>1
    <3> QED
      BY Zenon, <1>1, <1>3, <2>1, <3>1, <3>3, <3>4 DEF Traced
  <2>4. ASSUME Live(r), NEW i \in 1..Len(down[r]), d \in Range(down[r][i].by),
               processed[r] + i <= end[d] + Ahead(r)
        PROVE  Traced(d, r)'
    <3>1. i \in 1..Len(down'[r]) /\ down'[r][i] = down[r][i]
      BY SMTT(40), <1>5, <1>7, <2>4
    <3> QED
      BY Zenon, <1>1, <1>3, <2>1, <2>4, <3>1 DEF Traced
  <2>5. CASE link[r] = "streaming" /\ d \in Range(data[r])
    BY Zenon, <1>1, <1>3, <2>1, <2>5 DEF Traced
  <2> QED
    BY Zenon, <2>1, <2>2, <2>3, <2>4, <2>5 DEF Traced
<1>18. \A d \in Clients, q \in Replicas : Counted(d, q)'
  BY Zenon, <1>1 DEF InOrder, Counted
<1> QED
  BY Zenon, <1>4, <1>9, <1>10, <1>11, <1>12, <1>15, <1>16, <1>17, <1>18 DEF InOrder

\* A peer that cannot be written to, and a connection that is torn down or
\* refused, have no link any more.
LEMMA EndingKeepsOrder ==
  ASSUME StreamInv, WaitInv, CountTypes, InOrder, NEW r \in Replicas,
         \/ \E c \in Clients : WriteFails(c, r)
         \/ Teardown(r) \/ ApplyFails(r) \/ Break(r)
         \/ Ping(r) \/ Auth(r) \/ ReplConfPort(r)
  PROVE  InOrder'
<1> USE DEF storeVars, peerVars, connVars, replicaVars, clientVars
<1>1. UNCHANGED <<offset, end, store, answer, data, built, acked, pc>>
  BY Zenon DEF WriteFails, Teardown, ApplyFails, Break, Ping, Auth, ReplConfPort, Continue, RemovePeer
<1>2. /\ registered' \subseteq registered
      /\ \A q \in Replicas : q # r =>
            /\ link'[q] = link[q] /\ serve'[q] = serve[q] /\ down'[q] = down[q]
            /\ processed'[q] = processed[q] /\ up'[q] = up[q]
            /\ q \in registered' <=> q \in registered
  <2> USE DEF StreamInv, StreamTypes, CountTypes
  <2>1. CASE \E c \in Clients : WriteFails(c, r)
    BY ZenonT(40), <2>1 DEF WriteFails, RemovePeer
  <2>2. CASE Teardown(r)
    BY Zenon, <2>2 DEF Teardown, RemovePeer
  <2>3. CASE ApplyFails(r)
    BY Zenon, <2>3 DEF ApplyFails, Take, AdvanceReplicaOffset
  <2>4. CASE Break(r)
    BY Zenon, <2>4 DEF Break
  <2>5. CASE Ping(r) \/ Auth(r) \/ ReplConfPort(r)
    BY Zenon, <2>5 DEF Ping, Auth, ReplConfPort, Continue
  <2> QED
    BY Zenon, <2>1, <2>2, <2>3, <2>4, <2>5
<1>3. \/ link'[r] = "ended"
      \/ /\ link[r] \in Handshake /\ link'[r] \in Handshake
         /\ UNCHANGED <<serve, down, processed, up, registered>>
  <2>1. CASE (\E c \in Clients : WriteFails(c, r)) \/ Teardown(r)
    BY Zenon, <2>1 DEF WriteFails, Teardown, StreamInv, InStep
  <2>2. CASE ApplyFails(r) \/ Break(r)
    BY Zenon, <2>2 DEF ApplyFails, Break, StreamInv, StreamTypes
  <2>3. CASE Ping(r) \/ Auth(r) \/ ReplConfPort(r)
    BY Zenon, <2>3 DEF Ping, Auth, ReplConfPort, Continue, Handshake, StreamInv, StreamTypes
  <2> QED
    BY Zenon, <2>1, <2>2, <2>3
<1>4. /\ serve'[r] = serve[r] \/ serve'[r] = "closed"
      /\ up'[r] = up[r] \/ up'[r] = <<>>
  BY Zenon DEF WriteFails, Teardown, ApplyFails, Break, Ping, Auth, ReplConfPort, Continue,
         StreamInv, StreamTypes, CountTypes
<1>5. /\ \A c \in Clients : todo'[c] \subseteq todo[c]
      /\ \A c \in Clients, q \in Replicas : q # r => (q \in todo'[c] <=> q \in todo[c])
  <2>1. CASE \E c \in Clients : WriteFails(c, r)
    BY <2>1 DEF WriteFails, StreamInv, StreamTypes
  <2>2. CASE todo' = todo
    BY Zenon, <2>2
  <2> QED
    BY Zenon, <2>1, <2>2 DEF Teardown, ApplyFails, Break, Ping, Auth, ReplConfPort, Continue
<1>6. /\ ~Live(r)'
      /\ \A q \in Replicas : q # r => (Live(q)' <=> Live(q)) /\ Ahead(q)' = Ahead(q)
  BY Zenon, <1>2, <1>3 DEF Live, Ahead, Handshake
<1>7. \A q \in Replicas : Joining(q)' => Joining(q)
  BY Zenon, <1>2, <1>4 DEF Joining
<1>8. \A q \in Replicas : Owed(q)' => Owed(q)
  BY Zenon, <1>1, <1>2, <1>5 DEF Owed
<1>9. Alone'
  BY Zenon, <1>1, <1>7 DEF InOrder, Alone, Sending
<1>10. \A c \in Clients : Numbered(c)'
  BY Zenon, <1>1, <1>5, <1>6 DEF InOrder, Numbered, Advanced
<1>11. \A q \in Replicas : Connected(q)'
  BY Zenon, <1>1, <1>2, <1>3 DEF InOrder, Connected, Handshake
<1>12. \A q \in Replicas : Bounded(q)'
  BY Zenon, <1>1, <1>2, <1>6, <1>8 DEF InOrder, Bounded
<1>13. \A q \in Replicas : Acknowledged(q)'
  <2>1. \A n, q : Means(n, q)' <=> Means(n, q)
    BY Zenon, <1>1 DEF Means, Advanced
  <2>2. \A q \in Replicas : Range(up'[q]) \subseteq Range(up[q])
    BY SMTT(40), <1>2, <1>4 DEF Range
  <2> QED
    BY Zenon, <1>1, <2>1, <2>2 DEF InOrder, Acknowledged
<1>14. \A c \in Clients, q \in Replicas : Advanced(c)' => Traced(c, q)'
  BY <1>1, <1>2, <1>4, <1>5, <1>6 DEF InOrder, Traced, Advanced
<1>15. \A c \in Clients, q \in Replicas : Counted(c, q)'
  BY Zenon, <1>1, <1>2, <1>3 DEF InOrder, Counted, Handshake
<1> QED
  BY Zenon, <1>9, <1>10, <1>11, <1>12, <1>13, <1>14, <1>15 DEF InOrder

\* The snapshot is taken while nobody writes, and nobody writes until the peer
\* is registered.
LEMMA JoiningKeepsOrder ==
  ASSUME StreamInv, WaitInv, CountTypes, InOrder, overlap' = "no", NEW r \in Replicas,
         PSync(r) \/ WriteResync(r) \/ RegisterReplicaPeer(r)
  PROVE  InOrder'
<1> USE DEF storeVars, peerVars, connVars, replicaVars, clientVars
<1>1. UNCHANGED <<offset, end, store, answer, data, pc, todo, processed, up>>
  BY Zenon DEF PSync, WriteResync, RegisterReplicaPeer
<1>2. \A q \in Replicas : q # r =>
         /\ link'[q] = link[q] /\ serve'[q] = serve[q] /\ down'[q] = down[q]
         /\ built'[q] = built[q] /\ acked'[q] = acked[q]
         /\ q \in registered' <=> q \in registered
  BY SMTT(40) DEF PSync, WriteResync, RegisterReplicaPeer, AddPeer, StreamInv, StreamTypes, CountTypes
<1>3. \A c \in Clients : ~Sending(c)
  <2>1. CASE PSync(r)
    BY Zenon, <2>1 DEF PSync, MarkOverlap, SomeSending
  <2>2. CASE WriteResync(r) \/ RegisterReplicaPeer(r)
    BY Zenon, <2>2 DEF WriteResync, RegisterReplicaPeer, InOrder, Alone, Joining
  <2> QED
    BY Zenon, <2>1, <2>2
<1>4. /\ \A c : (Sending(c)' <=> Sending(c)) /\ (Advanced(c)' <=> Advanced(c))
      /\ \A q \in Replicas : q # r => (Live(q)' <=> Live(q)) /\ Ahead(q)' = Ahead(q)
  BY Zenon, <1>1, <1>2 DEF Sending, Advanced, Live, Ahead
<1>5. \A q \in Replicas : ~Owed(q)'
  BY Zenon, <1>3, <1>4 DEF Owed, Sending
<1>6. Alone' /\ \A c \in Clients : Numbered(c)'
  BY Zenon, <1>1, <1>3, <1>4 DEF InOrder, Alone, Numbered, Sending
<1>7. \A q \in Replicas : q # r => Connected(q)' /\ Bounded(q)' /\ Acknowledged(q)'
  BY Zenon, <1>1, <1>2, <1>4, <1>5 DEF InOrder, Connected, Bounded, Acknowledged, Means
<1>8. \A c \in Clients, q \in Replicas : Advanced(c) /\ q # r => Traced(c, q)'
  BY <1>1, <1>2, <1>4 DEF InOrder, Traced
<1>9. \A c \in Clients : Advanced(c) => end[c] > 0 /\ end[c] \in Nat /\ c \in Range(store)
  BY Zenon DEF InOrder, Numbered, Advanced, WaitInv, WaitTypes
<1>10. CASE PSync(r)
  <2>1. /\ link[r] = "psync" /\ link'[r] = "resync" /\ serve'[r] = "built"
        /\ built'[r] = store /\ acked' = acked /\ registered' = registered
    BY Zenon, <1>10 DEF PSync, StreamInv, StreamTypes
  <2>2. Connected(r)' /\ Bounded(r)' /\ Acknowledged(r)'
    BY Zenon, <1>1, <1>4, <2>1 DEF InOrder, Connected, Bounded, Live, Acknowledged, Means
  <2>3. \A c \in Clients : Advanced(c) => Traced(c, r)'
    BY Zenon, <1>9, <2>1 DEF Traced, Live
  <2>4. \A c \in Clients, q \in Replicas : Counted(c, q)'
    BY Zenon, <1>1, <1>2, <2>1 DEF InOrder, Counted
  <2> QED
    BY Zenon, <1>4, <1>6, <1>7, <1>8, <2>2, <2>3, <2>4 DEF InOrder
<1>11. CASE WriteResync(r)
  <2>1. /\ serve[r] = "built" /\ serve'[r] = "sent" /\ UNCHANGED <<link, acked, registered, built>>
        /\ down[r] = <<>> /\ link[r] \in {"resync", "ended"}
    BY Zenon, <1>11 DEF WriteResync, StreamInv, StreamTypes, InStep, Handshake
  <2>a. link[r] = "resync" => down'[r] = Append(<<>>, Resync(built[r]))
    BY Zenon, <1>11, <2>1 DEF WriteResync, StreamInv, StreamTypes, InStep
  <2>b. LET s == Append(<<>>, Resync(built[r])) IN Len(s) = 1 /\ s[1].by = built[r]
    BY DEF Resync
  <2>2. Live(r)' => /\ link'[r] = "resync" /\ Ahead(r)' = 1 /\ processed'[r] = 0
                    /\ Len(down'[r]) = 1 /\ down'[r][1].by = built[r]
    BY Zenon, <1>1, <2>1, <2>a, <2>b DEF InOrder, Connected, Live, Ahead
  <2>3. Connected(r)' /\ Acknowledged(r)'
    BY Zenon, <1>1, <1>4, <2>1 DEF InOrder, Connected, Acknowledged, Means
  <2>4. Bounded(r)'
    <3>1. offset \in Nat /\ 0 + 1 <= offset + 1
      BY DEF WaitInv, WaitTypes
    <3> QED
      BY Zenon, <1>1, <1>5, <2>2, <3>1 DEF Bounded
  <2>5. \A c \in Clients : Advanced(c) => Traced(c, r)'
    <3> SUFFICES ASSUME NEW c \in Clients, Advanced(c) PROVE Traced(c, r)'
      BY Zenon
    <3>1. c \in Range(built[r])
      BY Zenon, <2>1 DEF InOrder, Traced
    <3>2. Live(r)' => /\ 1 \in 1..Len(down'[r]) /\ c \in Range(down'[r][1].by)
                      /\ processed'[r] + 1 <= end'[c] + Ahead(r)'
      BY <1>1, <1>9, <2>2, <3>1
    <3> QED
      BY Zenon, <2>1, <3>2 DEF Traced
  <2>6. \A c \in Clients, q \in Replicas : Counted(c, q)'
    BY Zenon, <1>1, <2>1 DEF InOrder, Counted
  <2> QED
    BY Zenon, <1>4, <1>6, <1>7, <1>8, <2>3, <2>4, <2>5, <2>6 DEF InOrder
<1>12. CASE RegisterReplicaPeer(r)
  <2>1. /\ serve[r] = "sent" /\ serve'[r] = "acks" /\ UNCHANGED <<link, down, built>>
        /\ registered' = registered \cup {r} /\ acked'[r] = 0
    BY Zenon, <1>12 DEF RegisterReplicaPeer, AddPeer, StreamInv, StreamTypes, CountTypes
  <2>2. (Live(r)' <=> Live(r)) /\ Ahead(r)' = Ahead(r)
    BY Zenon, <2>1 DEF Live, Ahead
  <2>3. Connected(r)' /\ Bounded(r)'
    BY Zenon, <1>1, <1>5, <2>1, <2>2 DEF InOrder, Connected, Bounded
  <2>4. Means(0, r)'
    BY <1>1, <1>4, <1>9 DEF Means, WaitInv, WaitTypes
  <2>5. \A n : Means(n, r)' <=> Means(n, r)
    BY Zenon, <1>1, <1>4 DEF Means
  <2>6. Acknowledged(r)'
    BY Zenon, <1>1, <2>1, <2>4, <2>5 DEF InOrder, Acknowledged
  <2>7. \A c \in Clients : Advanced(c) => Traced(c, r)'
    BY Zenon, <1>1, <2>1, <2>2 DEF InOrder, Traced
  <2>8. \A c \in Clients, q \in Replicas : Counted(c, q)'
    BY Zenon, <1>1, <2>1 DEF InOrder, Counted
  <2> QED
    BY Zenon, <1>4, <1>6, <1>7, <1>8, <2>3, <2>6, <2>7, <2>8 DEF InOrder
<1> QED
  BY Zenon, <1>10, <1>11, <1>12

\* An acknowledgement means the same at the master.
LEMMA ReadAckKeepsOrder ==
  ASSUME StreamInv, WaitInv, CountTypes, InOrder, NEW r \in Replicas, ReadAck(r)
  PROVE  InOrder'
<1> USE DEF storeVars, peerVars, connVars, replicaVars, clientVars
<1>1. /\ UNCHANGED <<offset, end, store, answer, data, built, pc, todo, processed, link, serve,
                     down, registered>>
      /\ up[r] # <<>>
  BY Zenon DEF ReadAck, UpdateAck
<1>2. /\ up'[r] = Tail(up[r])
      /\ acked'[r] = acked[r] \/ acked'[r] = Head(up[r])
      /\ \A q \in Replicas : q # r => up'[q] = up[q] /\ acked'[q] = acked[q]
  BY Zenon DEF ReadAck, UpdateAck, CountTypes
<1>3. Alone' /\ \A c \in Clients : Numbered(c)'
  BY Zenon, <1>1 DEF InOrder, Alone, Numbered, Sending, Joining, Advanced, Live
<1>4. \A q \in Replicas : Bounded(q)'
  BY Zenon, <1>1 DEF InOrder, Bounded, Live, Ahead, Owed
<1>5. \A c \in Clients, q \in Replicas : (Advanced(c)' => Traced(c, q)') /\ Counted(c, q)'
  BY <1>1 DEF InOrder, Traced, Counted, Live, Ahead, Advanced
<1>6. \A q \in Replicas : Connected(q)'
  BY Zenon, <1>1, <1>2 DEF InOrder, Connected
<1>7. \A q \in Replicas : Acknowledged(q)'
  <2>1. \A n, q : Means(n, q)' <=> Means(n, q)
    BY Zenon, <1>1 DEF Means, Advanced
  <2>2. Head(up[r]) \in Range(up[r]) /\ Range(Tail(up[r])) \subseteq Range(up[r])
    BY Zenon, <1>1, RangeOfTail DEF CountTypes
  <2>3. \A q \in Replicas : Means(acked[q], q) /\ \A n \in Range(up[q]) : Means(n, q)
    BY Zenon DEF InOrder, Acknowledged
  <2>4. \A q \in Replicas : /\ acked'[q] = acked[q] \/ acked'[q] \in Range(up[q])
                            /\ Range(up'[q]) \subseteq Range(up[q])
    BY Zenon, <1>2, <2>2
  <2>5. \A q \in Replicas : Means(acked'[q], q) /\ \A n \in Range(up'[q]) : Means(n, q)
    BY Zenon, <2>3, <2>4
  <2>6. \A n, m, q : n = m' => (Means(m, q)' <=> Means(n, q))
    BY ZenonT(40), <1>1 DEF Means, Advanced
  <2> QED
    BY Zenon, <2>1, <2>5, <2>6 DEF Acknowledged
<1> QED
  BY <1>3, <1>4, <1>5, <1>6, <1>7 DEF InOrder

\* The snapshot holds every write whose offset the replica does not count.
LEMMA ResyncKeepsOrder ==
  ASSUME StreamInv, WaitInv, CountTypes, InOrder, NEW r \in Replicas, ConsumeFullResync(r)
  PROVE  InOrder'
<1> USE DEF storeVars, peerVars, connVars, replicaVars, clientVars
<1>1. /\ link[r] = "resync" /\ down[r] # <<>> /\ down[r] \in Seq(Items)
      /\ serve[r] # "built" /\ Head(down[r]).kind = "resync"
  BY Zenon DEF ConsumeFullResync, StreamInv, StreamTypes, InStep
<1>2. /\ UNCHANGED <<offset, end, store, answer, built, pc, todo, processed, serve, registered,
                     acked, up>>
      /\ link'[r] = "streaming" /\ data'[r] = Head(down[r]).by /\ down'[r] = Tail(down[r])
      /\ \A q \in Replicas : q # r =>
            link'[q] = link[q] /\ data'[q] = data[q] /\ down'[q] = down[q]
  BY ZenonT(40), <1>1 DEF ConsumeFullResync, Take, StreamInv, StreamTypes, CountTypes
<1>3. /\ \A q : Joining(q)' <=> Joining(q)
      /\ \A q \in Replicas : Live(q)' <=> Live(q)
      /\ \A q \in Replicas : q # r => Ahead(q)' = Ahead(q)
      /\ Live(r) /\ Ahead(r) = 1 /\ Ahead(r)' = 0
  BY Zenon, <1>1, <1>2 DEF Joining, Live, Ahead
<1>4. \A c : (Sending(c)' <=> Sending(c)) /\ (Advanced(c)' <=> Advanced(c))
  BY Zenon, <1>2 DEF Sending, Advanced
<1>5. \A q : Owed(q)' <=> Owed(q)
  BY Zenon, <1>2 DEF Owed
<1>6. Alone' /\ \A c \in Clients : Numbered(c)'
  BY Zenon, <1>2, <1>3, <1>4 DEF InOrder, Alone, Numbered
<1>7. \A q \in Replicas : q # r => Connected(q)' /\ Bounded(q)' /\ Acknowledged(q)'
  BY Zenon, <1>2, <1>3, <1>4, <1>5 DEF InOrder, Connected, Bounded, Acknowledged, Means
<1>8. \A c \in Clients, q \in Replicas : Advanced(c) /\ q # r => Traced(c, q)'
  BY ZenonT(40), <1>2, <1>3 DEF InOrder, Traced
<1>9. acked[r] = 0 /\ up[r] = <<>> /\ processed[r] = 0
  BY Zenon, <1>1 DEF InOrder, Connected
<1>10. /\ Head(down[r]) = down[r][1] /\ Len(down[r]) \in Nat /\ Len(down[r]) > 0
       /\ Len(Tail(down[r])) = Len(down[r]) - 1
       /\ \A i \in 1..Len(Tail(down[r])) : Tail(down[r])[i] = down[r][i + 1]
  BY Zenon, <1>1, RangeOfTail
<1>11. offset \in Nat /\ end \in [Clients -> Nat]
  BY Zenon DEF WaitInv, WaitTypes
<1>12. Connected(r)'
  BY Zenon, <1>1, <1>2 DEF InOrder, Connected
<1>13. Bounded(r)'
  <2>1. /\ 0 + Len(down[r]) <= offset + 1
        /\ Owed(r) => 0 + Len(down[r]) < offset + 1
    BY Zenon, <1>3, <1>9 DEF InOrder, Bounded
  <2>2. /\ 0 + Len(Tail(down[r])) <= offset + 0
        /\ Owed(r) => 0 + Len(Tail(down[r])) < offset + 0
    BY <1>10, <1>11, <2>1
  <2> QED
    BY Zenon, <1>2, <1>3, <1>5, <1>9, <2>2 DEF Bounded
<1>14. Acknowledged(r)'
  <2>1. \A c \in Clients : Advanced(c) => ~(0 >= end[c])
    BY SMTT(40), <1>11 DEF InOrder, Numbered
  <2>2. Means(0, r)'
    BY SMTT(40), <1>2, <1>4, <1>11, <2>1 DEF Means
  <2>3. Range(up'[r]) = {}
    BY <1>2, <1>9 DEF Range
  <2> QED
    BY Zenon, <1>2, <1>9, <2>2, <2>3 DEF Acknowledged
<1>15. \A c \in Clients : Advanced(c) => Traced(c, r)'
  <2> SUFFICES ASSUME NEW c \in Clients, Advanced(c) PROVE Traced(c, r)'
    BY Zenon
  <2>1. Traced(c, r)
    BY Zenon DEF InOrder
  <2>2. CASE pc[c] = "sending" /\ r \in todo[c]
    BY Zenon, <1>1, <1>2, <1>3, <2>2 DEF Traced
  <2>3. ASSUME NEW i \in 1..Len(down[r]), c \in Range(down[r][i].by),
               processed[r] + i <= end[c] + Ahead(r)
        PROVE  Traced(c, r)'
    <3>1. CASE i = 1
      BY Zenon, <1>1, <1>2, <1>3, <1>10, <2>3, <3>1 DEF Traced
    <3>2. CASE i # 1
      <4>1. /\ i - 1 \in 1..Len(down'[r]) /\ (i - 1) + 1 = i
            /\ processed[r] + (i - 1) <= end[c] + 0
        BY SMTT(40), <1>2, <1>3, <1>9, <1>10, <1>11, <2>3, <3>2
      <4>2. down'[r][i - 1] = down[r][i]
        BY <1>2, <1>10, <4>1
      <4> QED
        BY Zenon, <1>1, <1>2, <1>3, <2>3, <4>1, <4>2 DEF Traced
    <3> QED
      BY Zenon, <3>1, <3>2
  <2> QED
    BY Zenon, <1>1, <1>3, <2>1, <2>2, <2>3 DEF Traced
<1>16. \A c \in Clients, q \in Replicas : Counted(c, q)'
  BY Zenon, <1>1, <1>2 DEF InOrder, Counted
<1> QED
  BY Zenon, <1>4, <1>6, <1>7, <1>8, <1>12, <1>13, <1>14, <1>15, <1>16 DEF InOrder

\* A replica that applies a frame has every write up to its new offset.
LEMMA ApplyKeepsOrder ==
  ASSUME StreamInv, WaitInv, CountTypes, InOrder, NEW r \in Replicas, Apply(r)
  PROVE  InOrder'
<1> USE DEF storeVars, peerVars, connVars, replicaVars, clientVars
<1>1. /\ link[r] = "streaming" /\ down[r] # <<>> /\ down[r] \in Seq(Items)
      /\ serve[r] # "built"
  BY Zenon DEF Apply, StreamInv, StreamTypes, InStep
<1>2. /\ UNCHANGED <<offset, end, store, answer, built, pc, todo, serve, registered, acked, link>>
      /\ processed'[r] = processed[r] + 1 /\ down'[r] = Tail(down[r])
      /\ data'[r] = data[r] \o Head(down[r]).by
      /\ \A q \in Replicas : q # r => /\ processed'[q] = processed[q] /\ data'[q] = data[q]
                                      /\ down'[q] = down[q] /\ up'[q] = up[q]
  BY Zenon DEF Apply, Take, AdvanceReplicaOffset, StreamInv, StreamTypes, CountTypes
<1>3. up'[r] = up[r] \/ up'[r] = Append(up[r], processed[r] + 1)
  BY Zenon, <1>2 DEF Apply, CountTypes
<1>4. \A q : /\ Joining(q)' <=> Joining(q)
             /\ Live(q)' <=> Live(q)
             /\ Ahead(q)' = Ahead(q)
             /\ Owed(q)' <=> Owed(q)
  BY Zenon, <1>2 DEF Joining, Live, Ahead, Owed
<1>5. \A c : (Sending(c)' <=> Sending(c)) /\ (Advanced(c)' <=> Advanced(c))
  BY Zenon, <1>2 DEF Sending, Advanced
<1>6. Live(r) /\ Ahead(r) = 0
  BY Zenon, <1>1 DEF Live, Ahead
<1>7. Alone' /\ \A c \in Clients : Numbered(c)'
  BY Zenon, <1>2, <1>4, <1>5 DEF InOrder, Alone, Numbered
<1>8. \A q \in Replicas : q # r => Connected(q)' /\ Bounded(q)' /\ Acknowledged(q)'
  BY Zenon, <1>2, <1>4, <1>5 DEF InOrder, Connected, Bounded, Acknowledged, Means
<1>9. \A c \in Clients, q \in Replicas : Advanced(c) /\ q # r => Traced(c, q)'
  BY ZenonT(40), <1>2, <1>4 DEF InOrder, Traced
<1>10. /\ Head(down[r]) = down[r][1] /\ Len(down[r]) \in Nat /\ Len(down[r]) > 0
       /\ Len(Tail(down[r])) = Len(down[r]) - 1
       /\ \A i \in 1..Len(Tail(down[r])) : Tail(down[r])[i] = down[r][i + 1]
       /\ Head(down[r]) \in Items
  BY Zenon, <1>1, RangeOfTail
<1>11. offset \in Nat /\ end \in [Clients -> Nat] /\ processed[r] \in Nat
  BY Zenon DEF WaitInv, WaitTypes, CountTypes
<1>12. Range(data'[r]) = Range(data[r]) \cup Range(Head(down[r]).by)
  <2>1. data[r] \in Seq(Clients \cup Replicas)
    BY Zenon DEF CountTypes
  <2>2. Head(down[r]).by \in Seq(Clients)
    BY Zenon, <1>10 DEF Items
  <2>3. Head(down[r]).by \in Seq(Clients \cup Replicas)
    BY <2>2
  <2> QED
    BY <1>2, <2>1, <2>3, RangeOfJoin
<1>13. Connected(r)'
  BY Zenon, <1>1, <1>2 DEF InOrder, Connected
<1>14. /\ processed[r] + Len(down[r]) <= offset
       /\ Owed(r) => processed[r] + Len(down[r]) < offset
  <2>1. /\ processed[r] + Len(down[r]) <= offset + 0
        /\ Owed(r) => processed[r] + Len(down[r]) < offset + 0
    BY Zenon, <1>6 DEF InOrder, Bounded
  <2> QED
    BY <1>11, <2>1
<1>15. Bounded(r)'
  <2>1. /\ (processed[r] + 1) + Len(Tail(down[r])) <= offset + 0
        /\ Owed(r) => (processed[r] + 1) + Len(Tail(down[r])) < offset + 0
    BY SMTT(40), <1>10, <1>11, <1>14
  <2> QED
    BY Zenon, <1>2, <1>4, <1>6, <2>1 DEF Bounded
<1>16. \A c \in Clients : Advanced(c) => Traced(c, r)'
  <2> SUFFICES ASSUME NEW c \in Clients, Advanced(c) PROVE Traced(c, r)'
    BY Zenon
  <2>1. Traced(c, r)
    BY Zenon DEF InOrder
  <2>2. CASE c \in Range(data'[r])
    BY Zenon, <1>1, <1>2, <2>2 DEF Traced
  <2>3. CASE pc[c] = "sending" /\ r \in todo[c]
    BY Zenon, <1>1, <1>2, <2>3 DEF Traced
  <2>4. ASSUME NEW i \in 1..Len(down[r]), c \in Range(down[r][i].by),
               processed[r] + i <= end[c] + Ahead(r)
        PROVE  Traced(c, r)'
    <3>1. CASE i = 1
      BY Zenon, <1>10, <1>12, <2>2, <2>4, <3>1
    <3>2. CASE i # 1
      <4>1. /\ i - 1 \in 1..Len(Tail(down[r])) /\ (i - 1) + 1 = i
            /\ (processed[r] + 1) + (i - 1) <= end[c] + 0
        BY SMTT(40), <1>6, <1>10, <1>11, <2>4, <3>2
      <4>2. down'[r][i - 1] = down[r][i]
        BY Zenon, <1>2, <1>10, <4>1
      <4> QED
        BY ZenonT(40), <1>1, <1>2, <1>4, <1>6, <2>4, <4>1, <4>2 DEF Traced
    <3> QED
      BY Zenon, <3>1, <3>2
  <2> QED
    BY Zenon, <1>1, <1>6, <1>12, <2>1, <2>2, <2>3, <2>4 DEF Traced
<1>17. \A n : n = processed[r] + 1 => Means(n, r)'
  <2>1. processed[r] + 1 <= offset
    BY <1>10, <1>11, <1>14
  <2>2. ASSUME NEW c \in Clients, Advanced(c), processed[r] + 1 >= end[c]
        PROVE  c \in Range(data'[r])
    <3>1. Traced(c, r)
      BY Zenon, <2>2 DEF InOrder
    <3>2. ASSUME pc[c] = "sending", r \in todo[c] PROVE FALSE
      <4>1. Owed(r) /\ end[c] = offset
        BY Zenon, <3>2 DEF Owed, InOrder, Numbered
      <4> QED
        BY <1>10, <1>11, <1>14, <2>2, <4>1
    <3>3. ASSUME NEW i \in 1..Len(down[r]), c \in Range(down[r][i].by),
                 processed[r] + i <= end[c] + Ahead(r)
          PROVE  c \in Range(data'[r])
      <4>1. i = 1
        BY <1>6, <1>10, <1>11, <2>2, <3>3
      <4> QED
        BY Zenon, <1>10, <1>12, <3>3, <4>1
    <3> QED
      BY Zenon, <1>6, <1>12, <3>1, <3>2, <3>3 DEF Traced
  <2> QED
    BY Zenon, <1>2, <1>5, <2>1, <2>2 DEF Means
<1>18. Acknowledged(r)'
  <2>1. \A n : Means(n, r) => Means(n, r)'
    BY Zenon, <1>2, <1>5, <1>12 DEF Means
  <2>2. \A n \in Range(up'[r]) : n \in Range(up[r]) \/ n = processed[r] + 1
    <3>1. Range(Append(up[r], processed[r] + 1)) = Range(up[r]) \cup {processed[r] + 1}
      <4>1. up[r] \in Seq(Nat) /\ processed[r] + 1 \in Nat
        BY <1>11 DEF CountTypes
      <4> QED
        BY <4>1, RangeOfAppend
    <3> QED
      BY Zenon, <1>3, <3>1
  <2>3. \A n \in Range(up'[r]) : Means(n, r)'
    BY Zenon, <1>17, <2>1, <2>2 DEF InOrder, Acknowledged
  <2>4. \A n : n = acked[r] => Means(n, r)'
    BY Zenon, <2>1 DEF InOrder, Acknowledged
  <2> QED
    BY Zenon, <1>2, <2>3, <2>4 DEF Acknowledged
<1>19. \A c \in Clients, q \in Replicas : Counted(c, q)'
  BY Zenon, <1>2, <1>12 DEF InOrder, Counted
<1> QED
  BY Zenon, <1>5, <1>7, <1>8, <1>9, <1>13, <1>15, <1>16, <1>18, <1>19 DEF InOrder

\* What overlapped stays so.
LEMMA OverlapStays == Next /\ overlap' = "no" => overlap = "no"
  BY ZenonT(40) DEF Next, Execute, ExecuteUnlogged, PickPeers, AdvanceMasterOffset, RecordWriteOffset,
       AdvanceForGetAck, PickPeersForGetAck, AskedAll, CountWithNotify, Woken,
       WaitTimeout, Wait, WriteToReplica, WriteFails, Ping, Auth, ReplConfPort, Continue,
       PSync, WriteResync, RegisterReplicaPeer, ReadAck, Teardown, ConsumeFullResync,
       Apply, ApplyFails, Break, MarkOverlap

\* Every step keeps the order, or is one of those that overlap.
LEMMA StepKeepsOrder == StreamInv /\ WaitInv /\ CountInv /\ [Next]_vars => CountInv'
<1> SUFFICES ASSUME StreamInv, WaitInv, CountInv, [Next]_vars PROVE CountInv'
  BY Zenon
<1> USE DEF storeVars, peerVars, connVars, replicaVars, clientVars
<1>1. CASE Next
  <2>1. CountTypes'
    BY Zenon, <1>1, StepKeepsCountTypes DEF CountInv
  <2>2. overlap' = "no" => overlap = "no"
    BY Zenon, <1>1, OverlapStays
  <2>3. ASSUME overlap' = "no" PROVE InOrder'
    <3>1. InOrder /\ CountTypes
      BY Zenon, <2>2, <2>3 DEF CountInv
    <3>2. ASSUME NEW c \in Clients, ExecuteUnlogged(c) PROVE FALSE
      BY Zenon, <2>3, <3>2 DEF ExecuteUnlogged
    <3> QED
      BY Zenon, <1>1, <2>3, <3>1, <3>2, CountingKeepsOrder, WritesKeepOrder, OffsetsKeepOrder,
         SendingKeepsOrder, EndingKeepsOrder, JoiningKeepsOrder, ReadAckKeepsOrder,
         ResyncKeepsOrder, ApplyKeepsOrder DEF Next
  <2> QED
    BY Zenon, <2>1, <2>3 DEF CountInv
<1>2. CASE UNCHANGED vars
  <2> USE <1>2 DEF vars
  <2>1. CountTypes' <=> CountTypes
    BY Zenon DEF CountTypes
  <2>2. /\ \A c : (Sending(c)' <=> Sending(c)) /\ (Advanced(c)' <=> Advanced(c))
        /\ \A r : (Joining(r)' <=> Joining(r)) /\ (Live(r)' <=> Live(r)) /\ Ahead(r)' = Ahead(r)
        /\ \A r : Owed(r)' <=> Owed(r)
    BY Zenon DEF Sending, Advanced, Joining, Live, Ahead, Owed
  <2>3. (Alone' <=> Alone) /\ \A c : Numbered(c)' <=> Numbered(c)
    BY Zenon, <2>2 DEF Alone, Numbered
  <2>4. \A r : (Connected(r)' <=> Connected(r)) /\ (Bounded(r)' <=> Bounded(r))
    BY Zenon, <2>2 DEF Connected, Bounded
  <2>5. \A r : Acknowledged(r)' <=> Acknowledged(r)
    BY Zenon, <2>2 DEF Acknowledged, Means
  <2>6. \A c, r : (Traced(c, r)' <=> Traced(c, r)) /\ (Counted(c, r)' <=> Counted(c, r))
    BY <2>2 DEF Traced, Counted
  <2>7. InOrder' <=> InOrder
    BY Zenon, <2>2, <2>3, <2>4, <2>5, <2>6 DEF InOrder
  <2> QED
    BY Zenon, <2>1, <2>7 DEF CountInv
<1> QED
  BY Zenon, <1>1, <1>2

\* In the initial state nothing is written, sent or counted.
LEMMA InitOrder == Init => CountInv
<1> SUFFICES ASSUME Init PROVE CountInv
  BY Zenon
<1>1. PICK start \in Starts :
        /\ pc = [c \in Clients |-> IF c \in start.writers THEN "idle" ELSE "absent"]
        /\ registered = start.joined
        /\ serve = [r \in Replicas |-> CASE r \in start.joined -> "acks"
                                         [] r \in start.late -> "commands"
                                         [] OTHER -> "closed"]
        /\ link = [r \in Replicas |-> CASE r \in start.joined -> "streaming"
                                        [] r \in start.late -> "ping"
                                        [] OTHER -> "ended"]
        /\ data = [r \in Replicas |-> IF r \in start.late THEN <<r>> ELSE <<>>]
  BY Zenon DEF Init
<1>2. /\ offset = 0 /\ end = [c \in Clients |-> 0] /\ answer = [c \in Clients |-> {}]
      /\ acked = [r \in Replicas |-> 0] /\ intact = Replicas
      /\ down = [r \in Replicas |-> <<>>] /\ up = [r \in Replicas |-> <<>>]
      /\ processed = [r \in Replicas |-> 0]
  BY Zenon DEF Init
<1>3. start.joined \cap start.late = {}
  BY Zenon, StartsAssumption
<1>4. CountTypes
  <2> DEFINE S == Clients \cup Replicas
  <2>a. \A x \in S : <<x>> \in Seq(S)
    OBVIOUS
  <2>b. Replicas \subseteq S /\ <<>> \in Seq(S)
    OBVIOUS
  <2> HIDE DEF S
  <2>1. \A r \in Replicas : (IF r \in start.late THEN <<r>> ELSE <<>>) \in Seq(S)
    BY Zenon, <2>a, <2>b
  <2>2. data \in [Replicas -> Seq(S)]
    BY Zenon, <1>1, <2>1
  <2> QED
    BY <1>2, <2>2 DEF CountTypes, S
<1>5. \A c \in Clients : pc[c] \in {"idle", "absent"}
  BY Zenon, <1>1
<1>6. \A r \in Replicas : \/ serve[r] = "acks" /\ link[r] = "streaming" /\ r \in registered
                          \/ serve[r] = "commands" /\ link[r] = "ping"
                          \/ serve[r] = "closed" /\ link[r] = "ended"
  BY Zenon, <1>1, <1>3
<1>7. \A c \in Clients : ~Sending(c) /\ ~Advanced(c) /\ Numbered(c)
  BY Zenon, <1>5 DEF Sending, Advanced, Numbered
<1>8. \A r \in Replicas : ~Owed(r) /\ Connected(r)
  BY Zenon, <1>2, <1>5, <1>6 DEF Owed, Connected
<1>9. \A r \in Replicas : Bounded(r)
  BY SMTT(40), <1>2, <1>6, <1>8 DEF Bounded, Ahead
<1>10. \A r \in Replicas : Acknowledged(r)
  BY <1>2, <1>7 DEF Acknowledged, Means, Range
<1>11. \A c \in Clients, r \in Replicas : Counted(c, r)
  BY Zenon, <1>2 DEF Counted
<1> QED
  BY Zenon, <1>4, <1>7, <1>8, <1>9, <1>10, <1>11 DEF CountInv, InOrder, Alone

-----------------------------------------------------------------------------
(* What a replica has been sent.                                           *)

\* After the writes d, the frames s are the writes w up to number k.
Follows(d, s, w, k) ==
    \E cut \in [0..Len(s) -> 0..Len(w)] :
        /\ cut[0] = Len(d) /\ cut[Len(s)] = k
        /\ \A j \in 1..Len(d) : d[j] = w[j]
        /\ \A i \in 1..Len(s) :
              /\ cut[i] = cut[i - 1] + Len(s[i].by)
              /\ \A j \in 1..Len(s[i].by) : s[i].by[j] = w[cut[i - 1] + j]

\* What the frames to a replica continue: nothing while the snapshot is one of
\* them.
Base(r) == IF link[r] = "streaming" THEN data[r] ELSE <<>>

\* The number of the writes that a replica has been sent.
Passed(r) == IF Unsent(r) = {} THEN Len(store) ELSE Len(store) - 1

\* The write in progress is the last one; the snapshot that waits to be sent is
\* the keyspace; a replica has been sent all but the write in progress.
Whole ==
    /\ \A c \in Clients : pc[c] \in {"executed", "picked", "sending"} =>
                             Len(store) > 0 /\ store[Len(store)] = c
    /\ \A r \in Replicas : serve[r] = "built" => built[r] = store
    /\ \A r \in Replicas : Live(r) => Follows(Base(r), down[r], store, Passed(r))

WholeInv == overlap = "no" => Whole

\* A write more changes nothing for the frames before it.
LEMMA FollowsLonger ==
  ASSUME NEW S, NEW C, NEW w \in Seq(C), NEW c \in C, NEW d \in Seq(S), NEW s \in Seq(Items), NEW k,
         Follows(d, s, w, k)
  PROVE  Follows(d, s, Append(w, c), k)
<1> DEFINE v == Append(w, c)
<1>1. PICK cut \in [0..Len(s) -> 0..Len(w)] :
        /\ cut[0] = Len(d) /\ cut[Len(s)] = k
        /\ \A j \in 1..Len(d) : d[j] = w[j]
        /\ \A i \in 1..Len(s) :
              /\ cut[i] = cut[i - 1] + Len(s[i].by)
              /\ \A j \in 1..Len(s[i].by) : s[i].by[j] = w[cut[i - 1] + j]
  BY Zenon DEF Follows
<1>2. Len(v) = Len(w) + 1 /\ Len(w) \in Nat /\ \A j \in 1..Len(w) : v[j] = w[j]
  OBVIOUS
<1>3. Len(s) \in Nat /\ Len(d) \in Nat /\ \A i \in 1..Len(s) : Len(s[i].by) \in Nat
  BY SMTT(40) DEF Items
<1> HIDE DEF v
<1>4. cut \in [0..Len(s) -> 0..Len(v)]
  BY <1>1, <1>2
<1>5. \A j \in 1..Len(d) : j \in 1..Len(w)
  <2>1. 0 \in 0..Len(s)
    BY <1>3
  <2>2. cut[0] \in 0..Len(w)
    BY Zenon, <2>1
  <2> QED
    BY ONLY SMTT(40), <1>1, <1>2, <1>3, <2>2
<1>6. ASSUME NEW i \in 1..Len(s), NEW j \in 1..Len(s[i].by) PROVE cut[i - 1] + j \in 1..Len(w)
  <2>1. i - 1 \in 0..Len(s) /\ i \in 0..Len(s)
    BY ONLY <1>3, i \in 1..Len(s)
  <2>2. cut[i - 1] \in 0..Len(w) /\ cut[i] \in 0..Len(w)
    BY Zenon, <2>1
  <2>3. cut[i] = cut[i - 1] + Len(s[i].by) /\ Len(s[i].by) \in Nat
    BY Zenon, <1>1, <1>3
  <2> QED
    BY ONLY SMTT(40), <1>2, <2>2, <2>3, j \in 1..Len(s[i].by)
<1>7. \A j \in 1..Len(d) : d[j] = v[j]
  BY Zenon, <1>1, <1>2, <1>5
<1>8. \A i \in 1..Len(s) :
        /\ cut[i] = cut[i - 1] + Len(s[i].by)
        /\ \A j \in 1..Len(s[i].by) : s[i].by[j] = v[cut[i - 1] + j]
  BY Zenon, <1>1, <1>2, <1>6
<1>9. Follows(d, s, v, k)
  BY Zenon, <1>1, <1>4, <1>7, <1>8 DEF Follows
<1> QED
  BY Zenon, <1>9 DEF v

\* One more frame, with the writes that are next.
LEMMA FollowsNext ==
  ASSUME NEW S, NEW C, NEW w \in Seq(C), NEW d \in Seq(S), NEW s \in Seq(Items), NEW k,
         Follows(d, s, w, k), NEW f \in Items, k + Len(f.by) \in 0..Len(w),
         \A j \in 1..Len(f.by) : f.by[j] = w[k + j]
  PROVE  Follows(d, Append(s, f), w, k + Len(f.by))
<1> DEFINE n == Len(s)
<1> DEFINE t == Append(s, f)
<1> DEFINE m == k + Len(f.by)
<1>1. PICK cut \in [0..n -> 0..Len(w)] :
        /\ cut[0] = Len(d) /\ cut[n] = k
        /\ \A j \in 1..Len(d) : d[j] = w[j]
        /\ \A i \in 1..n :
              /\ cut[i] = cut[i - 1] + Len(s[i].by)
              /\ \A j \in 1..Len(s[i].by) : s[i].by[j] = w[cut[i - 1] + j]
  BY Zenon DEF Follows
<1>2. /\ n \in Nat /\ Len(t) = n + 1 /\ t[n + 1] = f
      /\ \A i \in 1..n : t[i] = s[i]
  OBVIOUS
<1> HIDE DEF n, t
<1> DEFINE more == [i \in 0..n + 1 |-> IF i = n + 1 THEN m ELSE cut[i]]
<1>3. \A i \in 0..n + 1 : i = n + 1 \/ i \in 0..n
  BY ONLY <1>2
<1>4. more \in [0..n + 1 -> 0..Len(w)]
  BY Zenon, <1>3
<1>5. more[n + 1] = m /\ more[0] = Len(d) /\ more[n] = k /\ \A i \in 0..n : more[i] = cut[i]
  <2>1. n + 1 \in 0..n + 1 /\ 0 \in 0..n /\ n \in 0..n
        /\ \A i \in 0..n : i # n + 1 /\ i \in 0..n + 1
    BY ONLY <1>2
  <2> QED
    BY Zenon, <1>1, <2>1
<1> HIDE DEF more, m
<1>6. ASSUME NEW i \in 1..n + 1
      PROVE  /\ more[i] = more[i - 1] + Len(t[i].by)
             /\ \A j \in 1..Len(t[i].by) : t[i].by[j] = w[more[i - 1] + j]
  <2>1. (i = n + 1 /\ i - 1 = n) \/ (i \in 1..n /\ i \in 0..n /\ i - 1 \in 0..n)
    BY ONLY <1>2, i \in 1..n + 1
  <2>2. CASE i = n + 1 /\ i - 1 = n
    <3>1. t[i] = f /\ more[i - 1] = k /\ more[i] = m
      BY Zenon, <1>2, <1>5, <2>2
    <3> QED
      BY Zenon, <3>1 DEF m
  <2>3. CASE i \in 1..n /\ i \in 0..n /\ i - 1 \in 0..n
    <3>1. t[i] = s[i] /\ more[i - 1] = cut[i - 1] /\ more[i] = cut[i]
      BY Zenon, <1>2, <1>5, <2>3
    <3> QED
      BY ZenonT(40), <1>1, <2>3, <3>1
  <2> QED
    BY Zenon, <2>1, <2>2, <2>3
<1>7. Follows(d, t, w, m)
  <2>1. more \in [0..Len(t) -> 0..Len(w)] /\ more[Len(t)] = m
    BY Zenon, <1>2, <1>4, <1>5
  <2>2. \A i \in 1..Len(t) : /\ more[i] = more[i - 1] + Len(t[i].by)
                             /\ \A j \in 1..Len(t[i].by) : t[i].by[j] = w[more[i - 1] + j]
    BY Zenon, <1>2, <1>6
  <2> QED
    BY Zenon, <1>1, <1>5, <2>1, <2>2 DEF Follows
<1> QED
  BY Zenon, <1>7 DEF t, m

\* The first frame is applied.
LEMMA FollowsApplied ==
  ASSUME NEW S, NEW C, NEW w \in Seq(C), NEW d \in Seq(S), NEW s \in Seq(Items), NEW k,
         s # <<>>, Head(s).by \in Seq(S), Follows(d, s, w, k)
  PROVE  Follows(d \o Head(s).by, Tail(s), w, k)
<1> DEFINE n == Len(s)
<1> DEFINE t == Tail(s)
<1> DEFINE b == Head(s).by
<1> DEFINE e == d \o b
<1>1. PICK cut \in [0..n -> 0..Len(w)] :
        /\ cut[0] = Len(d) /\ cut[n] = k
        /\ \A j \in 1..Len(d) : d[j] = w[j]
        /\ \A i \in 1..n :
              /\ cut[i] = cut[i - 1] + Len(s[i].by)
              /\ \A j \in 1..Len(s[i].by) : s[i].by[j] = w[cut[i - 1] + j]
  BY Zenon DEF Follows
<1>2. /\ n \in Nat \ {0} /\ Len(t) = n - 1 /\ b = s[1].by
      /\ \A i \in 1..n - 1 : t[i] = s[i + 1]
  OBVIOUS
<1>3. /\ Len(d) \in Nat /\ Len(b) \in Nat /\ Len(e) = Len(d) + Len(b)
      /\ \A i \in 1..Len(d) + Len(b) : e[i] = IF i <= Len(d) THEN d[i] ELSE b[i - Len(d)]
  <2>1. b \in Seq(S)
    OBVIOUS
  <2> HIDE DEF b
  <2> QED
    BY <2>1
<1> HIDE DEF n, t, b, e
<1> DEFINE less == [i \in 0..n - 1 |-> cut[i + 1]]
<1>4. \A i \in 0..n - 1 : i + 1 \in 0..n
  BY ONLY <1>2
<1>5. less \in [0..n - 1 -> 0..Len(w)]
  BY Zenon, <1>4
<1>6. less[0] = cut[1] /\ less[n - 1] = cut[n] /\ \A i \in 0..n - 1 : less[i] = cut[i + 1]
  <2>1. 0 \in 0..n - 1 /\ n - 1 \in 0..n - 1 /\ n - 1 + 1 = n /\ 0 + 1 = 1
    BY ONLY <1>2
  <2> QED
    BY SMTT(40), <1>2, <2>1
<1> HIDE DEF less
<1>7. /\ cut[1] = Len(d) + Len(b) /\ \A j \in 1..Len(b) : b[j] = w[Len(d) + j]
  <2>1. PICK h \in 1..n : h = 1 /\ h - 1 = 0
    BY ONLY <1>2
  <2>2. /\ cut[h] = cut[h - 1] + Len(s[h].by)
        /\ \A j \in 1..Len(s[h].by) : s[h].by[j] = w[cut[h - 1] + j]
    BY Zenon, <1>1
  <2>3. cut[h - 1] = Len(d) /\ s[h].by = b /\ cut[h] = cut[1]
    BY Zenon, <1>1, <1>2, <2>1
  <2> QED
    BY Zenon, <2>2, <2>3
<1>8. \A j \in 1..Len(e) : e[j] = w[j]
  <2> SUFFICES ASSUME NEW j \in 1..Len(d) + Len(b) PROVE e[j] = w[j]
    BY Zenon, <1>3
  <2>1. (j \in 1..Len(d) /\ j <= Len(d))
        \/ (~(j <= Len(d)) /\ j - Len(d) \in 1..Len(b) /\ Len(d) + (j - Len(d)) = j)
    BY ONLY <1>3, j \in 1..Len(d) + Len(b)
  <2>2. e[j] = IF j <= Len(d) THEN d[j] ELSE b[j - Len(d)]
    BY Zenon, <1>3
  <2>3. CASE j \in 1..Len(d) /\ j <= Len(d)
    BY Zenon, <1>1, <2>2, <2>3
  <2>4. CASE ~(j <= Len(d)) /\ j - Len(d) \in 1..Len(b) /\ Len(d) + (j - Len(d)) = j
    <3>1. b[j - Len(d)] = w[Len(d) + (j - Len(d))]
      BY Zenon, <1>7, <2>4
    <3> QED
      BY Zenon, <2>2, <2>4, <3>1
  <2> QED
    BY Zenon, <2>1, <2>3, <2>4
<1>9. ASSUME NEW i \in 1..n - 1
      PROVE  /\ less[i] = less[i - 1] + Len(t[i].by)
             /\ \A j \in 1..Len(t[i].by) : t[i].by[j] = w[less[i - 1] + j]
  <2>1. i \in 0..n - 1 /\ i - 1 \in 0..n - 1 /\ i + 1 \in 1..n /\ i - 1 + 1 = i /\ i + 1 - 1 = i
    BY ONLY <1>2, i \in 1..n - 1
  <2>2. less[i] = cut[i + 1] /\ less[i - 1] = cut[i] /\ t[i] = s[i + 1]
    BY Zenon, <1>2, <1>6, <2>1
  <2>3. PICK h \in 1..n : h = i + 1 /\ h - 1 = i
    BY ONLY <2>1
  <2>4. /\ cut[h] = cut[h - 1] + Len(s[h].by)
        /\ \A j \in 1..Len(s[h].by) : s[h].by[j] = w[cut[h - 1] + j]
    BY Zenon, <1>1
  <2>5. less[i] = cut[h] /\ less[i - 1] = cut[h - 1] /\ t[i] = s[h]
    BY Zenon, <2>2, <2>3
  <2> QED
    BY Zenon, <2>4, <2>5
<1>10. Follows(e, t, w, k)
  <2>1. less \in [0..Len(t) -> 0..Len(w)] /\ less[Len(t)] = k /\ less[0] = Len(e)
    BY Zenon, <1>1, <1>2, <1>3, <1>5, <1>6, <1>7
  <2>2. \A i \in 1..Len(t) : /\ less[i] = less[i - 1] + Len(t[i].by)
                             /\ \A j \in 1..Len(t[i].by) : t[i].by[j] = w[less[i - 1] + j]
    BY Zenon, <1>2, <1>9
  <2> QED
    BY Zenon, <1>8, <2>1, <2>2 DEF Follows
<1> QED
  BY Zenon, <1>10 DEF e, b, t

\* Nothing follows nothing.
LEMMA FollowsNothing ==
  ASSUME NEW C, NEW w \in Seq(C)
  PROVE  Follows(<<>>, <<>>, w, 0)
<1> DEFINE e == <<>>
<1> DEFINE cut == [i \in 0..0 |-> 0]
<1>1. cut \in [0..Len(e) -> 0..Len(w)] /\ cut[0] = Len(e) /\ cut[Len(e)] = 0
  OBVIOUS
<1>2. \A i \in 1..Len(e) : FALSE
  OBVIOUS
<1> HIDE DEF cut, e
<1>3. Follows(e, e, w, 0)
  BY Zenon, <1>1, <1>2 DEF Follows
<1> QED
  BY Zenon, <1>3 DEF e

Writing(c) == pc[c] \in {"executed", "picked", "sending"}

\* A step that leaves the keyspace alone and, for every replica that goes on
\* being fed, what it has been sent.
LEMMA QuietKeepsWhole ==
  ASSUME Whole, store' = store, built' = built,
         \A c \in Clients : Writing(c)' => Writing(c),
         \A r \in Replicas : serve'[r] = "built" => serve[r] = "built",
         \A r \in Replicas : Live(r)' =>
            Live(r) /\ Base(r)' = Base(r) /\ down'[r] = down[r] /\ Unsent(r)' = Unsent(r)
  PROVE  Whole'
<1>1. \A r \in Replicas : Live(r)' => Passed(r)' = Passed(r)
  BY Zenon DEF Passed
<1>2. \A r \in Replicas : Live(r)' => Follows(Base(r), down[r], store, Passed(r))'
  <2> SUFFICES ASSUME NEW r \in Replicas, Live(r)' PROVE Follows(Base(r), down[r], store, Passed(r))'
    BY Zenon
  <2>1. /\ Follows(Base(r), down[r], store, Passed(r))
        /\ Base(r)' = Base(r) /\ down'[r] = down[r] /\ Passed(r)' = Passed(r)
    BY Zenon, <1>1 DEF Whole
  <2> QED
    BY Zenon, <2>1
<1> QED
  BY Zenon, <1>2 DEF Whole, Writing

\* Steps of clients that send nothing.
LEMMA ClientsKeepWhole ==
  ASSUME StreamInv, WaitInv, InOrder, Whole, NEW c \in Clients,
         \/ PickPeers(c) \/ AdvanceMasterOffset(c) \/ RecordWriteOffset(c)
         \/ AdvanceForGetAck(c) \/ PickPeersForGetAck(c) \/ AskedAll(c)
         \/ CountWithNotify(c) \/ Woken(c) \/ WaitTimeout(c)
         \/ \E n \in Needs, t \in {"zero", "some"} : Wait(c, n, t)
  PROVE  Whole'
<1> USE DEF storeVars, peerVars, connVars, replicaVars
<1>1. UNCHANGED <<store, built, serve, down, link, data>>
  BY Zenon DEF PickPeers, AdvanceMasterOffset, RecordWriteOffset, AdvanceForGetAck,
         PickPeersForGetAck, AskedAll, CountWithNotify, Woken, WaitTimeout, Wait
<1>2. \A d \in Clients : d # c => pc'[d] = pc[d] /\ todo'[d] = todo[d]
  BY Zenon DEF PickPeers, AdvanceMasterOffset, RecordWriteOffset, AdvanceForGetAck,
         PickPeersForGetAck, AskedAll, CountWithNotify, Woken, WaitTimeout, Wait, Answer,
         StreamInv, StreamTypes, WaitInv, WaitTypes
<1>3. \/ pc[c] = "executed" /\ pc'[c] = "picked"
      \/ pc[c] = "picked" /\ pc'[c] = "sending" /\ todo' = todo
      \/ pc[c] = "sending" /\ todo[c] = {} /\ ~Writing(c)'
      \/ ~Writing(c) /\ ~Writing(c)'
  BY ZenonT(40) DEF PickPeers, AdvanceMasterOffset, RecordWriteOffset, AdvanceForGetAck,
         PickPeersForGetAck, AskedAll, CountWithNotify, Woken, WaitTimeout, Wait, Answer,
         WaitInv, WaitTypes, Writing
<1>4. \A r \in Replicas : pc[c] = "picked" /\ Live(r) => r \in todo[c]
  BY Zenon DEF InOrder, Numbered
<1>5. \A r \in Replicas : (Live(r)' <=> Live(r)) /\ Base(r)' = Base(r)
  BY Zenon, <1>1 DEF Live, Base
<1>6. ASSUME NEW r \in Replicas, Live(r) PROVE Unsent(r)' = Unsent(r)
  <2>1. ASSUME NEW d \in Clients PROVE d \in Unsent(r)' <=> d \in Unsent(r)
    <3>1. CASE d # c
      BY Zenon, <1>2, <3>1 DEF Unsent
    <3>2. CASE d = c
      BY Zenon, <1>3, <1>4, <1>6, <3>2 DEF Unsent, Writing
    <3> QED
      BY Zenon, <3>1, <3>2
  <2> QED
    BY Zenon, <2>1 DEF Unsent
<1>7. \A d \in Clients : Writing(d)' => Writing(d)
  BY Zenon, <1>2, <1>3 DEF Writing
<1> QED
  BY Zenon, <1>1, <1>5, <1>6, <1>7, QuietKeepsWhole

\* Steps of connections that send nothing to a replica that goes on being fed.
LEMMA ConnectionsKeepWhole ==
  ASSUME StreamInv, Whole, NEW r \in Replicas,
         \/ Ping(r) \/ Auth(r) \/ ReplConfPort(r) \/ RegisterReplicaPeer(r)
         \/ ReadAck(r) \/ Teardown(r) \/ ApplyFails(r) \/ Break(r)
         \/ \E c \in Clients : WriteFails(c, r)
  PROVE  Whole'
<1> USE DEF storeVars, clientVars, peerVars, connVars, replicaVars
<1>1. UNCHANGED <<store, built, pc, data>>
  <2>1. CASE Ping(r) \/ Auth(r) \/ ReplConfPort(r)
    BY Zenon, <2>1 DEF Ping, Auth, ReplConfPort, Continue
  <2>2. CASE RegisterReplicaPeer(r) \/ ReadAck(r) \/ Teardown(r)
    BY Zenon, <2>2 DEF RegisterReplicaPeer, ReadAck, Teardown
  <2>3. CASE ApplyFails(r) \/ Break(r) \/ \E c \in Clients : WriteFails(c, r)
    BY Zenon, <2>3 DEF ApplyFails, Break, WriteFails
  <2> QED
    BY Zenon, <2>1, <2>2, <2>3
<1>2. \A q \in Replicas : q # r =>
        /\ link'[q] = link[q] /\ serve'[q] = serve[q] /\ down'[q] = down[q]
        /\ \A c \in Clients : q \in todo'[c] <=> q \in todo[c]
  <2>0. StreamTypes
    BY Zenon DEF StreamInv
  <2>1. CASE Ping(r) \/ Auth(r) \/ ReplConfPort(r)
    BY Zenon, <2>0, <2>1 DEF Ping, Auth, ReplConfPort, Continue, Take, StreamTypes
  <2>2. CASE RegisterReplicaPeer(r) \/ ReadAck(r) \/ Teardown(r)
    BY Zenon, <2>0, <2>2 DEF RegisterReplicaPeer, ReadAck, Teardown, Take, StreamTypes
  <2>3. CASE ApplyFails(r) \/ Break(r)
    BY Zenon, <2>0, <2>3 DEF ApplyFails, Break, Take, StreamTypes
  <2>4. ASSUME NEW c \in Clients, WriteFails(c, r), NEW q \in Replicas, q # r
        PROVE  /\ link' = link /\ serve' = serve /\ down' = down
               /\ \A d \in Clients : q \in todo'[d] <=> q \in todo[d]
    <3>1. /\ link' = link /\ serve' = serve /\ down' = down
          /\ todo' = [todo EXCEPT ![c] = @ \ {r}]
      BY Zenon, <2>4 DEF WriteFails
    <3>2. \A d \in Clients : todo'[d] = todo[d] \/ todo'[d] = todo[d] \ {r}
      BY Zenon, <2>0, <3>1 DEF StreamTypes
    <3> QED
      BY Zenon, <2>4, <3>1, <3>2
  <2> QED
    BY Zenon, <2>1, <2>2, <2>3, <2>4
<1>3. \/ Live(r)' /\ Live(r) /\ link'[r] = link[r] /\ down'[r] = down[r] /\ todo' = todo
      \/ ~Live(r)'
  BY Zenon DEF Ping, Auth, ReplConfPort, Continue, RegisterReplicaPeer, ReadAck, Teardown,
         ApplyFails, Break, WriteFails, Live, StreamInv, StreamTypes, InStep, Handshake
<1>4. serve'[r] = "built" => serve[r] = "built"
  BY Zenon DEF Ping, Auth, ReplConfPort, Continue, RegisterReplicaPeer, ReadAck, Teardown,
         ApplyFails, Break, WriteFails, StreamInv, StreamTypes
<1>5. ASSUME NEW q \in Replicas, Live(q)'
      PROVE  Live(q) /\ Base(q)' = Base(q) /\ down'[q] = down[q] /\ Unsent(q)' = Unsent(q)
  BY Zenon, <1>1, <1>2, <1>3, <1>5 DEF Live, Base, Unsent
<1> QED
  BY Zenon, <1>1, <1>2, <1>4, <1>5, QuietKeepsWhole DEF Writing

\* What a fed replica's stream consists of.
LEMMA FedTypes ==
  ASSUME StreamInv, CountTypes, NEW r \in Replicas
  PROVE  /\ Base(r) \in Seq(Clients \cup Replicas) /\ down[r] \in Seq(Items)
         /\ store \in Seq(Clients) /\ Len(store) \in Nat
<1>1. <<>> \in Seq(Clients \cup Replicas)
  OBVIOUS
<1>2. store \in Seq(Clients)
  BY Zenon DEF StreamInv, StreamTypes
<1>3. Len(store) \in Nat
  BY <1>2
<1> QED
  BY Zenon, <1>1, <1>2, <1>3 DEF StreamInv, StreamTypes, CountTypes, Base

\* A write while nothing is sent and nobody joins.
LEMMA ExecuteKeepsWhole ==
  ASSUME StreamInv, WaitInv, CountTypes, InOrder, Whole, NEW c \in Clients, Execute(c), overlap' = "no"
  PROVE  Whole'
<1> USE DEF storeVars, peerVars, connVars, replicaVars
<1>1. /\ UNCHANGED <<built, serve, down, link, data, todo>> /\ store' = Append(store, c)
      /\ pc' = [pc EXCEPT ![c] = "executed"]
      /\ ~SomeSending /\ ~SomeJoining
  BY Zenon DEF Execute, MarkOverlap
<1>2. \A d \in Clients : IF d = c THEN Writing(d)' ELSE ~Writing(d)'
  BY Zenon, <1>1 DEF SomeSending, Sending, Writing, WaitInv, WaitTypes
<1>3. \A d \in Clients : ~Writing(d)
  BY Zenon, <1>1 DEF SomeSending, Sending, Writing
<1>4. store \in Seq(Clients) /\ Len(store) \in Nat
  BY FedTypes DEF StreamInv, StreamTypes
<1>5. Len(store') = Len(store) + 1 /\ store'[Len(store) + 1] = c
  BY <1>1, <1>4
<1>6. Len(store') > 0 /\ Len(store') - 1 = Len(store)
  BY ONLY <1>4, <1>5
<1>7. \A r \in Replicas : Unsent(r) = {} /\ c \in Unsent(r)'
  BY Zenon, <1>1, <1>2, <1>3 DEF Unsent, Writing, WaitInv, WaitTypes
<1>8. \A r \in Replicas : Passed(r)' = Passed(r)
  BY Zenon, <1>6, <1>7 DEF Passed
<1>9. \A r \in Replicas : (Live(r)' <=> Live(r)) /\ Base(r)' = Base(r)
  BY Zenon, <1>1 DEF Live, Base
<1>10. ASSUME NEW r \in Replicas, Live(r) PROVE Follows(Base(r), down[r], store, Passed(r))'
  <2>1. Follows(Base(r), down[r], Append(store, c), Passed(r))
    BY Zenon, <1>10, FedTypes, FollowsLonger DEF Whole
  <2> QED
    BY Zenon, <1>1, <1>8, <1>9, <2>1
<1>11. \A r \in Replicas : serve'[r] # "built"
  BY Zenon, <1>1 DEF SomeJoining, Joining
<1>12. \A d \in Clients : Writing(d)' => Len(store') > 0 /\ store'[Len(store')] = d
  BY Zenon, <1>2, <1>5, <1>6
<1> QED
  BY Zenon, <1>9, <1>10, <1>11, <1>12 DEF Whole, Writing

\* A frame of the fan-out in progress.
LEMMA SendingKeepsWhole ==
  ASSUME StreamInv, WaitInv, CountTypes, InOrder, Whole, NEW c \in Clients, NEW r \in Replicas,
         WriteToReplica(c, r)
  PROVE  Whole'
<1> USE DEF storeVars, peerVars, connVars, replicaVars, clientVars
<1>1. /\ UNCHANGED <<link, serve, built, data, pc, store>>
      /\ pc[c] \in {"sending", "asking"} /\ r \in todo[c]
  BY Zenon DEF WriteToReplica
<1>2. /\ r \notin todo'[c]
      /\ \A q \in Replicas : q # r => (q \in todo'[c] <=> q \in todo[c])
      /\ \A d \in Clients : d # c => todo'[d] = todo[d]
  BY Zenon DEF WriteToReplica, StreamInv, StreamTypes
<1>3. /\ \A q \in Replicas : q # r => down'[q] = down[q]
      /\ Live(r) => down'[r] = Append(down[r], Frame(c))
  BY Zenon DEF WriteToReplica, StreamInv, StreamTypes, InStep, Live
<1>4. \A q \in Replicas : (Live(q)' <=> Live(q)) /\ Base(q)' = Base(q)
  BY Zenon, <1>1 DEF Live, Base
<1>5. \A q \in Replicas : q # r => Unsent(q)' = Unsent(q)
  <2> SUFFICES ASSUME NEW q \in Replicas, q # r PROVE Unsent(q)' = Unsent(q)
    BY Zenon
  <2>1. \A d \in Clients : q \in todo'[d] <=> q \in todo[d]
    BY Zenon, <1>2
  <2> QED
    BY Zenon, <1>1, <2>1 DEF Unsent
<1>6. \A q \in Replicas : Live(q) /\ q # r => Follows(Base(q), down[q], store, Passed(q))'
  <2>1. \A q \in Replicas : q # r => Passed(q)' = Passed(q)
    BY Zenon, <1>1, <1>5 DEF Passed
  <2> QED
    BY Zenon, <1>1, <1>3, <1>4, <2>1 DEF Whole
<1>7. \A d \in Clients : Sending(d) => d = c
  BY Zenon, <1>1 DEF InOrder, Alone, Sending
<1>8. Frame(c) \in Items
  BY Zenon, FramesAreItems
<1>9. ASSUME Live(r) PROVE Follows(Base(r), down[r], store, Passed(r))'
  <2> DEFINE k == Passed(r)
  <2>1. Follows(Base(r), down[r], store, k) /\ Base(r)' = Base(r)
        /\ down'[r] = Append(down[r], Frame(c))
    BY Zenon, <1>3, <1>4, <1>9 DEF Whole
  <2>2. /\ k + Len(Frame(c).by) = Passed(r)' /\ Passed(r)' \in 0..Len(store)
        /\ \A j \in 1..Len(Frame(c).by) : Frame(c).by[j] = store[k + j]
    <3>1. CASE pc[c] = "sending"
      <4>1. c \in Unsent(r) /\ Unsent(r)' = {}
        BY Zenon, <1>1, <1>2, <1>7, <3>1 DEF Unsent, Sending
      <4>2. k = Len(store) - 1 /\ Passed(r)' = Len(store)
        BY Zenon, <1>1, <4>1 DEF Passed
      <4>3. Len(store) > 0 /\ store[Len(store)] = c /\ Len(store) \in Nat
        BY Zenon, <3>1, FedTypes DEF Whole
      <4>4. Frame(c).by = <<c>>
        BY Zenon, <3>1 DEF Frame, WriteFrame
      <4> HIDE DEF k
      <4>5. k + 1 = Len(store) /\ Passed(r)' \in 0..Len(store)
        BY ONLY <4>2, <4>3
      <4>6. Len(<<c>>) = 1 /\ \A j \in 1..1 : j = 1 /\ <<c>>[j] = c
        OBVIOUS
      <4> QED
        BY Zenon, <4>2, <4>3, <4>4, <4>5, <4>6
    <3>2. CASE pc[c] = "asking"
      <4>1. Unsent(r)' = Unsent(r) /\ Unsent(r) = {}
        BY Zenon, <1>1, <1>7, <3>2 DEF Unsent, Sending
      <4>2. k = Len(store) /\ Passed(r)' = Len(store)
        BY Zenon, <1>1, <4>1 DEF Passed
      <4>3. Frame(c).by = <<>>
        BY Zenon, <3>2 DEF Frame, GetAck
      <4>4. Len(store) \in Nat
        BY Zenon, FedTypes
      <4> HIDE DEF k
      <4>5. k + 0 = Len(store) /\ Passed(r)' \in 0..Len(store)
        BY ONLY <4>2, <4>4
      <4>6. Len(<<>>) = 0 /\ \A j \in 1..0 : FALSE
        OBVIOUS
      <4> QED
        BY Zenon, <4>2, <4>3, <4>5, <4>6
    <3> QED
      BY Zenon, <1>1, <3>1, <3>2
  <2> HIDE DEF k
  <2>3. Follows(Base(r), Append(down[r], Frame(c)), store, k + Len(Frame(c).by))
    BY Zenon, <1>8, <2>1, <2>2, FedTypes, FollowsNext
  <2> QED
    BY Zenon, <1>1, <2>1, <2>2, <2>3
<1> QED
  BY Zenon, <1>1, <1>4, <1>6, <1>9 DEF Whole

\* The snapshot is built and written while nothing is sent.
LEMMA JoiningKeepsWhole ==
  ASSUME StreamInv, WaitInv, CountTypes, InOrder, Whole, NEW r \in Replicas,
         PSync(r) \/ WriteResync(r)
  PROVE  Whole'
<1> USE DEF storeVars, peerVars, connVars, replicaVars, clientVars
<1>1. UNCHANGED <<data, pc, store, todo>>
  BY Zenon DEF PSync, WriteResync
<1>2. \A q \in Replicas : q # r =>
        link'[q] = link[q] /\ serve'[q] = serve[q] /\ down'[q] = down[q] /\ built'[q] = built[q]
  BY Zenon DEF PSync, WriteResync, StreamInv, StreamTypes
<1>3. \A q \in Replicas : Unsent(q)' = Unsent(q) /\ Passed(q)' = Passed(q)
  BY Zenon, <1>1 DEF Unsent, Passed
<1>4. ASSUME NEW q \in Replicas, q # r, Live(q)'
      PROVE  Follows(Base(q), down[q], store, Passed(q))'
  <2>1. Live(q) /\ Base(q)' = Base(q)
    BY Zenon, <1>1, <1>2, <1>4 DEF Live, Base
  <2> QED
    BY Zenon, <1>1, <1>2, <1>3, <1>4, <2>1 DEF Whole
<1>5. serve'[r] = "built" => built'[r] = store'
  BY Zenon, <1>1 DEF PSync, WriteResync, StreamInv, StreamTypes
<1>6. ASSUME Live(r)' PROVE Follows(Base(r), down[r], store, Passed(r))'
  <2>1. /\ serve[r] = "built" /\ link'[r] = "resync" /\ down[r] = <<>> /\ r \in intact
        /\ WriteResync(r)
    BY Zenon, <1>6 DEF PSync, WriteResync, Live, StreamInv, StreamTypes, InStep, Handshake
  <2> DEFINE f == Resync(store)
  <2>2. down'[r] = Append(<<>>, f)
    BY Zenon, <2>1 DEF WriteResync, Whole, StreamInv, StreamTypes
  <2>3. Base(r)' = <<>>
    BY Zenon, <2>1 DEF Base
  <2>4. Unsent(r) = {}
    BY Zenon, <2>1 DEF Unsent, InOrder, Alone, Sending, Joining
  <2>5. Passed(r)' = Len(store)
    BY Zenon, <1>3, <2>4 DEF Passed
  <2>6. store \in Seq(Clients) /\ Len(store) \in Nat
    BY Zenon, FedTypes
  <2>7. f \in Items /\ f.by = store
    BY <2>6 DEF Items, Resync
  <2>8. 0 + Len(store) = Len(store) /\ Len(store) \in 0..Len(store)
        /\ \A j \in 1..Len(store) : 0 + j = j
    BY ONLY <2>6
  <2>9. <<>> \in Seq(Clients) /\ <<>> \in Seq(Items)
    OBVIOUS
  <2> HIDE DEF f
  <2>10. Follows(<<>>, Append(<<>>, f), store, 0 + Len(f.by))
    <3>1. Follows(<<>>, <<>>, store, 0)
      BY Zenon, <2>6, FollowsNothing
    <3>2. 0 + Len(f.by) \in 0..Len(store) /\ \A j \in 1..Len(f.by) : f.by[j] = store[0 + j]
      BY Zenon, <2>7, <2>8
    <3> QED
      BY Zenon, <2>6, <2>7, <2>9, <3>1, <3>2, FollowsNext
  <2>11. 0 + Len(f.by) = Passed(r)'
    BY Zenon, <2>5, <2>7, <2>8
  <2> QED
    BY Zenon, <1>1, <2>2, <2>3, <2>10, <2>11
<1>7. \A q \in Replicas : serve'[q] = "built" => built'[q] = store'
  BY Zenon, <1>1, <1>2, <1>5 DEF Whole
<1> QED
  BY Zenon, <1>1, <1>4, <1>6, <1>7 DEF Whole

\* The replica takes the next item: the snapshot, or a frame.
LEMMA ApplyingKeepsWhole ==
  ASSUME StreamInv, WaitInv, CountTypes, InOrder, Whole, NEW r \in Replicas,
         ConsumeFullResync(r) \/ Apply(r)
  PROVE  Whole'
<1> USE DEF storeVars, peerVars, connVars, replicaVars, clientVars
<1>1. UNCHANGED <<serve, built, pc, store, todo>>
  BY Zenon DEF ConsumeFullResync, Apply
<1>2. \A q \in Replicas : q # r =>
        link'[q] = link[q] /\ down'[q] = down[q] /\ data'[q] = data[q]
  BY ZenonT(40) DEF ConsumeFullResync, Apply, Take, StreamInv, StreamTypes, CountTypes
<1>3. \A q \in Replicas : Unsent(q)' = Unsent(q) /\ Passed(q)' = Passed(q)
  BY Zenon, <1>1 DEF Unsent, Passed
<1>4. ASSUME NEW q \in Replicas, q # r, Live(q)'
      PROVE  Follows(Base(q), down[q], store, Passed(q))'
  <2>1. Live(q) /\ Base(q)' = Base(q)
    BY Zenon, <1>1, <1>2, <1>4 DEF Live, Base
  <2> QED
    BY Zenon, <1>1, <1>2, <1>3, <1>4, <2>1 DEF Whole
<1>5. ASSUME Live(r)' PROVE Follows(Base(r), down[r], store, Passed(r))'
  <2>1. down[r] # <<>> /\ down'[r] = Tail(down[r]) /\ Live(r)
    BY Zenon DEF ConsumeFullResync, Apply, Take, Live, StreamInv, StreamTypes, InStep
  <2>2. /\ down[r] \in Seq(Items) /\ Base(r) \in Seq(Clients \cup Replicas) /\ store \in Seq(Clients)
    BY Zenon, FedTypes
  <2>3. Head(down[r]).by \in Seq(Clients)
    <3>1. \A s \in Seq(Items) : s # <<>> => Head(s) \in Items
      OBVIOUS
    <3>2. Head(down[r]) \in Items
      BY Zenon, <2>1, <2>2, <3>1
    <3> QED
      BY ONLY <3>2 DEF Items
  <2>4. /\ Head(down[r]).by \in Seq(Clients \cup Replicas)
        /\ <<>> \o Head(down[r]).by = Head(down[r]).by
    <3>1. ASSUME NEW b \in Seq(Clients) PROVE b \in Seq(Clients \cup Replicas) /\ <<>> \o b = b
      OBVIOUS
    <3> QED
      BY Zenon, <2>3, <3>1
  <2>5. Base(r)' = Base(r) \o Head(down[r]).by
    <3>1. CASE ConsumeFullResync(r)
      <4>1. link[r] = "resync" /\ link'[r] = "streaming" /\ data'[r] = Head(down[r]).by
        BY Zenon, <1>5, <3>1 DEF ConsumeFullResync, Live, StreamInv, StreamTypes, InStep, CountTypes
      <4> QED
        BY Zenon, <2>4, <4>1 DEF Base
    <3>2. CASE Apply(r)
      <4>1. link[r] = "streaming" /\ link'[r] = "streaming" /\ data'[r] = data[r] \o Head(down[r]).by
        BY Zenon, <3>2 DEF Apply, CountTypes
      <4> QED
        BY Zenon, <4>1 DEF Base
    <3> QED
      BY Zenon, <3>1, <3>2
  <2>6. Follows(Base(r), down[r], store, Passed(r))
    BY Zenon, <2>1 DEF Whole
  <2>7. Follows(Base(r) \o Head(down[r]).by, Tail(down[r]), store, Passed(r))
    BY Zenon, <2>1, <2>2, <2>4, <2>6, FollowsApplied
  <2> QED
    BY Zenon, <1>1, <1>3, <2>1, <2>5, <2>7
<1> QED
  BY Zenon, <1>1, <1>4, <1>5 DEF Whole

\* Every step that does not overlap keeps the streams whole.
LEMMA StepKeepsWhole ==
  StreamInv /\ WaitInv /\ CountInv /\ WholeInv /\ [Next]_vars => WholeInv'
<1> SUFFICES ASSUME StreamInv, WaitInv, CountInv, WholeInv, [Next]_vars, overlap' = "no"
    PROVE  Whole'
  BY Zenon DEF WholeInv
<1>1. CASE Next
  <2>1. overlap = "no"
    BY Zenon, <1>1, OverlapStays
  <2>2. InOrder /\ CountTypes /\ Whole
    BY Zenon, <2>1 DEF CountInv, WholeInv
  <2>3. ASSUME NEW c \in Clients, ExecuteUnlogged(c) PROVE FALSE
    BY Zenon, <2>3 DEF ExecuteUnlogged
  <2> QED
    BY ZenonT(40), <1>1, <2>2, <2>3, ClientsKeepWhole, ConnectionsKeepWhole, ExecuteKeepsWhole,
       SendingKeepsWhole, JoiningKeepsWhole, ApplyingKeepsWhole DEF Next
<1>2. CASE UNCHANGED vars
  <2>1. Whole /\ UNCHANGED <<store, built, pc, serve, link, data, down, todo>>
    BY Zenon, <1>2 DEF vars, storeVars, peerVars, connVars, replicaVars, clientVars, WholeInv
  <2>2. \A r \in Replicas : /\ Live(r)' <=> Live(r)
                            /\ Base(r)' = Base(r) /\ Unsent(r)' = Unsent(r)
    BY Zenon, <2>1 DEF Live, Base, Unsent
  <2> QED
    BY Zenon, <2>1, <2>2, QuietKeepsWhole DEF Writing
<1> QED
  BY Zenon, <1>1, <1>2

LEMMA InitWhole == Init => WholeInv
<1> SUFFICES ASSUME Init PROVE Whole
  BY Zenon DEF WholeInv
<1>1. PICK start \in Starts :
        /\ pc = [c \in Clients |-> IF c \in start.writers THEN "idle" ELSE "absent"]
        /\ serve = [r \in Replicas |-> CASE r \in start.joined -> "acks"
                                         [] r \in start.late -> "commands"
                                         [] OTHER -> "closed"]
        /\ link = [r \in Replicas |-> CASE r \in start.joined -> "streaming"
                                        [] r \in start.late -> "ping"
                                        [] OTHER -> "ended"]
        /\ data = [r \in Replicas |-> IF r \in start.late THEN <<r>> ELSE <<>>]
        /\ store = <<>> /\ down = [r \in Replicas |-> <<>>]
  BY Zenon DEF Init
<1>2. start.joined \cap start.late = {}
  BY Zenon, StartsAssumption
<1>3. \A c \in Clients : pc[c] \in {"idle", "absent"}
  BY Zenon, <1>1
<1>4. \A r \in Replicas : /\ serve[r] # "built" /\ down[r] = <<>>
                          /\ Live(r) => link[r] = "streaming" /\ data[r] = <<>>
  BY Zenon, <1>1, <1>2 DEF Live
<1>5. \A r \in Replicas : Unsent(r) = {}
  BY Zenon, <1>3 DEF Unsent
<1>6. store \in Seq(Clients) /\ Len(store) = 0
  BY <1>1
<1>7. \A r \in Replicas : Live(r) => Base(r) = <<>> /\ Passed(r) = 0
  BY Zenon, <1>4, <1>5, <1>6 DEF Base, Passed
<1>8. Follows(<<>>, <<>>, store, 0)
  BY Zenon, <1>6, FollowsNothing
<1> QED
  BY Zenon, <1>3, <1>4, <1>7, <1>8 DEF Whole

\* A keyspace is the part of the master's that it agrees with.
LEMMA AgreedPart ==
  ASSUME NEW S, NEW C, NEW w \in Seq(C), NEW b \in Seq(S), NEW m \in 0..Len(w), m + Len(b) \in 0..Len(w),
         \A j \in 1..Len(b) : b[j] = w[m + j]
  PROVE  b = SubSeq(w, m + 1, m + Len(b))
  OBVIOUS

LEMMA AgreedStart ==
  ASSUME NEW S, NEW C, NEW w \in Seq(C), NEW b \in Seq(S), Len(b) \in 0..Len(w),
         \A j \in 1..Len(b) : b[j] = w[j]
  PROVE  b = SubSeq(w, 1, Len(b))
  OBVIOUS

\* A replica that is fed has exactly the master's writes, applied or on their
\* way, but for the write in progress.
LEMMA WholeIsComplete ==
  ASSUME StreamInv, CountTypes, WholeInv
  PROVE  StreamIsComplete
<1> SUFFICES ASSUME NEW r \in registered, overlap = "no", link[r] = "streaming"
    PROVE  \E cut \in [0..Len(down[r]) -> 0..Len(store)] :
                /\ Continues(r, cut)
                /\ \A i \in cut[Len(down[r])] + 1..Len(store) : store[i] \in Unsent(r)
  BY Zenon DEF StreamIsComplete
<1> DEFINE d == data[r]
<1> DEFINE s == down[r]
<1>1. r \in Replicas /\ Live(r) /\ Whole /\ Base(r) = d
  BY Zenon DEF StreamInv, StreamTypes, WholeInv, Live, Base
<1>2. d \in Seq(Clients \cup Replicas) /\ s \in Seq(Items) /\ store \in Seq(Clients) /\ Len(store) \in Nat
  BY Zenon, <1>1, FedTypes
<1>3. PICK cut \in [0..Len(s) -> 0..Len(store)] :
        /\ cut[0] = Len(d) /\ cut[Len(s)] = Passed(r)
        /\ \A j \in 1..Len(d) : d[j] = store[j]
        /\ \A i \in 1..Len(s) :
              /\ cut[i] = cut[i - 1] + Len(s[i].by)
              /\ \A j \in 1..Len(s[i].by) : s[i].by[j] = store[cut[i - 1] + j]
  <2>1. Follows(d, s, store, Passed(r))
    BY Zenon, <1>1 DEF Whole
  <2> HIDE DEF d, s
  <2> QED
    BY Zenon, <2>1 DEF Follows
<1>4. Len(s) \in Nat /\ Len(d) \in Nat /\ \A i \in 1..Len(s) : s[i].by \in Seq(Clients)
  <2>1. \A i \in 1..Len(s) : s[i] \in Items
    BY <1>2
  <2>2. \A f \in Items : f.by \in Seq(Clients)
    BY DEF Items
  <2>3. Len(s) \in Nat /\ Len(d) \in Nat
    BY <1>2
  <2> QED
    BY Zenon, <2>1, <2>2, <2>3
<1> HIDE DEF d, s
<1>5. d = SubSeq(store, 1, cut[0])
  <2>1. 0 \in 0..Len(s)
    BY ONLY <1>4
  <2>2. cut[0] = Len(d) /\ cut[0] \in 0..Len(store)
    BY Zenon, <1>3, <2>1
  <2>3. Len(d) \in 0..Len(store) /\ \A j \in 1..Len(d) : d[j] = store[j]
    BY Zenon, <1>3, <2>2
  <2>4. d = SubSeq(store, 1, Len(d))
    BY ONLY Zenon, <1>2, <2>3, AgreedStart
  <2> QED
    BY ONLY Zenon, <2>2, <2>4
<1>6. ASSUME NEW i \in 1..Len(s)
      PROVE  /\ cut[i] = cut[i - 1] + Len(s[i].by)
             /\ s[i].by = SubSeq(store, cut[i - 1] + 1, cut[i])
  <2>1. i \in 0..Len(s) /\ i - 1 \in 0..Len(s)
    BY ONLY <1>4, i \in 1..Len(s)
  <2>2. /\ cut[i - 1] \in 0..Len(store) /\ cut[i] \in 0..Len(store)
        /\ cut[i] = cut[i - 1] + Len(s[i].by)
        /\ \A j \in 1..Len(s[i].by) : s[i].by[j] = store[cut[i - 1] + j]
    BY Zenon, <1>3, <2>1
  <2>3. s[i].by = SubSeq(store, cut[i - 1] + 1, cut[i - 1] + Len(s[i].by))
    <3> DEFINE b == s[i].by
    <3> DEFINE m == cut[i - 1]
    <3>1. /\ m \in 0..Len(store) /\ m + Len(b) \in 0..Len(store) /\ b \in Seq(Clients)
          /\ \A j \in 1..Len(b) : b[j] = store[m + j]
      BY Zenon, <1>4, <2>2
    <3> HIDE DEF b, m
    <3>2. b = SubSeq(store, m + 1, m + Len(b))
      BY Zenon, <1>2, <3>1, AgreedPart
    <3> QED
      BY Zenon, <3>2 DEF b, m
  <2> QED
    BY Zenon, <2>2, <2>3
<1>7. Continues(r, cut)
  BY Zenon, <1>3, <1>5, <1>6 DEF Continues, d, s
<1>8. ASSUME NEW i \in cut[Len(s)] + 1..Len(store) PROVE store[i] \in Unsent(r)
  <2>1. CASE Unsent(r) = {}
    <3>1. cut[Len(s)] = Len(store)
      BY Zenon, <1>3, <2>1 DEF Passed
    <3> QED
      BY ONLY <1>2, <1>8, <3>1
  <2>2. CASE Unsent(r) # {}
    <3>1. cut[Len(s)] = Len(store) - 1
      BY Zenon, <1>3, <2>2 DEF Passed
    <3>2. i = Len(store)
      BY ONLY <1>2, <1>8, <3>1
    <3>3. PICK c \in Clients : c \in Unsent(r)
      BY Zenon, <2>2 DEF Unsent
    <3>4. store[Len(store)] = c
      BY Zenon, <1>1, <3>3 DEF Whole, Unsent
    <3> QED
      BY Zenon, <3>2, <3>3, <3>4
  <2> QED
    BY Zenon, <2>1, <2>2
<1> QED
  BY Zenon, <1>7, <1>8 DEF s

-----------------------------------------------------------------------------
(* WAIT: the number of the replicas counted, and the theorems.             *)

INSTANCE FiniteSetTheorems

\* The replicas WAIT counts are finitely many, so their number is comparable.
LEMMA CountIsNatural ==
  ASSUME registered \subseteq Replicas
  PROVE  \A n : Cardinality(AtOrAbove(n)) \in Nat
<1> SUFFICES ASSUME NEW n PROVE Cardinality(AtOrAbove(n)) \in Nat
  BY Zenon
<1>1. IsFiniteSet(AtOrAbove(n))
  BY Zenon, CountsAssumption, FS_Subset DEF AtOrAbove
<1> QED
  BY Zenon, <1>1, FS_CardinalityType

\* Steps that change neither what WAIT counts nor who sleeps.
LEMMA UncountedKeepsWaits ==
  ASSUME WaitInv, UNCHANGED <<registered, acked, woken>>, WaitTypes',
         \A c \in Clients : pc'[c] = "blocked" =>
             pc[c] = "blocked" /\ end'[c] = end[c] /\ need'[c] = need[c]
  PROVE  WaitInv'
  BY Zenon DEF WaitInv, NoMissedAck, AtOrAbove

\* A change of the registry wakes everybody who sleeps.
LEMMA NotifyKeepsWaits ==
  ASSUME WaitInv, Notify, registered' \subseteq Replicas, UNCHANGED <<pc, end, need, offset>>
  PROVE  WaitInv'
  BY Zenon DEF WaitInv, WaitTypes, NoMissedAck, Notify

\* Every step keeps a sleeping client short of replicas, or wakes it.
LEMMA StepKeepsWaits == WaitInv /\ [Next]_vars => WaitInv'
<1> SUFFICES ASSUME WaitInv, [Next]_vars PROVE WaitInv'
  BY Zenon
<1> USE DEF storeVars, peerVars, connVars, replicaVars, clientVars
<1>1. ASSUME NEW c \in Clients,
             \/ Execute(c) \/ ExecuteUnlogged(c) \/ PickPeers(c)
             \/ AdvanceMasterOffset(c) \/ RecordWriteOffset(c)
             \/ AdvanceForGetAck(c) \/ PickPeersForGetAck(c) \/ AskedAll(c)
             \/ \E n \in Needs, t \in {"zero", "some"} : Wait(c, n, t)
             \/ \E r \in Replicas : WriteToReplica(c, r)
      PROVE  WaitInv'
  <2>1. /\ UNCHANGED <<registered, acked, woken>>
        /\ \A d \in Clients : pc'[d] = "blocked" =>
              pc[d] = "blocked" /\ end'[d] = end[d] /\ need'[d] = need[d]
    <3>1. CASE \E n \in Needs, t \in {"zero", "some"} : Wait(c, n, t)
      BY ZenonT(40), <3>1 DEF Wait, Answer, WaitInv, WaitTypes
    <3>2. CASE AdvanceMasterOffset(c)
      BY Zenon, <3>2 DEF AdvanceMasterOffset, WaitInv, WaitTypes
    <3> QED
      BY ZenonT(40), <1>1, <3>1, <3>2
         DEF Execute, ExecuteUnlogged, PickPeers, RecordWriteOffset,
             AdvanceForGetAck, PickPeersForGetAck, AskedAll, WriteToReplica,
             WaitInv, WaitTypes
  <2>2. WaitTypes'
    <3>1. CASE \E n \in Needs, t \in {"zero", "some"} : Wait(c, n, t)
      BY ZenonT(40), <3>1, CountsAssumption DEF Wait, Answer, WaitInv, WaitTypes
    <3>2. CASE AdvanceMasterOffset(c)
      BY SMTT(40), <3>2 DEF AdvanceMasterOffset, WaitInv, WaitTypes
    <3>3. CASE \/ Execute(c) \/ ExecuteUnlogged(c) \/ PickPeers(c)
               \/ RecordWriteOffset(c)
      BY ZenonT(40), <3>3 DEF Execute, ExecuteUnlogged, PickPeers, RecordWriteOffset,
                  WaitInv, WaitTypes
    <3>4. CASE \/ AdvanceForGetAck(c) \/ PickPeersForGetAck(c) \/ AskedAll(c)
               \/ \E r \in Replicas : WriteToReplica(c, r)
      BY SMTT(40), <3>4 DEF AdvanceForGetAck, PickPeersForGetAck, AskedAll, WriteToReplica,
                  WaitInv, WaitTypes
    <3> QED
      BY ZenonT(40), <1>1, <3>1, <3>2, <3>3, <3>4
  <2> QED
    BY Zenon, <2>1, <2>2, UncountedKeepsWaits
<1>2. ASSUME NEW c \in Clients, CountWithNotify(c) PROVE WaitInv'
  <2>1. WaitTypes'
    BY Zenon, <1>2 DEF CountWithNotify, Answer, WaitInv, WaitTypes
  <2>2. \A n : AtOrAbove(n)' = AtOrAbove(n)
    BY ZenonT(40), <1>2 DEF CountWithNotify, AtOrAbove
  <2>3. pc'[c] = "blocked" => Cardinality(AtOrAbove(end[c])) < need[c]
    BY SMTT(40), <1>2, CountIsNatural DEF CountWithNotify, Answer, WaitInv, WaitTypes
  <2>4. NoMissedAck'
    BY Zenon, <1>2, <2>2, <2>3 DEF CountWithNotify, Answer, WaitInv, WaitTypes, NoMissedAck, AtOrAbove
  <2> QED
    BY Zenon, <2>1, <2>4 DEF WaitInv
<1>3. ASSUME NEW c \in Clients, Woken(c) \/ WaitTimeout(c) PROVE WaitInv'
  BY Zenon, <1>3 DEF Woken, WaitTimeout, Answer, WaitInv, WaitTypes, NoMissedAck, AtOrAbove
<1>4. ASSUME NEW r \in Replicas,
             \/ RegisterReplicaPeer(r) \/ ReadAck(r) \/ Teardown(r)
             \/ \E c \in Clients : WriteFails(c, r)
      PROVE  WaitInv'
  <2>1. /\ UNCHANGED <<pc, end, need, offset>> /\ registered' \subseteq Replicas
        /\ Notify \/ UNCHANGED <<registered, acked, woken>>
    BY Zenon, <1>4 DEF RegisterReplicaPeer, ReadAck, Teardown, WriteFails, AddPeer,
                UpdateAck, RemovePeer, WaitInv, WaitTypes
  <2>2. CASE Notify
    BY ZenonT(40), <2>1, <2>2, NotifyKeepsWaits
  <2>3. CASE UNCHANGED <<registered, acked, woken>>
    BY ZenonT(40), <2>1, <2>3, UncountedKeepsWaits DEF WaitInv, WaitTypes
  <2> QED
    BY Zenon, <2>1, <2>2, <2>3
<1>5. ASSUME NEW r \in Replicas,
             \/ Ping(r) \/ Auth(r) \/ ReplConfPort(r) \/ PSync(r)
             \/ WriteResync(r) \/ ConsumeFullResync(r) \/ Apply(r)
             \/ ApplyFails(r) \/ Break(r)
      PROVE  WaitInv'
  BY ZenonT(40), <1>5, UncountedKeepsWaits
     DEF Ping, Auth, ReplConfPort, Continue, PSync, WriteResync,
         ConsumeFullResync, Apply, ApplyFails, Break, WaitInv, WaitTypes
<1>6. CASE UNCHANGED vars
  BY Zenon, <1>6, UncountedKeepsWaits DEF vars, WaitInv, WaitTypes
<1> QED
  BY ZenonT(40), <1>1, <1>2, <1>3, <1>4, <1>5, <1>6 DEF Next

\* Nobody waits in the initial state.
LEMMA InitWaits == Init => WaitInv
  BY StartsAssumption DEF Init, WaitInv, WaitTypes, NoMissedAck

\* A client that sleeps in WAIT and has not been woken has too few replicas,
\* whatever acknowledgements, registrations and failing peers came between its
\* count and its sleep (CountReplicasAtOrAboveWithNotify, notifyChangedLocked).
THEOREM AcksAreNoticed == Spec => []NoMissedAck
<1>1. WaitInv => NoMissedAck
  BY Zenon DEF WaitInv
<1> QED
  BY InitWaits, <1>1, StepKeepsWaits, PTL DEF Spec

\* While fan-outs and handshakes do not overlap, every replica that WAIT
\* counted has applied the write the client waited for
\* (handleWait, CountReplicasAtOrAbove, advanceReplicaOffset).
THEOREM CountedIsApplied == Spec => []CountedHasWriteInOrder
<1>1. Init => StreamInv /\ WaitInv /\ CountInv
  BY Zenon, InitWaits, InitStreams, InitOrder
<1>2. (StreamInv /\ WaitInv /\ CountInv) /\ [Next]_vars => (StreamInv /\ WaitInv /\ CountInv)'
  BY Zenon, StepKeepsStreams, StepKeepsWaits, StepKeepsOrder
<1>3. CountInv => CountedHasWriteInOrder
  BY Zenon DEF CountInv, CountTypes, InOrder, Counted, CountedHasWriteInOrder
<1> QED
  BY <1>1, <1>2, <1>3, PTL DEF Spec

\* While fan-outs and handshakes do not overlap, a connected replica's keyspace
\* and the frames on their way to it are the master's writes in the master's
\* order, up to the write in progress (propagateToReplicas, consumeFullResync).
THEOREM StreamsAreComplete == Spec => []StreamIsComplete
<1> DEFINE Inv == StreamInv /\ WaitInv /\ CountInv /\ WholeInv
<1>1. Init => Inv
  BY Zenon, InitWaits, InitStreams, InitOrder, InitWhole
<1>2. Inv /\ [Next]_vars => Inv'
  BY Zenon, StepKeepsStreams, StepKeepsWaits, StepKeepsOrder, StepKeepsWhole
<1>3. Inv => StreamIsComplete
  BY Zenon, WholeIsComplete DEF CountInv
<1> QED
  BY <1>1, <1>2, <1>3, PTL DEF Spec
=============================================================================
