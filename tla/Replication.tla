---------------------------- MODULE Replication ----------------------------
(***************************************************************************)
(* A master and its replicas (internal/server/replication.go): the         *)
(* handshake, the full resynchronisation, the propagation of writes, the   *)
(* acknowledgements and WAIT (internal/command/commands.go), with one      *)
(* goroutine per connection.                                               *)
(*                                                                         *)
(* The keyspace is the sequence of the writes that produced it, and a      *)
(* write is the client that sends it.  Every propagated frame and every    *)
(* REPLCONF GETACK counts one unit of replication offset.  A connection    *)
(* delivers in order and may break; the code never connects again.         *)
(***************************************************************************)
EXTENDS Naturals, FiniteSets, Sequences, Functions

CONSTANTS
    Clients, Replicas,
    Needs,       \* the numbers of replicas a WAIT may ask for
    Passwords,   \* [Replicas -> {"none", "right", "wrong"}] of --masterauth
    Protected,   \* whether the master has --requirepass
    Starts,      \* the casts of a run: who writes, and which replicas have
                 \* joined before the first write or will try to join
    MaxBreaks    \* bound on the number of connections that break

ASSUME StartsAssumption ==
    /\ Starts \subseteq [writers : SUBSET Clients, joined : SUBSET Replicas,
                         late : SUBSET Replicas]
    /\ \A start \in Starts :
          /\ start.joined \cap start.late = {}
          /\ \A r \in start.joined : Protected => Passwords[r] = "right"
ASSUME CountsAssumption == IsFiniteSet(Replicas) /\ Needs \subseteq Nat

VARIABLES
    store,       \* the master's keyspace
    offset,      \* masterOffset
    pc,          \* what the goroutine of each client's connection does
    todo,        \* the peers its fan-out has yet to write to
    end,         \* endOffset, then LastWriteReplicationOffset, of a client
    need,        \* the number of replicas its WAIT asks for
    woken,       \* the waiting clients whose notification channel is closed
    answer,      \* the replicas its WAIT has counted, {} before
    registered,  \* replicaPeers
    acked,       \* AckOffset of each peer
    serve,       \* what the master's goroutine of a replica's connection does
    built,       \* the snapshot that PSYNC has built
    intact,      \* the replicas whose connection has not broken
    down,        \* what travels to each replica
    up,          \* the acknowledged offsets that travel back
    link,        \* what the replica's link goroutine does
    data,        \* the replica's keyspace
    processed,   \* replicaOffset
    overlap      \* history: "yes" once two fan-outs or handshakes overlapped

storeVars == <<store, offset>>
clientVars == <<pc, todo, end, need, answer>>
peerVars == <<registered, acked, woken>>
connVars == <<serve, built, intact, down, up>>
replicaVars == <<link, data, processed>>
vars == <<storeVars, clientVars, peerVars, connVars, replicaVars, overlap>>

WriteFrame(c) == [kind |-> "write", by |-> <<c>>]
GetAck == [kind |-> "getack", by |-> <<>>]
Resync(writes) == [kind |-> "resync", by |-> writes]

Init == \E start \in Starts :
    /\ store = <<>> /\ offset = 0
    /\ pc = [c \in Clients |-> IF c \in start.writers THEN "idle" ELSE "absent"]
    /\ todo = [c \in Clients |-> {}]
    /\ end = [c \in Clients |-> 0] /\ need = [c \in Clients |-> 0]
    /\ answer = [c \in Clients |-> {}]
    /\ registered = start.joined /\ acked = [r \in Replicas |-> 0] /\ woken = {}
    /\ serve = [r \in Replicas |-> CASE r \in start.joined -> "acks"
                                     [] r \in start.late -> "commands"
                                     [] OTHER -> "closed"]
    /\ intact = Replicas /\ built = [r \in Replicas |-> <<>>]
    /\ down = [r \in Replicas |-> <<>>] /\ up = [r \in Replicas |-> <<>>]
    /\ link = [r \in Replicas |-> CASE r \in start.joined -> "streaming"
                                    [] r \in start.late -> "ping"
                                    [] OTHER -> "ended"]
    /\ data = [r \in Replicas |-> IF r \in start.late THEN <<r>> ELSE <<>>]
    /\ processed = [r \in Replicas |-> 0] /\ overlap = "no"

(***************************************************************************)
(* The registry of replica peers.  notifyChangedLocked closes the channel  *)
(* that every waiting client holds.                                        *)
(***************************************************************************)
Notify == woken' = {c \in Clients : pc[c] = "blocked"}

AddPeer(r) == registered' = registered \cup {r} /\ acked' = [acked EXCEPT ![r] = 0]
          /\ Notify

\* A bug: the acknowledgement is recorded and nobody is told.
UpdateAckSilently(r, n) ==
    IF r \in registered /\ n > acked[r]
    THEN acked' = [acked EXCEPT ![r] = n] /\ UNCHANGED <<registered, woken>>
    ELSE UNCHANGED peerVars

UpdateAck(r, n) ==
    IF r \in registered /\ n > acked[r]
    THEN acked' = [acked EXCEPT ![r] = n] /\ Notify /\ UNCHANGED registered
    ELSE UNCHANGED peerVars

RemovePeer(r) ==
    IF r \in registered
    THEN registered' = registered \ {r} /\ Notify /\ UNCHANGED acked
    ELSE UNCHANGED peerVars

AtOrAbove(n) == {r \in registered : acked[r] >= n}

(***************************************************************************)
(* Two activities overlap when the frames of the one may pass the frames   *)
(* or the snapshot of the other: a write between its execution and the end *)
(* of its fan-out, a GETACK being sent, a handshake between its snapshot   *)
(* and the registration of the peer.                                       *)
(***************************************************************************)
Sending(c) == pc[c] \in {"executed", "picked", "sending", "asked", "asking"}
Joining(r) == serve[r] \in {"built", "sent"}
SomeSending == \E c \in Clients : Sending(c)
SomeJoining == \E r \in Replicas : Joining(r)
MarkOverlap(busy) == overlap' = IF busy THEN "yes" ELSE overlap

(***************************************************************************)
(* A write of a client: execution and append-only file (one step: the      *)
(* AofWriter module has the details), the peers to send to, the offset,    *)
(* one peer after another, and the offset recorded for WAIT.  When the     *)
(* file refuses the frame nothing is propagated, and the keyspace keeps    *)
(* the write.                                                              *)
(***************************************************************************)
Execute(c) ==
    /\ pc[c] = "idle"
    /\ store' = Append(store, c) /\ pc' = [pc EXCEPT ![c] = "executed"]
    /\ MarkOverlap(SomeSending \/ SomeJoining)
    /\ UNCHANGED <<offset, todo, end, need, answer, peerVars, connVars,
                   replicaVars>>

ExecuteUnlogged(c) ==
    /\ pc[c] = "idle"
    /\ store' = Append(store, c) /\ pc' = [pc EXCEPT ![c] = "refused"]
    /\ overlap' = "yes"
    /\ UNCHANGED <<offset, todo, end, need, answer, peerVars, connVars,
                   replicaVars>>

PickPeers(c) ==
    /\ pc[c] = "executed"
    /\ todo' = [todo EXCEPT ![c] = registered]
    /\ pc' = [pc EXCEPT ![c] = "picked"]
    /\ UNCHANGED <<storeVars, end, need, answer, peerVars, connVars,
                   replicaVars, overlap>>

\* A bug: the offset before the frame is taken for the offset after it.
AdvanceFromOldOffset(c) ==
    /\ pc[c] = "picked"
    /\ offset' = offset + 1 /\ end' = [end EXCEPT ![c] = offset]
    /\ pc' = [pc EXCEPT ![c] = "sending"]
    /\ UNCHANGED <<store, todo, need, answer, peerVars, connVars, replicaVars,
                   overlap>>

AdvanceMasterOffset(c) ==
    /\ pc[c] = "picked"
    /\ offset' = offset + 1 /\ end' = [end EXCEPT ![c] = offset']
    /\ pc' = [pc EXCEPT ![c] = "sending"]
    /\ UNCHANGED <<store, todo, need, answer, peerVars, connVars, replicaVars,
                   overlap>>

Frame(c) == IF pc[c] = "sending" THEN WriteFrame(c) ELSE GetAck

\* The socket takes the frame; one that is broken may still take it.
WriteToReplica(c, r) ==
    /\ pc[c] \in {"sending", "asking"} /\ r \in todo[c]
    /\ serve[r] # "closed"
    /\ todo' = [todo EXCEPT ![c] = @ \ {r}]
    /\ down' = [down EXCEPT ![r] = IF r \in intact THEN Append(@, Frame(c))
                                                   ELSE @]
    /\ UNCHANGED <<storeVars, pc, end, need, answer, peerVars, serve, built,
                   intact, up, replicaVars, overlap>>

\* RemoveAndClose of a peer that cannot be written to.
WriteFails(c, r) ==
    /\ pc[c] \in {"sending", "asking"} /\ r \in todo[c] /\ r \notin intact
    /\ todo' = [todo EXCEPT ![c] = @ \ {r}]
    /\ RemovePeer(r)
    /\ UNCHANGED <<storeVars, pc, end, need, answer, connVars, replicaVars,
                   overlap>>

RecordWriteOffset(c) ==
    /\ pc[c] = "sending" /\ todo[c] = {}
    /\ pc' = [pc EXCEPT ![c] = "written"]
    /\ UNCHANGED <<storeVars, todo, end, need, answer, peerVars, connVars,
                   replicaVars, overlap>>

(***************************************************************************)
(* WAIT: the count, REPLCONF GETACK to every peer when it is not enough    *)
(* and the timeout is not zero, then a loop that counts and takes the      *)
(* notification channel under one lock and sleeps.  The timer leads to one *)
(* more count.                                                             *)
(***************************************************************************)
Answer(c) ==
    /\ answer' = [answer EXCEPT ![c] = AtOrAbove(end[c])]
    /\ pc' = [pc EXCEPT ![c] = "answered"]

Wait(c, n, timeout) ==
    /\ pc[c] = "written"
    /\ IF Cardinality(AtOrAbove(end[c])) >= n \/ timeout = "zero"
       THEN Answer(c) /\ UNCHANGED need
       ELSE /\ pc' = [pc EXCEPT ![c] = "ask"] /\ need' = [need EXCEPT ![c] = n]
            /\ UNCHANGED answer
    /\ UNCHANGED <<storeVars, todo, end, peerVars, connVars, replicaVars,
                   overlap>>

AdvanceForGetAck(c) ==
    /\ pc[c] = "ask"
    /\ offset' = offset + 1 /\ pc' = [pc EXCEPT ![c] = "asked"]
    /\ MarkOverlap(SomeSending \/ SomeJoining)
    /\ UNCHANGED <<store, todo, end, need, answer, peerVars, connVars,
                   replicaVars>>

PickPeersForGetAck(c) ==
    /\ pc[c] = "asked"
    /\ todo' = [todo EXCEPT ![c] = registered]
    /\ pc' = [pc EXCEPT ![c] = "asking"]
    /\ UNCHANGED <<storeVars, end, need, answer, peerVars, connVars,
                   replicaVars, overlap>>

AskedAll(c) ==
    /\ pc[c] = "asking" /\ todo[c] = {}
    /\ pc' = [pc EXCEPT ![c] = "counting"]
    /\ UNCHANGED <<storeVars, todo, end, need, answer, peerVars, connVars,
                   replicaVars, overlap>>

CountWithNotify(c) ==
    /\ pc[c] = "counting"
    /\ IF Cardinality(AtOrAbove(end[c])) >= need[c]
       THEN Answer(c)
       ELSE pc' = [pc EXCEPT ![c] = "blocked"] /\ UNCHANGED answer
    /\ woken' = woken \ {c}
    /\ UNCHANGED <<storeVars, todo, end, need, registered, acked, connVars,
                   replicaVars, overlap>>

Woken(c) ==
    /\ pc[c] = "blocked" /\ c \in woken
    /\ pc' = [pc EXCEPT ![c] = "counting"] /\ woken' = woken \ {c}
    /\ UNCHANGED <<storeVars, todo, end, need, answer, registered, acked,
                   connVars, replicaVars, overlap>>

WaitTimeout(c) ==
    /\ pc[c] = "blocked" /\ Answer(c) /\ woken' = woken \ {c}
    /\ UNCHANGED <<storeVars, todo, end, need, registered, acked, connVars,
                   replicaVars, overlap>>

(***************************************************************************)
(* The handshake.  PING, AUTH and REPLCONF concern the connection alone:   *)
(* the request and the check of its answer are one step.  Every answer but *)
(* the expected one ends the link, and a link that ended does not come     *)
(* back.                                                                   *)
(***************************************************************************)
Continue(r, ok, next) ==
    /\ IF ok THEN link' = [link EXCEPT ![r] = next] /\ UNCHANGED intact
             ELSE /\ link' = [link EXCEPT ![r] = "ended"]
                  /\ intact' = intact \ {r}
    /\ UNCHANGED <<storeVars, clientVars, peerVars, serve, built, down, up,
                   data, processed, overlap>>

Ping(r) ==
    /\ link[r] = "ping"
    /\ Continue(r, TRUE, IF Passwords[r] = "none" THEN "port" ELSE "auth")

Auth(r) ==
    /\ link[r] = "auth"
    /\ Continue(r, Protected /\ Passwords[r] = "right", "port")

Authenticated(r) == Protected => Passwords[r] = "right"

ReplConfPort(r) ==
    /\ link[r] = "port"
    /\ Continue(r, Authenticated(r), "psync")

\* A bug: PSYNC registers the peer before its answer is written.
PSyncRegisters(r) ==
    /\ link[r] = "psync" /\ serve[r] = "commands" /\ Authenticated(r)
    /\ link' = [link EXCEPT ![r] = "resync"]
    /\ serve' = [serve EXCEPT ![r] = "built"]
    /\ built' = [built EXCEPT ![r] = store]
    /\ AddPeer(r) /\ MarkOverlap(SomeSending)
    /\ UNCHANGED <<storeVars, clientVars, intact, down, up, data, processed>>

\* The master builds the snapshot and makes the connection a replica's.
PSync(r) ==
    /\ link[r] = "psync" /\ serve[r] = "commands" /\ Authenticated(r)
    /\ link' = [link EXCEPT ![r] = "resync"]
    /\ serve' = [serve EXCEPT ![r] = "built"]
    /\ built' = [built EXCEPT ![r] = store]
    /\ MarkOverlap(SomeSending)
    /\ UNCHANGED <<storeVars, clientVars, peerVars, intact, down, up, data,
                   processed>>

WriteResync(r) ==
    /\ serve[r] = "built"
    /\ serve' = [serve EXCEPT ![r] = "sent"]
    /\ down' = [down EXCEPT ![r] = IF r \in intact
                                   THEN Append(@, Resync(built[r])) ELSE @]
    /\ UNCHANGED <<storeVars, clientVars, peerVars, built, intact, up,
                   replicaVars, overlap>>

RegisterReplicaPeer(r) ==
    /\ serve[r] = "sent"
    /\ serve' = [serve EXCEPT ![r] = "acks"] /\ AddPeer(r)
    /\ UNCHANGED <<storeVars, clientVars, built, intact, down, up,
                   replicaVars, overlap>>

ReadAck(r) ==
    /\ serve[r] = "acks" /\ up[r] # <<>>
    /\ UpdateAck(r, Head(up[r])) /\ up' = [up EXCEPT ![r] = Tail(@)]
    /\ UNCHANGED <<storeVars, clientVars, serve, built, intact, down,
                   replicaVars, overlap>>

\* The goroutine of a broken connection ends: teardownClient.
Teardown(r) ==
    /\ serve[r] # "closed" /\ serve[r] # "sent" /\ r \notin intact
    /\ serve' = [serve EXCEPT ![r] = "closed"]
    /\ RemovePeer(r)
    /\ up' = [up EXCEPT ![r] = <<>>]
    /\ UNCHANGED <<storeVars, clientVars, built, intact, down, replicaVars,
                   overlap>>

(***************************************************************************)
(* The replica's link: the full resynchronisation replaces the keyspace,   *)
(* then every frame advances replicaOffset and runs; GETACK answers with   *)
(* that offset, itself included.  A frame that fails, here or in the       *)
(* replica's own file, ends the link.                                      *)
(***************************************************************************)
Take(r) == down' = [down EXCEPT ![r] = Tail(@)]

\* A bug: the snapshot is added to what the replica holds.
ConsumeFullResyncMerging(r) ==
    /\ link[r] = "resync" /\ down[r] # <<>> /\ Take(r)
    /\ data' = [data EXCEPT ![r] = @ \o Head(down[r]).by]
    /\ link' = [link EXCEPT ![r] = "streaming"]
    /\ UNCHANGED <<storeVars, clientVars, peerVars, serve, built, intact, up,
                   processed, overlap>>

ConsumeFullResync(r) ==
    /\ link[r] = "resync" /\ down[r] # <<>> /\ Take(r)
    /\ IF Head(down[r]).kind = "resync"
       THEN /\ data' = [data EXCEPT ![r] = Head(down[r]).by]
            /\ link' = [link EXCEPT ![r] = "streaming"] /\ UNCHANGED intact
       ELSE /\ link' = [link EXCEPT ![r] = "ended"] /\ intact' = intact \ {r}
            /\ UNCHANGED data
    /\ UNCHANGED <<storeVars, clientVars, peerVars, serve, built, up,
                   processed, overlap>>

AdvanceReplicaOffset(r) == processed' = [processed EXCEPT ![r] = @ + 1]

Apply(r) ==
    /\ link[r] = "streaming" /\ down[r] # <<>> /\ Take(r)
    /\ AdvanceReplicaOffset(r)
    /\ data' = [data EXCEPT ![r] = @ \o Head(down[r]).by]
    /\ up' = [up EXCEPT ![r] = IF Head(down[r]).kind = "getack" /\ r \in intact
                               THEN Append(@, processed'[r]) ELSE @]
    /\ UNCHANGED <<storeVars, clientVars, peerVars, serve, built, intact, link,
                   overlap>>

Broken == Cardinality(Replicas \ intact)

ApplyFails(r) ==
    /\ link[r] = "streaming" /\ down[r] # <<>> /\ Take(r) /\ Broken < MaxBreaks
    /\ AdvanceReplicaOffset(r)
    /\ link' = [link EXCEPT ![r] = "ended"] /\ intact' = intact \ {r}
    /\ UNCHANGED <<storeVars, clientVars, peerVars, serve, built, up, data,
                   overlap>>

Break(r) ==
    /\ r \in intact /\ link[r] # "ended" /\ Broken < MaxBreaks
    /\ intact' = intact \ {r} /\ link' = [link EXCEPT ![r] = "ended"]
    /\ down' = [down EXCEPT ![r] = <<>>]
    /\ UNCHANGED <<storeVars, clientVars, peerVars, serve, built, up, data,
                   processed, overlap>>

Next ==
    \/ \E c \in Clients :
          \/ Execute(c) \/ ExecuteUnlogged(c) \/ PickPeers(c)
          \/ AdvanceMasterOffset(c) \/ RecordWriteOffset(c)
          \/ AdvanceForGetAck(c) \/ PickPeersForGetAck(c) \/ AskedAll(c)
          \/ CountWithNotify(c) \/ Woken(c) \/ WaitTimeout(c)
          \/ \E n \in Needs, t \in {"zero", "some"} : Wait(c, n, t)
          \/ \E r \in Replicas : WriteToReplica(c, r) \/ WriteFails(c, r)
    \/ \E r \in Replicas :
          \/ Ping(r) \/ Auth(r) \/ ReplConfPort(r) \/ PSync(r)
          \/ WriteResync(r) \/ RegisterReplicaPeer(r) \/ ReadAck(r)
          \/ Teardown(r) \/ ConsumeFullResync(r) \/ Apply(r)
          \/ ApplyFails(r) \/ Break(r)

Spec == Init /\ [][Next]_vars

----------------------------------------------------------------------------
Items == [kind : {"write", "getack", "resync"}, by : Seq(Clients)]

\* No propagated command precedes the snapshot in the stream of a replica
\* (the comment of handleConnection on registering after the response).
ResyncFirst ==
    \A r \in Replicas :
        /\ (link[r] = "resync" /\ down[r] # <<>>) => Head(down[r]).kind = "resync"
        /\ link[r] = "streaming" => \A i \in 1..Len(down[r]) : down[r][i].kind # "resync"

Unsent(r) == {c \in Clients : /\ pc[c] \in {"executed", "picked", "sending"}
                              /\ pc[c] = "sending" => r \in todo[c]}

\* The replica's keyspace and the frames on their way to it, one after another,
\* are the writes of the master up to number cut[Len(down[r])].
Continues(r, cut) ==
    /\ cut[0] = Len(data[r]) /\ data[r] = SubSeq(store, 1, cut[0])
    /\ \A i \in 1..Len(down[r]) :
          /\ cut[i] = cut[i - 1] + Len(down[r][i].by)
          /\ down[r][i].by = SubSeq(store, cut[i - 1] + 1, cut[i])

\* While nothing overlapped, a connected replica has been sent exactly the
\* master's writes in the master's order, but for the writes on their way
\* (propagateToReplicas, consumeFullResync).
StreamIsComplete ==
    \A r \in registered :
        (overlap = "no" /\ link[r] = "streaming") =>
            \E cut \in [0..Len(down[r]) -> 0..Len(store)] :
                /\ Continues(r, cut)
                /\ \A i \in cut[Len(down[r])] + 1..Len(store) : store[i] \in Unsent(r)

\* A replica that WAIT counted has applied the client's last write, while
\* nothing overlapped: acknowledged offsets then mean what WAIT takes them for.
\* (With two writers at once it may count a replica that has not.)
CountedHasWriteInOrder ==
    overlap = "no" => \A c \in Clients : \A r \in answer[c] : c \in Range(data[r])

\* A client that sleeps in WAIT on a channel still open has too few replicas:
\* no acknowledgement falls between the count and the sleep
\* (CountReplicasAtOrAboveWithNotify).
NoMissedAck ==
    \A c \in Clients : (pc[c] = "blocked" /\ c \notin woken) =>
                          Cardinality(AtOrAbove(end[c])) < need[c]

\* A protected master never registers a replica without its password
\* (validateAuthContext before PSYNC).
OnlyAuthenticated == \A r \in registered : Protected => Passwords[r] = "right"
=============================================================================
