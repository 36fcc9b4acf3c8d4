------------------------------- MODULE Fanout -------------------------------
(***************************************************************************)
(* The life of a connection and the fan-out from one connection to others, *)
(* with one goroutine per connection: accepting and registering            *)
(* (internal/server/server.go, registry.go), SUBSCRIBE, UNSUBSCRIBE,       *)
(* PUBLISH and MONITOR (internal/command/commands.go, monitor.go,          *)
(* internal/server/observability.go), the two registries                   *)
(* (pubsub_registry.go, monitor_registry.go), the response writer of each  *)
(* client (client_state.go), teardown and shutdown.                        *)
(*                                                                         *)
(* A push copies the subscribers under the registry's lock and writes to   *)
(* them one by one after releasing it.  Whoever fails to write to a client *)
(* runs that client's Disconnect, three critical sections of it here: the  *)
(* writer, the monitor registry, the channels (the transaction and the     *)
(* watches it also drops are in module Transactions).  A push gives the    *)
(* write a deadline, the reply of the connection's own handler does not    *)
(* have one and holds the client's responseMu while it is blocked.         *)
(***************************************************************************)
EXTENDS Integers, FiniteSets

CONSTANTS
    Clients, Channels,
    Main,        \* the goroutine that runs shutdown
    None,        \* nobody
    Casts        \* the scenarios by name: what clients may send, how many
                 \* requests in all, who is connected at first, who may
                 \* connect, cfg.MaxClients (0 for no limit), the faults

Subscribe(chs) == [op |-> "SUBSCRIBE", args |-> chs]
Unsubscribe(chs) == [op |-> "UNSUBSCRIBE", args |-> chs]
Publish(ch) == [op |-> "PUBLISH", args |-> {ch}]
Monitor == [op |-> "MONITOR", args |-> {}]
Ping == [op |-> "PING", args |-> {}]
Requests == {Monitor, Ping} \cup {Publish(ch) : ch \in Channels}
                \cup {Subscribe(chs) : chs \in SUBSET Channels \ {{}}}
                \cup {Unsubscribe(chs) : chs \in SUBSET Channels}

Faults == {"stall", "reset", "stop"}

ASSUME CastsAssumption ==
    \A k \in DOMAIN Casts :
        /\ Casts[k].script \in [Clients -> SUBSET Requests]
        /\ Casts[k].requests \in Nat /\ Casts[k].limit \in Nat
        /\ Casts[k].connected \subseteq Clients
        /\ Casts[k].guests \subseteq Clients
        /\ Casts[k].faults \subseteq Faults
ASSUME ActorsAssumption == Main \notin Clients /\ None \notin Clients \cup {Main}

Actors == Clients \cup {Main}

VARIABLES
    cast,        \* the name of the scenario, chosen at first
    asked,       \* requests sent
    faults,      \* the faults that have yet to happen, once each
    stalled,     \* the clients that do not drain their socket
    pc,          \* what the goroutine of each connection does
    cmd,         \* the request it serves
    args,        \* the channels of the request yet to be handled
    todo,        \* the receivers a push has yet to write to
    victim,      \* the client whose Disconnect an actor runs
    dstep,       \* the critical section of that Disconnect due next
    sock,        \* "none", "open", "reset" by the peer or "closed"
    writer,      \* the response writer: "unbound", "open", "broken" by a
                 \* failed write, "closed", or "raw" for a handler that found
                 \* no client state
    clients,     \* the client registry
    states,      \* clientStates
    subscribers, \* the pub/sub registry
    channels,    \* subscribedChannels of each client
    monitors,    \* the monitor registry
    monitorCount,\* its subscriberCount
    monitoring,  \* the clients with Monitoring set
    stop,        \* progress of shutdown
    cancelled,   \* "yes" once the server's context is cancelled
    closing,     \* the connections CloseAll, then the states clearClientStates,
                 \* has yet to handle
    acked,       \* history: channels whose subscription the client was told of
    due,         \* history: the clients that must get a publication
    got          \* history: the clients that got it

Connected == Casts[cast].connected
MaxClients == Casts[cast].limit

envVars == <<cast, asked, faults>>
reqVars == <<cmd, args, todo>>
dropVars == <<victim, dstep>>
connVars == <<sock, writer, clients, states>>
subVars == <<subscribers, channels>>
monVars == <<monitors, monitorCount, monitoring>>
stopVars == <<stop, cancelled, closing>>
histVars == <<acked, due, got>>
vars == <<envVars, stalled, pc, reqVars, dropVars, connVars, subVars, monVars,
          stopVars, histVars>>

Init ==
    /\ cast \in DOMAIN Casts /\ asked = 0 /\ faults = Casts[cast].faults /\ stalled = {}
    /\ pc = [c \in Clients |-> IF c \in Connected THEN "idle" ELSE "unborn"]
    /\ cmd = [c \in Clients |-> Ping]
    /\ args = [c \in Clients |-> {}] /\ todo = [c \in Clients |-> {}]
    /\ victim = [a \in Actors |-> None] /\ dstep = [a \in Actors |-> "none"]
    /\ sock = [c \in Clients |-> IF c \in Connected THEN "open" ELSE "none"]
    /\ writer = [c \in Clients |->
                    IF c \in Connected THEN "open" ELSE "unbound"]
    /\ clients = Connected /\ states = Connected
    /\ subscribers = [ch \in Channels |-> {}]
    /\ channels = [c \in Clients |-> {}]
    /\ monitors = {} /\ monitorCount = 0 /\ monitoring = {}
    /\ stop = "no" /\ cancelled = "no" /\ closing = {}
    /\ acked = [c \in Clients |-> {}]
    /\ due = [c \in Clients |-> {}] /\ got = [c \in Clients |-> {}]

Goto(c, where) == pc' = [pc EXCEPT ![c] = where]

-----------------------------------------------------------------------------
(* What clients and the network do.                                        *)

Stall(c) ==
    /\ sock[c] = "open" /\ "stall" \in faults
    /\ stalled' = stalled \cup {c} /\ faults' = faults \ {"stall"}
    /\ UNCHANGED <<cast, asked, pc, reqVars, dropVars, connVars, subVars,
                   monVars, stopVars, histVars>>

Drain(c) ==
    /\ c \in stalled
    /\ stalled' = stalled \ {c}
    /\ UNCHANGED <<envVars, pc, reqVars, dropVars, connVars, subVars, monVars,
                   stopVars, histVars>>

PeerCloses(c) ==
    /\ sock[c] = "open" /\ "reset" \in faults
    /\ faults' = faults \ {"reset"}
    /\ sock' = [sock EXCEPT ![c] = "reset"]
    /\ UNCHANGED <<cast, asked, stalled, pc, reqVars, dropVars, writer, clients,
                   states, subVars, monVars, stopVars, histVars>>

-----------------------------------------------------------------------------
(* The accept loop, one connection at a time.                              *)

\* The listener is open until shutdown closes it.
Accept(c) ==
    /\ pc[c] = "unborn" /\ c \in Casts[cast].guests
    /\ stop = "no" \/ (stop = "shutdown" /\ cancelled = "yes")
    /\ \A d \in Clients : pc[d] \notin {"accepted", "registered"}
    /\ Goto(c, "accepted")
    /\ sock' = [sock EXCEPT ![c] = "open"]
    /\ UNCHANGED <<envVars, stalled, reqVars, dropVars, writer, clients,
                   states, subVars, monVars, stopVars, histVars>>

\* overConnectionLimit, then refuseConnection or registry.Add.
Register(c) ==
    /\ pc[c] = "accepted"
    /\ \/ /\ MaxClients > 0 /\ Cardinality(clients) >= MaxClients
          /\ Goto(c, "gone")
          /\ sock' = [sock EXCEPT ![c] = "closed"]
          /\ UNCHANGED clients
       \/ /\ MaxClients = 0 \/ Cardinality(clients) < MaxClients
          /\ Goto(c, "registered")
          /\ clients' = clients \cup {c}
          /\ UNCHANGED sock
    /\ UNCHANGED <<envVars, stalled, reqVars, dropVars, writer, states,
                   subVars, monVars, stopVars, histVars>>

\* createClientState; the handler's goroutine starts.
CreateClientState(c) ==
    /\ pc[c] = "registered"
    /\ Goto(c, "starting")
    /\ states' = states \cup {c}
    /\ UNCHANGED <<envVars, stalled, reqVars, dropVars, sock, writer, clients,
                   subVars, monVars, stopVars, histVars>>

\* The handler looks its client state up ...
GetClientState(c) ==
    /\ pc[c] = "starting"
    /\ \/ /\ c \in states
          /\ Goto(c, "binding")
          /\ UNCHANGED writer
       \/ /\ c \notin states
          /\ Goto(c, "idle")
          /\ writer' = [writer EXCEPT ![c] = "raw"]
    /\ UNCHANGED <<envVars, stalled, reqVars, dropVars, sock, clients, states,
                   subVars, monVars, stopVars, histVars>>

\* ... and BindResponseWriter opens it, whatever happened to the state since.
BindResponseWriter(c) ==
    /\ pc[c] = "binding"
    /\ Goto(c, "idle")
    /\ writer' = [writer EXCEPT ![c] = "open"]
    /\ UNCHANGED <<envVars, stalled, reqVars, dropVars, sock, clients, states,
                   subVars, monVars, stopVars, histVars>>

-----------------------------------------------------------------------------
(* One request: observed by the monitors, executed, answered.              *)

\* The parser may still hold requests of a connection that was closed.
Ask(c) ==
    /\ pc[c] = "idle" /\ asked < Casts[cast].requests
    /\ asked' = asked + 1
    /\ \E r \in Casts[cast].script[c] :
          /\ cmd' = [cmd EXCEPT ![c] = r]
          /\ args' = [args EXCEPT ![c] = r.args]
    /\ \/ /\ monitorCount > 0
          /\ todo' = [todo EXCEPT ![c] = monitors]
          /\ Goto(c, "observing")
       \/ /\ monitorCount = 0
          /\ Goto(c, "run")
          /\ UNCHANGED todo
    /\ UNCHANGED <<cast, faults, stalled, dropVars, connVars, subVars,
                   monVars, stopVars, histVars>>

\* broadcastMonitorEvent returns.
Observed(c) ==
    /\ pc[c] = "observing" /\ todo[c] = {} /\ victim[c] = None
    /\ Goto(c, "run")
    /\ UNCHANGED <<envVars, stalled, reqVars, dropVars, connVars, subVars,
                   monVars, stopVars, histVars>>

\* Mutant of Allowed: SUBSCRIBE is accepted from a monitoring client.
AllowedWhileMonitoring(c, op) ==
    /\ channels[c] # {} => op \in {"PING", "SUBSCRIBE", "UNSUBSCRIBE"}
    /\ c \in monitoring => op \in {"PING", "SUBSCRIBE"}

\* validateSubscriptionContext.
Allowed(c, op) ==
    /\ channels[c] # {} => op \in {"PING", "SUBSCRIBE", "UNSUBSCRIBE"}
    /\ c \in monitoring => op = "PING"

\* A handler without a client state serves only what needs none.
Admitted(c) ==
    IF writer[c] = "raw" THEN cmd[c].op \in {"PING", "PUBLISH"}
    ELSE Allowed(c, cmd[c].op)

\* The checks before the command; a refused one is answered with an error.
Dispatch(c) ==
    /\ pc[c] = "run"
    /\ \/ /\ ~Admitted(c) \/ cmd[c].op = "PING"
          /\ Goto(c, "reply")
          /\ cmd' = [cmd EXCEPT ![c] = Ping]
          /\ UNCHANGED args
       \/ /\ Admitted(c) /\ cmd[c].op # "PING"
          /\ Goto(c, cmd[c].op)
          /\ args' = [args EXCEPT ![c] =
                         IF cmd[c] = Unsubscribe({}) THEN channels[c] ELSE @]
          /\ UNCHANGED cmd
    /\ UNCHANGED <<envVars, stalled, todo, dropVars, connVars, subVars,
                   monVars, stopVars, histVars>>

\* PubSubRegistry.Subscribe and Unsubscribe change both records in one
\* critical section, and so do MonitorRegistry.Subscribe and Unsubscribe.
AddSubscriber(c, ch) ==
    /\ subscribers' = [subscribers EXCEPT ![ch] = @ \cup {c}]
    /\ channels' = [channels EXCEPT ![c] = @ \cup {ch}]

RemoveSubscriber(c, ch) ==
    /\ subscribers' = [subscribers EXCEPT ![ch] = @ \ {c}]
    /\ channels' = [channels EXCEPT ![c] = @ \ {ch}]

AddMonitor(c) ==
    /\ monitorCount' = IF c \in monitors THEN monitorCount ELSE monitorCount + 1
    /\ monitors' = monitors \cup {c} /\ monitoring' = monitoring \cup {c}

RemoveMonitor(c) ==
    /\ monitorCount' = IF c \in monitors THEN monitorCount - 1 ELSE monitorCount
    /\ monitors' = monitors \ {c} /\ monitoring' = monitoring \ {c}

\* handleSubscribe, one channel of the request.
SubscribeChannel(c, ch) ==
    /\ pc[c] = "SUBSCRIBE" /\ ch \in args[c]
    /\ args' = [args EXCEPT ![c] = @ \ {ch}]
    /\ AddSubscriber(c, ch)
    /\ UNCHANGED <<envVars, stalled, pc, cmd, todo, dropVars, connVars,
                   monVars, stopVars, histVars>>

\* handleUnsubscribe, one channel of the request.
UnsubscribeChannel(c, ch) ==
    /\ pc[c] = "UNSUBSCRIBE" /\ ch \in args[c]
    /\ args' = [args EXCEPT ![c] = @ \ {ch}]
    /\ RemoveSubscriber(c, ch)
    /\ acked' = [acked EXCEPT ![c] = @ \ {ch}]
    /\ UNCHANGED <<envVars, stalled, pc, cmd, todo, dropVars, connVars,
                   monVars, stopVars, due, got>>

ChannelsDone(c) ==
    /\ pc[c] \in {"SUBSCRIBE", "UNSUBSCRIBE"} /\ args[c] = {}
    /\ Goto(c, "reply")
    /\ UNCHANGED <<envVars, stalled, reqVars, dropVars, connVars, subVars,
                   monVars, stopVars, histVars>>

\* handleMonitor, whose own check of IsSubscribed repeats that of Dispatch.
StartMonitoring(c) ==
    /\ pc[c] = "MONITOR"
    /\ AddMonitor(c)
    /\ Goto(c, "reply")
    /\ UNCHANGED <<envVars, stalled, reqVars, dropVars, connVars, subVars,
                   stopVars, histVars>>

\* handlePublish takes its snapshot of the subscribers.
AppendSubscribers(c, ch) ==
    /\ pc[c] = "PUBLISH" /\ ch \in args[c]
    /\ args' = [args EXCEPT ![c] = {}]
    /\ todo' = [todo EXCEPT ![c] = subscribers[ch]]
    /\ due' = [due EXCEPT ![c] =
                  {d \in Clients : ch \in acked[d] /\ writer[d] = "open"}]
    /\ got' = [got EXCEPT ![c] = {}]
    /\ Goto(c, "publishing")
    /\ UNCHANGED <<envVars, stalled, cmd, dropVars, connVars, subVars, monVars,
                   stopVars, acked>>

Published(c) ==
    /\ pc[c] = "publishing" /\ todo[c] = {} /\ victim[c] = None
    /\ Goto(c, "reply")
    /\ due' = [due EXCEPT ![c] = {}] /\ got' = [got EXCEPT ![c] = {}]
    /\ UNCHANGED <<envVars, stalled, reqVars, dropVars, connVars, subVars,
                   monVars, stopVars, acked>>

-----------------------------------------------------------------------------
(* Pushes to other connections, and what a failed one leads to.            *)

\* responseMu of the client is free: its own handler is not stuck in a reply.
Writable(d) == pc[d] # "blocked" \/ writer[d] = "raw"

Pushes(c, d) ==
    /\ pc[c] \in {"observing", "publishing"}
    /\ d \in todo[c] /\ victim[c] = None /\ Writable(d)

\* WriteEncodedWithDeadline succeeds.
PushWritten(c, d) ==
    /\ Pushes(c, d)
    /\ writer[d] = "open" /\ sock[d] \in {"open", "reset"} /\ d \notin stalled
    /\ todo' = [todo EXCEPT ![c] = @ \ {d}]
    /\ got' = [got EXCEPT ![c] = IF pc[c] = "publishing" THEN @ \cup {d} ELSE @]
    /\ UNCHANGED <<envVars, stalled, pc, cmd, args, dropVars, connVars,
                   subVars, monVars, stopVars, acked, due>>

\* Mutant of PushFailed: the first failure ends the push.
PushFailedEndsPush(c, d) ==
    /\ Pushes(c, d)
    /\ writer[d] # "open" \/ sock[d] # "open" \/ d \in stalled
    /\ writer' = [writer EXCEPT ![d] = IF @ = "open" THEN "broken" ELSE @]
    /\ todo' = [todo EXCEPT ![c] = {}]
    /\ victim' = [victim EXCEPT ![c] = d]
    /\ dstep' = [dstep EXCEPT ![c] = "writer"]
    /\ UNCHANGED <<envVars, stalled, pc, cmd, args, sock, clients, states,
                   subVars, monVars, stopVars, histVars>>

\* Mutant of PushFailed: the failure is logged and the receiver stays.
PushFailedKeepsReceiver(c, d) ==
    /\ Pushes(c, d)
    /\ writer[d] # "open" \/ sock[d] # "open" \/ d \in stalled
    /\ writer' = [writer EXCEPT ![d] = IF @ = "open" THEN "broken" ELSE @]
    /\ todo' = [todo EXCEPT ![c] = @ \ {d}]
    /\ UNCHANGED <<envVars, stalled, pc, cmd, args, dropVars, sock, clients,
                   states, subVars, monVars, stopVars, histVars>>

\* It fails: no writer, a dead socket, or the deadline of a stalled one.  The
\* buffered writer keeps the error, and the pusher disconnects the receiver.
PushFailed(c, d) ==
    /\ Pushes(c, d)
    /\ writer[d] # "open" \/ sock[d] # "open" \/ d \in stalled
    /\ writer' = [writer EXCEPT ![d] = IF @ = "open" THEN "broken" ELSE @]
    /\ todo' = [todo EXCEPT ![c] = @ \ {d}]
    /\ victim' = [victim EXCEPT ![c] = d]
    /\ dstep' = [dstep EXCEPT ![c] = "writer"]
    /\ UNCHANGED <<envVars, stalled, pc, cmd, args, sock, clients, states,
                   subVars, monVars, stopVars, histVars>>

\* Disconnect: the writer is closed ...
DisconnectWriter(a) ==
    /\ dstep[a] = "writer" /\ Writable(victim[a])
    /\ writer' = [writer EXCEPT ![victim[a]] = IF @ = "raw" THEN @ ELSE "closed"]
    /\ dstep' = [dstep EXCEPT ![a] = "monitoring"]
    /\ UNCHANGED <<envVars, stalled, pc, reqVars, victim, sock, clients,
                   states, subVars, monVars, stopVars, histVars>>

\* ... then StopMonitoring ...
StopMonitoring(a) ==
    /\ dstep[a] = "monitoring"
    /\ RemoveMonitor(victim[a])
    /\ dstep' = [dstep EXCEPT ![a] = "channels"]
    /\ UNCHANGED <<envVars, stalled, pc, reqVars, victim, connVars, subVars,
                   stopVars, histVars>>

\* PubSubRegistry.UnsubscribeAll, run by actor a on client c: it takes the
\* client's own record for the channels to clear.
DrainChannels(a, c) ==
    /\ subscribers' = [ch \in Channels |->
                          IF ch \in channels[c]
                          THEN subscribers[ch] \ {c} ELSE subscribers[ch]]
    /\ channels' = [channels EXCEPT ![c] = {}]

\* ... then UnsubscribeAll.
UnsubscribeAll(a) ==
    /\ dstep[a] = "channels"
    /\ DrainChannels(a, victim[a])
    /\ acked' = [acked EXCEPT ![victim[a]] = {}]
    /\ victim' = [victim EXCEPT ![a] = None]
    /\ dstep' = [dstep EXCEPT ![a] = "none"]
    /\ UNCHANGED <<envVars, stalled, pc, reqVars, connVars, monVars, stopVars,
                   due, got>>

-----------------------------------------------------------------------------
(* The reply, and the end of a connection.                                 *)

\* The whole reply is written; the client now knows of its subscriptions.
Written(c) ==
    /\ Goto(c, "idle")
    /\ acked' = [acked EXCEPT ![c] =
                    IF cmd[c].op = "SUBSCRIBE" THEN @ \cup cmd[c].args ELSE @]
    /\ cmd' = [cmd EXCEPT ![c] = Ping]
    /\ UNCHANGED <<envVars, stalled, args, todo, dropVars, connVars, subVars,
                   monVars, stopVars, due, got>>

WriteResponses(c) ==
    /\ pc[c] = "reply"
    /\ writer[c] \in {"open", "raw"} /\ sock[c] \in {"open", "reset"}
    /\ c \notin stalled
    /\ Written(c)

\* The write blocks on a stalled socket, without a deadline, holding responseMu.
ReplyBlocks(c) ==
    /\ pc[c] = "reply"
    /\ writer[c] \in {"open", "raw"} /\ sock[c] = "open" /\ c \in stalled
    /\ Goto(c, "blocked")
    /\ UNCHANGED <<envVars, stalled, reqVars, dropVars, connVars, subVars,
                   monVars, stopVars, histVars>>

ReplyUnblocks(c) ==
    /\ pc[c] = "blocked" /\ c \notin stalled /\ sock[c] = "open"
    /\ Written(c)

\* The handler returns: the write failed, or the parser met the end.
HandlerReturns(c) ==
    /\ \/ pc[c] = "reply" /\ (writer[c] \notin {"open", "raw"} \/ sock[c] # "open")
       \/ pc[c] \in {"blocked", "idle"} /\ sock[c] # "open"
    /\ Goto(c, "ending")
    /\ writer' = [writer EXCEPT ![c] =
                     IF @ = "open" /\ pc[c] # "idle" THEN "broken" ELSE @]
    /\ cmd' = [cmd EXCEPT ![c] = Ping]
    /\ UNCHANGED <<envVars, stalled, args, todo, dropVars, sock, clients, states,
                   subVars, monVars, stopVars, histVars>>

\* Mutant of TeardownClient: a client that was disconnected is not visited again.
TeardownClientOnce(c) ==
    /\ pc[c] = "ending"
    /\ sock' = [sock EXCEPT ![c] = "closed"]
    /\ clients' = clients \ {c} /\ states' = states \ {c}
    /\ \/ /\ c \in states /\ writer[c] # "closed"
          /\ Goto(c, "detaching")
          /\ victim' = [victim EXCEPT ![c] = c]
          /\ dstep' = [dstep EXCEPT ![c] = "writer"]
       \/ /\ c \notin states \/ writer[c] = "closed"
          /\ Goto(c, "gone")
          /\ UNCHANGED dropVars
    /\ UNCHANGED <<envVars, stalled, reqVars, writer, subVars, monVars,
                   stopVars, histVars>>

\* conn.Close, registry.Remove and removeClientState.
TeardownClient(c) ==
    /\ pc[c] = "ending"
    /\ sock' = [sock EXCEPT ![c] = "closed"]
    /\ clients' = clients \ {c} /\ states' = states \ {c}
    /\ \/ /\ c \in states
          /\ Goto(c, "detaching")
          /\ victim' = [victim EXCEPT ![c] = c]
          /\ dstep' = [dstep EXCEPT ![c] = "writer"]
       \/ /\ c \notin states
          /\ Goto(c, "gone")
          /\ UNCHANGED dropVars
    /\ UNCHANGED <<envVars, stalled, reqVars, writer, subVars, monVars,
                   stopVars, histVars>>

Detached(c) ==
    /\ pc[c] = "detaching" /\ victim[c] = None
    /\ Goto(c, "gone")
    /\ UNCHANGED <<envVars, stalled, reqVars, dropVars, connVars, subVars,
                   monVars, stopVars, histVars>>

-----------------------------------------------------------------------------
(* Shutdown, after a cancelled context or a failed accept loop.            *)

Cancel ==
    /\ stop = "no" /\ "stop" \in faults
    /\ faults' = faults \ {"stop"}
    /\ stop' = "shutdown" /\ cancelled' = "yes"
    /\ UNCHANGED <<cast, asked, stalled, pc, reqVars, dropVars, connVars, subVars,
                   monVars, closing, histVars>>

AcceptFails ==
    /\ stop = "no" /\ "stop" \in faults
    /\ \A c \in Clients : pc[c] \notin {"accepted", "registered"}
    /\ faults' = faults \ {"stop"}
    /\ stop' = "shutdown"
    /\ UNCHANGED <<cast, asked, stalled, pc, reqVars, dropVars, connVars, subVars,
                   monVars, cancelled, closing, histVars>>

\* Mutant of CancelCloses: only connections in the registry are closed.
CancelClosesRegistered(c) ==
    /\ cancelled = "yes" /\ sock[c] # "closed" /\ c \in clients
    /\ stop = "shutdown"
    /\ pc[c] \notin {"unborn", "accepted", "registered", "starting",
                     "binding", "gone"}
    /\ sock' = [sock EXCEPT ![c] = "closed"]
    /\ UNCHANGED <<envVars, stalled, pc, reqVars, dropVars, writer, clients,
                   states, subVars, monVars, stopVars, histVars>>

\* The handler's context.AfterFunc closes its connection.
CancelCloses(c) ==
    /\ cancelled = "yes" /\ sock[c] # "closed"
    /\ pc[c] \notin {"unborn", "accepted", "registered", "starting",
                     "binding", "gone"}
    /\ sock' = [sock EXCEPT ![c] = "closed"]
    /\ UNCHANGED <<envVars, stalled, pc, reqVars, dropVars, writer, clients,
                   states, subVars, monVars, stopVars, histVars>>

\* shutdown closes the listener; CloseAll empties the registry ...
CloseAll ==
    /\ stop = "shutdown"
    /\ stop' = "closeAll" /\ closing' = clients /\ clients' = {}
    /\ UNCHANGED <<envVars, stalled, pc, reqVars, dropVars, sock, writer,
                   states, subVars, monVars, cancelled, histVars>>

\* ... and closes what was in it.
CloseConn(c) ==
    /\ stop = "closeAll" /\ c \in closing
    /\ closing' = closing \ {c}
    /\ sock' = [sock EXCEPT ![c] = "closed"]
    /\ UNCHANGED <<envVars, stalled, pc, reqVars, dropVars, writer, clients,
                   states, subVars, monVars, stop, cancelled, histVars>>

ClearClientStates ==
    /\ stop = "closeAll" /\ closing = {}
    /\ stop' = "clear" /\ closing' = states /\ states' = {}
    /\ UNCHANGED <<envVars, stalled, pc, reqVars, dropVars, sock, writer,
                   clients, subVars, monVars, cancelled, histVars>>

DisconnectState(c) ==
    /\ stop = "clear" /\ c \in closing /\ victim[Main] = None
    /\ closing' = closing \ {c}
    /\ victim' = [victim EXCEPT ![Main] = c]
    /\ dstep' = [dstep EXCEPT ![Main] = "writer"]
    /\ UNCHANGED <<envVars, stalled, pc, reqVars, connVars, subVars, monVars,
                   stop, cancelled, histVars>>

-----------------------------------------------------------------------------
HandlerStep(c) ==
    \/ CreateClientState(c) \/ Register(c)
    \/ GetClientState(c) \/ BindResponseWriter(c)
    \/ Observed(c) \/ Dispatch(c)
    \/ \E ch \in Channels : SubscribeChannel(c, ch) \/ UnsubscribeChannel(c, ch)
    \/ ChannelsDone(c) \/ StartMonitoring(c)
    \/ \E ch \in Channels : AppendSubscribers(c, ch)
    \/ \E d \in Clients : PushWritten(c, d) \/ PushFailed(c, d)
    \/ Published(c)
    \/ WriteResponses(c) \/ ReplyBlocks(c) \/ ReplyUnblocks(c)
    \/ HandlerReturns(c) \/ TeardownClient(c) \/ Detached(c)

DisconnectStep(a) ==
    DisconnectWriter(a) \/ StopMonitoring(a) \/ UnsubscribeAll(a)

ShutdownStep ==
    \/ CloseAll \/ ClearClientStates
    \/ \E c \in Clients : CloseConn(c) \/ DisconnectState(c)

Next ==
    \/ \E c \in Clients :
          \/ Stall(c) \/ Drain(c) \/ PeerCloses(c) \/ Accept(c) \/ Ask(c)
          \/ HandlerStep(c) \/ CancelCloses(c)
    \/ \E a \in Actors : DisconnectStep(a)
    \/ Cancel \/ AcceptFails \/ ShutdownStep

Spec == Init /\ [][Next]_vars

\* Every goroutine runs on; clients need not read, send or leave.
FairSpec ==
    /\ Spec
    /\ \A c \in Clients : WF_vars(HandlerStep(c) \/ DisconnectStep(c))
    /\ \A c \in Clients : WF_vars(CancelCloses(c))
    /\ WF_vars(ShutdownStep \/ DisconnectStep(Main))

-----------------------------------------------------------------------------
(* Properties.                                                             *)

\* The registries and the clients' own records say the same: a client is among
\* a channel's subscribers exactly when the channel is among its own, and the
\* lock-free count that decides whether commands are observed at all is the
\* number of monitors (pubsub_registry.go, monitor_registry.go).
RegistriesAgree ==
    /\ \A c \in Clients, ch \in Channels :
          c \in subscribers[ch] <=> ch \in channels[c]
    /\ monitors = monitoring
    /\ monitorCount = Cardinality(monitors)

\* No client is in subscribed and in monitoring mode at once, though a pusher
\* may disconnect it in the middle of its own requests (types.go:619).
OneMode == \A c \in Clients : channels[c] = {} \/ c \notin monitoring

\* Until shutdown starts, a connection whose handler has returned is in no
\* registry: not even when a pusher disconnected it first and a SUBSCRIBE or
\* MONITOR in progress registered it again (server.go:350).
GoneIsDetached ==
    \A c \in Clients :
        pc[c] = "gone" /\ stop = "no" =>
            /\ c \notin clients /\ c \notin states
            /\ channels[c] = {} /\ c \notin monitors
            /\ \A ch \in Channels : c \notin subscribers[ch]

\* Until shutdown, when PUBLISH has been through its snapshot, every client that had been told
\* of its subscription before got the message, unless its writer failed: other
\* receivers that fail, unsubscribe or leave meanwhile do not matter
\* (commands.go:862).
PublishReaches ==
    \A c \in Clients :
        pc[c] = "publishing" /\ todo[c] = {} /\ stop = "no" =>
            \A d \in due[c] : d \in got[c] \/ writer[d] # "open"

\* A client that a write failed for leaves the registries, even if it never
\* sends another request; until shutdown it ends up in none
\* (client_state.go:149).
DeadIsDetached ==
    \A c \in Clients :
        (writer[c] \in {"broken", "closed"} /\ stop = "no")
            ~> (stop # "no" \/ (channels[c] = {} /\ c \notin monitors))

\* Once shutdown has begun every handler returns, that of a connection which
\* is registered after CloseAll went through the registry included
\* (server.go:378, handler.go:49).
ShutdownEnds ==
    stop # "no" ~> \A c \in Clients : pc[c] \in {"unborn", "gone"}

=============================================================================
