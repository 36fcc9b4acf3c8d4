---------------------------- MODULE FanoutProofs ----------------------------
(***************************************************************************)
(* Proofs about the registries of subscribers and monitors, for any number *)
(* of clients and channels and every cast: the registries agree with the   *)
(* clients' own records, no client is in two modes, a connection that      *)
(* ended before shutdown is in no registry, and a PUBLISH reaches whoever  *)
(* had been told of its subscription.                                      *)
(***************************************************************************)
EXTENDS Fanout, TLAPS

Ops == {"SUBSCRIBE", "UNSUBSCRIBE", "PUBLISH", "MONITOR", "PING"}

RequestType == [op : Ops, args : SUBSET Channels]

\* Before the handler serves requests.
Early == {"unborn", "accepted", "registered", "starting", "binding"}

PcValues == Early \cup Ops
               \cup {"idle", "observing", "run", "publishing", "reply", "blocked",
                     "ending", "detaching", "gone"}

\* The types of the variables the argument is about.
FanTypes ==
    /\ cast \in DOMAIN Casts
    /\ pc \in [Clients -> PcValues]
    /\ cmd \in [Clients -> RequestType]
    /\ victim \in [Actors -> Clients \cup {None}]
    /\ dstep \in [Actors -> {"none", "writer", "monitoring", "channels"}]
    /\ \A a \in Actors : victim[a] = None <=> dstep[a] = "none"
    /\ subscribers \in [Channels -> SUBSET Clients]
    /\ channels \in [Clients -> SUBSET Channels]

\* Requests have an operation and channels.
LEMMA RequestTypes == Requests \subseteq RequestType
  BY DEF RequestType, Requests, Monitor, Ping, Publish, Subscribe, Unsubscribe, Ops

\* What a client may send in a scenario is a request.
LEMMA ScriptTypes ==
  ASSUME NEW k \in DOMAIN Casts, NEW c \in Clients, NEW r \in Casts[k].script[c]
  PROVE  r \in RequestType
  BY Zenon, CastsAssumption, RequestTypes

-----------------------------------------------------------------------------
(* What one step does to pc and cmd, to the Disconnects in progress, to    *)
(* the subscriptions and to the monitors.                                  *)

\* Only its own handler moves a connection on, one step at a time.
LEMMA TypesOfPc ==
  ASSUME FanTypes, Next
  PROVE  pc' \in [Clients -> PcValues] /\ cmd' \in [Clients -> RequestType]
<1> USE DEF FanTypes, PcValues, Early, Goto, reqVars, envVars
<1>1. ASSUME NEW c \in Clients, Ask(c)
      PROVE  pc' \in [Clients -> PcValues] /\ cmd' \in [Clients -> RequestType]
  BY <1>1, ScriptTypes DEF Ask
<1>2. Ping \in RequestType
  BY Zenon DEF Ping, Ops, RequestType
<1>3. ASSUME NEW c \in Clients, HandlerStep(c)
      PROVE  pc' \in [Clients -> PcValues] /\ cmd' \in [Clients -> RequestType]
  <2>1. CASE Dispatch(c)
    <3>1. cmd[c].op \in PcValues
      BY Zenon DEF RequestType
    <3>2. pc' = [pc EXCEPT ![c] = "reply"] \/ pc' = [pc EXCEPT ![c] = cmd[c].op]
      BY Zenon, <2>1 DEF Dispatch
    <3>3. cmd' = cmd \/ cmd' = [cmd EXCEPT ![c] = Ping]
      BY Zenon, <2>1 DEF Dispatch
    <3> QED
      BY <1>2, <3>1, <3>2, <3>3
  <2>2. CASE WriteResponses(c) \/ ReplyUnblocks(c)
    BY <2>2, <1>2 DEF WriteResponses, ReplyUnblocks, Written
  <2>3. CASE HandlerReturns(c)
    BY Zenon, <2>3, <1>2 DEF HandlerReturns
  <2>4. CASE CreateClientState(c) \/ Register(c) \/ GetClientState(c)
             \/ BindResponseWriter(c) \/ Observed(c)
    BY SMTT(40), <2>4 DEF CreateClientState, Register, GetClientState, BindResponseWriter, Observed
  <2>5. CASE ChannelsDone(c) \/ StartMonitoring(c) \/ Published(c)
             \/ ReplyBlocks(c) \/ TeardownClient(c) \/ Detached(c)
    BY <2>5 DEF ChannelsDone, StartMonitoring, Published, ReplyBlocks, TeardownClient, Detached
  <2>6. CASE \E ch \in Channels : SubscribeChannel(c, ch) \/ UnsubscribeChannel(c, ch)
                                  \/ AppendSubscribers(c, ch)
    BY <2>6 DEF SubscribeChannel, UnsubscribeChannel, AppendSubscribers
  <2>7. CASE \E d \in Clients : PushWritten(c, d) \/ PushFailed(c, d)
    BY <2>7 DEF PushWritten, PushFailed
  <2> QED
    BY Zenon, <1>3, <2>1, <2>2, <2>3, <2>4, <2>5, <2>6, <2>7 DEF HandlerStep
<1>4. ASSUME NEW c \in Clients,
             Stall(c) \/ Drain(c) \/ PeerCloses(c) \/ Accept(c) \/ CancelCloses(c)
      PROVE  pc' \in [Clients -> PcValues] /\ cmd' = cmd
  BY <1>4 DEF Stall, Drain, PeerCloses, Accept, CancelCloses
<1>5. ASSUME (\E a \in Actors : DisconnectStep(a)) \/ Cancel \/ AcceptFails \/ ShutdownStep
      PROVE  pc' = pc /\ cmd' = cmd
  BY Zenon, <1>5 DEF DisconnectStep, DisconnectWriter, StopMonitoring, UnsubscribeAll,
              Cancel, AcceptFails, ShutdownStep, CloseAll, ClearClientStates,
              CloseConn, DisconnectState
<1> QED
  BY Zenon, <1>1, <1>3, <1>4, <1>5 DEF Next

\* A Disconnect starts with its first critical section and ends with its last.
LEMMA StepOfDisconnect ==
  ASSUME Next
  PROVE  \/ UNCHANGED dropVars
         \/ \E a \in Actors, d \in Clients :
               /\ victim' = [victim EXCEPT ![a] = d]
               /\ dstep' = [dstep EXCEPT ![a] = "writer"]
         \/ \E a \in Actors :
               \/ /\ dstep[a] = "writer" /\ victim' = victim
                  /\ dstep' = [dstep EXCEPT ![a] = "monitoring"]
               \/ /\ dstep[a] = "monitoring" /\ victim' = victim
                  /\ dstep' = [dstep EXCEPT ![a] = "channels"]
               \/ /\ dstep[a] = "channels"
                  /\ victim' = [victim EXCEPT ![a] = None]
                  /\ dstep' = [dstep EXCEPT ![a] = "none"]
<1> USE DEF dropVars, Actors
<1>1. ASSUME NEW c \in Clients, HandlerStep(c)
      PROVE  \/ UNCHANGED dropVars
             \/ \E d \in Clients : /\ victim' = [victim EXCEPT ![c] = d]
                                   /\ dstep' = [dstep EXCEPT ![c] = "writer"]
  BY Zenon, <1>1 DEF HandlerStep, CreateClientState, Register, GetClientState,
      BindResponseWriter, Observed, Dispatch, SubscribeChannel,
      UnsubscribeChannel, ChannelsDone, StartMonitoring, AppendSubscribers,
      PushWritten, PushFailed, Published, WriteResponses, ReplyBlocks,
      ReplyUnblocks, Written, HandlerReturns, TeardownClient, Detached
<1>2. ASSUME NEW c \in Clients,
             Stall(c) \/ Drain(c) \/ PeerCloses(c) \/ Accept(c) \/ Ask(c)
             \/ CancelCloses(c)
      PROVE  UNCHANGED dropVars
  BY Zenon, <1>2 DEF Stall, Drain, PeerCloses, Accept, Ask, CancelCloses
<1>3. ASSUME ShutdownStep \/ Cancel \/ AcceptFails
      PROVE  \/ UNCHANGED dropVars
             \/ \E d \in Clients : /\ victim' = [victim EXCEPT ![Main] = d]
                                   /\ dstep' = [dstep EXCEPT ![Main] = "writer"]
  BY Zenon, <1>3 DEF ShutdownStep, CloseAll, ClearClientStates, CloseConn,
              DisconnectState, Cancel, AcceptFails
<1>4. ASSUME NEW a \in Actors, DisconnectStep(a)
      PROVE  \/ /\ dstep[a] = "writer" /\ victim' = victim
                /\ dstep' = [dstep EXCEPT ![a] = "monitoring"]
             \/ /\ dstep[a] = "monitoring" /\ victim' = victim
                /\ dstep' = [dstep EXCEPT ![a] = "channels"]
             \/ /\ dstep[a] = "channels"
                /\ victim' = [victim EXCEPT ![a] = None]
                /\ dstep' = [dstep EXCEPT ![a] = "none"]
  BY Zenon, <1>4 DEF DisconnectStep, DisconnectWriter, StopMonitoring, UnsubscribeAll
<1>5. CASE \E c \in Clients : HandlerStep(c)
  BY Zenon, <1>1, <1>5
<1>6. CASE ShutdownStep \/ Cancel \/ AcceptFails
  BY Zenon, <1>3, <1>6
<1>7. CASE \E a \in Actors : DisconnectStep(a)
  BY Zenon, <1>4, <1>7
<1> QED
  BY Zenon, <1>2, <1>5, <1>6, <1>7 DEF Next

\* Every step keeps the types.
LEMMA TypesStep ==
  ASSUME FanTypes, Next,
         subscribers' \in [Channels -> SUBSET Clients], channels' \in [Clients -> SUBSET Channels]
  PROVE  FanTypes'
<1>1. cast' = cast
  <2> USE DEF envVars
  <2>1. ASSUME NEW c \in Clients, HandlerStep(c) PROVE cast' = cast
    BY Zenon, <2>1 DEF HandlerStep, CreateClientState, Register, GetClientState,
        BindResponseWriter, Observed, Dispatch, SubscribeChannel,
        UnsubscribeChannel, ChannelsDone, StartMonitoring, AppendSubscribers,
        PushWritten, PushFailed, Published, WriteResponses, ReplyBlocks,
        ReplyUnblocks, Written, HandlerReturns, TeardownClient, Detached
  <2>2. ASSUME NEW c \in Clients,
               Stall(c) \/ Drain(c) \/ PeerCloses(c) \/ Accept(c) \/ Ask(c)
               \/ CancelCloses(c)
        PROVE  cast' = cast
    BY Zenon, <2>2 DEF Stall, Drain, PeerCloses, Accept, Ask, CancelCloses
  <2>3. ASSUME Cancel \/ AcceptFails \/ ShutdownStep PROVE cast' = cast
    BY Zenon, <2>3 DEF Cancel, AcceptFails, ShutdownStep, CloseAll, ClearClientStates,
                CloseConn, DisconnectState
  <2>4. ASSUME NEW a \in Actors, DisconnectStep(a) PROVE cast' = cast
    BY Zenon, <2>4 DEF DisconnectStep, DisconnectWriter, StopMonitoring, UnsubscribeAll
  <2> QED
    BY Zenon, <2>1, <2>2, <2>3, <2>4 DEF Next
<1>2. /\ victim' \in [Actors -> Clients \cup {None}]
      /\ dstep' \in [Actors -> {"none", "writer", "monitoring", "channels"}]
      /\ \A a \in Actors : victim'[a] = None <=> dstep'[a] = "none"
  BY StepOfDisconnect, ActorsAssumption DEF FanTypes, dropVars
<1> QED
  BY Zenon, <1>1, <1>2, TypesOfPc DEF FanTypes

\* The subscriptions change by SUBSCRIBE and UNSUBSCRIBE of the client itself,
\* or by the last part of a Disconnect.
LEMMA StepOfSubscriptions ==
  ASSUME Next
  PROVE  \/ UNCHANGED subVars
         \/ \E c \in Clients, ch \in Channels :
               \/ pc[c] = "SUBSCRIBE" /\ AddSubscriber(c, ch) /\ UNCHANGED pc
               \/ pc[c] = "UNSUBSCRIBE" /\ RemoveSubscriber(c, ch) /\ UNCHANGED pc
         \/ \E a \in Actors :
               dstep[a] = "channels" /\ DrainChannels(a, victim[a]) /\ UNCHANGED pc
<1> USE DEF subVars
<1>1. ASSUME NEW c \in Clients, HandlerStep(c),
             ~ \E ch \in Channels : SubscribeChannel(c, ch) \/ UnsubscribeChannel(c, ch)
      PROVE  UNCHANGED subVars
  BY Zenon, <1>1 DEF HandlerStep, CreateClientState, Register, GetClientState,
      BindResponseWriter, Observed, Dispatch, ChannelsDone, StartMonitoring,
      AppendSubscribers, PushWritten, PushFailed, Published, WriteResponses,
      ReplyBlocks, ReplyUnblocks, Written, HandlerReturns, TeardownClient, Detached
<1>2. ASSUME NEW c \in Clients, NEW ch \in Channels,
             SubscribeChannel(c, ch) \/ UnsubscribeChannel(c, ch)
      PROVE  \/ pc[c] = "SUBSCRIBE" /\ AddSubscriber(c, ch) /\ UNCHANGED pc
             \/ pc[c] = "UNSUBSCRIBE" /\ RemoveSubscriber(c, ch) /\ UNCHANGED pc
  BY Zenon, <1>2 DEF SubscribeChannel, UnsubscribeChannel
<1>3. ASSUME NEW c \in Clients,
             Stall(c) \/ Drain(c) \/ PeerCloses(c) \/ Accept(c) \/ Ask(c)
             \/ CancelCloses(c)
      PROVE  UNCHANGED subVars
  BY Zenon, <1>3 DEF Stall, Drain, PeerCloses, Accept, Ask, CancelCloses
<1>4. ASSUME Cancel \/ AcceptFails \/ ShutdownStep PROVE UNCHANGED subVars
  BY Zenon, <1>4 DEF Cancel, AcceptFails, ShutdownStep, CloseAll, ClearClientStates,
              CloseConn, DisconnectState
<1>5. ASSUME NEW a \in Actors, DisconnectStep(a)
      PROVE  \/ UNCHANGED subVars
             \/ dstep[a] = "channels" /\ DrainChannels(a, victim[a]) /\ UNCHANGED pc
  BY Zenon, <1>5 DEF DisconnectStep, DisconnectWriter, StopMonitoring, UnsubscribeAll
<1> QED
  BY Zenon, <1>1, <1>2, <1>3, <1>4, <1>5 DEF Next

\* The monitors change by MONITOR of the client itself, or by the second part
\* of a Disconnect.
LEMMA StepOfMonitors ==
  ASSUME Next
  PROVE  \/ UNCHANGED monVars
         \/ \E c \in Clients : pc[c] = "MONITOR" /\ AddMonitor(c) /\ Goto(c, "reply")
         \/ \E a \in Actors :
               dstep[a] = "monitoring" /\ RemoveMonitor(victim[a]) /\ UNCHANGED pc
<1> USE DEF monVars
<1>1. ASSUME NEW c \in Clients, HandlerStep(c), ~StartMonitoring(c)
      PROVE  UNCHANGED monVars
  BY Zenon, <1>1 DEF HandlerStep, CreateClientState, Register, GetClientState,
      BindResponseWriter, Observed, Dispatch, SubscribeChannel,
      UnsubscribeChannel, ChannelsDone, AppendSubscribers, PushWritten,
      PushFailed, Published, WriteResponses, ReplyBlocks, ReplyUnblocks,
      Written, HandlerReturns, TeardownClient, Detached
<1>2. ASSUME NEW c \in Clients, StartMonitoring(c)
      PROVE  pc[c] = "MONITOR" /\ AddMonitor(c) /\ Goto(c, "reply")
  BY Zenon, <1>2 DEF StartMonitoring
<1>3. ASSUME NEW c \in Clients,
             Stall(c) \/ Drain(c) \/ PeerCloses(c) \/ Accept(c) \/ Ask(c)
             \/ CancelCloses(c)
      PROVE  UNCHANGED monVars
  BY Zenon, <1>3 DEF Stall, Drain, PeerCloses, Accept, Ask, CancelCloses
<1>4. ASSUME Cancel \/ AcceptFails \/ ShutdownStep PROVE UNCHANGED monVars
  BY Zenon, <1>4 DEF Cancel, AcceptFails, ShutdownStep, CloseAll, ClearClientStates,
              CloseConn, DisconnectState
<1>5. ASSUME NEW a \in Actors, DisconnectStep(a)
      PROVE  \/ UNCHANGED monVars
             \/ dstep[a] = "monitoring" /\ RemoveMonitor(victim[a]) /\ UNCHANGED pc
  BY Zenon, <1>5 DEF DisconnectStep, DisconnectWriter, StopMonitoring, UnsubscribeAll
<1> QED
  BY Zenon, <1>1, <1>2, <1>3, <1>4, <1>5 DEF Next

-----------------------------------------------------------------------------
(* The registries agree with the clients' own records.                     *)

Registered == FanTypes /\ RegistriesAgree /\ IsFiniteSet(monitors)

\* The map of subscribers and the clients' channels change together.
LEMMA SubscriptionsAgree ==
  ASSUME Registered, Next
  PROVE  /\ subscribers' \in [Channels -> SUBSET Clients]
         /\ channels' \in [Clients -> SUBSET Channels]
         /\ \A c \in Clients, ch \in Channels :
               c \in subscribers'[ch] <=> ch \in channels'[c]
<1> USE DEF Registered, FanTypes, RegistriesAgree
<1>1. CASE UNCHANGED subVars
  BY Zenon, <1>1 DEF subVars
<1>2. ASSUME NEW c \in Clients, NEW ch \in Channels,
             AddSubscriber(c, ch) \/ RemoveSubscriber(c, ch)
      PROVE  /\ subscribers' \in [Channels -> SUBSET Clients]
             /\ channels' \in [Clients -> SUBSET Channels]
             /\ \A d \in Clients, k \in Channels :
                   d \in subscribers'[k] <=> k \in channels'[d]
  BY <1>2 DEF AddSubscriber, RemoveSubscriber
<1>3. ASSUME NEW a \in Actors, dstep[a] = "channels", DrainChannels(a, victim[a])
      PROVE  /\ subscribers' \in [Channels -> SUBSET Clients]
             /\ channels' \in [Clients -> SUBSET Channels]
             /\ \A d \in Clients, k \in Channels :
                   d \in subscribers'[k] <=> k \in channels'[d]
  <2>1. victim[a] \in Clients
    BY <1>3
  <2> QED
    BY Zenon, <1>3, <2>1 DEF DrainChannels
<1> QED
  BY Zenon, <1>1, <1>2, <1>3, StepOfSubscriptions

-----------------------------------------------------------------------------
(* No client is in two modes.                                              *)

\* A handler on its way to subscribe is not monitoring, nor the other way round.
Modes ==
    /\ OneMode
    /\ \A c \in Clients : pc[c] = "SUBSCRIBE" => c \notin monitoring
    /\ \A c \in Clients : pc[c] = "MONITOR" => channels[c] = {}

\* A step of the client's own handler leads to SUBSCRIBE and MONITOR, after the
\* check of the mode and without a change of the registries.
LEMMA StepOfModes ==
  ASSUME FanTypes, Next, NEW c \in Clients, pc'[c] \in {"SUBSCRIBE", "MONITOR"}
  PROVE  \/ pc'[c] = pc[c]
         \/ Allowed(c, pc'[c]) /\ UNCHANGED <<subVars, monVars>>
<1> USE DEF FanTypes, Goto
<1>1. ASSUME NEW d \in Clients, HandlerStep(d), ~Dispatch(d)
      PROVE  pc'[c] = pc[c]
  BY Zenon, <1>1 DEF HandlerStep, CreateClientState, Register, GetClientState,
      BindResponseWriter, Observed, SubscribeChannel, UnsubscribeChannel,
      ChannelsDone, StartMonitoring, AppendSubscribers, PushWritten,
      PushFailed, Published, WriteResponses, ReplyBlocks, ReplyUnblocks,
      Written, HandlerReturns, TeardownClient, Detached
<1>2. ASSUME NEW d \in Clients, Dispatch(d)
      PROVE  \/ pc'[c] = pc[c]
             \/ Allowed(c, pc'[c]) /\ UNCHANGED <<subVars, monVars>>
  BY Zenon, <1>2 DEF Dispatch, Admitted
<1>3. ASSUME NEW d \in Clients,
             Stall(d) \/ Drain(d) \/ PeerCloses(d) \/ Accept(d) \/ Ask(d)
             \/ CancelCloses(d)
      PROVE  pc'[c] = pc[c]
  BY <1>3 DEF Stall, Drain, PeerCloses, Accept, Ask, CancelCloses
<1>4. ASSUME Cancel \/ AcceptFails \/ ShutdownStep PROVE pc' = pc
  BY Zenon, <1>4 DEF Cancel, AcceptFails, ShutdownStep, CloseAll, ClearClientStates,
              CloseConn, DisconnectState
<1>5. ASSUME NEW a \in Actors, DisconnectStep(a) PROVE pc' = pc
  BY Zenon, <1>5 DEF DisconnectStep, DisconnectWriter, StopMonitoring, UnsubscribeAll
<1> QED
  BY Zenon, <1>1, <1>2, <1>3, <1>4, <1>5 DEF Next

\* Only a client that serves SUBSCRIBE gains channels, and only one that serves
\* MONITOR starts to monitor.
LEMMA OwnRequestsGrow ==
  ASSUME FanTypes, Next
  PROVE  \A c \in Clients :
           /\ pc[c] # "SUBSCRIBE" => channels'[c] \subseteq channels[c]
           /\ pc[c] # "MONITOR" => (c \in monitoring' => c \in monitoring)
           /\ c \in monitoring' /\ c \notin monitoring => channels'[c] = channels[c]
           /\ channels'[c] # channels[c] => (c \in monitoring' => c \in monitoring)
<1>1. \A c \in Clients : pc[c] # "SUBSCRIBE" => channels'[c] \subseteq channels[c]
  BY StepOfSubscriptions
     DEF FanTypes, subVars, AddSubscriber, RemoveSubscriber, DrainChannels
<1>2. \A c \in Clients : pc[c] # "MONITOR" => (c \in monitoring' => c \in monitoring)
  BY Zenon, StepOfMonitors DEF FanTypes, monVars, AddMonitor, RemoveMonitor
<1>3. ASSUME NEW c \in Clients, c \in monitoring', c \notin monitoring
      PROVE  channels'[c] = channels[c]
  <2>1. PICK d \in Clients : pc[d] = "MONITOR" /\ Goto(d, "reply")
    BY Zenon, <1>3, StepOfMonitors DEF monVars, RemoveMonitor
  <2>2. pc' # pc
    BY Zenon, <2>1 DEF Goto, FanTypes
  <2> QED
    BY Zenon, <2>2, StepOfSubscriptions DEF subVars
<1> QED
  BY Zenon, <1>1, <1>2, <1>3

\* Every step keeps a client out of two modes.
LEMMA StepKeepsModes == FanTypes /\ Modes /\ [Next]_vars => Modes'
<1> SUFFICES ASSUME FanTypes, Modes, [Next]_vars PROVE Modes'
  BY Zenon
<1>1. CASE Next
  <2>1. OneMode'
    BY Zenon, <1>1, OwnRequestsGrow DEF Modes, OneMode
  <2>2. ASSUME NEW c \in Clients, pc'[c] = "SUBSCRIBE" PROVE c \notin monitoring'
    BY Zenon, <1>1, <2>2, OwnRequestsGrow, StepOfModes DEF Modes, Allowed, monVars
  <2>3. ASSUME NEW c \in Clients, pc'[c] = "MONITOR" PROVE channels'[c] = {}
    BY Zenon, <1>1, <2>3, OwnRequestsGrow, StepOfModes DEF Modes, Allowed, subVars
  <2> QED
    BY Zenon, <2>1, <2>2, <2>3 DEF Modes
<1>2. CASE UNCHANGED vars
  BY Zenon, <1>2 DEF vars, subVars, monVars, Modes, OneMode
<1> QED
  BY Zenon, <1>1, <1>2

-----------------------------------------------------------------------------
(* A connection that ended is in no registry.                              *)

Fresh == {"unborn", "accepted"}
Leaving == {"detaching", "gone"}

\* Until shutdown: a client enters the registries of connections and of client
\* states before its handler serves, and leaves both when the handler ends.
Enrolled(c) ==
    /\ pc[c] \in Fresh \cup Leaving => c \notin clients
    /\ pc[c] \in Fresh \cup {"registered"} \cup Leaving => c \notin states
    /\ pc[c] \notin Fresh \cup {"registered"} \cup Leaving => c \in states

\* It has channels and monitors only in between: its own Disconnect, which
\* comes last, clears what it registered after a Disconnect by others.
Attached(c) ==
    /\ pc[c] \in Early \cup {"gone"} => channels[c] = {} /\ c \notin monitoring
    /\ victim[c] # None => pc[c] \in {"observing", "publishing", "detaching"}
    /\ pc[c] = "detaching" =>
          /\ victim[c] \in {c, None}
          /\ dstep[c] \in {"channels", "none"} => c \notin monitoring
          /\ dstep[c] = "none" => channels[c] = {}

Life == \A c \in Clients : stop = "no" => Enrolled(c) /\ Attached(c)

\* The first steps of a connection, and requests as they arrive.
LEMMA BeginningKeepsLife ==
  ASSUME FanTypes, Life, Next, NEW c \in Clients,
         \/ Accept(c) \/ Register(c) \/ CreateClientState(c) \/ GetClientState(c)
         \/ BindResponseWriter(c) \/ Ask(c)
  PROVE  Life'
<1> USE DEF Life, FanTypes, Actors, Enrolled, Attached, Fresh, Leaving, Early, Goto,
            subVars, monVars, dropVars, stopVars, connVars
<1>1. CASE Accept(c)
  BY <1>1 DEF Accept
<1>2. CASE Register(c)
  BY <1>2 DEF Register
<1>3. CASE CreateClientState(c)
  BY SMTT(40), <1>3 DEF CreateClientState
<1>4. CASE GetClientState(c)
  BY SMTT(40), <1>4 DEF GetClientState
<1>5. CASE BindResponseWriter(c)
  BY <1>5 DEF BindResponseWriter
<1>6. CASE Ask(c)
  <2>1. \/ pc' = [pc EXCEPT ![c] = "observing"]
        \/ pc' = [pc EXCEPT ![c] = "run"]
    BY Zenon, <1>6 DEF Ask
  <2>2. pc[c] = "idle" /\ UNCHANGED <<dropVars, connVars, subVars, monVars, stopVars>>
    BY Zenon, <1>6 DEF Ask
  <2> QED
    BY <2>1, <2>2
<1> QED
  BY Zenon, <1>1, <1>2, <1>3, <1>4, <1>5, <1>6

\* Requests: they may change the registries of their own client, and a push
\* may start the Disconnect of another.
LEMMA ServingKeepsLife ==
  ASSUME FanTypes, Life, Next, NEW c \in Clients,
         \/ Observed(c) \/ Dispatch(c) \/ ChannelsDone(c) \/ StartMonitoring(c)
         \/ \E ch \in Channels : SubscribeChannel(c, ch) \/ UnsubscribeChannel(c, ch)
                                 \/ AppendSubscribers(c, ch)
         \/ \E d \in Clients : PushWritten(c, d) \/ PushFailed(c, d)
         \/ Published(c) \/ WriteResponses(c) \/ ReplyBlocks(c) \/ ReplyUnblocks(c)
         \/ HandlerReturns(c)
  PROVE  Life'
<1> DEFINE Serving == PcValues \ (Early \cup {"gone", "detaching"})
<1>1. /\ pc[c] \in Serving /\ pc'[c] \in Serving
      /\ \A d \in Clients \ {c} : pc'[d] = pc[d]
      /\ UNCHANGED <<clients, states, stop>>
  <2>1. pc' \in [Clients -> PcValues]
    BY Zenon, TypesOfPc
  <2> USE DEF FanTypes, Goto, Early, stopVars, connVars
  <2>2. CASE Dispatch(c)
    <3>1. cmd[c].op \in Ops
      BY ZenonT(40) DEF RequestType
    <3> QED
      BY <2>1, <2>2, <3>1 DEF Dispatch, Ops
  <2>3. CASE WriteResponses(c) \/ ReplyBlocks(c) \/ ReplyUnblocks(c) \/ HandlerReturns(c)
    BY ZenonT(40), <2>1, <2>3 DEF WriteResponses, ReplyBlocks, ReplyUnblocks, HandlerReturns, Written
  <2>4. CASE \E d \in Clients : PushWritten(c, d) \/ PushFailed(c, d)
    BY Zenon, <2>1, <2>4 DEF PushWritten, PushFailed, Pushes
  <2> QED
    BY <2>1, <2>2, <2>3, <2>4 DEF Observed, ChannelsDone, StartMonitoring,
       SubscribeChannel, UnsubscribeChannel, AppendSubscribers, Published
<1> SUFFICES ASSUME stop = "no" PROVE Life'
  BY Zenon, <1>1 DEF Life
<1>2. \/ UNCHANGED dropVars /\ (victim[c] # None => pc'[c] = pc[c])
      \/ /\ pc[c] \in {"observing", "publishing"} /\ pc' = pc
         /\ \A a \in Actors \ {c} : victim'[a] = victim[a] /\ dstep'[a] = dstep[a]
  <2> USE DEF FanTypes, Goto, dropVars, Actors
  <2>1. CASE \E d \in Clients : PushFailed(c, d)
    BY Zenon, <2>1 DEF PushFailed, Pushes
  <2>2. CASE \E d \in Clients : PushWritten(c, d)
    BY Zenon, <2>2 DEF PushWritten
  <2>3. CASE Observed(c) \/ Published(c)
    BY Zenon, <2>3 DEF Observed, Published
  <2>4. CASE \/ Dispatch(c) \/ ChannelsDone(c) \/ StartMonitoring(c)
             \/ \E ch \in Channels : SubscribeChannel(c, ch) \/ UnsubscribeChannel(c, ch)
                                     \/ AppendSubscribers(c, ch)
             \/ WriteResponses(c) \/ ReplyBlocks(c) \/ ReplyUnblocks(c)
             \/ HandlerReturns(c)
    <3>1. UNCHANGED dropVars /\ pc[c] \notin {"observing", "publishing", "detaching"}
      BY ZenonT(40), <2>4 DEF Dispatch, ChannelsDone, StartMonitoring, SubscribeChannel,
         UnsubscribeChannel, AppendSubscribers, WriteResponses, ReplyBlocks,
         ReplyUnblocks, HandlerReturns, Written
    <3> QED
      BY Zenon, <3>1 DEF Life, Attached
  <2> QED
    BY Zenon, <2>1, <2>2, <2>3, <2>4
<1>3. \A d \in Clients : Enrolled(d)'
  BY <1>1 DEF Life, Enrolled, Fresh, Leaving, PcValues, Early
<1>4. Attached(c)'
  BY Zenon, <1>1, <1>2 DEF Life, Attached, PcValues, Early, dropVars
<1>5. ASSUME NEW d \in Clients, d # c PROVE Attached(d)'
  <2>1. pc'[d] = pc[d] /\ victim'[d] = victim[d] /\ dstep'[d] = dstep[d]
    BY Zenon, <1>1, <1>2, <1>5 DEF dropVars, Actors
  <2>2. pc[d] \in Early \cup {"gone", "detaching"} =>
          channels'[d] \subseteq channels[d] /\ (d \in monitoring' => d \in monitoring)
    BY Zenon, OwnRequestsGrow DEF Early
  <2> QED
    BY Zenon, <2>1, <2>2 DEF Life, Attached
<1> QED
  BY ZenonT(40), <1>3, <1>4, <1>5 DEF Life

\* The end of a connection.
LEMMA EndingKeepsLife ==
  ASSUME FanTypes, Life, Next, NEW c \in Clients, TeardownClient(c) \/ Detached(c)
  PROVE  Life'
<1> USE DEF Life, FanTypes, Actors, Enrolled, Attached, Fresh, Leaving, Early, Goto,
            subVars, monVars, dropVars, stopVars, connVars
<1>1. CASE TeardownClient(c)
  <2>1. /\ pc[c] = "ending" /\ UNCHANGED <<subVars, monVars, stopVars>>
        /\ clients' = clients \ {c} /\ states' = states \ {c}
    BY Zenon, <1>1 DEF TeardownClient
  <2>2. \/ /\ pc' = [pc EXCEPT ![c] = "detaching"]
           /\ victim' = [victim EXCEPT ![c] = c]
           /\ dstep' = [dstep EXCEPT ![c] = "writer"]
        \/ /\ c \notin states
           /\ pc' = [pc EXCEPT ![c] = "gone"] /\ UNCHANGED dropVars
    BY Zenon, <1>1 DEF TeardownClient
  <2>3. \A d \in Clients : stop' = "no" => Enrolled(d)'
    BY <2>1, <2>2
  <2>4. \A d \in Clients : stop' = "no" => Attached(d)'
    BY SMTT(40), <2>1, <2>2
  <2> QED
    BY Zenon, <2>3, <2>4
<1>2. CASE Detached(c)
  BY <1>2 DEF Detached
<1> QED
  BY Zenon, <1>1, <1>2

\* The critical sections of a Disconnect, whoever runs it.
LEMMA DisconnectKeepsLife ==
  ASSUME FanTypes, Life, Next, NEW a \in Actors, DisconnectStep(a)
  PROVE  Life'
<1>1. UNCHANGED <<pc, clients, states, stop>>
  BY Zenon DEF DisconnectStep, DisconnectWriter, StopMonitoring, UnsubscribeAll, connVars, stopVars
<1>2. ASSUME NEW d \in Clients, pc[d] \in Early \cup {"gone", "detaching"}
      PROVE  channels'[d] \subseteq channels[d] /\ (d \in monitoring' => d \in monitoring)
  BY Zenon, <1>2, OwnRequestsGrow DEF Early
<1>3. \A d \in Clients : stop = "no" => Enrolled(d)'
  BY Zenon, <1>1 DEF Life, Enrolled
<1>4. ASSUME NEW d \in Clients, stop = "no" PROVE Attached(d)'
  <2> USE <1>1, <1>2, <1>4 DEF Life, Attached, FanTypes, Actors
  <2>1. CASE DisconnectWriter(a)
    BY SMTT(40), <2>1 DEF DisconnectWriter
  <2>2. CASE StopMonitoring(a)
    BY SMTT(40), <2>2 DEF StopMonitoring, RemoveMonitor
  <2>3. CASE UnsubscribeAll(a)
    BY <2>3 DEF UnsubscribeAll, DrainChannels, monVars
  <2> QED
    BY Zenon, <2>1, <2>2, <2>3 DEF DisconnectStep
<1> QED
  BY Zenon, <1>1, <1>3, <1>4 DEF Life

\* Every step keeps the registries true to the lives of the connections.
LEMMA StepKeepsLife == FanTypes /\ Life /\ [Next]_vars => Life'
<1> SUFFICES ASSUME FanTypes, Life, [Next]_vars PROVE Life'
  BY Zenon
<1> USE DEF subVars, monVars, dropVars, stopVars, connVars
<1>1. ASSUME NEW c \in Clients,
             Stall(c) \/ Drain(c) \/ PeerCloses(c) \/ CancelCloses(c)
      PROVE  Life'
  BY <1>1 DEF Stall, Drain, PeerCloses, CancelCloses, Life, Enrolled, Attached
<1>2. ASSUME Cancel \/ AcceptFails \/ ShutdownStep PROVE stop' # "no"
  BY Zenon, <1>2 DEF Cancel, AcceptFails, ShutdownStep, CloseAll, CloseConn,
              ClearClientStates, DisconnectState
<1>3. CASE UNCHANGED vars
  BY Zenon, <1>3 DEF vars, Life, Enrolled, Attached
<1>4. CASE Next
  <2>1. ASSUME NEW c \in Clients, HandlerStep(c) PROVE Life'
    BY Zenon, <1>4, <2>1, BeginningKeepsLife, ServingKeepsLife, EndingKeepsLife DEF HandlerStep
  <2>2. ASSUME NEW c \in Clients, Accept(c) \/ Ask(c) PROVE Life'
    BY Zenon, <1>4, <2>2, BeginningKeepsLife
  <2>3. ASSUME NEW a \in Actors, DisconnectStep(a) PROVE Life'
    BY Zenon, <1>4, <2>3, DisconnectKeepsLife
  <2>4. CASE Cancel \/ AcceptFails \/ ShutdownStep
    BY Zenon, <1>2, <2>4 DEF Life
  <2> QED
    BY <1>1, <1>4, <2>1, <2>2, <2>3, <2>4 DEF Next
<1> QED
  BY Zenon, <1>3, <1>4

-----------------------------------------------------------------------------
(* A publication reaches who was told of its subscription.                 *)

WriterStates == {"unbound", "open", "broken", "closed", "raw"}

DeliveryTypes ==
    /\ writer \in [Clients -> WriterStates]
    /\ args \in [Clients -> SUBSET Channels]
    /\ todo \in [Clients -> SUBSET Clients]
    /\ acked \in [Clients -> SUBSET Channels]
    /\ due \in [Clients -> SUBSET Clients]
    /\ got \in [Clients -> SUBSET Clients]
    /\ monitors \subseteq Clients

\* Nobody knows of a client whose handler does not serve yet.
Newcomer(d) ==
    pc[d] \in Early =>
        /\ writer[d] = "unbound" /\ acked[d] = {}
        /\ \A c \in Clients : d \notin todo[c] /\ d \notin due[c]
        /\ \A a \in Actors : victim[a] # d

\* The first critical section of a Disconnect closes the writer for good.
Dropped(a) ==
    dstep[a] \in {"monitoring", "channels"} => writer[victim[a]] # "open"

\* The request a handler is serving, and the channels it has yet to handle.
InRequest(c) ==
    /\ pc[c] \in Ops => cmd[c].op = pc[c]
    /\ pc[c] = "publishing" => cmd[c].op = "PUBLISH"
    /\ pc[c] \in {"observing", "run"} => args[c] = cmd[c].args

\* A client that can be written to has the channels it was told of, and those
\* its reply is going to tell it of.
Told(c) ==
    writer[c] = "open" =>
        /\ acked[c] \subseteq channels[c]
        /\ cmd[c].op = "SUBSCRIBE" =>
              /\ pc[c] = "SUBSCRIBE" => cmd[c].args \subseteq channels[c] \cup args[c]
              /\ pc[c] \in {"reply", "blocked"} => cmd[c].args \subseteq channels[c]

\* A push in progress has not forgotten anyone.
Reaching(c) ==
    pc[c] = "publishing" =>
        \A d \in due[c] : d \in got[c] \/ d \in todo[c] \/ writer[d] # "open"

Delivery ==
    /\ DeliveryTypes
    /\ \A c \in Clients : InRequest(c)
    /\ stop = "no" => /\ \A a \in Actors : Dropped(a)
                      /\ \A c \in Clients : Newcomer(c) /\ Told(c) /\ Reaching(c)

\* The types of the variables a push goes by.
LEMMA DeliveryTypesStep ==
  ASSUME FanTypes, DeliveryTypes, Next
  PROVE  DeliveryTypes'
<1> USE DEF DeliveryTypes, WriterStates, reqVars, connVars, histVars, monVars
<1>1. ASSUME NEW c \in Clients,
             Stall(c) \/ Drain(c) \/ PeerCloses(c) \/ Accept(c) \/ CancelCloses(c)
      PROVE  DeliveryTypes'
  BY Zenon, <1>1 DEF Stall, Drain, PeerCloses, Accept, CancelCloses
<1>2. ASSUME Cancel \/ AcceptFails \/ ShutdownStep PROVE DeliveryTypes'
  BY Zenon, <1>2 DEF Cancel, AcceptFails, ShutdownStep, CloseAll, CloseConn,
              ClearClientStates, DisconnectState
<1>3. ASSUME NEW a \in Actors, DisconnectStep(a) PROVE DeliveryTypes'
  BY <1>3 DEF DisconnectStep, DisconnectWriter, StopMonitoring, RemoveMonitor, UnsubscribeAll
<1>4. ASSUME NEW c \in Clients, Ask(c) PROVE DeliveryTypes'
  <2>1. PICK r \in Casts[cast].script[c] : args' = [args EXCEPT ![c] = r.args]
    BY Zenon, <1>4 DEF Ask
  <2>2. r.args \in SUBSET Channels
    BY ScriptTypes DEF FanTypes, RequestType
  <2> QED
    BY ZenonT(40), <1>4, <2>1, <2>2 DEF Ask
<1>5. ASSUME NEW c \in Clients, HandlerStep(c) PROVE DeliveryTypes'
  <2>1. CASE CreateClientState(c) \/ Register(c) \/ GetClientState(c)
             \/ BindResponseWriter(c) \/ Observed(c)
    BY Zenon, <2>1 DEF CreateClientState, Register, GetClientState, BindResponseWriter, Observed
  <2>2. CASE Dispatch(c)
    BY SMTT(40), <2>2 DEF Dispatch, FanTypes
  <2>3. CASE \E ch \in Channels : SubscribeChannel(c, ch) \/ UnsubscribeChannel(c, ch)
                                  \/ AppendSubscribers(c, ch)
    BY SMTT(40), <2>3 DEF SubscribeChannel, UnsubscribeChannel, AppendSubscribers, FanTypes
  <2>4. CASE \E d \in Clients : PushWritten(c, d) \/ PushFailed(c, d)
    BY SMTT(40), <2>4 DEF PushWritten, PushFailed
  <2>5. CASE ChannelsDone(c) \/ StartMonitoring(c) \/ Published(c)
             \/ ReplyBlocks(c) \/ TeardownClient(c) \/ Detached(c)
    BY SMTT(40), <2>5 DEF ChannelsDone, StartMonitoring, AddMonitor, Published, ReplyBlocks,
                TeardownClient, Detached
  <2>6. CASE WriteResponses(c) \/ ReplyUnblocks(c) \/ HandlerReturns(c)
    <3>1. cmd[c].args \subseteq Channels
      BY Zenon DEF FanTypes, RequestType
    <3> QED
      BY <2>6, <3>1 DEF WriteResponses, ReplyUnblocks, HandlerReturns, Written
  <2> QED
    BY Zenon, <1>5, <2>1, <2>2, <2>3, <2>4, <2>5, <2>6 DEF HandlerStep
<1> QED
  BY Zenon, <1>1, <1>2, <1>3, <1>4, <1>5 DEF Next

\* A handler serves one request at a time.
LEMMA InRequestStep ==
  ASSUME FanTypes, DeliveryTypes, Next, \A c \in Clients : InRequest(c)
  PROVE  \A c \in Clients : InRequest(c)'
<1>0. /\ pc \in [Clients -> PcValues] /\ cmd \in [Clients -> RequestType]
      /\ args \in [Clients -> SUBSET Channels]
  BY Zenon DEF FanTypes, DeliveryTypes
<1> USE <1>0 DEF InRequest, Ops, Goto, reqVars
<1>1. ASSUME NEW c \in Clients,
             Stall(c) \/ Drain(c) \/ PeerCloses(c) \/ CancelCloses(c)
      PROVE  \A d \in Clients : InRequest(d)'
  BY SMTT(40), <1>1 DEF Stall, Drain, PeerCloses, CancelCloses
<1>2. ASSUME Cancel \/ AcceptFails \/ ShutdownStep
      PROVE  \A d \in Clients : InRequest(d)'
  BY SMTT(40), <1>2 DEF Cancel, AcceptFails, ShutdownStep, CloseAll, CloseConn,
              ClearClientStates, DisconnectState
<1>3. ASSUME NEW a \in Actors, DisconnectStep(a)
      PROVE  \A d \in Clients : InRequest(d)'
  BY <1>3 DEF DisconnectStep, DisconnectWriter, StopMonitoring, UnsubscribeAll
<1>4. ASSUME NEW c \in Clients, Accept(c) \/ Ask(c)
      PROVE  \A d \in Clients : InRequest(d)'
  <2>1. CASE Accept(c)
    BY ZenonT(40), <2>1 DEF Accept
  <2>2. CASE Ask(c)
    BY <2>2 DEF Ask
  <2> QED
    BY Zenon, <1>4, <2>1, <2>2
<1>5. ASSUME NEW c \in Clients, HandlerStep(c)
      PROVE  \A d \in Clients : InRequest(d)'
  <2>1. CASE CreateClientState(c) \/ Register(c) \/ GetClientState(c)
             \/ BindResponseWriter(c) \/ Observed(c)
    <3>1. /\ UNCHANGED <<cmd, args>>
          /\ \A d \in Clients \ {c} : pc'[d] = pc[d]
          /\ \/ pc[c] = "observing" /\ pc'[c] = "run"
             \/ pc'[c] \in {"registered", "starting", "binding", "idle", "gone"}
      BY Zenon, <2>1 DEF CreateClientState, Register, GetClientState, BindResponseWriter, Observed
    <3> QED
      BY ZenonT(40), <3>1
  <2>2. CASE Dispatch(c)
    <3>1. cmd[c].op \in Ops
      BY Zenon DEF RequestType
    <3> QED
      BY ZenonT(40), <2>2, <3>1 DEF Dispatch
  <2>3. CASE \E ch \in Channels : SubscribeChannel(c, ch) \/ UnsubscribeChannel(c, ch)
                                  \/ AppendSubscribers(c, ch)
    <3>1. /\ cmd' = cmd /\ pc[c] \in {"SUBSCRIBE", "UNSUBSCRIBE", "PUBLISH"}
          /\ \A d \in Clients \ {c} : pc'[d] = pc[d] /\ args'[d] = args[d]
          /\ pc'[c] = pc[c] \/ (pc[c] = "PUBLISH" /\ pc'[c] = "publishing")
      BY Zenon, <2>3 DEF SubscribeChannel, UnsubscribeChannel, AppendSubscribers
    <3> QED
      BY Zenon, <3>1
  <2>4. CASE \E d \in Clients : PushWritten(c, d) \/ PushFailed(c, d)
    BY Zenon, <2>4 DEF PushWritten, PushFailed
  <2>5. CASE ChannelsDone(c) \/ StartMonitoring(c) \/ Published(c)
             \/ ReplyBlocks(c) \/ TeardownClient(c) \/ Detached(c)
    BY ZenonT(40), <2>5 DEF ChannelsDone, StartMonitoring, AddMonitor, Published, ReplyBlocks,
                TeardownClient, Detached
  <2>6. CASE WriteResponses(c) \/ ReplyUnblocks(c) \/ HandlerReturns(c)
    BY ZenonT(40), <2>6 DEF WriteResponses, ReplyUnblocks, HandlerReturns, Written
  <2> QED
    BY Zenon, <1>5, <2>1, <2>2, <2>3, <2>4, <2>5, <2>6 DEF HandlerStep
<1> QED
  BY Zenon, <1>1, <1>2, <1>3, <1>4, <1>5 DEF Next

\* Until shutdown: only its own handler, when it starts, opens the writer of a
\* client; the writer a Disconnect closed stays closed.
LEMMA StepOfWriters ==
  ASSUME FanTypes, DeliveryTypes, Next, stop' = "no", NEW d \in Clients,
         writer'[d] = "open"
  PROVE  writer[d] = "open" \/ (pc[d] = "binding" /\ pc'[d] = "idle")
<1>0. pc \in [Clients -> PcValues] /\ writer \in [Clients -> WriterStates]
  BY Zenon DEF FanTypes, DeliveryTypes
<1> USE <1>0 DEF Goto, connVars
<1>1. ASSUME NEW c \in Clients,
             Stall(c) \/ Drain(c) \/ PeerCloses(c) \/ Accept(c) \/ Ask(c)
             \/ CancelCloses(c)
      PROVE  writer[d] = "open"
  BY Zenon, <1>1 DEF Stall, Drain, PeerCloses, Accept, Ask, CancelCloses
<1>2. ASSUME Cancel \/ AcceptFails \/ ShutdownStep PROVE writer[d] = "open"
  BY Zenon, <1>2 DEF Cancel, AcceptFails, ShutdownStep, CloseAll, CloseConn,
              ClearClientStates, DisconnectState
<1>3. ASSUME NEW a \in Actors, DisconnectStep(a) PROVE writer[d] = "open"
  BY Zenon, <1>3 DEF DisconnectStep, DisconnectWriter, StopMonitoring, UnsubscribeAll
<1>4. ASSUME NEW c \in Clients, HandlerStep(c)
      PROVE  writer[d] = "open" \/ (pc[d] = "binding" /\ pc'[d] = "idle")
  BY Zenon, <1>4 DEF HandlerStep, CreateClientState, Register, GetClientState,
      BindResponseWriter, Observed, Dispatch, SubscribeChannel,
      UnsubscribeChannel, ChannelsDone, StartMonitoring, AppendSubscribers,
      PushWritten, PushFailed, Published, WriteResponses, ReplyBlocks,
      ReplyUnblocks, Written, HandlerReturns, TeardownClient, Detached
<1> QED
  BY Zenon, <1>1, <1>2, <1>3, <1>4 DEF Next

\* No handler goes back to the time before it served.
LEMMA EarlyIsOnce ==
  ASSUME FanTypes, Next, NEW d \in Clients, pc'[d] \in Early
  PROVE  pc[d] \in Early
<1> USE DEF FanTypes, Goto, Early
<1>1. ASSUME NEW c \in Clients,
             Stall(c) \/ Drain(c) \/ PeerCloses(c) \/ Accept(c) \/ Ask(c)
             \/ CancelCloses(c)
      PROVE  pc[d] \in Early
  BY Zenon, <1>1 DEF Stall, Drain, PeerCloses, Accept, Ask, CancelCloses
<1>2. ASSUME Cancel \/ AcceptFails \/ ShutdownStep PROVE pc[d] \in Early
  BY Zenon, <1>2 DEF Cancel, AcceptFails, ShutdownStep, CloseAll, CloseConn,
              ClearClientStates, DisconnectState
<1>3. ASSUME NEW a \in Actors, DisconnectStep(a) PROVE pc[d] \in Early
  BY Zenon, <1>3 DEF DisconnectStep, DisconnectWriter, StopMonitoring, UnsubscribeAll
<1>4. ASSUME NEW c \in Clients, HandlerStep(c) PROVE pc[d] \in Early
  <2>1. CASE Dispatch(c)
    <3>1. cmd[c].op \in Ops
      BY Zenon DEF RequestType
    <3> QED
      BY <2>1, <3>1 DEF Dispatch, Ops
  <2>2. CASE ~Dispatch(c)
    BY ZenonT(40), <1>4, <2>2 DEF HandlerStep, CreateClientState, Register, GetClientState,
      BindResponseWriter, Observed, SubscribeChannel,
      UnsubscribeChannel, ChannelsDone, StartMonitoring, AppendSubscribers,
      PushWritten, PushFailed, Published, WriteResponses, ReplyBlocks,
      ReplyUnblocks, Written, HandlerReturns, TeardownClient, Detached
  <2> QED
    BY Zenon, <2>1, <2>2
<1> QED
  BY Zenon, <1>1, <1>2, <1>3, <1>4 DEF Next

\* Shutdown starts once.
LEMMA StopIsOnce ==
  ASSUME Next, stop' = "no"
  PROVE  stop = "no" /\ ~(Cancel \/ AcceptFails \/ ShutdownStep)
<1>1. ASSUME Cancel \/ AcceptFails \/ ShutdownStep PROVE FALSE
  BY Zenon, <1>1 DEF Cancel, AcceptFails, ShutdownStep, CloseAll, CloseConn,
              ClearClientStates, DisconnectState
<1>2. ASSUME NEW c \in Clients,
             Stall(c) \/ Drain(c) \/ PeerCloses(c) \/ Accept(c) \/ Ask(c)
             \/ CancelCloses(c)
      PROVE  stop = "no"
  BY Zenon, <1>2 DEF Stall, Drain, PeerCloses, Accept, Ask, CancelCloses, stopVars
<1>3. ASSUME NEW a \in Actors, DisconnectStep(a) PROVE stop = "no"
  BY Zenon, <1>3 DEF DisconnectStep, DisconnectWriter, StopMonitoring, UnsubscribeAll, stopVars
<1>4. ASSUME NEW c \in Clients, HandlerStep(c) PROVE stop = "no"
  BY Zenon, <1>4 DEF HandlerStep, CreateClientState, Register, GetClientState,
      BindResponseWriter, Observed, Dispatch, SubscribeChannel,
      UnsubscribeChannel, ChannelsDone, StartMonitoring, AppendSubscribers,
      PushWritten, PushFailed, Published, WriteResponses, ReplyBlocks,
      ReplyUnblocks, Written, HandlerReturns, TeardownClient, Detached, stopVars
<1> QED
  BY Zenon, <1>1, <1>2, <1>3, <1>4 DEF Next

\* Until shutdown, a client that does not serve yet stays unknown to the others.
LEMMA NewcomerStep ==
  ASSUME Registered, Life, Delivery, Next, stop' = "no", NEW d \in Clients
  PROVE  Newcomer(d)'
<1> SUFFICES ASSUME pc'[d] \in Early
             PROVE  /\ writer'[d] = "unbound" /\ acked'[d] = {}
                    /\ \A c \in Clients : d \notin todo'[c] /\ d \notin due'[c]
                    /\ \A a \in Actors : victim'[a] # d
  BY Zenon DEF Newcomer
<1>1. stop = "no" /\ ~(Cancel \/ AcceptFails \/ ShutdownStep)
  BY Zenon, StopIsOnce
<1>2. pc[d] \in Early
  BY Zenon, EarlyIsOnce DEF Registered
<1>3. /\ writer[d] = "unbound" /\ acked[d] = {}
      /\ \A c \in Clients : d \notin todo[c] /\ d \notin due[c]
      /\ \A a \in Actors : victim[a] # d
  BY Zenon, <1>1, <1>2 DEF Delivery, Newcomer
<1>4. d \notin monitors /\ \A ch \in Channels : d \notin subscribers[ch]
  BY Zenon, <1>1, <1>2 DEF Life, Attached, Registered, RegistriesAgree, FanTypes
<1>5. pc[d] = "starting" => d \in states
  BY Zenon, <1>1 DEF Life, Enrolled, Fresh, Leaving
<1>6. /\ pc \in [Clients -> PcValues] /\ victim \in [Actors -> Clients \cup {None}]
      /\ writer \in [Clients -> WriterStates] /\ acked \in [Clients -> SUBSET Channels]
      /\ todo \in [Clients -> SUBSET Clients] /\ due \in [Clients -> SUBSET Clients]
  BY Zenon DEF Registered, Delivery, FanTypes, DeliveryTypes
<1> HIDE DEF Registered, Life, Delivery
<1> USE <1>2, <1>3, <1>6 DEF Early, Goto, Actors, reqVars, connVars, dropVars, histVars
<1>7. ASSUME NEW c \in Clients,
             Stall(c) \/ Drain(c) \/ PeerCloses(c) \/ Accept(c) \/ Ask(c)
             \/ CancelCloses(c)
      PROVE  /\ writer'[d] = "unbound" /\ acked'[d] = {}
             /\ \A e \in Clients : d \notin todo'[e] /\ d \notin due'[e]
             /\ \A a \in Actors : victim'[a] # d
  BY Zenon, <1>7, <1>4 DEF Stall, Drain, PeerCloses, Accept, Ask, CancelCloses
<1>8. ASSUME NEW a \in Actors, DisconnectStep(a)
      PROVE  /\ writer'[d] = "unbound" /\ acked'[d] = {}
             /\ \A e \in Clients : d \notin todo'[e] /\ d \notin due'[e]
             /\ \A b \in Actors : victim'[b] # d
  BY <1>8, ActorsAssumption
     DEF DisconnectStep, DisconnectWriter, StopMonitoring, UnsubscribeAll
<1>9. ASSUME NEW c \in Clients, HandlerStep(c)
      PROVE  /\ writer'[d] = "unbound" /\ acked'[d] = {}
             /\ \A e \in Clients : d \notin todo'[e] /\ d \notin due'[e]
             /\ \A b \in Actors : victim'[b] # d
  <2>1. CASE CreateClientState(c) \/ Register(c) \/ GetClientState(c)
             \/ BindResponseWriter(c) \/ Observed(c)
    BY <2>1, <1>5 DEF CreateClientState, Register, GetClientState, BindResponseWriter, Observed
  <2>2. CASE Dispatch(c)
    BY Zenon, <2>2 DEF Dispatch
  <2>3. CASE \E ch \in Channels : SubscribeChannel(c, ch) \/ UnsubscribeChannel(c, ch)
                                  \/ AppendSubscribers(c, ch)
    <3>1. ASSUME NEW ch \in Channels, SubscribeChannel(c, ch) \/ UnsubscribeChannel(c, ch)
          PROVE  UNCHANGED <<writer, todo, due, victim>> /\ acked'[d] = {}
      BY SMTT(40), <3>1 DEF SubscribeChannel, UnsubscribeChannel
    <3>2. ASSUME NEW ch \in Channels, AppendSubscribers(c, ch)
          PROVE  /\ UNCHANGED <<writer, acked, victim>>
                 /\ \A e \in Clients : d \notin todo'[e] /\ d \notin due'[e]
      BY SMTT(40), <3>2, <1>4 DEF AppendSubscribers
    <3> QED
      BY SMTT(40), <2>3, <3>1, <3>2
  <2>4. CASE \E e \in Clients : PushWritten(c, e) \/ PushFailed(c, e)
    <3>1. ASSUME NEW e \in Clients, PushWritten(c, e)
          PROVE  /\ UNCHANGED <<writer, acked, due, victim>>
                 /\ \A f \in Clients : d \notin todo'[f]
      BY SMTT(40), <3>1 DEF PushWritten
    <3>2. ASSUME NEW e \in Clients, PushFailed(c, e)
          PROVE  /\ writer'[d] = writer[d] /\ UNCHANGED <<acked, due>>
                 /\ \A f \in Clients : d \notin todo'[f]
                 /\ \A b \in Actors : victim'[b] # d
      BY SMTT(40), <3>2 DEF PushFailed, Pushes
    <3> QED
      BY SMTT(40), <2>4, <3>1, <3>2
  <2>5. CASE ChannelsDone(c) \/ StartMonitoring(c) \/ Published(c)
             \/ ReplyBlocks(c) \/ TeardownClient(c) \/ Detached(c)
    BY <2>5 DEF ChannelsDone, StartMonitoring, Published, ReplyBlocks,
                TeardownClient, Detached
  <2>6. CASE WriteResponses(c) \/ ReplyUnblocks(c) \/ HandlerReturns(c)
    BY Zenon, <2>6 DEF WriteResponses, ReplyUnblocks, HandlerReturns, Written
  <2> QED
    BY ZenonT(40), <1>9, <2>1, <2>2, <2>3, <2>4, <2>5, <2>6 DEF HandlerStep
<1> QED
  BY Zenon, <1>1, <1>7, <1>8, <1>9 DEF Next

\* Until shutdown, a client whose Disconnect has begun is not written to again.
LEMMA DroppedStep ==
  ASSUME Registered, Delivery, Next, stop' = "no", NEW a \in Actors
  PROVE  Dropped(a)'
<1> SUFFICES ASSUME dstep'[a] \in {"monitoring", "channels"},
                    writer'[victim'[a]] = "open"
             PROVE  FALSE
  BY Zenon DEF Dropped
<1>1. stop = "no" /\ FanTypes /\ DeliveryTypes
  BY Zenon, StopIsOnce DEF Registered, Delivery
<1>2. ~DisconnectWriter(a)
  BY <1>1 DEF DisconnectWriter, FanTypes, DeliveryTypes
<1>3. dstep[a] \in {"monitoring", "channels"} /\ victim'[a] = victim[a]
  <2>2. CASE DisconnectStep(a)
    BY Zenon, <1>1, <1>2, <2>2 DEF DisconnectStep, StopMonitoring, UnsubscribeAll, FanTypes
  <2>3. ASSUME NEW b \in Actors, b # a, DisconnectStep(b)
        PROVE  dstep[a] \in {"monitoring", "channels"} /\ victim'[a] = victim[a]
    BY Zenon, <1>1, <2>3 DEF DisconnectStep, DisconnectWriter, StopMonitoring, UnsubscribeAll, FanTypes
  <2>4. ASSUME NEW c \in Clients, HandlerStep(c)
        PROVE  dstep[a] \in {"monitoring", "channels"} /\ victim'[a] = victim[a]
    BY ZenonT(40), <1>1, <2>4 DEF HandlerStep, CreateClientState, Register, GetClientState,
      BindResponseWriter, Observed, Dispatch, SubscribeChannel,
      UnsubscribeChannel, ChannelsDone, StartMonitoring, AppendSubscribers,
      PushWritten, PushFailed, Published, WriteResponses, ReplyBlocks,
      ReplyUnblocks, Written, HandlerReturns, TeardownClient, Detached, dropVars, FanTypes
  <2>5. ASSUME NEW c \in Clients,
               Stall(c) \/ Drain(c) \/ PeerCloses(c) \/ Accept(c) \/ Ask(c)
               \/ CancelCloses(c)
        PROVE  dstep[a] \in {"monitoring", "channels"} /\ victim'[a] = victim[a]
    BY Zenon, <2>5 DEF Stall, Drain, PeerCloses, Accept, Ask, CancelCloses, dropVars
  <2> QED
    BY Zenon, <2>2, <2>3, <2>4, <2>5, StopIsOnce DEF Next
<1>4. victim[a] \in Clients
  BY Zenon, <1>1, <1>3 DEF FanTypes
<1>5. writer[victim[a]] # "open"
  BY Zenon, <1>1, <1>3 DEF Delivery, Dropped
<1>6. pc[victim[a]] = "binding"
  BY Zenon, <1>1, <1>3, <1>4, <1>5, StepOfWriters
<1> QED
  BY Zenon, <1>1, <1>4, <1>6 DEF Delivery, Newcomer, Early

\* What a client was told of, and will be told of, it is subscribed to.
LEMMA ToldStep ==
  ASSUME Registered, Life, Delivery, Next, stop' = "no", NEW d \in Clients
  PROVE  Told(d)'
<1> SUFFICES ASSUME writer'[d] = "open" PROVE Told(d)'
  BY Zenon DEF Told
<1>1. stop = "no" /\ FanTypes /\ DeliveryTypes /\ InRequest(d) /\ Told(d)
  BY Zenon, StopIsOnce DEF Registered, Delivery
<1>2. pc[d] \in Early => acked[d] = {}
  BY Zenon, <1>1 DEF Delivery, Newcomer
<1>3. \A a \in Actors : dstep[a] = "channels" /\ victim[a] = d => writer[d] # "open"
  BY Zenon, <1>1 DEF Delivery, Dropped
<1>4. cmd[d] \in RequestType
  BY Zenon, <1>1 DEF FanTypes
<1> HIDE DEF Registered, Life, Delivery
<1>0. /\ pc \in [Clients -> PcValues] /\ cmd \in [Clients -> RequestType]
      /\ writer \in [Clients -> WriterStates] /\ args \in [Clients -> SUBSET Channels]
      /\ channels \in [Clients -> SUBSET Channels] /\ acked \in [Clients -> SUBSET Channels]
  BY Zenon, <1>1 DEF FanTypes, DeliveryTypes
<1> USE <1>0 DEF Goto, reqVars, connVars, subVars, histVars
<1>5. ASSUME NEW c \in Clients,
             Stall(c) \/ Drain(c) \/ PeerCloses(c) \/ CancelCloses(c)
      PROVE  Told(d)'
  BY Zenon, <1>1, <1>5 DEF Stall, Drain, PeerCloses, CancelCloses, Told
<1>6. ASSUME NEW c \in Clients, Accept(c) \/ Ask(c)
      PROVE  Told(d)'
  <2>1. CASE Accept(c)
    BY Zenon, <1>1, <2>1 DEF Accept, Told
  <2>2. CASE Ask(c)
    <3>1. UNCHANGED <<writer, acked, channels>> /\ pc[c] = "idle"
          /\ (\A e \in Clients \ {c} : pc'[e] = pc[e] /\ cmd'[e] = cmd[e] /\ args'[e] = args[e])
          /\ pc'[c] \in {"observing", "run"}
      BY <1>1, <2>2 DEF Ask
    <3> QED
      BY Zenon, <1>1, <3>1 DEF Told
  <2> QED
    BY Zenon, <1>6, <2>1, <2>2
<1>7. ASSUME NEW a \in Actors, DisconnectStep(a)
      PROVE  Told(d)'
  <2>1. writer[d] = "open"
    BY Zenon, <1>1, <1>7 DEF DisconnectStep, DisconnectWriter, StopMonitoring, UnsubscribeAll
  <2>2. CASE DisconnectWriter(a) \/ StopMonitoring(a)
    BY Zenon, <1>1, <2>1, <2>2 DEF DisconnectWriter, StopMonitoring, Told
  <2>3. CASE UnsubscribeAll(a)
    BY Zenon, <1>1, <1>3, <2>1, <2>3 DEF UnsubscribeAll, DrainChannels, Told
  <2> QED
    BY Zenon, <1>7, <2>2, <2>3 DEF DisconnectStep
<1>8. ASSUME NEW c \in Clients, HandlerStep(c), c # d
      PROVE  Told(d)'
  <2>1. /\ writer[d] = "open"
        /\ pc'[d] = pc[d] /\ cmd'[d] = cmd[d] /\ args'[d] = args[d]
        /\ acked'[d] = acked[d] /\ channels'[d] = channels[d]
    <3>1. CASE CreateClientState(c) \/ Register(c) \/ GetClientState(c)
               \/ BindResponseWriter(c) \/ Observed(c) \/ Dispatch(c)
      BY ZenonT(40), <1>1, <1>8, <3>1 DEF CreateClientState, Register, GetClientState,
         BindResponseWriter, Observed, Dispatch
    <3>2. CASE \/ \E ch \in Channels : SubscribeChannel(c, ch) \/ UnsubscribeChannel(c, ch)
                                      \/ AppendSubscribers(c, ch)
               \/ \E e \in Clients : PushWritten(c, e) \/ PushFailed(c, e)
      BY ZenonT(40), <1>1, <1>8, <3>2 DEF SubscribeChannel, AddSubscriber, UnsubscribeChannel,
         RemoveSubscriber, AppendSubscribers, PushWritten, PushFailed
    <3>3. CASE ChannelsDone(c) \/ StartMonitoring(c) \/ Published(c)
               \/ ReplyBlocks(c) \/ TeardownClient(c) \/ Detached(c)
      BY Zenon, <1>1, <1>8, <3>3 DEF ChannelsDone, StartMonitoring, Published, ReplyBlocks,
         TeardownClient, Detached
    <3>4. CASE WriteResponses(c) \/ ReplyUnblocks(c) \/ HandlerReturns(c)
      BY Zenon, <1>1, <1>8, <3>4 DEF WriteResponses, ReplyUnblocks, HandlerReturns, Written
    <3> QED
      BY Zenon, <1>8, <3>1, <3>2, <3>3, <3>4 DEF HandlerStep
  <2> QED
    BY Zenon, <1>1, <2>1 DEF Told
<1>9. ASSUME HandlerStep(d)
      PROVE  Told(d)'
  <2> USE <1>1 DEF Told
  <2>1. CASE CreateClientState(d) \/ Register(d) \/ GetClientState(d)
             \/ BindResponseWriter(d) \/ Observed(d)
    BY Zenon, <1>2, <2>1 DEF CreateClientState, Register, GetClientState, BindResponseWriter,
                      Observed, Early
  <2>2. CASE Dispatch(d)
    <3>1. UNCHANGED <<writer, acked, channels>> /\ pc[d] = "run"
      BY SMTT(40), <2>2 DEF Dispatch
    <3>2. \/ pc'[d] = "reply" /\ cmd'[d] = Ping
          \/ /\ pc'[d] = cmd[d].op /\ cmd'[d] = cmd[d]
             /\ cmd[d] # Unsubscribe({}) => args'[d] = args[d]
      BY SMTT(40), <2>2 DEF Dispatch
    <3>3. Ping.op # "SUBSCRIBE" /\ Unsubscribe({}).op # "SUBSCRIBE"
          /\ cmd[d].op \notin {"reply", "blocked"}
      BY SMTT(40), <1>4 DEF Ping, Unsubscribe, RequestType, Ops
    <3> QED
      BY SMTT(40), <3>1, <3>2, <3>3 DEF InRequest
  <2>3. CASE \E ch \in Channels : SubscribeChannel(d, ch)
    BY SMTT(40), <2>3 DEF SubscribeChannel, AddSubscriber
  <2>4. CASE \E ch \in Channels : UnsubscribeChannel(d, ch)
    BY SMTT(40), <2>4 DEF UnsubscribeChannel, RemoveSubscriber
  <2>5. CASE \/ \E ch \in Channels : AppendSubscribers(d, ch)
             \/ \E e \in Clients : PushWritten(d, e) \/ PushFailed(d, e)
    BY <2>5 DEF AppendSubscribers, PushWritten, PushFailed, Pushes
  <2>6. CASE ChannelsDone(d) \/ StartMonitoring(d) \/ Published(d)
    BY Zenon, <2>6 DEF ChannelsDone, StartMonitoring, Published, InRequest, Ops
  <2>7. CASE ReplyBlocks(d) \/ TeardownClient(d) \/ Detached(d)
    BY ZenonT(40), <2>7 DEF ReplyBlocks, TeardownClient, Detached
  <2>8. CASE WriteResponses(d) \/ ReplyUnblocks(d) \/ HandlerReturns(d)
    <3>1. /\ channels' = channels /\ pc[d] \in {"reply", "blocked", "idle"}
          /\ pc'[d] \in {"idle", "ending"}
      BY ZenonT(40), <2>8 DEF WriteResponses, ReplyUnblocks, HandlerReturns, Written
    <3>2. \/ acked'[d] = acked[d] /\ writer[d] = "open"
          \/ /\ pc[d] \in {"reply", "blocked"} /\ writer[d] = "open"
             /\ cmd[d].op = "SUBSCRIBE" /\ acked'[d] = acked[d] \cup cmd[d].args
      BY <2>8 DEF WriteResponses, ReplyUnblocks, HandlerReturns, Written
    <3> QED
      BY Zenon, <3>1, <3>2
  <2> QED
    BY Zenon, <1>9, <2>1, <2>2, <2>3, <2>4, <2>5, <2>6, <2>7, <2>8 DEF HandlerStep
<1> QED
  BY <1>5, <1>6, <1>7, <1>8, <1>9, StopIsOnce DEF Next

\* A push keeps everyone it owes the message among those it has yet to write
\* to, unless the write was made or the writer failed.
LEMMA ReachingStep ==
  ASSUME Registered, Life, Delivery, Next, stop' = "no", NEW c \in Clients
  PROVE  Reaching(c)'
<1> SUFFICES ASSUME pc'[c] = "publishing", NEW d \in due'[c], writer'[d] = "open"
             PROVE  d \in got'[c] \/ d \in todo'[c]
  BY Zenon DEF Reaching
<1>1. stop = "no" /\ FanTypes /\ DeliveryTypes /\ DeliveryTypes'
  BY Zenon, StopIsOnce, DeliveryTypesStep DEF Registered, Delivery
<1>2. d \in Clients
  BY Zenon, <1>1 DEF DeliveryTypes
<1>3. CASE \E ch \in Channels : AppendSubscribers(c, ch)
  <2>1. PICK ch \in Channels : AppendSubscribers(c, ch)
    BY ZenonT(40), <1>3
  <2>2. ch \in acked[d] /\ writer[d] = "open" /\ todo'[c] = subscribers[ch]
    BY <1>1, <2>1 DEF AppendSubscribers, DeliveryTypes
  <2>3. ch \in channels[d]
    BY Zenon, <1>1, <1>2, <2>2 DEF Delivery, Told
  <2> QED
    BY Zenon, <1>2, <2>2, <2>3 DEF Registered, RegistriesAgree
<1>4. CASE ~\E ch \in Channels : AppendSubscribers(c, ch)
  <2>1. pc[c] = "publishing" /\ due'[c] = due[c]
    <3>0. pc \in [Clients -> PcValues] /\ due \in [Clients -> SUBSET Clients]
      BY Zenon, <1>1 DEF FanTypes, DeliveryTypes
    <3> USE <3>0 DEF Goto, histVars
    <3>1. ASSUME NEW e \in Clients,
                 Stall(e) \/ Drain(e) \/ PeerCloses(e) \/ Accept(e) \/ Ask(e)
                 \/ CancelCloses(e)
          PROVE  pc[c] = "publishing" /\ due'[c] = due[c]
      BY Zenon, <3>1 DEF Stall, Drain, PeerCloses, Accept, Ask, CancelCloses
    <3>2. ASSUME NEW a \in Actors, DisconnectStep(a)
          PROVE  pc[c] = "publishing" /\ due'[c] = due[c]
      BY Zenon, <3>2 DEF DisconnectStep, DisconnectWriter, StopMonitoring, UnsubscribeAll
    <3>3. ASSUME NEW e \in Clients, Dispatch(e)
          PROVE  pc[c] = "publishing" /\ due'[c] = due[c]
      <4>1. cmd[e].op \in Ops
        BY Zenon, <1>1 DEF FanTypes, RequestType
      <4> QED
        BY Zenon, <3>3, <4>1 DEF Dispatch, Ops
    <3>4. ASSUME NEW e \in Clients, NEW ch \in Channels, AppendSubscribers(e, ch)
          PROVE  pc[c] = "publishing" /\ due'[c] = due[c]
      BY Zenon, <1>4, <3>4 DEF AppendSubscribers
    <3>5. ASSUME NEW e \in Clients, HandlerStep(e), ~Dispatch(e),
                 ~\E ch \in Channels : AppendSubscribers(e, ch)
          PROVE  pc[c] = "publishing" /\ due'[c] = due[c]
      <4>1. CASE CreateClientState(e) \/ Register(e) \/ GetClientState(e)
                 \/ BindResponseWriter(e) \/ Observed(e)
        BY Zenon, <4>1 DEF CreateClientState, Register, GetClientState, BindResponseWriter,
           Observed
      <4>2. CASE \/ \E ch \in Channels : SubscribeChannel(e, ch) \/ UnsubscribeChannel(e, ch)
                 \/ \E f \in Clients : PushWritten(e, f) \/ PushFailed(e, f)
        BY ZenonT(40), <4>2 DEF SubscribeChannel, UnsubscribeChannel, PushWritten, PushFailed
      <4>3. CASE ChannelsDone(e) \/ StartMonitoring(e) \/ Published(e)
                 \/ ReplyBlocks(e) \/ TeardownClient(e) \/ Detached(e)
        BY Zenon, <4>3 DEF ChannelsDone, StartMonitoring, Published, ReplyBlocks,
           TeardownClient, Detached
      <4>4. CASE WriteResponses(e) \/ ReplyUnblocks(e) \/ HandlerReturns(e)
        BY Zenon, <4>4 DEF WriteResponses, ReplyUnblocks, HandlerReturns, Written
      <4> QED
        BY Zenon, <3>5, <4>1, <4>2, <4>3, <4>4 DEF HandlerStep
    <3> QED
      BY Zenon, <3>1, <3>2, <3>3, <3>4, <3>5, StopIsOnce DEF Next
  <2>2. pc[d] \notin Early
    BY Zenon, <1>1, <1>2, <2>1 DEF Delivery, Newcomer
  <2>3. writer[d] = "open"
    BY ZenonT(40), <1>1, <1>2, <2>2, StepOfWriters DEF Early
  <2>4. d \in got[c] \/ d \in todo[c]
    BY Zenon, <1>1, <2>1, <2>3 DEF Delivery, Reaching
  <2>0. /\ pc \in [Clients -> PcValues] /\ writer \in [Clients -> WriterStates]
        /\ todo \in [Clients -> SUBSET Clients] /\ got \in [Clients -> SUBSET Clients]
    BY ZenonT(40), <1>1 DEF FanTypes, DeliveryTypes
  <2> USE <1>2, <2>0, <2>1, <2>4 DEF Goto, histVars, reqVars, connVars
  <2>5. ASSUME NEW e \in Clients,
               Stall(e) \/ Drain(e) \/ PeerCloses(e) \/ Accept(e) \/ Ask(e)
               \/ CancelCloses(e)
        PROVE  d \in got'[c] \/ d \in todo'[c]
    BY <2>5 DEF Stall, Drain, PeerCloses, Accept, Ask, CancelCloses
  <2>6. ASSUME NEW a \in Actors, DisconnectStep(a)
        PROVE  d \in got'[c] \/ d \in todo'[c]
    BY ZenonT(40), <2>6 DEF DisconnectStep, DisconnectWriter, StopMonitoring, UnsubscribeAll
  <2>7. ASSUME NEW e \in Clients, NEW f \in Clients, PushWritten(e, f) \/ PushFailed(e, f)
        PROVE  d \in got'[c] \/ d \in todo'[c]
    <3>1. pc'[c] = pc[c] /\ pc[c] = "publishing"
      BY Zenon, <1>2, <2>7 DEF PushWritten, PushFailed
    <3>2. CASE e # c
      <4>1. got'[c] = got[c] /\ todo'[c] = todo[c]
        BY Zenon, <2>0, <2>7, <3>2 DEF PushWritten, PushFailed
      <4> QED
        BY Zenon, <2>4, <4>1
    <3>3. CASE e = c /\ PushWritten(c, f)
      <4>1. todo'[c] = todo[c] \ {f} /\ got'[c] = got[c] \cup {f}
        BY Zenon, <2>0, <3>1, <3>3 DEF PushWritten
      <4> QED
        BY Zenon, <2>4, <4>1
    <3>4. CASE e = c /\ PushFailed(c, f)
      <4>1. todo'[c] = todo[c] \ {f} /\ got'[c] = got[c]
        BY Zenon, <2>0, <3>4 DEF PushFailed
      <4>2. writer'[f] # "open"
        BY Zenon, <2>0, <3>4 DEF PushFailed
      <4> QED
        BY Zenon, <1>2, <2>4, <4>1, <4>2
    <3> QED
      BY Zenon, <2>7, <3>2, <3>3, <3>4
  <2>8. ASSUME NEW e \in Clients, NEW ch \in Channels, AppendSubscribers(e, ch)
        PROVE  d \in got'[c] \/ d \in todo'[c]
    BY Zenon, <1>4, <2>8 DEF AppendSubscribers
  <2>9. ASSUME NEW e \in Clients, HandlerStep(e),
               ~\E ch \in Channels : AppendSubscribers(e, ch),
               ~\E f \in Clients : PushWritten(e, f) \/ PushFailed(e, f)
        PROVE  d \in got'[c] \/ d \in todo'[c]
    <3>1. CASE CreateClientState(e) \/ Register(e) \/ GetClientState(e)
               \/ BindResponseWriter(e) \/ Observed(e) \/ Dispatch(e)
      BY Zenon, <3>1 DEF CreateClientState, Register, GetClientState, BindResponseWriter,
         Observed, Dispatch
    <3>2. CASE \E ch \in Channels : SubscribeChannel(e, ch) \/ UnsubscribeChannel(e, ch)
      BY Zenon, <3>2 DEF SubscribeChannel, UnsubscribeChannel
    <3>3. CASE ChannelsDone(e) \/ StartMonitoring(e) \/ Published(e)
               \/ ReplyBlocks(e) \/ TeardownClient(e) \/ Detached(e)
      BY Zenon, <3>3 DEF ChannelsDone, StartMonitoring, Published, ReplyBlocks,
         TeardownClient, Detached
    <3>4. CASE WriteResponses(e) \/ ReplyUnblocks(e) \/ HandlerReturns(e)
      BY Zenon, <3>4 DEF WriteResponses, ReplyUnblocks, HandlerReturns, Written
    <3> QED
      BY Zenon, <2>9, <3>1, <3>2, <3>3, <3>4 DEF HandlerStep
  <2> QED
    BY Zenon, <2>5, <2>6, <2>7, <2>8, <2>9, StopIsOnce DEF Next
<1> QED
  BY Zenon, <1>3, <1>4

\* Every step keeps the pushes in order.
LEMMA StepKeepsDelivery == Registered /\ Life /\ Delivery /\ [Next]_vars => Delivery'
<1> SUFFICES ASSUME Registered, Life, Delivery, [Next]_vars PROVE Delivery'
  BY Zenon
<1>1. CASE Next
  <2>1. DeliveryTypes' /\ \A c \in Clients : InRequest(c)'
    BY Zenon, <1>1, DeliveryTypesStep, InRequestStep DEF Registered, Delivery
  <2>2. ASSUME stop' = "no"
        PROVE  /\ \A a \in Actors : Dropped(a)'
               /\ \A c \in Clients : Newcomer(c)' /\ Told(c)' /\ Reaching(c)'
    BY SMTT(40), <1>1, <2>2, DroppedStep, NewcomerStep, ToldStep, ReachingStep
  <2> QED
    BY Zenon, <2>1, <2>2 DEF Delivery
<1>2. CASE UNCHANGED vars
  BY <1>2 DEF vars, envVars, reqVars, dropVars, connVars, subVars, monVars, stopVars,
     histVars, Delivery, DeliveryTypes, InRequest, Dropped, Newcomer, Told, Reaching
<1> QED
  BY Zenon, <1>1, <1>2

-----------------------------------------------------------------------------
(* The count of monitors, and the theorems.                                *)

INSTANCE FiniteSetTheorems

\* The count of monitors follows the map.
LEMMA MonitorsAgree ==
  ASSUME Registered, Next
  PROVE  /\ IsFiniteSet(monitors') /\ monitors' = monitoring'
         /\ monitorCount' = Cardinality(monitors')
<1> USE DEF Registered, RegistriesAgree
<1>1. CASE UNCHANGED monVars
  BY Zenon, <1>1 DEF monVars
<1>2. ASSUME NEW c \in Clients, AddMonitor(c)
      PROVE  /\ IsFiniteSet(monitors') /\ monitors' = monitoring'
             /\ monitorCount' = Cardinality(monitors')
  <2>1. c \in monitors => monitors \cup {c} = monitors
    BY Zenon
  <2> QED
    BY Zenon, <1>2, <2>1, FS_AddElement DEF AddMonitor
<1>3. ASSUME NEW c, RemoveMonitor(c)
      PROVE  /\ IsFiniteSet(monitors') /\ monitors' = monitoring'
             /\ monitorCount' = Cardinality(monitors')
  <2>1. c \notin monitors => monitors \ {c} = monitors
    BY Zenon
  <2> QED
    BY Zenon, <1>3, <2>1, FS_RemoveElement DEF RemoveMonitor
<1> QED
  BY Zenon, <1>1, <1>2, <1>3, StepOfMonitors

\* Together, and initially.
LEMMA InitRegistered == Init => Registered
<1> SUFFICES ASSUME Init PROVE Registered
  BY Zenon
<1> USE DEF Init
<1>1. FanTypes
  BY Zenon, ActorsAssumption DEF FanTypes, PcValues, Early, Ping, Ops, RequestType
<1>2. IsFiniteSet(monitors) /\ Cardinality(monitors) = 0
  BY Zenon, FS_EmptySet
<1> QED
  BY Zenon, <1>1, <1>2 DEF Registered, RegistriesAgree

\* Every step keeps the registries and the records in agreement.
LEMMA StepRegistered == Registered /\ [Next]_vars => Registered'
<1> SUFFICES ASSUME Registered, [Next]_vars PROVE Registered'
  BY Zenon
<1>1. CASE Next
  BY Zenon, <1>1, TypesStep, SubscriptionsAgree, MonitorsAgree DEF Registered, RegistriesAgree
<1>2. CASE UNCHANGED vars
  BY Zenon, <1>2 DEF vars, envVars, reqVars, dropVars, subVars, monVars, Registered,
              FanTypes, RegistriesAgree
<1> QED
  BY Zenon, <1>1, <1>2

\* The two records of a subscription and the count of monitors never disagree,
\* whoever runs the Disconnect of a client (PubSubRegistry, MonitorRegistry).
THEOREM RegistriesStayInStep == Spec => []RegistriesAgree
<1>1. Registered => RegistriesAgree
  BY Zenon DEF Registered
<1> QED
  BY InitRegistered, StepRegistered, <1>1, PTL DEF Spec

\* No client is subscribed and monitoring at once, though others disconnect it
\* in the middle of its requests (validateSubscriptionContext).
THEOREM ModesExclude == Spec => []OneMode
<1>1. Init => Modes
  BY Zenon DEF Init, Modes, OneMode
<1>2. Registered => FanTypes
  BY Zenon DEF Registered
<1>3. Modes => OneMode
  BY Zenon DEF Modes
<1> QED
  BY <1>1, <1>2, <1>3, InitRegistered, StepRegistered, StepKeepsModes, PTL DEF Spec

\* Until shutdown, a connection whose handler has returned is in no registry,
\* however its own Disconnect and those run by pushers interleave with its
\* requests (removeClientState, Disconnect).
THEOREM GoneLeavesRegistries == Spec => []GoneIsDetached
<1>1. Init => Life
  BY SMTT(40), ActorsAssumption DEF Init, Life, Enrolled, Attached, Fresh, Leaving, Early, Actors
<1>2. Registered => FanTypes
  BY Zenon DEF Registered
<1>3. Registered /\ Life => GoneIsDetached
  BY Zenon DEF Registered, RegistriesAgree, Life, Enrolled, Attached, Leaving, GoneIsDetached
<1> QED
  BY <1>1, <1>2, <1>3, InitRegistered, StepRegistered, StepKeepsLife, PTL DEF Spec

\* Until shutdown, a PUBLISH that has been through its snapshot wrote to every
\* client that had been told of its subscription, unless that client's writer
\* failed, whatever the others did meanwhile (handlePublish).
THEOREM PublicationsArrive == Spec => []PublishReaches
<1>1. Init => Life /\ Delivery
  <2> SUFFICES ASSUME Init PROVE Life /\ Delivery
    BY Zenon
  <2>1. Life
    BY Zenon, ActorsAssumption DEF Init, Life, Enrolled, Attached, Fresh, Leaving, Early, Actors
  <2>2. DeliveryTypes /\ \A c \in Clients : InRequest(c)
    BY Zenon DEF Init, DeliveryTypes, WriterStates, InRequest, Ops
  <2>3. \A a \in Actors : Dropped(a)
    BY Zenon DEF Init, Dropped
  <2>4. \A c \in Clients : Newcomer(c) /\ Told(c) /\ Reaching(c)
    BY Zenon, ActorsAssumption DEF Init, Newcomer, Told, Reaching, Early, Actors
  <2> QED
    BY Zenon, <2>1, <2>2, <2>3, <2>4 DEF Delivery
<1>2. Delivery => PublishReaches
  BY Zenon DEF Delivery, Reaching, PublishReaches
<1>3. Registered => FanTypes
  BY Zenon DEF Registered
<1> QED
  BY <1>1, <1>2, <1>3, InitRegistered, StepRegistered, StepKeepsLife,
     StepKeepsDelivery, PTL DEF Spec
=============================================================================
