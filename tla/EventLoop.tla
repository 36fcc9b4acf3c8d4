----------------------------- MODULE EventLoop -----------------------------
(***************************************************************************)
(* The event loop (internal/server/eventloop.go): one goroutine that       *)
(* serves every connection through its ConnMachine (conn_machine.go) from  *)
(* the readiness events of the poller, beside goroutines that push frames, *)
(* ask for a connection to be closed, or stop the server.                  *)
(*                                                                         *)
(* A request is its number on the connection; its kind says how many units *)
(* of output its reply takes, or that it is malformed ("bad") or ends the  *)
(* connection ("fatal").  The client reads when it pleases: a flush writes *)
(* any number of units, and a socket that the loop watches for writing may *)
(* be reported at any time.                                                *)
(***************************************************************************)
EXTENDS Naturals, FiniteSets, Sequences, Functions

CONSTANTS
    Conns, Kinds,
    None,          \* no connection
    Push,          \* the unit of a pushed message
    HighWater,     \* eventLoopOutputHighWater
    MaxOutput,     \* defaultMaxWriteBuffer
    MaxClients,    \* the limit on connections
    Budgets        \* the bounds of a run: which clients connect, and how many
                   \* requests of a client, pushes, close requests, stops and
                   \* failed accepts there may be

ASSUME LimitsAssumption ==
    HighWater \in Nat /\ MaxOutput \in Nat /\ MaxClients \in Nat
ASSUME PushAssumption == Push \notin Nat \X Nat
ASSUME BudgetsAssumption ==
    Budgets \subseteq [clients : SUBSET Conns, requests : Nat, pushes : Nat,
                       closes : Nat, stops : Nat, pauses : Nat]

VARIABLES
    asked,       \* history: the kinds of the requests each client has sent
    unread,      \* the numbers of the requests in the socket
    peer,        \* "open", "eof" (finished sending) or "reset"
    got,         \* the units the client has received
    backlog,     \* connections waiting to be accepted
    conns,       \* the connections of the loop
    machine,     \* the state of the ConnMachine
    pending,     \* its parsed requests
    output,      \* its unwritten output
    peerClosed,  \* the connections whose EOF the loop has seen
    wantRead, wantWrite,     \* the interest sets
    pushBuf,     \* the units of output queued for each connection
    pushed,      \* the connections with pushQueued
    closeReqs, closeRequested,
    wake,        \* whether the wake-up pipe holds a byte
    waking,      \* the reasons for which Wake is still to be called
    paused, resume,          \* acceptPaused, resumeAccept
    pauses,      \* times accepting was paused
    loop,        \* what the loop does
    at,          \* the connection it works on
    back,        \* where it goes next
    batch,       \* the events of the last Wait still to be handled
    closes,      \* the close requests taken from the queues
    work,        \* the frames taken from the queues still to be buffered
    pushes,      \* the pushed messages so far
    budget,      \* the bounds of this run
    stop         \* whether the server's context is cancelled

clientVars == <<asked, unread, peer>>
acceptVars == <<backlog, paused, resume, pauses>>
machineVars == <<machine, pending, output>>
interestVars == <<wantRead, wantWrite>>
queueVars == <<pushBuf, pushed, closeReqs, closeRequested, waking, pushes>>
run == <<stop, budget>>
loopVars == <<loop, at, back, batch, work, closes>>
vars == <<clientVars, got, acceptVars, conns, machineVars, peerClosed,
          interestVars, queueVars, wake, loopVars, run>>

NoEvents == [reads |-> {}, writes |-> {}, accept |-> FALSE]

\* The units of a reply: <<i, j>> is the j-th of the reply to request i.
UnitsOf(kind) == CASE kind \in {"cmd", "bad"} -> 1
                   [] kind = "big" -> 2
                   [] OTHER -> 0
ReplyTo(i, kind) == [j \in 1..UnitsOf(kind) |-> <<i, j>>]

Init ==
    /\ asked = [c \in Conns |-> <<>>] /\ unread = [c \in Conns |-> <<>>]
    /\ peer = [c \in Conns |-> "absent"] /\ got = [c \in Conns |-> <<>>]
    /\ backlog = {} /\ conns = {} /\ machine = [c \in Conns |-> "none"]
    /\ pending = [c \in Conns |-> <<>>] /\ output = [c \in Conns |-> <<>>]
    /\ peerClosed = {} /\ wantRead = {} /\ wantWrite = {}
    /\ pushBuf = [c \in Conns |-> 0] /\ pushed = {} /\ closeReqs = {}
    /\ closeRequested = {} /\ wake = FALSE /\ waking = {}
    /\ paused = FALSE /\ resume = FALSE /\ pauses = 0
    /\ loop = "wait" /\ at = None /\ back = "wait" /\ batch = NoEvents
    /\ work = [c \in Conns |-> 0] /\ closes = {} /\ pushes = 0 /\ stop = FALSE
    /\ budget \in Budgets

(***************************************************************************)
(* The clients.                                                            *)
(***************************************************************************)
Connect(c) ==
    /\ peer[c] = "absent" /\ c \in budget.clients /\ peer' = [peer EXCEPT ![c] = "open"]
    /\ backlog' = backlog \cup {c}
    /\ UNCHANGED <<asked, unread, got, paused, resume, pauses, conns,
                   machineVars, peerClosed, interestVars, queueVars, wake,
                   loopVars, run>>

Send(c, kind) ==
    /\ peer[c] = "open" /\ machine[c] # "closed" /\ Len(asked[c]) < budget.requests
    /\ asked' = [asked EXCEPT ![c] = Append(@, kind)]
    /\ unread' = [unread EXCEPT ![c] = Append(@, Len(asked'[c]))]
    /\ UNCHANGED <<peer, got, acceptVars, conns, machineVars, peerClosed,
                   interestVars, queueVars, wake, loopVars, run>>

Leave(c, how) ==
    /\ peer[c] = "open" /\ machine[c] # "closed"
    /\ peer' = [peer EXCEPT ![c] = how]
    /\ UNCHANGED <<asked, unread, got, acceptVars, conns, machineVars,
                   peerClosed, interestVars, queueVars, wake, loopVars, run>>

(***************************************************************************)
(* The other goroutines: under the lock they queue a frame or a request to *)
(* close, and then wake the poller.                                        *)
(***************************************************************************)
RequestClose(c) ==
    IF c \in closeRequested
    THEN UNCHANGED <<closeReqs, closeRequested, waking>>
    ELSE /\ closeReqs' = closeReqs \cup {c}
         /\ closeRequested' = closeRequested \cup {c}
         /\ waking' = waking \cup {"close"}

\* A bug: the frame is queued and the poller not woken.
QueuePushWithoutWake(c, n) ==
    /\ c \in conns /\ pushes < budget.pushes /\ pushes' = pushes + 1
    /\ pushBuf[c] + n <= MaxOutput
    /\ pushBuf' = [pushBuf EXCEPT ![c] = @ + n] /\ pushed' = pushed \cup {c}
    /\ UNCHANGED <<clientVars, got, acceptVars, conns, machineVars, peerClosed,
                   interestVars, closeReqs, closeRequested, waking, wake,
                   loopVars, run>>

QueuePush(c, n) ==
    /\ c \in conns /\ pushes < budget.pushes /\ pushes' = pushes + 1
    /\ IF pushBuf[c] + n > MaxOutput
       THEN RequestClose(c) /\ UNCHANGED <<pushBuf, pushed>>
       ELSE /\ pushBuf' = [pushBuf EXCEPT ![c] = @ + n]
            /\ pushed' = pushed \cup {c} /\ waking' = waking \cup {"push"}
            /\ UNCHANGED <<closeReqs, closeRequested>>
    /\ UNCHANGED <<clientVars, got, acceptVars, conns, machineVars, peerClosed,
                   interestVars, wake, loopVars, run>>

CloseHandle(c) ==
    /\ c \in conns /\ c \notin closeRequested /\ RequestClose(c)
    /\ Cardinality(closeRequested) < budget.closes
    /\ UNCHANGED <<clientVars, got, acceptVars, conns, machineVars, peerClosed,
                   interestVars, pushBuf, pushed, pushes, wake, loopVars, run>>

Wake ==
    /\ \E why \in waking : waking' = waking \ {why}
    /\ wake' = TRUE
    /\ UNCHANGED <<clientVars, got, acceptVars, conns, machineVars, peerClosed,
                   interestVars, pushBuf, pushed, closeReqs, closeRequested,
                   pushes, loopVars, run>>

\* A bug: nothing wakes the poller when the context is cancelled.
StopWithoutWake ==
    /\ ~stop /\ budget.stops > 0 /\ stop' = TRUE
    /\ UNCHANGED <<clientVars, got, acceptVars, conns, machineVars, peerClosed,
                   interestVars, queueVars, wake, loopVars, budget>>

Stop ==
    /\ ~stop /\ budget.stops > 0 /\ stop' = TRUE /\ waking' = waking \cup {"stop"}
    /\ UNCHANGED <<clientVars, got, acceptVars, conns, machineVars, peerClosed,
                   interestVars, pushBuf, pushed, closeReqs, closeRequested,
                   pushes, wake, loopVars, budget>>

\* A bug: the timer sets its flag and does not wake the poller.
ResumeTimerWithoutWake ==
    /\ paused /\ ~resume /\ resume' = TRUE
    /\ UNCHANGED <<clientVars, got, backlog, paused, pauses, conns, machineVars,
                   peerClosed, interestVars, queueVars, wake, loopVars, run>>

\* The timer of pauseAccepting.
ResumeTimer ==
    /\ paused /\ ~resume /\ resume' = TRUE
    /\ waking' = waking \cup {"accept"}
    /\ UNCHANGED <<clientVars, got, backlog, paused, pauses, conns, machineVars,
                   peerClosed, interestVars, pushBuf, pushed, closeReqs,
                   closeRequested, pushes, wake, loopVars, run>>

(***************************************************************************)
(* Wait, and the work that other goroutines have queued.  Readiness is     *)
(* level-triggered; a reset is reported whatever the interest set.         *)
(***************************************************************************)
Readable(c) ==
    /\ c \in conns
    /\ \/ c \in wantRead /\ (unread[c] # <<>> \/ peer[c] # "open")
       \/ peer[c] = "reset"

Wait ==
    /\ loop = "wait" /\ ~stop
    /\ \E writes \in SUBSET wantWrite :
        /\ batch' = [reads |-> {c \in Conns : Readable(c)}, writes |-> writes,
                     accept |-> ~paused /\ backlog # {}]
        /\ wake \/ batch' # NoEvents
    /\ wake' = FALSE /\ loop' = "queues"
    /\ UNCHANGED <<clientVars, got, acceptVars, conns, machineVars, peerClosed,
                   interestVars, queueVars, at, back, work, closes, run>>

\* The locked part of applyQueuedWork, and the resumption of accepting.
TakeQueues ==
    /\ loop = "queues"
    /\ work' = [c \in Conns |-> IF c \in pushed THEN pushBuf[c] ELSE 0]
    /\ pushBuf' = [c \in Conns |-> IF c \in pushed THEN 0 ELSE pushBuf[c]]
    /\ pushed' = {} /\ closes' = closeReqs /\ closeReqs' = {}
    /\ resume' = FALSE /\ paused' = (paused /\ ~resume)
    /\ loop' = "pushes"
    /\ UNCHANGED <<clientVars, got, backlog, pauses, conns, machineVars,
                   peerClosed, interestVars, closeRequested, waking, pushes,
                   wake, at, back, batch, run>>

\* closeConn, with ConnMachine.Close and teardownClient.
CloseConns(S) ==
    /\ conns' = conns \ S
    /\ machine' = [c \in Conns |-> IF c \in S THEN "closed" ELSE machine[c]]
    /\ pending' = [c \in Conns |-> IF c \in S THEN <<>> ELSE pending[c]]
    /\ output' = [c \in Conns |-> IF c \in S THEN <<>> ELSE output[c]]
    /\ pushBuf' = [c \in Conns |-> IF c \in S THEN 0 ELSE pushBuf[c]]
    /\ peerClosed' = peerClosed \ S
    /\ wantRead' = wantRead \ S /\ wantWrite' = wantWrite \ S

Goto(place, c) == loop' = place /\ at' = c

\* BufferEncoded of the frames taken, then finishConnEvent.
BufferPush(c) ==
    /\ loop = "pushes" /\ work[c] > 0 /\ work' = [work EXCEPT ![c] = 0]
    /\ CASE c \notin conns ->
              /\ Goto("pushes", None)
              /\ UNCHANGED <<conns, machineVars, peerClosed, interestVars, pushBuf>>
         [] c \in conns /\ Len(output[c]) + work[c] > MaxOutput ->
              CloseConns({c}) /\ Goto("pushes", None)
         [] OTHER ->
              /\ output' = [output EXCEPT ![c] = @ \o [i \in 1..work[c] |-> Push]]
              /\ Goto("finish", c)
              /\ UNCHANGED <<conns, machine, pending, peerClosed, interestVars,
                             pushBuf>>
    /\ back' = "pushes"
    /\ UNCHANGED <<clientVars, got, acceptVars, pushed, closeReqs,
                   closeRequested, waking, pushes, wake, batch, closes, run>>

CloseRequests ==
    /\ loop = "pushes" /\ \A c \in Conns : work[c] = 0
    /\ CloseConns(closes \cap conns) /\ closes' = {} /\ loop' = "events"
    /\ UNCHANGED <<clientVars, got, acceptVars, pushed, closeReqs,
                   closeRequested, waking, pushes, wake, at, back, batch, work,
                   run>>

(***************************************************************************)
(* The events of the batch, in any order, for one connection reading       *)
(* before writing.                                                         *)
(***************************************************************************)
Done(kind, c) == batch' = [batch EXCEPT ![kind] = @ \ {c}]

\* A bug: parsing goes on behind a malformed request.
BeyondBad(c, items, k) == k = Len(items)

\* The first k items are those up to the first malformed one, or all of them.
UpToBad(c, items, k) ==
    /\ \A i \in 1..k - 1 : asked[c][items[i]] # "bad"
    /\ k = Len(items) \/ (k > 0 /\ asked[c][items[k]] = "bad")

\* Feed: parsing ends with a malformed request, which closes the input.
Feed(c, items) == \E k \in 0..Len(items) :
    LET taken == SubSeq(items, 1, k)
    IN  /\ IF machine[c] = "active" THEN UpToBad(c, items, k) ELSE k = 0
        /\ pending' = [pending EXCEPT ![c] = @ \o taken]
        /\ machine' = [machine EXCEPT ![c] =
               IF \E i \in Range(taken) : asked[c][i] = "bad" THEN "closing" ELSE @]

ConnReadable(c) ==
    /\ loop = "events" /\ c \in batch.reads /\ Done("reads", c)
    /\ back' = "events"
    /\ IF c \notin conns
       THEN /\ Goto("events", None)
            /\ UNCHANGED <<unread, conns, machineVars, peerClosed, interestVars,
                           pushBuf>>
       ELSE \/ /\ peer[c] = "reset" /\ Len(output[c]) <= HighWater
               /\ CloseConns({c}) /\ Goto("events", None) /\ UNCHANGED unread
            \/ /\ peer[c] # "reset" /\ Len(output[c]) <= HighWater
               /\ \E n \in 0..Len(unread[c]) :
                    /\ n = 0 => unread[c] = <<>>
                    /\ Feed(c, SubSeq(unread[c], 1, n))
                    /\ unread' = [unread EXCEPT ![c] = SubSeq(@, n + 1, Len(@))]
                    /\ \/ UNCHANGED peerClosed /\ (n > 0 \/ peer[c] = "open")
                       \/ /\ unread'[c] = <<>> /\ peer[c] = "eof"
                          /\ peerClosed' = peerClosed \cup {c}
               /\ Goto("process", c)
               /\ UNCHANGED <<conns, output, interestVars, pushBuf>>
            \/ /\ Len(output[c]) > HighWater /\ Goto("process", c)
               /\ UNCHANGED <<unread, conns, machineVars, peerClosed,
                              interestVars, pushBuf>>
    /\ UNCHANGED <<asked, peer, got, acceptVars, pushed, closeReqs,
                   closeRequested, waking, pushes, wake, work, closes, run>>

ConnWritable(c) ==
    /\ loop = "events" /\ c \in batch.writes \ batch.reads /\ Done("writes", c)
    /\ back' = "events"
    /\ IF c \in conns THEN Goto("process", c) ELSE Goto("events", None)
    /\ UNCHANGED <<clientVars, got, acceptVars, conns, machineVars, peerClosed,
                   interestVars, queueVars, wake, work, closes, run>>

EventsDone ==
    /\ loop = "events" /\ batch = NoEvents /\ loop' = "wait"
    /\ UNCHANGED <<clientVars, got, acceptVars, conns, machineVars, peerClosed,
                   interestVars, queueVars, wake, at, back, batch, work, closes,
                   run>>

(***************************************************************************)
(* processConn: requests run while the output is at most at the high-water *)
(* mark; above it one flush is tried, and if that is not enough the        *)
(* requests wait.                                                          *)
(***************************************************************************)
Written(c, n) == got' = [got EXCEPT ![c] = @ \o SubSeq(output[c], 1, n)]
Rest(c, n) == SubSeq(output[c], n + 1, Len(output[c]))
Drained(c, n) == machine[c] = "closing" /\ pending[c] = <<>> /\ Rest(c, n) = <<>>

ProcessFlush(c) ==
    /\ loop = "process" /\ at = c /\ Len(output[c]) > HighWater
    /\ \E n \in 0..Len(output[c]) :
        /\ Written(c, n)
        /\ IF Drained(c, n)
           THEN CloseConns({c}) /\ Goto(back, None)
           ELSE /\ output' = [output EXCEPT ![c] = Rest(c, n)]
                /\ Goto(IF Len(Rest(c, n)) > HighWater THEN "finish" ELSE "process", c)
                /\ UNCHANGED <<conns, machine, pending, peerClosed,
                               interestVars, pushBuf>>
    /\ UNCHANGED <<clientVars, acceptVars, pushed, closeReqs, closeRequested,
                   waking, pushes, wake, back, batch, work, closes, run>>

ProcessNext(c) ==
    /\ loop = "process" /\ at = c /\ Len(output[c]) <= HighWater
    /\ IF pending[c] = <<>>
       THEN /\ Goto("finish", c)
            /\ UNCHANGED <<conns, machineVars, peerClosed, interestVars, pushBuf>>
       ELSE LET kind == asked[c][Head(pending[c])]
                out == output[c] \o ReplyTo(Head(pending[c]), kind)
            IN  IF kind = "fatal" \/ Len(out) > MaxOutput
                THEN CloseConns({c}) /\ Goto(back, None)
                ELSE /\ pending' = [pending EXCEPT ![c] = Tail(@)]
                     /\ output' = [output EXCEPT ![c] = out]
                     /\ Goto(IF pending'[c] = <<>> THEN "finish" ELSE "process", c)
                     /\ UNCHANGED <<conns, machine, peerClosed, interestVars,
                                    pushBuf>>
    /\ UNCHANGED <<clientVars, got, acceptVars, pushed, closeReqs,
                   closeRequested, waking, pushes, wake, back, batch, work,
                   closes, run>>

\* PendingRequests leaves out a queued protocol error.
PendingRequests(c) == {i \in Range(pending[c]) : asked[c][i] # "bad"}

\* A bug: the end of the client's requests closes the connection at once.
ServedAtEof(c, n) == c \in peerClosed /\ n >= 0

Served(c, n) ==
    c \in peerClosed /\ Rest(c, n) = <<>> /\ PendingRequests(c) = {}

\* A bug: the connection is read however much output it has.
SetInterestAlwaysReads(c, rest) ==
    /\ wantRead' = IF c \notin peerClosed THEN wantRead \cup {c} ELSE wantRead \ {c}
    /\ wantWrite' = IF rest # <<>> THEN wantWrite \cup {c} ELSE wantWrite \ {c}

SetInterest(c, rest) ==
    /\ wantRead' = IF c \notin peerClosed /\ Len(rest) <= HighWater
                   THEN wantRead \cup {c} ELSE wantRead \ {c}
    /\ wantWrite' = IF rest # <<>> THEN wantWrite \cup {c} ELSE wantWrite \ {c}

FinishConnEvent(c) ==
    /\ loop = "finish" /\ at = c /\ Goto(back, None)
    /\ \E n \in 0..Len(output[c]) :
        /\ Written(c, n)
        /\ IF Drained(c, n) \/ Served(c, n)
           THEN CloseConns({c})
           ELSE /\ output' = [output EXCEPT ![c] = Rest(c, n)]
                /\ SetInterest(c, Rest(c, n))
                /\ UNCHANGED <<conns, machine, pending, peerClosed, pushBuf>>
    /\ UNCHANGED <<clientVars, acceptVars, pushed, closeReqs, closeRequested,
                   waking, pushes, wake, back, batch, work, closes, run>>

\* A flush that fails for good closes the connection.
FlushFails(c) ==
    /\ loop \in {"process", "finish"} /\ at = c /\ peer[c] = "reset"
    /\ output[c] # <<>> /\ loop = "process" => Len(output[c]) > HighWater
    /\ CloseConns({c}) /\ Goto(back, None)
    /\ UNCHANGED <<clientVars, got, acceptVars, pushed, closeReqs,
                   closeRequested, waking, pushes, wake, back, batch, work,
                   closes, run>>

(***************************************************************************)
(* acceptReady: connections are taken until the backlog is empty or the    *)
(* process runs out of descriptors.                                        *)
(***************************************************************************)
Accepting == loop = "events" /\ batch.accept
AcceptOver == batch' = [batch EXCEPT !.accept = FALSE]

RegisterConn(c) ==
    /\ Accepting /\ c \in backlog /\ backlog' = backlog \ {c}
    /\ Cardinality(conns) < MaxClients
    /\ conns' = conns \cup {c} /\ machine' = [machine EXCEPT ![c] = "active"]
    /\ wantRead' = wantRead \cup {c}
    /\ UNCHANGED <<clientVars, got, paused, resume, pauses, pending, output,
                   peerClosed, wantWrite, queueVars, wake, loopVars, run>>

RefuseConn(c) ==
    /\ Accepting /\ c \in backlog /\ backlog' = backlog \ {c}
    /\ Cardinality(conns) >= MaxClients
    /\ machine' = [machine EXCEPT ![c] = "closed"]
    /\ UNCHANGED <<clientVars, got, paused, resume, pauses, conns, pending,
                   output, peerClosed, interestVars, queueVars, wake, loopVars,
                   run>>

AcceptDone ==
    /\ Accepting /\ backlog = {} /\ AcceptOver
    /\ UNCHANGED <<clientVars, got, acceptVars, conns, machineVars, peerClosed,
                   interestVars, queueVars, wake, loop, at, back, work, closes,
                   run>>

PauseAccepting ==
    /\ Accepting /\ backlog # {} /\ AcceptOver
    /\ pauses < budget.pauses /\ pauses' = pauses + 1 /\ paused' = TRUE
    /\ UNCHANGED <<clientVars, got, backlog, resume, conns, machineVars,
                   peerClosed, interestVars, queueVars, wake, loop, at, back,
                   work, closes, run>>

\* The loop ends when Wait returns after the context was cancelled, or when
\* accept fails for good; either way every connection is closed.
Cleanup ==
    /\ (loop = "wait" /\ stop /\ wake) \/ (Accepting /\ backlog # {} /\ pauses < budget.pauses)
    /\ CloseConns(conns)
    /\ loop' = "stopped" /\ batch' = NoEvents
    /\ UNCHANGED <<clientVars, got, acceptVars, pushed, closeReqs,
                   closeRequested, waking, pushes, wake, at, back, work, closes,
                   run>>

LoopStep ==
    \/ Wait \/ TakeQueues \/ CloseRequests \/ EventsDone \/ AcceptDone
    \/ PauseAccepting \/ Cleanup
    \/ \E c \in Conns : \/ BufferPush(c) \/ ConnReadable(c) \/ ConnWritable(c)
                        \/ ProcessFlush(c) \/ ProcessNext(c)
                        \/ FinishConnEvent(c) \/ FlushFails(c)
                        \/ RegisterConn(c) \/ RefuseConn(c)

OthersStep ==
    \/ Wake \/ Stop \/ ResumeTimer
    \/ \E c \in Conns : \/ Connect(c) \/ CloseHandle(c)
                        \/ \E n \in {1, MaxOutput + 1} : QueuePush(c, n)
                        \/ \E kind \in Kinds : Send(c, kind)
                        \/ \E how \in {"eof", "reset"} : Leave(c, how)

Next == LoopStep \/ OthersStep

Spec == Init /\ [][Next]_vars

\* The loop runs whenever it can, and so do the timer and the wake-ups.
FairSpec == Spec /\ WF_vars(LoopStep) /\ WF_vars(Wake) /\ WF_vars(ResumeTimer)

----------------------------------------------------------------------------
\* Whatever a client receives, it is what the channel promises: replies in
\* order, none lost or doubled, an error reply last (ConnMachine).
Channel == INSTANCE ReplyChannel WITH over <- {c \in Conns : machine[c] = "closed"}
KeepsReplyOrder == Channel!ChannelSpec

\* The loop bounds what a slow client costs: no output buffer exceeds its
\* limit, output that the loop leaves behind when it waits is watched for
\* writing, and a connection is read exactly while its peer sends and its
\* output is low (queuePush, finishConnEvent).
Backpressure ==
    /\ \A c \in Conns : Len(output[c]) <= MaxOutput /\ pushBuf[c] <= MaxOutput
    /\ loop = "wait" => \A c \in conns :
         /\ c \in wantWrite <=> output[c] # <<>>
         /\ c \in wantRead <=> c \notin peerClosed /\ Len(output[c]) <= HighWater

\* A frame queued for an open connection is in the list the loop will take,
\* and a loop that waits has been woken or is about to be (queuePush).
NoLostPush ==
    loop # "stopped" => \A c \in conns : pushBuf[c] > 0 =>
        c \in pushed /\ (wake \/ waking # {} \/ loop = "queues")

\* A connection that ends because its client finished sending has received
\* the replies to everything the client ever sent (connReadable's comment on
\* the pipeline tail).
EofServesAll ==
    [][\A c \in conns \ conns' :
          (loop = "finish" /\ peer[c] = "eof" /\ machine[c] = "active") =>
              Channel!Expected(asked[c]) \subseteq Range(got'[c])]_vars

\* Parsed requests that had to wait for the output to drain run from a
\* writable event: a waiting loop watches their socket (processConn).
PausedRequestsResume ==
    loop = "wait" => \A c \in conns : pending[c] # <<>> => c \in wantWrite

\* Accepting resumes after every pause, unless the loop ends.
AcceptingResumes == paused ~> (~paused \/ loop = "stopped")

\* A cancelled context ends the loop, and with it every connection.
StopEnds == stop ~> (loop = "stopped" /\ conns = {})
=============================================================================
