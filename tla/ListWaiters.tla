---------------------------- MODULE ListWaiters ----------------------------
(***************************************************************************)
(* BLPOP: connections that wait for an element of one list                 *)
(* (internal/command/list.go, handleBLPop), the queue of their channels    *)
(* (internal/storage/list_waiters.go), and the pushes that notify it       *)
(* (internal/storage/store.go, pushList).                                  *)
(*                                                                         *)
(* Keys have separate queues, so the model has one key.  The list is its   *)
(* length.  Each turn of the BLPOP loop uses a fresh channel of capacity 1;*)
(* a send to a channel that its client has left has no effect, so a client *)
(* that unsubscribes is dropped from sending and signalled.  In event-loop *)
(* mode BLPOP never waits and commands do not interleave.                  *)
(***************************************************************************)
EXTENDS Naturals, Sequences, Functions

CONSTANTS
    Clients,     \* the connections that issue BLPOP
    PushSizes,   \* how many elements one LPUSH or RPUSH may carry
    MaxPushes    \* bound on the number of pushes

ASSUME PushSizesAssumption == PushSizes \subseteq Nat \ {0}
ASSUME MaxPushesAssumption == MaxPushes \in Nat

VARIABLES
    valueKind,   \* what the key holds: "list" (len elements) or "string"
    len,         \* the length of the list, 0 when there is none
    pc,          \* progress of each client through handleBLPop
    queue,       \* waiterQueue.order: the clients whose channels wait
    notifying,   \* pushes that are committed and have yet to call notifyOne
    sending,     \* clients taken off the queue whose channel is still empty
    signalled,   \* clients whose channel holds the notification
    stopping,    \* "yes" once the server's context is cancelled
    pushes

waitVars == <<queue, sending, signalled>>
waitersVars == <<valueKind, len, pc, waitVars, notifying, stopping, pushes>>

\* A turn of the loop that is over and has yet to call UnsubscribeListPush.
Leaving == {"woken", "got", "failed", "cancelled"}

WaitersInit ==
    /\ valueKind = "list" /\ len = 0
    /\ pc = [c \in Clients |-> "out"]
    /\ queue = <<>>
    /\ notifying = 0
    /\ sending = {} /\ signalled = {}
    /\ stopping = "no"
    /\ pushes = 0

-----------------------------------------------------------------------------
(* handleBLPop.                                                            *)

Call(c) ==
    /\ pc[c] = "out"
    /\ pc' = [pc EXCEPT ![c] = "loop"]
    /\ UNCHANGED <<valueKind, len, waitVars, notifying, stopping, pushes>>

Subscribe(c) ==
    /\ pc[c] = "loop"
    /\ queue' = Append(queue, c)
    /\ pc' = [pc EXCEPT ![c] = "subscribed"]
    /\ UNCHANGED <<valueKind, len, sending, signalled, notifying, stopping, pushes>>

\* LeftPop, under the shard lock: an element, a wrong type, or nothing yet.
LeftPop(c) ==
    /\ pc[c] = "subscribed"
    /\ \/ /\ valueKind = "string"
          /\ pc' = [pc EXCEPT ![c] = "failed"]
          /\ UNCHANGED len
       \/ /\ valueKind = "list" /\ len > 0
          /\ len' = len - 1
          /\ pc' = [pc EXCEPT ![c] = "got"]
       \/ /\ valueKind = "list" /\ len = 0
          /\ pc' = [pc EXCEPT ![c] = "blocked"]
          /\ UNCHANGED len
    /\ UNCHANGED <<valueKind, waitVars, notifying, stopping, pushes>>

\* The two cases of the select.
Receive(c) ==
    /\ pc[c] = "blocked" /\ c \in signalled
    /\ signalled' = signalled \ {c}
    /\ pc' = [pc EXCEPT ![c] = "woken"]
    /\ UNCHANGED <<valueKind, len, queue, sending, notifying, stopping, pushes>>

\* Mutant of Cancel: the select does not listen to the context.
NeverCancelled(c) == FALSE /\ UNCHANGED waitersVars

Cancel(c) ==
    /\ pc[c] = "blocked" /\ stopping = "yes"
    /\ pc' = [pc EXCEPT ![c] = "cancelled"]
    /\ UNCHANGED <<valueKind, len, waitVars, notifying, stopping, pushes>>

\* unsubscribe: the element that the index has for the channel, if any, leaves
\* the order.
RemoveFromOrder(c) ==
    IF c \in Range(queue)
    THEN \E i \in DOMAIN queue :
            /\ queue[i] = c
            /\ queue' = SubSeq(queue, 1, i - 1) \o SubSeq(queue, i + 1, Len(queue))
    ELSE UNCHANGED queue

\* Mutant of Unsubscribe: a client that got its element stays queued.
LeavesChannelQueued(c) ==
    /\ pc[c] \in Leaving
    /\ IF pc[c] = "got" THEN UNCHANGED queue ELSE RemoveFromOrder(c)
    /\ sending' = sending \ {c}
    /\ signalled' = signalled \ {c}
    /\ pc' = [pc EXCEPT ![c] = IF pc[c] = "woken" THEN "loop" ELSE "out"]
    /\ UNCHANGED <<valueKind, len, notifying, stopping, pushes>>

\* UnsubscribeListPush; a woken client starts another turn with a new channel.
Unsubscribe(c) ==
    /\ pc[c] \in Leaving
    /\ RemoveFromOrder(c)
    /\ sending' = sending \ {c}
    /\ signalled' = signalled \ {c}
    /\ pc' = [pc EXCEPT ![c] = IF pc[c] = "woken" THEN "loop" ELSE "out"]
    /\ UNCHANGED <<valueKind, len, notifying, stopping, pushes>>

-----------------------------------------------------------------------------
(* The other commands on the key.                                          *)

\* pushList up to the release of the shard locks.
Push(n) ==
    /\ valueKind = "list"
    /\ pushes < MaxPushes
    /\ pushes' = pushes + 1
    /\ len' = len + n
    /\ notifying' = notifying + 1
    /\ UNCHANGED <<valueKind, pc, waitVars, stopping>>

\* notifyOne under waiters.mu: the channel at the front leaves the queue.
NotifyOne ==
    /\ notifying > 0
    /\ notifying' = notifying - 1
    /\ \/ queue = <<>> /\ UNCHANGED <<queue, sending>>
       \/ /\ queue # <<>>
          /\ queue' = Tail(queue)
          /\ sending' = sending \cup {Head(queue)}
    /\ UNCHANGED <<valueKind, len, pc, signalled, stopping, pushes>>

\* notifyOne after it released waiters.mu: the send.
Send(c) ==
    /\ c \in sending
    /\ sending' = sending \ {c}
    /\ signalled' = signalled \cup {c}
    /\ UNCHANGED <<valueKind, len, pc, queue, notifying, stopping, pushes>>

\* LPOP and RPOP of another connection, with or without a count.
PopList(n) ==
    /\ valueKind = "list"
    /\ len' = len - n
    /\ UNCHANGED <<valueKind, pc, waitVars, notifying, stopping, pushes>>

\* DEL, an expiry or an eviction; SET puts a string in the place of the list.
Replace(k) ==
    /\ valueKind' = k /\ len' = 0
    /\ UNCHANGED <<pc, waitVars, notifying, stopping, pushes>>

Stop ==
    /\ stopping = "no"
    /\ stopping' = "yes"
    /\ UNCHANGED <<valueKind, len, pc, waitVars, notifying, pushes>>

-----------------------------------------------------------------------------
ClientStep(c) ==
    Subscribe(c) \/ LeftPop(c) \/ Receive(c) \/ Cancel(c) \/ Unsubscribe(c)

WaitersNext ==
    \/ \E c \in Clients : Call(c) \/ ClientStep(c) \/ Send(c)
    \/ \E n \in PushSizes : Push(n)
    \/ \E n \in 1..len : PopList(n)
    \/ \E k \in {"list", "string"} : Replace(k)
    \/ NotifyOne \/ Stop

WaitersSpec == WaitersInit /\ [][WaitersNext]_waitersVars

\* A goroutine that can run does run: a client inside BLPOP, and a push that
\* has yet to notify.  Nothing makes a client call, push or pop.
Fairness ==
    /\ \A c \in Clients : WF_waitersVars(ClientStep(c)) /\ WF_waitersVars(Send(c))
    /\ WF_waitersVars(NotifyOne)

FairSpec == WaitersSpec /\ Fairness

-----------------------------------------------------------------------------
(* Properties.                                                             *)

\* The queue is exact.  A channel is in it at most once and only while its
\* client is in a turn of the loop: handleBLPop unsubscribes on every way out,
\* or a later push would spend its only notification on a client that is gone.
\* And a client that waits is queued or has a notification on its way:
\* notifyOne drops a waiter only together with the send to it.
NoDeadWaiter ==
    /\ \A i, j \in 1..Len(queue) : queue[i] = queue[j] => i = j
    /\ \A i \in 1..Len(queue) : pc[queue[i]] \notin {"out", "loop"}
    /\ \A c \in Clients :
         pc[c] = "blocked" => c \in sending \cup signalled \cup Range(queue)

\* BLPOP does not wait for ever for an element that is there (the check after
\* the subscription in handleBLPop, and the notification of each push).
NeverStranded ==
    \A c \in Clients : []<>~(pc[c] = "blocked" /\ len > 0)

\* A shutdown ends every BLPOP, or handlerWG.Wait in ListenAndServe would not
\* return.
ShutdownReleases ==
    \A c \in Clients : stopping = "yes" ~> pc[c] = "out"
=============================================================================
