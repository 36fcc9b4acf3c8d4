---------------------------- MODULE Transactions ----------------------------
(***************************************************************************)
(* WATCH, MULTI, EXEC and DISCARD (internal/command/commands.go and        *)
(* types.go) over the state of each connection                             *)
(* (internal/server/client_state.go) and the registry of watched keys      *)
(* (internal/server/watch_registry.go), with connections that run one      *)
(* goroutine each.                                                         *)
(*                                                                         *)
(* A write command is the set of keys it changes: the keys change under    *)
(* the shard locks, Touch collects the watchers under the registry's lock, *)
(* and then fails them one by one after releasing it.  The empty set is    *)
(* WAIT, which waits for replicas and changes no key.  Keys that a write   *)
(* evicts or finds expired are touched by a second call of the same shape. *)
(***************************************************************************)
EXTENDS Naturals, Sequences, Functions

CONSTANTS
    Clients, Keys,
    Commands,    \* the commands a client may send: sets of keys they change
    MaxWrites,   \* bound on the number of writes
    MaxQueue     \* bound on the length of a transaction's queue

ASSUME CommandsAssumption == Commands \subseteq SUBSET Keys
ASSUME BoundsAssumption == MaxWrites \in Nat /\ MaxQueue \in Nat

Waits == {}

VARIABLES
    pc,          \* what the goroutine of each connection does
    after,       \* where it goes once UnwatchAll returned
    tx,          \* "none", "open" (InTransaction) or "dirty" (and TxDirty)
    failed,      \* the clients with TxFailed
    queue,       \* TxQueue; then the commands of the request yet to run
    watched,     \* watchedKeys of each client
    registry,    \* watchers of each key
    touching,    \* the keys of the command whose Touch is due
    marking,     \* the clients its Touch has yet to fail
    frames,      \* durability frames collected by the request so far, each by
                 \* the number of its write
    stopping,    \* "yes" once the server's context is cancelled
    writes,      \* writes done to the store
    emitted,     \* frames handed to the append-only file
    writing,     \* history: the number of the write in progress, 0 for none
    victims,     \* history: the clients a write in progress changed a watched key of
    hit          \* history: such a write has finished

txVars == <<tx, queue>>
watchVars == <<watched, registry>>
touchVars == <<touching, marking>>
outVars == <<frames, writes, emitted>>
histVars == <<victims, hit, writing>>
vars == <<pc, after, txVars, failed, watchVars, touchVars, outVars, stopping,
          histVars>>

Init ==
    /\ pc = [c \in Clients |-> "idle"] /\ after = [c \in Clients |-> "idle"]
    /\ tx = [c \in Clients |-> "none"] /\ queue = [c \in Clients |-> <<>>]
    /\ failed = {}
    /\ watched = [c \in Clients |-> {}] /\ registry = [k \in Keys |-> {}]
    /\ touching = [c \in Clients |-> {}] /\ marking = [c \in Clients |-> {}]
    /\ frames = [c \in Clients |-> <<>>]
    /\ stopping = "no"
    /\ writes = 0 /\ emitted = <<>> /\ writing = [c \in Clients |-> 0]
    /\ hit = {} /\ victims = [c \in Clients |-> {}]

\* The client's watches are over: what changed before no longer concerns it.
Forget(c) ==
    /\ hit' = hit \ {c}
    /\ victims' = [d \in Clients |-> victims[d] \ {c}]

-----------------------------------------------------------------------------
(* Commands that only change the connection's own state.                   *)

Watch(c, k) ==
    /\ pc[c] = "idle" /\ tx[c] = "none"
    /\ watched' = [watched EXCEPT ![c] = @ \cup {k}]
    /\ registry' = [registry EXCEPT ![k] = @ \cup {c}]
    /\ UNCHANGED <<pc, after, txVars, failed, touchVars, outVars, stopping,
                   histVars>>

\* Mutant of Multi: MULTI starts from a clean failure flag.
MultiForgetsFailure(c) ==
    /\ pc[c] = "idle" /\ tx[c] = "none"
    /\ tx' = [tx EXCEPT ![c] = "open"]
    /\ failed' = failed \ {c}
    /\ UNCHANGED <<pc, after, queue, watchVars, touchVars, outVars, stopping,
                   histVars>>

\* BeginTransaction keeps TxFailed.
Multi(c) ==
    /\ pc[c] = "idle" /\ tx[c] = "none"
    /\ tx' = [tx EXCEPT ![c] = "open"]
    /\ UNCHANGED <<pc, after, queue, failed, watchVars, touchVars, outVars,
                   stopping, histVars>>

\* maybeQueueRequest: the command is queued, or it is not valid.
Queue(c, cmd) ==
    /\ pc[c] = "idle" /\ tx[c] # "none"
    /\ Len(queue[c]) < MaxQueue
    /\ queue' = [queue EXCEPT ![c] = Append(@, cmd)]
    /\ UNCHANGED <<pc, after, tx, failed, watchVars, touchVars, outVars,
                   stopping, histVars>>

QueueInvalid(c) ==
    /\ pc[c] = "idle" /\ tx[c] # "none"
    /\ tx' = [tx EXCEPT ![c] = "dirty"]
    /\ UNCHANGED <<pc, after, queue, failed, watchVars, touchVars, outVars,
                   stopping, histVars>>

-----------------------------------------------------------------------------
(* EXEC, DISCARD and the end of a connection.                              *)

\* ResetTransaction, with UnwatchAll to follow.
Reset(c, next) ==
    /\ tx' = [tx EXCEPT ![c] = "none"]
    /\ queue' = [queue EXCEPT ![c] = <<>>]
    /\ failed' = failed \ {c}
    /\ pc' = [pc EXCEPT ![c] = "unwatch"]
    /\ after' = [after EXCEPT ![c] = next]
    /\ hit' = hit \ {c}
    /\ UNCHANGED <<watchVars, touchVars, outVars, stopping, victims, writing>>

\* EXEC of a dirty or failed transaction, and DISCARD.
GiveUp(c) ==
    /\ pc[c] = "idle" /\ tx[c] # "none"
    /\ Reset(c, "idle")

\* EXEC finds the transaction neither dirty nor failed.
Exec(c) ==
    /\ pc[c] = "idle" /\ tx[c] = "open" /\ c \notin failed
    /\ pc' = [pc EXCEPT ![c] = "unwatch"]
    /\ after' = [after EXCEPT ![c] = "run"]
    /\ UNCHANGED <<txVars, failed, watchVars, touchVars, outVars, stopping,
                   histVars>>

Disconnect(c) ==
    /\ pc[c] \in {"idle", "cancelled"}
    /\ Reset(c, "gone")

\* UnwatchAll, first half: WatchRegistry.UnwatchAll under the registry's lock.
Unwatch(c) ==
    /\ pc[c] = "unwatch"
    /\ registry' = [k \in Keys |-> IF k \in watched[c] THEN registry[k] \ {c}
                                                       ELSE registry[k]]
    /\ watched' = [watched EXCEPT ![c] = {}]
    /\ Forget(c)
    /\ pc' = [pc EXCEPT ![c] = "clear"]
    /\ UNCHANGED <<after, txVars, failed, touchVars, outVars, stopping, writing>>

\* UnwatchAll, second half: ClearTransactionFailure.  EXEC then drains the
\* transaction and runs the commands.
Clear(c) ==
    /\ pc[c] = "clear"
    /\ failed' = failed \ {c}
    /\ tx' = [tx EXCEPT ![c] = "none"]
    /\ pc' = [pc EXCEPT ![c] = after[c]]
    /\ UNCHANGED <<after, queue, watchVars, touchVars, outVars, stopping, histVars>>

-----------------------------------------------------------------------------
(* Running commands: the one of a plain request, or those EXEC drained.    *)

Request(c, cmd) ==
    /\ pc[c] = "idle" /\ tx[c] = "none"
    /\ queue' = [queue EXCEPT ![c] = <<cmd>>]
    /\ pc' = [pc EXCEPT ![c] = "run"]
    /\ UNCHANGED <<after, tx, failed, watchVars, touchVars, outVars, stopping,
                   histVars>>

\* The store changes the keys.
RunWrite(c) ==
    /\ pc[c] = "run" /\ queue[c] # <<>> /\ Head(queue[c]) # Waits
    /\ writes < MaxWrites
    /\ LET K == Head(queue[c])
           losers == {d \in Clients : watched[d] \cap K # {}}
       IN /\ touching' = [touching EXCEPT ![c] = K]
          /\ victims' = [victims EXCEPT ![c] = losers]
    /\ queue' = [queue EXCEPT ![c] = Tail(@)]
    /\ writes' = writes + 1
    /\ writing' = [writing EXCEPT ![c] = writes + 1]
    /\ pc' = [pc EXCEPT ![c] = "touch"]
    /\ UNCHANGED <<after, tx, failed, watchVars, marking, frames, emitted,
                   stopping, hit>>

\* Touch, under the registry's read lock.
Collect(c) ==
    /\ pc[c] = "touch"
    /\ marking' = [marking EXCEPT ![c] = UNION {registry[k] : k \in touching[c]}]
    /\ pc' = [pc EXCEPT ![c] = "mark"]
    /\ UNCHANGED <<after, txVars, failed, watchVars, touching, outVars, stopping,
                   histVars>>

\* Touch, after it: MarkTransactionFailed of one collected client.
Mark(c, d) ==
    /\ pc[c] = "mark" /\ d \in marking[c]
    /\ failed' = failed \cup {d}
    /\ marking' = [marking EXCEPT ![c] = @ \ {d}]
    /\ UNCHANGED <<pc, after, txVars, watchVars, touching, outVars, stopping,
                   histVars>>

\* Mutant of Touched: the frames of the command are not collected.
TouchedWithoutFrame(c) ==
    /\ pc[c] = "mark" /\ marking[c] = {}
    /\ touching' = [touching EXCEPT ![c] = {}]
    /\ hit' = hit \cup victims[c]
    /\ victims' = [victims EXCEPT ![c] = {}]
    /\ pc' = [pc EXCEPT ![c] = "run"]
    /\ writing' = [writing EXCEPT ![c] = 0]
    /\ UNCHANGED <<after, txVars, failed, watchVars, marking, outVars, stopping>>

\* The handler returns and executionFrames adds the command's frame.
Touched(c) ==
    /\ pc[c] = "mark" /\ marking[c] = {}
    /\ touching' = [touching EXCEPT ![c] = {}]
    /\ frames' = [frames EXCEPT ![c] = Append(@, writing[c])]
    /\ writing' = [writing EXCEPT ![c] = 0]
    /\ hit' = hit \cup victims[c]
    /\ victims' = [victims EXCEPT ![c] = {}]
    /\ pc' = [pc EXCEPT ![c] = "run"]
    /\ UNCHANGED <<after, txVars, failed, watchVars, marking, writes, emitted,
                   stopping>>

\* A command that waits ends when what it waits for comes.
RunWait(c) ==
    /\ pc[c] = "run" /\ queue[c] # <<>> /\ Head(queue[c]) = Waits
    /\ queue' = [queue EXCEPT ![c] = Tail(@)]
    /\ UNCHANGED <<pc, after, tx, failed, watchVars, touchVars, outVars, stopping,
                   histVars>>

\* Or with the context: the request fails, its result is dropped and the
\* connection ends.
WaitCancelled(c) ==
    /\ pc[c] = "run" /\ queue[c] # <<>> /\ Head(queue[c]) = Waits
    /\ stopping = "yes"
    /\ queue' = [queue EXCEPT ![c] = <<>>]
    /\ frames' = [frames EXCEPT ![c] = <<>>]
    /\ pc' = [pc EXCEPT ![c] = "cancelled"]
    /\ UNCHANGED <<after, tx, failed, watchVars, touchVars, writes, emitted,
                   stopping, histVars>>

\* executeClientRequest hands the frames over and the reply is written.
Reply(c) ==
    /\ pc[c] = "run" /\ queue[c] = <<>>
    /\ emitted' = emitted \o frames[c]
    /\ frames' = [frames EXCEPT ![c] = <<>>]
    /\ pc' = [pc EXCEPT ![c] = "idle"]
    /\ UNCHANGED <<after, txVars, failed, watchVars, touchVars, writes, stopping,
                   histVars>>

Stop ==
    /\ stopping = "no" /\ stopping' = "yes"
    /\ UNCHANGED <<pc, after, txVars, failed, watchVars, touchVars, outVars,
                   histVars>>

-----------------------------------------------------------------------------
Next ==
    \/ \E c \in Clients :
         \/ \E k \in Keys : Watch(c, k)
         \/ \E cmd \in Commands : Queue(c, cmd) \/ Request(c, cmd)
         \/ \E d \in Clients : Mark(c, d)
         \/ Multi(c) \/ QueueInvalid(c)
         \/ GiveUp(c) \/ Exec(c) \/ Disconnect(c) \/ Unwatch(c) \/ Clear(c)
         \/ RunWrite(c) \/ Collect(c) \/ Touched(c) \/ RunWait(c)
         \/ WaitCancelled(c) \/ Reply(c)
    \/ Stop

Spec == Init /\ [][Next]_vars

-----------------------------------------------------------------------------
(* Properties.                                                             *)

PcValues == {"idle", "unwatch", "clear", "run", "touch", "mark", "cancelled",
             "gone"}

\* EXEC passes its checks in this step.
Commits(c) == pc[c] = "idle" /\ pc'[c] = "unwatch" /\ after'[c] = "run"

\* A transaction does not run if a write that has returned, MULTI or no MULTI,
\* changed one of its watched keys since WATCH (handleExec, Touch).
AbortsAfterWrite == [][\A c \in Clients : Commits(c) => c \notin hit]_vars

\* A connection that ended is in no watcher set, so the registry does not
\* grow with the connections that come and go (Disconnect).
GoneIsUnwatched ==
    \A c \in Clients : pc[c] = "gone" => \A k \in Keys : c \notin registry[k]

\* While the server runs and no request is in progress, every write of the
\* store has reached the append-only file, once, also those of a transaction
\* (handleExec collects the frames of the commands it runs).
WritesAreEmitted ==
    stopping = "no" /\ (\A c \in Clients : pc[c] \notin {"run", "touch", "mark"})
      => IsInjective(emitted) /\ Range(emitted) = 1..writes
=============================================================================
