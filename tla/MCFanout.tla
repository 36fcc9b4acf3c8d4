------------------------------ MODULE MCFanout ------------------------------
(* Instances of Fanout for TLC.                                            *)
EXTENDS Fanout

CONSTANTS p, s, t, news, chat

\* p publishes, the others send the given requests.
Around(others) == [c \in Clients |-> IF c = p THEN {Publish(news)} ELSE others]

\* Two subscribers of the same channel and a publisher; one of them stalls.
TwoSubscribers ==
    [script |-> Around({Subscribe({news})}), requests |-> 3, limit |-> 0,
     connected |-> Clients, guests |-> {}, faults |-> {"stall"}]

\* A client that changes its mind about channels and modes, and may leave.
Undecided ==
    [script |-> Around({Subscribe({news, chat}), Unsubscribe({}), Monitor}),
     requests |-> 3, limit |-> 0, connected |-> {p, s}, guests |-> {},
     faults |-> {"stall", "reset"}]

\* A monitor, a client that comes and is observed, the limit on connections.
Observers ==
    [script |-> [c \in Clients |-> IF c = s THEN {Monitor, Ping} ELSE {Ping}],
     requests |-> 3, limit |-> 1, connected |-> {s}, guests |-> {p},
     faults |-> {"stall", "reset"}]

\* Shutdown while a client connects and another subscribes.
Stopping ==
    [script |-> Around({Subscribe({news})}), requests |-> 1, limit |-> 0,
     connected |-> {s}, guests |-> {p}, faults |-> {"stop"}]

\* Shutdown while a reply is stuck on a stalled connection.
StoppingStalled ==
    [script |-> Around({Ping}), requests |-> 1, limit |-> 0,
     connected |-> {p, s}, guests |-> {}, faults |-> {"stop", "stall"}]

Cast == [subscribers |-> TwoSubscribers, undecided |-> Undecided,
         observers |-> Observers, stopping |-> Stopping,
         stuck |-> StoppingStalled]
=============================================================================
