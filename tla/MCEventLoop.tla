---------------------------- MODULE MCEventLoop ----------------------------
(* Instances of EventLoop for TLC: budgets of what happens to the loop.    *)
EXTENDS EventLoop

CONSTANTS a, b

\* A pipeline of one client with a push; two pushes; one client with
\* everything that ends a connection; two that compete for one place.
Budgeted == {
    [clients |-> {a}, requests |-> 2, pushes |-> 1, closes |-> 0, stops |-> 0,
     pauses |-> 0],
    [clients |-> {a}, requests |-> 1, pushes |-> 2, closes |-> 0, stops |-> 0,
     pauses |-> 0],
    [clients |-> {a}, requests |-> 1, pushes |-> 1, closes |-> 1, stops |-> 1,
     pauses |-> 0],
    [clients |-> {a, b}, requests |-> 0, pushes |-> 0, closes |-> 0, stops |-> 1,
     pauses |-> 1]}

\* A pipeline of one client with a push.
Pipelines == {
    [clients |-> {a}, requests |-> 2, pushes |-> 1, closes |-> 0, stops |-> 0,
     pauses |-> 0]}
=============================================================================
