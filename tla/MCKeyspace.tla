---------------------------- MODULE MCKeyspace -----------------------------
(* Instances of Keyspace for TLC.                                          *)
EXTENDS Keyspace, TLC

CONSTANTS k1, k2

\* A start finds nothing, or a string with a deadline beside a list.
Starts ==
    {<<>>} \cup
    {k :> [kind |-> "string", len |-> 2, exp |-> 1, at |-> 0]
       @@ j :> [kind |-> "list", len |-> 1, exp |-> 0, at |-> 1] :
         <<k, j>> \in {<<k1, k2>>, <<k2, k1>>}}

Symmetry == Permutations(Keys)

\* No limit, one under which some values do not fit, one under which two do.
ThreeLimits == {0, 3, 5}
=============================================================================
