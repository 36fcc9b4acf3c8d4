----------------------------- MODULE MCPipeline -----------------------------
(* Instances of Pipeline for TLC: two clients, two keys.                   *)
EXTENDS Pipeline, TLC

CONSTANTS c1, c2, a, b

Apart == a :> 1 @@ b :> 2
Together == a :> 1 @@ b :> 1
Script(first, second) == c1 :> first @@ c2 :> second

\* Two clients and the expiry loop change the keys in every order.
Writing ==
    [policy |-> "always", runs |-> 3, until |-> 2, shard |-> Together,
     accounting |-> FALSE, fails |-> FALSE, others |-> {Sweeper},
     script |-> Script({Set(a, 5, 1)}, {Del({a, b}), Incr(a)})]

\* Appends that fail.
Failing(policy) ==
    [Writing EXCEPT !.policy = policy, !.runs = 2, !.fails = TRUE,
                    !.script = Script({Set(a, 5, 1)}, {Set(a, 7, 0)})]

\* Writes that evict, sweep and are refused.
Evicting ==
    [policy |-> "always", runs |-> 2, until |-> 2, shard |-> Together,
     accounting |-> TRUE, fails |-> FALSE, others |-> {},
     script |-> Script({Set(a, 5, 1)}, {Set(b, 7, 0)})]

\* A rewrite between the changes of two clients.
Rewriting ==
    [policy |-> "deferred", runs |-> 3, until |-> 0, shard |-> Together,
     accounting |-> FALSE, fails |-> FALSE, others |-> {Rewriter},
     script |-> Script({Set(a, 5, 1), Incr(a)}, {Del({a, b})})]

\* Everyone who takes the locks of several shards.
Locking ==
    [policy |-> "deferred", runs |-> 3, until |-> 0, shard |-> Apart,
     accounting |-> FALSE, fails |-> TRUE, others |-> {Sweeper, Rewriter, Reader},
     script |-> Script({Set(b, 5, 1)}, {Del({a, b})})]

Cast == {Writing, Failing("always"), Failing("deferred"), Evicting, Rewriting, Locking}
=============================================================================
