---------------------------- MODULE MCReplication ---------------------------
(* Instances of Replication for TLC: the casts of writers and replicas.    *)
EXTENDS Replication, TLC

CONSTANTS c1, c2, r1, r2, r3, r4

\* r3 has no --masterauth and r4 a wrong one.
Configured == [r \in Replicas |-> CASE r = r3 -> "none" [] r = r4 -> "wrong"
                                    [] OTHER -> "right"]

\* Two writers and a replica that joins meanwhile; one writer and two
\* replicas that follow from the start; one that joins later; two
\* that the master refuses.
Casts == {[writers |-> {c1, c2}, joined |-> {}, late |-> {r1}],
          [writers |-> {c1}, joined |-> {r1, r2}, late |-> {}],
          [writers |-> {c1}, joined |-> {r1}, late |-> {r2}],
          [writers |-> {}, joined |-> {}, late |-> {r3, r4}]}
=============================================================================
