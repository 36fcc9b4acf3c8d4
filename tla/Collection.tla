----------------------------- MODULE Collection -----------------------------
(***************************************************************************)
(* What a set, a hash or a sorted set promises, whatever its encoding: it  *)
(* is a function from its elements to what goes with them (nothing, a      *)
(* value, a score).  Writing answers how many elements are new, removing   *)
(* how many there were.                                                    *)
(***************************************************************************)
EXTENDS Integers, Sequences, FiniteSets

CONSTANTS
    Puts,    \* for each kind, the sequences of pairs that may be written
    Takes    \* for each kind, the sequences of elements that may be removed

VARIABLES kind, content, answer

Elements(ps) == {ps[i][1] : i \in DOMAIN ps}

\* The last pair of an element counts.
LastOf(ps, e) ==
    ps[CHOOSE i \in DOMAIN ps :
          ps[i][1] = e /\ \A j \in DOMAIN ps : ps[j][1] = e => j <= i][2]

Put(ps) ==
    /\ content' = [e \in DOMAIN content \cup Elements(ps) |->
                      IF e \in Elements(ps) THEN LastOf(ps, e) ELSE content[e]]
    /\ answer' = Cardinality(Elements(ps) \ DOMAIN content)
    /\ UNCHANGED kind

Take(es) ==
    LET gone == {es[i] : i \in DOMAIN es}
    IN  /\ content' = [e \in DOMAIN content \ gone |-> content[e]]
        /\ answer' = Cardinality(gone \cap DOMAIN content)
        /\ UNCHANGED kind

Start == content = <<>> /\ answer = 0

Step ==
    \/ \E ps \in Puts[kind] : Put(ps)
    \/ \E es \in Takes[kind] : Take(es)

CollectionSpec == Start /\ [][Step]_<<kind, content, answer>>
=============================================================================
