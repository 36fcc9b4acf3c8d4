--------------------------- MODULE MCListWaiters ---------------------------
(* Instances of ListWaiters for TLC.                                       *)
EXTENDS ListWaiters

OneElement == {1}
OneOrTwoElements == {1, 2}
=============================================================================
