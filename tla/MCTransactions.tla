--------------------------- MODULE MCTransactions ---------------------------
(* Instances of Transactions for TLC.                                      *)
EXTENDS Transactions, TLC

CONSTANTS k1, k2

\* DEL of both keys, and a command that waits.
DelAndWait == {{k1, k2}, Waits}

\* Neither clients nor keys are told apart.
Symmetry == Permutations(Clients) \cup Permutations(Keys)
=============================================================================
