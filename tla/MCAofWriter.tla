---------------------------- MODULE MCAofWriter ----------------------------
(* Instances of AofWriter for TLC.                                         *)
EXTENDS AofWriter, TLC

\* Mutations are interchangeable.
Symmetry == Permutations(Ops)

\* Every failure except the two from which the code does not recover (a
\* torn frame and a failed directory fsync).
SurvivableFaults == FaultPoints \ {"torn", "dirsync"}

\* The failures that under everysec cost no acknowledged mutation while the
\* file is intact.  A write or a rename that fails drops frames which a
\* deferred policy has acknowledged, and the file looks intact afterwards.
EverysecFaults == FaultPoints \ {"flush", "rename"}
=============================================================================
