------------------------------ MODULE MCFileLock ------------------------------
(* Instances of FileLock for TLC. *)
EXTENDS FileLock, TLC

CONSTANTS p1, p2, p3, s1, s2

TwoProcs == {p1, p2}
ThreeProcs == {p1, p2, p3}
TwoSerials == {s1, s2}

\* Processes are interchangeable, and so are the serials of a token.
Symmetry == Permutations(Proc) \cup Permutations(Serial)
================================================================================
