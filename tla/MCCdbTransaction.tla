--------------------------- MODULE MCCdbTransaction ---------------------------
(* Instances of CdbTransaction for TLC. *)
EXTENDS CdbTransaction, TLC

CONSTANTS v1, v2, f1, f2

C(v, f) == [version |-> v, format |-> f]

\* A pair, the same in other bytes, a new database for the shard, and both new.
FourPairs == {<<C(v1, f1), C(v1, f1)>>, <<C(v1, f2), C(v1, f2)>>,
              <<C(v1, f1), C(v2, f1)>>, <<C(v2, f1), C(v2, f1)>>}

\* Editors are interchangeable.
Symmetry == Permutations(Proc)
================================================================================
