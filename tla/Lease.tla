--------------------------------- MODULE Lease ---------------------------------
(***************************************************************************)
(* What lua/ue/file_lock.lua promises to the writers of one shared cache   *)
(* file: at most one of them works under the lease, and the record that    *)
(* tells the others so is never taken away from the one that does.         *)
(*                                                                         *)
(* `record` is the set of owner records other processes can see under the  *)
(* lease path; `holder` is the set of leases in use, that is granted by    *)
(* acquire, not yet handed to release, and held by a process that runs.    *)
(***************************************************************************)
CONSTANT Name          \* owner records: one per lease ever asked for

VARIABLES record, holder

vars == <<record, holder>>

\* Leftovers of earlier sessions may be on disk, but nobody works under them.
Init == record \in {{}} \cup {{n} : n \in Name} /\ holder = {}

\* acquire returns a handle: no record was visible, and no lease was in use.
Grant(n) == /\ record = {} /\ holder = {}
            /\ record' = {n}
            /\ holder' = {n}

\* The holder calls release, or its process dies.
Leave(n) == /\ n \in holder
            /\ holder' = holder \ {n}
            /\ UNCHANGED record

\* A record disappears: the end of a release, or the removal of a stale lease.
Clear(n) == /\ n \in record \ holder
            /\ record' = record \ {n}
            /\ UNCHANGED holder

Next == \E n \in Name : Grant(n) \/ Leave(n) \/ Clear(n)

Spec == Init /\ [][Next]_vars
================================================================================
