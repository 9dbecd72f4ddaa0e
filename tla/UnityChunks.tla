------------------------------ MODULE UnityChunks ------------------------------
(***************************************************************************)
(* Packing of unity entries into batches                                   *)
(* (src/tools/build_hot_super_unity_cdb.py): which entries of a compile    *)
(* database are tried as one translation unit.  Entries are packed by      *)
(* position, in order, within the buckets of equal commands; the planner   *)
(* of strict batches packs again what is left until nothing more fits, and *)
(* whole modules are packed across module boundaries.                      *)
(*                                                                         *)
(* Abstracted: an entry is its module, its command (context; cross without *)
(* what differs between the modules of one batch), its member class, the   *)
(* stems of its source and of its generated members, its size and names;   *)
(* whether it is a wrapper or one source (exact); and whether its module   *)
(* failed to compile whole.  Sizes are units of the byte budget, whose     *)
(* reading from disk may fail (Unknown).                                   *)
(***************************************************************************)
EXTENDS Naturals, FiniteSets, Sequences, FiniteSetsExt

CONSTANTS Inputs,     \* databases: sequences of entries
          Budgets,    \* [bytes, unities, sources, closure, exact], a set of records
          Unknown     \* the size of an entry that cannot be read

VARIABLES entries, budget, plan
vars == <<entries, budget, plan>>

-----------------------------------------------------------------------------
(* secondary_unity_chunks.                                                  *)

(* The member classes are kept apart on request; C always is.               *)
Category(e, split) ==
    IF e.class = "c" THEN "c" ELSE IF split THEN e.class ELSE "any"
BucketKey(e, split) == <<e.module, e.context, Category(e, split)>>
Bytes(e, b) == IF e.size = Unknown THEN b.bytes + 1 ELSE e.size

SizeOf(E, chunk, b) == SumFunction([i \in chunk |-> Bytes(E[i], b)])
SourcesOf(E, chunk) == SumFunction([i \in chunk |-> E[i].sources])
SourceStems(E, chunk) == UNION {E[i].src : i \in chunk}
GeneratedStems(E, chunk) == UNION {E[i].gen : i \in chunk}

Fits(E, chunk, i, b) ==
    /\ SizeOf(E, chunk, b) + Bytes(E[i], b) <= b.bytes
    /\ Cardinality(chunk) < b.unities
    /\ SourcesOf(E, chunk) + E[i].sources <= b.sources

(* A generated file is not put next to the source it is generated from.     *)
StemsClash(E, chunk, i) ==
    \/ E[i].src \cap GeneratedStems(E, chunk) # {}
    \/ E[i].gen \cap SourceStems(E, chunk) # {}

\* Fault seed: the chunk that was closed is not begun anew.
FlushKeepsOpen(acc) == [acc EXCEPT !.chunks = @ \cup {c \in {acc.open} : Cardinality(c) > 1}]
Flush(acc) == [chunks |-> acc.chunks \cup {c \in {acc.open} : Cardinality(c) > 1}, open |-> {}]

(* One entry of a bucket: the open chunk ends where it does not fit, and an *)
(* entry that fits no chunk at all is left alone.                           *)
Pack(E, b, stems, acc, i) ==
    LET full == acc.open # {} /\ (~Fits(E, acc.open, i, b) \/ (stems /\ StemsClash(E, acc.open, i)))
        next == IF full THEN Flush(acc) ELSE acc
    IN  IF Bytes(E[i], b) > b.bytes \/ E[i].sources > b.sources THEN next
        ELSE [next EXCEPT !.open = @ \cup {i}]

PackBucket(E, indexes, b, stems) ==
    LET after[s \in SUBSET indexes] ==
          IF s = {} THEN [chunks |-> {}, open |-> {}]
          ELSE Pack(E, b, stems, after[s \ {Max(s)}], Max(s))
    IN  Flush(after[indexes]).chunks

SecondaryChunks(E, available, b, split, stems) ==
    LET keys == {BucketKey(E[i], split) : i \in available}
    IN  UNION {PackBucket(E, {i \in available : BucketKey(E[i], split) = k}, b, stems) : k \in keys}

(* strict_unity_chunks: member classes apart until nothing more fits, then  *)
(* what is left with the classes together.                                  *)
StrictFrom(E, b) ==
    LET from[left \in SUBSET DOMAIN E] ==
          LET chunks == SecondaryChunks(E, left, b, TRUE, FALSE)
          IN  IF chunks = {} THEN SecondaryChunks(E, left, b, FALSE, FALSE)
              ELSE chunks \cup from[left \ UNION chunks]
    IN  from
StrictChunks(E, available, b) == StrictFrom(E, b)[available]

-----------------------------------------------------------------------------
(* tier2_unity_chunks.                                                      *)

Whole(E, available, m) == {i \in available : E[i].module = m}
Closure(E, chunk) == UNION {E[i].closure : i \in chunk}
Names(E, chunk) == UNION {E[i].names : i \in chunk}

(* A module is a candidate whole: not known to fail, one command, readable, *)
(* within every budget on its own.                                          *)
Eligible(E, mine, b) ==
    /\ \A i \in mine : ~E[i].failed
    /\ \A i, j \in mine : E[i].context = E[j].context /\ E[i].cross = E[j].cross
    /\ \A i \in mine : E[i].size # Unknown
    /\ SizeOf(E, mine, b) <= b.bytes /\ Cardinality(mine) <= b.unities
    /\ Cardinality(Closure(E, mine)) <= b.closure

Joins(E, bin, mine, b) ==
    /\ \A i \in bin, j \in mine : E[i].cross = E[j].cross
    /\ Cardinality(bin \cup mine) <= b.unities
    /\ SizeOf(E, bin \cup mine, b) <= b.bytes
    /\ Cardinality(Closure(E, bin \cup mine)) <= b.closure
    /\ Names(E, bin) \cap Names(E, mine) = {}

(* First fit, in the order of the modules.                                  *)
PlaceModule(E, b, bins, mine) ==
    LET open == {k \in DOMAIN bins : Joins(E, bins[k], mine, b)}
    IN  IF open = {} THEN Append(bins, mine) ELSE [bins EXCEPT ![Min(open)] = @ \cup mine]

Firsts(E, available, b) ==
    {i \in available : LET mine == Whole(E, available, E[i].module)
                       IN  Eligible(E, mine, b) /\ \A j \in mine : i <= j}
Tier2Chunks(E, available, b) ==
    LET firsts == Firsts(E, available, b)
        after[s \in SUBSET firsts] ==
          IF s = {} THEN <<>>
          ELSE PlaceModule(E, b, after[s \ {Max(s)}], Whole(E, available, E[Max(s)].module))
        bins == after[firsts]
    IN  {c \in Range(bins) : Cardinality({E[i].module : i \in c}) > 1}

-----------------------------------------------------------------------------
(* One plan of one database by one of the planners: of its wrappers, with   *)
(* its single sources where they are asked for.                             *)
Planners == {"strict", "tier1", "stems", "tier2"}
Candidates(E, planner, b) ==
    {i \in DOMAIN E : E[i].exact => b.exact /\ planner \in {"tier1", "stems"}}
Planned(E, available, planner, b) ==
    CASE planner = "strict" -> StrictChunks(E, available, b)
      [] planner = "tier1" -> SecondaryChunks(E, available, b, FALSE, FALSE)
      [] planner = "stems" -> SecondaryChunks(E, available, b, FALSE, TRUE)
      [] planner = "tier2" -> Tier2Chunks(E, available, b)

NoPlan == [by |-> "none"]
Init == entries \in Inputs /\ budget \in Budgets /\ plan = NoPlan
MakePlan == /\ plan = NoPlan
            /\ \E planner \in Planners :
                  plan' = [by |-> planner,
                           chunks |-> Planned(entries, Candidates(entries, planner, budget),
                                              planner, budget)]
            /\ UNCHANGED <<entries, budget>>
Next == MakePlan
Spec == Init /\ [][Next]_vars

-----------------------------------------------------------------------------
(* The entries of a planned batch, planned again on their own, are the one  *)
(* batch they were: workers and validations re-plan a group they are handed *)
(* and refuse one that comes out otherwise.  Batches never share an entry   *)
(* and never exceed a budget.                                               *)
PlansReplan == plan # NoPlan =>
    /\ \A c \in plan.chunks : Planned(entries, c, plan.by, budget) = {c}
    /\ \A c, d \in plan.chunks : c = d \/ c \cap d = {}
    /\ \A c \in plan.chunks : /\ SizeOf(entries, c, budget) <= budget.bytes
                              /\ Cardinality(c) <= budget.unities
=============================================================================
