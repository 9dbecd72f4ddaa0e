----------------------------- MODULE SwitchReindex -----------------------------
(***************************************************************************)
(* The refresh of the live shards after a branch switch                    *)
(* (src/tools/clangd_switch_reindex.py): what changed since a baseline is  *)
(* covered by a few translation units, which private workers re-index into *)
(* the one shared shard directory.                                         *)
(*                                                                         *)
(* Abstracted: the stamp of a file is a number that only grows, Absent     *)
(* when there is no file; a shard is the stamp it was made from; the       *)
(* include graph read from the shards is the constant Includes.  The       *)
(* prepare that a baseline follows is external.                            *)
(***************************************************************************)
EXTENDS Naturals, Sequences, FiniteSets, Functions, Folds

CONSTANTS Includes,   \* [indexed sources -> sources], the edges of the shards
          Mains,      \* the main files of the CDB
          Inventory,  \* the sources under the explicit source roots
          MaxWorkers, \* the workers asked for
          Helpers, MaxEdits, MaxFaults, MaxPrepares

VARIABLES disk, edits, faults, prepares,
          cdb,       \* the bytes of the compile database
          shards,    \* [indexed sources -> stamp indexed]
          written,   \* the shard directory's own stamps
          manifest,  \* srcs-manifest.json
          due,       \* a prepare succeeded, its baseline is still to be established
          missed,    \* sources edited between a prepare and its baseline
          helper     \* [Helpers -> one run of execute]
environment == <<disk, edits, faults, prepares>>
vars == <<environment, cdb, shards, written, manifest, due, missed, helper>>

Indexed == DOMAIN Includes
Sources == Indexed \cup Mains \cup Inventory \cup UNION {Includes[s] : s \in Indexed}
Absent == 0
None == [kind |-> "none"]
Idle == [stage |-> "idle"]
Done(reason) == [stage |-> "done", reason |-> reason]

Init == /\ disk = [s \in Sources |-> IF s \in Indexed THEN 1 ELSE Absent]
        /\ edits = 0 /\ faults = 0 /\ prepares = 0
        /\ cdb = 0 /\ written = 0 /\ shards = [s \in Indexed |-> 1]
        /\ manifest = None /\ due = TRUE /\ missed = {}
        /\ helper = [p \in Helpers |-> Idle]

-----------------------------------------------------------------------------
(* Pure parts.                                                              *)

Closed(files) == \A s \in files \cap Indexed : Includes[s] \subseteq files
(* closure: the least set of a main and all that its indexed files include. *)
Closure == [main \in Mains |-> {s \in Sources :
    \A files \in SUBSET Sources : main \in files /\ Closed(files) => s \in files}]
Covered(mains) == UNION {Closure[m] : m \in mains}

(* select_cover: every changed main, then the mains with the largest share  *)
(* of what is left.                                                         *)
Share(main, left) == Cardinality(Closure[main] \cap left)
Best(left, taken) == CHOOSE m \in Mains \ taken : \A n \in Mains \ taken :
    Share(m, left) * Cardinality(Closure[n]) >= Share(n, left) * Cardinality(Closure[m])
SelectCover(changed) ==
    LET cover[taken \in SUBSET Mains] ==
            LET left == changed \ Covered(taken)
            IN  IF left = {} THEN taken ELSE cover[taken \cup {Best(left, taken)}]
    IN  cover[changed \cap Mains]

(* split_lpt: the largest closure first, each to the least loaded worker.   *)
Smallest(mains) == CHOOSE m \in mains : \A n \in mains :
    Cardinality(Closure[m]) <= Cardinality(Closure[n])
Least(bins) == CHOOSE w \in DOMAIN bins : \A v \in DOMAIN bins :
    bins[w].load < bins[v].load \/ (bins[w].load = bins[v].load /\ w <= v)
Give(m, bins) == [bins EXCEPT ![Least(bins)] =
    [mains |-> Append(@.mains, m), load |-> @.load + Cardinality(Closure[m])]]
SplitLpt(selected, workers) ==
    LET bins == MapThenFoldSet(Give, [w \in 1..workers |-> [mains |-> <<>>, load |-> 0]],
                               LAMBDA m : m, Smallest, selected)
    IN  [w \in 1..workers |-> bins[w].mains]

(* generation_identity; the changed sources of a snapshot.                  *)
Generation == [cdb |-> cdb, shards |-> written]
Baseline(generation) == manifest # None /\ manifest.generation = generation
Changed(current) == {s \in Sources : manifest.sources[s] # current[s]}
Uncovered(changed, current) ==
    {s \in changed : s \notin Covered(Mains) \/ current[s] = Absent \/ manifest.sources[s] = Absent}

-----------------------------------------------------------------------------
(* The world around a run.                                                  *)
Edit ==
    /\ edits < MaxEdits /\ edits' = edits + 1
    /\ \E s \in Sources : \E stamp \in {edits + 2, Absent} \ {disk[s]} :
          /\ disk' = [disk EXCEPT ![s] = stamp]
          /\ missed' = IF due THEN missed \cup {s} ELSE missed
    /\ UNCHANGED <<faults, prepares, cdb, shards, written, manifest, due, helper>>

Index(mains) == [s \in Indexed |-> IF s \in Covered(mains) THEN disk[s] ELSE shards[s]]

(* A prepare rebuilds the CDB and indexes all of it; its baseline is due.   *)
Prepare ==
    /\ prepares < MaxPrepares /\ prepares' = prepares + 1
    /\ \A p \in Helpers : helper[p].stage \in {"idle", "done"}
    /\ cdb' = cdb + 1 /\ written' = written + 1
    /\ shards' = Restrict(disk, Indexed) /\ due' = TRUE /\ missed' = {}
    /\ UNCHANGED <<disk, edits, faults, manifest, helper>>

(* The editor's own clangd indexes a file it finds changed.                 *)
LiveIndex ==
    /\ \E s \in Indexed : shards' = [shards EXCEPT ![s] = disk[s]] /\ shards' # shards
    /\ written' = written + 1
    /\ UNCHANGED <<environment, cdb, manifest, due, missed, helper>>

Fault == faults < MaxFaults /\ faults' = faults + 1 /\ UNCHANGED <<disk, edits, prepares>>

-----------------------------------------------------------------------------
(* execute.  The lock file is held by an open handle: it goes with its      *)
(* process, and so do the workers of its job.                               *)
Running(p) == helper[p].stage \notin {"idle", "done"}
Locked == \E p \in Helpers : Running(p)

Begin(p) ==
    /\ ~Running(p)
    /\ \E baseline \in {b \in BOOLEAN : b => due} :
          helper' = [helper EXCEPT ![p] = IF Locked THEN Done("locked")
                       ELSE [stage |-> "snapshot", baseline |-> baseline, generation |-> Generation]]
    /\ UNCHANGED <<environment, cdb, shards, written, manifest, due, missed>>

Snapshot(p) ==
    /\ helper[p].stage = "snapshot"
    /\ helper' = [helper EXCEPT ![p] = [stage |-> "decide", current |-> disk,
                                        baseline |-> @.baseline, generation |-> @.generation]]
    /\ UNCHANGED <<environment, cdb, shards, written, manifest, due, missed>>

Save(sources, generation) == manifest' = [sources |-> sources, generation |-> generation]

(* The generation may not have moved under the snapshot; a baseline is      *)
(* saved, and otherwise only changes a translation unit covers are work.    *)
EstablishBaseline(p) ==
    /\ helper[p].stage = "decide" /\ helper[p].generation = Generation /\ helper[p].baseline
    /\ Save(helper[p].current, helper[p].generation)
    /\ due' = FALSE
    /\ helper' = [helper EXCEPT ![p] = Done("baseline")]
    /\ UNCHANGED <<environment, cdb, shards, written, missed>>

NeedsPrepare(h) ==
    \/ h.generation # Generation
    \/ ~h.baseline /\ ~(/\ Baseline(h.generation)
                        /\ Uncovered(Changed(h.current), h.current) = {})
Decide(p) ==
    /\ helper[p].stage = "decide"
    /\ LET h == helper[p] IN
       IF NeedsPrepare(h) THEN helper' = [helper EXCEPT ![p] = Done("needs-prepare")]
       ELSE /\ ~h.baseline
            /\ IF Changed(h.current) = {}
               THEN helper' = [helper EXCEPT ![p] = Done("none")]
               ELSE \E workers \in 0..MaxWorkers :  \* what the commit headroom allows
                    helper' = [helper EXCEPT ![p] =
                        IF workers = 0 THEN Done("headroom")
                        ELSE [stage |-> "work", failed |-> FALSE,
                              current |-> h.current, generation |-> h.generation,
                              bins |-> SplitLpt(SelectCover(Changed(h.current)), workers)]]
    /\ UNCHANGED <<environment, cdb, shards, written, manifest, due, missed>>

(* One translation unit of one worker; a worker may fail or be terminated   *)
(* by the commit guard, with what it wrote left in the shared directory.    *)
WorkerIndexes(p, w) ==
    /\ helper[p].stage = "work" /\ w \in DOMAIN helper[p].bins /\ helper[p].bins[w] # <<>>
    /\ \/ /\ shards' = Index({Head(helper[p].bins[w])}) /\ UNCHANGED environment
          /\ written' = IF shards' = shards THEN written ELSE written + 1
          /\ helper' = [helper EXCEPT ![p].bins[w] = Tail(@)]
       \/ /\ Fault /\ UNCHANGED <<shards, written>>
          /\ helper' = [helper EXCEPT ![p].bins[w] = <<>>, ![p].failed = TRUE]
    /\ UNCHANGED <<cdb, manifest, due, missed>>

(* All workers joined; then the sources once more, and the generation the   *)
(* workers' writes made is the one the baseline is bound to.                *)
\* Fault seed: the exit status of a worker is not looked at.
WorkersAnyway(h) == TRUE
WorkersSucceeded(h) == ~h.failed
Joined(p) ==
    /\ helper[p].stage = "work" /\ \A w \in DOMAIN helper[p].bins : helper[p].bins[w] = <<>>
    /\ helper' = [helper EXCEPT ![p] =
         IF ~WorkersSucceeded(@) THEN Done("worker-failed")
         ELSE IF disk # @.current THEN Done("needs-prepare") ELSE [@ EXCEPT !.stage = "save"]]
    /\ UNCHANGED <<environment, cdb, shards, written, manifest, due, missed>>

SaveReindexed(p) ==
    /\ helper[p].stage = "save"
    /\ IF helper[p].generation.cdb = cdb
       THEN Save(helper[p].current, Generation) /\ helper' = [helper EXCEPT ![p] = Done("reindexed")]
       ELSE UNCHANGED manifest /\ helper' = [helper EXCEPT ![p] = Done("needs-prepare")]
    /\ UNCHANGED <<environment, cdb, shards, written, due, missed>>

Crash(p) ==
    /\ Running(p) /\ Fault /\ helper' = [helper EXCEPT ![p] = Idle]
    /\ UNCHANGED <<cdb, shards, written, manifest, due, missed>>

Step(p) == \/ Begin(p) \/ Snapshot(p) \/ EstablishBaseline(p) \/ Decide(p) \/ Joined(p)
           \/ SaveReindexed(p) \/ Crash(p)
           \/ \E w \in 1..MaxWorkers : WorkerIndexes(p, w)
Next == Edit \/ Prepare \/ LiveIndex \/ \E p \in Helpers : Step(p)
Spec == Init /\ [][Next]_vars

-----------------------------------------------------------------------------
(* A baseline that a later run would trust hides no change: a source with   *)
(* the stamp the baseline has for it, in the generation it is bound to, has *)
(* a shard made from that very stamp.  A source edited after a prepare read *)
(* it and before the baseline did is beyond this code.                      *)
NoChangeMissed ==
    Baseline(Generation) => \A s \in Indexed \ missed :
        disk[s] # Absent /\ manifest.sources[s] = disk[s] => shards[s] = disk[s]
=============================================================================
