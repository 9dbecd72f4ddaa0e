----------------------------- MODULE ProofQueue -----------------------------
(***************************************************************************)
(* The background proof queue: one Lua session                             *)
(* (lua/ue/index/batch_background.lua) asks a Python job for a plan, runs  *)
(* at most Workers proof jobs, and between them runs collect jobs that     *)
(* select the proved batches, write the background database and have a     *)
(* worker publish it (src/tools/cdb_background_batch.py, Tier 1).  Files   *)
(* the compilers read and the compile database itself may change at any    *)
(* moment, jobs may fail, and the editor may be killed.                    *)
(*                                                                         *)
(* Abstracted: a group is an identity with the entries it would merge; the *)
(* verdict of its proof is the datum Admits at each version of the files   *)
(* (StrictProof and LiveTiers model how a verdict is reached); packing,    *)
(* which groups exist under an input, is the datum Known.                  *)
(***************************************************************************)
EXTENDS Naturals, FiniteSets, Sequences, SequencesExt

CONSTANTS Order,      \* the group identities, sorted
          Own,        \* [identities -> sets of entries]
          Kind,       \* "ordinary" chunk, "cross"-module chunk, "large", "strict"
          Versions,   \* of the files that receipts bind
          Admits,     \* [identities -> [Versions -> sets of entries to merge]]
          Known,      \* [inputs -> set of the identities that it packs]
          Root,       \* identities the store of prepare proved at version 1
          Workers,    \* max_workers
          MaxEdits, MaxFaults

VARIABLES bytes,      \* the version on disk
          input,      \* the compile database
          edits, faults,
          proofs,     \* [identities -> version its private store has receipts for]
          catalog,    \* identities a collect has registered
          plan,       \* the plan file
          results,    \* worker outputs: [group, input, new]
          queue,      \* the Lua session
          workers,    \* [identities -> stage of its worker job]
          collector,  \* the collect job
          selection,  \* what it has selected
          saved,      \* its copy of the database it replaces
          background, \* the background database: a set of batches
          response,   \* the publication worker's result file
          active      \* what the runtime was told is published

Ids == ToSet(Order)
LargeIds == {id \in Ids : Kind[id] = "large"}
None == [kind |-> "none"]

(* An input packs groups that the identities list, each of some entries.    *)
ASSUME GroupsAreListed ==
    /\ Order \in Seq(Ids) /\ 1 \in DOMAIN Known
    /\ \A i \in DOMAIN Known : Known[i] \subseteq Ids
    /\ \A id \in Ids : Own[id] # {}

environment == <<bytes, input, edits, faults>>
files == <<catalog, background, response>>
collecting == <<collector, selection, saved>>
vars == <<environment, proofs, plan, results, queue, workers, collecting, files, active>>

-----------------------------------------------------------------------------
(* Selections: sets of batches [own, of, at] that replace original entries. *)

Owns(sel) == {b.own : b \in sel}
Touching(sel, g) == {b \in sel : b.own \cap g # {}}
\* Fault seed: owners that reach beyond the group are replaced too.
WholeAnyway(sel, g) == TRUE
Whole(sel, g) == \A b \in Touching(sel, g) : b.own \subseteq g

(* Translation units that group g consists of now (_upgrade_owners).        *)
Units(sel, g) == Cardinality(Touching(sel, g)) + Cardinality(g \ UNION Owns(sel))

(* Only disjoint groups of two or more are admitted (_replacements).        *)
Valid(owners) == /\ \A o \in owners : Cardinality(o) > 1
                 /\ \A o, p \in owners : o \cap p # {} => o = p
Batches(id, owners) ==
    IF Valid(owners) THEN {[own |-> o, of |-> id, at |-> bytes] : o \in owners} ELSE {}

(* What the private store of a group answers from its cache.                *)
Cached(id) == proofs[id] = bytes
Local(id) == IF Cached(id) THEN Batches(id, Admits[id][bytes]) ELSE {}
Qualified(id) == \E b \in Local(id) : b.own = Own[id]

Replace(sel, id) ==
    (sel \ Touching(sel, Own[id])) \cup {b \in Local(id) : b.own = Own[id]}
\* Fault seed: entries that another batch owns are not looked at.
AddTouching(sel, id) == sel \cup Local(id)
AddDisjoint(sel, id) ==
    sel \cup {b \in Local(id) : Touching(sel, b.own) = {}}

(* A current chunk replaces whole owners and reduces translation units; a   *)
(* cross-module chunk replaces whole owners; otherwise only owners that     *)
(* touch nobody are added (_adopt_ordinary and its callers).                *)
Adopts(sel, id) ==
    /\ Qualified(id) /\ Whole(sel, Own[id])
    /\ \/ Kind[id] = "cross"
       \/ Kind[id] = "ordinary" /\ Units(sel, Own[id]) > 1
Adopt(sel, id) == IF Adopts(sel, id) THEN Replace(sel, id) ELSE AddDisjoint(sel, id)

(* A large group only ever replaces whole owners (_apply_upgrade).          *)
Upgrades(sel, id) == /\ Qualified(id) /\ Whole(sel, Own[id])
                     /\ Units(sel, Own[id]) > 1
Upgrade(sel, id) == IF Upgrades(sel, id) THEN Replace(sel, id) ELSE sel

(* A catalog lookup of a group whose owner is selected already is skipped.  *)
Lookup(sel, id) ==
    IF id \notin Known[queue.input] \/ Own[id] \in Owns(sel) THEN sel
    ELSE IF Kind[id] = "large" THEN Upgrade(sel, id)
    ELSE IF Kind[id] = "strict" THEN AddDisjoint(sel, id)
    ELSE Adopt(sel, id)

RootBatches == IF bytes # 1 THEN {} ELSE
    Batches("root", UNION {Admits[id][1] : id \in Root \cap Known[queue.input]})

(* The order of the lookups: chunks by identity, then the large groups; the *)
(* strict catalog comes last, over what Tier 1 has left.                    *)
Filter(seq, ids) ==
    LET upto[n \in 0..Len(seq)] ==
            IF n = 0 THEN <<>>
            ELSE IF seq[n] \in ids THEN Append(upto[n - 1], seq[n]) ELSE upto[n - 1]
    IN  upto[Len(seq)]
InOrder(ids) == Filter(Order, ids)
OfKind(ids, kinds) == InOrder({id \in ids : Kind[id] \in kinds})
Lookups == OfKind(catalog, {"ordinary", "cross"}) \o OfKind(catalog, {"large"})

(* reuse_completed as planning uses it, all lookups at once.                *)
Reused == FoldLeft(Lookup, RootBatches, Lookups)

-----------------------------------------------------------------------------
Finished(reason) == [phase |-> "finished", reason |-> reason]

Init == /\ bytes = 1 /\ input = 1 /\ edits = 0 /\ faults = 0
        /\ proofs = [id \in Ids |-> IF Kind[id] = "strict" THEN 1 ELSE 0]
        /\ catalog = {} /\ plan = None /\ results = {}
        /\ queue = Finished("none")
        /\ workers = [id \in Ids |-> "none"]
        /\ collector = None /\ selection = {} /\ saved = {} /\ background = {} /\ response = None /\ active = None

(* A member or header is saved; the compile database is prepared again.     *)
Edit ==
    /\ edits < MaxEdits /\ edits' = edits + 1
    /\ bytes' \in Versions \ {bytes}
    /\ UNCHANGED <<input, faults, proofs, plan, results, queue, workers, collecting, files, active>>
Prepare ==
    /\ edits < MaxEdits /\ edits' = edits + 1
    /\ input' \in (DOMAIN Known) \ {input}
    /\ UNCHANGED <<bytes, faults, proofs, plan, results, queue, workers, collecting, files, active>>

Fault == faults < MaxFaults /\ faults' = faults + 1 /\ UNCHANGED <<bytes, input, edits>>

(* The editor dies with its jobs; the lease of the queue dies with it.      *)
Quit ==
    /\ queue.phase # "finished" /\ Fault
    /\ queue' = Finished("killed")
    /\ workers' = [id \in Ids |-> "none"]
    /\ collector' = None /\ selection' = {} /\ saved' = {}
    /\ UNCHANGED <<proofs, plan, results, files, active>>

-----------------------------------------------------------------------------
(* Planning. *)

Start ==
    /\ queue.phase = "finished"
    /\ queue' = [phase |-> "planning", input |-> input]
    /\ UNCHANGED <<environment, proofs, plan, results, workers, collecting, files, active>>

Rejected(id) == Cached(id) /\ Local(id) = {}

(* A chunk is worth a proof when no receipt rejects it and nothing claims   *)
(* it, or when it would merge the whole owners it has now.                  *)
Wanted(sel, id) ==
    /\ Kind[id] \in {"ordinary", "cross"} /\ ~Rejected(id)
    /\ Own[id] \notin Owns(sel) /\ Whole(sel, Own[id]) /\ Units(sel, Own[id]) > 1

(* Old worker outputs for this input are hints for collect, never proofs.   *)
Recovered ==
    IF plan = None \/ plan.input # input THEN {}
    ELSE {id \in plan.groups \cap Known[input] :
             [group |-> id, input |-> input, new |-> TRUE] \in results}

(* Large groups joined from whole owners and unclaimed chunks; a recovered  *)
(* one is proposed again and bars the others from its entries.              *)
Large(sel, recovered) ==
    LET open == {id \in Known[input] \cap LargeIds : Own[id] \notin Owns(sel)}
        again == open \cap recovered
    IN  again \cup {id \in open : /\ \A p \in again : Own[p] \cap Own[id] = {}
                                  /\ Whole(sel, Own[id]) /\ Units(sel, Own[id]) > 1
                                  /\ ~Rejected(id)}

Parent(child, groups) == {p \in groups : Kind[p] = "large" /\ Own[child] \subseteq Own[p]
                                         /\ child # p}

(* The large groups of a schedule do not overlap (_validate_schedule).      *)
Apart(groups) == \A p, q \in groups : Own[p] \cap Own[q] # {} => p = q

(* make_plan, and the session's queue of its groups: parents first, the     *)
(* fallbacks of a parent deferred, recovered groups left to collect.        *)
Plan ==
    /\ queue.phase = "planning" /\ input = queue.input
    /\ LET sel == Reused
           large == Large(sel, Recovered)
           hinted == {id \in Recovered : Kind[id] # "large" \/ id \in large}
           groups == {id \in Known[input] : Wanted(sel, id)} \cup hinted \cup large
           child(id) == Parent(id, large) # {}
           state(id) == IF id \in hinted
                        THEN IF id \in large THEN "awaiting"
                             ELSE IF large # {} THEN "recovered" ELSE "ready"
                        ELSE IF child(id) THEN "deferred" ELSE "ready"
           ready == {id \in groups \ large : ~child(id)}
       IN  /\ Apart(large)
           /\ plan' = [kind |-> "plan", input |-> input, groups |-> groups]
           /\ queue' = [phase |-> "proving", input |-> input,
                   linked |-> large # {},
                   state |-> [id \in groups |-> state(id)],
                   ready |-> InOrder(large) \o InOrder(ready),
                   recovered |-> hinted, completed |-> InOrder(hinted),
                   published |-> 0, collect |-> hinted \cap large # {},
                   tried |-> {}]
    /\ UNCHANGED <<environment, proofs, results, workers, collecting, files, active>>

PlanFails ==
    /\ queue.phase = "planning"
    /\ \/ ~(input = queue.input /\ Apart(Large(Reused, Recovered))) /\ UNCHANGED environment
       \/ Fault
    /\ queue' = Finished("invalid-proof-plan")
    /\ UNCHANGED <<proofs, plan, results, workers, collecting, files, active>>

-----------------------------------------------------------------------------
(* The session's pump. *)

Current == input = queue.input
Running == {id \in Ids : workers[id] # "none"}
Pending(q) == {i \in DOMAIN q.ready : q.state[q.ready[i]] = "ready"}
MayPublish == queue.published < Len(queue.completed)

(* The next ready group starts its worker, unless its recovered output      *)
(* already waits for collect.                                               *)
Take ==
    /\ queue.phase = "proving" /\ Current /\ ~queue.collect /\ collector = None
    /\ Cardinality(Running) < Workers /\ Pending(queue) # {}
    /\ LET i == CHOOSE i \in Pending(queue) : \A j \in Pending(queue) : i <= j
           id == queue.ready[i]
           rest == SubSeq(queue.ready, i + 1, Len(queue.ready))
       IN  IF id \in queue.recovered
           THEN queue' = [queue EXCEPT !.ready = rest] /\ UNCHANGED workers
           ELSE /\ queue' = [queue EXCEPT !.ready = rest, !.state[id] = "running",
                                          !.tried = @ \cup {id}]
                /\ workers' = [workers EXCEPT ![id] = "loaded"]
    /\ UNCHANGED <<environment, proofs, plan, results, collecting, files, active>>

(* Workers have drained and the queue is empty, a verdict waits, or the     *)
(* publication interval has passed.                                         *)
Collect ==
    /\ queue.phase = "proving" /\ Current /\ collector = None
    /\ Running = {} /\ MayPublish
    /\ collector' = [kind |-> "collect", stage |-> "lookups", todo |-> Lookups,
                     done |-> queue.completed, validated |-> {}, catalog |-> catalog]
    /\ selection' = RootBatches
    /\ UNCHANGED <<environment, proofs, plan, results, queue, workers, saved, files, active>>

Complete ==
    /\ queue.phase = "proving" /\ Running = {} /\ collector = None
    /\ \/ /\ Current /\ Pending(queue) = {} /\ ~MayPublish
          /\ queue' = [phase |-> "finished", reason |-> "queue-complete", state |-> queue.state,
                       tried |-> queue.tried, completed |-> queue.completed]
       \/ ~Current /\ queue' = Finished("proof-input-changed")
    /\ UNCHANGED <<environment, proofs, plan, results, workers, collecting, files, active>>

(* A parent's fallbacks become ordinary work.                               *)
Children(q, p) == {id \in DOMAIN q.state : p \in Parent(id, DOMAIN q.state)}
\* Fault seed: the fallbacks of a lost parent stay deferred.
ReleaseNothing(q, parents) == q
Release(q, parents) ==
    LET freed == {id \in UNION {Children(q, p) : p \in parents} :
                     q.state[id] \in {"deferred", "suppressed"}}
    IN  [q EXCEPT !.state = [id \in DOMAIN @ |-> IF id \in freed THEN "ready" ELSE @[id]],
                  !.ready = @ \o InOrder(freed)]

-----------------------------------------------------------------------------
(* A worker proves one group into its private store. *)

WorkerProve(id) ==
    /\ workers[id] = "loaded" /\ input = plan.input
    /\ proofs' = [proofs EXCEPT ![id] = bytes]
    /\ workers' = [workers EXCEPT ![id] =
         IF Admits[id][bytes] = {} THEN "rejected"
         ELSE IF Cached(id) THEN "cached" ELSE "accepted"]
    /\ UNCHANGED <<environment, plan, results, queue, collecting, files, active>>

(* The database is read once more; the output counts the new batches.  The  *)
(* session ignores the callbacks of jobs that outlive their input.          *)
WorkerReturn(id) ==
    /\ workers[id] \in {"rejected", "cached", "accepted"} /\ input = plan.input
    /\ results' = {r \in results : r.group # id} \cup
         {[group |-> id, input |-> input, new |-> workers[id] = "accepted"]}
    /\ LET q == [queue EXCEPT !.completed = Append(@, id)] IN
       queue' = IF Kind[id] # "large" THEN [q EXCEPT !.state[id] = "completed"]
                ELSE IF workers[id] # "rejected"
                     THEN [q EXCEPT !.state[id] = "awaiting", !.collect = TRUE]
                     ELSE Release([q EXCEPT !.state[id] = "released"], {id})
    /\ workers' = [workers EXCEPT ![id] = "none"]
    /\ UNCHANGED <<environment, proofs, plan, collecting, files, active>>

WorkerFail(id) ==
    /\ workers[id] # "none"
    /\ \/ input # plan.input /\ UNCHANGED environment
       \/ Fault
    /\ results' = {r \in results : r.group # id}
    /\ queue' = IF Kind[id] = "large" THEN Release([queue EXCEPT !.state[id] = "released"], {id})
                ELSE [queue EXCEPT !.state[id] = "completed"]
    /\ workers' = [workers EXCEPT ![id] = "none"]
    /\ UNCHANGED <<proofs, plan, collecting, files, active>>

-----------------------------------------------------------------------------
(* A collect job revalidates every receipt it selects.                      *)

Session == <<proofs, plan, results, workers>>

LookUp ==
    /\ collector # None /\ collector.stage \in {"lookups", "overlay"}
    /\ collector.todo # <<>>
    /\ selection' = Lookup(selection, Head(collector.todo))
    /\ collector' = [collector EXCEPT !.todo = Tail(@)]
    /\ UNCHANGED <<environment, Session, queue, saved, files, active>>

LookedUp ==
    /\ collector # None /\ collector.stage = "lookups" /\ collector.todo = <<>>
    /\ collector' = [collector EXCEPT !.stage = "completed", !.todo =
            Filter(collector.done, Ids \ LargeIds) \o Filter(collector.done, LargeIds)]
    /\ UNCHANGED <<environment, Session, queue, selection, saved, files, active>>

(* The completed groups: chunks in their order, then the large ones.  A     *)
(* group enters the catalog with what it contributes, or with its verdict;  *)
(* it counts as valid with any of its batches where nobody owned an entry   *)
(* of it, and else when all its entries have gone to its batches.           *)
CollectGroup ==
    /\ collector # None /\ collector.stage = "completed" /\ collector.todo # <<>>
    /\ LET id == Head(collector.todo)
           sel == selection
           chosen == IF Kind[id] = "large" THEN Upgrade(sel, id) ELSE Adopt(sel, id)
           matches == Local(id) \cap chosen
           untouched == Kind[id] # "large" /\ Touching(sel, Own[id]) = {}
           valid == IF untouched THEN matches # {} ELSE UNION Owns(matches) = Own[id]
           registers == IF Kind[id] = "large" THEN matches # {} \/ Rejected(id)
                        ELSE \/ matches # {}
                             \/ untouched /\ Cached(id)
       IN  /\ selection' = chosen
           /\ collector' = [collector EXCEPT !.todo = Tail(@),
               !.validated = @ \cup (IF valid THEN {id} ELSE {}),
               !.catalog = @ \cup (IF registers THEN {id} ELSE {})]
    /\ UNCHANGED <<environment, Session, queue, saved, files, active>>

(* Where large groups took part, only groups that still own their entries   *)
(* are reported; then the strict catalog fills what is left.                *)
Overlay ==
    /\ collector # None /\ collector.stage = "completed" /\ collector.todo = <<>>
    /\ collector' = [collector EXCEPT !.stage = "overlay", !.todo = OfKind(Ids, {"strict"}),
            !.validated = IF \E i \in DOMAIN collector.done : Kind[collector.done[i]] = "large"
                          THEN {id \in @ : Own[id] \in Owns(selection)} ELSE @]
    /\ UNCHANGED <<environment, Session, queue, selection, saved, files, active>>

CheckInput ==
    /\ collector # None /\ collector.stage = "overlay" /\ collector.todo = <<>>
    /\ input = plan.input
    /\ collector' = [collector EXCEPT !.stage = "background"] /\ saved' = background
    /\ UNCHANGED <<environment, Session, queue, selection, files, active>>

(* The outputs are replaced one after the other; an error puts back what    *)
(* was replaced.                                                            *)
WriteBackground ==
    /\ collector # None /\ collector.stage = "background"
    /\ background' = selection /\ collector' = [collector EXCEPT !.stage = "catalog"]
    /\ UNCHANGED <<environment, Session, queue, selection, saved, catalog, response, active>>
WriteCatalog ==
    /\ collector # None /\ collector.stage = "catalog"
    /\ catalog' = collector.catalog /\ collector' = [collector EXCEPT !.stage = "unlink"]
    /\ UNCHANGED <<environment, Session, queue, selection, saved, background, response, active>>

\* Fault seed: the response of an earlier worker is left in place.
UnlinkNothing ==
    /\ collector # None /\ collector.stage = "unlink"
    /\ collector' = [collector EXCEPT !.stage = "publish"]
    /\ UNCHANGED <<environment, Session, queue, selection, saved, files, active>>

(* An old response of the publication worker is removed before it runs.     *)
Unlink ==
    /\ collector # None /\ collector.stage = "unlink"
    /\ response' = None /\ collector' = [collector EXCEPT !.stage = "publish"]
    /\ UNCHANGED <<environment, Session, queue, selection, saved, catalog, background, active>>
PublishWorker ==
    /\ collector # None /\ collector.stage = "publish"
    /\ \/ /\ response' = [kind |-> "response", batches |-> background]
          /\ UNCHANGED environment
       \/ Fault /\ UNCHANGED response  \* it exits 0 and has written nothing
    /\ collector' = [collector EXCEPT !.stage = "return"]
    /\ UNCHANGED <<Session, queue, selection, saved, catalog, background, active>>

(* The session learns which of its groups own their entries: a parent is    *)
(* admitted and suppresses its fallbacks, or releases them.                 *)
Reconcile(q, validated) ==
    LET parents == {id \in DOMAIN q.state : Kind[id] = "large"}
        stale == {id \in q.recovered \ parents : id \notin validated}
        again == {id \in stale : Parent(id, parents) = {}}
        admitted == parents \cap validated
        lost == {id \in parents \ validated : q.state[id] \in {"awaiting", "admitted"}}
        after == [id \in DOMAIN q.state |->
            IF id \in admitted THEN "admitted"
            ELSE IF id \in lost THEN "released"
            ELSE IF id \in parents THEN q.state[id]
            ELSE LET s == IF id \in stale THEN IF id \in again THEN "ready" ELSE "deferred"
                          ELSE IF id \in validated THEN "completed" ELSE q.state[id]
                 IN  IF Parent(id, admitted) # {} /\ s \in {"deferred", "ready"}
                     THEN "suppressed" ELSE s]
    IN  IF ~q.linked THEN q
        ELSE Release([q EXCEPT !.state = after, !.ready = @ \o InOrder(again),
                               !.collect = FALSE], lost)

Deliver ==
    /\ collector # None /\ collector.stage = "return"
    /\ response # None /\ input = plan.input
    /\ active' = [kind |-> "active", input |-> queue.input, batches |-> response.batches]
    /\ LET q == Reconcile(queue, collector.validated) IN
       queue' = [q EXCEPT !.published = Len(collector.done),
                          !.recovered = @ \cap collector.validated]
    /\ collector' = None /\ selection' = {} /\ saved' = {}
    /\ UNCHANGED <<environment, Session, files>>

(* A collect fails: its lock is taken, the input moved, a write fails, the  *)
(* publication worker fails or left no response.  It is tried again.        *)
CollectFail ==
    /\ collector # None
    /\ \/ /\ \/ collector.stage \in {"lookups", "overlay"} /\ input # plan.input
             \/ collector.stage = "return" /\ (response = None \/ input # plan.input)
          /\ UNCHANGED environment
       \/ Fault
    /\ background' = IF collector.stage = "catalog" THEN saved ELSE background
    /\ queue' = [queue EXCEPT !.collect = @ \/ queue.linked]
    /\ collector' = None /\ selection' = {} /\ saved' = {}
    /\ UNCHANGED <<Session, catalog, response, active>>

-----------------------------------------------------------------------------
Work(id) == WorkerProve(id) \/ WorkerReturn(id)
CollectStep == LookUp \/ LookedUp \/ CollectGroup \/ Overlay \/ CheckInput \/ WriteBackground
               \/ WriteCatalog \/ Unlink \/ PublishWorker \/ Deliver
Next == \/ Edit \/ Prepare \/ Quit \/ Start \/ Plan \/ PlanFails
        \/ Take \/ Collect \/ Complete \/ CollectStep \/ CollectFail
        \/ \E id \in Ids : Work(id) \/ WorkerFail(id)

Spec == Init /\ [][Next]_vars

-----------------------------------------------------------------------------
(* The batches of a database replace disjoint sets of entries, whatever     *)
(* mixture of the store of prepare, catalog, children, whole chunks, large  *)
(* groups and strict owners they come from: every entry stays covered once. *)
Disjoint(sel) == \A b, c \in sel : b.own \cap c.own # {} => b = c
OwnersDisjoint == Disjoint(selection) /\ Disjoint(background)

(* A collect never splits or drops an owner it has selected: it only gives  *)
(* way to one that owns all its entries.                                    *)
OwnersNeverSplit ==
    [][collector # None /\ collector' # None =>
        \A b \in selection : \E c \in selection' : b.own \subseteq c.own]_vars

(* What the session hands to the runtime was published by this collect's    *)
(* own worker, for the compile database as it is, and every batch is one    *)
(* its group's gate admits: an old response never stands in.                *)
DeliveredIsCurrent ==
    [][active' # active =>
        /\ active'.input = input
        /\ active'.batches = background
        /\ \A b \in background : b.of # "root" => b.own \in Admits[b.of][b.at]]_vars

(* A fallback is not proved while its large parent is still to be decided   *)
(* or is in use, across failed collects, recovery and releases; and it is   *)
(* not forgotten: a session that reports a complete queue has tried or      *)
(* collected every planned group, or an admitted parent covers it.          *)
FallbacksComeInTurn ==
    /\ queue.phase = "proving" => \A p \in DOMAIN queue.state :
           (Kind[p] = "large" /\ queue.state[p] \in {"ready", "running", "awaiting", "admitted"})
           => \A id \in Children(queue, p) : queue.state[id] # "ready"
    /\ (queue.phase = "finished" /\ queue.reason = "queue-complete") =>
           \A id \in DOMAIN queue.state :
               \/ id \in queue.tried \cup ToSet(queue.completed)
               \/ \E p \in Parent(id, DOMAIN queue.state) : queue.state[p] = "admitted"
=============================================================================
