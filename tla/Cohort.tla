-------------------------------- MODULE Cohort --------------------------------
(***************************************************************************)
(* A cohort of two Tier 1 groups qualified by one clean clangd run, and    *)
(* the handoff of the shards that run left to private readers of the same  *)
(* generation directory (src/tools/cdb_verified_batch.py,                  *)
(* qualify_tier1_cohort and tier1_cohort_reader_scope).                    *)
(*                                                                         *)
(* Abstracted: a source is its version, which only grows, so a file never  *)
(* returns to bytes it had; paths, schemas, profiles and the JSON of the   *)
(* evidence are left out.  What a run can get wrong is one outcome.        *)
(***************************************************************************)
EXTENDS Naturals, FiniteSets, Functions

CONSTANTS Group,     \* [member sources -> group]
          Headers,   \* sources other than members that have shards of their own
          Uses,      \* [sources -> sets of sources], the Sources edges of shards
          Driver,    \* the compiler driver, a file like the others
          Readers, MaxEdits, MaxFaults

VARIABLES disk, edits, faults,
          lock,      \* writer.lock: "absent" before the generation, "free", or its holder
          producer,  \* [stage, inputs, driver, seal, left, committed]
          shards,    \* the *.idx files: [some sources -> version indexed]
          receipts,  \* groups with an accepted receipt in their store
          manifest,  \* cohort-cache.json
          result,    \* what qualify_tier1_cohort returned
          reader     \* [Readers -> stage and what it has read]
vars == <<disk, edits, faults, lock, producer, shards, receipts, manifest, result, reader>>

Members == DOMAIN Group
Groups == {Group[s] : s \in Members}
Sources == Members \cup Headers
None == [kind |-> "none"]
Idle == [stage |-> "idle"]

Init == /\ disk = [f \in Sources \cup {Driver} |-> 0] /\ edits = 0 /\ faults = 0
        /\ lock = "absent" /\ producer = Idle
        /\ shards = <<>> /\ receipts = {} /\ manifest = None /\ result = "none"
        /\ reader = [r \in Readers |-> Idle]

Edit == /\ edits < MaxEdits /\ edits' = edits + 1
        /\ \E f \in DOMAIN disk : disk' = [disk EXCEPT ![f] = @ + 1]
        /\ UNCHANGED <<faults, lock, producer, shards, receipts, manifest, result, reader>>
Fault == faults < MaxFaults /\ faults' = faults + 1

(* A process that dies keeps the lock: nothing takes it from a dead owner.  *)
Crash ==
    /\ Fault
    /\ \/ producer # Idle /\ producer.stage # "done"
          /\ producer' = [stage |-> "done"] /\ UNCHANGED reader
       \/ \E r \in Readers : /\ reader[r].stage \notin {"idle", "done"}
                             /\ reader' = [reader EXCEPT ![r] = [stage |-> "done"]]
                             /\ UNCHANGED producer
    /\ UNCHANGED <<disk, edits, lock, shards, receipts, manifest, result>>

-----------------------------------------------------------------------------
(* The producer.  Its caller may have sealed the inputs before the call;    *)
(* the generation is made new, and only then is its lock taken.             *)
MakeGeneration ==
    /\ producer = Idle /\ lock = "absent"
    /\ lock' = "free"
    /\ \E seal \in {None, [s \in Sources |-> disk[s]]} :
          producer' = [stage |-> "claim", seal |-> seal]
    /\ UNCHANGED <<disk, edits, faults, shards, receipts, manifest, result, reader>>

Claim ==
    /\ producer.stage = "claim"
    /\ IF lock = "free"
       THEN lock' = "producer" /\ producer' = [producer EXCEPT !.stage = "prepare"]
            /\ UNCHANGED result
       ELSE UNCHANGED lock /\ producer' = [stage |-> "done"] /\ result' = "busy"
    /\ UNCHANGED <<disk, edits, faults, shards, receipts, manifest, reader>>

Prepare ==
    /\ producer.stage = "prepare"
    /\ producer' = [stage |-> "run", left |-> Sources, driver |-> disk[Driver],
                    inputs |-> [s \in Members |-> disk[s]], seal |-> producer.seal]
    /\ UNCHANGED <<disk, edits, faults, lock, shards, receipts, manifest, result, reader>>

(* The run indexes the sources at its own pace; each becomes a shard, and   *)
(* it may end without the shards of some.                                   *)
IndexSource(s) ==
    /\ producer.stage = "run" /\ s \in producer.left
    /\ shards' = [t \in DOMAIN shards \cup {s} |-> IF t = s THEN disk[s] ELSE shards[t]]
    /\ producer' = [producer EXCEPT !.left = @ \ {s}]
    /\ UNCHANGED <<disk, edits, faults, lock, receipts, manifest, result, reader>>

(* The failure of any check before a qualification returns the entries as   *)
(* they came and gives the lock back.                                       *)
Reject == /\ result' = "rejected" /\ producer' = [stage |-> "done"] /\ lock' = "free"
Incomplete ==
    /\ producer.stage = "run" /\ Fault /\ Reject
    /\ UNCHANGED <<disk, edits, shards, receipts, manifest, reader>>

(* The main shards of every member, the members unchanged since they were   *)
(* read: then the evidence is written.                                      *)
MainsComplete == Members \subseteq DOMAIN shards
InputsHold(bound) == \A s \in DOMAIN bound : disk[s] = bound[s]
Postcheck ==
    /\ producer.stage = "run"
    /\ IF MainsComplete /\ InputsHold(producer.inputs)
       THEN /\ producer' = [stage |-> "commit", left |-> Groups, committed |-> {},
                            driver |-> producer.driver, seal |-> producer.seal]
            /\ UNCHANGED <<lock, result>>
       ELSE Reject
    /\ UNCHANGED <<disk, edits, faults, shards, receipts, manifest, reader>>

(* Receipts are written one after the other; one that cannot be written     *)
(* does not stop the next, and one written before it stays.                 *)
CommitReceipt(g) ==
    /\ producer.stage = "commit" /\ g \in producer.left
    /\ \A h \in producer.left : g <= h
    /\ \/ /\ receipts' = receipts \cup {g} /\ UNCHANGED faults
          /\ producer' = [producer EXCEPT !.left = @ \ {g}, !.committed = @ \cup {g}]
       \/ /\ Fault /\ producer' = [producer EXCEPT !.left = @ \ {g}] /\ UNCHANGED receipts
    /\ UNCHANGED <<disk, edits, lock, shards, manifest, result, reader>>

Qualify ==
    /\ producer.stage = "commit" /\ producer.left = {}
    /\ IF producer.committed = Groups
       THEN /\ result' = "qualified" /\ producer' = [producer EXCEPT !.stage = "handoff"]
            /\ UNCHANGED lock
       ELSE Reject
    /\ UNCHANGED <<disk, edits, faults, shards, receipts, manifest, reader>>

(* The loader reads the sources reachable from the mains: every one needs a *)
(* shard, and every shard has to be one of them.                            *)
Reachable[n \in Nat] ==
    IF n = 0 THEN Members
    ELSE Reachable[n - 1] \cup UNION {Uses[s] : s \in Reachable[n - 1]}
LoaderReaches(own) ==
    /\ Members \subseteq own
    /\ UNION {Uses[s] : s \in own} \subseteq own
    /\ own \subseteq Reachable[Cardinality(Sources)]

SealHolds(seal) == seal # None /\ InputsHold(Restrict(seal, DOMAIN shards))
Handoff ==
    /\ producer.stage = "handoff"
    /\ manifest' = IF /\ LoaderReaches(DOMAIN shards)
                      /\ disk[Driver] = producer.driver
                      /\ SealHolds(producer.seal)
                   THEN [driver |-> producer.driver, shards |-> shards, inputs |-> producer.seal]
                   ELSE None
    /\ producer' = [stage |-> "done"] /\ lock' = "free"
    /\ UNCHANGED <<disk, edits, faults, shards, receipts, result, reader>>

-----------------------------------------------------------------------------
(* A reader claims the generation and validates everything the manifest     *)
(* names, one read after the other; any mismatch gives the lock back.       *)
Enter(r) ==
    /\ reader[r] = Idle /\ lock # "absent"
    /\ IF lock = "free"
       THEN lock' = r /\ reader' = [reader EXCEPT ![r] = [stage |-> "receipts", saw |-> disk]]
       ELSE UNCHANGED lock /\ reader' = [reader EXCEPT ![r] = [stage |-> "done"]]
    /\ UNCHANGED <<disk, edits, faults, producer, shards, receipts, manifest, result>>

Advance(r, stage, next, holds) ==
    /\ reader[r].stage = stage
    /\ IF holds THEN reader' = [reader EXCEPT ![r].stage = next] /\ UNCHANGED lock
       ELSE reader' = [reader EXCEPT ![r] = [stage |-> "done"]] /\ lock' = "free"
    /\ UNCHANGED <<disk, edits, faults, producer, shards, receipts, manifest, result>>

CheckReceipts(r) == Advance(r, "receipts", "driver",
    manifest # None /\ receipts = Groups)
CheckDriver(r) == Advance(r, "driver", "inputs", disk[Driver] = manifest.driver)
\* Fault seed: the manifest is trusted for the inputs it names.
InputsUnread(r) == Advance(r, "inputs", "shards", TRUE)
CheckInputs(r) == Advance(r, "inputs", "shards", InputsHold(manifest.inputs))
CheckShards(r) == Advance(r, "shards", "open", shards = manifest.shards)

(* The clangd of an admitted reader indexes what it finds changed.          *)
ReaderWrites(r) ==
    /\ reader[r].stage = "open"
    /\ \E s \in Sources : /\ shards' = [shards EXCEPT ![s] = disk[s]] /\ shards' # shards
    /\ UNCHANGED <<disk, edits, faults, lock, producer, receipts, manifest, result, reader>>

Leave(r) ==
    /\ reader[r].stage = "open"
    /\ reader' = [reader EXCEPT ![r] = Idle] /\ lock' = "free"
    /\ UNCHANGED <<disk, edits, faults, producer, shards, receipts, manifest, result>>

Produce == \/ MakeGeneration \/ Claim \/ Prepare \/ Incomplete \/ Postcheck \/ Qualify \/ Handoff
           \/ \E s \in Sources : IndexSource(s)
           \/ \E g \in Groups : CommitReceipt(g)
Read == \E r \in Readers : \/ Enter(r) \/ CheckReceipts(r) \/ CheckDriver(r) \/ CheckInputs(r)
                           \/ CheckShards(r) \/ ReaderWrites(r) \/ Leave(r)
Next == Edit \/ Crash \/ Produce \/ Read
Spec == Init /\ [][Next]_vars

-----------------------------------------------------------------------------
(* A reader is admitted alone, to a cohort both of whose receipts stand,    *)
(* and to shards made from the bytes the caller sealed before the run: if   *)
(* no file moved while it was let in, every shard describes the disk.       *)
Admitted(r) == reader[r].stage # "open" /\ reader'[r].stage = "open"
HandoffIsSound == [][\A r \in Readers : Admitted(r) =>
    /\ lock' = r /\ \A q \in Readers \ {r} : reader'[q].stage \in {"idle", "done"}
    /\ result = "qualified" /\ receipts = Groups
    /\ DOMAIN shards = Sources
    /\ disk = reader[r].saw => \A s \in Sources : shards[s] = disk[s]]_vars
=============================================================================
