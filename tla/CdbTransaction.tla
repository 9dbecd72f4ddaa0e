---------------------------- MODULE CdbTransaction ----------------------------
(***************************************************************************)
(* The transaction that publishes a compile database:                      *)
(* lua/ue/cdb/transaction.lua in the editor, tools/cdb_transaction.py in   *)
(* its helper child, and the readers that pair the published files         *)
(* (lua/utils/ue_goto/semantic_sidecar_inputs.lua).                        *)
(*                                                                         *)
(* An editor takes the writer lease, lets tools produce new files in a     *)
(* working copy, and has the helper replace the live files that differ,    *)
(* one by one, evidence first and the active database last, with backups   *)
(* to restore when a replacement fails.  Readers do not take the lease:    *)
(* they trust a raw shard and an active database only when both have the   *)
(* hashes that the published result binds together.                        *)
(*                                                                         *)
(* The lease is that of module Lease: the record of a dead editor can be   *)
(* reclaimed, so its death frees the lease here.  Its helper may go on.    *)
(* Left out: the migration of a header cache after the commit, the refresh *)
(* of clients after it, and results without provenance (mtime comparison). *)
(***************************************************************************)
EXTENDS Naturals

CONSTANTS
  Proc,        \* editors
  Version,     \* what a file says
  Format,      \* how it is written down: equivalent JSON may differ in its bytes
  None,
  Products,    \* what runs of the tools may produce: pairs of a shard and a database
  MaxRuns,     \* bounds: transactions begun, requests of the reader, failing file
  MaxReads,    \* operations, failing removals of a backup, deaths
  MaxFaults,
  MaxUnlinks,
  MaxDeaths

ASSUME BoundsAreNatural == {MaxRuns, MaxReads, MaxFaults, MaxUnlinks, MaxDeaths} \subseteq Nat

\* The bytes of a shard or a database.
Content == [version : Version, format : Format]
\* The published result binds the bytes of a shard and of a database.
Binding == [shard : Content, active : Content]

ASSUME ProductsAreContents == Products \subseteq Content \X Content
ASSUME NoneIsNoContent == None \notin Content \cup Binding \cup Proc \cup Version

\* The live files: the shard stands for all evidence that is compared and replaced like it
\* (sidecars, manifests, partitions, recipes).
File == {"shard", "result", "active"}

VARIABLES
  live,     \* the live files
  lease,    \* who holds the writer lease, or None
  tx,       \* tx[p]: the transaction of editor p and of its helper
  reader,   \* a reader pairing shard and database
  orphaned, \* some helper went on without its editor
  made,     \* pairs of versions some run of the tools has produced together
  used      \* used[b]: how much of the bound b is spent

vars == <<live, lease, tx, reader, orphaned, made, used>>

Limit == [run |-> MaxRuns, read |-> MaxReads, fault |-> MaxFaults, unlink |-> MaxUnlinks,
          death |-> MaxDeaths]
Spend(b) == used[b] < Limit[b] /\ used' = [used EXCEPT ![b] = @ + 1]

Nothing == [f \in File |-> None]

Idle == [editor |-> "idle",       \* "staging", "committing" or "dead"
         helper |-> "none",       \* "plan", "backup", "publish", "rollback", "answered"
         stage |-> None,          \* the working copy
         plan |-> Nothing,        \* replacements: the new bytes of a file, or None
         backup |-> Nothing,      \* the backups on disk
         published |-> {},        \* files replaced and not restored
         failed |-> {},           \* files whose restoring failed (recovery)
         answer |-> "none",       \* "ok", "failed", "recovery", "killed"
         before |-> Nothing]      \* the live files when the helper looked at them

Running(p) == tx[p].helper \in {"plan", "backup", "publish", "rollback"}

Waits == [at |-> "proof", again |-> FALSE, proof |-> None, active |-> None, shard |-> None]

Init ==
  /\ \E m \in Products :
       /\ live = [shard |-> m[1], result |-> [shard |-> m[1], active |-> m[2]], active |-> m[2]]
       /\ made = {<<m[1].version, m[2].version>>}
  /\ lease = None
  /\ tx = [p \in Proc |-> Idle]
  /\ reader = Waits /\ orphaned = FALSE
  /\ used = [b \in DOMAIN Limit |-> 0]
--------------------------------------------------------------------------------
(* The editor and the tools. *)

\* run: nothing without the lease.
Begin(p) ==
  /\ tx[p].editor = "idle" /\ lease = None /\ Spend("run")
  /\ lease' = p
  /\ tx' = [tx EXCEPT ![p].editor = "staging"]
  /\ UNCHANGED <<live, reader, orphaned, made>>

\* prepare, generate, pipeline and partition write the working copy only; then the
\* helper is asked to commit.
Stage(p) ==
  /\ tx[p].editor = "staging"
  /\ \E m \in Products :
       /\ tx' = [tx EXCEPT ![p].editor = "committing", ![p].helper = "plan",
                           ![p].stage = [shard |-> m[1], active |-> m[2]]]
       /\ made' = made \cup {<<m[1].version, m[2].version>>}
  /\ UNCHANGED <<live, lease, reader, used, orphaned>>

\* A step of the chain fails: the working copy is removed and the lease released.
StageFails(p) ==
  /\ tx[p].editor = "staging"
  /\ lease' = None /\ tx' = [tx EXCEPT ![p] = Idle]
  /\ UNCHANGED <<live, reader, orphaned, made, used>>

\* finish: the helper has answered or was killed; cleanup, then the lease is released.
Complete(p) ==
  /\ tx[p].editor = "committing" /\ tx[p].helper = "answered"
  /\ lease' = None /\ tx' = [tx EXCEPT ![p] = Idle]
  /\ UNCHANGED <<live, reader, orphaned, made, used>>
--------------------------------------------------------------------------------
(* The helper: commit. *)

Equivalent(c, d) == c.version = d.version

\* What is live once the file is committed: equivalent live bytes are kept.
Kept(stage, name) == IF Equivalent(live[name], stage[name]) THEN live[name] ELSE stage[name]

\* Fault seed: the hash of the staged shard, whatever is kept.
ProvenanceOfStage(stage) == [shard |-> stage.shard, active |-> Kept(stage, "active")]

\* The result hashes the bytes that readers will see.
Provenance(stage) == [shard |-> Kept(stage, "shard"), active |-> Kept(stage, "active")]

\* The replacements: what differs from the live files.
Replacements(stage) ==
  [shard |-> IF Equivalent(live.shard, stage.shard) THEN None ELSE stage.shard,
   result |-> IF live.result = Provenance(stage) THEN None ELSE Provenance(stage),
   active |-> IF Equivalent(live.active, stage.active) THEN None ELSE stage.active]

Answer(p, t, answer) == tx' = [tx EXCEPT ![p] = [t EXCEPT !.helper = "answered", !.answer = answer]]

\* commit compares the working copy with the live files, as one step; a working copy
\* that does not validate is refused.
Plan(p) ==
  /\ tx[p].helper = "plan"
  /\ LET t == [tx[p] EXCEPT !.before = live] IN
     \/ Answer(p, t, "failed")
     \/ tx' = [tx EXCEPT ![p] = [t EXCEPT !.helper = "backup", !.plan = Replacements(t.stage)]]
  /\ UNCHANGED <<live, lease, reader, orphaned, made, used>>

\* Fault seed: the result after the database.
RankResultLast(f) == [shard |-> 1, result |-> 3, active |-> 2][f]
Rank(f) == [shard |-> 1, result |-> 2, active |-> 3][f]
First(S) == CHOOSE f \in S : \A g \in S : Rank(f) <= Rank(g)
Last(S) == CHOOSE f \in S : \A g \in S : Rank(g) <= Rank(f)

Planned(p) == {f \in File : tx[p].plan[f] # None}

\* New bytes and a backup are written beside each file before any file is replaced.
BackUp(p) ==
  /\ tx[p].helper = "backup"
  /\ LET todo == {f \in Planned(p) : tx[p].backup[f] = None} IN
     IF todo = {}
     THEN tx' = [tx EXCEPT ![p].helper = "publish"] /\ UNCHANGED used
     ELSE \/ tx' = [tx EXCEPT ![p].backup[First(todo)] = live[First(todo)]] /\ UNCHANGED used
          \/ tx' = [tx EXCEPT ![p].helper = "rollback"] /\ Spend("fault")
  /\ UNCHANGED <<live, lease, reader, orphaned, made>>

\* The next file is replaced; a failure turns to the rollback.
Publish(p) ==
  /\ tx[p].helper = "publish" /\ tx[p].published # Planned(p)
  /\ LET f == First(Planned(p) \ tx[p].published) IN
     \/ /\ live' = [live EXCEPT ![f] = tx[p].plan[f]]
        /\ tx' = [tx EXCEPT ![p].published = @ \cup {f}]
        /\ UNCHANGED used
     \/ /\ tx' = [tx EXCEPT ![p].helper = "rollback"] /\ Spend("fault")
        /\ UNCHANGED live
  /\ UNCHANGED <<lease, reader, orphaned, made>>

\* Fault seed: only the latest replacement is undone.
RollBackLatestOnly(p) ==
  /\ tx[p].helper = "rollback" /\ tx[p].published # tx[p].failed
  /\ LET f == Last(tx[p].published) IN
     \/ /\ live' = [live EXCEPT ![f] = tx[p].backup[f]]
        /\ tx' = [tx EXCEPT ![p].published = {}, ![p].backup[f] = None]
        /\ UNCHANGED used
     \/ /\ tx' = [tx EXCEPT ![p].published = {f}, ![p].failed = {f}] /\ Spend("fault")
        /\ UNCHANGED live
  /\ UNCHANGED <<lease, reader, orphaned, made>>

\* The latest replacement not looked at yet is undone by moving its backup back; a
\* failure is noted and the rollback goes on.
RollBack(p) ==
  /\ tx[p].helper = "rollback" /\ tx[p].published # tx[p].failed
  /\ LET f == Last(tx[p].published \ tx[p].failed) IN
     \/ /\ live' = [live EXCEPT ![f] = tx[p].backup[f]]
        /\ tx' = [tx EXCEPT ![p].published = @ \ {f}, ![p].backup[f] = None]
        /\ UNCHANGED used
     \/ /\ tx' = [tx EXCEPT ![p].failed = @ \cup {f}] /\ Spend("fault")
        /\ UNCHANGED live
  /\ UNCHANGED <<lease, reader, orphaned, made>>

Outcome(t) == IF t.helper = "publish" THEN "ok" ELSE IF t.failed = {} THEN "failed" ELSE "recovery"

\* The backups that are removed: not those a reported recovery needs.
Removable(t) == {f \in File \ t.failed : t.backup[f] # None}

\* The finally clause.  A backup that cannot be removed raises there: the rest stays, and
\* its error takes the place of whatever the commit had to say.
Clean(p) ==
  /\ \/ tx[p].helper = "publish" /\ tx[p].published = Planned(p)
     \/ tx[p].helper = "rollback" /\ tx[p].published = tx[p].failed
  /\ LET t == tx[p]
         Without(S) == [t EXCEPT !.backup = [f \in File |-> IF f \in S THEN None ELSE @[f]]]
     IN \/ Answer(p, Without(Removable(t)), Outcome(t)) /\ UNCHANGED used
        \/ /\ Spend("unlink")
           /\ \E f \in Removable(t) :
                Answer(p, Without({g \in Removable(t) : Rank(g) < Rank(f)}), "failed")
  /\ UNCHANGED <<live, lease, reader, orphaned, made>>
--------------------------------------------------------------------------------
(* Deaths. *)

\* The helper is killed (by the task list, or the system): its editor sees no answer.
HelperDies(p) ==
  /\ Running(p) /\ Spend("death")
  /\ Answer(p, tx[p], "killed")
  /\ UNCHANGED <<live, lease, reader, orphaned, made>>

\* The editor dies with its helper, or without.
EditorDies(p) ==
  /\ tx[p].editor \in {"staging", "committing"}
  /\ Spend("death")
  /\ \/ tx' = [tx EXCEPT ![p] = [Idle EXCEPT !.editor = "dead"]] /\ UNCHANGED orphaned
     \/ Running(p) /\ tx' = [tx EXCEPT ![p].editor = "dead"] /\ orphaned' = TRUE
  /\ lease' = None
  /\ UNCHANGED <<live, reader, made>>

\* A new editor in its place.
Restart(p) ==
  /\ tx[p].editor = "dead" /\ ~Running(p)
  /\ tx' = [tx EXCEPT ![p] = Idle]
  /\ UNCHANGED <<live, lease, reader, orphaned, made, used>>
--------------------------------------------------------------------------------
(* A reader: active_cdb_is_fresh, the loads of both files by their hashes, and
   active_cdb_is_fresh again. *)

ReadProof ==
  /\ reader.at = "proof"
  /\ IF reader.again THEN UNCHANGED used ELSE Spend("read")
  /\ reader' = [reader EXCEPT !.at = "active", !.proof = live.result]
  /\ UNCHANGED <<live, lease, tx, orphaned, made>>

\* A file must have the hash that the result binds, and in the second round the hash of
\* the first; a load by hash yields the bytes that were verified.
Verified(name) ==
  live[name] = reader.proof[name] /\ (reader.again => live[name] = reader[name])

ReadActive ==
  /\ reader.at = "active"
  /\ reader' = IF Verified("active") THEN [reader EXCEPT !.at = "shard", !.active = live.active]
                                     ELSE Waits
  /\ UNCHANGED <<live, lease, tx, orphaned, made, used>>

\* Fault seed: the shard is loaded as it is.
ReadShardUnverified ==
  /\ reader.at = "shard"
  /\ reader' = [reader EXCEPT !.at = "accepted", !.shard = live.shard]
  /\ UNCHANGED <<live, lease, tx, orphaned, made, used>>

ReadShard ==
  /\ reader.at = "shard"
  /\ reader' = IF ~Verified("shard") THEN Waits
               ELSE IF reader.again THEN [reader EXCEPT !.at = "accepted"]
               ELSE [reader EXCEPT !.at = "proof", !.again = TRUE, !.shard = live.shard]
  /\ UNCHANGED <<live, lease, tx, orphaned, made, used>>

ReaderDone ==
  /\ reader.at = "accepted" /\ reader' = Waits
  /\ UNCHANGED <<live, lease, tx, orphaned, made, used>>

Next ==
  \/ \E p \in Proc :
       \/ Begin(p) \/ Stage(p) \/ StageFails(p) \/ Complete(p)
       \/ Plan(p) \/ BackUp(p) \/ Publish(p) \/ RollBack(p) \/ Clean(p)
       \/ HelperDies(p) \/ EditorDies(p) \/ Restart(p)
  \/ ReadProof \/ ReadActive \/ ReadShard \/ ReaderDone

Spec == Init /\ [][Next]_vars
--------------------------------------------------------------------------------
Bytes == [shard : Content, result : Binding, active : Content]
\* Bytes of some of the files.
Some == [shard : Content \cup {None}, result : Binding \cup {None}, active : Content \cup {None}]

Tx == [editor : {"idle", "staging", "committing", "dead"},
       helper : {"none", "plan", "backup", "publish", "rollback", "answered"},
       stage : Binding \cup {None}, plan : Some, backup : Some, before : Some,
       published : SUBSET File, failed : SUBSET File,
       answer : {"none", "ok", "failed", "recovery", "killed"}]

TypeOK ==
  /\ live \in Bytes
  /\ lease \in Proc \cup {None}
  /\ tx \in [Proc -> Tx]
  /\ reader \in [at : {"proof", "active", "shard", "accepted"}, again : BOOLEAN,
                 proof : Binding \cup {None}, active : Content \cup {None}, shard : Content \cup {None}]
  /\ orphaned \in BOOLEAN /\ made \subseteq Version \X Version
  /\ used \in [DOMAIN Limit -> Nat]

Fresh(files) == files.result = [shard |-> files.shard, active |-> files.active]

\* "Readers observing a partial pair fail closed" (cdb_transaction.py:190-191): whatever
\* commits, rollbacks, deaths and orphaned helpers do between the reads, what a reader
\* accepts is a shard and a database that one run of the tools has made from each other.
ReaderPairs ==
  reader.at = "accepted" => <<reader.shard.version, reader.active.version>> \in made

\* The strengthening that makes this inductive, proved in CdbTransactionProofs.  A binding
\* pairs what one run has made from each other.
Paired(b) == <<b.shard.version, b.active.version>> \in made

\* Every binding on disk, and every working copy, is such a pair.
BindingsPair ==
  /\ Paired(live.result)
  /\ \A p \in Proc :
       \A b \in {tx[p].stage, tx[p].plan.result, tx[p].backup.result} : b # None => Paired(b)
\* A helper has a working copy, of an editor that commits it; nothing is replaced before its
\* old bytes are saved, and nothing still to be restored, or not restorable, has lost them.
BackedUp ==
  \A p \in Proc :
    /\ tx[p].editor \in {"idle", "staging"} => tx[p].helper = "none"
    /\ tx[p].failed \subseteq tx[p].published
    /\ tx[p].helper = "plan" => tx[p].stage # None
    /\ tx[p].helper \in {"none", "plan", "backup"} => tx[p].published = {}
    /\ tx[p].helper = "publish" => /\ tx[p].published \subseteq Planned(p)
                                   /\ \A f \in Planned(p) : tx[p].backup[f] # None
    /\ tx[p].helper = "rollback" => \A f \in tx[p].published : tx[p].backup[f] # None
\* A reader has verified what it has read.
ReaderVerified ==
  /\ reader.at \in {"active", "shard"} => reader.proof # None /\ Paired(reader.proof)
  /\ reader.at = "shard" => reader.active = reader.proof.active
  /\ reader.again \/ reader.at = "accepted" =>
       /\ reader.shard # None /\ reader.active # None
       /\ Paired([shard |-> reader.shard, active |-> reader.active])

IInv == TypeOK /\ BindingsPair /\ BackedUp /\ ReaderVerified

\* The helper's answer, in a world where only holders of the lease write.
Answered(p, answer) == tx[p].answer = answer /\ ~orphaned

\* A commit that reports success leaves live what the tools have made, in a state that
\* readers accept, even when it found the half-replaced files of a killed helper or the
\* remains of a failed rollback, and kept some of them.
CommitIsFresh ==
  \A p \in Proc : Answered(p, "ok") =>
    /\ Fresh(live)
    /\ Equivalent(live.active, tx[p].stage.active) /\ Equivalent(live.shard, tx[p].stage.shard)

\* A commit that reports a failure without a recovery has left the live files as they
\* were, whichever replacement failed, unless a backup could not be removed (finally).
FailureRestores ==
  \A p \in Proc : Answered(p, "failed") /\ used["unlink"] = 0 => live = tx[p].before

\* While files are being replaced or restored, after a failed restore and after a kill
\* in between, the old bytes of every file are still on disk, live or as a backup.
OldBytesKept ==
  \A p \in Proc :
    /\ ~orphaned
    /\ \/ tx[p].helper \in {"publish", "rollback"}
       \/ tx[p].answer = "recovery"
       \/ tx[p].answer = "killed" /\ tx[p].plan # Nothing
    => \A f \in File : tx[p].before[f] \in {live[f], tx[p].backup[f]}

\* A run that does not complete loses nothing: what it reports as failed is as it was, and
\* whatever it could not restore is still there.
NothingLost == FailureRestores /\ OldBytesKept

\* The active database is the commit point: it changes only as the last step, to a state
\* that readers accept, and no rollback changes it back.
CommitPoint ==
  [][live'.active # live.active /\ ~orphaned => Fresh(live')]_vars
--------------------------------------------------------------------------------
(* What the documents say and the code does not do. *)

\* "A failed publication restores the old artifacts; a failed restore keeps and reports the
\* backups" (docs/architecture/overview.md:296).
FailureIsHarmless == \A p \in Proc : Answered(p, "failed") => live = tx[p].before
================================================================================
