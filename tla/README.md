# Formal models of the UE background machinery

This directory holds TLA+ models of the parts of this Neovim configuration that are
concurrent programs in their own right: the cross-process writer lease, host admission,
the scheduler of the index builds, the transaction that publishes a compile database, and
the Python programs that make, prove, publish and repair what clangd is served from.
`PROJECT.json` lists the components, the runs, the map from each definition to the source
lines it stands for, the hazards, the findings and the theorems.

To check: `tlc -config X.cfg M` for the runs in `PROJECT.json`, `tlapm M.tla` for the
proof modules.

## 1. Inventory of the system

The configuration runs Unreal Engine projects inside Neovim. One editor is one thread (Lua
on the libuv loop); what is concurrent is

* callbacks of one editor: timers (`vim.uv` timers, `vim.defer_fn`), ends of children
  (`vim.system`), `vim.schedule` queues, user commands, autocommands;
* child processes: the Python tools, clangd, cindex, headless Neovim workers;
* several editors that share the files of one project under `.cache/nvim-ue`.

| Component (code) | State | Operations | Interacts through | Hard behaviour | Correct when |
|---|---|---|---|---|---|
| Writer lease (`ue/file_lock.lua`) | a directory with one record per owner | acquire, release, owner | the file system, PIDs | two reclaimers, late unlink, death at any call, PID reuse | one writer; its record stays; stale records go |
| Host admission (`utils/host_admission.lua`) | foreground tokens, controls, timers | admit, run_when_allowed, wake, cancel, foreground_begin/done | timers, the editor's queue, `cpu_load` | a timer racing a wake and a cancel | one attempt each; user work first; no starvation |
| Index scheduler (`ue/index/_schedule.lua`, `_admission.lua`) | queue, deadline timers, protected guards, deferrals | schedule, consume, admit, retry, refresh, delivery | admission, lease, build job | a deadline racing the drain, postponement, contention | no phase is stranded or loses its promise |
| Index build job (`ue/index/_build.lua`) | `RT.job`, the writer lease, a child | build_phase_async, finalize, try_start_queued_build | scheduler, lease, publication | early failures, errors in callbacks, two ways to start | a build runs only under the lease; gate on both ways |
| CDB transaction (`ue/cdb/transaction.lua`, `tools/cdb_transaction.py`) | staging directory, live files, backups | run, prepare, commit, cleanup | lease, children, readers | crash between two replaces, failing rollback, orphaned child | all or nothing; readers never see a mixed pair |
| CDB pipeline (`ue/cdb/pipeline.lua`) | the slot `running`, the step chain | run, cancel, retry | admission, lease, children | cancel racing the end of a step | one pipeline; any failure stops it |
| Builds of the background database (`build_clangd_index.py`, `build_full_cdb.py`, `build_hot_super_unity_cdb.py`) | a subset of the active database, three outputs | cut, expand, pack, replace the outputs, put back | build job, readers | the active database moves on; a kill or a failure between two replacements | what is taken is one build's and current; complete bytes are never lost |
| Packing and wrapping (`build_hot_super_unity_cdb.py`, `build_super_unity_cdb.py`, `cdb_tier_merge.py`) | entries, wrappers, an overlay | wrap, group, merge | the two above | wrappers are read back from disk; unreadable sizes | every source compiled once; a plan planned again is itself |
| Unity receipts (`cdb_unity_receipt.py`) | origin, pending, receipt | export, begin, seal | pipeline steps | an interrupted pipeline, a foreign export | a receipt vouches for the compiler's commands only |
| Publication (`ue/index/_publication_async.lua`, `_publish.lua`, worker) | generation pointer, worker requests | publish, activate, invalidate | build job, clangd | late worker answer, a source revision that moved on | what is ready is published, whole and of the current base; coverage does not shrink |
| Phase barrier (`ue/index/_phase_barrier.lua`) | evidence of phases per generation | commit a phase, check | publication | phases that finish for different generations | stages reach clangd in order; one counts as indexed when its own reader has worked it off |
| Source refresh (`ue/index/_source.lua`, `_clangd.lua`, `_delivery.lua`) | revision ledger, observation marks, restart tokens | saved, unknown, delivered, acknowledge | clangd attach events, scheduler | a change during the restart that delivers the previous one | every revision is delivered to an attached client |
| Recovery and switching (`_recover.lua`, `prepare_observer.lua`, `switch_*.lua`, `clangd_switch_reindex.py`) | pending recoveries, baseline of stamps | observe, retry, reindex | scheduler, state files, workers | editor restart between phases; edits while workers run | recovery resumes once; no change is missed |
| Proof queue (`ue/index/batch_background.lua`, `cdb_background_batch.py`) | queue, selection, catalog, response files | plan, prove, collect, publish, recover | workers, lease | overlapping owners, failing collects, stale answers | each entry is owned once; an answer is this collect's |
| Qualification (`cdb_verified_batch.py`, `clangd_batch_admission.py`) | receipts, caches, cursors | index originals, freeze, compare, cache | private clangd runs | edits between read and freeze, bounded budgets | a verdict binds what was read; everything is decided |
| Driver queries (`clangd_query_profile.py`) | profile, receipt | observe, probe, revalidate | clangd, compilers | a driver replaced between its uses | one proof is of one driver |
| Private clangd runs, cohort (`clangd_batch_runner.py`, `cdb_verified_batch.py`) | the child, two reader threads, shards, a seal | run, accept, seal, claim, read | clangd, several editors | output read late, two readers, edits after the seal | an accepted run compiled every main; one reader, whole and unchanged |
| Activation (`batch_runtime.lua`, `batch_guard.lua`, `clangd_batch_activation.py`) | watches, certificate, restart | describe, arm, validate, activate, revoke | clangd, publication | a change between validation and watch, late answers | no answer from a frozen database that is stale |
| Header repair (`workarounds/clangd/*`) | overlays, manifest of moves | overlay, migrate, restore | clangd's shards | clangd writes between hash and rename; kill between renames | ends as what it says |
| Project and prepare caches (`project_state.lua`, `cdb/prepare_*.lua`) | JSON files, fingerprints | complete, continue, invalidate | CDB transaction, scheduler | inputs that change while they are read | reuse only on equal inputs |
| Stores (`utils/*_store.lua`) | JSON files shared by editors | load, merge, save | the file system | lost update | no entry is lost |
| Edits (`edit_recovery`, `workspace_edit`, `file_mutations*`, `refactor`) | buffers, journal | apply, roll back, recover | LSP, files | one edit of several fails | all or none, or a journal |
| Semantic navigation (`utils/ue_goto/*`) | sidecar process, pending requests, caches | request, cancel, prewarm | sidecar, CDB files | late or lost answers, files replaced while read | an answer belongs to its request and one CDB pair |
| Debug adapter (`ue/dap/*`) | operation owner, session | attach, cancel, stop | adb, devices, lldb | late answers of a cancelled operation | one owner |
| iOS gate (`ios_dap_protocol_probe.py`) | requests, queue of events, report | attach, preflights | lldb-dap, lldb, device | time-outs, PID reuse | a passing report is earned |
| Watchers, dirty files, csearch, clangd resources, tasks, workflows, targets, facade, UI | see `PROJECT.json` | | | | |

## 2. Plan

In order of importance, each with its model-checking module and runs; `*` is done.

1. `*` **Lease**, **FileLock**: what every other writer relies on. `FileLock` refines `Lease`.
2. `*` **AdmissionPolicy**, **HostAdmission**: the decision and the waiting.
3. `*` **IndexScheduler**: composes the policy, the lease (as an abstract owner) and the job.
4. `*` **CdbTransaction**: staging, commit, rollback, and the readers that take no lease.
   Left for later: the migration and the refresh of readers after the commit.
5. `*` What a batch is: **GraphRules** (when a candidate's index graph may replace its
   originals'), **StrictProof**, **LiveTiers**, **ResidualScan** (how verdicts are reached,
   cached and resumed), **QueryProfile** (the driver they are about), **BatchRunner** and
   **Cohort** (one run for many, handed to readers), **ProofQueue** (the session around
   them), **Activation** (when clangd may be served from the result).
6. `*` What databases are made of: **UnityChunks**, **SuperUnity**, **UnityReceipt**,
   **BackgroundBuild**, and **HeaderRepair**, **SwitchReindex** for the shards beside them.
7. `*` **DapProbe**: the gate in front of iOS debugging.
8. `*` **IndexPublication**: publication by the editor or by its worker, the barrier between
   the stages, the reload or restart of clangd. Left for later: manifests, shards that are
   invalidated, cancellation at exit, an editor that dies.
9. **SourceRefresh**: revision ledger against clangd restarts and attach acknowledgements.
   Abstract specification: *every observed revision is delivered after it was observed*.
10. **BatchRecovery**: the journal of batch generations across crashes; the ordered recipes
   and manual upgrades.
11. **CdbPipeline** with `ue.lua`'s exclusion of prepare and build; **StoreMerge**;
   **EditRecovery**; **SemanticClient**; **DapOwner**.
12. Proofs: `*` every safety and action property of the runs that pass.

The parts of 5 to 8 do not share state in the code beyond files, so several are checked in
one run, each as an `INSTANCE` of its own: `Proving` composes those that decide what is proved
and published (`ProofQueue`, which it extends, `StrictProof`, `LiveTiers`, `ResidualScan`,
`GraphRules`, `IndexPublication`, `DapProbe`), `Serving` those that make and serve it.
`part` names the one that moves in a behaviour. `MCProving` and `MCServing` give the constants
their values. Properties, assumptions on constants and theorems are those of `Proving` and
`Serving`, so what is proved is what the runs check.

Modules that are proved about hold no recursive operator, name their bounds as assumed
constants, and keep invariants as conjunctions of named parts; proofs live in `*Proofs`.

## 3. Modules

### Lease, FileLock

`FileLock` has one action per file-system call of `file_lock.lua` and one program counter
per process: Lua runs a call to its end, but other processes interleave at every step.
`present`, `files` and `staged` are the disk, `token`, `attempt` and `observed` the locals
of `acquire` and `release`, `handles` what a caller may still pass to `release` (also a
second time), `inUse` the leases that somebody works under. Any call may fail (`Fault`),
a process may die at any step and its PID be used again. `ReplacesEmpty` is the one
platform difference: POSIX `rename` replaces an empty directory, Windows does not.
A record's name holds the token, so that a reclaimer deletes only what it has read; this
is what makes the invariants hold and what the fault seeds take away.
`Lease` is the promise: a record, at most one holder, a grant only when neither is there.

Abstracted: tokens (serials that nothing refers to any more are used again), the age of a
directory whose record cannot be read (either answer), the `owner.json` of earlier
versions that still parses (only unparseable records, `Junk`, are modelled).

### AdmissionPolicy, HostAdmission

`AdmissionPolicy` is `admit`, pure, on a `Reading` that stands for the comparison of the
cached CPU load with the watermarks; `IndexScheduler` uses the same operators.
`HostAdmission` models the controls that `run_when_allowed` returns: an armed one-shot
timer, the callbacks on the editor's queue, each with the generation it was made for,
wakes by the last foreground token, cancels.

### IndexScheduler

One project, the three phases. A phase is started by its deadline timer or by the drain
of the queue (`try_start_queued_build`). `plan` holds what `_schedule.lua` keeps; `events`
is the editor's queue of callbacks: a deadline that has passed is no longer a timer but a
callback that will run, and this distinction is where the races are. `lease` has a rival
(another editor) and `batch`: this editor's own proof publication, which takes the same
lease. `drain` makes each iteration of the drain loop a step, since rivals move on in
between. `promised` records protected requests that no build start has answered.
A release may fail (`Released`), which its callers ignore, and an error may come between the
lease and the job (`RaisesBeforeJob`): the lease then stays with this editor, which meets
itself as the live writer from then on (`LeaseKept`).
`lost` marks failures that the code does not retry: an early failure before the child is
started, an error that leaves the job or the lease behind, a drain that is skipped because
the generation changed or the end of a build raised before it. `QueueHasADriver` excuses
what is `lost`, and `QueueIsServed` also a lease that was kept; `JobHoldsLease` and
`PromiseStaysQueued` excuse neither. Each case is listed as a hazard.

Abstracted: timer lengths (any order, but a passed deadline's callback is in the queue once),
the work of the child and its publication (a job ends or gets stuck), messages, and other
projects (the drain's choice of the project that waited longest).

### CdbTransaction

Several editors (`tx[p]`: the editor's `M.run` and its helper's `commit`), the live files,
and one reader. The lease is that of `Lease`, reclaimed as soon as its editor is dead.
The helper's program counter is `plan` (compare), `backup`, `publish`, `rollback`; each
file operation is a step, and may fail. `File` has three members: the *active* database,
the *result* that binds the hashes of shard and database, and the *shard*, which stands
for all evidence that is compared and replaced in the same way. A content is a version
and a format, since `equivalent_json` keeps live bytes that differ in their format only;
a hash is the content itself. `Products` says which pairs the tools may produce.
A killed helper leaves the live files and the backups as they are (nothing collects the
backups, and nothing reads them later), and the next transaction starts from there.
`orphaned` says that a helper went on after its editor's death: libuv's job object kills the
child with its parent on Windows, on POSIX it lives on. Properties about what a commit
reports presuppose the lease and exclude this case; `ReaderPairs` does not.

Abstracted: the comparison is one step; an empty or unreadable live directory (the first
publication); the second, legacy target; results without provenance, for which readers
compare modification times; the helper's temporaries, which are removed like backups;
a lease whose release fails (`FileLock` has it); the migration of the header cache and
the refresh of readers after the commit.

### ProofQueue

One Lua session: `Plan`, up to `Workers` proof jobs, and collect jobs that look each group's
verdict up, take over what older stores hold, and have a worker publish; a failed collect
releases the fallbacks of its large groups. `bytes`, `input` and `edits` are the files and
the database that move underneath, `proofs`, `catalog` and `results` what is on disk,
`selection`, `background`, `saved` the databases of batches that a collect composes, has
written and may put back. Abstracted: a group is its set of entries, its verdict at each
version of the files the datum `Admits`, which groups exist the datum `Known`. `Apart` is the
check of `batch_background.lua` that no entry is in two large groups of a schedule; in the checked
instance it never refuses. A fallback that an earlier session had proved, whose parent is
released before the collect validates it, goes back to `deferred` and waits for the next
session.

### StrictProof, LiveTiers, ResidualScan, GraphRules

`StrictProof` is one `accelerate` run: originals, freeze, candidate, comparison, cache; files
may change between any two of these, a run may die, the policy may change between runs.
`job` is the run: its listing (`memo`), the groups still to try (`todo`), the pieces of one that
was refused (`pieces`), what it has accepted (`claimed`). `work` is the proof of one group and how far it is.
`LiveTiers` is Tier 1 and Tier 2: the cross-module groups first, then ordinary groups and
the retry by member class; the receipts of the two bind different files. `ResidualScan` is
the cursor and the hints of the bounded scan across sessions: hints are collected before any
worker, a failed collect is made again while the pump goes on, and the editor may quit anywhere.
`GraphRules` holds
`compare_graphs` and `graph_superset` as operators on small graphs, and checks that their
answer does not depend on the order or the repetition of the originals, although the code
folds over them. The live rules fold a macro's references under another id when one and the same
`#define` line of a `Definitions` file stands behind both (`SameMacro`); the strict rules take a
changed header suggestion only if the old ones are files (`FileHeaders`). Abstracted: bytes are versions (0: absent), include roots one listing, and
what clangd finds is a datum (`Clash`, `Finds`, `Verdict`).

### QueryProfile, BatchRunner, Cohort

`QueryProfile` takes the steps of `observe` one by one: clangd's own query, the hash, the
version, the driver's answer, the comparison; then the originals are indexed, the receipt
written, and accepted again later. Source, clangd and drivers may be replaced between any
two, and the command's token may come to name another driver. One entry and one tuple; no
old version of a file comes back; the lookup environment is that of one process.
`BatchRunner` is one private run: the child and two reader threads (`stdout`, `stderr` are
what was written and not yet read), progress, shutdown, report, and `_cohort_run_clean`.
`Cohort` is the run for several groups, the seal over shards and sources, and the claim of
the generation by one reader; a dead process keeps the lock. Sources only grow.

### Activation

`_runtime` asks a helper for the publication, arms watches, has a second helper validate,
and starts clangd on the frozen database; `latest` is what a late callback compares itself
with, `events` the loop's queue, `dirty` the reports of watches. A change revokes, and the
answers of running requests with it. Abstracted: server options, environments, the probe of
the watch backend (one fault), the length of a cooldown.

### UnityChunks, SuperUnity, UnityReceipt, BackgroundBuild

`UnityChunks` computes the batches of a database by position, bucket and budget, and packs
again what is left; single sources take part where they are asked for (`Candidates`), a module
that failed to compile whole is no candidate across modules, and modules join by the command
without what names the module (`cross`). `SuperUnity` is the step before: the build's unity files are found and
wrapped if the build's evidence covers their members, and wrappers of generated sources are
read back and put under one more. Wrappers are read once, and a batch includes the files by
name: what `SuperUnity` says of the members is said of what was read (`ClaimedOnce`), and of what
is compiled only as long as every wrapper still holds that (`CompiledOnce`, `AsRead`). An edit after
the read is seen by no check of this program; its docstring leaves the qualification of a batch to the caller. `UnityReceipt` follows the evidence (origin, pending,
receipt) through export, begin, the passes and seal. `BackgroundBuild` is a subset's build
or the full one, up to what the editor takes: it is instantiated twice, since only subsets
compare the active database's signature at their end.

### HeaderRepair, SwitchReindex

`HeaderRepair` has the overlays of a database and the manifest by which empty shards are
moved away, or back, with clangd writing at any moment. `SwitchReindex` covers what changed
since the baseline by a few translation units, runs them in workers, and saves the baseline
only if nothing failed or moved. Abstracted: the scan of the shards is one step; stamps only
grow; the prepare that a baseline follows is external.

### DapProbe

The host's and the device's facts, the adapter with its requests and answers by number, the
queue of events that the probe takes from and puts back to, the lldb command line and the
report. Every wait may time out; the adapter may refuse or die; the application may end and
its PID be used again. A stop is an entry, a breakpoint with the line in its top frame, further up
or in none of the frames asked for, or a stop at the line for another reason.

### IndexPublication

One editor and its clangd. A build reads the base when it starts (`BuildStarts`), and ends
(`BuildEnds`) with a phase's database, which is named after the base as it is then (`gen`) and holds the
commands of the one it has read (`of`): a subset's build whose base was replaced is refused
(`Outdated`), a full build is not. The database is merged
with those of the other phases of its generation (`Merged`: by precedence, an
overlapping batch is left out or, from the full input, takes the earlier ones over), and
published in the loop or by a worker: `job` is the request and how far it is. The worker looks at its
inputs when it begins and before each write (`Current`), and renames twice, clangd's database (`Rename`)
and `batches.json` (`Beside`); it may fail between any two steps. `artifacts`, `selection` and `status` are what
the editor takes when it answers. `barrier` is the record of the stage that clangd is to
index before the next one may grow the database: it follows clangd's progress (`Hears`), may be
adopted from a reader that is at work, is bypassed when its inputs change, and times out;
a publication that has to wait is `deferred` and resumed. `reader` is clangd: `at` the database it has read,
`busy` while it works it off, `retiring` once it is told to stop. `delivered` and `delivery` belong to
source revisions, which need a restart of clangd instead of a reload.

Abstracted: an original command is a source and a command, a unit is the set of commands it
stands for, strict receipts are there or not; progress is heard at once; whether a debounced
restart happens, which client a path's clangd is and how long anything takes are choices. One
generation is one version of the base database; the base that a build reads is the one at
its start, though the program copies it a little later. `stray` is a history variable: a
database that a failed publication left in place. `NotOvertaken` speaks of the phases that a step
writes (`Coming`): those of the worker's request, or, of a publication in the loop, those
that the step takes. A publication that holds a strict receipt is excused, as the code excuses it. What is not modelled: manifests, the
invalidation of migrated shards, the observation of source files, the death of the editor.


## 4. Runs

| Run | Bounds | Shows |
|---|---|---|
| `lease_posix` | 3 processes, 2 serials each, 1 crash or failing call, symmetric | at most one writer, its record stays, two turns at most |
| `lease_windows` | 2 processes, 2 serials, 2 faults, no symmetry (liveness) | `FileLock` implements `Lease`; dead records are reclaimed |
| `admission` | 2 controls, 2 tokens, cap 2, 4 generations | no forgotten and no double attempt, foreground first, prompt wake, no starvation |
| `scheduler` | cap 1, 2 requests, 1 lease taken by others, 1 `:UEClearCache`, 1 late deadline | safety of queue, guards, job and lease, releases failing anywhere |
| `scheduler_live` | cap 1, 1 request, 1 lease taken by others, 1 foreground interval, 1 late deadline | gate on both ways to start; every queued phase is started unless the editor keeps the lease |
| `cdb` | 2 editors, 2 transactions, 2 versions in 2 formats, 4 products, 2 failing replacements or restores, 1 failing removal, 1 death, 1 request of the reader; symmetric editors | readers pair what belongs together; a commit is complete or undone; old bytes are kept while needed |
| `cdb_harmless` | the same without reader and deaths | a document that the code contradicts, see section 6 |
| `proving` | see below | owners are disjoint and never split, verdicts bind what was read, publications come in order, every group is decided, a passing iOS report is earned |
| `serving` | see below | nothing is served that its inputs no longer are, and failures lose nothing |
| `promise_lost` | smaller | a comment that the code contradicts, see section 6 |
| `stale_full`, `top_frame` | those of `proving` | two documents that the code contradicts, see section 6 |

Why the bounds suffice. Three processes are the least in which one reclaims, one acquires
and one is delayed; two serials let a process come back with a second lease while the
first handle is still around; every further crash needs a process that acquired again,
which the restart of the same PID gives within the bound. The proofs of section 5 remove
the bounds for safety. Four generations are enough for `HostAdmission`: a control refers
to at most three (its own, its timer's and those queued), which is all that the assumption
`EnoughGenerations` asks of their number. Two requests cover a plain against a
protected one and each order of them; one foreign lease covers contention on either way
to start. `late` bounds deadlines that pass between the end of a child and its callback: without
the bound a phase can be echoed for ever by coincidence (section 6), and a lower
phase starves; one such coincidence is allowed in the liveness run.
`CdbTransaction`: two failures are the least that make a replacement and then a restore
fail; one death makes a half-replaced state that the second transaction meets, or an
orphan beside it; the four products change the format only, the database only, or both.

`proving` (311 thousand states) and `serving` (1.9 million) run one part per behaviour.
The queue has six groups over six entries: two ordinary chunks that a large group joins, a chunk
of an older input, a cross-module chunk, a strict pair that overlaps two of them; one edit,
one fault, two workers. Strict proofs have a chunk of two and one of three, so that a group
is split, two edits (one before, one after the freeze) and two policies. Live tiers mix
classes in one of two modules; the scan has four pairs, one per session, one that cannot be
packed; graph rules take all pairs of originals and candidates over a header that may differ in
digest, includes, uses, definitions and macros. The stages
have three events (starts of builds, edits, failures, `:UEPrepare!`), builds of every phase and batches
of two commands, over three sources, each phase with one more, and commands that differ
between the generations: a stage, the next one and one thing that goes wrong. The probe may skip two stops. Activation has one document, one frozen
database of three commands in good and bad groupings, two attempts, two edits, one fault. The
cohort has two groups, one shared header and two readers; the switch two mains with a shared and an own
header and a source that is new; packing all databases of four entries out of two
modules and three classes; wrapping three sources and unity files for one or two of them; the
receipt two passes; builds two edits and two faults (a replacement and its rollback); the repair one
header in scope and one that is reached by an alias; the private run two mains; the driver
queries two drivers of three versions whose answers part and meet again. Two edits
are what the races take: one to make a check pass with old data, one to make it matter.

The type invariants of the scheduler and the transaction are not listed in a run: section 5
proves them. `NothingLost` is `FailureRestores` and `OldBytesKept` in one.

Fairness. `FileLock`: a process that runs finishes its call (weak), and a caller comes
back and drops a released handle (strong, since other calls may disable it in between;
`retry_index_writer` is the timer that does so). `HostAdmission`: libuv fires an armed
timer, the editor's loop runs what is queued. `IndexScheduler`: the same, with one weak
fairness condition for the loop, as its queue is first in, first out; children, rivals and foreground work end. `StrictProof`: a run goes on (weak), and prepares are started again
(strong: a run in progress excludes them); the background queue does so. `LiveTiers`: the same.
`ResidualScan`: sessions plan, and their jobs end. `WorkIsDone` is what follows for the first two.
`IndexPublication` assumes none: `NobodyWaitsInVain`, part of `StagesInOrder`, says instead that what waits hangs
on a record with a deadline, and the deadline is an action without a guard but that record. No
fairness is assumed for requests, faults, user actions or the CPU load.

`CHECK_DEADLOCK FALSE` stands where the system may stop: nothing queued, bounds spent.

## 5. Proofs

For every value of the constants, checked by TLAPS:

* `FileLockProofs`: type correctness, `MutualExclusion`, `HolderRecorded`, and that
  `FileLock` implements `Lease`. The inductive invariant `IInv` adds what a delayed process may
  still do: at most one record (`OneRecord`), only running processes are inside a call,
  a token carries the PID that drew it (`TokensAreOwn`), nobody else has seen the token of
  an acquire in progress (`DrawnIsUnseen`), a lease being released is not in use
  (`ReleasedIsIdle`), and an unlink that is about to happen aims at a record that is not
  in use (`TargetIsIdle`), which is the heart: the record read before the probe belongs
  to a dead process or to the caller, and tokens are not drawn twice.
* `IndexSchedulerProofs`: type correctness, `JobHoldsLease`, `QueueHasADriver`,
  `PromiseStaysQueued`, `RefusalIsBacked`, `NoStartInForeground`, `DeadlineNotPostponed`.
  The invariant adds that an end is queued once and only while it is due (`EndsAreDue`)
  and that an armed protected deadline is guarded (`DeadlineIsGuarded`). Nothing in it asks that
  a release succeeds: a job has the lease because it is started under it and nothing gives it
  back before the job is cleared. `Backed`, a
  predicate on plans with the set of protected deadlines that have passed, carries the
  argument through `Schedule`, `Unschedule` and `Consume`; `BuildStep` and `StartStep`
  are shared by the two ways to start.
* `CdbTransactionProofs`: type correctness and `ReaderPairs`, with orphaned helpers. The
  invariant says that every binding on disk, in a plan or in a backup pairs what one run has
  made (`BindingsPair`), that no file is replaced before its old bytes are saved and none
  to be restored has lost them (`BackedUp`: without it a restore would put nothing in a
  file's place), and what a reader has verified so far (`ReaderVerified`). `EditorStep` reduces
  each step to the one transaction it changes.
  The second part has `CommitIsFresh`, `NothingLost` and `CommitPoint`. Its invariant relates each
  transaction to the lease (who works holds it, unless a helper was orphaned) and follows the
  holder through its replacements: what is already replaced is the product, what is not is as it
  was compared, a backup holds the old bytes, and the active database comes last, so that
  the live files are acceptable exactly when it has changed.
* `HostAdmissionProofs`: type correctness, `OneCallbackEach`, `PromptWake` and
  `NoStartBehindForeground`. The invariant `Shape` says of each control that waits that it is
  in exactly one of three situations: its timer is armed with its generation, the timer has fired and its
  callback is queued, or it was woken and its attempt is queued; whatever else is queued
  for it carries an older generation and will be ignored. `EnoughGenerations`
  is what lets generations that nothing refers to any more be used again.
* `ProofQueueProofs`: `OwnersDisjoint`, `OwnersNeverSplit`, `FallbacksComeInTurn` and
  `DeliveredIsCurrent`. For the first two the invariant is that `selection`, `background` and
  `saved` are each disjoint: the third must be in it because a failed collect puts the saved copy
  back. Steps either look a group up or copy one of the three (`StepCopies`); what a lookup does to
  a selection is stated about the operators alone (`ReplaceSound`, `AddSound`, `AdoptSound`,
  `UpgradeSound`). They need no assumption on the constants: the code checks what a cache answers
  before it uses it. For the third, `QueueInv` follows every session and every collect, and is
  mostly `Orderly`, a predicate on a queue: its lists agree with its states (`Sorted`), every group is where its state says it
  is (`Accounted`: a deferred fallback has been seen or has an undecided parent, a suppressed one an
  admitted parent), and no fallback of an undecided parent is ready (`InTurn`). Each operation
  on the queue keeps it (`AdvanceKeeps`, `LossKeeps`, `ReconcileKeeps`). For the last, `Responding`: every
  batch in a database comes out of a cache that its gate filled, the old response is gone before the
  worker runs, and what is there afterwards is what is on disk.
* `ProvingProofs`, part by part of `Proving`; a step of one part leaves the others' variables alone.
  * `AdmissionIsOfSets`. Lists of originals with the same graphs (`Alike`) have the same files,
    records, references and sources, so both gates answer the same; the exact union is collectable
    and is, of each file, what the originals agree on or hold together (`NodeOf`).
  * `CachesDescribeDisk` and the strict half of `PublishedIsBacked`. `StrictInv`: a graph kept anywhere is one
    that some disk gave to a compile, together with the files then present (`Witnessed`); an accepted
    receipt was judged over such graphs and the graph of its own frozen bytes
    (`ReceiptHolds`); the claims of a run are backed by receipts of its policy and of one listing, and
    what it still has to try meets no claim (`Divided`), so that no later record replaces one it relies on.
  * The other half of `PublishedIsBacked`. `PublicationInv`: merging yields units that are disjoint and cover
    every command (`MergedWhole`), whatever batches are adopted; what is selected is published whole, and held by its artifacts as their builds have read it
    (`ReadyIsWhole`), and the database a worker has merged is the one it found
    until it renames, and its own from then on (`JobIsWhole`).
  * `StagesInOrder`. `StagesInv` adds to it `WaitInv` (a record that stands has its fields; every step that
    ends one resumes who waits for it, `EndedRecord`), `Deferring` (while a record stands, a publication that would
    go past it was asked to wait, or has nothing to wait for), `Growing` (what was merged still grows the database as
    it did then) and `Earning` (a record of the database as it is counts only work on this database, or on a leftover).
    It was model-checked with four events before it was proved.
  * `PassedIsEarned`. `IosInv`: every number in flight was given out and the answer to the stack that the
    probe waits for is true (`Matched`), what the probe takes as seen was there (`Seen`), and each step
    of the gate is reached through the ones before (`StepByStep`).
* `ToolProofs`, the programs of `Serving` (each invariant begins with the types of its part):
  * `AcceptedIsProved` (`BatchRunner`). `RunInv`: before the start there is no process (`Spawned`); a stream that was
    read to its end is empty and its writer gone (`ReadToTheEnd`); a main that failed is in the output or among the
    failures heard (`FailuresAreSaid`); every line is about a main that ran (`LinesAreOfRuns`); a report
    whose streams had ended holds all that was heard (`ReportHolds`).
  * `RepairIsExact` (`HeaderRepair`). `RepairInv`: of a plan, what is no longer to do has been saved as planned, or is
    back unless clangd wrote over it (`DoneExactly`).
  * `TakenIsOne` and `BaselineKept` (`BackgroundBuild`, subset and full). `BuildInv`: once compared, a cut is of the
    version of the active database that was asked for (`Cutting`); what is being published is one build's (`Built`);
    the last complete bytes of each output are in their place or in a rollback file (`Baseline`), whichever
    outputs are already replaced or put back (`Replacing`).
* `ServingProofs`:
  * `HandoffIsSound` (`Cohort`). `CohortInv`: who works holds the lock (`Holder`); versions only grow, so that
    shards and inputs found equal to a seal lie between it and the files as they are (`SealedRun`, `Manifested`, `Checked`).
  * `EvidenceIsGenuine` (`UnityReceipt`, `QueryProfile`). `ReceiptInv`: commands in origin and receipt are the
    compiler's, at the beginning of the passes or at their end (`Authored`), and what a run carries has come
    as far as the run (`Carrying`, `ShadersKnown`). `QueryInv` rests on no version coming back: what was read, supported and
    answered since a version was hashed, and still had that version at the comparison, was of that version
    (`Observing`, `Evidencing`, `Receipted`).
  * `ResultsAreCertified` (`Activation`). `ActivationInv`: only the newest attempt is guarded (`OneGuarded`); a stamp
    names one publication (`StampsName`); what was read under the watches is still so, or its change waits to be reported
    (`Validating`); no client is answered beside unsaved changes (`Unsaved`).
  * `NoChangeMissed` (`SwitchReindex`). `SwitchInv`: one run holds the lock (`OneRuns`); until the baseline is
    established, only what was edited since the prepare differs from its shard (`DueIsIndexed`); what did not change since the
    snapshot is indexed, or a worker is still to index it (`Reindexing`). The cover, and its division among
    workers, are shown to be complete (`CoverIsComplete`).
  * `PackingIsExact` (`UnityChunks`, `SuperUnity`). For the chunks, whose lemmas are in `ToolProofs`, the invariant only says
    how the plan was made (`ChunksInv`); the work is in the planners. What a bucket or a bin has taken is followed entry by
    entry (`Packs`, `Binned`): chunks are apart, within the budget, and each grew by entries that fitted it (`Grown`), so that the
    same entries alone grow into it again and close nothing before (`SecondaryAgain`, `BinAgain`). The strict planner packs the member
    classes apart first: where that packs nothing, no two neighbours fit (`NothingFits`), so that a chunk of the second pass
    has none that the first would put together (`NoneTogether`), and alone comes to the second pass whole (`StrictAgain`).
    For the wrappers, `SuperInv`: until somebody edits it, the database of wrappers has every command once (`OnceWrapped`, from
    `WrapIs`: groups take positions that no other has, the rest stay); a verified wrapper was read as its entry says,
    with generated sources only (`Vouched`). `BatchOnce` then counts: a source of a merged wrapper has one claim by
    includes and one by entries, so that both are that wrapper's and no command of its own is left. What a batch
    compiles follows from that: its originals are wrappers of the database (`FromWrappers`), bound to one batch each
    (`BatchesBound`), and include what was read as long as nobody has rewritten them (`AsRead`).

Induction over data is out of reach of the provers here, and the models hold closures, covers and folds. Where a
proof needs one, it takes a minimal counterexample instead: finite subsets are well-founded (`MinimalSet`,
`LeastNumber`, `GreatestOf`), which gives the folds their defining equations (`FoldIsDefined`), sums theirs (`SumIs`, `SumOfParts`), filters of
sequences what they select (`FilterSelects`), and covers their completeness.

Assumptions: only the named ones of the modules, which TLC evaluates in the runs. Besides distinct names,
natural bounds and a known platform they are:

| Assumption | Why the code has it |
|---|---|
| `EnoughGenerations` (`HostAdmission`) | numbers are not bounded in the code; the model uses those again that nothing refers to |
| `GroupsAreListed` (`ProofQueue`) | the catalog lists every group, and a group has entries |
| `EntriesChunked`, `ChunksApart` (`Proving`) | packing puts an entry of the database in one chunk at most |
| `BuildsAreOfPhases` (`Proving`) | `_build.lua` knows three phases |
| `OriginalsAreListed` (`Proving`) | a group is compared with a list of originals, never an empty one |
| `HeadersAreUsed` (`Serving`) | a cohort's headers are what its members include, directly or not |
| `ResponseIsRead` (`Serving`) | the members' commands come from a response file that is among what the unity read |
| `DocumentIsRead` (`Serving`) | the document in the buffer is bound by the receipts |
| `PackingsAreSized` (`Serving`) | databases are lists; a size is a number of bytes where the file can be read, and budgets are positive integers (`tier2_unity_chunks` refuses others) |
| `CommandsAreListed` (`Serving`) | databases are lists of commands, each with its file and the rest of it; a unity file is a list of includes |
| `SourcesAreFinite`, `AttemptsAreCounted`, `ReadersApart` (`Serving`) | a project is finite, attempts are numbered, a process is not a state of the lock |

Only model-checked: liveness, and anything with `ENABLED` (`NoStarvation`, `QueueIsServed`, `StaleReclaimed`,
`NoPairStarves`, `WorkIsDone`).

## 6. Where the code and its comments part

* `promise_lost`: `_schedule.lua:124-126` says that a re-arm keeps the protection. The drain
  asks the gate without it (`_build.lua:785`), after the callback has dropped the guard.
* `stale_full`: the openspec of `cpp-semantic-index-coverage` binds a generation to the contents of its
  database. A full build copies the base at its start (`build_full_cdb.py:263`) and only subsets compare it at
  their end (`_build.lua:578-584`), so that old commands are published under the new base's name.
* `top_frame`: the head of `ios_dap_protocol_probe.py` (line 12) says that the top frame must map to the
  requested source; the code (864-869) accepts the line in any of the twenty frames it asks for.
* `cdb_harmless`: `docs/architecture/overview.md:296` says that a failed publication restores
  the old artifacts. A backup that cannot be removed (`cdb_transaction.py:235`) makes a
  commit fail after it has replaced everything, and hides a recovery that was to be reported.

Noted while modelling, without a run of their own:

* `_schedule.lua:69-70` says that a consumed deadline cannot queue its phase behind the active job.
  A deadline whose callback is queued already does; the effect is one superfluous build.
* `:UEClearCache` (`ue.lua:8415-8420`) closes the timers and keeps the guards that stand for them
  (`_schedule.lua:48`): ordinary requests of the phase are refused although nothing will start it by its guard.
* `_schedule.lua:62` calls a live writer temporary contention. When `file_lock.release` fails, its
  callers (`_build.lua:347`, `:726`) do not notice, and the live writer is this editor itself, to its end.
* An interrupted header migration can no longer complete, nor be restored, once clangd has rebuilt
  a shard that was moved: both look for the recorded hash. The command-line restore takes no lease.
* Callers of a private run other than the cohort accept `background_compile_success` although a
  reader thread was not joined.
* A worker that fails after its first rename leaves a database behind that the next publication finds
  as it should be: clangd is not told, and the barrier may adopt the old reader's
  surviving progress. A test (`index_delivery_phase_barrier_spec.lua:427`) says that a publication that changes
  nothing adopts no reader that is retiring. `stray` marks these databases, and `IndexedIsEarned` excuses them.
* Between the rename and the invalidation of migrated shards a worker may be killed; the next
  publication finds nothing to change and does not invalidate them (`docs/architecture/overview.md:64`).
* clangd is reloaded or restarted only if the selected artifact changes; commands that change without it,
  or after a publication in the loop failed, wait for the next restart. `_build.lua` does not look at
  what the debounce of the restart answers.
* A worker that outlives its editor between its look at the lease and its rename writes all the same.
* A wrapper of generated sources that is rewritten after `build_super_unity_cdb.py:164` has read it is compiled
  by the batch that includes it (253-255), with whatever it holds by then.

## 7. Not modelled

Everything marked `not_modelled` in `PROJECT.json`, each with its reason: planned modules
above; data transformations, presentation and command lines, which have no protocol; external programs (clangd, csearch, adb)
beyond what the code relies on. In the modelled files: `owner()` (a read), log and
notification text, error strings, the choice between projects in the drain, and re-entrant
calls from inside callbacks (`host_admission.lua:320` and `:339`). SharedPCH grouping of
`build_super_unity_cdb.py` has no caller.

Situations of this code that the models exclude, and that no property speaks of:

* a directory that changes and returns to its listing between the two inventories of a strict
  proof; an edit in the middle of a proof that ends in a rejection, which is then bound to the
  bytes after the edit (the driver's evidence of a rejection is not checked again either);
* a group recovered from an earlier session may be skipped by the queue's order
  (`batch_background.lua`, around line 425);
* where no job object exists (POSIX), programs outlive a killed editor, and an orphaned index
  build may overlap a new one; names of rollback files carry the PID, which may come back;
* `_merge_original_graph` hashes dependencies after the index was made; the switch reindex takes its
  snapshot after the prepare's index;
* empty input leaves an earlier `compile_commands.super.json` in place;
* the legacy `.idx` mode; the header cache's migration after the commit of a transaction
  (`cdb_transaction.py:246`), whose failure is reported as deferred; the comparison of a
  transaction's plan, several reads that are one step here;
* staging directories that a killed `acquire` leaves behind (`file_lock.lua:85`);
* in the iOS probe, `attached` is set after `initialized` only: an adapter that dies in between
  is not detached from.
