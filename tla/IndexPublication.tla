-------------------------- MODULE IndexPublication --------------------------
(***************************************************************************)
(* How the database of a finished phase reaches clangd.  An editor merges  *)
(* it with those of the other phases and replaces clangd's database, in    *)
(* its own loop or through a worker (lua/ue/index/_build.lua, _publish.lua,*)
(* _publication_async.lua, publication_worker.lua); a publication that     *)
(* only adds commands waits until clangd has indexed the previous stage    *)
(* (_phase_barrier.lua); then clangd is told to reload, or restarted       *)
(* (_clangd.lua), also when sources have changed (_source.lua).            *)
(*                                                                         *)
(* Abstracted: an original command is a source and what it is compiled     *)
(* with; a translation unit is the set of original commands it stands for; *)
(* the generation is the version of the base database.  A build reads its  *)
(* commands when it starts, and its artifact is named after the base as it *)
(* is when the build ends.  Strict receipts are there or not.  One editor, *)
(* which holds the writer lease while a job runs, and one clangd, whose    *)
(* progress is heard at once.                                              *)
(***************************************************************************)
EXTENDS Naturals, FiniteSets

CONSTANTS Original,   \* [phases -> [generations -> sets of <<source, command>>]]
          Builds,     \* <<phase, batch, strict>>: what a build may come with
          MaxEvents

VARIABLES base, revision, events,
          live, frozen,                   \* clangd's database, batches.json
          artifacts, selection, status,   \* the editor's index state
          job, barrier, forced,
          reader, reload,                 \* clangd, the delayed reload
          delivered, delivery,            \* source revisions
          stray                           \* a database whose publication failed
disk == <<base, revision, live, frozen>>
state == <<artifacts, selection, status>>
clangd == <<reader, reload, delivered, delivery>>
vars == <<disk, state, clangd, job, barrier, forced, events, stray>>

Phases == <<"current", "hot", "full">>
Rank(p) == CHOOSE i \in 1..3 : Phases[i] = p
None == [none |-> TRUE]
Idle == [stage |-> "idle"]

Init == /\ base = 1 /\ revision = 0 /\ events = 0
        /\ live = [units |-> {}, stamp |-> 0] /\ frozen = None
        /\ artifacts = [i \in 1..3 |-> None] /\ selection = None /\ status = "none"
        /\ job = Idle /\ barrier = None /\ forced = FALSE
        /\ reader = [id |-> 1, up |-> TRUE, at |-> 0, busy |-> FALSE, retiring |-> FALSE]
        /\ reload = None /\ delivered = 0 /\ delivery = None /\ stray = 0

(* Builds, what happens outside and what fails are counted together.        *)
Event == events < MaxEvents /\ events' = events + 1

BaseReplaced == /\ Event /\ base' = base + 1
                /\ UNCHANGED <<revision, live, frozen, state, clangd, job, barrier, forced, stray>>
SourceSaved == /\ Event /\ revision' = revision + 1
               /\ UNCHANGED <<base, live, frozen, state, clangd, job, barrier, forced, stray>>

-----------------------------------------------------------------------------
(* What is published (publish_semantic_cdb).                                *)

Present(g, arts) == {i \in 1..3 : arts[i] # None /\ arts[i].gen = g}
(* The commands an artifact holds: those of the base its build has read.    *)
Commands(a) == Original[a.phase][a.of]
(* A batch is let through only if the bytes its receipt binds are there.    *)
Proposal(a) == IF a.at = revision THEN {o \in Commands(a) : o[1] \in a.batch} ELSE {}

(* A batch of the full input may take over earlier ones whole.              *)
Supersedes(a, b, overlaps) ==
    /\ a.phase = "full" /\ UNION overlaps \subseteq b
    /\ Cardinality(overlaps) + Cardinality(b \ UNION overlaps) > 1
Adopt(owners, a) ==
    LET b == Proposal(a)  overlaps == {o \in owners : o \cap b # {}} IN
    IF b = {} \/ (overlaps # {} /\ ~Supersedes(a, b, overlaps)) THEN owners
    ELSE (owners \ overlaps) \cup {b}

Merged(g, arts) ==
    LET first == IF 1 \in Present(g, arts) THEN Adopt({}, arts[1]) ELSE {}
        second == IF 2 \in Present(g, arts) THEN Adopt(first, arts[2]) ELSE first
        owners == IF 3 \in Present(g, arts) THEN Adopt(second, arts[3]) ELSE second
        all == UNION {Commands(arts[i]) : i \in Present(g, arts)}
    IN owners \cup {{o} : o \in all \ UNION owners}

Files(units) == {{o[1] : o \in u} : u \in units}
OnePerFile(units) == Cardinality(Files(units)) = Cardinality(units)
AppendOnly(old, new) == old # {} /\ old \subseteq new /\ old # new /\ OnePerFile(old) /\ OnePerFile(new)

Publication(g, arts) ==
    LET units == Merged(g, arts)
        strict == \E i \in Present(g, arts) : arts[i].strict
        beside == IF strict THEN [of |-> units, gen |-> g] ELSE None
    IN [units |-> units, ordinary |-> ~strict, beside |-> beside, original |-> units # live.units,
        append |-> ~strict /\ AppendOnly(live.units, units),
        changed |-> units # live.units \/ beside # frozen]

-----------------------------------------------------------------------------
(* The barrier between the stages (_phase_barrier.lua).                     *)

SourcePending == revision > delivered
Owns(id) == reader.id = id /\ reader.up /\ ~reader.retiring
Valid(r) == /\ selection # None /\ selection.gen = r.gen /\ live.stamp = r.live /\ base = r.base
            /\ ~SourcePending /\ frozen = None
            /\ r.client # 0 => Owns(r.client)
Pending(r) == r # None /\ r.status \in {"generated", "indexing"}
(* Of a finished record only generation, verdict and reader are looked at.  *)
Finish(r, verdict) == [gen |-> r.gen, status |-> verdict, client |-> r.client]
\* Fault seed: a record that ends forgets who waits for it.
ReleasedNever == job
Released == IF job.stage = "waiting" THEN [job EXCEPT !.stage = "resume"] ELSE job

(* phase_barrier_pending: a record that says nothing any more is let go.    *)
Checked == IF Pending(barrier) /\ (forced \/ ~Valid(barrier)) THEN Finish(barrier, "bypassed") ELSE barrier

\* Fault seed: a reader that is still at the previous stage is adopted too.
CompletedEither(r) == IF r # None /\ r.client = reader.id /\ reader.up THEN r.client ELSE 0
(* The reader that has finished the previous stage and is idle.             *)
Completed(r) == IF r # None /\ r.status = "indexed" /\ r.client = reader.id /\ reader.up /\ ~reader.busy
                THEN r.client ELSE 0

Record(pub, g, stamp, old) ==
    LET adopted == ~pub.original /\ Owns(reader.id) /\ reader.busy IN
    [gen |-> g, status |-> IF adopted THEN "indexing" ELSE "generated",
     live |-> stamp, base |-> base, client |-> IF adopted THEN reader.id ELSE 0, began |-> adopted,
     observing |-> ~pub.append, completed |-> Completed(old), waits |-> FALSE]

(* phase_publication_committed: what stands for this stage from now on.     *)
Committed(r, p, pub, g, stamp, chosen) ==
    LET old == IF r # None /\ r.gen # g THEN None ELSE r IN
    IF forced THEN IF r = None THEN None ELSE Finish(r, "bypassed")
    ELSE IF ~pub.changed /\ (old # None \/ p # "current" \/ chosen.phase = "full") THEN old
    ELSE IF ~pub.ordinary THEN None
    ELSE IF ~pub.original /\ (old # None \/ p # "current") THEN old
    ELSE Record(pub, g, stamp, old)

(* LspProgress, for the one token of the background index.                  *)
Hears(kind) ==
    LET r == barrier IN
    IF ~(Pending(r) /\ r.observing /\ Owns(reader.id) /\ r.client \in {0, reader.id}) THEN r
    ELSE IF ~Valid(r) THEN Finish(r, "bypassed")
    ELSE IF kind = "begin" THEN [r EXCEPT !.client = reader.id, !.began = TRUE, !.status = "indexing"]
    ELSE IF r.began THEN Finish(r, "indexed") ELSE r

Timeout == /\ Pending(barrier) /\ barrier' = Finish(barrier, "timeout") /\ job' = Released
           /\ UNCHANGED <<disk, state, clangd, forced, events, stray>>
Poll == /\ Pending(barrier) /\ barrier.waits /\ ~Valid(barrier)
        /\ barrier' = Finish(barrier, "bypassed") /\ job' = Released
        /\ UNCHANGED <<disk, state, clangd, forced, events, stray>>
(* :UEPrepare! opens the barrier and keeps it open; :UEPrepare restores it. *)
PrepareForced ==
    /\ ~forced /\ Event /\ forced' = TRUE
    /\ barrier' = IF barrier = None THEN None ELSE Finish(barrier, "bypassed")
    /\ job' = Released
    /\ UNCHANGED <<disk, state, clangd, stray>>
Unforce == /\ forced /\ forced' = FALSE
           /\ UNCHANGED <<disk, state, clangd, job, barrier, events, stray>>

-----------------------------------------------------------------------------
(* clangd reads its database when it looks a file up, and works it off.     *)

ReaderLoads == /\ reader.up /\ reader.at # live.stamp
               /\ reader' = [reader EXCEPT !.at = live.stamp, !.busy = TRUE]
               /\ IF reader.busy THEN UNCHANGED <<barrier, job>>
                  ELSE barrier' = Hears("begin") /\ job' = IF Pending(barrier') THEN job ELSE Released
               /\ UNCHANGED <<disk, state, reload, delivered, delivery, forced, events, stray>>
ReaderEnds == /\ reader.up /\ reader.busy /\ reader' = [reader EXCEPT !.busy = FALSE]
              /\ barrier' = Hears("end") /\ job' = IF Pending(barrier') THEN job ELSE Released
              /\ UNCHANGED <<disk, state, reload, delivered, delivery, forced, events, stray>>

Stopped == [reader EXCEPT !.up = FALSE, !.busy = FALSE, !.at = 0, !.retiring = TRUE]
(* maybe_restart_clangd_for_index: reload what only grew, else restart, but *)
(* not so soon again; an unchanged database may be left to its owner.       *)
Restart(pub, same, g, stamp) ==
    \/ /\ pub.append /\ same /\ Owns(reader.id)
       /\ reload' = [gen |-> g, live |-> stamp, reader |-> reader.id] /\ UNCHANGED reader
    \/ /\ ~(pub.append /\ same /\ Owns(reader.id)) /\ UNCHANGED reload
       /\ \/ ~pub.original /\ UNCHANGED reader
          \/ reader' = [reader EXCEPT !.retiring = TRUE]
          \/ reader' = Stopped

ReaderDies == /\ reader.up /\ Event /\ reader' = Stopped
              /\ UNCHANGED <<disk, state, reload, delivered, delivery, job, barrier, forced, stray>>
(* An open buffer gets a new clangd; the delivery of a source revision      *)
(* waits for its attachment.                                                *)
ReaderStarts ==
    /\ ~reader.up
    /\ reader' = [id |-> reader.id + 1, up |-> TRUE, at |-> 0, busy |-> FALSE, retiring |-> FALSE]
    /\ IF delivery # None /\ delivery.at # "helper"
       THEN delivery' = None /\ delivered' = IF delivery.of > delivered THEN delivery.of ELSE delivered
       ELSE UNCHANGED <<delivery, delivered>>
    /\ UNCHANGED <<disk, state, reload, job, barrier, forced, events, stray>>

(* The delayed reload of a reader that still is what it was (phase_reader_  *)
(* loading); clangd reads the database soon after.                          *)
Reloads ==
    /\ reload # None /\ reload' = None
    /\ LET r == barrier
           holds == /\ selection.gen = reload.gen /\ live.stamp = reload.live /\ ~SourcePending
                    /\ Owns(reload.reader)
           active == r.completed = reader.id /\ reader.busy
       IN barrier' = IF ~(holds /\ Pending(r) /\ r.client \in {0, reader.id}) THEN r
                     ELSE [r EXCEPT !.observing = TRUE, !.began = @ \/ active, !.client = reader.id,
                                    !.status = IF r.began \/ active THEN "indexing" ELSE @]
    /\ UNCHANGED <<disk, state, reader, delivered, delivery, job, forced, events, stray>>

(* deliver_source_refresh: a helper reindexes, then clangd is restarted, or *)
(* has to be asked again later; without a clangd the next one will do.      *)
SourceRestarts ==
    /\ delivery # None /\ delivery.at = "helper"
    /\ \/ delivery' = None /\ UNCHANGED reader
       \/ ~reader.up /\ delivery' = [delivery EXCEPT !.at = "any"] /\ UNCHANGED reader
       \/ reader.up /\ delivery' = [delivery EXCEPT !.at = "attach"] /\ reader' = Stopped
       \/ reader.up /\ delivery' = None /\ reader' = [reader EXCEPT !.retiring = TRUE]
    /\ UNCHANGED <<disk, state, reload, delivered, job, barrier, forced, events, stray>>
AttachTimesOut == /\ delivery # None /\ delivery.at = "attach" /\ delivery' = None
                  /\ UNCHANGED <<disk, state, reader, reload, delivered, job, barrier, forced, events, stray>>

-----------------------------------------------------------------------------
(* The end of a build (_build.lua).                                         *)

Selected(g, arts) == arts[CHOOSE i \in Present(g, arts) : \A k \in Present(g, arts) : k <= i]
With(built) == [artifacts EXCEPT ![Rank(built.phase)] = built]
(* Builds of module subsets look at the end whether the base is still the   *)
(* one they have read; the full build does not.                             *)
Outdated(p) == p # "full" /\ base # job.of

(* finalize, with what was published.                                       *)
Deliver(r, built, pub, stamp) ==
    LET chosen == Selected(built.gen, With(built))
        same == selection # None /\ selection.gen = chosen.gen
    IN /\ artifacts' = With(built) /\ selection' = chosen /\ status' = "ready"
       /\ barrier' = Committed(r, built.phase, pub, built.gen, stamp, chosen)
       /\ IF SourcePending
          THEN /\ delivery' = IF delivery = None THEN [of |-> revision, at |-> "helper"] ELSE delivery
               /\ UNCHANGED <<reader, reload>>
          ELSE /\ UNCHANGED delivery
               /\ IF chosen # selection /\ pub.changed THEN Restart(pub, same, built.gen, stamp)
                  ELSE UNCHANGED <<reader, reload>>
       /\ stray' = IF pub.original THEN IF stray = stamp THEN 0 ELSE stray
                   ELSE IF Pending(barrier') /\ barrier' # r THEN stamp ELSE stray
       /\ job' = Idle /\ UNCHANGED delivered

(* finalize with an error: nothing of this build is taken.                  *)
Fails == job' = Idle /\ status' = "error" /\ UNCHANGED <<artifacts, selection>>

Written(pub) == IF pub.original THEN [units |-> pub.units, stamp |-> live.stamp + 1] ELSE live
Defers(p) == p # "current" /\ Pending(Checked)

(* A build reads the base and goes to work.                                 *)
BuildStarts(p) ==
    /\ job = Idle /\ Event
    /\ job' = [stage |-> "building", phase |-> p, of |-> base] /\ status' = "running"
    /\ UNCHANGED <<disk, artifacts, selection, clangd, barrier, forced, stray>>
(* Its process fails, or a subset turns out to be of another base.          *)
BuildFails == /\ job.stage = "building" /\ Fails
              /\ UNCHANGED <<disk, clangd, barrier, forced, events, stray>>

(* The end of a build: small databases are published in the loop, large     *)
(* ones, and those that may have to wait, by a worker.                      *)
BuildEnds(p, batch, strict) ==
    /\ job.stage = "building" /\ job.phase = p /\ ~Outdated(p)
    /\ LET built == [phase |-> p, gen |-> base, of |-> job.of, batch |-> batch,
                     at |-> IF batch = {} THEN 0 ELSE revision, strict |-> strict]
           pub == Publication(base, With(built))
           seen == IF p = "current" THEN barrier ELSE Checked
       IN \/ /\ job' = [stage |-> "asked", built |-> built, base |-> base, defer |-> Defers(p)]
             /\ barrier' = seen /\ UNCHANGED <<disk, state, clangd, stray>>
          \/ /\ ~Defers(p) /\ live' = Written(pub) /\ frozen' = pub.beside
             /\ Deliver(seen, built, pub, live'.stamp) /\ UNCHANGED <<base, revision>>
          \/ /\ ~Defers(p) /\ artifacts' = With(built) /\ selection' = Selected(base, artifacts')
             /\ status' = "error" /\ live' \in {live, Written(pub)}
             /\ stray' = IF live' # live THEN live'.stamp ELSE stray
             /\ barrier' = seen /\ job' = Idle /\ UNCHANGED <<base, revision, frozen, clangd>>
    /\ UNCHANGED <<forced, events>>

-----------------------------------------------------------------------------
(* The worker; a request is bound to the signature of its inputs.           *)

\* Fault seed: nobody looks whether the inputs are what they were.
CurrentAnyway == TRUE
Current == base = job.base
To(stage) == job' = [job EXCEPT !.stage = stage]
WorkerStep == UNCHANGED <<base, revision, state, clangd, barrier, forced, events>>
Step(from, A) == job.stage = from /\ WorkerStep /\ A
Still == UNCHANGED <<live, frozen, stray>>

(* Looks at its inputs, the base among them, before and after it reads them *)
(* and answers a request that has to wait before it writes anything.        *)
Merge == Step("asked",
              /\ LET g == base  pub == Publication(g, With(job.built))
                     waits == job.defer /\ pub.append /\ frozen = None /\ selection # None /\ selection.gen = g
                 IN IF ~Current THEN To("failed")
                    ELSE IF waits THEN To("deferred")
                    ELSE job' = [stage |-> "merged", built |-> job.built, base |-> base, pub |-> pub]
              /\ Still)
Rename == Step("merged", /\ live' = Written(job.pub) /\ stray' = IF live' # live THEN live'.stamp ELSE stray
                         /\ To("renamed") /\ UNCHANGED frozen)
(* It looks again before it replaces or removes batches.json.               *)
Beside == Step("renamed",
               IF job.pub.beside # frozen /\ ~Current THEN To("failed") /\ Still
               ELSE frozen' = job.pub.beside /\ To("ok") /\ UNCHANGED <<live, stray>>)
Working == {"asked", "merged", "renamed"}
Worker == Merge \/ Rename \/ Beside
(* The worker fails to write, is killed or takes too long.                  *)
WorkerFails == /\ job.stage \in Working /\ Event /\ To("failed")
               /\ UNCHANGED <<disk, state, clangd, barrier, forced, stray>>

(* The answer comes back to the loop (finish_publication_async).            *)
Answer ==
    \/ /\ job.stage \in {"ok", "deferred", "failed"} /\ (job.stage = "failed" \/ ~Current) /\ Fails
       /\ UNCHANGED <<disk, clangd, barrier, forced, events, stray>>
    \/ /\ job.stage = "ok" /\ Current /\ Deliver(barrier, job.built, job.pub, live.stamp)
       /\ UNCHANGED <<disk, forced, events>>
    \/ /\ job.stage = "deferred" /\ Current
       /\ IF Pending(Checked) THEN barrier' = [Checked EXCEPT !.waits = TRUE] /\ To("waiting")
          ELSE barrier' = Checked /\ job' = [job EXCEPT !.stage = "asked", !.defer = FALSE]
       /\ UNCHANGED <<disk, state, clangd, forced, events, stray>>
Resume == /\ job.stage = "resume"
          /\ \/ /\ job' = [job EXCEPT !.stage = "asked", !.defer = FALSE] /\ UNCHANGED <<state, events>>
             \/ Event /\ Fails
          /\ UNCHANGED <<disk, clangd, barrier, forced, stray>>

Next == \/ BaseReplaced \/ SourceSaved \/ PrepareForced \/ Unforce \/ Timeout \/ Poll
        \/ ReaderLoads \/ ReaderEnds \/ ReaderDies \/ ReaderStarts \/ Reloads \/ SourceRestarts \/ AttachTimesOut
        \/ \E b \in Builds : BuildStarts(b[1]) \/ BuildEnds(b[1], b[2], b[3])
        \/ BuildFails
        \/ Worker \/ WorkerFails \/ Answer \/ Resume
Spec == Init /\ [][Next]_vars

-----------------------------------------------------------------------------
(* A database that only grows by a later phase does not reach clangd while  *)
(* the barrier of the stage before stands, whoever publishes it and whatever *)
(* happened since it was asked for; unless a strict receipt is in it        *)
(* (_phase_barrier.lua, _publication_async.lua).                            *)
Coming == IF job.stage = "building" THEN artifacts'[Rank(job.phase)] ELSE job.built
NotOvertaken ==
    live' # live /\ AppendOnly(live.units, live'.units) /\ selection # None =>
        LET built == Coming IN
            \/ built.phase = "current" \/ built.gen # selection.gen
            \/ \E i \in Present(built.gen, With(built)) : With(built)[i].strict
            \/ forced \/ ~Pending(barrier) \/ ~Valid(barrier)

(* A stage counts as indexed when its own reader, up and idle, has read the *)
(* database it was published with; unless that is the leftover of a failed  *)
(* publication, or was found as it was (_phase_barrier.lua).                *)
IndexedIsEarned ==
    barrier' # barrier /\ barrier' # None /\ barrier'.status = "indexed" =>
        /\ reader'.id = barrier'.client /\ reader'.up /\ ~reader'.busy
        /\ reader'.at = live'.stamp \/ stray = live.stamp

Whole(g, arts, units) == UNION units = UNION {Commands(arts[i]) : i \in Present(g, arts)}
(* An artifact holds the commands of the generation it is named after.      *)
OfItsOwn(a) == Commands(a) = Original[a.phase][a.gen]
AllOfTheirOwn(g, arts) == \A i \in Present(g, arts) : OfItsOwn(arts[i])

(* Ready means published: clangd's database compiles every command that the *)
(* artifacts of the selected generation hold, and none twice; what is newly *)
(* selected is named after the base database as it is, and all but the full *)
(* build's hold its commands; within a generation, in whatever order its    *)
(* phases end, the selected phase never falls back, and as long as its      *)
(* artifacts hold the commands of that generation coverage never shrinks    *)
(* (_build.lua finalize).                                                   *)
ReadyIsPublished ==
    status' = "ready" =>
        /\ \A u, v \in live'.units : u = v \/ u \cap v = {}
        /\ Whole(selection'.gen, artifacts', live'.units)
        /\ selection' # selection => selection'.gen = base
        /\ \A i \in Present(selection'.gen, artifacts') : artifacts'[i].phase # "full" => OfItsOwn(artifacts'[i])
        /\ selection # None /\ selection'.gen = selection.gen =>
              /\ Rank(selection.phase) <= Rank(selection'.phase)
              /\ /\ Whole(selection.gen, artifacts, live.units)
                 /\ AllOfTheirOwn(selection.gen, artifacts) /\ AllOfTheirOwn(selection.gen, artifacts')
                 => UNION live.units \subseteq UNION live'.units

(* What navigation is served is of the generation it names: the openspec of *)
(* cpp-semantic-index-coverage binds every generation to the contents of    *)
(* its compile database.  Not so when the base is replaced while the full   *)
(* build runs.                                                              *)
ReadyIsOfItsOwn == status' = "ready" => AllOfTheirOwn(selection'.gen, artifacts')

(* A publication that waits for a stage hangs on a record that still has    *)
(* its deadline, whatever becomes of the reader (_phase_barrier.lua).       *)
NobodyWaitsInVain == job.stage = "waiting" => Pending(barrier) /\ barrier.waits
=============================================================================
