------------------------------ MODULE HeaderRepair ------------------------------
(***************************************************************************)
(* A bug of clangd 22.1.5 on Windows leaves empty index shards for headers *)
(* that are included with another spelling than theirs.  One workaround     *)
(* gives every command an overlay that maps the headers to their spelling   *)
(* on disk (workarounds/clangd/header_path_case.py); the other moves the    *)
(* empty shards away once, after the commit of such a database, so that     *)
(* clangd indexes the headers again (header_path_case_cache.py).            *)
(*                                                                         *)
(* The moves are recorded before the first one and found again by hashes    *)
(* after an interruption; clangd may start, and write, at any moment.       *)
(*                                                                         *)
(* Abstracted: a header's spelling is its version; an overlay is the        *)
(* spellings it maps, and its file is named by them; a shard is its bytes   *)
(* ("old" and "new" are empty ones).  The scan of the shards is one step.   *)
(* The caller holds the writer lease: one helper runs at a time.            *)
(***************************************************************************)
EXTENDS Naturals, FiniteSets

CONSTANTS Headers,
          Spellings,   \* 0: the header is not there
          Under,       \* [Headers -> the search directory it is found under]
          InScope,     \* search directories within the scope, not third-party
          Aliased,     \* headers outside of it that a command names by another spelling
          MaxEdits, MaxFaults  \* changes of the tree and of shards; kills and damage

VARIABLES names,     \* [Headers -> spelling], 0: not there
          cdb,       \* the committed database: the overlay of its commands
          files,     \* [overlays that were written -> "good" or "altered"]
          shard,     \* [Headers -> bytes], "none": no shard
          clangd,    \* some clangd is running
          manifest,  \* [overlays -> its migration: status, planned and saved bytes]
          helper,    \* the migration or restoration that is under way
          overwritten,  \* what clangd has written over: <<header, bytes>>
          edits, faults
vars == <<names, cdb, files, shard, clangd, manifest, helper, overwritten, edits, faults>>
tree == <<names, cdb, files>>
cache == <<shard, clangd, overwritten>>
bounds == <<edits, faults>>

Empty == {"old", "new"}
NoShards == [h \in Headers |-> "none"]
Nothing == [o \in {} |-> "none"]
Put(map, o, value) == [x \in DOMAIN map \cup {o} |-> IF x = o THEN value ELSE map[x]]
Plain == [h \in Headers |-> 0]
Idle == [job |-> "none"]

Init == /\ names \in [Headers -> {1}] /\ cdb = Plain
        /\ files = Nothing
        /\ shard \in {NoShards, [h \in Headers |-> "old"]} /\ clangd = FALSE
        /\ manifest = Nothing
        /\ helper = Idle /\ overwritten = {} /\ edits = 0 /\ faults = 0

-----------------------------------------------------------------------------
(* The world: a header is renamed or removed; clangd comes, writes shards,  *)
(* full ones or again empty ones, and goes; a helper is killed.             *)
Fault == faults < MaxFaults /\ faults' = faults + 1 /\ UNCHANGED edits
Rename == /\ edits < MaxEdits /\ edits' = edits + 1
          /\ \E h \in Headers : \E s \in Spellings \ {names[h]} : names' = [names EXCEPT ![h] = s]
          /\ UNCHANGED <<cdb, files, cache, manifest, helper, faults>>
Alter == /\ Fault /\ \E o \in DOMAIN files : files' = Put(files, o, "altered")
         /\ UNCHANGED <<names, cdb, cache, manifest, helper>>
ClangdComesOrGoes == /\ clangd' = ~clangd
                     /\ UNCHANGED <<tree, shard, overwritten, manifest, helper, bounds>>
ClangdWrites ==
    /\ clangd /\ edits < MaxEdits /\ edits' = edits + 1
    /\ \E h \in Headers, bytes \in {"new", "full"} :
          /\ shard' = [shard EXCEPT ![h] = bytes]
          /\ overwritten' = IF shard[h] = "none" THEN overwritten ELSE overwritten \cup {<<h, shard[h]>>}
    /\ UNCHANGED <<tree, clangd, manifest, helper, faults>>
Killed == /\ helper # Idle /\ Fault /\ helper' = Idle /\ UNCHANGED <<tree, cache, manifest>>

-----------------------------------------------------------------------------
(* header_path_case.py.  An overlay is valid while its file is what its     *)
(* name says and every header it maps is there under that spelling.         *)
Maps(o) == {h \in Headers : o[h] # 0}
Intact(o) == o \in DOMAIN files /\ files[o] = "good"
Valid(o) == Intact(o) /\ \A h \in Maps(o) : names[h] = o[h]

(* _collect: the headers under the search directories in scope, and files   *)
(* that a command names with another spelling.                              *)
Collected(spelled) == [h \in Headers |-> IF Under[h] \in InScope \/ h \in Aliased THEN spelled[h] ELSE 0]

Clean == cdb = Plain \/ Valid(cdb)
Strip == /\ helper = Idle /\ Clean /\ cdb # Plain /\ cdb' = Plain
         /\ UNCHANGED <<names, files, cache, manifest, helper, bounds>>
Apply == LET o == Collected(names) IN
    /\ helper = Idle /\ Clean
    /\ IF Maps(o) = {} THEN cdb' = Plain /\ UNCHANGED files
       ELSE /\ (o \in DOMAIN files => Intact(o)) /\ files' = Put(files, o, "good") /\ cdb' = o
    /\ UNCHANGED <<names, cache, manifest, helper, bounds>>

-----------------------------------------------------------------------------
(* header_path_case_cache.py: migrate.  It begins with the overlay of the   *)
(* committed database, whose file must be unchanged, and does nothing when  *)
(* there is no cache, or a migration with this identity was completed or    *)
(* taken back.  It does not begin while a clangd runs.                      *)
Status(o) == IF o \in DOMAIN manifest THEN manifest[o].status ELSE "none"
Plan(o) == {h \in Headers : manifest[o].plan[h] # "none"}
Absent == shard = NoShards /\ manifest = Nothing
Write(o, status, plan, saved) ==
    manifest' = Put(manifest, o, [status |-> status, plan |-> plan, saved |-> saved])
Leave == helper' = Idle
At(step) == helper' = [helper EXCEPT !.at = step]
Item == helper.item
Planned == manifest[helper.of].plan[Item]
Saved == manifest[helper.of].saved[Item]

Migrate ==
    /\ helper = Idle /\ cdb # Plain /\ Intact(cdb) /\ ~Absent
    /\ Status(cdb) \notin {"complete", "restored"} /\ ~clangd
    /\ IF Status(cdb) = "none" THEN Write(cdb, "planning", NoShards, NoShards)
       ELSE UNCHANGED manifest
    /\ helper' = [job |-> "migrate", of |-> cdb, at |-> "plan", todo |-> {}, item |-> "none"]
    /\ UNCHANGED <<tree, cache, bounds>>

(* An overlay that is no longer valid ends it; the plan is written once.    *)
Plans ==
    /\ helper # Idle /\ helper.at = "plan" /\ helper.job = "migrate"
    /\ LET o == helper.of
           found == [h \in Headers |-> IF h \in Maps(o) /\ shard[h] \in Empty THEN shard[h] ELSE "none"]
       IN IF ~Valid(o) \/ (Status(o) = "planning" /\ clangd) THEN Leave /\ UNCHANGED manifest
          ELSE IF Status(o) = "planning"
          THEN /\ Write(o, "pending", found, NoShards)
               /\ helper' = [helper EXCEPT !.at = "items", !.todo = {h \in Headers : found[h] # "none"}]
          ELSE helper' = [helper EXCEPT !.at = "items", !.todo = Plan(o)] /\ UNCHANGED manifest
    /\ UNCHANGED <<tree, cache, bounds>>

(* One item: moved already, or hashed, moved and hashed again.              *)
Pick == /\ helper # Idle /\ helper.at = "items"
        /\ \E h \in helper.todo : helper' = [helper EXCEPT !.item = h, !.at = "item"]
        /\ UNCHANGED <<tree, cache, manifest, bounds>>
Done == helper' = [helper EXCEPT !.at = "items", !.todo = @ \ {Item}]
Steps(job, at) == helper # Idle /\ helper.job = job /\ helper.at = at

MoveItem ==
    /\ Steps("migrate", "item")
    /\ IF Saved # "none" THEN IF Saved = Planned /\ shard[Item] = "none" THEN Done ELSE Leave
       ELSE IF ~clangd /\ shard[Item] = Planned THEN At("move") ELSE Leave
    /\ UNCHANGED <<tree, cache, manifest, bounds>>
Move == /\ Steps("migrate", "move") /\ At("check")
        /\ manifest' = [manifest EXCEPT ![helper.of].saved[Item] = shard[Item]]
        /\ shard' = [shard EXCEPT ![Item] = "none"]
        /\ UNCHANGED <<tree, clangd, overwritten, bounds>>
\* Fault seed: what was moved is not hashed again.
UnchangedAnyway == TRUE
Unchanged == Saved = Planned
Check == /\ Steps("migrate", "check") /\ (IF Unchanged THEN Done ELSE Leave)
         /\ UNCHANGED <<tree, cache, manifest, bounds>>

(* restore: every shard is there with its bytes already, or is put back; a  *)
(* shard that clangd has made since is never replaced.                      *)
Restore == /\ helper = Idle /\ ~clangd
           /\ \E o \in DOMAIN manifest :
                 helper' = [job |-> "restore", of |-> o, at |-> "items", todo |-> Plan(o), item |-> "none"]
           /\ UNCHANGED <<tree, cache, manifest, bounds>>
Original == shard[Item] = Planned
RestoreItem ==
    /\ Steps("restore", "item")
    /\ IF shard[Item] # "none" THEN IF Original THEN Done ELSE Leave
       ELSE IF Saved = Planned THEN At("back") ELSE Leave
    /\ UNCHANGED <<tree, cache, manifest, bounds>>
PutBack ==
    /\ Steps("restore", "back")
    /\ IF shard[Item] # "none" THEN Leave /\ UNCHANGED <<shard, manifest>>
       ELSE /\ Done /\ shard' = [shard EXCEPT ![Item] = Saved]
            /\ manifest' = [manifest EXCEPT ![helper.of].saved[Item] = "none"]
    /\ UNCHANGED <<tree, clangd, overwritten, bounds>>

Finish == /\ helper # Idle /\ helper.at = "items" /\ helper.todo = {} /\ Leave
          /\ manifest' = [manifest EXCEPT ![helper.of].status =
                            IF helper.job = "migrate" THEN "complete" ELSE "restored"]
          /\ UNCHANGED <<tree, cache, bounds>>

-----------------------------------------------------------------------------
Next == \/ Rename \/ Alter \/ ClangdComesOrGoes \/ ClangdWrites \/ Killed
        \/ Strip \/ Apply \/ Migrate \/ Plans \/ Pick \/ MoveItem \/ Move \/ Check
        \/ Restore \/ RestoreItem \/ PutBack \/ Finish
Spec == Init /\ [][Next]_vars

-----------------------------------------------------------------------------
(* A repair ends as what it says, after whatever interruptions: a completed *)
(* one has every shard of its plan, with the planned bytes, in its backup;  *)
(* a restored one has them back, unless clangd has written over them.       *)
RepairIsExact ==
    [][\A o \in DOMAIN manifest : Status(o)' # Status(o) => \A h \in Plan(o) :
         /\ Status(o)' = "complete" => manifest[o].saved[h] = manifest[o].plan[h]
         /\ Status(o)' = "restored" => \/ shard[h] = manifest[o].plan[h]
                                       \/ <<h, manifest[o].plan[h]>> \in overwritten]_vars
=============================================================================
