---------------------------- MODULE StrictProof ----------------------------
(***************************************************************************)
(* Strict qualification of batches (src/tools/cdb_verified_batch.py): one  *)
(* `accelerate` run at a time walks the groups of a compile database.  A   *)
(* group is proved by indexing every original alone, freezing the bytes    *)
(* the originals read, indexing one candidate from the frozen bytes, and   *)
(* comparing its graph with the union of the originals' graphs.  The       *)
(* verdict is cached with the bytes and the directory listing it binds.    *)
(* The project's files may change at any moment, a run may die at any      *)
(* moment, and the admission policy may change between runs.               *)
(*                                                                         *)
(* Abstracted: a file is its version; version 0 is an absent file.  All    *)
(* include roots are one listing.  A symbol-level disagreement of a        *)
(* candidate is the datum Clash (GraphRules models its rules).  Evidence   *)
(* of the compiler driver is QueryProfile's.                               *)
(***************************************************************************)
EXTENDS Naturals, FiniteSets, Sequences

CONSTANTS Entries,    \* positions of the original unity entries
          Files,      \* files that compiles read
          Includes,   \* [Entries -> SUBSET Seq(Files)]: one search path each
          Values,     \* [Files -> SUBSET Nat]: versions a file takes
          Chunk,      \* the groups packing makes of all entries, in order
          Clash,      \* [policies -> [groups -> "none", "order", ...]]
          Limit,      \* max_new_groups of a bounded prepare
          MaxEdits,   \* bound on changes of files and of the policy
          MaxCrashes  \* bound on deaths of the run

VARIABLES disk,       \* [Files -> Nat]
          policy,     \* identity of the admission code on disk
          edits, crashes,
          receipts,   \* the receipt cache: a function of groups
          originals,  \* the cache of independent original graphs
          hints,      \* accepted-groups.json: groups worth looking up
          published,  \* the groups of the background database last returned
          job,        \* the running accelerate call
          work        \* the group it proves, and what it has of the proof
vars == <<disk, policy, edits, crashes, receipts, originals, hints,
          published, job, work>>

Policies == DOMAIN Clash
Groups == UNION {{g \in SUBSET Chunk[i] : Cardinality(g) > 1} : i \in DOMAIN Chunk}
Nothing == [kind |-> "nothing"]
Idle == [stage |-> "idle"]
NoWork == [stage |-> "none"]

-----------------------------------------------------------------------------
(* What a compile sees. *)

Listing == {f \in Files : disk[f] # 0}

Present(d) == {f \in DOMAIN d : d[f] # 0}
Found(path, d) == {path[i] : i \in {i \in 1..Len(path) :
    /\ path[i] \in Present(d)
    /\ \A j \in 1..(i - 1) : path[j] \notin Present(d)}}

(* Every include resolves; otherwise the private index reports compiler     *)
(* errors.                                                                  *)
Compiles(e, d) == \A path \in Includes[e] : Found(path, d) # {}

(* The graph of translation units es: the versions of the files they read   *)
(* and the include edges.                                                   *)
Graph(es, d) ==
    LET read(e) == UNION {Found(path, d) : path \in Includes[e]} IN
    [nodes |-> UNION {{<<f, d[f]>> : f \in read(e)} : e \in es},
     edges |-> UNION {{<<e, f>> : f \in read(e)} : e \in es}]

FilesOf(nodes) == {n[1] : n \in nodes}
AsDisk(nodes) == [f \in FilesOf(nodes) |-> (CHOOSE n \in nodes : n[1] = f)[2]]
BytesHold(nodes) == \A n \in nodes : disk[n[1]] = n[2]

(* compare_graphs on sources: the originals agree with each other on every  *)
(* file's bytes, and the candidate read the same files, bytes and edges.    *)
\* Fault seed: the originals are not compared with each other.
SourcesUncompared(graphs, cand) ==
    LET all == {graphs[e] : e \in DOMAIN graphs} IN
    /\ FilesOf(cand.nodes) = FilesOf(UNION {g.nodes : g \in all})
    /\ cand.edges = UNION {g.edges : g \in all}
SourcesAgree(graphs, cand) ==
    LET all == {graphs[e] : e \in DOMAIN graphs}
        nodes == UNION {g.nodes : g \in all} IN
    /\ \A m, n \in nodes : m[1] = n[1] => m = n
    /\ cand.nodes = nodes
    /\ cand.edges = UNION {g.edges : g \in all}

(* The verdict of _admit for a candidate in the given order.                *)
Verdict(pol, g, graphs, cand, swapped) ==
    IF ~SourcesAgree(graphs, cand) THEN "sources"
    ELSE IF Clash[pol][g] = "order" THEN IF swapped THEN "accepted" ELSE "order"
    ELSE IF Clash[pol][g] = "symbols" THEN "symbols"
    ELSE "accepted"

-----------------------------------------------------------------------------
(* Cached evidence. *)

(* The listing a run compares with: the one it memoized, once it has one.   *)
RunListing == IF job.memo = {} THEN Listing ELSE CHOOSE l \in job.memo : TRUE

(* _cache_valid in a run: bytes first, then the run's listing.              *)
Usable(r) == r # Nothing /\ BytesHold(r.files) /\ RunListing = r.listing

(* _cached_original: an independent graph of the same admission code.       *)
OriginalUsable(o) == Usable(o) /\ o.policy = job.policy

Memo(r) == IF r # Nothing /\ BytesHold(r.files) THEN {RunListing} ELSE job.memo

(* Whose turn it is: larger hints first; of the packed groups those of the   *)
(* first chunks, or the small ones in a bounded prepare; and the pieces of a *)
(* refused group before the next group.                                      *)
Foremost(gs, Before(_, _)) == {g \in gs : \A h \in gs \ {g} : Before(g, h)}
Earlier(a, b) == \E i \in a \ b : \A j \in b \ a : i < j
SmallerFirst(a, b) == \/ Cardinality(a) < Cardinality(b)
                      \/ Cardinality(a) = Cardinality(b) /\ Earlier(a, b)
LargerFirst(a, b) == \/ Cardinality(a) > Cardinality(b)
                     \/ Cardinality(a) = Cardinality(b) /\ Earlier(a, b)
Packing(a, b) == \E i, j \in DOMAIN Chunk : i < j /\ a \subseteq Chunk[i] /\ b \subseteq Chunk[j]
Turn == IF job.stage = "hints" THEN Foremost(job.todo, LargerFirst)
        ELSE IF job.pieces # {} THEN Foremost(job.pieces, Earlier)
        ELSE IF Limit = 0 THEN Foremost(job.todo, Packing) ELSE Foremost(job.todo, SmallerFirst)

(* The hints that name groups of this database.                             *)
Eligible == hints \cap Groups

(* Packing of the entries no accepted hint has claimed.                     *)
Packed(claimed) == {Chunk[i] \ claimed : i \in DOMAIN Chunk} \cap Groups

(* The halves a rejected group is retried in.                               *)
Halves(g) ==
    LET lower == {i \in g : Cardinality({j \in g : j < i}) < Cardinality(g) \div 2}
    IN  {lower, g \ lower} \cap Groups

-----------------------------------------------------------------------------
Init ==
    /\ disk = [f \in Files |-> CHOOSE v \in Values[f] : \A w \in Values[f] : v <= w]
    /\ policy = CHOOSE p \in Policies : TRUE
    /\ edits = 0 /\ crashes = 0
    /\ receipts = [g \in Groups |-> Nothing]
    /\ originals = [e \in Entries |-> Nothing]
    /\ hints = {} /\ published = {} /\ job = Idle /\ work = NoWork

environment == <<disk, policy, edits, crashes>>
stores == <<receipts, originals, hints, published>>

(* The environment: an edit, an installed policy, the death of the run.     *)
Edit(f) ==
    /\ edits < MaxEdits /\ edits' = edits + 1
    /\ \E v \in Values[f] \ {disk[f]} : disk' = [disk EXCEPT ![f] = v]
    /\ UNCHANGED <<policy, crashes, stores, job, work>>

Upgrade ==
    /\ edits < MaxEdits /\ edits' = edits + 1
    /\ policy' \in Policies \ {policy}
    /\ UNCHANGED <<disk, crashes, stores, job, work>>

Crash ==
    /\ job # Idle /\ crashes < MaxCrashes /\ crashes' = crashes + 1
    /\ job' = Idle /\ work' = NoWork
    /\ UNCHANGED <<disk, policy, edits, stores>>

(* A run starts: verify_missing or a look at the caches only.  The code it  *)
(* has imported is its policy from here on.                                 *)
Start(verify) ==
    /\ job = Idle
    /\ job' = [stage |-> "hints", verify |-> verify, policy |-> policy, memo |-> {},
               todo |-> Eligible, pieces |-> {}, claimed |-> {}, tries |-> 0, batches |-> 0]
    /\ UNCHANGED <<environment, stores, work>>

(* A hint is served only when its record is a full current acceptance.      *)
\* Fault seed: under whatever policy it was accepted.
ServableUnderAny(r) == r # Nothing /\ r.accepted
Servable(r) == r # Nothing /\ r.accepted /\ r.policy = job.policy
Hint(g) ==
    /\ job.stage = "hints" /\ g \in Turn
    /\ LET r == receipts[g]
           looked == g \cap UNION job.claimed = {} /\ Servable(r)
       IN  job' = [job EXCEPT
             !.todo = @ \ {g},
             !.claimed = IF looked /\ Usable(r) THEN @ \cup {g} ELSE @,
             !.memo = IF looked THEN Memo(r) ELSE @]
    /\ UNCHANGED <<environment, stores, work>>

Pack ==
    /\ job.stage = "hints" /\ job.todo = {}
    /\ job' = [job EXCEPT !.stage = "chunks", !.todo = Packed(UNION job.claimed)]
    /\ UNCHANGED <<environment, stores, work>>

Between == job.stage = "chunks" /\ work = NoWork

\* Fault seed: a rejection is proved again on every run.
CachedButRejections(r) ==
    Usable(r) /\ r.policy = job.policy /\ (r.accepted \/ r.reason = "compile")
Cached(r) == Usable(r) /\ (r.policy = job.policy \/ (job.verify /\ r.reason = "compile"))
MayProve == Limit = 0 \/ (job.batches = 0 /\ job.tries < Limit)

(* The pieces of group g to try when it is refused for a reason.            *)
AfterRefusal(g, reason) ==
    IF job.verify /\ Cardinality(g) > 2 /\ reason = "admission" THEN Halves(g) ELSE {}

(* A current record answers for the group: accepted, or refused as before.  *)
ServeCached(g) ==
    /\ Between /\ g \in Turn
    /\ LET r == receipts[g] IN
       /\ Cached(r)
       /\ job' = [job EXCEPT
             !.memo = {RunListing}, !.todo = @ \ {g},
             !.pieces = (@ \ {g}) \cup (IF r.accepted THEN {} ELSE AfterRefusal(g, r.reason)),
             !.claimed = IF r.accepted THEN @ \cup {g} ELSE @]
    /\ UNCHANGED <<environment, stores, work>>

(* No current record: left for later, or proved in this run.  A record of   *)
(* another policy lends its graphs; only the admission is repeated.         *)
Defer(g) ==
    /\ Between /\ g \in Turn
    /\ LET r == receipts[g] IN
       /\ ~Cached(r) /\ (~job.verify \/ ~MayProve)
       /\ job' = [job EXCEPT
             !.todo = @ \ {g}, !.pieces = @ \ {g},
             !.memo = IF r # Nothing /\ (job.verify \/ r.policy = job.policy) THEN Memo(r) ELSE @]
    /\ UNCHANGED <<environment, stores, work>>

BeginProof(g) ==
    /\ Between /\ g \in Turn /\ job.verify /\ MayProve
    /\ LET r == receipts[g] IN
       /\ ~Cached(r)
       /\ work' = IF Usable(r)
             THEN [group |-> g, stage |-> "admit", graphs |-> r.graphs, seen |-> r.seen,
                   frozen |-> r.files, cand |-> r.cand, swapped |-> r.swapped,
                   replay |-> TRUE, fresh |-> {}]
             ELSE [group |-> g, stage |-> "originals", graphs |-> <<>>, seen |-> <<>>,
                   frozen |-> {}, cand |-> Nothing, swapped |-> FALSE,
                   replay |-> FALSE, fresh |-> {}]
    /\ job' = [job EXCEPT !.todo = @ \ {g}, !.pieces = @ \ {g}, !.memo = {RunListing},
                          !.tries = @ + 1]
    /\ UNCHANGED <<environment, stores>>

(* The proof of the group ends: refused for a reason, or accepted.          *)
Refuse(reason) ==
    /\ job' = [job EXCEPT !.pieces = @ \cup AfterRefusal(work.group, reason)]
    /\ work' = NoWork
Fail == Refuse("other") /\ UNCHANGED receipts

(* The next original: its cached graph, or an index of it alone.            *)
Put(f, e, x) == [i \in DOMAIN f \cup {e} |-> IF i = e THEN x ELSE f[i]]
Add(e, graph, seen, fresh) ==
    /\ work' = [work EXCEPT !.graphs = Put(@, e, graph), !.seen = Put(@, e, seen),
                            !.fresh = @ \cup fresh]
    /\ UNCHANGED <<job, receipts>>
Left == work.group \ DOMAIN work.graphs
IndexOriginal ==
    /\ work.stage = "originals"
    /\ \E e \in Left :
       /\ \A j \in Left : e <= j
       /\ LET o == originals[e] IN
          IF OriginalUsable(o) THEN Add(e, o.graph, o.seen, {})
          ELSE IF Compiles(e, disk) THEN Add(e, Graph({e}, disk), Listing, {e})
          ELSE Fail
    /\ UNCHANGED <<environment, originals, hints, published>>

(* _freeze: the bytes of every file that was read, as they are now.         *)
Frozen(read) == {<<f, disk[f]>> : f \in read}
Freeze ==
    /\ work.stage = "originals" /\ Left = {}
    /\ LET read == FilesOf(UNION {work.graphs[e].nodes : e \in work.group}) IN
       IF read \subseteq Listing
       THEN /\ work' = [work EXCEPT !.stage = "candidate", !.frozen = Frozen(read)]
            /\ UNCHANGED <<job, receipts>>
       ELSE Fail
    /\ UNCHANGED <<environment, originals, hints, published>>

(* What is kept of a proof.  A candidate that does not compile leaves no    *)
(* graph.                                                                   *)
Refused ==
    [accepted |-> FALSE, reason |-> "compile", policy |-> job.policy,
     files |-> work.frozen, listing |-> RunListing]
Judged(accepted) ==
    [accepted |-> accepted, reason |-> "admission", policy |-> job.policy,
     files |-> work.frozen, listing |-> RunListing, graphs |-> work.graphs,
     seen |-> work.seen, cand |-> work.cand, swapped |-> work.swapped]

Keep(r) == receipts' = [receipts EXCEPT ![work.group] = r]

(* The candidate is indexed from the frozen bytes alone.  A compile error   *)
(* is a reusable rejection.                                                 *)
IndexCandidate ==
    /\ work.stage = "candidate"
    /\ LET copy == AsDisk(work.frozen) IN
       IF Clash[job.policy][work.group] = "compile" \/ \E e \in work.group : ~Compiles(e, copy)
       THEN Keep(Refused) /\ Refuse("compile")
       ELSE /\ work' = [work EXCEPT !.stage = "save", !.cand = Graph(work.group, copy)]
            /\ UNCHANGED <<job, receipts>>
    /\ UNCHANGED <<environment, originals, hints, published>>

(* _save_originals: a fresh graph is kept when every file it read has the   *)
(* frozen bytes, and the disk still has them.                               *)
Bound(e) == {n \in work.frozen : n[1] \in FilesOf(work.graphs[e].nodes)}
Savable == {e \in work.fresh : work.graphs[e].nodes \subseteq work.frozen /\ BytesHold(Bound(e))}
SaveOriginals ==
    /\ work.stage = "save"
    /\ originals' = [e \in Entries |-> IF e \in Savable
          THEN [graph |-> work.graphs[e], policy |-> job.policy, files |-> Bound(e),
                listing |-> RunListing, seen |-> work.seen[e]]
          ELSE originals[e]]
    /\ work' = [work EXCEPT !.stage = "admit", !.fresh = @ \ Savable]
    /\ UNCHANGED <<environment, receipts, hints, published, job>>

(* _admit, and the one retry with the owner of the missing symbols first,   *)
(* for which the files are read and frozen again.                           *)
Judgement == Verdict(job.policy, work.group, work.graphs, work.cand, work.swapped)
Admit ==
    /\ work.stage = "admit"
    /\ IF Judgement = "accepted"
       THEN work' = [work EXCEPT !.stage = "revalidate"] /\ UNCHANGED <<job, receipts>>
       ELSE IF Judgement = "order" /\ ~work.replay
       THEN IF FilesOf(work.frozen) \subseteq Listing
            THEN /\ work' = [work EXCEPT !.stage = "candidate", !.swapped = TRUE,
                                         !.frozen = Frozen(FilesOf(@))]
                 /\ UNCHANGED <<job, receipts>>
            ELSE Fail
       ELSE Keep(Judged(FALSE)) /\ Refuse("admission")
    /\ UNCHANGED <<environment, originals, hints, published>>

(* The dependencies' bytes once more, after the verdict.                    *)
Revalidate ==
    /\ work.stage = "revalidate"
    /\ IF BytesHold(work.frozen)
       THEN work' = [work EXCEPT !.stage = "after"] /\ UNCHANGED <<job, receipts>>
       ELSE Fail
    /\ UNCHANGED <<environment, originals, hints, published>>

(* The include inventory has not moved since the run first looked: the      *)
(* receipt and its cache record are written.                                *)
Accept ==
    /\ work.stage = "after"
    /\ IF job.memo = {Listing}
       THEN /\ Keep(Judged(TRUE))
            /\ job' = [job EXCEPT !.claimed = @ \cup {work.group}, !.batches = @ + 1]
            /\ work' = NoWork
       ELSE Fail
    /\ UNCHANGED <<environment, originals, hints, published>>

(* The end of the run: everything it compared is compared once more.        *)
Return ==
    /\ Between /\ job.todo = {} /\ job.pieces = {}
    /\ IF job.memo \subseteq {Listing}
       THEN /\ published' = job.claimed
            /\ hints' = IF job.verify THEN hints \cup job.claimed ELSE hints
       ELSE published' = {} /\ UNCHANGED hints
    /\ job' = Idle
    /\ UNCHANGED <<environment, receipts, originals, work>>

Prove == \/ \E g \in Groups : Hint(g) \/ ServeCached(g) \/ Defer(g) \/ BeginProof(g)
         \/ Pack \/ IndexOriginal \/ Freeze \/ IndexCandidate \/ SaveOriginals \/ Admit
         \/ Revalidate \/ Accept \/ Return

Next == \/ \E f \in Files : Edit(f)
        \/ Upgrade \/ Crash
        \/ \E verify \in BOOLEAN : Start(verify)
        \/ Prove

Fairness == WF_vars(Prove) /\ SF_vars(Start(TRUE))
Spec == Init /\ [][Next]_vars /\ Fairness

-----------------------------------------------------------------------------
Current(r) == BytesHold(r.files) /\ Listing = r.listing

(* A cached acceptance or original graph that still validates describes     *)
(* what the originals compile to now: no edit during the proof, undone or   *)
(* not, leaves evidence bound to bytes the compilers did not read.  (A      *)
(* listing that changed and came back between the two inventories is not    *)
(* seen: `seen` says what the original's compile saw.)                      *)
CachesDescribeDisk ==
    /\ \A g \in Groups : LET r == receipts[g] IN
        (r # Nothing /\ r.accepted /\ Current(r) /\ \A e \in g : r.seen[e] = r.listing)
        => /\ \A e \in g : Compiles(e, disk) /\ r.graphs[e] = Graph({e}, disk)
           /\ r.cand = Graph(g, disk)
    /\ \A e \in Entries : LET o == originals[e] IN
        (o # Nothing /\ Current(o) /\ o.seen = o.listing)
        => Compiles(e, disk) /\ o.graph = Graph({e}, disk)

(* A run publishes a group only on an acceptance its own policy would give, *)
(* that binds the directories as they are at publication.                   *)
PublishedIsBacked ==
    [][published' # published => \A g \in published' : LET r == receipts[g] IN
        /\ Verdict(job.policy, g, r.graphs, r.cand, r.swapped) = "accepted"
        /\ r.listing = Listing]_vars

(* Bounded prepares decide every group: what holds in the end, for good.    *)
EveryGroupDecided == \A i \in DOMAIN Chunk : receipts[Chunk[i]] # Nothing
=============================================================================
