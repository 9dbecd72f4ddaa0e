------------------------------ MODULE LiveTiers ------------------------------
(***************************************************************************)
(* Qualification of live batches (src/tools/cdb_verified_batch.py, Tiers 1 *)
(* and 2).  A run first qualifies cross-module groups against the graphs   *)
(* of their modules, then packs what they leave into ordinary groups; an   *)
(* ordinary group that mixes member classes and fails a gate is retried    *)
(* once by its same-class children.  Tier 1 receipts bind the members'     *)
(* bytes only, receipts judged on a graph bind the headers' too.           *)
(* Runs may be interrupted or die, files may change in between.            *)
(*                                                                         *)
(* Abstracted: files are two versions, members and headers; what clangd    *)
(* finds in a group is the datum Finds (GraphRules models the comparison). *)
(***************************************************************************)
EXTENDS Naturals, FiniteSets, Sequences, SequencesExt

CONSTANTS Module,   \* [entries -> modules]
          Exact,    \* entries that are exact sources, judged on graphs too
          Class,    \* [entries -> member classes]
          Cross,    \* cross-module groups: sets of modules
          Chunk,    \* ordinary packing of all entries
          Finds(_, _, _, _), \* (tier, group, members, headers): "ok", "compile", ...
          Versions, MaxEdits, MaxFaults

VARIABLES members, headers, edits, faults,
          receipts,  \* what the stores hold for a key
          modules,   \* module-graphs: [modules -> versions the graph is bound to]
          looked,    \* keys the last finished run looked up
          job
environment == <<members, headers, edits, faults>>
vars == <<environment, receipts, modules, looked, job>>

Entries == DOMAIN Module
Of(ms) == {e \in Entries : Module[e] \in ms}
Split(g) == {c \in {{e \in g : Class[e] = k} : k \in {Class[e] : e \in g}} : Cardinality(c) > 1}
Crosses(g) == Cardinality({Class[e] : e \in g}) > 1
None == [kind |-> "none"]
Idle == [stage |-> "idle"]

(* A lookup key: tier, entries, and the parent a child is a retry of.       *)
Key(tier, g, parent) == [tier |-> tier, g |-> g, of |-> parent]
Graphed(k) == k.tier = 2 \/ k.g \cap Exact # {}

Init == /\ members = 1 /\ headers = 1 /\ edits = 0 /\ faults = 0
        /\ receipts = <<>>
        /\ modules = [m \in {Module[e] : e \in Entries} |-> None]
        /\ looked = {} /\ job = Idle

-----------------------------------------------------------------------------
(* Cached verdicts (_tier1_cached, _tier2_cached, _merge_original_current). *)

Receipt(k) == IF k \in DOMAIN receipts THEN receipts[k] ELSE None

GateFailed(reason) == reason \in {"compile", "incomplete", "shards"}
SplitRejection(k, reason) == k.tier = 1 /\ k.of = {} /\ Crosses(k.g) /\ reason = "shards"

\* Fault seed: an interrupted proof counts as a rejection.
ReusableAnyway(k, reason) == TRUE
(* Only success and conclusive rejections are reusable; a timeout, a        *)
(* partial run or a changed input is not.                                   *)
Reusable(k, reason) ==
    reason \in {"ok", "compile", "graph", "include"} \/ SplitRejection(k, reason)

(* An acceptance judged on a graph binds the headers, and so does a         *)
(* rejection by the graph of an ordinary group.                             *)
BindsHeaders(k, reason) == \/ Graphed(k) /\ reason = "ok"
                           \/ reason = "graph"

Valid(k) == LET r == Receipt(k) IN
    /\ r # None /\ Reusable(k, r.reason) /\ r.members = members
    /\ BindsHeaders(k, r.reason) => r.headers = headers

(* A whole module's own graph, or that it is known not to compile.          *)
GraphHeld(m) == modules[m] = [members |-> members, headers |-> headers]
KnownBad(m) == LET k == Key(1, Of({m}), {}) IN Valid(k) /\ Receipt(k).reason = "compile"

-----------------------------------------------------------------------------
Edit ==
    /\ edits < MaxEdits /\ edits' = edits + 1
    /\ \/ members' \in Versions \ {members} /\ UNCHANGED headers
       \/ headers' \in Versions \ {headers} /\ UNCHANGED members
    /\ UNCHANGED <<faults, receipts, modules, looked, job>>

Fault == faults < MaxFaults /\ faults' = faults + 1 /\ UNCHANGED <<members, headers, edits>>
Crash == job # Idle /\ Fault /\ job' = Idle /\ UNCHANGED <<receipts, modules, looked>>

(* The groups of a run; modules known not to compile are left out of the    *)
(* cross-module packing (tier2_planning_state).                             *)
CrossGroups == {Of(c) : c \in {c \in {{m \in x : ~KnownBad(m)} : x \in Cross} :
                                 Cardinality(c) > 1}}
ChunksOf(rest) == {g \in {c \cap rest : c \in Chunk} : Cardinality(g) > 1}

Start ==
    /\ job = Idle
    /\ job' = [stage |-> "group", tier |-> 2, claimed |-> {}, looked |-> {},
               todo |-> SetToSeq({Key(2, g, {}) : g \in CrossGroups})]
    /\ UNCHANGED <<environment, receipts, modules, looked>>

(* The residual entries are packed for Tier 1; at its end the run returns.  *)
Turn ==
    /\ job.stage = "group" /\ job.todo = <<>>
    /\ IF job.tier = 2
       THEN /\ job' = [job EXCEPT !.tier = 1, !.todo =
                  SetToSeq({Key(1, g, {}) : g \in ChunksOf(Entries \ UNION job.claimed)})]
            /\ UNCHANGED looked
       ELSE job' = Idle /\ looked' = job.looked
    /\ UNCHANGED <<environment, receipts, modules>>

(* After a verdict: an accepted group claims its entries, a mixed group     *)
(* that failed a gate is retried by its children.                           *)
Judged(k, reason) ==
    [stage |-> "group", tier |-> job.tier, looked |-> job.looked \cup {k},
     claimed |-> job.claimed \cup (IF reason = "ok" THEN {k.g} ELSE {}),
     todo |-> Tail(job.todo) \o
        (IF k.tier = 1 /\ k.of = {} /\ Crosses(k.g) /\ GateFailed(reason)
         THEN SetToSeq({Key(1, c, k.g) : c \in Split(k.g)}) ELSE <<>>)]

Serve ==
    /\ job.stage = "group" /\ job.todo # <<>>
    /\ LET k == Head(job.todo) IN Valid(k) /\ job' = Judged(k, Receipt(k).reason)
    /\ UNCHANGED <<environment, receipts, modules, looked>>

Begin ==
    /\ job.stage = "group" /\ job.todo # <<>> /\ ~Valid(Head(job.todo))
    /\ job' = [stage |-> IF Graphed(Head(job.todo)) THEN "baselines" ELSE "index",
               members |-> members] @@ job
    /\ UNCHANGED <<environment, receipts, modules, looked>>

Write(k, reason) ==
    receipts' = (k :> [reason |-> reason, members |-> job.members, headers |-> headers]) @@ receipts
Finish(k, reason) == job' = Judged(k, reason)

(* The include gate of a cross-module group, then the graph of each of its  *)
(* modules on its own: cached, or indexed now.  The graph is kept when the  *)
(* members have not moved; a module's conclusive failure is kept as its     *)
(* Tier 1 receipt.                                                          *)
Baselines ==
    /\ job.stage = "baselines"
    /\ LET k == Head(job.todo)
           needed == IF k.tier = 1 THEN {} ELSE {m \in {Module[e] : e \in k.g} : ~GraphHeld(m)}
           bad == {m \in needed : Finds(1, Of({m}), members, headers) = "compile"}
       IN  IF k.tier = 2 /\ Finds(2, k.g, members, headers) = "include"
           THEN /\ Write(k, "include") /\ Finish(k, "include")
                /\ UNCHANGED <<modules, environment>>
           ELSE IF needed = {}
           THEN job' = [job EXCEPT !.stage = "index"] /\ UNCHANGED <<environment, receipts, modules>>
           ELSE \/ /\ bad = {} /\ members = job.members
                   /\ modules' = [m \in DOMAIN modules |-> IF m \in needed
                        THEN [members |-> members, headers |-> headers] ELSE modules[m]]
                   /\ UNCHANGED <<environment, receipts, job>>
                \/ /\ bad # {} /\ members = job.members
                   /\ receipts' = (k :> [reason |-> "module", members |-> members, headers |-> headers])
                        @@ [b \in {Key(1, Of({m}), {}) : m \in bad} |->
                             [reason |-> "compile", members |-> members, headers |-> headers]]
                        @@ receipts
                   /\ Finish(k, "module") /\ UNCHANGED <<environment, modules>>
                \/ /\ members # job.members \/ faults < MaxFaults
                   /\ IF members = job.members THEN Fault ELSE UNCHANGED environment
                   /\ Write(k, "timeout") /\ Finish(k, "timeout") /\ UNCHANGED modules
    /\ UNCHANGED looked

(* The candidate is indexed; a run that does not complete proves nothing.   *)
Index ==
    /\ job.stage = "index"
    /\ LET k == Head(job.todo)
           found == Finds(k.tier, k.g, members, headers)
       IN  \/ /\ job' = [stage |-> "gates", found |-> found, headers |-> headers] @@ job
              /\ UNCHANGED <<environment, receipts>>
           \/ /\ Fault
              /\ \E reason \in {"timeout", "incomplete"} : Write(k, reason) /\ Finish(k, reason)
    /\ UNCHANGED <<modules, looked>>

(* The gates in their order, and the inputs once more before an acceptance. *)
Gates ==
    /\ job.stage = "gates"
    /\ LET k == Head(job.todo)
           stale == k.tier = 2 /\ \E m \in {Module[e] : e \in k.g} : ~GraphHeld(m)
           verdict == IF job.found = "ok" /\ (members # job.members \/ stale) THEN "changed"
                      ELSE job.found
       IN  Write(k, verdict) /\ Finish(k, verdict)
    /\ UNCHANGED <<environment, modules, looked>>

Step == Turn \/ Serve \/ Begin \/ Baselines \/ Index \/ Gates
Next == Edit \/ Crash \/ Start \/ Step
Spec == Init /\ [][Next]_vars /\ WF_vars(Step) /\ SF_vars(Start)

-----------------------------------------------------------------------------
(* A main shard that is missing is judged anew by every run where no retry  *)
(* by children exists; everything else a run looks up is settled in the     *)
(* end, by a verdict and never by an interruption that sticks.              *)
Settled(k) == \/ Valid(k) /\ Receipt(k).reason \in {"ok", "compile", "graph", "include", "shards"}
              \/ Receipt(k) # None /\ Receipt(k).reason = "shards"
VerdictsSettle == \A k \in looked : Settled(k)
=============================================================================
