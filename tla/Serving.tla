------------------------------- MODULE Serving -------------------------------
(* The parts that make, keep and hand out what batches are served from, side *)
(* by side: the activation of a publication, the cohort handoff, the reindex *)
(* after a switch, the wrapping of sources and the packing of batches, the   *)
(* unity receipt, the build of the background database, the repair of header *)
(* shards, a private run of clangd and the query of its driver.              *)
(* A behaviour runs one of them, which `part` names; the others keep their   *)
(* initial state.                                                            *)
EXTENDS Activation, TLC

CONSTANTS GroupOf, CohortHeaders, Uses, Driver, Readers,     \* Cohort
          Includes, Mains, Inventory, Helpers, MaxPrepares, MaxWorkers, \* SwitchReindex
          Packings, Unknown, Budgets,                       \* UnityChunks
          Generated, Databases, Builds, Home, Unities, Folder, Apple, TrustedUnities, MaxOriginals,
          MaxRewrites,                                      \* SuperUnity
          Member, Dependency, Response, Passes,             \* UnityReceipt
          MaxBuildFaults,                                   \* BackgroundBuild
          Headers, Spellings, Under, InScope, Aliased,      \* HeaderRepair
          RunMains, MainEvidence,                           \* BatchRunner
          Drivers, Gives, Supported                         \* QueryProfile

VARIABLES part,
          sources, lock, producer, cohortShards, receipts, cohortManifest, result, reader, \* Cohort
          tree, prepares, cdb, shards, written, manifest, due, missed, switcher, \* SwitchReindex
          entries, budget, plan,                                                 \* UnityChunks
          commands, authored, wrappers, overlay, units, merging,                 \* SuperUnity
          read, files, run,                                                      \* UnityReceipt
          active, proofs, subset, stage, scratch, outputs, saved, last, build, report, \* BackgroundBuild
          names, repaired, overlays, shard, editing, migrations, repairer, overwritten, \* HeaderRepair
          drivers, resolves, lookup, asker, query, check, proof, uses,           \* QueryProfile
          process, ran, stored, stdout, stderr, seen, messages, runner, runResult, runFaults \* BatchRunner

own == <<disk, info, dirty, latest, record, helper, events, client, answer>>
cohort == <<sources, lock, producer, cohortShards, receipts, cohortManifest, result, reader>>
switch == <<tree, prepares, cdb, shards, written, manifest, due, missed, switcher>>
chunks == <<entries, budget, plan>>
super == <<commands, authored, wrappers, overlay, units, merging>>
receipt == <<read, files, run>>
building == <<active, proofs, subset, stage, scratch, outputs, saved, last, build, report>>
repair == <<names, repaired, overlays, shard, editing, migrations, repairer, overwritten>>
clangd == <<process, ran, stored, stdout, stderr, seen, messages, runner, runResult, runFaults>>
querying == <<drivers, resolves, lookup, asker, query, check, proof, uses>>
batches == <<cohort, switch, chunks, super, receipt>>
tools == <<building, repair, clangd, querying>>
all == <<vars, part, batches, tools>>

-----------------------------------------------------------------------------
C == INSTANCE Cohort WITH Group <- GroupOf, Headers <- CohortHeaders,
       disk <- sources, shards <- cohortShards, manifest <- cohortManifest
S == INSTANCE SwitchReindex WITH disk <- tree, helper <- switcher
U == INSTANCE UnityChunks WITH Inputs <- Packings
P == INSTANCE SuperUnity WITH Vouched <- TrustedUnities, MaxEdits <- MaxRewrites,
       cdb <- commands, build <- authored, job <- merging
R == INSTANCE UnityReceipt WITH disk <- read
(* A subset's build and the full one, each with its own outputs.             *)
G == INSTANCE BackgroundBuild WITH Phase <- {"hot"}, MaxFaults <- MaxBuildFaults, job <- build
F == INSTANCE BackgroundBuild WITH Phase <- {"full"}, MaxFaults <- MaxBuildFaults, job <- build
H == INSTANCE HeaderRepair WITH cdb <- repaired, files <- overlays, clangd <- editing,
       manifest <- migrations, helper <- repairer
B == INSTANCE BatchRunner WITH Mains <- RunMains, Evidence <- MainEvidence,
       clangd <- process, result <- runResult
Q == INSTANCE QueryProfile WITH disk <- drivers, clangd <- asker, receipt <- proof, served <- uses

-----------------------------------------------------------------------------
(* Readers are processes, no states of the lock; the headers of a cohort are *)
(* those that its members include, directly or not.                          *)
ASSUME ReadersApart == Readers \cap {"absent", "free", "producer"} = {}
ASSUME HeadersAreUsed == \A closed \in SUBSET C!Sources :
    C!Members \subseteq closed /\ UNION {Uses[s] : s \in closed} \subseteq closed => closed = C!Sources

(* The members' commands come from a file that the unity was read with.      *)
ASSUME ResponseIsRead == Response \in Dependency /\ Passes \in Nat
(* A switch knows finitely many sources and asks for a number of workers.    *)
ASSUME SourcesAreFinite == IsFiniteSet(S!Sources) /\ MaxWorkers \in Nat

(* Databases to be packed are sequences of entries, whose sizes are numbers  *)
(* where they can be read; budgets are numbers, and so is a size too large.  *)
IsList(x) == Len(x) \in Nat /\ x = [k \in 1..Len(x) |-> x[k]]
ASSUME PackingsAreSized ==
    /\ \A E \in Packings : IsList(E) /\ \A i \in DOMAIN E :
          (E[i].size = Unknown \/ E[i].size \in Nat) /\ E[i].sources \in Nat
    /\ \A b \in Budgets : b.bytes \in Nat /\ b.unities \in Nat /\ b.sources \in Nat
(* Per-file databases are sequences of commands of known sources, and a      *)
(* unity file is what it includes, in order.                                 *)
ASSUME CommandsAreListed ==
    /\ \A D \in Databases : IsList(D) /\ \A i \in DOMAIN D :
          D[i] = [file |-> D[i].file, context |-> D[i].context] /\ D[i].file \in DOMAIN Home
    /\ IsList(Unities) /\ \A k \in DOMAIN Unities : \A made \in Builds : IsList(made.manifest[Unities[k]])

(* The document in the buffer is a file that the receipts bind.              *)
ASSUME DocumentIsRead == Document \in Dependencies
ASSUME AttemptsAreCounted == MaxAttempts \in Nat

-----------------------------------------------------------------------------
InitAll ==
    /\ part \in {"activation", "cohort", "switch", "chunks", "super", "receipt", "hot", "full",
                "repair", "clangd", "query"}
    /\ Init /\ C!Init /\ S!Init /\ R!Init /\ H!Init /\ B!Init /\ Q!Init
    /\ IF part = "full" THEN F!Init ELSE G!Init
    /\ part # "repair" => shard = H!NoShards
    /\ part # "query" => resolves = CHOOSE d \in Drivers : TRUE
    /\ IF part = "chunks" THEN U!Init ELSE entries = <<>> /\ budget = "none" /\ plan = U!NoPlan
    /\ IF part = "super" THEN P!Init
       ELSE /\ commands = <<>> /\ authored = "none" /\ wrappers = <<>> /\ overlay = 0
            /\ units = P!NoUnits /\ merging = P!Idle

ActivationStep == part = "activation" /\ Next /\ UNCHANGED <<part, batches, tools>>
BatchStep(name, A, others) == part = name /\ A /\ UNCHANGED <<part, own, others, tools>>
CohortStep == BatchStep("cohort", C!Next, <<switch, chunks, super, receipt>>)
SwitchStep == BatchStep("switch", S!Next, <<cohort, chunks, super, receipt>>)
ChunksStep == BatchStep("chunks", U!Next /\ UNCHANGED <<edits, faults>>, <<cohort, switch, super, receipt>>)
SuperStep == BatchStep("super", P!Next /\ UNCHANGED faults, <<cohort, switch, chunks, receipt>>)
ReceiptStep == BatchStep("receipt", R!Next, <<cohort, switch, chunks, super>>)
ToolStep(name, A, others) == part = name /\ A /\ UNCHANGED <<part, own, others, batches>>
HotStep == ToolStep("hot", G!Next, <<repair, clangd, querying>>)
FullStep == ToolStep("full", F!Next, <<repair, clangd, querying>>)
RepairStep == ToolStep("repair", H!Next, <<building, clangd, querying>>)
ClangdStep == ToolStep("clangd", B!Next /\ UNCHANGED <<edits, faults>>, <<building, repair, querying>>)
QueryStep == ToolStep("query", Q!Next /\ UNCHANGED faults, <<building, repair, clangd>>)
NextAll == \/ ActivationStep \/ CohortStep \/ SwitchStep \/ ChunksStep \/ SuperStep
           \/ ReceiptStep \/ HotStep \/ FullStep \/ RepairStep \/ ClangdStep
           \/ QueryStep
SpecAll == InitAll /\ [][NextAll]_all

-----------------------------------------------------------------------------
(* A cohort is handed to one reader, whole and as it was sealed (Cohort).    *)
HandoffIsSound ==
    [][\A r \in Readers : C!Admitted(r) =>
        /\ lock' = r /\ \A q \in Readers \ {r} : reader'[q].stage \in {"idle", "done"}
        /\ result = "qualified" /\ receipts = C!Groups
        /\ DOMAIN cohortShards = C!Sources
        /\ sources = reader[r].saw => \A s \in C!Sources : cohortShards[s] = sources[s]]_all

(* No baseline hides a change (SwitchReindex).                               *)
NoChangeMissed == S!NoChangeMissed

(* What is packed is packed once: no entry is left out, no source of a batch *)
(* is named elsewhere by anything that was read, and none is compiled twice  *)
(* as long as the wrappers are what was read of them (SuperUnity); and a     *)
(* planned batch planned again is itself (UnityChunks).                      *)
PackingIsExact == /\ part = "super" => P!EveryCommandOnce
                  /\ part = "chunks" => U!PlansReplan

(* The receipt vouches only for the compiler's commands (UnityReceipt), and  *)
(* a proof is of the driver that it names (QueryProfile).                    *)
EvidenceIsGenuine == R!EvidenceIsAuthored /\ (part = "query" => Q!OneDriver)

(* What the editor takes is one build's, and of the active database as the   *)
(* program had it, a subset's as it is now (BackgroundBuild).                *)
TakenIsOne ==
    [][build # G!Idle /\ build' = G!Idle /\ report' = "ready" =>
        /\ G!Agree(outputs[build.phase])
        /\ outputs[build.phase].semantic[1].of =
              IF build.phase = "hot" THEN active ELSE build.asked]_all

(* Failed and killed builds keep the last complete outputs (BackgroundBuild).*)
BaselineKept == IF part = "full" THEN F!BaselineKept ELSE G!BaselineKept

(* A repair ends as what it says (HeaderRepair).                             *)
RepairIsExact ==
    [][\A o \in DOMAIN migrations : H!Status(o)' # H!Status(o) => \A h \in H!Plan(o) :
        /\ H!Status(o)' = "complete" => migrations[o].saved[h] = migrations[o].plan[h]
        /\ H!Status(o)' = "restored" => \/ shard[h] = migrations[o].plan[h]
                                        \/ <<h, migrations[o].plan[h]>> \in overwritten]_all

(* A run that the cohort accepts compiled every main (BatchRunner).          *)
AcceptedIsProved == B!AcceptedIsProved
=============================================================================
