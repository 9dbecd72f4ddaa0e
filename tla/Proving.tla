------------------------------- MODULE Proving -------------------------------
(* The parts that decide which batches are proved, side by side: the queue,  *)
(* the strict and live qualifications, the residual scan and the graph       *)
(* rules; the publication of a database in stages; and the gate that decides *)
(* whether debugging on iOS works.                                           *)
(* A behaviour runs one of them, which `part` names; the others keep their   *)
(* initial state.                                                            *)
EXTENDS ProofQueue, TLC

CONSTANTS StrictEntries, StrictFiles, StrictIncludes, StrictValues, StrictChunk, StrictClash,
          StrictLimit, MaxStrictEdits, MaxCrashes,                    \* StrictProof
          LiveModule, LiveExact, LiveClass, LiveCross, LiveChunk, LiveFinds(_, _, _, _),
          LiveVersions, MaxLiveEdits, MaxLiveFaults,                  \* LiveTiers
          ScanPairs, ScanLimit, Packable, ScanVerdict, MaxScanEdits,
          MaxScanFaults,                                              \* ResidualScan
          Cases, Ignored, FileHeaders, HeaderFiles, DefineAt, ProvenRef(_, _),
          TypesProven,                                                \* GraphRules
          StageOriginal, StageBuilds, MaxEvents,                      \* IndexPublication
          MaxStops, MaxProbeFaults                                    \* DapProbe

VARIABLES part,
          disk, policy, strictEdits, crashes, strictReceipts, originals, hints,
          published, strictJob, strictWork,                         \* StrictProof
          members, headers, liveReceipts, modules, looked, liveJob, \* LiveTiers
          residual, scanned, outputs, previous, session,            \* ResidualScan
          case, verdict,                                            \* GraphRules
          base, revision, events, clangdCdb, frozen, artifacts, selectedStage, status, publishing,
          barrier, forced, reader, reload, delivered, delivery, stray, \* IndexPublication
          host, device, adapter, inbox, lldb, probe, report         \* DapProbe

strict == <<disk, policy, strictEdits, crashes, strictReceipts, originals, hints, published, strictJob,
            strictWork>>
live == <<members, headers, liveReceipts, modules, looked, liveJob>>
scan == <<residual, scanned, outputs, previous, session>>
rules == <<case, verdict>>
ios == <<host, device, adapter, inbox, lldb, probe, report>>
stages == <<base, revision, events, clangdCdb, frozen, artifacts, selectedStage, status, publishing,
            barrier, forced, reader, reload, delivered, delivery, stray>>
all == <<vars, part, strict, live, scan, rules, stages, ios>>

-----------------------------------------------------------------------------
P == INSTANCE StrictProof WITH Entries <- StrictEntries, Files <- StrictFiles,
       Includes <- StrictIncludes, Values <- StrictValues, Chunk <- StrictChunk,
       Clash <- StrictClash, Limit <- StrictLimit, MaxEdits <- MaxStrictEdits,
       edits <- strictEdits, receipts <- strictReceipts, job <- strictJob, work <- strictWork
L == INSTANCE LiveTiers WITH Module <- LiveModule, Exact <- LiveExact, Class <- LiveClass,
       Cross <- LiveCross, Chunk <- LiveChunk, Finds <- LiveFinds, Versions <- LiveVersions,
       MaxEdits <- MaxLiveEdits, MaxFaults <- MaxLiveFaults,
       receipts <- liveReceipts, job <- liveJob
R == INSTANCE ResidualScan WITH Pairs <- ScanPairs, Limit <- ScanLimit, Verdict <- ScanVerdict,
       MaxEdits <- MaxScanEdits, MaxFaults <- MaxScanFaults,
       receipts <- residual, catalog <- scanned
G == INSTANCE GraphRules WITH Proven <- ProvenRef
B == INSTANCE IndexPublication WITH Original <- StageOriginal, Builds <- StageBuilds,
       live <- clangdCdb, selection <- selectedStage, job <- publishing
D == INSTANCE DapProbe WITH MaxFaults <- MaxProbeFaults

-----------------------------------------------------------------------------
(* Packing puts each entry in one chunk at most (strict_unity_chunks).       *)
ASSUME EntriesChunked == \A i \in DOMAIN StrictChunk : StrictChunk[i] \subseteq StrictEntries
ASSUME ChunksApart == \A i, j \in DOMAIN StrictChunk : i # j => StrictChunk[i] \cap StrictChunk[j] = {}

(* A build is of one of the three phases (_build.lua).                      *)
ASSUME BuildsAreOfPhases == \A b \in StageBuilds : b[1] \in {"current", "hot", "full"}

(* A batch is compared with a list of originals, one per entry.              *)
ASSUME OriginalsAreListed == \A c \in Cases :
    c.originals \in Seq({c.originals[i] : i \in DOMAIN c.originals}) /\ c.originals # <<>>

-----------------------------------------------------------------------------
InitAll ==
    /\ part \in {"queue", "strict", "live", "scan", "rules", "stages", "ios"}
    /\ Init /\ P!Init /\ L!Init /\ R!Init /\ D!Init /\ B!Init
    /\ part # "ios" => \A fact \in DOMAIN host : host[fact]
    /\ IF part = "rules" THEN G!Init ELSE case = "none" /\ verdict = G!NoVerdict

QueueStep == part = "queue" /\ Next /\ UNCHANGED <<part, strict, live, scan, rules, stages, ios>>
StrictStep(A) == part = "strict" /\ A /\ UNCHANGED <<vars, part, live, scan, rules, stages, ios>>
LiveStep(A) == /\ part = "live" /\ A
               /\ UNCHANGED <<bytes, input, proofs, catalog, plan, results, queue, workers,
                              collecting, background, response, active,
                              part, strict, scan, rules, stages, ios>>
ScanStep(A) == /\ part = "scan" /\ A
               /\ UNCHANGED <<input, proofs, catalog, plan, results, queue, workers,
                              collecting, background, response, active,
                              part, strict, live, rules, stages, ios>>
RulesStep == part = "rules" /\ G!Next /\ UNCHANGED <<vars, part, strict, live, scan, stages, ios>>
StagesStep(A) == /\ part = "stages" /\ A
                 /\ UNCHANGED <<vars, part, strict, live, scan, rules, ios>>
IosStep == /\ part = "ios" /\ D!Next
           /\ UNCHANGED <<bytes, input, proofs, catalog, plan, results, queue, workers, collecting,
                          background, response, active, edits, part, strict, live, scan, rules, stages>>

NextAll == \/ QueueStep \/ StrictStep(P!Next) \/ LiveStep(L!Next) \/ ScanStep(R!Next) \/ RulesStep
           \/ StagesStep(B!Next) \/ IosStep

SpecAll == /\ InitAll /\ [][NextAll]_all
           /\ WF_all(StrictStep(P!Prove)) /\ SF_all(StrictStep(P!Start(TRUE)))
           /\ WF_all(LiveStep(L!Step)) /\ SF_all(LiveStep(L!Start))
           /\ WF_all(ScanStep(R!Plan)) /\ WF_all(ScanStep(R!Job))

-----------------------------------------------------------------------------
(* The caches of strict proofs describe what is on disk (StrictProof).       *)
CachesDescribeDisk == P!CachesDescribeDisk

(* What is published is backed: a strict run publishes only what its own     *)
(* policy admits, bound to the directories as they are (StrictProof); what   *)
(* an editor calls ready is the whole of what the artifacts of its           *)
(* generation hold, under the name of the base database as it is, every      *)
(* command once, and never less than before as long as they are of that      *)
(* generation (IndexPublication).                                            *)
PublishedIsBacked ==
    [][/\ part = "strict" /\ published' # published => \A g \in published' :
            LET r == strictReceipts[g] IN
            /\ P!Verdict(strictJob.policy, g, r.graphs, r.cand, r.swapped) = "accepted"
            /\ r.listing = P!Listing
       /\ part = "stages" => B!ReadyIsPublished]_all

(* An editor calls ready only what is of the generation it names             *)
(* (IndexPublication).                                                       *)
ReadyIsOfItsOwn == [][part = "stages" => B!ReadyIsOfItsOwn]_all

(* Bounded work is done in the end: strict prepares decide every group       *)
(* (StrictProof), and what a live run looks up gets a verdict (LiveTiers).   *)
WorkIsDone == <>[](/\ part = "strict" => P!EveryGroupDecided
                   /\ part = "live" => L!VerdictsSettle)

(* The residual scan comes back to every pair (ResidualScan).                *)
NoPairStarves == part = "scan" => R!NoPairStarves

(* Stages reach clangd in order: while the barrier of one stands, the        *)
(* database does not grow by the next; one counts as indexed only when its   *)
(* own reader has worked it off; and a publication that waits for one is     *)
(* released when that ends (IndexPublication).                               *)
StagesInOrder == [][B!NotOvertaken /\ B!IndexedIsEarned /\ B!NobodyWaitsInVain']_all

(* The graph rules judge the set of originals (GraphRules).                  *)
AdmissionIsOfSets == part = "rules" => G!AdmissionIsOfSets

(* A passing report of the gate is earned (DapProbe).                        *)
PassedIsEarned ==
    [][report' = "passed" /\ report # "passed" =>
        /\ host.files /\ host.match /\ host.dsym /\ host.loaded
        /\ device.hit # "none" /\ device.who = "app" /\ device.held = "none"]_all

(* A passing report says that the application stopped in the requested line *)
(* (DapProbe).                                                              *)
PassedAtTheTop == [][report' = "passed" /\ report # "passed" => device.hit = "top"]_all
=============================================================================
