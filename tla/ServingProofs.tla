---------------------------- MODULE ServingProofs ----------------------------
(***************************************************************************)
(* Proofs about the batches that Serving hands out: the handoff of a       *)
(* cohort (Cohort), the unity receipt (UnityReceipt), the activation of a  *)
(* publication (Activation), the reindex after a switch (SwitchReindex)    *)
(* and the wrapping and merging of sources (SuperUnity).  Each has its     *)
(* inductive invariant, one lemma per action and a lemma by which a step   *)
(* of Serving is its own step or leaves its variables alone.               *)
(***************************************************************************)
EXTENDS ToolProofs

-----------------------------------------------------------------------------
(* Cohort.                                                                  *)

Producing == {"prepare", "run", "commit", "handoff"}
Checking == {"receipts", "driver", "inputs", "shards", "open"}
CohortTypes ==
    /\ sources \in [C!Sources \cup {Driver} -> Nat]
    /\ DOMAIN cohortShards \subseteq C!Sources
    /\ cohortShards = [s \in DOMAIN cohortShards |-> cohortShards[s]]
    /\ \A s \in DOMAIN cohortShards : cohortShards[s] \in Nat
    /\ "stage" \in DOMAIN producer /\ producer.stage \in Producing \cup {"idle", "claim", "done"}
    /\ producer.stage \in Producing \cup {"claim"} => "seal" \in DOMAIN producer
    /\ reader = [r \in Readers |-> reader[r]]
    /\ \A r \in Readers : /\ "stage" \in DOMAIN reader[r]
                          /\ reader[r].stage \in Checking \cup {"idle", "done"}
                          /\ reader[r].stage \in Checking => "saw" \in DOMAIN reader[r]
Holder == /\ producer.stage \in Producing => lock = "producer"
          /\ \A r \in Readers : reader[r].stage \in Checking => lock = r
(* Versions only grow: what was sealed, and what a reader saw when it came. *)
Sealed(seal) == seal # C!None =>
    seal \in [C!Sources -> Nat] /\ \A s \in C!Sources : seal[s] <= sources[s]
SealedRun ==
    /\ producer.stage \in Producing \cup {"claim"} => Sealed(producer.seal)
    /\ producer.stage \in {"idle", "claim", "prepare"} => DOMAIN cohortShards = {}
    /\ producer.stage \in Producing /\ producer.seal # C!None =>
          \A s \in DOMAIN cohortShards :
             producer.seal[s] <= cohortShards[s] /\ cohortShards[s] <= sources[s]
    /\ producer.stage = "handoff" => result = "qualified"
Manifested == cohortManifest # C!None =>
    /\ producer.stage = "done" /\ result = "qualified"
    /\ DOMAIN cohortManifest.shards = C!Sources /\ cohortManifest.inputs \in [C!Sources -> Nat]
    /\ \A s \in C!Sources : cohortManifest.shards[s] = cohortManifest.inputs[s]
Checked ==
    \A r \in Readers :
       /\ reader[r].stage \in Checking =>
             /\ reader[r].saw \in [C!Sources \cup {Driver} -> Nat]
             /\ \A s \in C!Sources : reader[r].saw[s] <= sources[s]
       /\ reader[r].stage \in Checking \ {"receipts"} =>
             cohortManifest # C!None /\ receipts = C!Groups
       /\ reader[r].stage = "shards" =>
             \A s \in C!Sources : /\ reader[r].saw[s] <= cohortManifest.inputs[s]
                                 /\ cohortManifest.inputs[s] <= sources[s]
CohortInv == CohortTypes /\ Holder /\ SealedRun /\ Manifested /\ Checked

LEMMA CohortInit == C!Init => CohortInv
BY DEF C!Init, CohortInv, CohortTypes, Holder, SealedRun, Sealed, Manifested, Checked, C!Idle, Producing, Checking

LEMMA EditStep == ASSUME CohortInv, C!Edit PROVE CohortInv'
<1> USE DEF C!Edit, Producing, Checking
<1>1. PICK f \in C!Sources \cup {Driver} : sources' = [sources EXCEPT ![f] = @ + 1]
  BY DEF CohortInv, CohortTypes
<1>2. /\ sources' \in [C!Sources \cup {Driver} -> Nat]
      /\ \A s \in C!Sources : sources[s] \in Nat /\ sources'[s] \in Nat /\ sources[s] <= sources'[s]
  BY <1>1 DEF CohortInv, CohortTypes
<1>3. CohortTypes' /\ Holder' /\ Manifested'
  BY <1>2 DEF CohortInv, CohortTypes, Holder, Manifested
<1>4. SealedRun'
  BY <1>2 DEF CohortInv, CohortTypes, SealedRun, Sealed
<1>5. Checked'
  BY <1>2 DEF CohortInv, CohortTypes, Checked, Manifested
<1>. QED BY <1>3, <1>4, <1>5 DEF CohortInv

LEMMA CrashStep == ASSUME CohortInv, C!Crash PROVE CohortInv'
<1> USE DEF C!Crash, Producing, Checking
<1>1. CohortTypes' 
  BY DEF CohortInv, CohortTypes
<1>2. Holder'
  BY DEF CohortInv, CohortTypes, Holder
<1>3. SealedRun' /\ Manifested'
  BY DEF CohortInv, CohortTypes, SealedRun, Sealed, Manifested
<1>5. Checked'
  BY DEF CohortInv, CohortTypes, Checked
<1>. QED BY <1>1, <1>2, <1>3, <1>5 DEF CohortInv

LEMMA MakeStep == ASSUME CohortInv, C!MakeGeneration PROVE CohortInv'
<1> USE DEF C!MakeGeneration, Producing, Checking, C!Idle
<1>1. PICK seal \in {C!None, [s \in C!Sources |-> sources[s]]} : producer' = [stage |-> "claim", seal |-> seal]
  OBVIOUS
<1>2. CohortTypes'
  BY <1>1 DEF CohortInv, CohortTypes
<1>3. Holder'
  BY <1>1, ReadersApart DEF CohortInv, CohortTypes, Holder
<1>4. Sealed(seal)'
  BY DEF CohortInv, CohortTypes, Sealed
<1>5. SealedRun'
  BY <1>1, <1>4 DEF CohortInv, SealedRun, Sealed
<1>6. Manifested' /\ Checked'
  BY <1>1 DEF CohortInv, Manifested, Checked
<1>. QED BY <1>2, <1>3, <1>5, <1>6 DEF CohortInv

(* The producer goes from one stage to the next with its seal.              *)
LEMMA ProducerStep ==
  ASSUME CohortInv, C!Claim \/ C!Prepare \/ C!Incomplete \/ C!Postcheck \/ C!Qualify
  PROVE  CohortInv'
<1> USE DEF Producing, Checking, C!Claim, C!Prepare, C!Incomplete, C!Postcheck, C!Qualify, C!Reject
<1>1. CohortTypes'
  BY DEF CohortInv, CohortTypes
<1>2. Holder'
  BY ReadersApart DEF CohortInv, CohortTypes, Holder
<1>3. SealedRun'
  BY DEF CohortInv, CohortTypes, SealedRun, Sealed
<1>4. Manifested' /\ Checked'
  BY DEF CohortInv, CohortTypes, Manifested, Checked
<1>. QED BY <1>1, <1>2, <1>3, <1>4 DEF CohortInv

LEMMA CommitStep == ASSUME CohortInv, NEW g, C!CommitReceipt(g) PROVE CohortInv'
<1> USE DEF Producing, Checking, C!CommitReceipt
<1>1. CohortTypes' /\ Holder'
  BY DEF CohortInv, CohortTypes, Holder
<1>2. SealedRun'
  BY DEF CohortInv, CohortTypes, SealedRun, Sealed
<1>3. Manifested' /\ Checked'
  BY DEF CohortInv, CohortTypes, Manifested, Checked
<1>. QED BY <1>1, <1>2, <1>3 DEF CohortInv

LEMMA IndexStep == ASSUME CohortInv, NEW s \in C!Sources, C!IndexSource(s) PROVE CohortInv'
<1> USE DEF Producing, Checking, C!IndexSource
<1>1. /\ DOMAIN cohortShards' = DOMAIN cohortShards \cup {s}
      /\ \A t \in DOMAIN cohortShards' : cohortShards'[t] = IF t = s THEN sources[s] ELSE cohortShards[t]
      /\ sources[s] \in Nat
      /\ producer'.stage = producer.stage /\ producer'.seal = producer.seal /\ DOMAIN producer' = DOMAIN producer
      /\ UNCHANGED <<sources, lock, receipts, cohortManifest, result, reader>>
  BY DEF CohortInv, CohortTypes
<1>2. CohortTypes' /\ Holder'
  BY <1>1 DEF CohortInv, CohortTypes, Holder
<1>3. SealedRun'
  BY <1>1 DEF CohortInv, CohortTypes, SealedRun, Sealed
<1>4. Manifested' /\ Checked'
  BY <1>1 DEF CohortInv, CohortTypes, Manifested, Checked
<1>. QED BY <1>2, <1>3, <1>4 DEF CohortInv

LEMMA HandoffStep == ASSUME CohortInv, C!Handoff PROVE CohortInv'
<1> USE DEF Producing, Checking, C!Handoff
<1>1. CohortTypes' /\ Holder' /\ SealedRun'
  BY ReadersApart DEF CohortInv, CohortTypes, Holder, SealedRun, Sealed
<1>2. cohortManifest = C!None /\ \A r \in Readers : reader[r].stage \in {"idle", "done"}
  BY ReadersApart DEF CohortInv, CohortTypes, Holder, Manifested
<1>3. Checked'
  BY <1>2 DEF Checked
<1>4. ASSUME cohortManifest' # C!None PROVE Manifested'
  <2>1. /\ C!LoaderReaches(DOMAIN cohortShards) /\ C!SealHolds(producer.seal)
        /\ cohortManifest' = [driver |-> producer.driver, shards |-> cohortShards, inputs |-> producer.seal]
    BY <1>4
  <2>2. DOMAIN cohortShards = C!Sources
    BY <2>1, HeadersAreUsed DEF C!LoaderReaches, CohortInv, CohortTypes
  <2>3. \A s \in C!Sources : sources[s] = producer.seal[s]
    BY <2>1, <2>2 DEF C!SealHolds, C!InputsHold, C!Restrict
  <2>4. \A s \in C!Sources : cohortShards[s] = producer.seal[s]
    BY <2>1, <2>2, <2>3 DEF C!SealHolds, CohortInv, CohortTypes, SealedRun, Sealed
  <2>5. producer.seal \in [C!Sources -> Nat] /\ result = "qualified"
    BY <2>1 DEF C!SealHolds, CohortInv, SealedRun, Sealed
  <2>. QED BY <2>1, <2>2, <2>4, <2>5 DEF Manifested
<1>. QED BY <1>1, <1>3, <1>4 DEF CohortInv, Manifested

LEMMA EnterStep == ASSUME CohortInv, NEW r \in Readers, C!Enter(r) PROVE CohortInv'
<1> USE DEF Producing, Checking, C!Enter, C!Idle
<1>1. CohortTypes' /\ SealedRun' /\ Manifested'
  BY DEF CohortInv, CohortTypes, SealedRun, Sealed, Manifested
<1>2. Holder'
  BY ReadersApart DEF CohortInv, CohortTypes, Holder
<1>3. Checked'
  BY DEF CohortInv, CohortTypes, Checked
<1>. QED BY <1>1, <1>2, <1>3 DEF CohortInv

(* A reader goes from check to check, or gives the lock back.               *)
LEMMA CheckStep ==
  ASSUME CohortInv, NEW r \in Readers,
         C!CheckReceipts(r) \/ C!CheckDriver(r) \/ C!CheckInputs(r) \/ C!CheckShards(r)
  PROVE  CohortInv'
<1> USE DEF Producing, Checking, C!CheckReceipts, C!CheckDriver, C!CheckInputs, C!CheckShards, C!Advance
<1>1. CohortTypes' /\ SealedRun' /\ Manifested'
  BY DEF CohortInv, CohortTypes, SealedRun, Sealed, Manifested
<1>2. Holder'
  BY ReadersApart DEF CohortInv, CohortTypes, Holder
<1>3. Checked'
  <2>1. UNCHANGED <<sources, cohortManifest, receipts>>
    OBVIOUS
  <2>2. ASSUME NEW q \in Readers, q # r
        PROVE  reader'[q] = reader[q]
    BY <2>2 DEF CohortInv, CohortTypes
  <2>3. \/ reader'[r].stage = "done"
        \/ /\ reader'[r].saw = reader[r].saw /\ reader[r].stage \in Checking
           /\ \/ /\ C!CheckReceipts(r) /\ reader'[r].stage = "driver"
                 /\ cohortManifest # C!None /\ receipts = C!Groups
              \/ reader[r].stage \in Checking \ {"receipts"} /\ reader'[r].stage \in {"inputs", "open"}
              \/ /\ reader[r].stage = "inputs" /\ reader'[r].stage = "shards"
                 /\ C!InputsHold(cohortManifest.inputs)
    BY DEF CohortInv, CohortTypes
  <2>4. C!InputsHold(cohortManifest.inputs) /\ cohortManifest # C!None =>
          \A s \in C!Sources : sources[s] = cohortManifest.inputs[s]
    BY DEF C!InputsHold, CohortInv, Manifested
  <2>5. \A s \in C!Sources : sources[s] \in Nat
    BY DEF CohortInv, CohortTypes
  <2>6. ASSUME NEW q \in Readers, q # r
        PROVE  /\ reader'[q].stage \in Checking =>
                     /\ reader'[q].saw \in [C!Sources \cup {Driver} -> Nat]
                     /\ \A s \in C!Sources : reader'[q].saw[s] <= sources[s]
               /\ reader'[q].stage \in Checking \ {"receipts"} =>
                     cohortManifest # C!None /\ receipts = C!Groups
               /\ reader'[q].stage = "shards" =>
                     \A s \in C!Sources : /\ reader'[q].saw[s] <= cohortManifest.inputs[s]
                                         /\ cohortManifest.inputs[s] <= sources[s]
    BY <2>2, <2>6 DEF CohortInv, Checked
  <2>7. reader[r].stage \in Checking =>
          /\ reader[r].saw \in [C!Sources \cup {Driver} -> Nat]
          /\ \A s \in C!Sources : reader[r].saw[s] <= sources[s]
    BY DEF CohortInv, Checked
  <2>8. reader[r].stage \in Checking \ {"receipts"} => cohortManifest # C!None /\ receipts = C!Groups
    BY DEF CohortInv, Checked
  <2>9. reader'[r].stage = "shards" =>
          \A s \in C!Sources : /\ reader'[r].saw[s] <= cohortManifest.inputs[s]
                              /\ cohortManifest.inputs[s] <= sources[s]
    BY <2>3, <2>4, <2>5, <2>7, <2>8
  <2>. QED BY <2>1, <2>3, <2>6, <2>7, <2>8, <2>9 DEF Checked
<1>. QED BY <1>1, <1>2, <1>3 DEF CohortInv

LEMMA ReaderWritesStep == ASSUME CohortInv, NEW r \in Readers, C!ReaderWrites(r) PROVE CohortInv'
<1> USE DEF Producing, Checking, C!ReaderWrites
<1>1. producer.stage = "done"
  BY DEF CohortInv, Checked, Manifested
<1>2. CohortTypes' /\ SealedRun'
  BY <1>1 DEF CohortInv, CohortTypes, SealedRun, Sealed
<1>3. Holder' /\ Manifested' /\ Checked'
  BY DEF CohortInv, Holder, Manifested, Checked
<1>. QED BY <1>2, <1>3 DEF CohortInv

LEMMA LeaveStep == ASSUME CohortInv, NEW r \in Readers, C!Leave(r) PROVE CohortInv'
<1> USE DEF Producing, Checking, C!Leave, C!Idle
<1>1. CohortTypes' /\ SealedRun' /\ Manifested'
  BY DEF CohortInv, CohortTypes, SealedRun, Sealed, Manifested
<1>2. Holder'
  BY ReadersApart DEF CohortInv, CohortTypes, Holder
<1>3. Checked'
  BY DEF CohortInv, CohortTypes, Checked
<1>. QED BY <1>1, <1>2, <1>3 DEF CohortInv

LEMMA CohortKept == ASSUME CohortInv, C!Next PROVE CohortInv'
BY EditStep, CrashStep, MakeStep, ProducerStep, CommitStep, IndexStep, HandoffStep, EnterStep, CheckStep,
   ReaderWritesStep, LeaveStep DEF C!Next, C!Produce, C!Read

HandedOver(r) ==
    /\ lock' = r /\ \A q \in Readers \ {r} : reader'[q].stage \in {"idle", "done"}
    /\ result = "qualified" /\ receipts = C!Groups
    /\ DOMAIN cohortShards = C!Sources
    /\ sources = reader[r].saw => \A s \in C!Sources : cohortShards[s] = sources[s]

(* Only the last check lets a reader in.                                    *)
LEMMA AdmittedByCheck ==
  ASSUME CohortInv, C!Next, NEW r \in Readers, C!Admitted(r)
  PROVE  /\ C!CheckShards(r) /\ cohortShards = cohortManifest.shards
<1>1. reader[r].stage # "open" /\ reader'[r].stage = "open"
  BY DEF C!Admitted
<1>2. CASE C!Edit \/ C!MakeGeneration \/ C!Claim \/ C!Prepare \/ C!Incomplete \/ C!Postcheck \/ C!Qualify \/ C!Handoff
  BY <1>1, <1>2 DEF C!Edit, C!MakeGeneration, C!Claim, C!Prepare, C!Incomplete, C!Postcheck, C!Qualify, C!Handoff
<1>3. CASE C!Crash
  BY <1>1, <1>3 DEF C!Crash, CohortInv, CohortTypes
<1>4. ASSUME NEW s, C!IndexSource(s) PROVE FALSE
  BY <1>1, <1>4 DEF C!IndexSource
<1>8. ASSUME NEW g, C!CommitReceipt(g) PROVE FALSE
  BY <1>1, <1>8 DEF C!CommitReceipt
<1>5. ASSUME NEW q \in Readers, C!Enter(q) \/ C!ReaderWrites(q) \/ C!Leave(q)
      PROVE  FALSE
  BY <1>1, <1>5 DEF C!Enter, C!ReaderWrites, C!Leave, C!Idle, CohortInv, CohortTypes
<1>6. ASSUME NEW q \in Readers, C!CheckReceipts(q) \/ C!CheckDriver(q) \/ C!CheckInputs(q)
      PROVE  FALSE
  BY <1>1, <1>6 DEF C!CheckReceipts, C!CheckDriver, C!CheckInputs, C!Advance, CohortInv, CohortTypes
<1>7. ASSUME NEW q \in Readers, C!CheckShards(q)
      PROVE  q = r /\ cohortShards = cohortManifest.shards
  BY <1>1, <1>7 DEF C!CheckShards, C!Advance, CohortInv, CohortTypes
<1>. QED BY <1>2, <1>3, <1>4, <1>5, <1>6, <1>7, <1>8 DEF C!Next, C!Produce, C!Read

LEMMA HandedOverSoundly ==
  ASSUME CohortInv, C!Next, NEW r \in Readers, C!Admitted(r)
  PROVE  HandedOver(r)
<1>1. C!CheckShards(r) /\ cohortShards = cohortManifest.shards
  BY AdmittedByCheck
<1>2. reader[r].stage = "shards" /\ lock' = lock /\ \A q \in Readers \ {r} : reader'[q] = reader[q]
  BY <1>1 DEF C!CheckShards, C!Advance, C!Admitted, CohortInv, CohortTypes
<1>3. lock = r /\ \A q \in Readers \ {r} : reader[q].stage \in {"idle", "done"}
  BY <1>2 DEF CohortInv, CohortTypes, Holder, Checking
<1>4. cohortManifest # C!None /\ receipts = C!Groups
  BY <1>2 DEF CohortInv, Checked, Checking
<1>5. result = "qualified" /\ DOMAIN cohortShards = C!Sources
  BY <1>1, <1>4 DEF CohortInv, Manifested
<1>6. ASSUME sources = reader[r].saw, NEW s \in C!Sources
      PROVE  cohortShards[s] = sources[s]
  <2>1. sources[s] <= cohortManifest.inputs[s] /\ cohortManifest.inputs[s] <= sources[s]
    BY <1>2, <1>6 DEF CohortInv, Checked
  <2>2. cohortManifest.inputs[s] = cohortManifest.shards[s] /\ sources[s] \in Nat /\ cohortManifest.inputs[s] \in Nat
    BY <1>4 DEF CohortInv, CohortTypes, Manifested
  <2>. QED BY <1>1, <2>1, <2>2
<1>. QED BY <1>2, <1>3, <1>4, <1>5, <1>6 DEF HandedOver

LEMMA CohortSteps == [NextAll]_all => C!Next \/ UNCHANGED cohort
BY DEF NextAll, ActivationStep, CohortStep, SwitchStep, ChunksStep, SuperStep, ReceiptStep, HotStep, FullStep,
       RepairStep, ClangdStep, QueryStep, BatchStep, ToolStep, all, batches, tools, cohort

LEMMA CohortStutters == CohortInv /\ UNCHANGED cohort => CohortInv'
BY DEF CohortInv, cohort, CohortTypes, Holder, SealedRun, Sealed, Manifested, Checked

(* A reader is let in alone, to a cohort that qualified whole; if no file   *)
(* moved while it was let in, every shard describes its source              *)
(* (qualify_tier1_cohort, tier1_cohort_reader_scope).                       *)
THEOREM CohortHandedOverSoundly == SpecAll => HandoffIsSound
<1>1. InitAll => CohortInv
  BY CohortInit DEF InitAll
<1>2. CohortInv /\ [NextAll]_all => CohortInv'
  BY CohortKept, CohortSteps, CohortStutters
<1>3. CohortInv /\ [NextAll]_all => \A r \in Readers : C!Admitted(r) => HandedOver(r)
  BY CohortSteps, HandedOverSoundly DEF cohort, C!Admitted
<1>4. CohortInv /\ [NextAll]_all =>
        [\A r \in Readers : C!Admitted(r) =>
           /\ lock' = r /\ \A q \in Readers \ {r} : reader'[q].stage \in {"idle", "done"}
           /\ result = "qualified" /\ receipts = C!Groups
           /\ DOMAIN cohortShards = C!Sources
           /\ sources = reader[r].saw => \A s \in C!Sources : cohortShards[s] = sources[s]]_all
  BY <1>3 DEF HandedOver
<1>. QED BY <1>1, <1>2, <1>4, PTL DEF SpecAll, HandoffIsSound

-----------------------------------------------------------------------------
(* UnityReceipt.                                                            *)

Commanded == [author : Nat, passed : 0..Passes]
Documents == [groups : SUBSET [commands : [Member -> Commanded], dependencies : [Dependency -> Nat]],
              shaders : SUBSET {"synthetic"}]
ReceiptTypes ==
    /\ read \in [Dependency -> Nat]
    /\ files \in [{"live", "stage"} -> [cdb : [Member -> Commanded], shader : {"native", "synthetic"},
                                        origin : SUBSET Documents, receipt : SUBSET Documents]]
    /\ run # R!Idle => /\ run \in [at : {"live", "stage"}, step : {"begin", "pass", "seal", "done"},
                                   pass : 0..Passes, pending : SUBSET Documents]
                       /\ run.step = "begin" => run.pass = 0
                       /\ run.step = "seal" => run.pass = Passes
(* What a document says of a unity is the compiler's, at the beginning of   *)
(* the passes or at their end; what a run carries, as far as it has come.   *)
GroupsOf(document) == UNION {d.groups : d \in document}
By(g, passed) == \A m \in Member : /\ g.commands[m].author = g.dependencies[Response] + 1
                                   /\ g.commands[m].passed = passed
Authored == \A at \in {"live", "stage"} :
    /\ \A g \in GroupsOf(files[at].origin) : By(g, 0)
    /\ \A g \in GroupsOf(files[at].receipt) : By(g, Passes)
Carrying == run # R!Idle /\ run.step \in {"pass", "seal"} =>
    \A g \in GroupsOf(run.pending), m \in Member :
       /\ files[run.at].cdb[m].author = g.dependencies[Response] + 1
       /\ files[run.at].cdb[m].passed \in {run.pass, Passes}
Synthetic(document, at) == R!Shaders(document) # {} => files[at].shader = "synthetic"
ShadersKnown ==
    /\ Synthetic(files["live"].receipt, "live")
    /\ \A at \in {"live", "stage"} : Synthetic(files[at].origin, at)
    /\ run # R!Idle =>
          /\ run.at = "stage" => files["stage"].origin # {}
          /\ run.step \in {"pass", "seal"} =>
                Synthetic(run.pending, run.at) /\ (run.at = "stage" => run.pending # {})
          /\ run.step = "done" => Synthetic(files[run.at].receipt, run.at)
ReceiptInv == ReceiptTypes /\ Authored /\ Carrying /\ ShadersKnown

LEMMA ReceiptInit == R!Init => ReceiptInv
<1> SUFFICES ASSUME R!Init PROVE ReceiptInv
  OBVIOUS
<1>1. /\ run = R!Idle /\ read = [d \in Dependency |-> 0]
      /\ files = [at \in {"live", "stage"} |-> [cdb |-> [m \in Member |-> R!Command(0, 0)], shader |-> "native",
                                               origin |-> {}, receipt |-> {}]]
  BY DEF R!Init, R!Hand
<1>2. R!Command(0, 0) \in Commanded
  BY ResponseIsRead DEF R!Command, Commanded
<1>3. ReceiptTypes
  BY <1>1, <1>2 DEF ReceiptTypes
<1>. QED BY <1>1, <1>3 DEF ReceiptInv, Authored, Carrying, ShadersKnown, Synthetic, GroupsOf, R!Shaders

LEMMA ReceiptEdit == ASSUME ReceiptInv, R!Edit PROVE ReceiptInv'
<1>1. read' \in [Dependency -> Nat] /\ UNCHANGED <<files, run>>
  BY DEF R!Edit, ReceiptInv, ReceiptTypes
<1>2. ReceiptTypes' /\ Authored' /\ Carrying'
  BY <1>1 DEF ReceiptInv, ReceiptTypes, Authored, Carrying
<1>3. ShadersKnown'
  BY <1>1 DEF ReceiptInv, ShadersKnown, Synthetic, R!Shaders
<1>. QED BY <1>2, <1>3 DEF ReceiptInv

LEMMA ReceiptHandEdit == ASSUME ReceiptInv, R!HandEdit PROVE ReceiptInv'
<1>1. PICK m \in Member : files' = [files EXCEPT !["live"].cdb[m] = R!Command(R!Hand, 0)]
  BY DEF R!HandEdit
<1>2. R!Command(R!Hand, 0) \in Commanded
  BY ResponseIsRead DEF R!Command, Commanded, R!Hand
<1>3. /\ UNCHANGED <<read, run>> /\ run = R!Idle
      /\ files'["stage"] = files["stage"]
      /\ files'["live"] = [files["live"] EXCEPT !.cdb = [files["live"].cdb EXCEPT ![m] = R!Command(R!Hand, 0)]]
      /\ DOMAIN files' = {"live", "stage"} /\ files' = [at \in {"live", "stage"} |-> files'[at]]
  BY <1>1 DEF R!HandEdit, ReceiptInv, ReceiptTypes
<1>4. [files["live"].cdb EXCEPT ![m] = R!Command(R!Hand, 0)] \in [Member -> Commanded]
  BY <1>2 DEF ReceiptInv, ReceiptTypes
<1>5. ReceiptTypes'
  BY <1>3, <1>4 DEF ReceiptInv, ReceiptTypes
<1>6. \A at \in {"live", "stage"} : /\ files'[at].origin = files[at].origin /\ files'[at].receipt = files[at].receipt
                                    /\ files'[at].shader = files[at].shader
  BY <1>3 DEF ReceiptInv, ReceiptTypes
<1>7. Authored' /\ Carrying' /\ ShadersKnown'
  BY <1>3, <1>6 DEF ReceiptInv, Authored, Carrying, ShadersKnown, Synthetic, R!Shaders, GroupsOf
<1>. QED BY <1>5, <1>7 DEF ReceiptInv

LEMMA ReceiptExport ==
  ASSUME ReceiptInv, run = R!Idle, run' = R!Begun("stage"), UNCHANGED read,
         NEW origin \in Documents, NEW author \in Nat, NEW shader \in {"native", "synthetic"},
         files' = R!Export(files, origin, author, shader),
         \A g \in origin.groups : By(g, 0), origin.shaders # {} => shader = "synthetic"
  PROVE  ReceiptInv'
<1> DEFINE new == [files["live"] EXCEPT !.origin = {origin}, !.shader = shader,
                     !.cdb = [m \in Member |-> R!Command(author, 0)]]
<1>1. files' = [files EXCEPT !["stage"] = new]
  BY DEF R!Export
<1>2. /\ new \in [cdb : [Member -> Commanded], shader : {"native", "synthetic"},
                  origin : SUBSET Documents, receipt : SUBSET Documents]
      /\ new.origin = {origin} /\ new.receipt = files["live"].receipt /\ new.shader = shader
  <2>1. [m \in Member |-> R!Command(author, 0)] \in [Member -> Commanded]
    BY ResponseIsRead DEF R!Command, Commanded
  <2>. QED BY <2>1 DEF ReceiptInv, ReceiptTypes
<1> HIDE DEF new
<1>3. /\ files'["live"] = files["live"] /\ files'["stage"] = new
      /\ run' = [at |-> "stage", step |-> "begin", pass |-> 0, pending |-> {}]
  BY <1>1 DEF ReceiptInv, ReceiptTypes, R!Begun
<1>4. ReceiptTypes'
  BY <1>1, <1>2, <1>3, ResponseIsRead DEF ReceiptInv, ReceiptTypes
<1>5. Authored'
  BY <1>2, <1>3 DEF ReceiptInv, Authored, GroupsOf
<1>6. Carrying' /\ ShadersKnown'
  BY <1>2, <1>3 DEF ReceiptInv, Carrying, ShadersKnown, Synthetic, R!Shaders
<1>. QED BY <1>4, <1>5, <1>6 DEF ReceiptInv

LEMMA ReceiptCompiler == ASSUME ReceiptInv, R!ExportCompiler PROVE ReceiptInv'
<1>1. PICK whole \in BOOLEAN, shader \in {"native", "synthetic"} :
        files' = R!Export(files, [groups |-> IF whole THEN {R!Group} ELSE {}, shaders |-> {shader} \ {"native"}],
                          R!Compiler, shader)
  BY DEF R!ExportCompiler
<1> DEFINE origin == [groups |-> IF whole THEN {R!Group} ELSE {}, shaders |-> {shader} \ {"native"}]
<1>2. R!Compiler \in Nat /\ read \in [Dependency -> Nat] /\ R!Compiler = read[Response] + 1
  BY ResponseIsRead DEF R!Compiler, ReceiptInv, ReceiptTypes
<1>3. R!Group \in [commands : [Member -> Commanded], dependencies : [Dependency -> Nat]] /\ By(R!Group, 0)
  BY <1>2, ResponseIsRead DEF R!Group, By, R!Command, Commanded
<1>4. origin \in Documents /\ (\A g \in origin.groups : By(g, 0)) /\ (origin.shaders # {} => shader = "synthetic")
  BY <1>3 DEF Documents
<1> HIDE DEF origin
<1>. QED BY <1>1, <1>2, <1>4, ReceiptExport DEF R!ExportCompiler, origin

LEMMA ReceiptImported == ASSUME ReceiptInv, R!ExportImported PROVE ReceiptInv'
<1>1. R!Nothing \in Documents /\ R!Nothing.groups = {} /\ R!Nothing.shaders = {}
  BY DEF R!Nothing, Documents
<1>. QED BY <1>1, ReceiptExport DEF R!ExportImported, R!Hand

LEMMA ReceiptInPlace == ASSUME ReceiptInv, R!RunInPlace \/ R!Fail PROVE ReceiptInv'
<1>1. UNCHANGED <<read, files>> /\ (run' = R!Idle \/ run' = [at |-> "live", step |-> "begin", pass |-> 0, pending |-> {}])
  BY DEF R!RunInPlace, R!Fail, R!Begun
<1>2. ReceiptTypes'
  BY <1>1, ResponseIsRead DEF ReceiptInv, ReceiptTypes
<1>3. Authored' /\ Carrying' /\ ShadersKnown'
  BY <1>1 DEF ReceiptInv, Authored, Carrying, ShadersKnown, Synthetic, R!Shaders
<1>. QED BY <1>2, <1>3 DEF ReceiptInv

Evident(v, given) == /\ v \in [commands : [Member -> Commanded], dependencies : [Dependency -> Nat]]
                     /\ v.commands = given /\ v.dependencies = read
LEMMA VouchedMatching ==
  ASSUME NEW document \in SUBSET Documents, NEW given \in [Member -> Commanded],
         NEW v \in R!Vouched(document, given, TRUE)
  PROVE  Evident(v, given) /\ \E h \in GroupsOf(document) : h.dependencies = read /\ h.commands = given
<1>1. PICK h \in GroupsOf(document) : h.dependencies = read /\ h.commands = given /\ v = [h EXCEPT !.commands = given]
  BY DEF R!Vouched, GroupsOf
<1>2. h \in [commands : [Member -> Commanded], dependencies : [Dependency -> Nat]]
  BY <1>1 DEF GroupsOf, Documents
<1>. QED BY <1>1, <1>2 DEF Evident

LEMMA VouchedByRun ==
  ASSUME NEW document \in SUBSET Documents, NEW given \in [Member -> Commanded],
         NEW v \in R!Vouched(document, given, FALSE)
  PROVE  Evident(v, given) /\ \E h \in GroupsOf(document) : h.dependencies = read
<1>1. PICK h \in GroupsOf(document) : h.dependencies = read /\ v = [h EXCEPT !.commands = given]
  BY DEF R!Vouched, GroupsOf
<1>2. h \in [commands : [Member -> Commanded], dependencies : [Dependency -> Nat]]
  BY <1>1 DEF GroupsOf, Documents
<1>. QED BY <1>1, <1>2 DEF Evident

LEMMA ReceiptBegin == ASSUME ReceiptInv, R!Begin PROVE ReceiptInv'
<1> DEFINE f == files[run.at]
           fresh == R!Vouched(f.origin, f.cdb, TRUE)
           known == R!Vouched(f.receipt, f.cdb, TRUE)
           pending == R!Pending(f)
<1>1. /\ run.step = "begin" /\ UNCHANGED <<read, files>>
      /\ run' = [run EXCEPT !.step = "pass", !.pending = IF R!Carried(f) THEN {pending} ELSE {}]
  BY DEF R!Begin
<1>2. /\ run # R!Idle /\ run.pass = 0 /\ run.at \in {"live", "stage"}
      /\ run \in [at : {"live", "stage"}, step : {"begin", "pass", "seal", "done"}, pass : 0..Passes,
                  pending : SUBSET Documents]
  BY <1>1 DEF ReceiptInv, ReceiptTypes, R!Idle
<1>3. /\ f.cdb \in [Member -> Commanded] /\ f.origin \in SUBSET Documents /\ f.receipt \in SUBSET Documents
      /\ f.shader \in {"native", "synthetic"}
  BY <1>2 DEF ReceiptInv, ReceiptTypes
<1>4. /\ pending.groups = IF fresh # {} THEN fresh ELSE known
      /\ pending.shaders = {s \in R!Shaders(f.origin) \cup R!Shaders(f.receipt) : R!Admissible(f, s)}
      /\ pending = [groups |-> pending.groups, shaders |-> pending.shaders]
  BY DEF R!Pending
<1>5. pending.shaders # {} => f.shader = "synthetic"
  <2>1. ASSUME NEW s \in pending.shaders PROVE f.shader = "synthetic"
    <3>1. CASE f.origin = {}
      <4>1. run.at = "live" /\ s \in R!Shaders(f.receipt)
        BY <1>2, <1>4, <2>1, <3>1 DEF ReceiptInv, ShadersKnown, R!Shaders
      <4>. QED BY <4>1 DEF ReceiptInv, ShadersKnown, Synthetic
    <3>2. CASE f.origin # {}
      <4>1. s \in R!Shaders(f.origin)
        BY <1>4, <2>1, <3>2 DEF R!Admissible
      <4>. QED BY <1>2, <4>1 DEF ReceiptInv, ShadersKnown, Synthetic
    <3>. QED BY <3>1, <3>2
  <2>. QED BY <2>1
<1>6. \A s \in pending.shaders : s = "synthetic"
  BY <1>3, <1>4 DEF R!Shaders, Documents
<1>7. ASSUME NEW g \in pending.groups
      PROVE  /\ g \in [commands : [Member -> Commanded], dependencies : [Dependency -> Nat]]
             /\ \A m \in Member : f.cdb[m].author = g.dependencies[Response] + 1 /\ f.cdb[m].passed \in {0, Passes}
  <2>1. CASE g \in fresh
    <3>1. Evident(g, f.cdb) /\ \E h \in GroupsOf(f.origin) : h.dependencies = read /\ h.commands = f.cdb
      BY <1>3, <2>1, VouchedMatching
    <3>2. PICK h \in GroupsOf(f.origin) : h.dependencies = read /\ h.commands = f.cdb
      BY <3>1
    <3>3. By(h, 0)
      BY <1>2, <3>2 DEF ReceiptInv, Authored
    <3>. QED BY <3>1, <3>3, <3>2 DEF By, Evident
  <2>2. CASE g \in known
    <3>1. Evident(g, f.cdb) /\ \E h \in GroupsOf(f.receipt) : h.dependencies = read /\ h.commands = f.cdb
      BY <1>3, <2>2, VouchedMatching
    <3>2. PICK h \in GroupsOf(f.receipt) : h.dependencies = read /\ h.commands = f.cdb
      BY <3>1
    <3>3. By(h, Passes)
      BY <1>2, <3>2 DEF ReceiptInv, Authored
    <3>. QED BY <3>1, <3>3, <3>2 DEF By, Evident
  <2>. QED BY <1>4, <1>7, <2>1, <2>2
<1>8. pending \in Documents
  BY <1>4, <1>6, <1>7 DEF Documents
<1> HIDE DEF pending, fresh, known
<1>9. /\ run'.at = run.at /\ run'.step = "pass" /\ run'.pass = 0
      /\ run'.pending = IF R!Carried(f) THEN {pending} ELSE {}
      /\ run' \in [at : {"live", "stage"}, step : {"begin", "pass", "seal", "done"}, pass : 0..Passes,
                   pending : SUBSET Documents]
  BY <1>1, <1>2, <1>8
<1>10. ReceiptTypes'
  BY <1>1, <1>9 DEF ReceiptInv, ReceiptTypes
<1>11. Authored'
  BY <1>1 DEF ReceiptInv, Authored
<1>12. Carrying'
  <2>1. \A g \in GroupsOf(run'.pending) : g \in pending.groups
    BY <1>9 DEF GroupsOf
  <2>. QED BY <1>1, <1>7, <1>9, <2>1 DEF Carrying
<1>13. ShadersKnown'
  <2>1. Synthetic(run.pending, run.at)'
    BY <1>1, <1>5, <1>9 DEF Synthetic, R!Shaders
  <2>2. run.at = "stage" => R!Carried(f) /\ files["stage"].origin # {}
    BY <1>2 DEF ReceiptInv, ShadersKnown, R!Carried
  <2>. QED BY <1>1, <1>2, <1>9, <2>1, <2>2 DEF ReceiptInv, ShadersKnown, Synthetic, R!Shaders
<1>. QED BY <1>10, <1>11, <1>12, <1>13 DEF ReceiptInv

LEMMA ReceiptPass == ASSUME ReceiptInv, R!Pass PROVE ReceiptInv'
<1> DEFINE at == run.at
           f == files[at]
<1>1. /\ run # R!Idle /\ run.step = "pass" /\ at \in {"live", "stage"} /\ UNCHANGED read
      /\ run \in [at : {"live", "stage"}, step : {"begin", "pass", "seal", "done"}, pass : 0..Passes,
                  pending : SUBSET Documents]
      /\ f \in [cdb : [Member -> Commanded], shader : {"native", "synthetic"},
                origin : SUBSET Documents, receipt : SUBSET Documents]
  BY DEF R!Pass, R!Idle, ReceiptInv, ReceiptTypes
<1>2. CASE run.pass = Passes
  <2>1. run' = [run EXCEPT !.step = "seal"] /\ UNCHANGED files
    BY <1>2 DEF R!Pass
  <2>2. /\ run'.at = run.at /\ run'.step = "seal" /\ run'.pass = Passes /\ run'.pending = run.pending
        /\ run' \in [at : {"live", "stage"}, step : {"begin", "pass", "seal", "done"}, pass : 0..Passes,
                     pending : SUBSET Documents]
    BY <1>1, <1>2, <2>1
  <2>3. ReceiptTypes' /\ Authored' /\ Carrying'
    BY <1>1, <1>2, <2>1, <2>2 DEF ReceiptInv, ReceiptTypes, Authored, Carrying
  <2>4. ShadersKnown'
    BY <1>1, <2>1, <2>2 DEF ReceiptInv, ShadersKnown, Synthetic, R!Shaders
  <2>. QED BY <2>3, <2>4 DEF ReceiptInv
<1>3. CASE run.pass # Passes
  <2> DEFINE given == [m \in Member |-> IF f.cdb[m].passed > run.pass THEN f.cdb[m]
                                      ELSE [f.cdb[m] EXCEPT !.passed = run.pass + 1]]
  <2>1. /\ run' = [run EXCEPT !.pass = run.pass + 1]
        /\ files' = [files EXCEPT ![at] = [f EXCEPT !.cdb = given]]
    BY <1>1, <1>3 DEF R!Pass, ReceiptInv, ReceiptTypes
  <2>2. run.pass + 1 \in 0..Passes /\ run.pass \in Nat
    BY <1>1, <1>3, ResponseIsRead
  <2>3. ASSUME NEW m \in Member
        PROVE  /\ given[m] \in Commanded /\ given[m].author = f.cdb[m].author
               /\ f.cdb[m].passed \in {run.pass, Passes} => given[m].passed \in {run.pass + 1, Passes}
    BY <1>1, <2>2, ResponseIsRead DEF Commanded
  <2>4. given \in [Member -> Commanded]
    BY <2>3
  <2> HIDE DEF given
  <2>5. /\ run'.at = at /\ run'.step = "pass" /\ run'.pass = run.pass + 1 /\ run'.pending = run.pending
        /\ run' \in [at : {"live", "stage"}, step : {"begin", "pass", "seal", "done"}, pass : 0..Passes,
                     pending : SUBSET Documents]
    BY <1>1, <2>1, <2>2
  <2>6. /\ files'[at].cdb = given
        /\ \A q \in {"live", "stage"} : /\ files'[q].origin = files[q].origin /\ files'[q].receipt = files[q].receipt
                                        /\ files'[q].shader = files[q].shader
    BY <1>1, <2>1 DEF ReceiptInv, ReceiptTypes
  <2>7. [f EXCEPT !.cdb = given] \in [cdb : [Member -> Commanded], shader : {"native", "synthetic"},
                                    origin : SUBSET Documents, receipt : SUBSET Documents]
    BY <1>1, <2>4
  <2>8. ReceiptTypes'
    BY <1>1, <2>1, <2>5, <2>7 DEF ReceiptInv, ReceiptTypes
  <2>9. Authored' /\ ShadersKnown'
    BY <1>1, <2>5, <2>6 DEF ReceiptInv, Authored, ShadersKnown, Synthetic, R!Shaders
  <2>10. Carrying'
    BY <1>1, <2>3, <2>5, <2>6 DEF ReceiptInv, Carrying
  <2>. QED BY <2>8, <2>9, <2>10 DEF ReceiptInv
<1>. QED BY <1>2, <1>3

LEMMA ReceiptSeal == ASSUME ReceiptInv, R!Seal PROVE ReceiptInv'
<1> DEFINE at == run.at
           f == files[at]
           sealed == R!Vouched(run.pending, f.cdb, FALSE)
           document == [groups |-> sealed, shaders |-> R!Shaders(run.pending)]
<1>1. /\ run # R!Idle /\ run.step = "seal" /\ run.pass = Passes /\ at \in {"live", "stage"} /\ UNCHANGED read
      /\ run \in [at : {"live", "stage"}, step : {"begin", "pass", "seal", "done"}, pass : 0..Passes,
                  pending : SUBSET Documents]
      /\ run' = [run EXCEPT !.step = "done"]
      /\ f \in [cdb : [Member -> Commanded], shader : {"native", "synthetic"},
                origin : SUBSET Documents, receipt : SUBSET Documents]
  BY DEF R!Seal, R!Idle, ReceiptInv, ReceiptTypes
<1>2. /\ run'.at = at /\ run'.step = "done"
      /\ run' \in [at : {"live", "stage"}, step : {"begin", "pass", "seal", "done"}, pass : 0..Passes,
                   pending : SUBSET Documents]
  BY <1>1
<1>3. CASE run.pending = {}
  <2>1. UNCHANGED files /\ at = "live"
    BY <1>1, <1>3 DEF R!Seal, ReceiptInv, ShadersKnown
  <2>2. ReceiptTypes' /\ Authored' /\ Carrying'
    BY <1>1, <1>2, <2>1 DEF ReceiptInv, ReceiptTypes, Authored, Carrying
  <2>3. ShadersKnown'
    BY <1>1, <1>2, <2>1 DEF ReceiptInv, ShadersKnown, Synthetic, R!Shaders
  <2>. QED BY <2>2, <2>3 DEF ReceiptInv
<1>4. CASE run.pending # {}
  <2>1. files' = [files EXCEPT ![at] = [f EXCEPT !.receipt = {document}]]
    BY <1>1, <1>4 DEF R!Seal, ReceiptInv, ReceiptTypes
  <2>2. ASSUME NEW v \in sealed
        PROVE  v \in [commands : [Member -> Commanded], dependencies : [Dependency -> Nat]] /\ By(v, Passes)
    <3>1. Evident(v, f.cdb) /\ \E h \in GroupsOf(run.pending) : h.dependencies = read
      BY <1>1, <2>2, VouchedByRun
    <3>2. \A m \in Member : f.cdb[m].author = read[Response] + 1 /\ f.cdb[m].passed = Passes
      BY <1>1, <3>1 DEF ReceiptInv, Carrying
    <3>. QED BY <3>1, <3>2 DEF By, Evident
  <2>3. document \in Documents
    <3>1. R!Shaders(run.pending) \subseteq {"synthetic"}
      BY <1>1 DEF R!Shaders, Documents
    <3>. QED BY <2>2, <3>1 DEF Documents
  <2>4. R!Shaders(run.pending) # {} => f.shader = "synthetic"
    BY <1>1 DEF ReceiptInv, ShadersKnown, Synthetic
  <2>5. document.groups = sealed /\ document.shaders = R!Shaders(run.pending)
    OBVIOUS
  <2> HIDE DEF document, sealed
  <2>6. /\ files'[at].receipt = {document}
        /\ \A q \in {"live", "stage"} : /\ files'[q].origin = files[q].origin /\ files'[q].shader = files[q].shader
                                        /\ q # at => files'[q].receipt = files[q].receipt
    BY <1>1, <2>1 DEF ReceiptInv, ReceiptTypes
  <2>7. [f EXCEPT !.receipt = {document}] \in [cdb : [Member -> Commanded], shader : {"native", "synthetic"},
                                               origin : SUBSET Documents, receipt : SUBSET Documents]
    BY <1>1, <2>3
  <2>8. ReceiptTypes'
    BY <1>1, <1>2, <2>1, <2>7 DEF ReceiptInv, ReceiptTypes
  <2>9. Authored'
    BY <1>1, <2>2, <2>5, <2>6 DEF ReceiptInv, Authored, GroupsOf
  <2>10. Carrying'
    BY <1>2 DEF Carrying
  <2>11. Synthetic(files[at].receipt, at)'
    BY <1>1, <1>2, <2>4, <2>5, <2>6 DEF Synthetic, R!Shaders
  <2>12. ShadersKnown'
    BY <1>1, <1>2, <2>6, <2>11 DEF ReceiptInv, ShadersKnown, Synthetic, R!Shaders
  <2>. QED BY <2>8, <2>9, <2>10, <2>12 DEF ReceiptInv
<1>. QED BY <1>3, <1>4

LEMMA ReceiptFinish == ASSUME ReceiptInv, R!Finish PROVE ReceiptInv'
<1>1. /\ run # R!Idle /\ run.step = "done" /\ run.at \in {"live", "stage"} /\ run' = R!Idle /\ UNCHANGED read
      /\ files' = [files EXCEPT !["live"] = files[run.at]]
  BY DEF R!Finish, R!Idle, ReceiptInv, ReceiptTypes
<1>2. files'["live"] = files[run.at] /\ files'["stage"] = files["stage"]
  BY <1>1 DEF ReceiptInv, ReceiptTypes
<1>3. ReceiptTypes' /\ Authored' /\ Carrying'
  BY <1>1, <1>2 DEF ReceiptInv, ReceiptTypes, Authored, Carrying
<1>4. ShadersKnown'
  BY <1>1, <1>2 DEF ReceiptInv, ShadersKnown, Synthetic, R!Shaders
<1>. QED BY <1>3, <1>4 DEF ReceiptInv

LEMMA ReceiptKept == ASSUME ReceiptInv, R!Next PROVE ReceiptInv'
BY ReceiptEdit, ReceiptHandEdit, ReceiptCompiler, ReceiptImported, ReceiptInPlace, ReceiptBegin, ReceiptPass,
   ReceiptSeal, ReceiptFinish DEF R!Next

LEMMA ReceiptIsAuthored == ReceiptInv => R!EvidenceIsAuthored
<1> SUFFICES ASSUME ReceiptInv PROVE R!EvidenceIsAuthored
  OBVIOUS
<1> DEFINE f == files["live"]
<1>1. f.cdb \in [Member -> Commanded] /\ f.receipt \in SUBSET Documents
  BY DEF ReceiptInv, ReceiptTypes
<1>2. ASSUME NEW v \in R!LoadVerified("live")
      PROVE  f.cdb = [m \in Member |-> R!Command(R!Compiler, Passes)]
  <2>1. PICK h \in GroupsOf(f.receipt) : h.dependencies = read /\ h.commands = f.cdb
    BY <1>1, <1>2, VouchedMatching DEF R!LoadVerified
  <2>2. By(h, Passes)
    BY <2>1 DEF ReceiptInv, Authored
  <2>. QED BY <1>1, <2>1, <2>2 DEF By, R!Command, R!Compiler, Commanded
<1>. QED BY <1>2 DEF R!EvidenceIsAuthored, ReceiptInv, ShadersKnown, Synthetic

LEMMA ReceiptSteps == [NextAll]_all => R!Next \/ UNCHANGED receipt
BY DEF NextAll, ActivationStep, CohortStep, SwitchStep, ChunksStep, SuperStep, ReceiptStep, HotStep, FullStep,
       RepairStep, ClangdStep, QueryStep, BatchStep, ToolStep, all, batches, tools, receipt

LEMMA ReceiptStutters == ReceiptInv /\ UNCHANGED receipt => ReceiptInv'
BY DEF ReceiptInv, receipt, ReceiptTypes, Authored, Carrying, ShadersKnown, Synthetic, R!Shaders

LEMMA ReceiptAlways == SpecAll => []ReceiptInv
<1>1. InitAll => ReceiptInv
  BY ReceiptInit DEF InitAll
<1>2. ReceiptInv /\ [NextAll]_all => ReceiptInv'
  BY ReceiptKept, ReceiptSteps, ReceiptStutters
<1>. QED BY <1>1, <1>2, PTL DEF SpecAll

(* The receipt vouches only for commands that the compiler wrote            *)
(* (cdb_unity_receipt.py), and a proof of a batch is of the driver that it  *)
(* names and was indexed with its bytes (clangd_query_profile.py,           *)
(* cdb_verified_batch.py).                                                  *)
THEOREM EvidenceIsAlwaysGenuine == SpecAll => []EvidenceIsGenuine
<1>1. ReceiptInv /\ QueryInv => EvidenceIsGenuine
  BY ReceiptIsAuthored, QueryIsOfOne DEF EvidenceIsGenuine
<1>. QED BY <1>1, ReceiptAlways, QueryAlways, PTL

-----------------------------------------------------------------------------
(* Activation.                                                              *)

Taken == 1..latest
RecordFields == {"phase", "guard", "stamp", "cert", "frozen", "generation", "armed"}
ActivationTypes ==
    /\ DOMAIN disk = Files /\ info.stamp \in Nat /\ latest \in 0..MaxAttempts
    /\ DOMAIN record = Attempts /\ DOMAIN helper = Attempts /\ DOMAIN events = Attempts
    /\ DOMAIN client = Clients
    /\ \A a \in Attempts : (record[a].phase = "unused" <=> a \notin Taken) /\ (a \notin Taken => helper[a] = None)
    /\ \A a \in Taken :
          /\ DOMAIN record[a] = RecordFields /\ record[a].stamp \in Nat
          /\ record[a].guard \in {"none", "validating", "ready", "invalidated"}
          /\ record[a].phase \in {"describing", "probing"} => record[a].guard = "none"
          /\ helper[a].kind \in {"validate", "verdict"} => record[a].guard # "none"
          /\ helper[a].kind = "validate" => DOMAIN helper[a] = {"kind", "info", "ok", "left"}
    /\ \A c \in Clients : client[c].state \in {"waiting", "starting", "attached"} => client[c].attempt \in Taken

(* Only the newest attempt has authority.                                   *)
OneGuarded == \A a \in Taken : Guarded(record[a]) => a = latest
(* A stamp names one publication.                                           *)
StampsName ==
    \A a \in Taken :
       /\ record[a].stamp <= info.stamp
       /\ record[a].stamp = info.stamp => record[a].cert = info.cert /\ record[a].frozen = info.frozen
       /\ helper[a].kind = "validate" /\ record[a].stamp = helper[a].info.stamp =>
             record[a].cert = helper[a].info.cert /\ record[a].frozen = helper[a].info.frozen
(* What was read under the watches is so, or its change waits to be         *)
(* reported.                                                                *)
Sound(a) ==
    /\ Covers(record[a].frozen) /\ record[a].armed = Inputs
    /\ info.stamp = record[a].stamp \/ "info" \in events[a]
    /\ \A f \in Files : disk[f] = record[a].cert[f] \/ f \in events[a]
Validating ==
    \A a \in Taken : Guarded(record[a]) =>
       /\ helper[a].kind = "validate" =>
             /\ record[a].armed = Inputs
             /\ helper[a].ok => /\ Covers(helper[a].info.frozen)
                                /\ \A f \in Files \ helper[a].left :
                                      disk[f] = helper[a].info.cert[f] \/ f \in events[a]
       /\ helper[a].kind = "verdict" /\ helper[a].ok /\ helper[a].stamp = record[a].stamp => Sound(a)
       /\ record[a].guard = "ready" => Sound(a)
(* No client is answered beside unsaved changes.                            *)
Unsaved == \A a \in Taken : record[a].guard = "ready" /\ Attached(a) # {} => ~dirty
ActivationInv == ActivationTypes /\ OneGuarded /\ StampsName /\ Validating /\ Unsaved

(* An attempt may lose its authority at any time, and its helper may end.   *)
Weaker(s, r) ==
    /\ DOMAIN s = RecordFields /\ s.phase # "unused"
    /\ s.stamp = r.stamp /\ s.cert = r.cert /\ s.frozen = r.frozen /\ s.armed = r.armed
    /\ s.guard \in {r.guard, "invalidated"}
    /\ s.phase \in {"describing", "probing"} => s.guard = "none"

LEMMA WeakerRecords ==
  ASSUME ActivationInv, NEW a \in Taken
  PROVE  /\ Weaker(record[a], record[a]) /\ Weaker(Invalidated(record[a]), record[a])
         /\ Weaker(Rejected(record[a]), record[a])
         /\ record[a].guard = "invalidated" => Weaker([record[a] EXCEPT !.phase = "failed"], record[a])
         /\ record[a].phase = "describing" => Weaker([record[a] EXCEPT !.phase = "probing"], record[a])
         /\ ~Guarded(Invalidated(record[a]))
<1> DEFINE r == record[a]
<1>1. /\ DOMAIN r = RecordFields /\ r.phase # "unused"
      /\ r.guard \in {"none", "validating", "ready", "invalidated"}
      /\ r.phase \in {"describing", "probing"} => r.guard = "none"
  BY AttemptsAreCounted DEF ActivationInv, ActivationTypes, Attempts, Taken
<1>2. ASSUME NEW phase, phase \notin {"unused"}, phase \in {"describing", "probing"} => r.guard = "none"
      PROVE  Weaker([r EXCEPT !.phase = phase], r)
  <2> DEFINE s == [r EXCEPT !.phase = phase]
  <2>1. DOMAIN s = RecordFields /\ s.phase = phase /\ \A f \in RecordFields \ {"phase"} : s[f] = r[f]
    BY <1>1 DEF RecordFields
  <2>2. s.stamp = r.stamp /\ s.cert = r.cert /\ s.frozen = r.frozen /\ s.armed = r.armed /\ s.guard = r.guard
    BY <2>1 DEF RecordFields
  <2> HIDE DEF s
  <2>3. Weaker(s, r)
    BY <1>2, <2>1, <2>2 DEF Weaker
  <2>. QED BY <2>3 DEF s
<1>3. Guarded(r) => Weaker([r EXCEPT !.guard = "invalidated"], r) /\ ~Guarded([r EXCEPT !.guard = "invalidated"])
  <2> SUFFICES ASSUME Guarded(r)
               PROVE  Weaker([r EXCEPT !.guard = "invalidated"], r) /\ ~Guarded([r EXCEPT !.guard = "invalidated"])
    OBVIOUS
  <2> DEFINE s == [r EXCEPT !.guard = "invalidated"]
  <2>1. DOMAIN s = RecordFields /\ s.guard = "invalidated" /\ \A f \in RecordFields \ {"guard"} : s[f] = r[f]
    BY <1>1 DEF RecordFields
  <2>2. s.stamp = r.stamp /\ s.cert = r.cert /\ s.frozen = r.frozen /\ s.armed = r.armed /\ s.phase = r.phase
    BY <2>1 DEF RecordFields
  <2> HIDE DEF s
  <2>3. Weaker(s, r) /\ ~Guarded(s)
    BY <1>1, <2>1, <2>2 DEF Weaker, Guarded
  <2>. QED BY <2>3 DEF s
<1>4. Weaker(r, r)
  BY <1>1 DEF Weaker
<1>5. Weaker(Invalidated(r), r) /\ ~Guarded(Invalidated(r))
  BY <1>3, <1>4 DEF Invalidated
<1>6. Weaker(Rejected(r), r)
  BY <1>2, <1>5 DEF Rejected
<1>7. r.phase = "describing" => Weaker([r EXCEPT !.phase = "probing"], r)
  BY <1>1, <1>2
<1>. QED BY <1>2, <1>4, <1>5, <1>6, <1>7

(* What others change is noticed by an attempt that watches everything.     *)
Noticing(a) ==
    /\ events[a] \subseteq events'[a]
    /\ record[a].armed = Inputs => /\ info' = info \/ "info" \in events'[a]
                                   /\ \A f \in Files : disk'[f] = disk[f] \/ f \in events'[a]

LEMMA ActivationFrame ==
  ASSUME ActivationInv, UNCHANGED latest,
         DOMAIN disk' = Files, info' = info \/ (info'.stamp \in Nat /\ info'.stamp > info.stamp),
         DOMAIN record' = Attempts, DOMAIN helper' = Attempts, DOMAIN events' = Attempts, DOMAIN client' = Clients,
         \A a \in Taken : Weaker(record'[a], record[a]), \A a \in Attempts \ Taken : record'[a] = record[a],
         \A a \in Attempts : helper'[a] \in {helper[a], None},
         \A a \in Taken : Guarded(record'[a]) => Noticing(a),
         \A c \in Clients : client'[c].state \in {"waiting", "starting", "attached"} => client'[c].attempt \in Taken,
         Unsaved'
  PROVE  ActivationInv'
<1>1. ActivationTypes /\ Taken' = Taken /\ Taken \subseteq Attempts /\ None.kind = "none"
  BY AttemptsAreCounted DEF ActivationInv, ActivationTypes, Attempts, Taken, None
<1>2. info'.stamp \in Nat /\ info'.stamp >= info.stamp /\ (info'.stamp = info.stamp => info' = info)
  BY <1>1 DEF ActivationTypes
<1>3. ASSUME NEW a \in Taken
      PROVE  /\ DOMAIN record'[a] = RecordFields /\ record'[a].phase # "unused"
             /\ record'[a].stamp = record[a].stamp /\ record'[a].cert = record[a].cert
             /\ record'[a].frozen = record[a].frozen /\ record'[a].armed = record[a].armed
             /\ record'[a].guard \in {record[a].guard, "invalidated"}
             /\ record'[a].phase \in {"describing", "probing"} => record'[a].guard = "none"
             /\ Guarded(record'[a]) => Guarded(record[a]) /\ record'[a].guard = record[a].guard
             /\ helper'[a].kind \in {"validate", "verdict"} => helper'[a] = helper[a]
  BY <1>1, <1>3 DEF Weaker, Guarded
<1>4. ActivationTypes'
  <2>1. \A a \in Attempts : (record'[a].phase = "unused" <=> a \notin Taken) /\ (a \notin Taken => helper'[a] = None)
    BY <1>1, <1>3 DEF ActivationTypes
  <2>2. \A a \in Taken :
          /\ DOMAIN record'[a] = RecordFields /\ record'[a].stamp \in Nat
          /\ record'[a].guard \in {"none", "validating", "ready", "invalidated"}
          /\ record'[a].phase \in {"describing", "probing"} => record'[a].guard = "none"
          /\ helper'[a].kind \in {"validate", "verdict"} => record'[a].guard # "none"
    BY <1>1, <1>3 DEF ActivationTypes
  <2>. QED BY <1>1, <1>2, <2>1, <2>2 DEF ActivationTypes
<1>5. OneGuarded'
  BY <1>1, <1>3 DEF ActivationInv, OneGuarded
<1>6. StampsName'
  BY <1>1, <1>2, <1>3 DEF ActivationInv, StampsName, ActivationTypes
<1>7. ASSUME NEW a \in Taken, Sound(a), Guarded(record'[a]) PROVE Sound(a)'
  BY <1>3, <1>7 DEF Sound, Noticing
<1>8. Validating'
  <2> SUFFICES ASSUME NEW a \in Taken, Guarded(record'[a])
               PROVE  /\ helper'[a].kind = "validate" =>
                           /\ record'[a].armed = Inputs
                           /\ helper'[a].ok => /\ Covers(helper'[a].info.frozen)
                                               /\ \A f \in Files \ helper'[a].left :
                                                     disk'[f] = helper'[a].info.cert[f] \/ f \in events'[a]
                      /\ helper'[a].kind = "verdict" /\ helper'[a].ok /\ helper'[a].stamp = record'[a].stamp => Sound(a)'
                      /\ record'[a].guard = "ready" => Sound(a)'
    BY <1>1 DEF Validating
  <2>1. Guarded(record[a]) /\ record'[a].guard = record[a].guard /\ Noticing(a)
    BY <1>3
  <2>2. /\ helper[a].kind = "validate" =>
             /\ record[a].armed = Inputs
             /\ helper[a].ok => /\ Covers(helper[a].info.frozen)
                                /\ \A f \in Files \ helper[a].left :
                                      disk[f] = helper[a].info.cert[f] \/ f \in events[a]
        /\ helper[a].kind = "verdict" /\ helper[a].ok /\ helper[a].stamp = record[a].stamp => Sound(a)
        /\ record[a].guard = "ready" => Sound(a)
    BY <2>1 DEF ActivationInv, Validating
  <2>3. helper'[a].kind = "validate" =>
           /\ record'[a].armed = Inputs
           /\ helper'[a].ok => /\ Covers(helper'[a].info.frozen)
                               /\ \A f \in Files \ helper'[a].left :
                                     disk'[f] = helper'[a].info.cert[f] \/ f \in events'[a]
    BY <1>3, <2>1, <2>2 DEF Noticing
  <2>. QED BY <1>3, <1>7, <2>1, <2>2, <2>3
<1>. QED BY <1>4, <1>5, <1>6, <1>8 DEF ActivationInv

RecordsWeaken == /\ DOMAIN record' = Attempts
                 /\ \A a \in Taken : Weaker(record'[a], record[a])
                 /\ \A a \in Attempts \ Taken : record'[a] = record[a]
LEMMA RecordsWeakened ==
  ASSUME ActivationInv
  PROVE  /\ UNCHANGED record => RecordsWeaken
         /\ \A a \in Taken : \A s : record' = [record EXCEPT ![a] = s] /\ Weaker(s, record[a]) => RecordsWeaken
         /\ \A a \in Taken : Reject(a) \/ Invalidate(a) => RecordsWeaken
         /\ \A a \in Taken : Invalidate(a) => ~Guarded(record'[a])
<1>1. DOMAIN record = Attempts /\ Taken \subseteq Attempts
  BY AttemptsAreCounted DEF ActivationInv, ActivationTypes, Attempts, Taken
<1>2. UNCHANGED record => RecordsWeaken
  BY <1>1, WeakerRecords DEF RecordsWeaken
<1>3. ASSUME NEW a \in Taken, NEW s, record' = [record EXCEPT ![a] = s], Weaker(s, record[a]) PROVE RecordsWeaken
  <2>1. \A b \in Attempts : record'[b] = IF b = a THEN s ELSE record[b]
    BY <1>1, <1>3
  <2>. QED BY <1>1, <1>3, <2>1, WeakerRecords DEF RecordsWeaken
<1>4. ASSUME NEW a \in Taken, Reject(a) \/ Invalidate(a) PROVE RecordsWeaken
  BY <1>3, <1>4, WeakerRecords DEF Reject, Invalidate
<1>5. ASSUME NEW a \in Taken, Invalidate(a) PROVE ~Guarded(record'[a])
  BY <1>1, <1>5, WeakerRecords DEF Invalidate
<1>. QED BY <1>2, <1>3, <1>4, <1>5

ClientsKeep == /\ DOMAIN client' = Clients
               /\ \A c \in Clients : client'[c].state \in {"waiting", "starting", "attached"}
                                         => client'[c].attempt \in Taken
LEMMA ClientsKept ==
  ASSUME ActivationInv
  PROVE  /\ UNCHANGED client => ClientsKeep
         /\ \A c \in Clients : \A x : client' = [client EXCEPT ![c] = x]
               /\ (x.state \in {"waiting", "starting", "attached"} => x.attempt \in Taken) => ClientsKeep
         /\ \A c \in Clients : \A x, a : client' = [client EXCEPT ![c] = x] /\ x.state # "attached"
               => {d \in Clients : client'[d].state = "attached" /\ client'[d].attempt = a} \subseteq Attached(a)
<1>1. /\ DOMAIN client = Clients
      /\ \A c \in Clients : client[c].state \in {"waiting", "starting", "attached"} => client[c].attempt \in Taken
  BY DEF ActivationInv, ActivationTypes
<1>2. UNCHANGED client => ClientsKeep
  BY <1>1 DEF ClientsKeep
<1>3. ASSUME NEW c \in Clients, NEW x, client' = [client EXCEPT ![c] = x]
      PROVE  DOMAIN client' = Clients /\ \A d \in Clients : client'[d] = IF d = c THEN x ELSE client[d]
  BY <1>1, <1>3
<1>4. ASSUME NEW c \in Clients, NEW x, client' = [client EXCEPT ![c] = x],
             x.state \in {"waiting", "starting", "attached"} => x.attempt \in Taken
      PROVE  ClientsKeep
  BY <1>1, <1>3, <1>4 DEF ClientsKeep
<1>5. ASSUME NEW c \in Clients, NEW x, NEW a, client' = [client EXCEPT ![c] = x], x.state # "attached"
      PROVE  {d \in Clients : client'[d].state = "attached" /\ client'[d].attempt = a} \subseteq Attached(a)
  BY <1>3, <1>5 DEF Attached
<1>. QED BY <1>2, <1>4, <1>5

LEMMA UnsavedKept ==
  ASSUME ActivationInv, UNCHANGED latest, RecordsWeaken,
         \A a \in Taken : record'[a].guard = "ready" =>
            \/ ~dirty'
            \/ /\ dirty' = dirty
               /\ {d \in Clients : client'[d].state = "attached" /\ client'[d].attempt = a} \subseteq Attached(a)
  PROVE  Unsaved'
<1>1. Taken' = Taken /\ \A a \in Taken : record'[a].guard = "ready" => record[a].guard = "ready"
  BY DEF Taken, RecordsWeaken, Weaker
<1>2. \A a \in Taken : Attached(a)' = {d \in Clients : client'[d].state = "attached" /\ client'[d].attempt = a}
  BY DEF Attached
<1>. QED BY <1>1, <1>2 DEF ActivationInv, Unsaved

(* A step of the session or of a server that grants nothing.                *)
LEMMA ActivationQuiet ==
  ASSUME ActivationInv, UNCHANGED <<disk, info, latest>>, RecordsWeaken, ClientsKeep, Unsaved',
         DOMAIN helper' = Attempts, \A a \in Attempts : helper'[a] \in {helper[a], None},
         DOMAIN events' = Attempts, \A a \in Taken : Guarded(record'[a]) => events'[a] = events[a]
  PROVE  ActivationInv'
<1>1. \A a \in Taken : Guarded(record'[a]) => Noticing(a)
  BY DEF Noticing
<1>2. DOMAIN disk' = Files
  BY DEF ActivationInv, ActivationTypes
<1>. QED BY <1>1, <1>2, ActivationFrame DEF RecordsWeaken, ClientsKeep

LEMMA HelperEnds ==
  ASSUME ActivationInv
  PROVE  /\ DOMAIN helper = Attempts /\ DOMAIN events = Attempts /\ DOMAIN client = Clients /\ Taken \subseteq Attempts
         /\ \A a \in Attempts : helper' = [helper EXCEPT ![a] = None] =>
               DOMAIN helper' = Attempts /\ \A b \in Attempts : helper'[b] \in {helper[b], None}
         /\ \A a \in Attempts : helper[a] # None \/ record[a].phase # "unused" => a \in Taken
<1>1. /\ DOMAIN helper = Attempts /\ DOMAIN events = Attempts /\ DOMAIN client = Clients
      /\ \A a \in Attempts : (record[a].phase = "unused" <=> a \notin Taken) /\ (a \notin Taken => helper[a] = None)
  BY DEF ActivationInv, ActivationTypes
<1>2. Taken \subseteq Attempts
  BY AttemptsAreCounted DEF ActivationInv, ActivationTypes, Attempts, Taken
<1>3. ASSUME NEW a \in Attempts, helper' = [helper EXCEPT ![a] = None]
      PROVE  DOMAIN helper' = Attempts /\ \A b \in Attempts : helper'[b] \in {helper[b], None}
  BY <1>1, <1>3
<1>4. \A a \in Attempts : helper[a] # None \/ record[a].phase # "unused" => a \in Taken
  BY <1>1
<1>. QED BY <1>1, <1>2, <1>3, <1>4

-----------------------------------------------------------------------------
LEMMA LatestIsTaken == ActivationInv /\ latest # 0 => latest \in Taken
BY AttemptsAreCounted DEF ActivationInv, ActivationTypes, Taken

LEMMA ActivationLaunched ==
  ASSUME ActivationInv
  PROVE  /\ Launched(latest).state \in {"starting", "original"}
         /\ latest # 0 => (Launched(latest).state = "starting" => Launched(latest).attempt \in Taken)
BY LatestIsTaken DEF Launched, Original

LEMMA ActivationBlocked == ASSUME ActivationInv, NEW c \in Clients, OpenBlocked(c) PROVE ActivationInv'
<1>1. /\ UNCHANGED <<disk, info, dirty, latest, helper, events>> /\ client' = [client EXCEPT ![c] = Original]
      /\ ((latest # 0 /\ Reject(latest)) \/ UNCHANGED record)
  BY DEF OpenBlocked, environment
<1>2. RecordsWeaken /\ ClientsKeep
  BY <1>1, LatestIsTaken, RecordsWeakened, ClientsKept DEF Original
<1>3. Original.state # "attached"
  BY DEF Original
<1>4. \A a : {d \in Clients : client'[d].state = "attached" /\ client'[d].attempt = a} \subseteq Attached(a)
  BY <1>1, <1>3, ClientsKept
<1>5. Unsaved'
  BY <1>1, <1>2, <1>4, UnsavedKept
<1>. QED BY <1>1, <1>2, <1>5, HelperEnds, ActivationQuiet

LEMMA ActivationKnown == ASSUME ActivationInv, NEW c \in Clients, OpenKnown(c) PROVE ActivationInv'
<1>1. /\ UNCHANGED <<disk, info, dirty, latest, helper, events>> /\ latest \in Taken
      /\ Reject(latest) \/ UNCHANGED record
  BY LatestIsTaken DEF OpenKnown, environment, Known
<1>2. PICK x : /\ client' = [client EXCEPT ![c] = x] /\ x.state # "attached"
               /\ x.state \in {"waiting", "starting", "attached"} => x.attempt \in Taken
  BY <1>1, ActivationLaunched DEF OpenKnown, Original, Known
<1>3. RecordsWeaken /\ ClientsKeep
  BY <1>1, <1>2, RecordsWeakened, ClientsKept
<1>4. Unsaved'
  BY <1>1, <1>2, <1>3, ClientsKept, UnsavedKept
<1>. QED BY <1>1, <1>3, <1>4, HelperEnds, ActivationQuiet

LEMMA ActivationDescribed == ASSUME ActivationInv, NEW a \in Attempts, Described(a) PROVE ActivationInv'
<1>1. /\ UNCHANGED <<disk, info, dirty, latest, events, client>> /\ helper' = [helper EXCEPT ![a] = None]
      /\ helper[a] # None
  BY DEF Described, environment, None
<1>2. a \in Taken
  BY <1>1, HelperEnds
<1>3. RecordsWeaken
  <2>1. CASE UNCHANGED record \/ Reject(a)
    BY <1>2, <2>1, RecordsWeakened
  <2>2. CASE record[a].phase = "describing" /\ record' = [record EXCEPT ![a].phase = "probing"]
    BY <1>2, <2>2, RecordsWeakened, WeakerRecords
  <2>. QED BY <2>1, <2>2 DEF Described
<1>4. ClientsKeep /\ Unsaved'
  BY <1>1, <1>3, ClientsKept, UnsavedKept DEF Attached
<1>. QED BY <1>1, <1>3, <1>4, HelperEnds, ActivationQuiet

LEMMA ActivationFails == ASSUME ActivationInv, NEW a \in Attempts, HelperFails(a) PROVE ActivationInv'
<1>1. /\ UNCHANGED <<disk, info, dirty, latest, events, client>> /\ helper' = [helper EXCEPT ![a] = None]
      /\ helper[a] # None /\ (UNCHANGED record \/ Reject(a))
  BY DEF HelperFails, Fault
<1>2. RecordsWeaken
  BY <1>1, HelperEnds, RecordsWeakened
<1>3. ClientsKeep /\ Unsaved'
  BY <1>1, <1>2, ClientsKept, UnsavedKept DEF Attached
<1>. QED BY <1>1, <1>2, <1>3, HelperEnds, ActivationQuiet

LEMMA ActivationReport == ASSUME ActivationInv, NEW a \in Attempts, Report(a) PROVE ActivationInv'
<1>1. /\ UNCHANGED <<disk, info, dirty, latest, helper, client>> /\ events' = [events EXCEPT ![a] = {}]
      /\ record[a].phase # "unused" /\ Invalidate(a)
  BY DEF Report, environment
<1>2. a \in Taken /\ DOMAIN events' = Attempts /\ \A b \in Attempts : b # a => events'[b] = events[b]
  BY <1>1, HelperEnds
<1>3. RecordsWeaken /\ ~Guarded(record'[a])
  BY <1>1, <1>2, RecordsWeakened
<1>4. ClientsKeep /\ Unsaved'
  BY <1>1, <1>3, ClientsKept, UnsavedKept DEF Attached
<1>. QED BY <1>1, <1>2, <1>3, <1>4, HelperEnds, ActivationQuiet

LEMMA ActivationCleanUp == ASSUME ActivationInv, NEW a \in Attempts, CleanUp(a) PROVE ActivationInv'
<1>1. /\ UNCHANGED <<disk, info, dirty, latest, helper>> /\ events' = [events EXCEPT ![a] = {}]
      /\ record[a].phase # "unused" /\ record[a].guard = "invalidated"
      /\ record' = [record EXCEPT ![a] = [record[a] EXCEPT !.phase = "failed"]]
      /\ client' = [c \in Clients |-> IF c \in Attached(a) THEN [state |-> "restart"] ELSE client[c]]
  BY HelperEnds DEF CleanUp, environment
<1>2. a \in Taken /\ DOMAIN events' = Attempts /\ \A b \in Attempts : b # a => events'[b] = events[b]
  BY <1>1, HelperEnds
<1>3. RecordsWeaken
  BY <1>1, <1>2, RecordsWeakened, WeakerRecords
<1>4. ~Guarded(record'[a])
  BY <1>1, <1>2, <1>3 DEF RecordsWeaken, Weaker, Guarded
<1>5. ClientsKeep
  BY <1>1 DEF ClientsKeep, ActivationInv, ActivationTypes
<1>6. Unsaved'
  BY <1>1, <1>3, UnsavedKept DEF Attached
<1>. QED BY <1>1, <1>2, <1>3, <1>4, <1>5, <1>6, HelperEnds, ActivationQuiet

LEMMA ActivationAbandon == ASSUME ActivationInv, Abandon PROVE ActivationInv'
<1>1. /\ UNCHANGED <<disk, info, dirty, latest, helper, events, client>> /\ latest \in Taken /\ Reject(latest)
  BY LatestIsTaken DEF Abandon, environment
<1>2. RecordsWeaken /\ ClientsKeep
  BY <1>1, RecordsWeakened, ClientsKept
<1>3. Unsaved'
  BY <1>1, <1>2, UnsavedKept DEF Attached
<1>. QED BY <1>1, <1>2, <1>3, HelperEnds, ActivationQuiet

LEMMA ActivationServers ==
  ASSUME ActivationInv, NEW c \in Clients, Launch(c) \/ Exit(c) PROVE ActivationInv'
<1>1. UNCHANGED <<disk, info, dirty, latest, record, helper, events>>
  BY DEF Launch, Exit, environment
<1>2. PICK x : /\ client' = [client EXCEPT ![c] = x] /\ x.state # "attached"
               /\ x.state \in {"waiting", "starting", "attached"} => x.attempt \in Taken
  <2>1. CASE Exit(c)
    <3>1. client' = [client EXCEPT ![c] = Idle] /\ Idle.state = "idle"
      BY <2>1 DEF Exit, Idle
    <3>. QED BY <3>1
  <2>2. CASE Launch(c)
    <3>1. client[c].attempt \in Taken
      BY <2>2 DEF Launch, ActivationInv, ActivationTypes
    <3>2. latest # 0
      BY <3>1 DEF Taken
    <3>. QED BY <2>2, <3>2, ActivationLaunched DEF Launch
  <2>. QED BY <2>1, <2>2
<1>3. RecordsWeaken /\ ClientsKeep
  BY <1>1, <1>2, RecordsWeakened, ClientsKept
<1>4. Unsaved'
  BY <1>1, <1>2, <1>3, ClientsKept, UnsavedKept
<1>. QED BY <1>1, <1>3, <1>4, HelperEnds, ActivationQuiet

LEMMA ActivationAsks == ASSUME ActivationInv, NEW c \in Clients, Ask(c) \/ Answer(c) PROVE ActivationInv'
<1>1. /\ UNCHANGED <<disk, info, dirty, latest, record, helper, events>> /\ client[c].state = "attached"
      /\ \E b : client' = [client EXCEPT ![c] = [client[c] EXCEPT !.asked = b]]
  BY HelperEnds DEF Ask, Answer, environment
<1>2. /\ DOMAIN client' = Clients
      /\ \A d \in Clients : client'[d].state = client[d].state /\ client'[d].attempt = client[d].attempt
  BY <1>1, HelperEnds
<1>3. RecordsWeaken /\ ClientsKeep
  BY <1>1, <1>2, RecordsWeakened DEF ClientsKeep, ActivationInv, ActivationTypes
<1>4. Unsaved'
  BY <1>1, <1>2, <1>3, UnsavedKept DEF Attached
<1>. QED BY <1>1, <1>3, <1>4, HelperEnds, ActivationQuiet

LEMMA ActivationAttach == ASSUME ActivationInv, NEW c \in Clients, Attach(c) PROVE ActivationInv'
<1> DEFINE a == client[c].attempt
           stays == latest = a /\ Ready(a)
<1>1. /\ UNCHANGED <<disk, info, dirty, latest, helper, events>> /\ a \in Taken
      /\ client' = [client EXCEPT ![c] = IF stays THEN [state |-> "attached", attempt |-> a, asked |-> FALSE]
                                         ELSE [state |-> "restart"]]
      /\ IF stays /\ dirty THEN Invalidate(a) ELSE UNCHANGED record
  BY DEF Attach, environment, ActivationInv, ActivationTypes
<1>2. RecordsWeaken /\ ClientsKeep
  BY <1>1, RecordsWeakened, ClientsKept
<1>3. Unsaved'
  <2>1. CASE ~dirty \/ ~stays
    <3>1. CASE ~dirty
      BY <1>1, <1>2, <3>1, UnsavedKept
    <3>2. CASE ~stays
      <4>1. client' = [client EXCEPT ![c] = [state |-> "restart"]] /\ [state |-> "restart"].state # "attached"
        BY <1>1, <3>2
      <4>2. \A b : {d \in Clients : client'[d].state = "attached" /\ client'[d].attempt = b} \subseteq Attached(b)
        BY <4>1, ClientsKept
      <4>. QED BY <1>1, <1>2, <4>2, UnsavedKept
    <3>. QED BY <2>1, <3>1, <3>2
  <2>2. CASE dirty /\ stays
    <3>1. ~Guarded(record'[a])
      BY <1>1, <2>2, RecordsWeakened
    <3>2. \A b \in Taken : Guarded(record[b]) => b = a
      BY <2>2 DEF ActivationInv, OneGuarded
    <3>3. \A b \in Taken : record'[b].guard # "ready"
      BY <1>2, <3>1, <3>2 DEF RecordsWeaken, Weaker, Guarded
    <3>. QED BY <1>1, <1>2, <3>3, UnsavedKept
  <2>. QED BY <2>1, <2>2
<1>. QED BY <1>1, <1>2, <1>3, HelperEnds, ActivationQuiet

-----------------------------------------------------------------------------
(* The world: every change is an event of the attempt that watches all.     *)
LEMMA ActivationTouched ==
  ASSUME ActivationInv, UNCHANGED info, NEW f \in Files, Touch(f)
  PROVE  DOMAIN disk' = Files /\ DOMAIN events' = Attempts /\ \A a \in Taken : Guarded(record[a]) => Noticing(a)
<1>1. DOMAIN disk = Files /\ Taken \subseteq Attempts /\ \A a \in Taken : record[a].phase # "unused"
  BY HelperEnds DEF ActivationInv, ActivationTypes
<1>2. disk' = [disk EXCEPT ![f] = disk[f] + 1] /\ events' = Noticed(f)
  BY DEF Touch
<1>3. \A g \in Files : g # f => disk'[g] = disk[g]
  BY <1>1, <1>2
<1>4. /\ DOMAIN events' = Attempts
      /\ \A a \in Taken : events'[a] = events[a] \cup (IF Guarded(record[a]) /\ f \in record[a].armed THEN {f} ELSE {})
  BY <1>1, <1>2 DEF Noticed, Watched
<1>5. f \in Inputs
  BY DEF Inputs
<1>. QED BY <1>1, <1>2, <1>3, <1>4, <1>5 DEF Noticing

LEMMA HeardIsKept ==
  ASSUME ActivationInv, Heard
  PROVE  RecordsWeaken /\ \A a \in Taken : record'[a].guard = "ready" => Attached(a) = {}
<1>1. RecordsWeaken
  BY LatestIsTaken, RecordsWeakened DEF Heard
<1>2. \A a \in Taken : record'[a].guard = "ready" => Guarded(record'[a]) /\ Guarded(record[a]) /\ a = latest
  BY <1>1 DEF RecordsWeaken, Weaker, Guarded, ActivationInv, OneGuarded
<1>3. latest \in Taken /\ Attached(latest) # {} => ~Guarded(record'[latest])
  BY RecordsWeakened DEF Heard, Taken
<1>. QED BY <1>1, <1>2, <1>3

LEMMA ActivationWorld == ASSUME ActivationInv, Edit \/ Modify \/ Save PROVE ActivationInv'
<1>1. UNCHANGED <<info, latest, helper, client>> /\ ((\E f \in Files : Touch(f)) \/ UNCHANGED <<disk, events>>)
  <2>1. CASE Edit
    BY <2>1 DEF Edit
  <2>2. CASE Modify
    BY <2>2 DEF Modify
  <2>3. CASE Save
    <3>1. Document \in Files /\ Touch(Document)
      BY <2>3, DocumentIsRead DEF Save, Files
    <3>. QED BY <2>3, <3>1 DEF Save
  <2>. QED BY <2>1, <2>2, <2>3
<1>2. RecordsWeaken
  BY HeardIsKept, RecordsWeakened DEF Edit, Modify, Save
<1>3. ClientsKeep /\ DOMAIN disk = Files
  BY <1>1, ClientsKept DEF ActivationInv, ActivationTypes
<1>4. Unsaved'
  <2>1. CASE Edit
    BY <1>1, <1>2, <2>1, UnsavedKept DEF Edit, Attached
  <2>2. CASE Save
    BY <1>1, <1>2, <2>2, UnsavedKept DEF Save
  <2>3. CASE Modify
    <3>1. \A a \in Taken : record'[a].guard = "ready" => Attached(a) = {}
      BY <2>3, HeardIsKept DEF Modify
    <3>2. Taken' = Taken /\ \A a \in Taken : Attached(a)' = Attached(a)
      BY <1>1 DEF Taken, Attached
    <3>. QED BY <3>1, <3>2 DEF Unsaved
  <2>. QED BY <2>1, <2>2, <2>3
<1>5. \A a \in Taken : Guarded(record'[a]) => Guarded(record[a])
  BY <1>2 DEF RecordsWeaken, Weaker, Guarded
<1>6. DOMAIN disk' = Files /\ DOMAIN events' = Attempts /\ \A a \in Taken : Guarded(record[a]) => Noticing(a)
  <2>1. CASE \E f \in Files : Touch(f)
    BY <1>1, <2>1, ActivationTouched
  <2>2. CASE UNCHANGED <<disk, events>>
    BY <1>1, <1>3, <2>2, HelperEnds DEF Noticing
  <2>. QED BY <1>1, <2>1, <2>2
<1>. QED BY <1>1, <1>2, <1>3, <1>4, <1>5, <1>6, HelperEnds, ActivationFrame DEF RecordsWeaken, ClientsKeep

LEMMA ActivationPublish == ASSUME ActivationInv, Publish PROVE ActivationInv'
<1>1. /\ UNCHANGED <<disk, dirty, latest, record, helper, client>> /\ events' = Noticed("info")
      /\ info'.stamp = info.stamp + 1
  BY DEF Publish
<1>2. RecordsWeaken /\ ClientsKeep
  BY <1>1, RecordsWeakened, ClientsKept
<1>3. Unsaved'
  BY <1>1, <1>2, UnsavedKept DEF Attached
<1>4. /\ Taken \subseteq Attempts /\ \A a \in Taken : record[a].phase # "unused"
      /\ info'.stamp \in Nat /\ info'.stamp > info.stamp /\ DOMAIN disk = Files
  BY <1>1, HelperEnds DEF ActivationInv, ActivationTypes
<1>5. /\ DOMAIN events' = Attempts
      /\ \A a \in Taken : events'[a] = events[a] \cup
            (IF Guarded(record[a]) /\ "info" \in record[a].armed THEN {"info"} ELSE {})
  BY <1>1, <1>4 DEF Noticed, Watched
<1>6. "info" \in Inputs
  BY DEF Inputs
<1>7. \A a \in Taken : Guarded(record'[a]) => Noticing(a)
  BY <1>1, <1>5, <1>6 DEF Noticing
<1>. QED BY <1>1, <1>2, <1>3, <1>4, <1>5, <1>7, HelperEnds, ActivationFrame DEF RecordsWeaken, ClientsKeep

-----------------------------------------------------------------------------
(* The steps by which an attempt comes to its authority.                    *)
LEMMA ActivationOne ==
  ASSUME ActivationInv, UNCHANGED <<disk, info, dirty, latest, events, client>>, NEW a \in Taken, NEW r, NEW h,
         DOMAIN record' = Attempts, \A b \in Attempts : record'[b] = IF b = a THEN r ELSE record[b],
         DOMAIN helper' = Attempts, \A b \in Attempts : helper'[b] = IF b = a THEN h ELSE helper[b],
         DOMAIN r = RecordFields, r.phase # "unused", r.guard \in {"none", "validating", "ready", "invalidated"},
         r.stamp = record[a].stamp, r.cert = record[a].cert, r.frozen = record[a].frozen,
         r.phase \in {"describing", "probing"} => r.guard = "none",
         h.kind \in {"validate", "verdict"} => r.guard # "none",
         h.kind = "validate" => DOMAIN h = {"kind", "info", "ok", "left"},
         Guarded(r) => a = latest, r.guard = "ready" => record[a].guard = "ready" \/ ~dirty,
         h.kind = "validate" /\ r.stamp = h.info.stamp => r.cert = h.info.cert /\ r.frozen = h.info.frozen,
         Guarded(r) /\ h.kind = "validate" =>
             /\ r.armed = Inputs
             /\ h.ok => /\ Covers(h.info.frozen)
                        /\ \A f \in Files \ h.left : disk[f] = h.info.cert[f] \/ f \in events[a],
         Guarded(r) /\ (r.guard = "ready" \/ (h.kind = "verdict" /\ h.ok /\ h.stamp = r.stamp)) =>
             /\ Covers(r.frozen) /\ r.armed = Inputs /\ (info.stamp = r.stamp \/ "info" \in events[a])
             /\ \A f \in Files : disk[f] = r.cert[f] \/ f \in events[a]
  PROVE  ActivationInv'
<1>1. ActivationTypes /\ Taken' = Taken /\ Taken \subseteq Attempts /\ None.kind = "none"
  BY HelperEnds DEF ActivationInv, Taken, None
<1>2. /\ \A b \in Attempts : record'[b] = IF b = a THEN r ELSE record[b]
      /\ \A b \in Attempts : helper'[b] = IF b = a THEN h ELSE helper[b]
      /\ DOMAIN record' = Attempts /\ DOMAIN helper' = Attempts
  OBVIOUS
<1>3. ActivationTypes'
  BY <1>1, <1>2 DEF ActivationTypes
<1>4. OneGuarded'
  BY <1>1, <1>2 DEF ActivationInv, OneGuarded
<1>5. StampsName'
  BY <1>1, <1>2 DEF ActivationInv, StampsName
<1>6. ASSUME NEW b \in Taken, b # a PROVE Sound(b)' = Sound(b)
  BY <1>1, <1>2, <1>6 DEF Sound
<1>7. Sound(a)' <=> /\ Covers(r.frozen) /\ r.armed = Inputs /\ (info.stamp = r.stamp \/ "info" \in events[a])
                    /\ \A f \in Files : disk[f] = r.cert[f] \/ f \in events[a]
  BY <1>1, <1>2 DEF Sound
<1>8. Validating'
  <2>1. \A b \in Taken : b # a => record'[b] = record[b] /\ helper'[b] = helper[b]
    BY <1>1, <1>2
  <2>2. record'[a] = r /\ helper'[a] = h
    BY <1>1, <1>2
  <2>. QED BY <1>1, <1>6, <1>7, <2>1, <2>2 DEF ActivationInv, Validating
<1>9. Unsaved'
  BY <1>1, <1>2 DEF ActivationInv, Unsaved, Attached
<1>. QED BY <1>3, <1>4, <1>5, <1>8, <1>9 DEF ActivationInv

(* An attempt of which the session knows something.                         *)
LEMMA ActivationOf ==
  ASSUME ActivationInv, NEW a \in Attempts, record[a].phase # "unused" \/ helper[a] # None
  PROVE  /\ a \in Taken /\ DOMAIN record = Attempts /\ DOMAIN helper = Attempts
         /\ UNCHANGED record => /\ DOMAIN record' = Attempts
                                /\ \A b \in Attempts : record'[b] = IF b = a THEN record[a] ELSE record[b]
         /\ UNCHANGED helper => /\ DOMAIN helper' = Attempts
                                /\ \A b \in Attempts : helper'[b] = IF b = a THEN helper[a] ELSE helper[b]
         /\ DOMAIN record[a] = RecordFields /\ record[a].phase # "unused"
         /\ record[a].guard \in {"none", "validating", "ready", "invalidated"}
         /\ record[a].phase \in {"describing", "probing"} => record[a].guard = "none"
         /\ helper[a].kind \in {"validate", "verdict"} => record[a].guard # "none"
         /\ helper[a].kind = "validate" => DOMAIN helper[a] = {"kind", "info", "ok", "left"}
         /\ Guarded(record[a]) => a = latest
         /\ helper[a].kind = "validate" /\ record[a].stamp = helper[a].info.stamp =>
               record[a].cert = helper[a].info.cert /\ record[a].frozen = helper[a].info.frozen
<1>1. a \in Taken
  BY HelperEnds
<1>. QED BY <1>1 DEF ActivationInv, ActivationTypes, OneGuarded, StampsName

(* A step that only takes authority back, or nothing.                       *)
LEMMA ActivationLets ==
  ASSUME ActivationInv, UNCHANGED <<disk, info, dirty, latest, events, client>>, NEW a \in Attempts, a \in Taken,
         UNCHANGED record \/ Reject(a) \/ Invalidate(a), UNCHANGED helper \/ helper' = [helper EXCEPT ![a] = None]
  PROVE  ActivationInv'
<1>1. RecordsWeaken /\ ClientsKeep
  BY RecordsWeakened, ClientsKept
<1>2. Unsaved'
  BY <1>1, UnsavedKept DEF Attached
<1>. QED BY <1>1, <1>2, HelperEnds, ActivationQuiet

LEMMA ActivationBegins == ASSUME ActivationInv, NEW a \in Attempts, BeginWatching(a) PROVE ActivationInv'
<1>1. UNCHANGED <<disk, info, dirty, latest, helper, events, client>> /\ record[a].phase = "probing"
  BY DEF BeginWatching, environment
<1>2. CASE Reject(a)
  BY <1>1, <1>2, ActivationOf, ActivationLets
<1>3. CASE ~dirty /\ Current(a) /\ record' = [record EXCEPT ![a].phase = "validating", ![a].guard = "validating"]
  <2> DEFINE r == [record[a] EXCEPT !.phase = "validating", !.guard = "validating"]
  <2>1. DOMAIN record' = Attempts /\ \A b \in Attempts : record'[b] = IF b = a THEN r ELSE record[b]
    BY <1>1, <1>3, ActivationOf
  <2>2. /\ a \in Taken /\ record[a].guard = "none" /\ helper[a].kind \notin {"validate", "verdict"} /\ a = latest
    BY <1>1, <1>3, ActivationOf DEF Current
  <2>3. /\ DOMAIN r = RecordFields /\ r.phase = "validating" /\ r.guard = "validating"
        /\ r.stamp = record[a].stamp /\ r.cert = record[a].cert /\ r.frozen = record[a].frozen
    BY <1>1, ActivationOf DEF RecordFields
  <2> HIDE DEF r
  <2>. QED BY <1>1, <2>1, <2>2, <2>3, ActivationOf, ActivationOne
<1>. QED BY <1>2, <1>3 DEF BeginWatching

LEMMA ActivationArms == ASSUME ActivationInv, NEW a \in Attempts, Arm(a) PROVE ActivationInv'
<1>1. /\ UNCHANGED <<disk, info, dirty, latest, helper, events, client>>
      /\ record[a].phase = "validating" /\ record[a].guard = "validating"
  BY DEF Arm, environment
<1>2. PICK f \in Inputs \ record[a].armed : record' = [record EXCEPT ![a].armed = @ \cup {f}]
  BY DEF Arm
<1> DEFINE r == [record[a] EXCEPT !.armed = record[a].armed \cup {f}]
<1>3. DOMAIN record' = Attempts /\ \A b \in Attempts : record'[b] = IF b = a THEN r ELSE record[b]
  BY <1>1, <1>2, ActivationOf
<1>4. /\ a \in Taken /\ a = latest /\ record[a].armed # Inputs
  BY <1>1, <1>2, ActivationOf DEF Guarded
<1>5. /\ DOMAIN r = RecordFields /\ r.phase = "validating" /\ r.guard = "validating"
      /\ r.stamp = record[a].stamp /\ r.cert = record[a].cert /\ r.frozen = record[a].frozen
  BY <1>1, ActivationOf DEF RecordFields
<1>6. /\ helper[a].kind # "validate"
      /\ ~(helper[a].kind = "verdict" /\ helper[a].ok /\ helper[a].stamp = record[a].stamp)
  BY <1>1, <1>4 DEF ActivationInv, Validating, Guarded, Sound
<1> HIDE DEF r
<1> DEFINE h == helper[a]
<1>7. /\ DOMAIN helper' = Attempts /\ \A b \in Attempts : helper'[b] = IF b = a THEN h ELSE helper[b]
      /\ h.kind # "validate" /\ ~(h.kind = "verdict" /\ h.ok /\ h.stamp = r.stamp) /\ DOMAIN record' = Attempts
  BY <1>1, <1>3, <1>5, <1>6, ActivationOf
<1> HIDE DEF h
<1>. QED BY <1>1, <1>3, <1>4, <1>5, <1>7, ActivationOne

LEMMA ActivationVerifies == ASSUME ActivationInv, NEW a \in Attempts, Verify(a) PROVE ActivationInv'
<1>1. /\ UNCHANGED <<disk, info, dirty, latest, events, client>>
      /\ record[a].phase = "validating" /\ record[a].guard = "validating" /\ record[a].armed = Inputs
  BY DEF Verify, environment, Armed
<1>2. CASE Invalidate(a) /\ UNCHANGED helper
  BY <1>1, <1>2, ActivationOf, ActivationLets
<1>3. CASE /\ helper' = [helper EXCEPT ![a] =
                 [kind |-> "validate", info |-> info, ok |-> Covers(info.frozen), left |-> Files]]
           /\ UNCHANGED record
  <2> DEFINE h == [kind |-> "validate", info |-> info, ok |-> Covers(info.frozen), left |-> Files]
  <2>1. DOMAIN helper' = Attempts /\ \A b \in Attempts : helper'[b] = IF b = a THEN h ELSE helper[b]
    BY <1>1, <1>3, ActivationOf
  <2>2. h.kind = "validate" /\ h.info = info /\ h.ok = Covers(info.frozen) /\ h.left = Files
    OBVIOUS
  <2>4. DOMAIN h = {"kind", "info", "ok", "left"} /\ h.kind # "verdict" /\ (h.ok => Covers(h.info.frozen))
        /\ \A f \in Files \ h.left : disk[f] = h.info.cert[f] \/ f \in events[a]
    BY <2>2
  <2>3. a \in Taken /\ (record[a].stamp = info.stamp => record[a].cert = info.cert /\ record[a].frozen = info.frozen)
    BY <1>1, ActivationOf DEF ActivationInv, StampsName
  <2>5. a = latest /\ record[a].guard # "ready"
    BY <1>1, <2>3, ActivationOf DEF Guarded
  <2> HIDE DEF h
  <2>. QED BY <1>1, <1>3, <2>1, <2>2, <2>3, <2>4, <2>5, ActivationOf, ActivationOne
<1>. QED BY <1>2, <1>3 DEF Verify

LEMMA ActivationReads == ASSUME ActivationInv, NEW a \in Attempts, Read(a) PROVE ActivationInv'
<1>1. UNCHANGED <<disk, info, dirty, latest, record, events, client>> /\ helper[a].kind = "validate"
  BY DEF Read, environment
<1>2. PICK f \in helper[a].left :
         helper' = [helper EXCEPT ![a] = [helper[a] EXCEPT !.left = helper[a].left \ {f},
                                                          !.ok = helper[a].ok /\ disk[f] = helper[a].info.cert[f]]]
  BY HelperEnds DEF Read
<1> DEFINE h == [helper[a] EXCEPT !.left = helper[a].left \ {f}, !.ok = helper[a].ok /\ disk[f] = helper[a].info.cert[f]]
<1>3. helper[a] # None
  BY <1>1 DEF None
<1>4. DOMAIN helper' = Attempts /\ \A b \in Attempts : helper'[b] = IF b = a THEN h ELSE helper[b]
  BY <1>2, HelperEnds
<1>5. DOMAIN helper[a] = {"kind", "info", "ok", "left"}
  BY <1>1, <1>3, ActivationOf DEF ActivationInv, ActivationTypes
<1>6. /\ DOMAIN h = {"kind", "info", "ok", "left"}
      /\ h.kind = "validate" /\ h.info = helper[a].info /\ h.left = helper[a].left \ {f}
      /\ h.ok = (helper[a].ok /\ disk[f] = helper[a].info.cert[f])
  BY <1>1, <1>5
<1>7. Guarded(record[a]) =>
        /\ record[a].armed = Inputs
        /\ h.ok => /\ Covers(h.info.frozen)
                   /\ \A g \in Files \ h.left : disk[g] = h.info.cert[g] \/ g \in events[a]
  BY <1>1, <1>3, <1>6, ActivationOf DEF ActivationInv, Validating
<1>8. Guarded(record[a]) /\ record[a].guard = "ready" => Sound(a)
  BY <1>3, ActivationOf DEF ActivationInv, Validating
<1> HIDE DEF h
<1>. QED BY <1>1, <1>3, <1>4, <1>6, <1>7, <1>8, ActivationOf, ActivationOne DEF Sound

LEMMA ActivationRechecks == ASSUME ActivationInv, NEW a \in Attempts, Recheck(a) PROVE ActivationInv'
<1> DEFINE ok == /\ helper[a].ok /\ info = helper[a].info
                 /\ \A f \in Products : disk[f] = helper[a].info.cert[f]
           h == [kind |-> "verdict", stamp |-> helper[a].info.stamp, ok |-> ok]
<1>1. /\ UNCHANGED <<disk, info, dirty, latest, record, events, client>>
      /\ helper[a].kind = "validate" /\ helper[a].left = {} /\ helper' = [helper EXCEPT ![a] = h]
  BY DEF Recheck, environment
<1>2. helper[a] # None
  BY <1>1 DEF None
<1>3. DOMAIN helper' = Attempts /\ \A b \in Attempts : helper'[b] = IF b = a THEN h ELSE helper[b]
  BY <1>1, HelperEnds
<1>4. h.kind = "verdict" /\ h.stamp = helper[a].info.stamp /\ h.ok = ok
  OBVIOUS
<1>5. Guarded(record[a]) /\ (record[a].guard = "ready" \/ (h.ok /\ h.stamp = record[a].stamp)) => Sound(a)
  <2>1. ASSUME Guarded(record[a]), record[a].guard = "ready" PROVE Sound(a)
    BY <1>2, <2>1, ActivationOf DEF ActivationInv, Validating
  <2>2. ASSUME Guarded(record[a]), h.ok, h.stamp = record[a].stamp PROVE Sound(a)
    <3>1. record[a].cert = helper[a].info.cert /\ record[a].frozen = helper[a].info.frozen
      BY <1>1, <1>2, <1>4, <2>2, ActivationOf
    <3>2. helper[a].ok /\ info = helper[a].info
      BY <1>4, <2>2
    <3>3. /\ record[a].armed = Inputs /\ Covers(helper[a].info.frozen)
          /\ \A f \in Files : disk[f] = helper[a].info.cert[f] \/ f \in events[a]
      BY <1>1, <1>2, <2>2, <3>2, ActivationOf DEF ActivationInv, Validating
    <3>. QED BY <1>4, <2>2, <3>1, <3>2, <3>3 DEF Sound
  <2>. QED BY <2>1, <2>2
<1> HIDE DEF h
<1>6. h.kind # "validate" /\ (h.kind \in {"validate", "verdict"} => record[a].guard # "none")
  BY <1>1, <1>2, <1>4, ActivationOf
<1> DEFINE r == record[a]
<1>7. /\ a \in Taken /\ DOMAIN record' = Attempts /\ \A b \in Attempts : record'[b] = IF b = a THEN r ELSE record[b]
      /\ DOMAIN r = RecordFields /\ r.phase # "unused" /\ r.guard \in {"none", "validating", "ready", "invalidated"}
      /\ r.phase \in {"describing", "probing"} => r.guard = "none"
      /\ Guarded(r) => a = latest
      /\ r.guard = "ready" => record[a].guard = "ready"
      /\ r.stamp = record[a].stamp /\ r.cert = record[a].cert /\ r.frozen = record[a].frozen
  BY <1>1, <1>2, ActivationOf
<1>8. Guarded(r) /\ (r.guard = "ready" \/ (h.kind = "verdict" /\ h.ok /\ h.stamp = r.stamp)) =>
        /\ Covers(r.frozen) /\ r.armed = Inputs /\ (info.stamp = r.stamp \/ "info" \in events[a])
        /\ \A f \in Files : disk[f] = r.cert[f] \/ f \in events[a]
  BY <1>5 DEF Sound
<1> HIDE DEF r
<1>. QED BY <1>1, <1>3, <1>6, <1>7, <1>8, ActivationOne

LEMMA ActivationVerdict == ASSUME ActivationInv, NEW a \in Attempts, Verdict(a) PROVE ActivationInv'
<1>1. /\ UNCHANGED <<disk, info, dirty, latest, events, client>> /\ helper[a].kind = "verdict"
      /\ helper' = [helper EXCEPT ![a] = None] /\ helper[a] # None
  BY DEF Verdict, environment, None
<1>2. CASE UNCHANGED record \/ Invalidate(a)
  BY <1>1, <1>2, ActivationOf, ActivationLets
<1>3. CASE /\ record[a].guard = "validating" /\ Certifies(a)
           /\ record' = [record EXCEPT ![a].phase = "ready", ![a].guard = "ready"]
  <2> DEFINE r == [record[a] EXCEPT !.phase = "ready", !.guard = "ready"]
             h == None
  <2>1. DOMAIN record' = Attempts /\ \A b \in Attempts : record'[b] = IF b = a THEN r ELSE record[b]
    BY <1>1, <1>3, ActivationOf
  <2>2. DOMAIN helper' = Attempts /\ \A b \in Attempts : helper'[b] = IF b = a THEN h ELSE helper[b]
    BY <1>1, HelperEnds
  <2>3. /\ DOMAIN r = RecordFields /\ r.phase = "ready" /\ r.guard = "ready" /\ r.armed = record[a].armed
        /\ r.stamp = record[a].stamp /\ r.cert = record[a].cert /\ r.frozen = record[a].frozen
    BY <1>1, ActivationOf DEF RecordFields
  <2>4. a \in Taken /\ a = latest /\ ~dirty /\ h.kind = "none"
    BY <1>1, <1>3, ActivationOf DEF Certifies, Current, None
  <2>5. Sound(a)
    BY <1>1, <1>3, <2>4 DEF ActivationInv, Validating, Guarded, Certifies
  <2>6. /\ Covers(r.frozen) /\ r.armed = Inputs /\ (info.stamp = r.stamp \/ "info" \in events[a])
        /\ \A f \in Files : disk[f] = r.cert[f] \/ f \in events[a]
    BY <2>3, <2>5 DEF Sound
  <2> HIDE DEF r, h
  <2>. QED BY <1>1, <2>1, <2>2, <2>3, <2>4, <2>6, ActivationOne
<1>. QED BY <1>2, <1>3 DEF Verdict

LEMMA ActivationNew == ASSUME ActivationInv, NEW c \in Clients, OpenNew(c) PROVE ActivationInv'
<1> DEFINE n == latest + 1
           h == [kind |-> "describe"]
<1>1. /\ UNCHANGED <<disk, info, dirty, events>> /\ ~dirty /\ latest' = n /\ n <= MaxAttempts
      /\ record' = [a \in Attempts |-> IF a = n THEN Fresh(a)
                                       ELSE IF a = latest THEN Invalidated(record[a]) ELSE record[a]]
      /\ helper' = [helper EXCEPT ![n] = h]
      /\ client' = [client EXCEPT ![c] = [state |-> "waiting", attempt |-> n]]
  <2>1. latest \in Nat /\ latest < MaxAttempts
    BY DEF OpenNew, ActivationInv, ActivationTypes
  <2>. QED BY <2>1, AttemptsAreCounted DEF OpenNew, environment
<1>2. latest \in Nat /\ n \in Attempts /\ n \notin Taken /\ Taken' = Taken \cup {n}
  BY <1>1, AttemptsAreCounted DEF ActivationInv, ActivationTypes, Taken, Attempts
<1>3. /\ DOMAIN record' = Attempts /\ record'[n] = Fresh(n)
      /\ (latest \in Taken => record'[latest] = Invalidated(record[latest]))
      /\ \A a \in Attempts : a # n /\ a # latest => record'[a] = record[a]
  BY <1>1, <1>2, HelperEnds
<1>4. /\ DOMAIN helper' = Attempts /\ helper'[n].kind = "describe" /\ helper'[n] # None
      /\ \A a \in Attempts : a # n => helper'[a] = helper[a]
  BY <1>1, <1>2, HelperEnds DEF None
<1>5. /\ DOMAIN client' = Clients /\ \A d \in Clients : d # c => client'[d] = client[d]
      /\ client'[c].state = "waiting" /\ client'[c].attempt = n
  BY <1>1, HelperEnds
<1>6. /\ DOMAIN Fresh(n) = RecordFields /\ Fresh(n).phase = "describing" /\ Fresh(n).guard = "none"
      /\ Fresh(n).stamp = info.stamp /\ Fresh(n).cert = info.cert /\ Fresh(n).frozen = info.frozen
  BY DEF Fresh, RecordFields
<1>7. ASSUME NEW a \in Taken
      PROVE  /\ Weaker(record'[a], record[a]) /\ ~Guarded(record'[a]) /\ helper'[a] = helper[a] /\ a # n
  <2>1. CASE a = latest
    <3>1. record'[a] = Invalidated(record[a]) /\ a \in Attempts /\ a # n
      BY <1>2, <1>3, <2>1, HelperEnds
    <3>. QED BY <1>4, <3>1, WeakerRecords
  <2>2. CASE a # latest
    <3>1. record'[a] = record[a] /\ helper'[a] = helper[a] /\ a # n
      BY <1>2, <1>3, <1>4, <2>2, HelperEnds
    <3>2. ~Guarded(record[a])
      BY <2>2 DEF ActivationInv, OneGuarded
    <3>. QED BY <3>1, <3>2, WeakerRecords
  <2>. QED BY <2>1, <2>2
<1>8. ASSUME NEW a \in Taken
      PROVE  /\ DOMAIN record'[a] = RecordFields /\ record'[a].phase # "unused" /\ record'[a].stamp = record[a].stamp
             /\ record'[a].cert = record[a].cert /\ record'[a].frozen = record[a].frozen
             /\ record'[a].guard \in {record[a].guard, "invalidated"}
             /\ record'[a].phase \in {"describing", "probing"} => record'[a].guard = "none"
  BY <1>7, <1>8 DEF Weaker
<1>9. ActivationTypes'
  <2>1. \A a \in Attempts : (record'[a].phase = "unused" <=> a \notin Taken') /\ (a \notin Taken' => helper'[a] = None)
    <3>1. \A a \in Attempts \ Taken' : record'[a] = record[a] /\ helper'[a] = helper[a] /\ a \notin Taken
      BY <1>2, <1>3, <1>4, LatestIsTaken, AttemptsAreCounted DEF Attempts
    <3>2. \A a \in Taken' : record'[a].phase # "unused"
      BY <1>2, <1>3, <1>6, <1>8
    <3>. QED BY <3>1, <3>2 DEF ActivationInv, ActivationTypes
  <2>2. ASSUME NEW a \in Taken'
        PROVE /\ DOMAIN record'[a] = RecordFields /\ record'[a].stamp \in Nat
              /\ record'[a].guard \in {"none", "validating", "ready", "invalidated"}
              /\ record'[a].phase \in {"describing", "probing"} => record'[a].guard = "none"
              /\ helper'[a].kind \in {"validate", "verdict"} => record'[a].guard # "none"
              /\ helper'[a].kind = "validate" => DOMAIN helper'[a] = {"kind", "info", "ok", "left"}
    <3>1. CASE a = n
      BY <1>3, <1>4, <1>6, <3>1 DEF ActivationInv, ActivationTypes
    <3>2. CASE a \in Taken
      <4>1. record[a].guard \in {"none", "validating", "ready", "invalidated"} /\ record[a].stamp \in Nat
            /\ (helper[a].kind \in {"validate", "verdict"} => record[a].guard # "none")
            /\ (helper[a].kind = "validate" => DOMAIN helper[a] = {"kind", "info", "ok", "left"})
        BY <3>2 DEF ActivationInv, ActivationTypes
      <4>2. helper'[a] = helper[a]
        BY <1>7, <3>2
      <4>. QED BY <1>8, <3>2, <4>1, <4>2
    <3>. QED BY <1>2, <3>1, <3>2
  <2>3. \A d \in Clients : client'[d].state \in {"waiting", "starting", "attached"} => client'[d].attempt \in Taken'
    BY <1>2, <1>5 DEF ActivationInv, ActivationTypes
  <2>4. info'.stamp \in Nat /\ latest' \in 0..MaxAttempts /\ DOMAIN disk' = Files /\ DOMAIN events' = Attempts
    BY <1>1, <1>2, AttemptsAreCounted DEF ActivationInv, ActivationTypes
  <2>. QED BY <1>3, <1>4, <1>5, <2>1, <2>2, <2>3, <2>4 DEF ActivationTypes
<1>10. \A a \in Taken' : ~Guarded(record'[a]) /\ record'[a].guard # "ready"
  BY <1>2, <1>3, <1>6, <1>7 DEF Guarded
<1>11. StampsName'
  <2> SUFFICES ASSUME NEW a \in Taken'
               PROVE  /\ record'[a].stamp <= info.stamp
                      /\ record'[a].stamp = info.stamp => record'[a].cert = info.cert /\ record'[a].frozen = info.frozen
                      /\ helper'[a].kind = "validate" /\ record'[a].stamp = helper'[a].info.stamp =>
                            record'[a].cert = helper'[a].info.cert /\ record'[a].frozen = helper'[a].info.frozen
    BY <1>1 DEF StampsName
  <2>1. CASE a = n
    BY <1>3, <1>4, <1>6, <2>1 DEF ActivationInv, ActivationTypes
  <2>2. CASE a \in Taken
    BY <1>7, <1>8, <2>2 DEF ActivationInv, StampsName
  <2>. QED BY <1>2, <2>1, <2>2
<1>. QED BY <1>9, <1>10, <1>11 DEF ActivationInv, OneGuarded, Validating, Unsaved

LEMMA ActivationStarts == Init => ActivationInv
<1> SUFFICES ASSUME Init PROVE ActivationInv
  OBVIOUS
<1>1. /\ DOMAIN disk = Files /\ latest = 0 /\ record = [a \in Attempts |-> Unused]
      /\ helper = [a \in Attempts |-> None] /\ events = [a \in Attempts |-> {}]
      /\ client = [c \in Clients |-> Idle] /\ info.stamp = 1
  BY DEF Init
<1>2. Taken = {} /\ Unused.phase = "unused" /\ Idle.state = "idle"
  BY <1>1 DEF Taken, Unused, Idle
<1>3. ActivationTypes
  BY <1>1, <1>2, AttemptsAreCounted DEF ActivationTypes
<1>. QED BY <1>2, <1>3 DEF ActivationInv, OneGuarded, StampsName, Validating, Unsaved

LEMMA ActivationKept == ASSUME ActivationInv, Next PROVE ActivationInv'
<1>1. CASE Edit \/ Modify \/ Save \/ Publish \/ Abandon
  BY <1>1, ActivationWorld, ActivationPublish, ActivationAbandon
<1>2. ASSUME NEW a \in Attempts, Session(a) PROVE ActivationInv'
  BY <1>2, ActivationDescribed, ActivationBegins, ActivationArms, ActivationVerifies, ActivationReads,
     ActivationRechecks, ActivationVerdict, ActivationFails, ActivationReport, ActivationCleanUp DEF Session
<1>3. ASSUME NEW c \in Clients, Server(c) PROVE ActivationInv'
  BY <1>3, ActivationBlocked, ActivationKnown, ActivationNew, ActivationServers, ActivationAttach,
     ActivationAsks DEF Server
<1>. QED BY <1>1, <1>2, <1>3 DEF Next

LEMMA ActivationSame == ASSUME ActivationInv, UNCHANGED own PROVE ActivationInv'
BY DEF own, ActivationInv, ActivationTypes, OneGuarded, StampsName, Validating, Unsaved, Sound, Attached, Taken

LEMMA CoveredOnce ==
  ASSUME NEW database, Covers(database), NEW n \in Commands
  PROVE  Cardinality({i \in DOMAIN database : n \in database[i]}) = 1
<1> DEFINE T == {i \in DOMAIN database : n \in database[i]}
<1>1. PICK e \in ToSet(database) : n \in e
  BY DEF Covers
<1>2. PICK i \in DOMAIN database : e = database[i]
  BY <1>1 DEF ToSet
<1>3. T = {i}
  BY <1>1, <1>2 DEF Covers
<1>. QED BY <1>3, FS_Singleton

(* Only an answer under authority reaches the user.                         *)
LEMMA CertifiedResult ==
  ASSUME ActivationInv, Next, NEW c \in Clients, client[c].state = "attached", answer' = "result", answer = "none",
         client[c].asked, ~client'[c].asked
  PROVE  Certified(client[c].attempt)
<1> DEFINE a == client[c].attempt
<1>1. ASSUME ~\E d \in Clients : Answer(d) PROVE FALSE
  <2>1. UNCHANGED answer \/ answer' \in {"none", "stale"}
    <3>1. CASE Edit \/ Publish \/ Modify \/ Save \/ Abandon
      BY <3>1 DEF Edit, Publish, Modify, Save, Abandon
    <3>2. ASSUME NEW b \in Attempts, Session(b) PROVE UNCHANGED answer \/ answer' \in {"none", "stale"}
      BY <3>2 DEF Session, Described, BeginWatching, Arm, Verify, Read, Recheck, Verdict, HelperFails, Report, CleanUp
    <3>3. ASSUME NEW d \in Clients, Server(d) PROVE UNCHANGED answer \/ answer' \in {"none", "stale"}
      BY <1>1, <3>3 DEF Server, OpenBlocked, OpenKnown, OpenNew, Launch, Attach, Exit, Ask
    <3>. QED BY <3>1, <3>2, <3>3 DEF Next
  <2>. QED BY <2>1
<1>2. PICK d \in Clients : Answer(d)
  BY <1>1
<1>3. d = c
  BY <1>2, HelperEnds DEF Answer
<1>4. a \in Taken /\ record[a].guard = "ready"
  BY <1>2, <1>3 DEF Answer, Permits, ActivationInv, ActivationTypes
<1>5. Sound(a) /\ ~dirty
  BY <1>4 DEF ActivationInv, Validating, Guarded, Unsaved, Attached
<1>. QED BY <1>5, CoveredOnce DEF Certified, Sound

LEMMA ActivationSteps == [NextAll]_all => Next \/ UNCHANGED own
BY DEF NextAll, ActivationStep, CohortStep, SwitchStep, ChunksStep, SuperStep, ReceiptStep, HotStep, FullStep,
       RepairStep, ClangdStep, QueryStep, BatchStep, ToolStep, all, vars, environment, own

(* A result reaches the user only under a publication that covers each      *)
(* command once and whose inputs still have the certified bytes, but for    *)
(* what no watch has reported yet, and beside no document with unsaved      *)
(* changes (ue/index/batch_runtime.lua, batch_guard.lua,                    *)
(* clangd_batch_activation.py).                                             *)
THEOREM ResultsAreAlwaysCertified == SpecAll => ResultsAreCertified
<1> DEFINE Right ==
      \A c \in Clients : client[c].state = "attached" /\ answer' = "result" /\ answer = "none"
                         /\ client[c].asked /\ ~client'[c].asked
         => Certified(client[c].attempt)
<1>1. InitAll => ActivationInv
  BY ActivationStarts DEF InitAll
<1>2. ActivationInv /\ [NextAll]_all => ActivationInv'
  BY ActivationKept, ActivationSteps, ActivationSame
<1>3. ASSUME ActivationInv, [NextAll]_all PROVE [Right]_vars
  <2>1. CASE UNCHANGED own
    BY <2>1 DEF own
  <2>2. CASE Next
    BY <1>3, <2>2, CertifiedResult
  <2>. QED BY <1>3, <2>1, <2>2, ActivationSteps
<1>. QED BY <1>1, <1>2, <1>3, PTL DEF SpecAll, ResultsAreCertified

-----------------------------------------------------------------------------
(* SwitchReindex.                                                           *)

(* What a main reads.                                                        *)
LEMMA Closures ==
  ASSUME NEW m \in Mains
  PROVE  /\ m \in S!Closure[m] /\ S!Closure[m] \subseteq S!Sources
         /\ IsFiniteSet(S!Closure[m]) /\ Cardinality(S!Closure[m]) \in Nat \ {0}
<1>1. m \in S!Sources
  BY DEF S!Sources
<1>2. m \in S!Closure[m] /\ S!Closure[m] \subseteq S!Sources
  BY <1>1 DEF S!Closure
<1>3. IsFiniteSet(S!Closure[m])
  BY <1>2, SourcesAreFinite, FS_Subset
<1>. QED BY <1>2, <1>3, FS_CardinalityType, FS_EmptySet

LEMMA SameCounts == \A s : S!Cardinality(s) = Cardinality(s)
BY DEF S!Cardinality, Cardinality

(* Shares are compared as fractions.                                         *)
LEMMA FractionsOrder ==
  ASSUME NEW a \in Nat, NEW b \in Nat \ {0}, NEW c \in Nat, NEW d \in Nat \ {0},
         NEW e \in Nat, NEW f \in Nat \ {0}, a * d >= c * b, c * f >= e * d
  PROVE  a * f >= e * b
<1>1. (a * d) * f >= (c * b) * f
  <2>1. \A x, y \in Nat : x >= y => x * f >= y * f
    OBVIOUS
  <2>2. a * d \in Nat /\ c * b \in Nat
    OBVIOUS
  <2>. QED BY <2>1, <2>2
<1>2. (c * f) * b >= (e * d) * b
  <2>1. \A x, y \in Nat : x >= y => x * b >= y * b
    OBVIOUS
  <2>2. c * f \in Nat /\ e * d \in Nat
    OBVIOUS
  <2>. QED BY <2>1, <2>2
<1>3. (c * b) * f = (c * f) * b /\ (a * d) * f = (a * f) * d /\ (e * d) * b = (e * b) * d
  OBVIOUS
<1>4. (a * f) * d >= (e * b) * d
  <2>1. a * d \in Nat /\ c * b \in Nat /\ a * f \in Nat /\ e * b \in Nat /\ c * f \in Nat /\ e * d \in Nat
    OBVIOUS
  <2>2. (a * d) * f \in Nat /\ (c * b) * f \in Nat /\ (e * d) * b \in Nat
    BY <2>1
  <2>. QED BY <1>1, <1>2, <1>3, <2>2
<1>5. \A x, y \in Nat : x < y => x * d < y * d
  OBVIOUS
<1>6. a * f \in Nat /\ e * b \in Nat
  OBVIOUS
<1>7. (a * f) * d \in Nat /\ (e * b) * d \in Nat
  BY <1>6
<1>. QED BY <1>4, <1>5, <1>6, <1>7

LEMMA BestExists ==
  ASSUME NEW left, NEW taken, Mains \ taken # {}
  PROVE  S!Best(left, taken) \in Mains \ taken
<1> DEFINE A == Mains \ taken
           share(m) == S!Share(m, left)
           size(m) == S!Cardinality(S!Closure[m])
           Rel == {q \in A \X A : share(q[1]) * size(q[2]) >= share(q[2]) * size(q[1])}
<1>1. ASSUME NEW m \in A PROVE share(m) \in Nat /\ size(m) \in Nat \ {0}
  <2>1. IsFiniteSet(S!Closure[m] \cap left) /\ size(m) \in Nat \ {0}
    BY Closures, SameCounts, FS_Subset
  <2>2. S!Cardinality(S!Closure[m] \cap left) \in Nat
    BY <2>1, SameCounts, FS_CardinalityType
  <2>. QED BY <2>1, <2>2 DEF S!Share
<1>2. IsFiniteSet(A)
  <2>1. A \subseteq S!Sources
    BY DEF S!Sources
  <2>. QED BY <2>1, SourcesAreFinite, FS_Subset
<1> HIDE DEF share, size
<1>3. \A x, y \in A : <<x, y>> \in Rel <=> share(x) * size(y) >= share(y) * size(x)
  OBVIOUS
<1>4. \A x, y \in A : <<x, y>> \in Rel \/ <<y, x>> \in Rel
  <2> SUFFICES ASSUME NEW x \in A, NEW y \in A PROVE <<x, y>> \in Rel \/ <<y, x>> \in Rel
    OBVIOUS
  <2>1. share(x) * size(y) \in Nat /\ share(y) * size(x) \in Nat
    BY <1>1
  <2> HIDE DEF A, Rel
  <2>. QED BY <1>3, <2>1
<1>5. \A x, y, z \in A : <<x, y>> \in Rel /\ <<y, z>> \in Rel => <<x, z>> \in Rel
  <2> HIDE DEF A, Rel
  <2>. QED BY <1>1, <1>3, FractionsOrder
<1> HIDE DEF Rel
<1>6. PICK m \in A : \A n \in A : <<m, n>> \in Rel
  BY <1>2, <1>4, <1>5, GreatestOf
<1>7. \A n \in A : share(m) * size(n) >= share(n) * size(m)
  BY <1>3, <1>6
<1>. QED BY <1>7 DEF S!Best, share, size

(* The recursion of select_cover ends: what is not taken yet gets smaller.   *)
LEMMA CoverIsDefined ==
  ASSUME NEW changed \in SUBSET S!Covered(Mains)
  PROVE  \E cover : cover = [taken \in SUBSET Mains |->
            IF changed \ S!Covered(taken) = {} THEN taken
            ELSE cover[taken \cup {S!Best(changed \ S!Covered(taken), taken)}]]
<1> DEFINE Down(n) == {t \in SUBSET Mains : Cardinality(Mains \ t) <= n}
           Next1(t) == t \cup {S!Best(changed \ S!Covered(t), t)}
           Ends(t) == changed \ S!Covered(t) = {}
           Right(c, n) == \A t \in Down(n) : c[t] = IF Ends(t) THEN t ELSE c[Next1(t)]
           N == Cardinality(Mains)
           T == {n \in 0..N : ~\E c : Right(c, n)}
<1>1. IsFiniteSet(Mains) /\ N \in Nat
  <2>1. Mains \subseteq S!Sources
    BY DEF S!Sources
  <2>. QED BY <2>1, SourcesAreFinite, FS_Subset, FS_CardinalityType
<1>2. ASSUME NEW t \in SUBSET Mains
      PROVE  /\ IsFiniteSet(Mains \ t) /\ Cardinality(Mains \ t) \in Nat
             /\ Cardinality(Mains \ t) <= N
  BY <1>1, FS_Subset, FS_CardinalityType
<1>3. ASSUME NEW t \in SUBSET Mains, ~Ends(t)
      PROVE  Next1(t) \in SUBSET Mains /\ Cardinality(Mains \ Next1(t)) = Cardinality(Mains \ t) - 1
  <2> DEFINE b == S!Best(changed \ S!Covered(t), t)
  <2>1. Mains \ t # {}
    BY <1>3
  <2>2. b \in Mains \ t
    BY <2>1, BestExists
  <2>3. Next1(t) = t \cup {b} /\ Mains \ Next1(t) = (Mains \ t) \ {b}
    OBVIOUS
  <2> HIDE DEF b, Next1
  <2>4. Cardinality((Mains \ t) \ {b}) = Cardinality(Mains \ t) - 1
    BY <1>2, <2>2, FS_RemoveElement
  <2>. QED BY <2>2, <2>3, <2>4
<1> HIDE DEF Next1, Ends
<1>4. T = {}
  <2> SUFFICES ASSUME T # {} PROVE FALSE
    OBVIOUS
  <2>1. PICK n \in T : \A k \in T : n <= k
    <3>1. T \subseteq 0..N
      OBVIOUS
    <3> HIDE DEF T, N
    <3>. QED BY <1>1, <3>1, LeastNumber
  <2>2. n \in 0..N /\ n \in Nat /\ ~\E c : Right(c, n)
    BY <1>1
  <2>3. CASE n = 0
    <3>1. ASSUME NEW t \in Down(n), ~Ends(t) PROVE FALSE
      <4>1. t \in SUBSET Mains /\ Cardinality(Mains \ t) <= 0
        BY <2>3
      <4>2. Next1(t) \in SUBSET Mains /\ Cardinality(Mains \ Next1(t)) = Cardinality(Mains \ t) - 1
        BY <1>3, <3>1, <4>1
      <4>3. Cardinality(Mains \ t) \in Nat /\ Cardinality(Mains \ Next1(t)) \in Nat
        BY <1>2, <4>1, <4>2
      <4>. QED BY <4>1, <4>2, <4>3
    <3>2. Right([t \in SUBSET Mains |-> t], n)
      BY <3>1
    <3>. QED BY <2>2, <3>2
  <2>4. CASE n # 0
    <3>1. n - 1 \in 0..N
      BY <1>1, <2>2, <2>4
    <3>2. n - 1 \notin T
      BY <2>1, <2>2, <3>1
    <3>3. PICK c : Right(c, n - 1)
      BY <3>1, <3>2
    <3> DEFINE d == [t \in SUBSET Mains |-> IF t \in Down(n - 1) THEN c[t]
                                           ELSE IF Ends(t) THEN t ELSE c[Next1(t)]]
    <3>4. ASSUME NEW t \in Down(n), ~Ends(t) PROVE Next1(t) \in Down(n - 1)
      <4>1. t \in SUBSET Mains /\ Cardinality(Mains \ t) <= n
        OBVIOUS
      <4>2. Next1(t) \in SUBSET Mains /\ Cardinality(Mains \ Next1(t)) = Cardinality(Mains \ t) - 1
        BY <1>3, <3>4, <4>1
      <4>3. Cardinality(Mains \ t) \in Nat
        BY <1>2, <4>1
      <4>. QED BY <2>2, <4>1, <4>2, <4>3
    <3>5. \A t \in Down(n) : d[t] = IF Ends(t) THEN t ELSE c[Next1(t)]
      BY <3>3
    <3>6. \A t \in Down(n - 1) : d[t] = c[t]
      OBVIOUS
    <3> HIDE DEF d, Down
    <3>7. Right(d, n)
      BY <3>4, <3>5, <3>6
    <3>. QED BY <2>2, <3>7
  <2>. QED BY <2>3, <2>4
<1>5. PICK c : Right(c, N)
  BY <1>1, <1>4
<1>6. Down(N) = SUBSET Mains
  BY <1>1, <1>2
<1> DEFINE d == [t \in SUBSET Mains |-> c[t]]
<1>7. ASSUME NEW t \in SUBSET Mains PROVE d[t] = IF Ends(t) THEN t ELSE d[Next1(t)]
  BY <1>3, <1>5, <1>6
<1>8. d = [t \in SUBSET Mains |-> IF Ends(t) THEN t ELSE d[Next1(t)]]
  <2>1. d = [t \in SUBSET Mains |-> d[t]]
    OBVIOUS
  <2> HIDE DEF d
  <2>. QED BY <1>7, <2>1
<1> HIDE DEF d
<1>. QED BY <1>8 DEF Ends, Next1

(* select_cover: mains that together read all that changed.                  *)
LEMMA SelectCovers ==
  ASSUME NEW changed \in SUBSET S!Covered(Mains)
  PROVE  S!SelectCover(changed) \in SUBSET Mains /\ changed \subseteq S!Covered(S!SelectCover(changed))
<1> DEFINE Next1(t) == t \cup {S!Best(changed \ S!Covered(t), t)}
           Ends(t) == changed \ S!Covered(t) = {}
           cover == CHOOSE c : c = [taken \in SUBSET Mains |->
                IF changed \ S!Covered(taken) = {} THEN taken
                ELSE c[taken \cup {S!Best(changed \ S!Covered(taken), taken)}]]
           IsWhole(t) == cover[t] \in SUBSET Mains /\ changed \subseteq S!Covered(cover[t])
           T == {u \in SUBSET Mains : ~IsWhole(Mains \ u)}
<1>1. cover = [t \in SUBSET Mains |-> IF Ends(t) THEN t ELSE cover[Next1(t)]]
  BY CoverIsDefined
<1>2. S!SelectCover(changed) = cover[changed \cap Mains]
  BY DEF S!SelectCover
<1> HIDE DEF cover
<1>3. ASSUME NEW t \in SUBSET Mains PROVE cover[t] = IF Ends(t) THEN t ELSE cover[Next1(t)]
  <2> HIDE DEF Ends, Next1
  <2>. QED BY <1>1
<1>4. IsFiniteSet(Mains)
  <2>1. Mains \subseteq S!Sources
    BY DEF S!Sources
  <2>. QED BY <2>1, SourcesAreFinite, FS_Subset
<1>5. T = {}
  <2> SUFFICES ASSUME T # {} PROVE FALSE
    OBVIOUS
  <2>1. PICK u \in T : \A v \in T : v \subseteq u => v = u
    <3>1. T \subseteq SUBSET Mains
      OBVIOUS
    <3> HIDE DEF T
    <3>. QED BY <1>4, <3>1, MinimalSet
  <2> DEFINE t == Mains \ u
  <2>2. u \in SUBSET Mains /\ ~IsWhole(t) /\ t \in SUBSET Mains
    OBVIOUS
  <2>3. CASE Ends(t)
    <3>1. cover[t] = t
      BY <1>3, <2>2, <2>3
    <3>. QED BY <2>2, <2>3, <3>1
  <2>4. CASE ~Ends(t)
    <3> DEFINE b == S!Best(changed \ S!Covered(t), t)
    <3>0. Mains \ t # {}
      BY <2>4
    <3>1. b \in Mains \ t
      BY <3>0, BestExists
    <3> HIDE DEF b
    <3>2. Next1(t) = Mains \ (u \ {b}) /\ b \in u
      BY <2>2, <3>1 DEF b
    <3>3. u \ {b} \notin T
      BY <2>1, <3>2
    <3>4. IsWhole(Next1(t))
      BY <2>2, <3>2, <3>3
    <3>5. cover[t] = cover[Next1(t)]
      BY <1>3, <2>2, <2>4
    <3> HIDE DEF Next1
    <3>. QED BY <2>2, <3>4, <3>5
  <2>. QED BY <2>3, <2>4
<1>6. ASSUME NEW t \in SUBSET Mains PROVE IsWhole(t)
  <2>1. Mains \ t \notin T /\ Mains \ (Mains \ t) = t
    BY <1>5
  <2>. QED BY <2>1
<1>. QED BY <1>2, <1>6

Bins(workers) == [1..workers -> [mains : Seq(Mains), load : Nat]]
Given(bins, workers) == UNION {ToSet(bins[w].mains) : w \in 1..workers}

LEMMA SmallestExists ==
  ASSUME NEW mains \in SUBSET Mains, mains # {}
  PROVE  S!Smallest(mains) \in mains
<1> DEFINE size(m) == S!Cardinality(S!Closure[m])
           Rel == {q \in mains \X mains : size(q[1]) <= size(q[2])}
<1>1. \A m \in mains : size(m) \in Nat
  BY Closures, SameCounts
<1>2. IsFiniteSet(mains)
  <2>1. mains \subseteq S!Sources
    BY DEF S!Sources
  <2>. QED BY <2>1, SourcesAreFinite, FS_Subset
<1> HIDE DEF size
<1>3. \A x, y \in mains : <<x, y>> \in Rel <=> size(x) <= size(y)
  OBVIOUS
<1> HIDE DEF Rel
<1>4. /\ \A x, y \in mains : <<x, y>> \in Rel \/ <<y, x>> \in Rel
      /\ \A x, y, z \in mains : <<x, y>> \in Rel /\ <<y, z>> \in Rel => <<x, z>> \in Rel
  BY <1>1, <1>3
<1>5. PICK m \in mains : \A n \in mains : <<m, n>> \in Rel
  BY <1>2, <1>4, GreatestOf
<1>6. \A n \in mains : size(m) <= size(n)
  BY <1>3, <1>5
<1>. QED BY <1>6 DEF S!Smallest, size

LEMMA LeastExists ==
  ASSUME NEW workers \in Nat \ {0}, NEW bins \in Bins(workers)
  PROVE  S!Least(bins) \in 1..workers
<1> DEFINE W == 1..workers
           Before(x, y) == bins[x].load < bins[y].load \/ (bins[x].load = bins[y].load /\ x <= y)
           Rel == {q \in W \X W : Before(q[1], q[2])}
<1>1. \A w \in W : bins[w].load \in Nat /\ w \in Nat
  BY DEF Bins
<1>2. IsFiniteSet(W)
  BY FS_Interval
<1>0. 1 \in W /\ DOMAIN bins = W
  BY DEF Bins
<1> HIDE DEF W
<1>3. \A x, y \in W : <<x, y>> \in Rel <=> Before(x, y)
  OBVIOUS
<1> HIDE DEF Rel
<1>4. /\ \A x, y \in W : <<x, y>> \in Rel \/ <<y, x>> \in Rel
      /\ \A x, y, z \in W : <<x, y>> \in Rel /\ <<y, z>> \in Rel => <<x, z>> \in Rel
  BY <1>1, <1>3
<1>5. PICK w \in W : \A v \in W : <<w, v>> \in Rel
  BY <1>0, <1>2, <1>4, GreatestOf
<1>6. \A v \in DOMAIN bins :
        bins[w].load < bins[v].load \/ (bins[w].load = bins[v].load /\ w <= v)
  BY <1>0, <1>3, <1>5
<1>7. S!Least(bins) \in W
  BY <1>0, <1>6 DEF S!Least
<1>. QED BY <1>7 DEF W

LEMMA GiveAdds ==
  ASSUME NEW workers \in Nat \ {0}, NEW bins \in Bins(workers), NEW m \in Mains
  PROVE  S!Give(m, bins) \in Bins(workers) /\ Given(S!Give(m, bins), workers) = Given(bins, workers) \cup {m}
<1> DEFINE u == S!Least(bins)
           b == [mains |-> Append(bins[u].mains, m), load |-> bins[u].load + S!Cardinality(S!Closure[m])]
<1>1. u \in 1..workers
  BY LeastExists
<1>2. S!Cardinality(S!Closure[m]) \in Nat
  BY Closures, SameCounts
<1>3. \A w \in 1..workers : bins[w].mains \in Seq(Mains) /\ bins[w].load \in Nat
  BY DEF Bins
<1>4. b \in [mains : Seq(Mains), load : Nat]
  BY <1>1, <1>2, <1>3, AppendProperties
<1>5. ToSet(b.mains) = ToSet(bins[u].mains) \cup {m}
  <2>1. /\ Len(b.mains) = Len(bins[u].mains) + 1 /\ b.mains[Len(b.mains)] = m
        /\ \A i \in 1..Len(bins[u].mains) : b.mains[i] = bins[u].mains[i]
    BY <1>1, <1>3, AppendProperties
  <2>2. DOMAIN b.mains = 1..Len(b.mains) /\ DOMAIN bins[u].mains = 1..Len(bins[u].mains)
    BY <1>1, <1>3, <1>4
  <2>3. Len(bins[u].mains) \in Nat
    BY <1>1, <1>3
  <2> HIDE DEF b, u
  <2>4. ToSet(b.mains) \subseteq ToSet(bins[u].mains) \cup {m}
    <3>1. \A i \in DOMAIN b.mains : i = Len(b.mains) \/ i \in DOMAIN bins[u].mains
      BY <2>1, <2>2, <2>3
    <3>2. \A i \in DOMAIN b.mains :
            b.mains[i] = m \/ (i \in DOMAIN bins[u].mains /\ b.mains[i] = bins[u].mains[i])
      BY <2>1, <2>2, <3>1
    <3>. QED BY <3>2 DEF ToSet
  <2>5. ToSet(bins[u].mains) \subseteq ToSet(b.mains)
    <3>1. \A i \in DOMAIN bins[u].mains : i \in DOMAIN b.mains /\ b.mains[i] = bins[u].mains[i]
      BY <2>1, <2>2, <2>3
    <3>. QED BY <3>1 DEF ToSet
  <2>6. m \in ToSet(b.mains)
    <3>1. Len(b.mains) \in DOMAIN b.mains
      BY <2>1, <2>2, <2>3
    <3>. QED BY <2>1, <3>1 DEF ToSet
  <2>. QED BY <2>4, <2>5, <2>6
<1>6. S!Give(m, bins) = [bins EXCEPT ![u] = b]
  BY DEF S!Give
<1> HIDE DEF u, b
<1>7. S!Give(m, bins) \in Bins(workers)
  BY <1>1, <1>4, <1>6 DEF Bins
<1>8. \A w \in 1..workers : S!Give(m, bins)[w] = IF w = u THEN b ELSE bins[w]
  BY <1>1, <1>6 DEF Bins
<1>9. Given(S!Give(m, bins), workers) = Given(bins, workers) \cup {m}
  BY <1>1, <1>5, <1>8 DEF Given
<1>. QED BY <1>7, <1>9

(* split_lpt: each of the selected mains goes to one of the workers.         *)
LEMMA SplitCovers ==
  ASSUME NEW selected \in SUBSET Mains, NEW workers \in Nat \ {0}
  PROVE  /\ S!SplitLpt(selected, workers) \in [1..workers -> Seq(Mains)]
         /\ UNION {ToSet(S!SplitLpt(selected, workers)[w]) : w \in 1..workers} = selected
<1> DEFINE none == [w \in 1..workers |-> [mains |-> <<>>, load |-> 0]]
           iter == CHOOSE f : f = [s \in SUBSET selected |->
                     IF s = {} THEN none
                     ELSE LET x == S!Smallest(s) IN S!Give(x, f[s \ {x}])]
           bins == iter[selected]
<1>1. S!SplitLpt(selected, workers) = [w \in 1..workers |-> bins[w].mains]
  BY DEF S!SplitLpt, S!MapThenFoldSet
<1> DEFINE pick == [s \in SUBSET selected |-> S!Smallest(s)]
           step == [q \in selected \X Bins(workers) |-> S!Give(q[1], q[2])]
<1>2. IsFiniteSet(selected)
  <2>1. selected \subseteq S!Sources
    BY DEF S!Sources
  <2>. QED BY <2>1, SourcesAreFinite, FS_Subset
<1>3. none \in Bins(workers)
  BY DEF Bins
<1>4. \A s \in SUBSET selected : s # {} => pick[s] \in s
  BY SmallestExists
<1>5. step \in [selected \X Bins(workers) -> Bins(workers)]
  <2>1. \A q \in selected \X Bins(workers) : S!Give(q[1], q[2]) \in Bins(workers)
    BY GiveAdds
  <2>. QED BY <2>1
<1>6. \E f : f = [s \in SUBSET selected |->
                     IF s = {} THEN none ELSE S!Give(S!Smallest(s), f[s \ {S!Smallest(s)}])]
  <2>1. PICK f \in [SUBSET selected -> Bins(workers)] : \A s \in SUBSET selected :
            f[s] = IF s = {} THEN none ELSE step[<<pick[s], f[s \ {pick[s]}]>>]
    <3> DEFINE V == Bins(workers)
    <3>1. none \in V /\ step \in [selected \X V -> V]
      BY <1>3, <1>5
    <3> HIDE DEF pick, step, none, V
    <3>2. Folding(selected, V, none, pick, step)
      BY <1>2, <1>4, <3>1 DEF Folding
    <3>3. \E f \in [SUBSET selected -> V] : IsFold(f, selected, none, pick, step)
      BY <3>2, FoldIsDefined
    <3>. QED BY <3>3 DEF V, IsFold
  <2>2. ASSUME NEW s \in SUBSET selected, s # {}
        PROVE  f[s] = S!Give(S!Smallest(s), f[s \ {S!Smallest(s)}])
    <3>1. pick[s] = S!Smallest(s) /\ pick[s] \in selected /\ f[s \ {pick[s]}] \in Bins(workers)
      BY <1>4, <2>2
    <3>. QED BY <2>1, <2>2, <3>1
  <2> HIDE DEF none
  <2>3. \A s \in SUBSET selected :
          f[s] = IF s = {} THEN none ELSE S!Give(S!Smallest(s), f[s \ {S!Smallest(s)}])
    BY <2>1, <2>2
  <2>4. f = [s \in SUBSET selected |->
               IF s = {} THEN none ELSE S!Give(S!Smallest(s), f[s \ {S!Smallest(s)}])]
    BY <2>3
  <2>. QED BY <2>4
<1>7. iter = [s \in SUBSET selected |->
                IF s = {} THEN none ELSE S!Give(S!Smallest(s), iter[s \ {S!Smallest(s)}])]
  BY <1>6
<1> HIDE DEF iter
<1> DEFINE IsWhole(s) == iter[s] \in Bins(workers) /\ Given(iter[s], workers) = s
           T == {s \in SUBSET selected : ~IsWhole(s)}
<1>8. T = {}
  <2> SUFFICES ASSUME T # {} PROVE FALSE
    OBVIOUS
  <2>1. PICK s \in T : \A r \in T : r \subseteq s => r = s
    <3>1. T \subseteq SUBSET selected
      OBVIOUS
    <3> HIDE DEF T
    <3>. QED BY <1>2, <3>1, MinimalSet
  <2>2. CASE s = {}
    <3>1. iter[s] = none
      BY <1>7, <2>2
    <3>2. Given(none, workers) = {}
      BY DEF Given, ToSet
    <3>. QED BY <1>3, <2>2, <3>1, <3>2
  <2>3. CASE s # {}
    <3> DEFINE x == S!Smallest(s)
               r == s \ {x}
    <3>1. x \in s
      BY <2>3, SmallestExists
    <3>2. IsWhole(r)
      BY <2>1, <3>1
    <3>3. iter[s] = S!Give(x, iter[r])
      BY <1>7, <2>3
    <3>5. x \in Mains
      BY <3>1
    <3> HIDE DEF x, r
    <3>4. iter[s] \in Bins(workers) /\ Given(iter[s], workers) = r \cup {x}
      BY <3>2, <3>3, <3>5, GiveAdds
    <3>. QED BY <3>1, <3>4 DEF r
  <2>. QED BY <2>2, <2>3
<1>9. IsWhole(selected)
  BY <1>8
<1>. QED BY <1>1, <1>9 DEF Bins, Given

(* What changed is covered by the mains that are selected, however many      *)
(* workers they are split between.                                           *)
LEMMA CoverIsComplete ==
  ASSUME NEW changed \in SUBSET S!Covered(Mains), NEW workers \in Nat \ {0}
  PROVE  LET bins == S!SplitLpt(S!SelectCover(changed), workers)
         IN  /\ bins \in [1..workers -> Seq(Mains)]
             /\ changed \subseteq UNION {S!Covered(ToSet(bins[w])) : w \in 1..workers}
<1> DEFINE selected == S!SelectCover(changed)
           bins == S!SplitLpt(selected, workers)
<1>1. selected \in SUBSET Mains /\ changed \subseteq S!Covered(selected)
  BY SelectCovers
<1> HIDE DEF selected
<1>2. bins \in [1..workers -> Seq(Mains)] /\ UNION {ToSet(bins[w]) : w \in 1..workers} = selected
  BY <1>1, SplitCovers
<1> HIDE DEF bins
<1>3. ASSUME NEW s \in changed PROVE \E w \in 1..workers : s \in S!Covered(ToSet(bins[w]))
  <2>1. PICK m \in selected : s \in S!Closure[m]
    BY <1>1 DEF S!Covered
  <2>2. PICK w \in 1..workers : m \in ToSet(bins[w])
    BY <1>2
  <2>. QED BY <2>1, <2>2 DEF S!Covered
<1>. QED BY <1>2, <1>3 DEF bins, selected

StampsTo(e) == [S!Sources -> 0..(e + 1)]
SnapshotFields == {"stage", "baseline", "generation"}
WorkFields == {"stage", "failed", "current", "generation", "bins"}
IsSplit(bins) == \E n \in 1..MaxWorkers : bins \in [1..n -> Seq(Mains)]
Shaped(h, e, d) ==
    /\ h.stage \in {"idle", "done", "snapshot", "decide", "work", "save"}
    /\ h.stage = "snapshot" => DOMAIN h = SnapshotFields
    /\ h.stage = "decide" => h.current \in StampsTo(e)
    /\ h.stage \in {"snapshot", "decide"} => h.baseline \in BOOLEAN /\ (h.baseline => d)
    /\ h.stage \in {"work", "save"} => /\ DOMAIN h = WorkFields /\ h.current \in StampsTo(e)
                                       /\ h.failed \in BOOLEAN /\ IsSplit(h.bins)
Saved(m) == /\ m.sources \in StampsTo(edits) /\ m.generation.cdb \in 0..cdb
            /\ m.generation.shards \in 0..written
SwitchTypes ==
    /\ edits \in Nat /\ cdb \in Nat /\ written \in Nat /\ due \in BOOLEAN
    /\ tree \in StampsTo(edits) /\ DOMAIN shards = S!Indexed
    /\ DOMAIN switcher = Helpers /\ \A p \in Helpers : Shaped(switcher[p], edits, due)
    /\ manifest # S!None => Saved(manifest)

(* One run holds the lock.                                                  *)
Runs(h) == h.stage \notin {"idle", "done"}
OneRuns == \A p, q \in Helpers : Runs(switcher[p]) /\ Runs(switcher[q]) => p = q
(* Until the baseline is established, only what was edited since the        *)
(* prepare differs from its shard.                                          *)
DueIsIndexed == due => \A s \in S!Indexed \ missed : shards[s] = tree[s]
(* What did not change since the snapshot is indexed, or a worker is still  *)
(* to index it.                                                             *)
Left(h) == UNION {S!Covered(ToSet(h.bins[w])) : w \in DOMAIN h.bins}
Reindexing(h) ==
    h.stage = "save" \/ (h.stage = "work" /\ ~h.failed) =>
        \A s \in S!Indexed \ missed : tree[s] = h.current[s] /\ tree[s] # S!Absent =>
            shards[s] = tree[s] \/ (h.stage = "work" /\ s \in Left(h))
SwitchInv == /\ SwitchTypes /\ OneRuns /\ DueIsIndexed /\ S!NoChangeMissed
             /\ \A p \in Helpers : Reindexing(switcher[p])

LEMMA SwitchStarts == S!Init /\ edits = 0 => SwitchInv
<1> SUFFICES ASSUME S!Init, edits = 0 PROVE SwitchInv
  OBVIOUS
<1>1. /\ tree = [s \in S!Sources |-> IF s \in S!Indexed THEN 1 ELSE S!Absent] /\ cdb = 0 /\ written = 0
      /\ shards = [s \in S!Indexed |-> 1] /\ manifest = S!None /\ due = TRUE
      /\ switcher = [p \in Helpers |-> S!Idle] /\ S!Absent = 0 /\ S!Idle.stage = "idle"
  BY DEF S!Init, S!Absent, S!Idle
<1>2. tree \in StampsTo(edits)
  BY <1>1 DEF StampsTo
<1>3. SwitchTypes
  BY <1>1, <1>2 DEF SwitchTypes, Shaped
<1>4. DueIsIndexed
  BY <1>1 DEF DueIsIndexed, S!Sources
<1>5. S!NoChangeMissed
  BY <1>1 DEF S!NoChangeMissed, S!Baseline
<1>. QED BY <1>1, <1>3, <1>4, <1>5 DEF SwitchInv, OneRuns, Runs, Reindexing

(* One run goes a step on, and what is on the disk stays.                   *)
LEMMA SwitchOne ==
  ASSUME SwitchInv, UNCHANGED <<edits, tree, cdb, shards, written, missed>>, NEW p \in Helpers, NEW h,
         DOMAIN switcher' = Helpers, \A q \in Helpers : switcher'[q] = IF q = p THEN h ELSE switcher[q],
         Runs(h) => Runs(switcher[p]) \/ ~S!Locked, Shaped(h, edits, due'), Reindexing(h),
         UNCHANGED due \/ (due' = FALSE /\ Runs(switcher[p])),
         UNCHANGED manifest \/
            (/\ manifest'.sources \in StampsTo(edits) /\ manifest'.generation = S!Generation
             /\ \A s \in S!Indexed \ missed :
                   tree[s] # S!Absent /\ manifest'.sources[s] = tree[s] => shards[s] = tree[s])
  PROVE  SwitchInv'
<1>1. ASSUME NEW q \in Helpers, q # p PROVE Shaped(switcher'[q], edits, due') /\ switcher'[q] = switcher[q]
  <2>1. switcher'[q] = switcher[q] /\ Shaped(switcher[q], edits, due)
    BY <1>1 DEF SwitchInv, SwitchTypes
  <2>2. CASE UNCHANGED due
    BY <2>1, <2>2
  <2>3. CASE Runs(switcher[p])
    BY <1>1, <2>1, <2>3 DEF SwitchInv, OneRuns, Runs, Shaped
  <2>. QED BY <2>1, <2>2, <2>3
<1>2. SwitchTypes'
  <2>1. due' \in BOOLEAN /\ \A q \in Helpers : Shaped(switcher'[q], edits', due')
    BY <1>1 DEF SwitchInv, SwitchTypes
  <2>2. manifest' # S!None => Saved(manifest)'
    BY DEF SwitchInv, SwitchTypes, Saved, S!Generation
  <2>. QED BY <2>1, <2>2 DEF SwitchInv, SwitchTypes
<1>3. OneRuns'
  BY DEF SwitchInv, OneRuns, S!Locked, S!Running, Runs
<1>4. DueIsIndexed'
  BY DEF SwitchInv, DueIsIndexed
<1>5. S!NoChangeMissed'
  BY DEF SwitchInv, S!NoChangeMissed, S!Baseline, S!Generation
<1>6. \A q \in Helpers : Reindexing(switcher[q])'
  <2>1. \A q \in Helpers : Reindexing(switcher'[q])
    BY DEF SwitchInv
  <2>. QED BY <2>1 DEF Reindexing
<1>. QED BY <1>2, <1>3, <1>4, <1>5, <1>6 DEF SwitchInv

LEMMA SwitchRun ==
  ASSUME SwitchInv, NEW p \in Helpers
  PROVE  /\ DOMAIN switcher = Helpers /\ Shaped(switcher[p], edits, due) /\ Reindexing(switcher[p])
         /\ tree \in StampsTo(edits)
         /\ \A h : switcher' = [switcher EXCEPT ![p] = h] =>
               DOMAIN switcher' = Helpers /\ \A q \in Helpers : switcher'[q] = IF q = p THEN h ELSE switcher[q]
BY DEF SwitchInv, SwitchTypes

LEMMA SwitchEnds ==
  ASSUME SwitchInv, UNCHANGED <<edits, tree, cdb, shards, written, missed, due, manifest>>, NEW p \in Helpers,
         NEW h, ~Runs(h), switcher' = [switcher EXCEPT ![p] = h]
  PROVE  SwitchInv'
<1>1. Shaped(h, edits, due') /\ Reindexing(h)
  BY DEF Shaped, Reindexing, Runs
<1>. QED BY <1>1, SwitchRun, SwitchOne

LEMMA DoneIsDone == (\A reason : ~Runs(S!Done(reason))) /\ ~Runs(S!Idle)
BY DEF S!Done, S!Idle, Runs

LEMMA SwitchBegins == ASSUME SwitchInv, NEW p \in Helpers, S!Begin(p) PROVE SwitchInv'
<1>1. UNCHANGED <<edits, tree, cdb, shards, written, missed, due, manifest>>
  BY DEF S!Begin, S!environment
<1>2. PICK baseline \in BOOLEAN :
        /\ baseline => due
        /\ switcher' = [switcher EXCEPT ![p] = IF S!Locked THEN S!Done("locked")
                       ELSE [stage |-> "snapshot", baseline |-> baseline, generation |-> S!Generation]]
  BY DEF S!Begin
<1>3. CASE S!Locked
  BY <1>1, <1>2, <1>3, DoneIsDone, SwitchEnds
<1>4. CASE ~S!Locked
  <2> DEFINE h == [stage |-> "snapshot", baseline |-> baseline, generation |-> S!Generation]
  <2>1. switcher' = [switcher EXCEPT ![p] = h]
    BY <1>2, <1>4
  <2>2. Shaped(h, edits, due) /\ Reindexing(h)
    BY <1>2 DEF Shaped, Reindexing, SnapshotFields
  <2> HIDE DEF h
  <2>. QED BY <1>1, <1>4, <2>1, <2>2, SwitchRun, SwitchOne
<1>. QED BY <1>3, <1>4

LEMMA SwitchSnapshot == ASSUME SwitchInv, NEW p \in Helpers, S!Snapshot(p) PROVE SwitchInv'
<1> DEFINE h == [stage |-> "decide", current |-> tree, baseline |-> switcher[p].baseline,
                 generation |-> switcher[p].generation]
<1>1. /\ UNCHANGED <<edits, tree, cdb, shards, written, missed, due, manifest>> /\ switcher[p].stage = "snapshot"
      /\ switcher' = [switcher EXCEPT ![p] = h]
  BY SwitchRun DEF S!Snapshot, S!environment
<1>2. Shaped(h, edits, due)
  BY <1>1, SwitchRun DEF Shaped
<1>3. Reindexing(h) /\ Runs(switcher[p])
  BY <1>1 DEF Reindexing, Runs
<1> HIDE DEF h
<1>. QED BY <1>1, <1>2, <1>3, SwitchRun, SwitchOne

(* With the baseline still due, what the snapshot saw is indexed.           *)
LEMMA SwitchEstablishes == ASSUME SwitchInv, NEW p \in Helpers, S!EstablishBaseline(p) PROVE SwitchInv'
<1> DEFINE h == S!Done("baseline")
<1>1. /\ UNCHANGED <<edits, tree, cdb, shards, written, missed>> /\ due' = FALSE
      /\ switcher[p].stage = "decide" /\ switcher[p].baseline /\ switcher' = [switcher EXCEPT ![p] = h]
      /\ manifest' = [sources |-> switcher[p].current, generation |-> switcher[p].generation]
      /\ switcher[p].generation = S!Generation
  BY DEF S!EstablishBaseline, S!environment, S!Save
<1>2. due /\ switcher[p].current \in StampsTo(edits) /\ Runs(switcher[p])
  BY <1>1, SwitchRun DEF Shaped, Runs
<1>3. \A s \in S!Indexed \ missed : shards[s] = tree[s]
  BY <1>2 DEF SwitchInv, DueIsIndexed
<1>4. manifest'.sources = switcher[p].current /\ manifest'.generation = S!Generation
  BY <1>1
<1>5. ~Runs(h) /\ Shaped(h, edits, due') /\ Reindexing(h)
  BY DoneIsDone DEF Shaped, Reindexing, Runs, S!Done
<1> HIDE DEF h
<1>. QED BY <1>1, <1>2, <1>3, <1>4, <1>5, SwitchRun, SwitchOne

(* What differs from the baseline is given to a worker.                     *)
LEMMA SwitchDecides == ASSUME SwitchInv, NEW p \in Helpers, S!Decide(p) PROVE SwitchInv'
<1>1. UNCHANGED <<edits, tree, cdb, shards, written, missed, due, manifest>> /\ switcher[p].stage = "decide"
  BY DEF S!Decide, S!environment
<1>2. CASE \E reason : switcher' = [switcher EXCEPT ![p] = S!Done(reason)]
  BY <1>1, <1>2, DoneIsDone, SwitchEnds
<1>3. ASSUME ~S!NeedsPrepare(switcher[p]), ~switcher[p].baseline, NEW workers \in 0..MaxWorkers, workers # 0,
             switcher' = [switcher EXCEPT ![p] =
                 [stage |-> "work", failed |-> FALSE, current |-> switcher[p].current,
                  generation |-> switcher[p].generation,
                  bins |-> S!SplitLpt(S!SelectCover(S!Changed(switcher[p].current)), workers)]]
      PROVE  SwitchInv'
  <2> DEFINE current == switcher[p].current
             changed == S!Changed(current)
             bins == S!SplitLpt(S!SelectCover(changed), workers)
             h == [stage |-> "work", failed |-> FALSE, current |-> current,
                   generation |-> switcher[p].generation, bins |-> bins]
  <2>1. switcher' = [switcher EXCEPT ![p] = h] /\ workers \in 1..MaxWorkers /\ current \in StampsTo(edits)
    BY <1>1, <1>3, SwitchRun DEF Shaped
  <2>2. S!Baseline(S!Generation) /\ S!Uncovered(changed, current) = {}
    BY <1>3 DEF S!NeedsPrepare
  <2>3. changed \in SUBSET S!Covered(Mains)
    BY <2>2 DEF S!Uncovered
  <2> HIDE DEF changed
  <2>10. workers \in Nat \ {0}
    BY <2>1, SourcesAreFinite
  <2>4. bins \in [1..workers -> Seq(Mains)] /\ changed \subseteq UNION {S!Covered(ToSet(bins[w])) : w \in 1..workers}
    BY <2>3, <2>10, CoverIsComplete
  <2> HIDE DEF bins
  <2>5. /\ DOMAIN h = WorkFields /\ h.stage = "work" /\ h.failed = FALSE /\ h.current = current /\ h.bins = bins
        /\ IsSplit(bins) /\ DOMAIN bins = 1..workers
    BY <2>1, <2>4 DEF WorkFields, IsSplit
  <2> HIDE DEF h
  <2>6. Shaped(h, edits, due)
    BY <2>1, <2>5 DEF Shaped
  <2>7. Left(h) = UNION {S!Covered(ToSet(bins[w])) : w \in 1..workers}
    BY <2>5 DEF Left
  <2>8. ASSUME NEW s \in S!Indexed \ missed, tree[s] = current[s], tree[s] # S!Absent
        PROVE  shards[s] = tree[s] \/ s \in Left(h)
    <3>1. CASE s \in changed
      BY <2>4, <2>7, <3>1
    <3>2. CASE s \notin changed
      <4>1. manifest.sources[s] = current[s]
        BY <3>2 DEF changed, S!Changed, S!Sources
      <4>. QED BY <2>2, <2>8, <4>1 DEF SwitchInv, S!NoChangeMissed
    <3>. QED BY <3>1, <3>2
  <2>9. Reindexing(h) /\ Runs(switcher[p])
    BY <1>1, <2>5, <2>8 DEF Reindexing, Runs
  <2>. QED BY <1>1, <2>1, <2>6, <2>9, SwitchRun, SwitchOne
<1>. QED BY <1>2, <1>3 DEF S!Decide

LEMMA SwitchJoins == ASSUME SwitchInv, NEW p \in Helpers, S!Joined(p) PROVE SwitchInv'
<1> DEFINE r == switcher[p]
           h == [r EXCEPT !.stage = "save"]
<1>1. /\ UNCHANGED <<edits, tree, cdb, shards, written, missed, due, manifest>> /\ r.stage = "work"
      /\ \A w \in DOMAIN r.bins : r.bins[w] = <<>>
  BY DEF S!Joined, S!environment
<1>2. CASE \E reason : switcher' = [switcher EXCEPT ![p] = S!Done(reason)]
  BY <1>1, <1>2, DoneIsDone, SwitchEnds
<1>3. CASE switcher' = [switcher EXCEPT ![p] = h] /\ ~r.failed
  <2>1. /\ DOMAIN r = WorkFields /\ r.current \in StampsTo(edits) /\ r.failed \in BOOLEAN /\ IsSplit(r.bins)
    BY <1>1, SwitchRun DEF Shaped
  <2>2. /\ DOMAIN h = WorkFields /\ h.stage = "save" /\ h.failed = r.failed /\ h.current = r.current /\ h.bins = r.bins
    BY <2>1 DEF WorkFields
  <2>3. S!Covered(ToSet(<<>>)) = {}
    BY DEF S!Covered, ToSet
  <2>4. Left(r) = {}
    BY <1>1, <2>3 DEF Left
  <2>5. \A s \in S!Indexed \ missed : tree[s] = r.current[s] /\ tree[s] # S!Absent => shards[s] = tree[s]
    BY <1>1, <1>3, <2>4, SwitchRun DEF Reindexing
  <2> HIDE DEF h
  <2>6. Reindexing(h) /\ Shaped(h, edits, due) /\ Runs(r)
    BY <1>1, <2>1, <2>2, <2>5 DEF Reindexing, Shaped, Runs
  <2>. QED BY <1>1, <1>3, <2>6, SwitchRun, SwitchOne
<1>4. switcher' = [switcher EXCEPT ![p] = IF r.failed THEN S!Done("worker-failed")
                      ELSE IF tree # r.current THEN S!Done("needs-prepare") ELSE h]
  BY SwitchRun DEF S!Joined, S!WorkersSucceeded
<1>. QED BY <1>2, <1>3, <1>4

(* The baseline of a reindex binds what the workers wrote.                  *)
LEMMA SwitchSaves == ASSUME SwitchInv, NEW p \in Helpers, S!SaveReindexed(p) PROVE SwitchInv'
<1>1. UNCHANGED <<edits, tree, cdb, shards, written, missed, due>> /\ switcher[p].stage = "save"
  BY DEF S!SaveReindexed, S!environment
<1>2. CASE UNCHANGED manifest /\ switcher' = [switcher EXCEPT ![p] = S!Done("needs-prepare")]
  BY <1>1, <1>2, DoneIsDone, SwitchEnds
<1>3. CASE /\ manifest' = [sources |-> switcher[p].current, generation |-> S!Generation]
           /\ switcher' = [switcher EXCEPT ![p] = S!Done("reindexed")]
  <2> DEFINE h == S!Done("reindexed")
  <2>1. switcher[p].current \in StampsTo(edits) /\ Runs(switcher[p])
    BY <1>1, SwitchRun DEF Shaped, Runs
  <2>2. \A s \in S!Indexed \ missed : tree[s] = switcher[p].current[s] /\ tree[s] # S!Absent => shards[s] = tree[s]
    BY <1>1, SwitchRun DEF Reindexing
  <2>3. manifest'.sources = switcher[p].current /\ manifest'.generation = S!Generation
    BY <1>3
  <2>4. ~Runs(h) /\ Shaped(h, edits, due') /\ Reindexing(h)
    BY DoneIsDone DEF Shaped, Reindexing, Runs, S!Done
  <2>5. switcher' = [switcher EXCEPT ![p] = h]
    BY <1>3
  <2> HIDE DEF h
  <2>. QED BY <1>1, <2>1, <2>2, <2>3, <2>4, <2>5, SwitchRun, SwitchOne
<1>. QED BY <1>2, <1>3 DEF S!SaveReindexed, S!Save

LEMMA SwitchCrashes == ASSUME SwitchInv, NEW p \in Helpers, S!Crash(p) PROVE SwitchInv'
<1>1. /\ UNCHANGED <<edits, tree, cdb, shards, written, missed, due, manifest>>
      /\ switcher' = [switcher EXCEPT ![p] = S!Idle]
  BY DEF S!Crash, S!Fault
<1>. QED BY <1>1, DoneIsDone, SwitchEnds

LEMMA SwitchFaults == ASSUME SwitchInv, NEW p \in Helpers, NEW w \in 1..MaxWorkers, S!WorkerIndexes(p, w) PROVE SwitchInv'
<1> DEFINE r == switcher[p]
<1>1. /\ UNCHANGED <<edits, tree, cdb, missed, due, manifest>> /\ r.stage = "work" /\ w \in DOMAIN r.bins
      /\ r.bins[w] # <<>>
  BY DEF S!WorkerIndexes, S!environment, S!Fault
<1>2. /\ DOMAIN r = WorkFields /\ r.current \in StampsTo(edits) /\ r.failed \in BOOLEAN /\ IsSplit(r.bins) /\ Runs(r)
  BY <1>1, SwitchRun DEF Shaped, Runs
<1>3. PICK n \in 1..MaxWorkers : r.bins \in [1..n -> Seq(Mains)]
  BY <1>2 DEF IsSplit
<1>4. r.bins[w] \in Seq(Mains) /\ Tail(r.bins[w]) \in Seq(Mains) /\ w \in 1..n
  BY <1>1, <1>3
<1>5. CASE /\ UNCHANGED <<shards, written>>
           /\ switcher' = [switcher EXCEPT ![p] = [r EXCEPT !.bins = [r.bins EXCEPT ![w] = <<>>], !.failed = TRUE]]
  <2> DEFINE h == [r EXCEPT !.bins = [r.bins EXCEPT ![w] = <<>>], !.failed = TRUE]
  <2>1. /\ DOMAIN h = WorkFields /\ h.stage = "work" /\ h.failed = TRUE /\ h.current = r.current
        /\ h.bins = [r.bins EXCEPT ![w] = <<>>]
    BY <1>1, <1>2 DEF WorkFields
  <2>2. h.bins \in [1..n -> Seq(Mains)]
    BY <1>3, <1>4, <2>1
  <2> HIDE DEF h
  <2>3. Reindexing(h) /\ Shaped(h, edits, due)
    BY <1>2, <2>1, <2>2 DEF Reindexing, Shaped, IsSplit
  <2>. QED BY <1>1, <1>2, <1>5, <2>3, SwitchRun, SwitchOne DEF h
<1>6. CASE /\ shards' = S!Index({Head(r.bins[w])})
           /\ written' = IF shards' = shards THEN written ELSE written + 1
           /\ switcher' = [switcher EXCEPT ![p] = [r EXCEPT !.bins = [r.bins EXCEPT ![w] = Tail(r.bins[w])]]]
  <2> DEFINE m == Head(r.bins[w])
             h == [r EXCEPT !.bins = [r.bins EXCEPT ![w] = Tail(r.bins[w])]]
  <2>1. /\ DOMAIN h = WorkFields /\ h.stage = "work" /\ h.failed = r.failed /\ h.current = r.current
        /\ h.bins = [r.bins EXCEPT ![w] = Tail(r.bins[w])]
    BY <1>1, <1>2 DEF WorkFields
  <2>2. /\ h.bins \in [1..n -> Seq(Mains)] /\ h.bins[w] = Tail(r.bins[w])
        /\ \A v \in 1..n : v # w => h.bins[v] = r.bins[v]
    BY <1>3, <1>4, <2>1
  <2>3. DOMAIN switcher' = Helpers /\ switcher'[p] = h /\ \A q \in Helpers : q # p => switcher'[q] = switcher[q]
    BY <1>6, SwitchRun
  <2> HIDE DEF h
  <2>4. /\ DOMAIN shards' = S!Indexed
        /\ \A s \in S!Indexed : shards'[s] = IF s \in S!Covered({m}) THEN tree[s] ELSE shards[s]
    BY <1>6 DEF S!Index
  <2>5. ToSet(r.bins[w]) \subseteq {m} \cup ToSet(h.bins[w])
    <3> DEFINE l == r.bins[w]
    <3>1. l \in Seq(Mains) /\ l # <<>> /\ Len(l) \in Nat /\ Len(l) > 0
      BY <1>1, <1>4
    <3> HIDE DEF l
    <3>2. ASSUME NEW i \in 1..Len(l) PROVE l[i] = Head(l) \/ l[i] \in ToSet(Tail(l))
      <4>1. CASE i = 1
        BY <3>1, <4>1
      <4>2. CASE i # 1
        <5>1. /\ Len(Tail(l)) = Len(l) - 1 /\ DOMAIN Tail(l) = 1..Len(Tail(l))
              /\ i - 1 \in 1..(Len(l) - 1) /\ Tail(l)[i - 1] = l[i]
          BY <3>1, <4>2
        <5>. QED BY <5>1 DEF ToSet
      <4>. QED BY <4>1, <4>2
    <3>3. ToSet(l) \subseteq {Head(l)} \cup ToSet(Tail(l))
      BY <3>1, <3>2 DEF ToSet
    <3>. QED BY <2>2, <3>3 DEF l
  <2>6. S!Covered(ToSet(r.bins[w])) \subseteq S!Covered({m}) \cup S!Covered(ToSet(h.bins[w]))
    BY <2>5 DEF S!Covered
  <2>7. Left(r) \subseteq S!Covered({m}) \cup Left(h)
    <3>1. DOMAIN r.bins = 1..n /\ DOMAIN h.bins = 1..n
      BY <1>3, <2>2
    <3>2. ASSUME NEW v \in 1..n PROVE S!Covered(ToSet(r.bins[v])) \subseteq S!Covered({m}) \cup Left(h)
      <4>1. CASE v = w
        BY <2>6, <3>1, <4>1 DEF Left
      <4>2. CASE v # w
        <5>1. S!Covered(ToSet(r.bins[v])) = S!Covered(ToSet(h.bins[v]))
          BY <2>2, <4>2
        <5>. QED BY <3>1, <5>1 DEF Left
      <4>. QED BY <4>1, <4>2
    <3>. QED BY <3>1, <3>2 DEF Left
  <2>8. ~h.failed => \A s \in S!Indexed \ missed' : tree'[s] = h.current[s] /\ tree'[s] # S!Absent =>
                        shards'[s] = tree'[s] \/ s \in Left(h)
    <3>1. ASSUME ~h.failed, NEW s \in S!Indexed \ missed, tree[s] = h.current[s], tree[s] # S!Absent
          PROVE  shards'[s] = tree[s] \/ s \in Left(h)
      <4>1. shards[s] = tree[s] \/ s \in Left(r)
        BY <1>1, <2>1, <3>1, SwitchRun DEF Reindexing
      <4>. QED BY <2>4, <2>7, <4>1
    <3>. QED BY <1>1, <3>1
  <2>9. \A q \in Helpers : Reindexing(switcher[q])'
    <3>1. \A q \in Helpers : q # p => ~Runs(switcher'[q])
      BY <1>2, <2>3 DEF SwitchInv, OneRuns
    <3>2. ASSUME NEW q \in Helpers, q # p PROVE Reindexing(switcher[q])'
      BY <3>1, <3>2 DEF Reindexing, Runs
    <3>3. Left(switcher'[p]) = Left(h)
      BY <2>3
    <3>4. Reindexing(switcher[p])'
      BY <2>1, <2>3, <2>8, <3>3 DEF Reindexing
    <3>. QED BY <3>2, <3>4
  <2>10. SwitchTypes'
    <3>1. Shaped(h, edits, due)
      BY <1>2, <2>1, <2>2 DEF Shaped, IsSplit
    <3>2. written' \in Nat /\ written' >= written
      BY <1>6 DEF SwitchInv, SwitchTypes
    <3>3. manifest' # S!None => Saved(manifest)'
      BY <1>1, <3>2 DEF SwitchInv, SwitchTypes, Saved
    <3>. QED BY <1>1, <2>3, <2>4, <3>1, <3>2, <3>3 DEF SwitchInv, SwitchTypes
  <2>11. OneRuns'
    <3>1. Runs(h)
      BY <2>1 DEF Runs
    <3>. QED BY <1>2, <2>3, <3>1 DEF SwitchInv, OneRuns
  <2>12. DueIsIndexed'
    BY <1>1, <2>4 DEF SwitchInv, DueIsIndexed
  <2>13. S!NoChangeMissed'
    <3>1. CASE UNCHANGED shards
      <4>1. UNCHANGED <<tree, manifest, missed, cdb, written>>
        BY <1>1, <1>6, <3>1
      <4>. QED BY <3>1, <4>1 DEF SwitchInv, S!NoChangeMissed, S!Baseline, S!Generation
    <3>2. CASE written' = written + 1
      BY <1>1, <3>2 DEF SwitchInv, SwitchTypes, Saved, S!NoChangeMissed, S!Baseline, S!Generation
    <3>. QED BY <1>6, <3>1, <3>2
  <2>. QED BY <2>9, <2>10, <2>11, <2>12, <2>13 DEF SwitchInv
<1>7. \/ /\ UNCHANGED <<shards, written>>
         /\ switcher' = [switcher EXCEPT ![p] = [r EXCEPT !.bins = [r.bins EXCEPT ![w] = <<>>], !.failed = TRUE]]
      \/ /\ shards' = S!Index({Head(r.bins[w])})
         /\ written' = IF shards' = shards THEN written ELSE written + 1
         /\ switcher' = [switcher EXCEPT ![p] = [r EXCEPT !.bins = [r.bins EXCEPT ![w] = Tail(r.bins[w])]]]
  BY SwitchRun DEF S!WorkerIndexes
<1>. QED BY <1>5, <1>6, <1>7

(* A new stamp is larger than every stamp before it.                        *)
LEMMA SwitchEdits == ASSUME SwitchInv, S!Edit PROVE SwitchInv'
<1>1. /\ edits' = edits + 1 /\ edits \in Nat /\ UNCHANGED <<cdb, shards, written, manifest, due, switcher>>
      /\ S!Absent = 0
  BY DEF S!Edit, SwitchInv, SwitchTypes, S!Absent
<1>2. PICK s \in S!Sources : \E stamp \in {edits + 2, S!Absent} \ {tree[s]} :
          /\ tree' = [tree EXCEPT ![s] = stamp]
          /\ missed' = IF due THEN missed \cup {s} ELSE missed
  BY DEF S!Edit
<1>3. PICK stamp \in {edits + 2, S!Absent} : tree' = [tree EXCEPT ![s] = stamp]
  BY <1>2
<1>4. missed' = IF due THEN missed \cup {s} ELSE missed
  BY <1>2
<1>5. \A f : f \in StampsTo(edits) => f \in StampsTo(edits') /\ f[s] < edits + 2
  BY <1>1 DEF StampsTo
<1>6. tree \in StampsTo(edits) /\ tree' \in StampsTo(edits')
  <2>1. tree \in StampsTo(edits)
    BY DEF SwitchInv, SwitchTypes
  <2>. QED BY <1>1, <1>3, <2>1 DEF StampsTo
<1>7. tree'[s] = stamp /\ \A q \in S!Sources : q # s => tree'[q] = tree[q]
  BY <1>3, <1>6 DEF StampsTo
<1>8. S!Indexed \subseteq S!Sources
  BY DEF S!Sources
<1>9. SwitchTypes'
  <2>1. ASSUME NEW p \in Helpers PROVE Shaped(switcher[p], edits', due')
    <3>1. Shaped(switcher[p], edits, due)
      BY DEF SwitchInv, SwitchTypes
    <3>. QED BY <1>1, <1>5, <3>1 DEF Shaped
  <2>2. manifest' # S!None => Saved(manifest)'
    BY <1>1, <1>5 DEF SwitchInv, SwitchTypes, Saved
  <2>. QED BY <1>1, <1>6, <2>1, <2>2 DEF SwitchInv, SwitchTypes
<1>10. OneRuns'
  BY <1>1 DEF SwitchInv, OneRuns
<1>11. DueIsIndexed'
  BY <1>1, <1>4, <1>7, <1>8 DEF SwitchInv, DueIsIndexed
<1>12. S!NoChangeMissed'
  <2> SUFFICES ASSUME S!Baseline(S!Generation), NEW q \in S!Indexed \ missed', tree'[q] # S!Absent,
                      manifest.sources[q] = tree'[q]
               PROVE  shards[q] = tree'[q]
    BY <1>1 DEF S!NoChangeMissed, S!Baseline, S!Generation
  <2>1. q # s
    <3>1. manifest.sources \in StampsTo(edits)
      BY DEF S!Baseline, SwitchInv, SwitchTypes, Saved
    <3>. QED BY <1>5, <1>7, <3>1
  <2>. QED BY <1>4, <1>7, <1>8, <2>1 DEF SwitchInv, S!NoChangeMissed
<1>13. ASSUME NEW p \in Helpers PROVE Reindexing(switcher[p])'
  <2>1. Shaped(switcher[p], edits, due) /\ Reindexing(switcher[p])
    BY SwitchRun
  <2>2. CASE switcher[p].stage \in {"work", "save"}
    <3>1. switcher[p].current[s] < edits + 2
      BY <1>5, <2>1, <2>2 DEF Shaped
    <3>2. missed \subseteq missed'
      BY <1>4
    <3>3. \A q \in S!Indexed : tree'[q] = switcher[p].current[q] /\ tree'[q] # S!Absent => tree'[q] = tree[q]
      BY <1>7, <1>8, <3>1
    <3>4. Left(switcher[p])' = Left(switcher[p])
      BY <1>1
    <3>. QED BY <1>1, <2>1, <3>2, <3>3, <3>4 DEF Reindexing
  <2>3. CASE switcher[p].stage \notin {"work", "save"}
    BY <1>1, <2>3 DEF Reindexing
  <2>. QED BY <2>2, <2>3
<1>. QED BY <1>9, <1>10, <1>11, <1>12, <1>13 DEF SwitchInv

LEMMA SwitchPrepares == ASSUME SwitchInv, S!Prepare PROVE SwitchInv'
<1>1. /\ UNCHANGED <<tree, edits, manifest, switcher>> /\ \A p \in Helpers : ~Runs(switcher[p])
      /\ cdb' = cdb + 1 /\ written' = written + 1 /\ due' \in BOOLEAN /\ due'
      /\ shards' = S!Restrict(tree, S!Indexed)
  BY DEF S!Prepare, Runs
<1>2. DOMAIN tree = S!Sources /\ S!Indexed \subseteq S!Sources
  BY DEF SwitchInv, SwitchTypes, StampsTo, S!Sources
<1>3. DOMAIN shards' = S!Indexed /\ \A s \in S!Indexed : shards'[s] = tree[s]
  BY <1>1, <1>2 DEF S!Restrict
<1>4. SwitchTypes'
  <2>1. \A p \in Helpers : Shaped(switcher'[p], edits', due')
    BY <1>1 DEF SwitchInv, SwitchTypes, Shaped
  <2>2. manifest' # S!None => Saved(manifest)'
    BY <1>1 DEF SwitchInv, SwitchTypes, Saved
  <2>3. due' \in BOOLEAN /\ cdb' \in Nat /\ written' \in Nat
    BY <1>1 DEF SwitchInv, SwitchTypes
  <2>4. DOMAIN switcher' = Helpers /\ edits' \in Nat /\ tree' \in StampsTo(edits')
    BY <1>1 DEF SwitchInv, SwitchTypes
  <2>. QED BY <1>3, <2>1, <2>2, <2>3, <2>4 DEF SwitchTypes
<1>5. S!NoChangeMissed'
  BY <1>1 DEF SwitchInv, SwitchTypes, Saved, S!NoChangeMissed, S!Baseline, S!Generation
<1>6. DueIsIndexed'
  BY <1>1, <1>3 DEF DueIsIndexed
<1>7. \A p \in Helpers : Reindexing(switcher[p])'
  BY <1>1 DEF Reindexing, Runs
<1>. QED BY <1>1, <1>4, <1>5, <1>6, <1>7 DEF SwitchInv, OneRuns

LEMMA SwitchLive == ASSUME SwitchInv, S!LiveIndex PROVE SwitchInv'
<1>1. /\ UNCHANGED <<tree, edits, cdb, manifest, due, missed, switcher>> /\ written' = written + 1
      /\ \E s \in S!Indexed : shards' = [shards EXCEPT ![s] = tree[s]]
  BY DEF S!LiveIndex, S!environment
<1>2. DOMAIN shards' = S!Indexed /\ \A s \in S!Indexed : shards'[s] \in {shards[s], tree[s]}
  BY <1>1 DEF SwitchInv, SwitchTypes
<1>3. SwitchTypes'
  <2>1. manifest' # S!None => Saved(manifest)'
    BY <1>1 DEF SwitchInv, SwitchTypes, Saved
  <2>. QED BY <1>1, <1>2, <2>1 DEF SwitchInv, SwitchTypes
<1>4. S!NoChangeMissed'
  BY <1>1 DEF SwitchInv, SwitchTypes, Saved, S!NoChangeMissed, S!Baseline, S!Generation
<1>5. DueIsIndexed'
  BY <1>1, <1>2 DEF SwitchInv, DueIsIndexed
<1>6. ASSUME NEW p \in Helpers PROVE Reindexing(switcher[p])'
  <2>1. Reindexing(switcher[p]) /\ Left(switcher[p])' = Left(switcher[p])
    BY <1>1 DEF SwitchInv
  <2>. QED BY <1>1, <1>2, <2>1 DEF Reindexing
<1>. QED BY <1>1, <1>3, <1>4, <1>5, <1>6 DEF SwitchInv, OneRuns

LEMMA SwitchKept == ASSUME SwitchInv, S!Next PROVE SwitchInv'
<1>1. ASSUME NEW p \in Helpers, S!Step(p) PROVE SwitchInv'
  BY <1>1, SwitchBegins, SwitchSnapshot, SwitchEstablishes, SwitchDecides, SwitchJoins, SwitchSaves,
     SwitchCrashes, SwitchFaults DEF S!Step
<1>. QED BY <1>1, SwitchEdits, SwitchPrepares, SwitchLive DEF S!Next

LEMMA SwitchStutters == SwitchInv /\ UNCHANGED <<edits, switch>> => SwitchInv'
<1> SUFFICES ASSUME SwitchInv, UNCHANGED <<edits, switch>> PROVE SwitchInv'
  OBVIOUS
<1>1. UNCHANGED <<edits, tree, cdb, shards, written, manifest, due, missed, switcher>>
  BY DEF switch
<1>. QED BY <1>1 DEF SwitchInv, SwitchTypes, Saved, OneRuns, DueIsIndexed, S!NoChangeMissed, S!Baseline,
                     S!Generation, Reindexing

LEMMA SwitchSteps ==
  [NextAll]_all => /\ UNCHANGED part
                   /\ part = "switch" => S!Next \/ UNCHANGED <<edits, switch>>
                   /\ part # "switch" => UNCHANGED switch
BY DEF NextAll, ActivationStep, CohortStep, SwitchStep, ChunksStep, SuperStep, ReceiptStep, HotStep, FullStep,
       RepairStep, ClangdStep, QueryStep, BatchStep, ToolStep, all, batches, tools, vars, environment, switch

(* A file that did not change since the baseline is indexed as it is, in the *)
(* generation that the baseline is bound to (clangd_switch_reindex.py).      *)
THEOREM NoChangeIsEverMissed == SpecAll => []NoChangeMissed
<1> DEFINE Holds == (part = "switch" => SwitchInv) /\ (part # "switch" => manifest = S!None)
<1>1. InitAll => Holds
  BY SwitchStarts DEF InitAll, S!Init
<1>2. Holds /\ [NextAll]_all => Holds'
  <2>1. CASE part = "switch"
    BY <2>1, SwitchKept, SwitchStutters, SwitchSteps
  <2>2. CASE part # "switch"
    BY <2>2, SwitchSteps DEF switch
  <2>. QED BY <2>1, <2>2
<1>3. Holds => NoChangeMissed
  BY DEF SwitchInv, NoChangeMissed, S!NoChangeMissed, S!Baseline
<1>. QED BY <1>1, <1>2, <1>3, PTL DEF SpecAll

-----------------------------------------------------------------------------
(* SuperUnity: positions in order, and how often a source is included.      *)

LEMMA SameForSuper ==
  /\ \A s : P!Cardinality(s) = Cardinality(s)
  /\ \A s : P!ToSet(s) = ToSet(s)
  /\ \A w : P!SumFunction(w) = Total(w)
  /\ \A s : P!Max(s) = Top(s)
<1>1. \A s : P!Cardinality(s) = Cardinality(s)
  BY DEF P!Cardinality, Cardinality
<1>2. \A s : P!ToSet(s) = ToSet(s)
  BY DEF P!ToSet, ToSet
<1>3. \A w : P!SumFunction(w) = Total(w)
  BY DEF Total, P!SumFunction, P!SumFunctionOnSet, P!FoldFunctionOnSet, P!MapThenFoldSet,
         SumFunction, SumFunctionOnSet, FoldFunctionOnSet, MapThenFoldSet
<1>4. \A s : P!Max(s) = Top(s)
  BY DEF P!Max, U!Max, Top
<1>. QED BY <1>1, <1>2, <1>3, <1>4

(* The ordered positions are the positions, each once.                      *)
Lists(o, X) ==
    /\ DOMAIN o = 1..Cardinality(X) /\ Cardinality(X) \in Nat /\ o \in [1..Cardinality(X) -> X]
    /\ \A i \in X : \E n \in DOMAIN o : o[n] = i
    /\ \A n, k \in DOMAIN o : o[n] = o[k] => n = k
LEMMA OrderedIs ==
  ASSUME NEW X, IsFiniteSet(X), X \subseteq Nat, NEW o, o = P!Ordered(X)
  PROVE  Lists(o, X)
<1> DEFINE N == Cardinality(X)
           upto(i) == {j \in X : j <= i}
           rank == [i \in X |-> Cardinality(upto(i))]
<1>1. N \in Nat
  BY FS_CardinalityType
<1>2. ASSUME NEW i \in X
      PROVE  IsFiniteSet(upto(i)) /\ rank[i] \in 1..N
  <2>1. upto(i) \in SUBSET X /\ {i} \in SUBSET upto(i)
    OBVIOUS
  <2> HIDE DEF upto
  <2>2. IsFiniteSet(upto(i)) /\ Cardinality(upto(i)) <= N
    BY <2>1, FS_Subset
  <2>3. Cardinality({i}) <= Cardinality(upto(i)) /\ Cardinality({i}) = 1
    BY <2>1, <2>2, FS_Subset, FS_Singleton
  <2>4. Cardinality(upto(i)) \in Nat
    BY <2>2, FS_CardinalityType
  <2>. QED BY <1>1, <2>2, <2>3, <2>4
<1>3. ASSUME NEW i \in X, NEW j \in X, rank[i] = rank[j], i < j PROVE FALSE
  <2>1. upto(i) \in SUBSET upto(j) /\ j \in upto(j) /\ j \notin upto(i)
    <3>1. i \in Nat /\ j \in Nat /\ i < j
      BY <1>3
    <3>2. ASSUME NEW k \in X, k <= i PROVE k <= j
      <4>1. k \in Nat
        OBVIOUS
      <4>. QED BY <3>1, <3>2, <4>1
    <3>3. j <= j /\ ~(j <= i)
      BY <3>1
    <3> HIDE DEF rank
    <3>. QED BY <3>2, <3>3
  <2>2. Cardinality(upto(i)) = Cardinality(upto(j)) /\ IsFiniteSet(upto(j))
    BY <1>2, <1>3
  <2> HIDE DEF upto
  <2>. QED BY <2>1, <2>2, FS_Subset
<1>4. \A i, j \in X : rank[i] = rank[j] => i = j
  <2>1. ASSUME NEW i \in X, NEW j \in X, rank[i] = rank[j], i # j PROVE FALSE
    <3>1. i \in Nat /\ j \in Nat
      OBVIOUS
    <3>2. i < j \/ j < i
      BY <2>1, <3>1
    <3> HIDE DEF rank
    <3>. QED BY <1>3, <2>1, <3>2
  <2>. QED BY <2>1
<1>5. o = [n \in 1..N |-> CHOOSE i \in X : rank[i] = n]
  <2>1. \A i \in X : rank[i] = P!Cardinality({j \in X : j <= i})
    BY SameForSuper
  <2> HIDE DEF rank
  <2> DEFINE at(n) == CHOOSE i \in X : P!Cardinality({j \in X : j <= i}) = n
             of(n) == CHOOSE i \in X : rank[i] = n
  <2>2. \A n : at(n) = of(n)
    BY <2>1
  <2>3. P!Cardinality(X) = N
    BY SameForSuper
  <2>4. o = [n \in 1..P!Cardinality(X) |-> at(n)]
    BY DEF P!Ordered
  <2> HIDE DEF N, at, of
  <2>5. o = [n \in 1..N |-> of(n)]
    BY <2>2, <2>3, <2>4
  <2>. QED BY <2>5 DEF of
<1>b. rank \in [X -> 1..N]
  BY <1>2
<1> HIDE DEF rank, upto, N
<1>6. rank \in Surjection(X, 1..N)
  <2>1. rank \in Injection(X, 1..N)
    BY <1>4, <1>b DEF Injection, IsInjective
  <2>2. IsFiniteSet(1..N) /\ Cardinality(1..N) = N
    BY <1>1, FS_Interval
  <2>3. Cardinality(X) = Cardinality(1..N)
    BY <2>2 DEF N
  <2>. QED BY <2>1, <2>2, <2>3, FS_Injection
<1>7. \A n \in 1..N : o[n] \in X /\ rank[o[n]] = n
  <2>1. \A n \in 1..N : \E i \in X : rank[i] = n
    BY <1>6 DEF Surjection
  <2>. QED BY <1>5, <2>1
<1>8. \A i \in X : o[rank[i]] = i
  BY <1>4, <1>7, <1>b
<1>9. DOMAIN o = 1..N
  BY <1>5
<1>. QED BY <1>1, <1>5, <1>7, <1>8, <1>9, <1>b DEF Lists, N

(* How often a sequence has a member.                                       *)
LEMMA CountIs ==
  ASSUME NEW Y, NEW a \in Seq(Y), NEW x
  PROVE  /\ P!Count(a, x) \in Nat /\ P!Count(<<>>, x) = 0
         /\ P!Count(a, x) >= 1 <=> x \in ToSet(a)
<1> DEFINE K == {k \in DOMAIN a : a[k] = x}
<1>1. DOMAIN a = 1..Len(a) /\ Len(a) \in Nat
  OBVIOUS
<1>2. IsFiniteSet(DOMAIN a) /\ K \in SUBSET DOMAIN a
  BY <1>1, FS_Interval
<1>3. P!Count(a, x) = Cardinality(K)
  BY SameForSuper DEF P!Count
<1>4. x \in ToSet(a) <=> K # {}
  BY DEF ToSet
<1>5. P!Count(<<>>, x) = Cardinality({})
  <2>1. {k \in DOMAIN <<>> : <<>>[k] = x} = {}
    OBVIOUS
  <2>. QED BY <2>1, SameForSuper DEF P!Count
<1> HIDE DEF K
<1>6. IsFiniteSet(K)
  BY <1>2, FS_Subset
<1>7. Cardinality(K) \in Nat /\ (Cardinality(K) = 0 <=> K = {}) /\ Cardinality({}) = 0
  BY <1>6, FS_CardinalityType, FS_EmptySet
<1>. QED BY <1>3, <1>4, <1>5, <1>7

LEMMA CountAdds ==
  ASSUME NEW Y, NEW a \in Seq(Y), NEW c \in Seq(Y), NEW x
  PROVE  P!Count(a \o c, x) = P!Count(a, x) + P!Count(c, x)
<1> DEFINE K == {k \in DOMAIN a : a[k] = x}
           M == {k \in DOMAIN c : c[k] = x}
           N == {k \in DOMAIN (a \o c) : (a \o c)[k] = x}
           move == [k \in M |-> k + Len(a)]
           T == {move[k] : k \in M}
<1>1. /\ DOMAIN a = 1..Len(a) /\ Len(a) \in Nat /\ DOMAIN c = 1..Len(c) /\ Len(c) \in Nat
      /\ DOMAIN (a \o c) = 1..(Len(a) + Len(c))
      /\ \A k \in 1..Len(a) : (a \o c)[k] = a[k]
      /\ \A k \in 1..Len(c) : (a \o c)[k + Len(a)] = c[k]
  <2>1. a \o c \in Seq(Y) /\ Len(a \o c) = Len(a) + Len(c)
    OBVIOUS
  <2>. QED BY <2>1
<1>2. N = K \cup T
  <2>1. ASSUME NEW k \in N PROVE k \in K \cup T
    <3>1. k \in 1..(Len(a) + Len(c))
      BY <1>1
    <3>2. CASE k <= Len(a)
      BY <1>1, <3>1, <3>2
    <3>3. CASE ~(k <= Len(a))
      <4>1. k - Len(a) \in 1..Len(c) /\ (k - Len(a)) + Len(a) = k
        BY <1>1, <3>1, <3>3
      <4>2. k - Len(a) \in M /\ move[k - Len(a)] = k
        BY <1>1, <4>1
      <4>. QED BY <4>2
    <3>. QED BY <3>2, <3>3
  <2>2. K \subseteq N
    BY <1>1
  <2>3. T \subseteq N
    <3>1. ASSUME NEW k \in M PROVE move[k] \in N
      <4>1. k \in 1..Len(c) /\ c[k] = x /\ move[k] = k + Len(a)
        BY <1>1
      <4>2. k + Len(a) \in 1..(Len(a) + Len(c))
        BY <1>1, <4>1
      <4>. QED BY <1>1, <4>1, <4>2
    <3>. QED BY <3>1
  <2>. QED BY <2>1, <2>2, <2>3
<1>3. K \cap T = {}
  <2>1. ASSUME NEW k \in M, move[k] \in K PROVE FALSE
    <3>1. k \in 1..Len(c) /\ k + Len(a) \in 1..Len(a)
      BY <1>1, <2>1
    <3>. QED BY <1>1, <3>1
  <2>. QED BY <2>1
<1>4. K \in SUBSET DOMAIN a /\ M \in SUBSET DOMAIN c /\ IsFiniteSet(DOMAIN a) /\ IsFiniteSet(DOMAIN c)
  <2>1. IsFiniteSet(1..Len(a)) /\ IsFiniteSet(1..Len(c))
    BY <1>1, FS_Interval
  <2>. QED BY <1>1, <2>1
<1>5. move \in Surjection(M, T) /\ move \in Injection(M, T)
  <2>1. move \in [M -> T]
    OBVIOUS
  <2>2. \A k, n \in M : move[k] = move[n] => k = n
    BY <1>1
  <2>. QED BY <2>1, <2>2 DEF Surjection, Injection, IsInjective
<1>6. P!Count(a, x) = Cardinality(K) /\ P!Count(c, x) = Cardinality(M) /\ P!Count(a \o c, x) = Cardinality(N)
  BY SameForSuper DEF P!Count
<1> HIDE DEF K, M, N, T, move
<1>7. IsFiniteSet(K) /\ IsFiniteSet(M)
  BY <1>4, FS_Subset
<1>8. IsFiniteSet(T) /\ Cardinality(T) = Cardinality(M)
  BY <1>5, <1>7, FS_Surjection
<1>9. Cardinality(N) = Cardinality(K) + Cardinality(T) - Cardinality({})
  BY <1>2, <1>3, <1>7, <1>8, FS_Union
<1>10. Cardinality({}) = 0 /\ Cardinality(K) \in Nat /\ Cardinality(T) \in Nat
  BY <1>7, <1>8, FS_EmptySet, FS_CardinalityType
<1>. QED BY <1>6, <1>8, <1>9, <1>10

(* Sequences one after the other.                                           *)
Chained(seqs) == P!FoldLeft(\o, <<>>, seqs)
ChainRun(f, seqs, Y) ==
    /\ f \in [SUBSET DOMAIN seqs -> Seq(Y)] /\ f[{}] = <<>>
    /\ \A s \in SUBSET DOMAIN seqs : s # {} => f[s] = f[s \ {Top(s)}] \o seqs[Top(s)]

LEMMA ChainIs ==
  ASSUME NEW Y, NEW seqs, IsFiniteSet(DOMAIN seqs), DOMAIN seqs \subseteq Nat,
         \A k \in DOMAIN seqs : seqs[k] \in Seq(Y)
  PROVE  \E f : ChainRun(f, seqs, Y) /\ Chained(seqs) = f[DOMAIN seqs]
<1> DEFINE X == DOMAIN seqs
           V == Seq(Y)
           iter == CHOOSE f : f = [s \in SUBSET X |->
                     IF s = {} THEN <<>> ELSE f[s \ {P!Max(s)}] \o seqs[P!Max(s)]]
           pick == [s \in SUBSET X |-> Top(s)]
           step == [q \in X \X V |-> q[2] \o seqs[q[1]]]
<1>1. Chained(seqs) = iter[X]
  BY DEF Chained, P!FoldLeft, P!MapThenFoldSet
<1>2. \A s \in SUBSET X : s # {} => pick[s] \in s
  <2>1. \A s \in SUBSET X : IsFiniteSet(s) /\ s \subseteq Nat
    BY FS_Subset
  <2>. QED BY <2>1, TopIs
<1>3. step \in [X \X V -> V] /\ <<>> \in V
  <2>1. \A q \in X \X V : q[2] \o seqs[q[1]] \in V
    OBVIOUS
  <2>. QED BY <2>1
<1>4. PICK f \in [SUBSET X -> V] : IsFold(f, X, <<>>, pick, step)
  <2>1. IsFiniteSet(X)
    OBVIOUS
  <2> HIDE DEF X, V, pick, step
  <2>2. Folding(X, V, <<>>, pick, step)
    BY <1>2, <1>3, <2>1 DEF Folding
  <2>. QED BY <2>2, FoldIsDefined
<1>5. ASSUME NEW s \in SUBSET X, s # {} PROVE f[s] = f[s \ {Top(s)}] \o seqs[Top(s)]
  <2>1. pick[s] = Top(s) /\ pick[s] \in X /\ f[s \ {pick[s]}] \in V
    BY <1>2, <1>5
  <2>2. f[s] = step[<<pick[s], f[s \ {pick[s]}]>>]
    BY <1>4, <1>5 DEF IsFold
  <2> HIDE DEF pick, V
  <2>. QED BY <2>1, <2>2
<1>6. f = [s \in SUBSET X |-> IF s = {} THEN <<>> ELSE f[s \ {P!Max(s)}] \o seqs[P!Max(s)]]
  <2>1. \A s \in SUBSET X : f[s] = IF s = {} THEN <<>> ELSE f[s \ {P!Max(s)}] \o seqs[P!Max(s)]
    BY <1>4, <1>5, SameForSuper DEF IsFold
  <2> HIDE DEF X, V
  <2>. QED BY <1>4, <2>1
<1>7. iter = [s \in SUBSET X |-> IF s = {} THEN <<>> ELSE iter[s \ {P!Max(s)}] \o seqs[P!Max(s)]]
  <2> HIDE DEF X
  <2>. QED BY <1>6, Zenon
<1> HIDE DEF iter, pick, step
<1>8. ChainRun(iter, seqs, Y)
  <2> DEFINE T == {s \in SUBSET X : iter[s] = f[s]}
  <2>1. {} \in T
    BY <1>6, <1>7
  <2>2. ASSUME NEW s \in SUBSET X, s # {}, s \ {Top(s)} \in T PROVE s \in T
    <3>1. iter[s \ {Top(s)}] = f[s \ {Top(s)}] /\ s \in SUBSET X
      BY <2>2
    <3>2. iter[s] = iter[s \ {Top(s)}] \o seqs[Top(s)]
      BY <1>7, <2>2, SameForSuper
    <3>. QED BY <1>5, <2>2, <3>1, <3>2
  <2>3. \A s \in SUBSET X : s \in T
    <3>1. IsFiniteSet(X) /\ X \subseteq Nat
      OBVIOUS
    <3> HIDE DEF T, X
    <3>2. GrowsUp(T, X)
      BY <2>1, <2>2 DEF GrowsUp
    <3>. QED BY <3>1, <3>2, EveryBucket
  <2>4. \A s \in SUBSET X : iter[s] = f[s]
    BY <2>3
  <2>5. iter = f
    <3>1. iter = [s \in SUBSET X |-> iter[s]]
      <4> HIDE DEF X
      <4>. QED BY <1>7
    <3>2. f = [s \in SUBSET X |-> f[s]]
      BY <1>4
    <3> HIDE DEF X
    <3>. QED BY <2>4, <3>1, <3>2
  <2>6. ChainRun(f, seqs, Y)
    BY <1>4, <1>5 DEF ChainRun, IsFold
  <2>. QED BY <2>5, <2>6
<1>. QED BY <1>1, <1>8

(* What a chain has, its sequences have between them.                       *)
ChainOf(Y, N, seqs, X, o, x, w, g, r) ==
    /\ N \in Nat /\ DOMAIN seqs = 1..N /\ \A k \in 1..N : seqs[k] \in Seq(Y)
    /\ IsFiniteSet(X) /\ o \in [1..N -> X] /\ \A n, k \in 1..N : o[n] = o[k] => n = k
    /\ w \in [X -> Nat] /\ \A n \in 1..N : w[o[n]] = P!Count(seqs[n], x)
    /\ Sums(g, w, X) /\ r = {o[n] : n \in 1..N}
LEMMA ChainCounts ==
  ASSUME NEW Y, NEW N, NEW seqs, NEW X, NEW o, NEW x, NEW w, NEW g, NEW r, ChainOf(Y, N, seqs, X, o, x, w, g, r)
  PROVE  P!Count(Chained(seqs), x) = g[r]
<1> USE DEF ChainOf
<1> DEFINE D0 == 1..N
<1>1. IsFiniteSet(D0) /\ D0 \subseteq Nat
  BY FS_Interval
<1>2. PICK f : ChainRun(f, seqs, Y) /\ Chained(seqs) = f[D0]
  <2>1. DOMAIN seqs = D0 /\ \A k \in D0 : seqs[k] \in Seq(Y)
    OBVIOUS
  <2> HIDE DEF D0
  <2>2. \E f : ChainRun(f, seqs, Y) /\ Chained(seqs) = f[DOMAIN seqs]
    BY <1>1, <2>1, ChainIs
  <2>. QED BY <2>1, <2>2
<1> DEFINE put(s) == {o[n] : n \in s}
           T == {s \in SUBSET D0 : P!Count(f[s], x) = g[put(s)]}
<1>3. {} \in T
  <2>1. f[{}] = <<>> /\ put({}) = {} /\ g[{}] = 0
    BY <1>2 DEF ChainRun, Sums
  <2>2. P!Count(<<>>, x) = 0
    <3>1. <<>> \in Seq(Y)
      OBVIOUS
    <3>. QED BY <3>1, CountIs
  <2>. QED BY <2>1, <2>2
<1>4. ASSUME NEW s \in SUBSET D0, s # {}, s \ {Top(s)} \in T PROVE s \in T
  <2> DEFINE m == Top(s)
             t == s \ {m}
  <2>1. m \in s /\ m \in D0 /\ t \in SUBSET D0 /\ s = t \cup {m}
    BY <1>1, <1>4, RestIs
  <2>2. f[s] = f[t] \o seqs[m] /\ f[t] \in Seq(Y) /\ seqs[m] \in Seq(Y)
    BY <1>2, <1>4, <2>1 DEF ChainRun
  <2>3. P!Count(f[t], x) = g[put(t)]
    BY <1>4
  <2>4. put(s) \in SUBSET X /\ o[m] \in put(s)
    BY <2>1
  <2>5. put(s) \ {o[m]} = put(t)
    <3>1. \A n \in t : o[n] # o[m]
      BY <2>1
    <3> HIDE DEF m
    <3>. QED BY <2>1, <3>1
  <2> HIDE DEF m, t, put
  <2>6. g[put(s)] = w[o[m]] + g[put(t)]
    <3>1. \A z \in SUBSET X : \A i \in z : g[z] = w[i] + g[z \ {i}]
      BY DEF Sums
    <3>2. g[put(s)] = w[o[m]] + g[put(s) \ {o[m]}]
      BY <2>4, <3>1
    <3>. QED BY <2>5, <3>2
  <2>7. P!Count(f[s], x) = P!Count(f[t], x) + P!Count(seqs[m], x)
    BY <2>2, CountAdds
  <2>8. w[o[m]] = P!Count(seqs[m], x) /\ w[o[m]] \in Nat
    BY <2>1
  <2>9. P!Count(f[t], x) \in Nat
    BY <2>2, CountIs
  <2>10. P!Count(f[s], x) = g[put(s)]
    BY <2>3, <2>6, <2>7, <2>8, <2>9
  <2>. QED BY <2>10
<1>5. D0 \in T
  <2> HIDE DEF T, D0
  <2>1. GrowsUp(T, D0)
    BY <1>3, <1>4 DEF GrowsUp
  <2>2. \A s \in SUBSET D0 : s \in T
    BY <1>1, <2>1, EveryBucket
  <2>. QED BY <2>2
<1>. QED BY <1>2, <1>5

-----------------------------------------------------------------------------
(* SuperUnity: groups.                                                      *)
Spots == {m \in Seq(DOMAIN commands) :
            /\ m # <<>> /\ \A i, j \in DOMAIN m : m[i] = m[j] => i = j
            /\ \A i, j \in ToSet(m) : commands[i].context = commands[j].context}
OfGroup == [unity : ToSet(Unities), members : Spots, kind : {"exact", "rsp"}]
Separate(gs) == \A k, n \in DOMAIN gs : k = n \/ ToSet(gs[k].members) \cap ToSet(gs[n].members) = {}
GroupLists == {gs \in Seq(OfGroup) : Separate(gs)}
Inputs0 == commands \in Databases /\ authored \in Builds

LEMMA CommandsAre ==
  ASSUME Inputs0
  PROVE  /\ IsFiniteSet(DOMAIN commands) /\ DOMAIN commands \subseteq Nat
         /\ Len(commands) \in Nat /\ DOMAIN commands = 1..Len(commands)
         /\ \A i \in DOMAIN commands : /\ commands[i].file \in DOMAIN Home
                /\ commands[i] = [file |-> commands[i].file, context |-> commands[i].context]
<1>1. IsList(commands) /\ \A i \in DOMAIN commands : /\ commands[i].file \in DOMAIN Home
                /\ commands[i] = [file |-> commands[i].file, context |-> commands[i].context]
  BY CommandsAreListed DEF Inputs0
<1>2. Len(commands) \in Nat /\ DOMAIN commands = 1..Len(commands)
  BY <1>1 DEF IsList
<1>3. IsFiniteSet(1..Len(commands))
  BY <1>2, FS_Interval
<1>. QED BY <1>1, <1>2, <1>3

LEMMA GroupAdds ==
  ASSUME Inputs0, NEW gs \in GroupLists, NEW u \in ToSet(Unities), NEW r, r = P!AddGroup(gs, u)
  PROVE  r \in GroupLists
<1> DEFINE m == P!Members(u)
           g == [unity |-> u, members |-> m, kind |-> P!Kind(u)]
           joins == /\ P!Resolves(u) /\ P!IsInjective(m)
                    /\ P!ToSet(m) \cap P!Claimed(gs) = {}
                    /\ P!OneContext(u) /\ P!Kind(u) # "none"
<1>1. r = IF joins THEN Append(gs, g) ELSE gs
  BY DEF P!AddGroup
<1>2. SUFFICES ASSUME joins PROVE Append(gs, g) \in GroupLists
  BY <1>1
<1>3. IsList(authored.manifest[u])
  BY CommandsAreListed DEF Inputs0, ToSet
<1> DEFINE inc == authored.manifest[u]
<1>4. Len(inc) \in Nat /\ DOMAIN inc = 1..Len(inc) /\ Len(inc) # 0
  <2>1. Len(inc) \in Nat /\ inc = [k \in 1..Len(inc) |-> inc[k]] /\ inc # <<>>
    BY <1>2, <1>3 DEF IsList, P!Resolves
  <2>2. Len(inc) = 0 => inc = <<>>
    BY <2>1
  <2>. QED BY <2>1, <2>2
<1>5. ASSUME NEW k \in DOMAIN inc PROVE m[k] \in DOMAIN commands
  <2>1. inc[k] \in P!ToSet(inc)
    BY DEF P!ToSet
  <2>2. Cardinality(P!Resolve(inc[k])) = 1
    BY <1>2, <2>1, SameForSuper DEF P!Resolves
  <2>3. P!Resolve(inc[k]) # {}
    BY <2>2, FS_EmptySet
  <2>4. P!Resolve(inc[k]) \subseteq DOMAIN commands
    BY DEF P!Resolve
  <2>. QED BY <2>3, <2>4 DEF P!Members
<1>6. DOMAIN m = 1..Len(inc) /\ m = [k \in 1..Len(inc) |-> m[k]]
  BY <1>4 DEF P!Members
<1>7. m \in Seq(DOMAIN commands) /\ m # <<>>
  <2>1. \A k \in 1..Len(inc) : m[k] \in DOMAIN commands
    BY <1>4, <1>5
  <2> HIDE DEF m, inc
  <2>2. m \in Seq(DOMAIN commands) /\ Len(m) = Len(inc)
    BY <1>4, <1>6, <2>1
  <2>. QED BY <1>4, <2>2
<1>8. m \in Spots
  <2>1. \A i, j \in DOMAIN m : m[i] = m[j] => i = j
    BY <1>2 DEF P!IsInjective
  <2>2. \A i, j \in ToSet(m) : commands[i].context = commands[j].context
    BY <1>2, SameForSuper DEF P!OneContext
  <2> HIDE DEF m
  <2>. QED BY <1>7, <2>1, <2>2 DEF Spots
<1>9. P!Kind(u) \in {"exact", "rsp"}
  BY <1>2 DEF P!Kind
<1>10. ASSUME NEW k \in DOMAIN gs PROVE ToSet(m) \cap ToSet(gs[k].members) = {}
  BY <1>2, SameForSuper DEF P!Claimed
<1>11. g \in OfGroup /\ g.members = m
  BY <1>8, <1>9 DEF OfGroup
<1>12. gs \in Seq(OfGroup) /\ Separate(gs)
  BY DEF GroupLists
<1> HIDE DEF g, m
<1>13. DOMAIN gs = 1..Len(gs) /\ Len(gs) \in Nat /\ DOMAIN Append(gs, g) = 1..(Len(gs) + 1)
       /\ Append(gs, g) \in Seq(OfGroup)
       /\ Append(gs, g)[Len(gs) + 1] = g /\ \A k \in 1..Len(gs) : Append(gs, g)[k] = gs[k]
  BY <1>11, <1>12
<1>14. \A k \in 1..(Len(gs) + 1) : k \in 1..Len(gs) \/ k = Len(gs) + 1
  BY <1>13
<1>15. Separate(Append(gs, g))
  <2>1. ASSUME NEW k \in 1..(Len(gs) + 1), NEW n \in 1..(Len(gs) + 1), k # n
        PROVE  ToSet(Append(gs, g)[k].members) \cap ToSet(Append(gs, g)[n].members) = {}
    <3>1. CASE k \in 1..Len(gs) /\ n \in 1..Len(gs)
      BY <1>12, <1>13, <2>1, <3>1 DEF Separate
    <3>2. CASE k \in 1..Len(gs) /\ n = Len(gs) + 1
      BY <1>10, <1>11, <1>13, <3>2
    <3>3. CASE k = Len(gs) + 1 /\ n \in 1..Len(gs)
      BY <1>10, <1>11, <1>13, <3>3
    <3>. QED BY <1>14, <2>1, <3>1, <3>2, <3>3
  <2>. QED BY <1>13, <2>1 DEF Separate
<1>. QED BY <1>13, <1>15 DEF GroupLists

LEMMA FoundIs ==
  ASSUME Inputs0, NEW r, r = P!FoldLeft(P!AddGroup, <<>>, Unities)
  PROVE  r \in GroupLists
<1> DEFINE X == DOMAIN Unities
           V == GroupLists
           iter == CHOOSE f : f = [s \in SUBSET X |->
                     IF s = {} THEN <<>> ELSE P!AddGroup(f[s \ {P!Max(s)}], Unities[P!Max(s)])]
           pick == [s \in SUBSET X |-> Top(s)]
           step == [q \in X \X V |-> P!AddGroup(q[2], Unities[q[1]])]
<1>1. r = iter[X]
  BY DEF P!FoldLeft, P!MapThenFoldSet
<1>a. IsFiniteSet(X) /\ X \subseteq Nat
  <2>1. Len(Unities) \in Nat /\ X = 1..Len(Unities)
    BY CommandsAreListed DEF IsList
  <2>2. IsFiniteSet(1..Len(Unities))
    BY <2>1, FS_Interval
  <2>. QED BY <2>1, <2>2
<1>2. \A s \in SUBSET X : s # {} => pick[s] \in s
  <2>1. \A s \in SUBSET X : IsFiniteSet(s) /\ s \subseteq Nat
    BY <1>a, FS_Subset
  <2>. QED BY <2>1, TopIs
<1>3. step \in [X \X V -> V] /\ <<>> \in V
  <2>1. ASSUME NEW k \in X, NEW gs \in V PROVE P!AddGroup(gs, Unities[k]) \in V
    <3>1. Unities[k] \in ToSet(Unities)
      BY DEF ToSet
    <3>. QED BY <3>1, GroupAdds
  <2>2. <<>> \in V
    BY DEF GroupLists, Separate
  <2> HIDE DEF V
  <2>. QED BY <2>1, <2>2
<1>4. PICK f \in [SUBSET X -> V] : IsFold(f, X, <<>>, pick, step)
  <2> HIDE DEF X, V, pick, step
  <2>2. Folding(X, V, <<>>, pick, step)
    BY <1>2, <1>3, <1>a DEF Folding
  <2>. QED BY <2>2, FoldIsDefined
<1>5. ASSUME NEW s \in SUBSET X, s # {} PROVE f[s] = P!AddGroup(f[s \ {Top(s)}], Unities[Top(s)])
  <2>1. pick[s] = Top(s) /\ pick[s] \in X /\ f[s \ {pick[s]}] \in V
    BY <1>2, <1>5
  <2>2. f[s] = step[<<pick[s], f[s \ {pick[s]}]>>]
    BY <1>4, <1>5 DEF IsFold
  <2> HIDE DEF pick, V, X
  <2>. QED BY <2>1, <2>2
<1>6. f = [s \in SUBSET X |-> IF s = {} THEN <<>> ELSE P!AddGroup(f[s \ {P!Max(s)}], Unities[P!Max(s)])]
  <2>1. \A s \in SUBSET X : f[s] = IF s = {} THEN <<>> ELSE P!AddGroup(f[s \ {P!Max(s)}], Unities[P!Max(s)])
    BY <1>4, <1>5, SameForSuper DEF IsFold
  <2> HIDE DEF X, V
  <2>. QED BY <1>4, <2>1
<1>7. iter = [s \in SUBSET X |-> IF s = {} THEN <<>> ELSE P!AddGroup(iter[s \ {P!Max(s)}], Unities[P!Max(s)])]
  <2> HIDE DEF X
  <2>. QED BY <1>6
<1> HIDE DEF iter, pick, step, V
<1> DEFINE T == {s \in SUBSET X : iter[s] \in V}
<1>8. {} \in T
  BY <1>3, <1>7
<1>9. ASSUME NEW s \in SUBSET X, s # {}, s \ {Top(s)} \in T PROVE s \in T
  <2>1. iter[s \ {Top(s)}] \in V /\ Top(s) \in X
    BY <1>2, <1>9 DEF pick
  <2>2. iter[s] = P!AddGroup(iter[s \ {Top(s)}], Unities[Top(s)])
    BY <1>7, <1>9, SameForSuper
  <2>3. Unities[Top(s)] \in ToSet(Unities)
    BY <2>1 DEF ToSet
  <2>. QED BY <2>1, <2>2, <2>3, GroupAdds DEF V
<1>10. X \in T
  <2> HIDE DEF T, X
  <2>1. GrowsUp(T, X)
    BY <1>8, <1>9 DEF GrowsUp
  <2>2. \A s \in SUBSET X : s \in T
    BY <1>a, <2>1, EveryBucket
  <2>. QED BY <2>2
<1>. QED BY <1>1, <1>10 DEF V

LEMMA LeastIs ==
  ASSUME NEW n \in Nat, NEW s, s \subseteq 0..n, s # {}
  PROVE  P!Min(s) \in s /\ \A k \in s : P!Min(s) <= k
<1>1. PICK m \in s : \A k \in s : m <= k
  BY LeastNumber
<1>. QED BY <1>1 DEF P!Min

LEMMA GroupsAre ==
  ASSUME Inputs0, NEW gs, gs = P!Groups
  PROVE  gs \in GroupLists
<1> DEFINE found == P!FoldLeft(P!AddGroup, <<>>, Unities)
           groups == P!ToSet(found)
           first(g) == P!Min(P!ToSet(g.members))
           heads == {first(g) : g \in groups}
           order == P!Ordered(heads)
           pickd(h) == CHOOSE g \in groups : first(g) = h
<1>1. gs = [n \in DOMAIN order |-> pickd(order[n])]
  BY DEF P!Groups
<1>2. found \in GroupLists
  BY FoundIs
<1>3. groups = ToSet(found) /\ \A g : first(g) = P!Min(ToSet(g.members))
  BY SameForSuper
<1> HIDE DEF found
<1>4. found \in Seq(OfGroup) /\ Separate(found) /\ DOMAIN found = 1..Len(found)
  BY <1>2 DEF GroupLists
<1>5. \A g \in groups : g \in OfGroup
  BY <1>3, <1>4 DEF ToSet
<1>6. \A g, h \in groups : g = h \/ ToSet(g.members) \cap ToSet(h.members) = {}
  <2>1. ASSUME NEW g \in groups, NEW h \in groups
        PROVE  g = h \/ ToSet(g.members) \cap ToSet(h.members) = {}
    <3>1. \E k \in DOMAIN found : g = found[k]
      BY <1>3 DEF ToSet
    <3>2. \E n \in DOMAIN found : h = found[n]
      BY <1>3 DEF ToSet
    <3>. QED BY <1>4, <3>1, <3>2 DEF Separate
  <2>. QED BY <2>1
<1> HIDE DEF groups, first
<1>7. heads \subseteq DOMAIN commands
  <2>1. ASSUME NEW g \in groups PROVE first(g) \in DOMAIN commands
    <3>1. g.members \in Seq(DOMAIN commands) /\ g.members # <<>>
      BY <1>5 DEF OfGroup, Spots
    <3>5. 1 \in DOMAIN g.members /\ \A n \in DOMAIN g.members : g.members[n] \in DOMAIN commands
      BY <3>1
    <3>2. ToSet(g.members) # {} /\ ToSet(g.members) \subseteq DOMAIN commands
      BY <3>5 DEF ToSet
    <3>3. ToSet(g.members) \subseteq 0..Len(commands) /\ Len(commands) \in Nat
      BY <3>2, CommandsAre
    <3>4. P!Min(ToSet(g.members)) \in ToSet(g.members)
      BY <3>2, <3>3, LeastIs
    <3>. QED BY <1>3, <3>2, <3>4
  <2>. QED BY <2>1
<1>8. Lists(order, heads)
  <2>1. IsFiniteSet(heads) /\ heads \subseteq Nat
    <3>1. IsFiniteSet(DOMAIN commands) /\ DOMAIN commands \subseteq Nat
      BY CommandsAre
    <3> HIDE DEF heads
    <3>. QED BY <1>7, <3>1, FS_Subset
  <2> HIDE DEF heads
  <2>. QED BY <2>1, OrderedIs
<1>9. ASSUME NEW n \in DOMAIN order PROVE gs[n] \in groups /\ first(gs[n]) = order[n]
  <2>1. order[n] \in heads
    BY <1>8 DEF Lists
  <2>2. \E g \in groups : first(g) = order[n]
    BY <2>1
  <2>3. gs[n] = pickd(order[n])
    BY <1>1
  <2> HIDE DEF order
  <2>. QED BY <2>2, <2>3
<1>10. DOMAIN gs = DOMAIN order /\ DOMAIN order = 1..Cardinality(heads) /\ Cardinality(heads) \in Nat
  BY <1>1, <1>8 DEF Lists
<1> DEFINE N == Cardinality(heads)
<1>a. gs = [n \in 1..N |-> gs[n]]
  BY <1>1, <1>10
<1> HIDE DEF order, heads, N
<1>11. gs \in Seq(OfGroup)
  <2>1. \A n \in 1..N : gs[n] \in OfGroup
    BY <1>5, <1>9, <1>10 DEF N
  <2>2. N \in Nat
    BY <1>10 DEF N
  <2>. QED BY <1>a, <2>1, <2>2
<1>12. ASSUME NEW k \in DOMAIN gs, NEW n \in DOMAIN gs, k # n
       PROVE  ToSet(gs[k].members) \cap ToSet(gs[n].members) = {}
  <2>1. order[k] # order[n]
    BY <1>8, <1>10, <1>12 DEF Lists
  <2>2. gs[k] # gs[n]
    BY <1>9, <1>10, <2>1
  <2>. QED BY <1>6, <1>9, <1>10, <2>2
<1>. QED BY <1>11, <1>12 DEF GroupLists, Separate

(* A list of positions stands for the sources at them.                      *)
Stands(q, m, file0, D0, Y) ==
    /\ m \in Seq(D0) /\ \A i, j \in DOMAIN m : m[i] = m[j] => i = j
    /\ \A i \in D0 : file0[i] \in Y
    /\ q = [n \in DOMAIN m |-> file0[m[n]]]
IsKept(kept, m, file0, x) == kept = {i \in ToSet(m) : file0[i] = x}
LEMMA SpotsCount ==
  ASSUME NEW q, NEW m, NEW file0, NEW D0, NEW Y, Stands(q, m, file0, D0, Y),
         NEW x, NEW kept, IsKept(kept, m, file0, x)
  PROVE  IsFiniteSet(kept) /\ P!Count(q, x) = Cardinality(kept) /\ q \in Seq(Y)
<1> USE DEF Stands, IsKept
<1> DEFINE K == {n \in DOMAIN q : q[n] = x}
           T == kept
           move == [n \in K |-> m[n]]
<1>1. DOMAIN q = DOMAIN m /\ DOMAIN m = 1..Len(m) /\ Len(m) \in Nat /\ \A n \in DOMAIN m : m[n] \in D0
  OBVIOUS
<1>2. P!Count(q, x) = Cardinality(K)
  BY SameForSuper DEF P!Count
<1>3. IsFiniteSet(K)
  <2>1. IsFiniteSet(1..Len(m)) /\ K \in SUBSET (1..Len(m))
    BY <1>1, FS_Interval
  <2>. QED BY <2>1, FS_Subset
<1>4. move \in Surjection(K, T) /\ move \in Injection(K, T)
  <2>1. \A n \in K : m[n] \in T
    BY <1>1 DEF ToSet
  <2>2. \A i \in T : \E n \in K : m[n] = i
    BY <1>1 DEF ToSet
  <2>3. \A n, k \in K : m[n] = m[k] => n = k
    BY <1>1
  <2> HIDE DEF K, T
  <2>. QED BY <2>1, <2>2, <2>3 DEF Surjection, Injection, IsInjective
<1>5. q \in Seq(Y)
  <2>1. \A n \in 1..Len(m) : q[n] \in Y
    BY <1>1
  <2>2. q = [n \in 1..Len(m) |-> q[n]]
    BY <1>1
  <2>. QED BY <1>1, <2>1, <2>2
<1> HIDE DEF K, T, move
<1>6. IsFiniteSet(T) /\ Cardinality(T) = Cardinality(K)
  BY <1>3, <1>4, FS_Surjection
<1>. QED BY <1>2, <1>5, <1>6 DEF T

-----------------------------------------------------------------------------
(* SuperUnity: what Wrap makes.                                             *)
Wrapped(es, D0) == \A i \in DOMAIN D0 :
    Total([k \in {k \in DOMAIN es : es[k].context = D0[i].context} |-> P!Count(es[k].members, D0[i].file)])
    = Cardinality({j \in DOMAIN D0 : D0[j] = D0[i]})

(* Where each entry's positions are apart, every position is in one, and an *)
(* entry's context is that of its positions, each command is in it once.    *)
Placed(es, spot, D0) ==
    /\ \A k \in DOMAIN es : /\ spot[k] \in Seq(DOMAIN D0)
                            /\ \A i, j \in DOMAIN spot[k] : spot[k][i] = spot[k][j] => i = j
                            /\ es[k].members = [n \in DOMAIN spot[k] |-> D0[spot[k][n]].file]
                            /\ \A i \in ToSet(spot[k]) : D0[i].context = es[k].context
    /\ \A k, n \in DOMAIN es : k = n \/ ToSet(spot[k]) \cap ToSet(spot[n]) = {}
    /\ \A i \in DOMAIN D0 : \E k \in DOMAIN es : i \in ToSet(spot[k])

LEMMA PlacedIsWrapped ==
  ASSUME Inputs0, NEW es, IsFiniteSet(DOMAIN es), NEW spot, Placed(es, spot, commands)
  PROVE  Wrapped(es, commands)
<1> SUFFICES ASSUME NEW i \in DOMAIN commands
             PROVE  Total([k \in {k \in DOMAIN es : es[k].context = commands[i].context} |->
                              P!Count(es[k].members, commands[i].file)])
                    = Cardinality({j \in DOMAIN commands : commands[j] = commands[i]})
  BY DEF Wrapped
<1> DEFINE x == commands[i].file
           y == commands[i].context
           there == {k \in DOMAIN es : es[k].context = y}
           share == [k \in there |-> {j \in ToSet(spot[k]) : commands[j].file = x}]
           w == [k \in there |-> P!Count(es[k].members, x)]
           file0 == [j \in DOMAIN commands |-> commands[j].file]
<1>1. ASSUME NEW k \in there
      PROVE  IsFiniteSet(share[k]) /\ P!Count(es[k].members, x) = Cardinality(share[k])
  <2>1. /\ spot[k] \in Seq(DOMAIN commands) /\ \A a, b \in DOMAIN spot[k] : spot[k][a] = spot[k][b] => a = b
        /\ es[k].members = [n \in DOMAIN spot[k] |-> commands[spot[k][n]].file]
    BY DEF Placed
  <2> DEFINE m == spot[k]
             q == es[k].members
  <2>2. q = [n \in DOMAIN m |-> file0[m[n]]] /\ m \in Seq(DOMAIN commands)
        /\ \A a, b \in DOMAIN m : m[a] = m[b] => a = b
    BY <2>1
  <2>3. \A j \in DOMAIN commands : file0[j] \in DOMAIN Home
    BY CommandsAre
  <2>4. ToSet(m) \subseteq DOMAIN commands
    BY <2>1 DEF ToSet
  <2>5. share[k] = {j \in ToSet(m) : file0[j] = x}
    BY <2>4
  <2> HIDE DEF m, q, file0, x, share
  <2>6. Stands(q, m, file0, DOMAIN commands, DOMAIN Home)
    BY <2>2, <2>3 DEF Stands
  <2> DEFINE kept == share[k]
  <2>a. IsKept(kept, m, file0, x)
    BY <2>5 DEF IsKept
  <2> HIDE DEF kept
  <2>7. IsFiniteSet(kept) /\ P!Count(q, x) = Cardinality(kept)
    BY <2>a, <2>6, SpotsCount
  <2>. QED BY <2>7 DEF q, kept
<1>2. w = [k \in there |-> Cardinality(share[k])]
  <2>1. \A k \in there : P!Count(es[k].members, x) = Cardinality(share[k])
    BY <1>1
  <2> HIDE DEF there, share, x
  <2>. QED BY <2>1
<1>3. Disjoint(share, there)
  <2>1. \A k, n \in there : k = n \/ ToSet(spot[k]) \cap ToSet(spot[n]) = {}
    BY DEF Placed
  <2>2. \A k \in there : share[k] \subseteq ToSet(spot[k])
    OBVIOUS
  <2> HIDE DEF there, share
  <2>. QED BY <2>1, <2>2 DEF Disjoint
<1>4. UNION {share[k] : k \in there} = {j \in DOMAIN commands : commands[j] = commands[i]}
  <2>1. ASSUME NEW k \in there, NEW j \in share[k] PROVE j \in DOMAIN commands /\ commands[j] = commands[i]
    <3>1. j \in ToSet(spot[k]) /\ commands[j].file = x
      OBVIOUS
    <3>2. spot[k] \in Seq(DOMAIN commands) /\ commands[j].context = es[k].context /\ es[k].context = y
      BY <3>1 DEF Placed
    <3>3. j \in DOMAIN commands
      BY <3>1, <3>2 DEF ToSet
    <3>4. /\ commands[j] = [file |-> commands[j].file, context |-> commands[j].context]
          /\ commands[i] = [file |-> commands[i].file, context |-> commands[i].context]
      BY <3>3, CommandsAre
    <3>. QED BY <3>1, <3>2, <3>3, <3>4
  <2>2. ASSUME NEW j \in DOMAIN commands, commands[j] = commands[i] PROVE \E k \in there : j \in share[k]
    <3>1. PICK k \in DOMAIN es : j \in ToSet(spot[k])
      BY DEF Placed
    <3>2. commands[j].context = es[k].context
      BY <3>1 DEF Placed
    <3>3. k \in there
      BY <2>2, <3>2
    <3>. QED BY <2>2, <3>1, <3>3
  <2> HIDE DEF there, share
  <2>. QED BY <2>1, <2>2
<1>5. IsFiniteSet(there)
  <2>1. there \in SUBSET DOMAIN es
    OBVIOUS
  <2> HIDE DEF there
  <2>. QED BY <2>1, FS_Subset
<1>6. Total(w) = Cardinality(UNION {share[k] : k \in there})
  <2>1. \A k \in there : IsFiniteSet(share[k])
    BY <1>1
  <2> HIDE DEF there, share, w
  <2>. QED BY <1>2, <1>3, <1>5, <2>1, SumOfParts
<1>. QED BY <1>4, <1>6

LEMMA ListIs ==
  ASSUME NEW n \in Nat, NEW q, q = [k \in 1..n |-> q[k]], NEW Y, \A k \in 1..n : q[k] \in Y
  PROVE  q \in Seq(Y) /\ Len(q) = n
OBVIOUS

Follow(q, a, c) ==
    /\ DOMAIN q = 1..(Len(a) + Len(c))
    /\ \A k \in 1..Len(a) : q[k] = a[k]
    /\ \A k \in 1..(Len(a) + Len(c)) : ~(k <= Len(a)) => k - Len(a) \in 1..Len(c) /\ q[k] = c[k - Len(a)]
LEMMA FollowIs ==
  ASSUME NEW Y, NEW a \in Seq(Y), NEW c \in Seq(Y), NEW q, q = a \o c
  PROVE  q \in Seq(Y) /\ Follow(q, a, c)
<1>1. q \in Seq(Y) /\ Len(q) = Len(a) + Len(c) /\ Len(a) \in Nat /\ Len(c) \in Nat
  OBVIOUS
<1>2. \A k \in 1..(Len(a) + Len(c)) : ~(k <= Len(a)) => k - Len(a) \in 1..Len(c)
  BY <1>1
<1>3. DOMAIN q = 1..(Len(a) + Len(c))
  BY <1>1
<1>4. \A k \in 1..Len(a) : q[k] = a[k]
  OBVIOUS
<1>5. \A k \in 1..(Len(a) + Len(c)) : ~(k <= Len(a)) => q[k] = c[k - Len(a)]
  OBVIOUS
<1>. QED BY <1>1, <1>2, <1>3, <1>4, <1>5 DEF Follow

IsEntry(e) == /\ {"members", "originals"} \subseteq DOMAIN e
              /\ e.members \in Seq(DOMAIN Home) /\ e.originals = P!None
EntriesAre(es) == \E Y : es \in Seq(Y) /\ \A e \in Y : IsEntry(e)

LEMMA WrapIs ==
  ASSUME Inputs0, NEW gs, gs = P!Groups, NEW left, left = P!Ordered(DOMAIN commands \ P!Claimed(gs)),
         NEW es, es = [k \in DOMAIN gs |-> P!Wrapper(gs, gs[k])] \o [k \in DOMAIN left |-> P!Single(left[k])]
  PROVE  Wrapped(es, commands) /\ EntriesAre(es)
<1> DEFINE N == Len(gs)
           rest == DOMAIN commands \ P!Claimed(gs)
           M == Cardinality(rest)
           one == [k \in DOMAIN gs |-> P!Wrapper(gs, gs[k])]
           two == [k \in DOMAIN left |-> P!Single(left[k])]
           spot == [k \in 1..(N + M) |-> IF k <= N THEN gs[k].members ELSE <<left[k - N]>>]
           Y == {one[k] : k \in DOMAIN gs} \cup {two[k] : k \in DOMAIN left}
<1>1. gs \in Seq(OfGroup) /\ Separate(gs) /\ DOMAIN gs = 1..N /\ N \in Nat
  BY GroupsAre DEF GroupLists
<1>2. \A k \in DOMAIN gs : gs[k].members \in Spots
  <2>1. \A k \in DOMAIN gs : gs[k] \in OfGroup
    BY <1>1
  <2>. QED BY <2>1 DEF OfGroup
<1>3. rest \subseteq DOMAIN commands /\ \A i \in DOMAIN commands : i \in rest <=> ~\E k \in DOMAIN gs : i \in ToSet(gs[k].members)
  BY SameForSuper DEF P!Claimed
<1>4. Lists(left, rest)
  <2>1. IsFiniteSet(rest) /\ rest \subseteq Nat
    <3>1. IsFiniteSet(DOMAIN commands) /\ DOMAIN commands \subseteq Nat
      BY CommandsAre
    <3>. QED BY <3>1, FS_Subset
  <2> HIDE DEF rest
  <2>. QED BY <2>1, OrderedIs DEF rest
<1>5. DOMAIN left = 1..M /\ M \in Nat /\ \A k \in 1..M : left[k] \in rest
  BY <1>4 DEF Lists
<1> HIDE DEF rest, M, N
<1>6. one \in Seq(Y) /\ two \in Seq(Y) /\ Len(one) = N /\ Len(two) = M
  <2>1. one = [k \in 1..N |-> one[k]] /\ two = [k \in 1..M |-> two[k]]
    BY <1>1, <1>5
  <2>2. (\A k \in 1..N : one[k] \in Y) /\ (\A k \in 1..M : two[k] \in Y)
    BY <1>1, <1>5
  <2> HIDE DEF one, two, Y
  <2>3. one \in Seq(Y) /\ Len(one) = N
    BY <1>1, <2>1, <2>2, ListIs
  <2>4. two \in Seq(Y) /\ Len(two) = M
    BY <1>5, <2>1, <2>2, ListIs
  <2>. QED BY <2>3, <2>4
<1>7. es = one \o two
  OBVIOUS
<1>8. /\ es \in Seq(Y) /\ DOMAIN es = 1..(N + M)
      /\ \A k \in 1..N : es[k] = one[k]
      /\ \A k \in 1..(N + M) : ~(k <= N) => es[k] = two[k - N] /\ k - N \in 1..M
  <2> HIDE DEF one, two, Y
  <2>1. es \in Seq(Y) /\ Follow(es, one, two)
    BY <1>6, <1>7, FollowIs
  <2>. QED BY <1>6, <2>1 DEF Follow
<1>9. ASSUME NEW k \in 1..N
      PROVE  /\ one[k].members = [n \in DOMAIN gs[k].members |-> commands[gs[k].members[n]].file]
             /\ one[k].context = commands[gs[k].members[1]].context
             /\ one[k].originals = P!None /\ {"members", "originals"} \subseteq DOMAIN one[k]
  BY <1>1 DEF P!Wrapper, P!Sources
<1>10. ASSUME NEW k \in 1..M
       PROVE  /\ two[k].members = <<commands[left[k]].file>>
              /\ two[k].context = commands[left[k]].context
              /\ two[k].originals = P!None /\ {"members", "originals"} \subseteq DOMAIN two[k]
  BY <1>5, Zenon DEF P!Single
<1>11. ASSUME NEW k \in 1..(N + M)
       PROVE  /\ k <= N => k \in 1..N /\ spot[k] = gs[k].members /\ spot[k] \in Spots /\ es[k] = one[k]
              /\ ~(k <= N) => /\ k - N \in 1..M /\ spot[k] = <<left[k - N]>> /\ es[k] = two[k - N]
                              /\ left[k - N] \in rest /\ left[k - N] \in DOMAIN commands
  <2>1. k <= N => k \in 1..N
    BY <1>1, <1>5
  <2>. QED BY <1>1, <1>2, <1>3, <1>5, <1>8, <2>1
<1> HIDE DEF one, two, spot, Y
<1>12. ASSUME NEW k \in 1..(N + M)
       PROVE  /\ spot[k] \in Seq(DOMAIN commands)
              /\ \A i, j \in DOMAIN spot[k] : spot[k][i] = spot[k][j] => i = j
              /\ es[k].members = [n \in DOMAIN spot[k] |-> commands[spot[k][n]].file]
              /\ \A i \in ToSet(spot[k]) : commands[i].context = es[k].context
              /\ es[k].originals = P!None /\ {"members", "originals"} \subseteq DOMAIN es[k]
  <2>1. CASE k <= N
    <3>1. spot[k] = gs[k].members /\ spot[k] \in Spots /\ es[k] = one[k] /\ k \in 1..N
      BY <1>11, <2>1
    <3> DEFINE m == spot[k]
    <3>2. /\ m \in Seq(DOMAIN commands) /\ m # <<>> /\ \A i, j \in DOMAIN m : m[i] = m[j] => i = j
          /\ \A i, j \in ToSet(m) : commands[i].context = commands[j].context
      BY <3>1 DEF Spots
    <3>3. 1 \in DOMAIN m /\ m[1] \in ToSet(m)
      <4> HIDE DEF m
      <4>1. 1 \in DOMAIN m
        BY <3>2
      <4>. QED BY <4>1 DEF ToSet
    <3>4. es[k].members = [n \in DOMAIN m |-> commands[m[n]].file] /\ es[k].context = commands[m[1]].context
          /\ es[k].originals = P!None /\ {"members", "originals"} \subseteq DOMAIN es[k]
      BY <1>9, <3>1
    <3>5. \A i \in ToSet(m) : commands[i].context = es[k].context
      BY <3>2, <3>3, <3>4
    <3> HIDE DEF m
    <3>. QED BY <3>2, <3>4, <3>5 DEF m
  <2>2. CASE ~(k <= N)
    <3>1. k - N \in 1..M /\ spot[k] = <<left[k - N]>> /\ es[k] = two[k - N] /\ left[k - N] \in DOMAIN commands
      BY <1>11, <2>2
    <3> DEFINE i == left[k - N]
    <3>2. es[k].members = <<commands[i].file>> /\ es[k].context = commands[i].context
          /\ es[k].originals = P!None /\ {"members", "originals"} \subseteq DOMAIN es[k]
      BY <1>10, <3>1
    <3>3. spot[k] = <<i>> /\ i \in DOMAIN commands
      BY <3>1
    <3> HIDE DEF i
    <3>4. <<commands[i].file>> = [n \in DOMAIN <<i>> |-> commands[<<i>>[n]].file]
      OBVIOUS
    <3>5. ToSet(<<i>>) = {i} /\ <<i>> \in Seq(DOMAIN commands) /\ \A a, b \in DOMAIN <<i>> : a = b
      BY <3>3 DEF ToSet
    <3>. QED BY <3>2, <3>3, <3>4, <3>5
  <2>. QED BY <2>1, <2>2
<1>13. ASSUME NEW k \in 1..(N + M), NEW n \in 1..(N + M), k # n
       PROVE  ToSet(spot[k]) \cap ToSet(spot[n]) = {}
  <2>1. ASSUME NEW i PROVE ToSet(<<i>>) = {i}
    BY DEF ToSet
  <2>2. CASE k <= N /\ n <= N
    <3>1. k \in DOMAIN gs /\ n \in DOMAIN gs /\ spot[k] = gs[k].members /\ spot[n] = gs[n].members
      BY <1>1, <1>11, <2>2
    <3>. QED BY <1>1, <1>13, <3>1 DEF Separate
  <2>3. CASE k <= N /\ ~(n <= N)
    <3>1. k \in DOMAIN gs /\ spot[k] = gs[k].members
      BY <1>1, <1>11, <2>3
    <3>2. spot[n] = <<left[n - N]>> /\ left[n - N] \in rest /\ left[n - N] \in DOMAIN commands
      BY <1>11, <2>3
    <3>3. left[n - N] \notin ToSet(gs[k].members)
      BY <1>3, <3>1, <3>2
    <3>4. ToSet(spot[n]) = {left[n - N]}
      BY <2>1, <3>2
    <3>. QED BY <3>1, <3>3, <3>4
  <2>4. CASE ~(k <= N) /\ n <= N
    <3>1. n \in DOMAIN gs /\ spot[n] = gs[n].members
      BY <1>1, <1>11, <2>4
    <3>2. spot[k] = <<left[k - N]>> /\ left[k - N] \in rest /\ left[k - N] \in DOMAIN commands
      BY <1>11, <2>4
    <3>3. left[k - N] \notin ToSet(gs[n].members)
      BY <1>3, <3>1, <3>2
    <3>4. ToSet(spot[k]) = {left[k - N]}
      BY <2>1, <3>2
    <3>. QED BY <3>1, <3>3, <3>4
  <2>5. CASE ~(k <= N) /\ ~(n <= N)
    <3>1. k - N # n - N /\ k - N \in 1..M /\ n - N \in 1..M
      BY <1>1, <1>5, <1>11, <1>13, <2>5
    <3>2. left[k - N] # left[n - N]
      BY <1>4, <1>5, <3>1 DEF Lists
    <3>3. spot[k] = <<left[k - N]>> /\ spot[n] = <<left[n - N]>>
      BY <1>11, <2>5
    <3>4. ToSet(spot[k]) = {left[k - N]} /\ ToSet(spot[n]) = {left[n - N]}
      BY <2>1, <3>3
    <3>. QED BY <3>2, <3>4
  <2>. QED BY <2>2, <2>3, <2>4, <2>5
<1>14. ASSUME NEW i \in DOMAIN commands PROVE \E k \in 1..(N + M) : i \in ToSet(spot[k])
  <2>1. CASE i \in rest
    <3>1. PICK n \in 1..M : left[n] = i
      BY <1>4, <1>5, <2>1 DEF Lists
    <3>2. n + N \in 1..(N + M) /\ ~(n + N <= N) /\ (n + N) - N = n
      BY <1>1, <1>5, <3>1
    <3>3. spot[n + N] = <<left[(n + N) - N]>>
      BY <1>11, <3>2
    <3>4. ToSet(<<i>>) = {i}
      BY DEF ToSet
    <3>. QED BY <3>1, <3>2, <3>3, <3>4
  <2>2. CASE i \notin rest
    <3>1. PICK k \in 1..N : i \in ToSet(gs[k].members)
      BY <1>1, <1>3, <2>2
    <3>2. k \in 1..(N + M) /\ k <= N
      BY <1>1, <1>5
    <3>. QED BY <1>11, <3>1, <3>2
  <2>. QED BY <2>1, <2>2
<1>15. Placed(es, spot, commands)
  BY <1>8, <1>12, <1>13, <1>14 DEF Placed
<1>16. IsFiniteSet(DOMAIN es)
  BY <1>1, <1>5, <1>8, FS_Interval
<1>17. EntriesAre(es)
  <2>2. ASSUME NEW k \in 1..(N + M) PROVE IsEntry(es[k])
    <3>1. spot[k] \in Seq(DOMAIN commands) /\ es[k].members = [n \in DOMAIN spot[k] |-> commands[spot[k][n]].file]
      BY <1>12
    <3>2. \A i \in DOMAIN commands : commands[i].file \in DOMAIN Home
      BY CommandsAre
    <3>3. es[k].members \in Seq(DOMAIN Home)
      <4> DEFINE m == spot[k]
                 q == es[k].members
      <4>1. m \in Seq(DOMAIN commands) /\ q = [n \in DOMAIN m |-> commands[m[n]].file]
        BY <3>1
      <4> HIDE DEF m, q
      <4>2. q = [n \in 1..Len(m) |-> q[n]] /\ Len(m) \in Nat /\ \A n \in 1..Len(m) : q[n] \in DOMAIN Home
        BY <3>2, <4>1
      <4>3. q \in Seq(DOMAIN Home)
        BY <4>2
      <4>. QED BY <4>3 DEF q
    <3>. QED BY <1>12, <3>3 DEF IsEntry
  <2>3. ASSUME NEW e \in Y PROVE IsEntry(e)
    <3>1. CASE \E k \in DOMAIN gs : e = one[k]
      <4>1. PICK k \in 1..N : e = one[k]
        BY <1>1, <3>1
      <4>2. k \in 1..(N + M) /\ es[k] = one[k]
        BY <1>1, <1>5, <1>8
      <4>. QED BY <2>2, <4>1, <4>2
    <3>2. CASE \E k \in DOMAIN left : e = two[k]
      <4>1. PICK k \in 1..M : e = two[k]
        BY <1>5, <3>2
      <4>2. k + N \in 1..(N + M) /\ ~(k + N <= N) /\ (k + N) - N = k
        BY <1>1, <1>5
      <4>3. es[k + N] = two[(k + N) - N]
        BY <1>8, <4>2
      <4>. QED BY <2>2, <4>1, <4>2, <4>3
    <3>. QED BY <3>1, <3>2 DEF Y
  <2>. QED BY <1>8, <2>3 DEF EntriesAre
<1>. QED BY <1>15, <1>16, <1>17, PlacedIsWrapped

-----------------------------------------------------------------------------
(* SuperUnity: its state.                                                   *)
WrapperContents == [includes : Seq(DOMAIN Home), pure : BOOLEAN]
WrappersAre == \A n \in DOMAIN wrappers : wrappers[n] \in WrapperContents
UnitsAre == units = [done |-> units.done, entries |-> units.entries] /\ units.done \in BOOLEAN
            /\ EntriesAre(units.entries)
Vouched(r, e) == r = e.members /\ ToSet(r) \subseteq Generated
JobIs == merging = P!Idle \/
    /\ {"pc", "at", "read", "verified", "digest", "result"} \subseteq DOMAIN merging
    /\ merging.pc \in {"collect", "plan", "done"} /\ merging.at \in Nat /\ merging.at # 0
    /\ merging.read \in [DOMAIN units.entries -> Seq(DOMAIN Home)]
    /\ merging.verified \subseteq DOMAIN units.entries
    /\ \A k \in merging.verified : k < merging.at /\ Vouched(merging.read[k], units.entries[k])
OnceWrapped == units.done /\ edits = 0 => Wrapped(units.entries, commands)

(* What is verified is a wrapper; a batch has the members of its originals, *)
(* and each of them is an entry that was read so and touches its members    *)
(* alone.                                                                   *)
FromWrappers == merging = P!Idle \/ \A k \in merging.verified : units.entries[k].file \in DOMAIN wrappers
OnlyTouches(k, s) == \A j \in DOMAIN units.entries : P!Touches(j, s) <=> j = k
ReadAs(e, k) == /\ units.entries[k] = e /\ e.file \in DOMAIN wrappers /\ merging.read[k] = e.members
                /\ \A s \in ToSet(e.members) : OnlyTouches(k, s)
Bound(b) == /\ b.members = Chained([n \in DOMAIN b.originals |-> b.originals[n].members])
            /\ \A e \in ToSet(b.originals) : \E k \in DOMAIN units.entries : ReadAs(e, k)
BatchesBound == merging # P!Idle /\ merging.pc = "done" => \A b \in P!Batches : Bound(b)
Merged == FromWrappers /\ P!ClaimedOnce /\ BatchesBound
SuperInv == part = "super" =>
    Inputs0 /\ edits \in Nat /\ WrappersAre /\ UnitsAre /\ OnceWrapped /\ JobIs /\ Merged

LEMMA MergedKept ==
  ASSUME Merged, UNCHANGED <<units, merging>>, DOMAIN wrappers' = DOMAIN wrappers
  PROVE  Merged'
<1>1. P!Batches' = P!Batches /\ \A k, s : P!Touches(k, s)' <=> P!Touches(k, s)
  BY DEF P!Batches, P!Touches, P!Given
<1>2. FromWrappers'
  BY DEF Merged, FromWrappers
<1>3. P!ClaimedOnce'
  BY DEF Merged, P!ClaimedOnce, P!Batches, P!Touches, P!Given
<1>4. ASSUME NEW e, NEW k, ReadAs(e, k) PROVE ReadAs(e, k)'
  BY <1>1, <1>4 DEF ReadAs, OnlyTouches
<1>5. ASSUME NEW b, Bound(b) PROVE Bound(b)'
  BY <1>4, <1>5 DEF Bound
<1>6. BatchesBound'
  BY <1>1, <1>5 DEF Merged, BatchesBound
<1>. QED BY <1>2, <1>3, <1>6 DEF Merged

LEMMA EntriesOf ==
  ASSUME NEW es, EntriesAre(es)
  PROVE  /\ Len(es) \in Nat /\ DOMAIN es = 1..Len(es)
         /\ \A k \in DOMAIN es : IsEntry(es[k])
<1>1. PICK Y : es \in Seq(Y) /\ \A e \in Y : IsEntry(e)
  BY DEF EntriesAre
<1>2. Len(es) \in Nat /\ DOMAIN es = 1..Len(es) /\ \A k \in DOMAIN es : es[k] \in Y
  BY <1>1
<1>. QED BY <1>1, <1>2

LEMMA SourcesAre ==
  ASSUME Inputs0, NEW gs \in GroupLists, NEW g \in ToSet(gs)
  PROVE  P!Sources(g) \in Seq(DOMAIN Home)
<1>1. g \in OfGroup
  BY DEF ToSet, GroupLists
<1>2. g.members \in Seq(DOMAIN commands)
  BY <1>1 DEF OfGroup, Spots
<1> DEFINE m == g.members
<1>3. \A i \in DOMAIN commands : commands[i].file \in DOMAIN Home
  BY CommandsAre
<1>4. P!Sources(g) = [k \in 1..Len(m) |-> commands[m[k]].file] /\ Len(m) \in Nat
  BY <1>2 DEF P!Sources
<1>5. \A k \in 1..Len(m) : m[k] \in DOMAIN commands
  BY <1>2
<1> HIDE DEF m
<1>. QED BY <1>3, <1>4, <1>5

LEMMA WrapKeeps ==
  ASSUME SuperInv, part = "super", part' = "super", P!Wrap, UNCHANGED faults
  PROVE  SuperInv'
<1>1. Inputs0 /\ WrappersAre /\ UnitsAre /\ edits \in Nat
  BY DEF SuperInv
<1>2. merging = P!Idle /\ UNCHANGED <<commands, authored, overlay, merging, edits>>
  BY DEF P!Wrap, P!inputs
<1> DEFINE gs == P!Groups
           called == {P!WrapperName(g) : g \in P!ToSet(gs)}
           left == P!Ordered(DOMAIN commands \ P!Claimed(gs))
           es == [k \in DOMAIN gs |-> P!Wrapper(gs, gs[k])] \o [k \in DOMAIN left |-> P!Single(left[k])]
<1>3. units' = [done |-> TRUE, entries |-> es]
      /\ wrappers' = [n \in DOMAIN wrappers \cup called |-> IF n \in called THEN P!Plain(n[3]) ELSE wrappers[n]]
  BY DEF P!Wrap
<1>4. gs \in GroupLists
  BY <1>1, GroupsAre
<1>5. Wrapped(es, commands) /\ EntriesAre(es)
  <2> HIDE DEF gs
  <2>1. gs = P!Groups
    BY DEF gs
  <2>. QED BY <1>1, <2>1, WrapIs
<1>6. ASSUME NEW n \in called PROVE P!Plain(n[3]) \in WrapperContents
  <2>1. PICK g \in ToSet(gs) : n = P!WrapperName(g)
    BY SameForSuper
  <2>2. n[3] = P!Sources(g)
    BY <2>1 DEF P!WrapperName, P!File
  <2>3. P!Sources(g) \in Seq(DOMAIN Home)
    BY <1>1, <1>4, SourcesAre
  <2>. QED BY <2>2, <2>3 DEF P!Plain, WrapperContents
<1> HIDE DEF called, es, gs, left
<1>7. WrappersAre'
  BY <1>1, <1>3, <1>6 DEF WrappersAre
<1>8. UnitsAre' /\ OnceWrapped'
  BY <1>2, <1>3, <1>5 DEF UnitsAre, OnceWrapped
<1>9. JobIs' /\ Merged'
  BY <1>2 DEF JobIs, Merged, FromWrappers, P!ClaimedOnce, BatchesBound
<1>10. Inputs0' /\ edits' \in Nat
  BY <1>1, <1>2 DEF Inputs0
<1>. QED BY <1>7, <1>8, <1>9, <1>10 DEF SuperInv

LEMMA LessIs ==
  ASSUME NEW es, EntriesAre(es), NEW k \in DOMAIN es, NEW fs, fs = [es EXCEPT ![k].members = P!None]
  PROVE  EntriesAre(fs)
<1>1. Len(es) \in Nat /\ DOMAIN es = 1..Len(es) /\ \A n \in DOMAIN es : IsEntry(es[n])
  BY EntriesOf
<1>2. PICK Y : es \in Seq(Y) /\ \A e \in Y : IsEntry(e)
  BY DEF EntriesAre
<1> DEFINE e == [es[k] EXCEPT !.members = P!None]
           X == Y \cup {e}
<1>3. IsEntry(e)
  <2>1. IsEntry(es[k])
    BY <1>1
  <2>2. e.members = <<>> /\ e.originals = P!None /\ DOMAIN e = DOMAIN es[k]
    BY <2>1 DEF IsEntry, P!None
  <2>3. <<>> \in Seq(DOMAIN Home)
    OBVIOUS
  <2>. QED BY <2>1, <2>2, <2>3 DEF IsEntry
<1>4. fs = [n \in 1..Len(es) |-> IF n = k THEN e ELSE es[n]]
  BY <1>1, <1>2
<1> HIDE DEF e
<1>5. \A n \in 1..Len(es) : fs[n] \in X
  BY <1>2, <1>4
<1>6. fs \in Seq(X)
  <2> DEFINE N == Len(es)
             q == fs
  <2>1. q = [n \in 1..N |-> q[n]] /\ N \in Nat /\ \A n \in 1..N : q[n] \in X
    BY <1>1, <1>4, <1>5
  <2> HIDE DEF X, N, q
  <2>2. q \in Seq(X)
    BY ONLY <2>1, ListIs
  <2>. QED BY <2>2 DEF q
<1>7. \A x \in X : IsEntry(x)
  BY <1>2, <1>3
<1> HIDE DEF X
<1>. QED BY <1>6, <1>7 DEF EntriesAre

LEMMA MoreIs ==
  ASSUME Inputs0, NEW es, EntriesAre(es), NEW i \in DOMAIN commands, NEW fs, fs = Append(es, P!Single(i))
  PROVE  EntriesAre(fs)
<1>1. PICK Y : es \in Seq(Y) /\ \A e \in Y : IsEntry(e)
  BY DEF EntriesAre
<1> DEFINE e == P!Single(i)
           X == Y \cup {e}
<1>2. IsEntry(e)
  <2>1. commands[i].file \in DOMAIN Home
    BY CommandsAre
  <2>2. e.members = <<commands[i].file>> /\ e.originals = P!None /\ {"members", "originals"} \subseteq DOMAIN e
    BY DEF P!Single
  <2>3. <<commands[i].file>> \in Seq(DOMAIN Home)
    BY <2>1
  <2>. QED BY <2>2, <2>3 DEF IsEntry
<1> HIDE DEF e
<1>3. es \in Seq(X) /\ e \in X
  BY <1>1
<1>4. fs = Append(es, e)
  BY DEF e
<1>5. \A x \in X : IsEntry(x)
  BY <1>1, <1>2
<1> HIDE DEF X
<1>6. fs \in Seq(X)
  BY <1>3, <1>4
<1>. QED BY <1>5, <1>6 DEF EntriesAre

LEMMA EditKeeps ==
  ASSUME SuperInv, part = "super", part' = "super", P!Edit
  PROVE  SuperInv'
<1>1. Inputs0 /\ WrappersAre /\ UnitsAre /\ edits \in Nat /\ JobIs /\ Merged
  BY DEF SuperInv
<1>2. edits' = edits + 1 /\ UNCHANGED <<commands, authored, merging>>
  BY DEF P!Edit, P!inputs
<1>3. edits' \in Nat /\ edits' # 0
  BY <1>1, <1>2
<1>4. Inputs0' /\ OnceWrapped'
  BY <1>1, <1>2, <1>3 DEF Inputs0, OnceWrapped
<1>5. CASE UNCHANGED units
  <2>1. UnitsAre' /\ JobIs' /\ Merged'
    <3>1. units' = units /\ merging' = merging
      BY <1>2, <1>5
    <3>2. UnitsAre'
      BY <1>1, <3>1 DEF UnitsAre
    <3>3. JobIs'
      BY <1>1, <3>1 DEF JobIs
    <3>4. Merged'
      <4>1. DOMAIN wrappers' = DOMAIN wrappers
        BY <1>5 DEF P!Edit
      <4>. QED BY <1>1, <3>1, <4>1, MergedKept
    <3>. QED BY <3>2, <3>3, <3>4
  <2>2. WrappersAre'
    <3>1. CASE UNCHANGED wrappers
      BY <1>1, <3>1 DEF WrappersAre
    <3>2. CASE \E n \in DOMAIN wrappers : \E c \in P!Rewrites(wrappers[n]) : wrappers' = [wrappers EXCEPT ![n] = c]
      <4>1. PICK n \in DOMAIN wrappers : \E c \in P!Rewrites(wrappers[n]) : wrappers' = [wrappers EXCEPT ![n] = c]
        BY <3>2
      <4>2. PICK c \in P!Rewrites(wrappers[n]) : wrappers' = [wrappers EXCEPT ![n] = c]
        BY <4>1
      <4>3. wrappers[n] \in WrapperContents
        BY <1>1 DEF WrappersAre
      <4>4. c \in WrapperContents
        <5>1. CASE \E s \in DOMAIN Home : c = P!Plain(wrappers[n].includes \o <<s>>)
          <6>1. PICK s \in DOMAIN Home : c = P!Plain(wrappers[n].includes \o <<s>>)
            BY <5>1
          <6>2. wrappers[n].includes \in Seq(DOMAIN Home)
            BY <4>3 DEF WrapperContents
          <6>3. wrappers[n].includes \o <<s>> \in Seq(DOMAIN Home)
            BY <6>2
          <6>. QED BY <6>1, <6>3 DEF WrapperContents, P!Plain
        <5>2. CASE c = [wrappers[n] EXCEPT !.pure = FALSE]
          BY <4>3, <5>2 DEF WrapperContents
        <5>. QED BY <5>1, <5>2 DEF P!Rewrites
      <4>. QED BY <1>1, <4>2, <4>4 DEF WrappersAre
    <3>. QED BY <1>5, <3>1, <3>2 DEF P!Edit
  <2>. QED BY <1>3, <1>4, <2>1, <2>2 DEF SuperInv
<1>6. CASE ~UNCHANGED units
  <2>1. merging = P!Idle /\ wrappers' = wrappers
        /\ \/ \E k \in DOMAIN units.entries : units' = [units EXCEPT !.entries[k].members = P!None]
           \/ \E i \in DOMAIN commands : units' = [units EXCEPT !.entries = Append(units.entries, P!Single(i))]
    BY <1>6 DEF P!Edit
  <2>2. UnitsAre'
    <3> DEFINE es == units.entries
    <3>1. units = [done |-> units.done, entries |-> es] /\ units.done \in BOOLEAN /\ EntriesAre(es)
      BY <1>1 DEF UnitsAre
    <3>2. ASSUME NEW fs, units' = [units EXCEPT !.entries = fs], EntriesAre(fs) PROVE UnitsAre'
      <4>1. units' = [done |-> units.done, entries |-> fs]
        BY <3>1, <3>2
      <4>. QED BY <3>1, <3>2, <4>1 DEF UnitsAre
    <3>3. CASE \E k \in DOMAIN es : units' = [units EXCEPT !.entries[k].members = P!None]
      <4>1. PICK k \in DOMAIN es : units' = [units EXCEPT !.entries[k].members = P!None]
        BY <3>3
      <4> DEFINE fs == [es EXCEPT ![k].members = P!None]
      <4>2. units' = [units EXCEPT !.entries = fs]
        BY <3>1, <4>1
      <4>3. EntriesAre(fs)
        <5> HIDE DEF es, fs
        <5>1. fs = [es EXCEPT ![k].members = P!None]
          BY DEF fs
        <5>. QED BY <3>1, <5>1, LessIs
      <4> HIDE DEF fs
      <4>. QED BY <3>2, <4>2, <4>3
    <3>4. CASE \E i \in DOMAIN commands : units' = [units EXCEPT !.entries = Append(es, P!Single(i))]
      <4>1. PICK i \in DOMAIN commands : units' = [units EXCEPT !.entries = Append(es, P!Single(i))]
        BY <3>4
      <4> DEFINE fs == Append(es, P!Single(i))
      <4>2. EntriesAre(fs)
        <5> HIDE DEF es, fs
        <5>1. fs = Append(es, P!Single(i))
          BY DEF fs
        <5>. QED BY <1>1, <3>1, <5>1, MoreIs
      <4>3. units' = [units EXCEPT !.entries = fs]
        BY <4>1
      <4> HIDE DEF fs
      <4>. QED BY <3>2, <4>2, <4>3
    <3>. QED BY <2>1, <3>3, <3>4
  <2>3. JobIs' /\ Merged' /\ WrappersAre'
    BY <1>1, <1>2, <2>1 DEF JobIs, Merged, FromWrappers, P!ClaimedOnce, BatchesBound, WrappersAre
  <2>. QED BY <1>3, <1>4, <2>2, <2>3 DEF SuperInv
<1>. QED BY <1>5, <1>6

(* What only a job changes leaves the rest as it was.                       *)
LEMMA JobKeeps ==
  ASSUME SuperInv, part = "super", part' = "super",
         UNCHANGED <<commands, authored, wrappers, units, edits>>, JobIs', Merged'
  PROVE  SuperInv'
BY DEF SuperInv, Inputs0, WrappersAre, UnitsAre, OnceWrapped

LEMMA BeginKeeps ==
  ASSUME SuperInv, part = "super", part' = "super", P!Begin
  PROVE  SuperInv'
<1>1. UNCHANGED <<commands, authored, wrappers, units, edits>>
      /\ merging' = [pc |-> "collect", at |-> 1, read |-> [k \in DOMAIN units.entries |-> P!None],
                     verified |-> {}, digest |-> P!None, result |-> <<>>]
  BY DEF P!Begin, P!inputs, P!Given
<1>2. [k \in DOMAIN units.entries |-> P!None] \in [DOMAIN units.entries -> Seq(DOMAIN Home)]
  <2>1. <<>> \in Seq(DOMAIN Home)
    OBVIOUS
  <2>. QED BY <2>1 DEF P!None
<1> DEFINE blank == [k \in DOMAIN units.entries |-> P!None]
<1>3. merging'.read = blank /\ units' = units /\ blank \in [DOMAIN units'.entries -> Seq(DOMAIN Home)]
  BY <1>1, <1>2
<1> HIDE DEF blank
<1>4. merging'.pc = "collect" /\ merging'.at = 1 /\ merging'.verified = {}
      /\ {"pc", "at", "read", "verified", "digest", "result"} \subseteq DOMAIN merging'
  BY <1>1
<1>5. JobIs'
  BY <1>3, <1>4 DEF JobIs
<1>6. Merged'
  BY <1>4 DEF Merged, FromWrappers, P!ClaimedOnce, BatchesBound
<1>. QED BY <1>1, <1>5, <1>6, JobKeeps

LEMMA CollectKeeps ==
  ASSUME SuperInv, part = "super", part' = "super", P!Collect
  PROVE  SuperInv'
<1>1. UNCHANGED <<commands, authored, wrappers, units, edits>> /\ merging # P!Idle /\ merging.pc = "collect"
  BY DEF P!Collect, P!inputs
<1>2. WrappersAre /\ UnitsAre /\ JobIs
  BY DEF SuperInv
<1> DEFINE es == units.entries
           at == merging.at
<1>3. /\ {"pc", "at", "read", "verified", "digest", "result"} \subseteq DOMAIN merging
      /\ at \in Nat /\ at # 0 /\ merging.read \in [DOMAIN es -> Seq(DOMAIN Home)]
      /\ merging.verified \subseteq DOMAIN es
      /\ \A k \in merging.verified : k < at /\ Vouched(merging.read[k], es[k])
  BY <1>1, <1>2 DEF JobIs
<1>4. Len(es) \in Nat /\ DOMAIN es = 1..Len(es)
  BY <1>2, EntriesOf DEF UnitsAre
<1>5. \A k \in merging.verified : k < at + 1
  BY <1>3, <1>4
<1>6. SUFFICES JobIs' /\ merging'.pc # "done"
                /\ \A k \in merging'.verified : k \in merging.verified \/ es[k].file \in DOMAIN wrappers
  <2>1. ASSUME merging'.pc # "done" PROVE P!ClaimedOnce' /\ BatchesBound'
    BY <2>1 DEF P!ClaimedOnce, BatchesBound
  <2>2. FromWrappers'
    <3>1. \A k \in merging.verified : es[k].file \in DOMAIN wrappers
      BY <1>1 DEF SuperInv, Merged, FromWrappers
    <3>2. wrappers' = wrappers /\ units'.entries = es
      BY <1>1
    <3> HIDE DEF es
    <3>. QED BY <1>6, <3>1, <3>2 DEF FromWrappers
  <2>. QED BY <1>1, <1>6, <2>1, <2>2, JobKeeps DEF Merged
<1>7. CASE at > Len(es)
  <2>1. merging' = [merging EXCEPT !.pc = "plan"]
    BY <1>7 DEF P!Collect, P!Given
  <2>2. /\ merging'.pc = "plan" /\ merging'.at = at /\ merging'.read = merging.read
        /\ merging'.verified = merging.verified /\ DOMAIN merging' = DOMAIN merging
    BY <1>3, <2>1
  <2>. QED BY <1>1, <1>3, <2>2 DEF JobIs
<1>8. CASE ~(at > Len(es)) /\ ~P!IsWrapper(es[at])
  <2>1. merging' = [merging EXCEPT !.at = merging.at + 1]
    BY <1>8 DEF P!Collect, P!Given
  <2>2. /\ merging'.pc = "collect" /\ merging'.at = at + 1 /\ merging'.read = merging.read
        /\ merging'.verified = merging.verified /\ DOMAIN merging' = DOMAIN merging
    BY <1>1, <1>3, <2>1
  <2>3. at + 1 \in Nat /\ at + 1 # 0
    BY <1>3
  <2>. QED BY <1>1, <1>3, <1>5, <2>2, <2>3 DEF JobIs
<1>9. CASE ~(at > Len(es)) /\ P!IsWrapper(es[at])
  <2> DEFINE content == wrappers[es[at].file]
             fits == P!Described(es[at], content)
             digest == IF fits /\ merging.digest = P!None THEN <<overlay>> ELSE merging.digest
             more == {k \in {at} : fits /\ P!Owned(digest[1])}
             known == [merging.read EXCEPT ![at] = content.includes]
             good == merging.verified \cup more
  <2>1. merging' = [merging EXCEPT !.at = merging.at + 1, !.read[merging.at] = content.includes,
                      !.digest = digest, !.verified = merging.verified \cup more]
    BY <1>9 DEF P!Collect, P!Given
  <2>2. at \in DOMAIN es
    BY <1>3, <1>4, <1>9
  <2>3. content \in WrapperContents
    BY <1>2, <1>9 DEF WrappersAre, P!IsWrapper
  <2>4. content.includes \in Seq(DOMAIN Home)
    BY <2>3 DEF WrapperContents
  <2>5. known \in [DOMAIN es -> Seq(DOMAIN Home)] /\ known[at] = content.includes
        /\ \A k \in DOMAIN es : k # at => known[k] = merging.read[k]
    BY <1>3, <2>2, <2>4
  <2>6. ASSUME NEW k \in more PROVE k = at /\ Vouched(known[k], es[k])
    <3>1. k = at /\ fits
      OBVIOUS
    <3>2. es[at].members = content.includes /\ P!ToSet(content.includes) \subseteq Generated
      BY <3>1 DEF P!Described
    <3>. QED BY <2>5, <3>1, <3>2, SameForSuper, Zenon DEF Vouched
  <2>17. \A k \in more : es[k].file \in DOMAIN wrappers
    BY <1>9 DEF P!IsWrapper
  <2> HIDE DEF content, fits, digest, more
  <2>7. merging'.pc = "collect"
    BY <1>1, <1>3, <2>1
  <2>8. merging'.at = at + 1
    BY <1>3, <2>1
  <2>9. merging'.read = known
    BY <1>3, <2>1
  <2>10. merging'.verified = good
    BY <1>3, <2>1
  <2>11. DOMAIN merging' = DOMAIN merging
    BY <2>1
  <2>12. at + 1 \in Nat /\ at + 1 # 0 /\ at < at + 1 /\ \A k \in DOMAIN es : k < at => k # at
    BY <1>3, <1>4
  <2> HIDE DEF known
  <2>13. good \subseteq DOMAIN es /\ \A k \in good : k < at + 1 /\ Vouched(known[k], es[k])
    <3>1. ASSUME NEW k \in good PROVE k \in DOMAIN es /\ k < at + 1 /\ Vouched(known[k], es[k])
      <4>1. CASE k \in more
        BY <2>2, <2>6, <2>12, <4>1
      <4>2. CASE k \in merging.verified
        BY <1>3, <1>5, <2>5, <2>12, <4>2
      <4>. QED BY <4>1, <4>2
    <3> HIDE DEF good
    <3>. QED BY <3>1
  <2> HIDE DEF good
  <2>14. es = units'.entries
    BY <1>1
  <2> HIDE DEF es, at
  <2>15. JobIs'
    BY <1>3, <2>5, <2>7, <2>8, <2>9, <2>10, <2>11, <2>12, <2>13, <2>14 DEF JobIs
  <2>16. \A k \in good : k \in merging.verified \/ es[k].file \in DOMAIN wrappers
    BY <2>17 DEF good
  <2>. QED BY <2>7, <2>10, <2>15, <2>16
<1>. QED BY <1>7, <1>8, <1>9

-----------------------------------------------------------------------------
(* SuperUnity: what a plan puts together.                                   *)
Planning == SuperInv /\ part = "super" /\ merging # P!Idle
InPlan(c) == /\ c # {} /\ c \subseteq DOMAIN units.entries /\ c \subseteq merging.verified
             /\ IsFiniteSet(c) /\ c \subseteq Nat /\ P!Min(c) \in c
             /\ \A k \in c : P!Eligible(k)
LEMMA PlansAre ==
  ASSUME Planning, NEW plan0 \in P!Plans
  PROVE  /\ \A c, d \in plan0 : c = d \/ c \cap d = {}
         /\ \A c \in plan0 : InPlan(c)
<1>1. JobIs /\ UnitsAre
  BY DEF Planning, SuperInv
<1> DEFINE es == units.entries
<1>2. Len(es) \in Nat /\ DOMAIN es = 1..Len(es) /\ merging.verified \subseteq DOMAIN es
  BY <1>1, EntriesOf DEF UnitsAre, JobIs, Planning
<1>3. \A k \in P!Packable : k \in merging.verified /\ P!Eligible(k)
  BY DEF P!Packable
<1>4. /\ \A c \in plan0 : c \in SUBSET P!Packable /\ P!Chunk(c)
      /\ \A c, d \in plan0 : c = d \/ c \cap d = {}
  BY DEF P!Plans
<1> HIDE DEF es
<1>5. ASSUME NEW c \in plan0 PROVE InPlan(c)
  <2>1. c \subseteq merging.verified /\ c \subseteq DOMAIN es /\ \A k \in c : P!Eligible(k)
    BY <1>2, <1>3, <1>4
  <2>2. IsFiniteSet(c) /\ c \subseteq Nat /\ c \subseteq 0..Len(es)
    <3>1. IsFiniteSet(1..Len(es)) /\ c \in SUBSET (1..Len(es))
      BY <1>2, <2>1, FS_Interval
    <3>2. IsFiniteSet(c)
      BY <3>1, FS_Subset
    <3>. QED BY <1>2, <3>1, <3>2
  <2>3. c # {}
    <3>1. Cardinality(c) \in 2..MaxOriginals
      BY <1>4, SameForSuper DEF P!Chunk
    <3>2. Cardinality(c) # 0
      BY <3>1
    <3>. QED BY <3>2, FS_EmptySet
  <2>4. P!Min(c) \in c
    BY <1>2, <2>2, <2>3, LeastIs
  <2>. QED BY <2>1, <2>2, <2>3, <2>4 DEF InPlan, es
<1>. QED BY <1>4, <1>5

(* What is not nothing is not nothing somewhere.                            *)
LEMMA SumOfNone ==
  ASSUME NEW X, IsFiniteSet(X), NEW w \in [X -> Nat], NEW f, Sums(f, w, X), NEW c \in SUBSET X, f[c] # 0
  PROVE  \E k \in c : w[k] >= 1
<1> DEFINE pick == [s \in SUBSET X |-> AnyOf(s)]
           T == {s \in SUBSET X : f[s] # 0 => \E k \in s : w[k] >= 1}
<1>1. {} \in T
  BY DEF Sums
<1>2. ASSUME NEW s \in SUBSET X, s # {}, s \ {pick[s]} \in T PROVE s \in T
  <2> DEFINE p == AnyOf(s)
             t == s \ {p}
  <2>1. p \in s /\ p \in X /\ t \in SUBSET X /\ pick[s] = p
    BY <1>2 DEF AnyOf
  <2>2. f[t] # 0 => \E k \in t : w[k] >= 1
    BY <1>2, <2>1
  <2> HIDE DEF p
  <2>3. f[s] = w[p] + f[t] /\ f[t] \in Nat /\ w[p] \in Nat
    BY <2>1 DEF Sums
  <2>4. f[s] # 0 => f[t] # 0 \/ w[p] >= 1
    BY <2>3
  <2>5. f[s] # 0 => \E k \in s : w[k] >= 1
    BY <2>1, <2>2, <2>4
  <2>. QED BY <2>5
<1>3. \A s \in SUBSET X : s \in T
  <2>1. Picks(pick, X)
    BY DEF Picks, AnyOf
  <2> HIDE DEF pick, T
  <2>2. Grows(T, pick, X)
    BY <1>1, <1>2 DEF Grows
  <2>. QED BY <2>1, <2>2, EverySubset
<1>. QED BY <1>3

(* The entries of a batch are its chunk's, and it has what they have.       *)
LEMMA BatchIs ==
  ASSUME Planning, NEW c, InPlan(c), NEW b, b = P!Batch(c)
  PROVE  /\ b.originals # P!None
         /\ \A k \in c : units.entries[k] \in ToSet(b.originals)
<1> DEFINE es == units.entries
           o == P!Ordered(c)
           N == Cardinality(c)
           given == [n \in DOMAIN o |-> es[o[n]]]
<1>1. Lists(o, c) /\ IsFiniteSet(c)
  <2> HIDE DEF o
  <2>1. o = P!Ordered(c)
    BY DEF o
  <2>. QED BY <2>1, OrderedIs DEF InPlan
<1>2. DOMAIN o = 1..N /\ N \in Nat /\ \A i \in c : \E n \in DOMAIN o : o[n] = i
  BY <1>1 DEF Lists
<1>3. N # 0
  BY <1>1, FS_EmptySet DEF InPlan
<1>4. b.originals = given
  BY DEF P!Batch, P!Originals, P!Given
<1>5. ASSUME NEW k \in c PROVE es[k] \in ToSet(given)
  <2>1. PICK n \in DOMAIN o : o[n] = k
    BY <1>2
  <2> HIDE DEF o
  <2>2. n \in DOMAIN given /\ given[n] = es[k]
    BY <2>1
  <2> HIDE DEF given
  <2>. QED BY <2>2 DEF ToSet
<1>6. given # <<>>
  <2>1. 1 \in DOMAIN o
    BY <1>2, <1>3
  <2> HIDE DEF o
  <2>2. 1 \in DOMAIN given
    BY <2>1
  <2> HIDE DEF given
  <2>. QED BY <2>2
<1>. QED BY <1>4, <1>5, <1>6 DEF P!None

Weights(w, s) == w = [k \in DOMAIN units.entries |-> P!Count(units.entries[k].members, s)]
LEMMA BatchCounts ==
  ASSUME Planning, NEW c, InPlan(c), NEW b, b = P!Batch(c), NEW s, NEW w, Weights(w, s),
         w \in [DOMAIN units.entries -> Nat], NEW g, Sums(g, w, DOMAIN units.entries)
  PROVE  P!Count(b.members, s) = g[c]
<1> DEFINE es == units.entries
           X == DOMAIN es
           o == P!Ordered(c)
           N == Cardinality(c)
           given == [n \in DOMAIN o |-> es[o[n]]]
           seqs == [n \in DOMAIN given |-> given[n].members]
           Y == DOMAIN Home
<1>1. Lists(o, c) /\ c \subseteq X
  <2> HIDE DEF o
  <2>1. o = P!Ordered(c)
    BY DEF o
  <2>. QED BY <2>1, OrderedIs DEF InPlan
<1>2. /\ DOMAIN o = 1..N /\ N \in Nat /\ o \in [1..N -> c]
      /\ \A n, k \in 1..N : o[n] = o[k] => n = k
      /\ \A i \in c : \E n \in 1..N : o[n] = i
  BY <1>1 DEF Lists
<1>3. \A k \in X : es[k].members \in Seq(Y) /\ w[k] = P!Count(es[k].members, s)
  BY EntriesOf DEF Planning, SuperInv, UnitsAre, IsEntry, Weights
<1>4. IsFiniteSet(X)
  <2>1. Len(es) \in Nat /\ X = 1..Len(es)
    BY EntriesOf DEF Planning, SuperInv, UnitsAre
  <2> HIDE DEF X, es
  <2>. QED BY <2>1, FS_Interval
<1>5. b.members = Chained(seqs)
  BY DEF P!Batch, P!Originals, P!Given, Chained
<1> HIDE DEF o, N, X, es
<1>6. DOMAIN seqs = 1..N /\ \A n \in 1..N : seqs[n] = es[o[n]].members /\ o[n] \in X
  BY <1>1, <1>2
<1>7. o \in [1..N -> X] /\ c = {o[n] : n \in 1..N}
  BY <1>1, <1>2
<1> HIDE DEF given, seqs, Y
<1>8. \A n \in 1..N : seqs[n] \in Seq(Y) /\ w[o[n]] = P!Count(seqs[n], s)
  BY <1>3, <1>6
<1>9. w \in [X -> Nat] /\ Sums(g, w, X)
  BY DEF X, es
<1>10. ChainOf(Y, N, seqs, X, o, s, w, g, c)
  BY <1>2, <1>4, <1>6, <1>7, <1>8, <1>9 DEF ChainOf
<1>11. P!Count(Chained(seqs), s) = g[c]
  BY <1>10, ChainCounts
<1>. QED BY <1>5, <1>11

(* What is eligible touches its members alone.                              *)
LEMMA EligibleIsAlone ==
  ASSUME Planning, NEW k \in merging.verified, P!Eligible(k), NEW s \in ToSet(units.entries[k].members)
  PROVE  OnlyTouches(k, s) /\ s \in Generated /\ P!MetadataClaims(s) = 1
<1> DEFINE es == units.entries
           X == DOMAIN es
           Y == DOMAIN Home
           w == [j \in X |-> P!Count(es[j].members, s)]
           v == [j \in X |-> P!Count(merging.read[j], s)]
<1>1. /\ IsFiniteSet(X) /\ merging.read \in [X -> Seq(Y)] /\ k \in X
      /\ Vouched(merging.read[k], es[k]) /\ \A j \in X : es[j].members \in Seq(Y)
  <2>1. Len(es) \in Nat /\ X = 1..Len(es) /\ \A j \in X : es[j].members \in Seq(Y)
    BY EntriesOf DEF Planning, SuperInv, UnitsAre, IsEntry
  <2>2. IsFiniteSet(1..Len(es))
    BY <2>1, FS_Interval
  <2>3. merging.read \in [X -> Seq(Y)] /\ k \in X /\ Vouched(merging.read[k], es[k])
    BY DEF Planning, SuperInv, JobIs
  <2>. QED BY <2>1, <2>2, <2>3
<1>2. X \in SUBSET X
  OBVIOUS
<1>3. w \in [X -> Nat] /\ v \in [X -> Nat]
  <2>1. \A j \in X : P!Count(es[j].members, s) \in Nat /\ P!Count(merging.read[j], s) \in Nat
    BY <1>1, CountIs
  <2>. QED BY <2>1
<1>4. \A j \in X : (w[j] >= 1 <=> s \in ToSet(es[j].members)) /\ (v[j] >= 1 <=> s \in ToSet(merging.read[j]))
  BY <1>1, CountIs
<1>5. P!MetadataClaims(s) = Total(w)
  BY SameForSuper DEF P!MetadataClaims, P!Given
<1>6. P!Claims(merging.read, s) = P!Alone(P!Source(s)) + Total(v)
  <2>1. DOMAIN merging.read = X
    BY <1>1
  <2>2. v = [j \in DOMAIN merging.read |-> P!Count(merging.read[j], s)]
    BY <2>1
  <2> HIDE DEF v, X
  <2>. QED BY <2>2, SameForSuper DEF P!Claims
<1>7. ASSUME NEW f PROVE P!Alone(f) \in Nat /\ (P!Alone(f) = 0 => \A j \in X : es[j].file # f)
  <2> DEFINE K == {j \in X : es[j].file = f}
  <2>1. K \in SUBSET X /\ P!Alone(f) = Cardinality(K)
    BY SameForSuper DEF P!Alone, P!Given
  <2> HIDE DEF K
  <2>2. IsFiniteSet(K)
    BY <1>1, <2>1, FS_Subset
  <2>3. Cardinality(K) \in Nat /\ (Cardinality(K) = 0 => K = {})
    BY <2>2, FS_CardinalityType, FS_EmptySet
  <2>. QED BY <2>1, <2>3 DEF K
<1>8. PICK g : Sums(g, w, X)
  <2> HIDE DEF w, X
  <2>. QED BY <1>1, <1>3, SumIsDefined
<1>9. PICK h : Sums(h, v, X)
  <2> HIDE DEF v, X
  <2>. QED BY <1>1, <1>3, SumIsDefined
<1>10. Total(w) = g[X] /\ Total(v) = h[X]
  <2>1. w = [j \in X |-> w[j]] /\ v = [j \in X |-> v[j]] /\ IsFiniteSet(X)
    BY <1>1
  <2> HIDE DEF w, v, X
  <2>2. Total(w) = g[X]
    BY <1>2, <1>3, <1>8, <2>1, SumIs
  <2>3. Total(v) = h[X]
    BY <1>2, <1>3, <1>9, <2>1, SumIs
  <2>. QED BY <2>2, <2>3
<1>11. g[X] \in Nat /\ h[X] \in Nat
  BY <1>2, <1>8, <1>9 DEF Sums
<1>12. s \in ToSet(merging.read[k]) /\ s \in Generated /\ v[k] >= 1 /\ w[k] >= 1
  BY <1>1, <1>4 DEF Vouched
<1>13. P!Claims(merging.read, s) = 1 /\ P!MetadataClaims(s) = 1
  BY <1>12, SameForSuper DEF P!Eligible
<1>14. g[X] = 1
  BY <1>5, <1>10, <1>13
<1>15. h[X] >= 1
  <2>1. h[X] = v[k] + h[X \ {k}] /\ h[X \ {k}] \in Nat /\ v[k] \in Nat
    <3> HIDE DEF v, X
    <3>. QED BY <1>1, <1>2, <1>3, <1>9 DEF Sums
  <2> HIDE DEF v, X
  <2>. QED BY <1>12, <2>1
<1>16. P!Alone(P!Source(s)) = 0 /\ h[X] = 1
  <2>1. P!Alone(P!Source(s)) + h[X] = 1 /\ P!Alone(P!Source(s)) \in Nat
    BY <1>6, <1>7, <1>10, <1>13
  <2> HIDE DEF X
  <2>. QED BY <1>11, <1>15, <2>1
<1>17. OnlyAt(w, X, k) /\ OnlyAt(v, X, k)
  <2> HIDE DEF w, v, X
  <2>. QED BY <1>1, <1>3, <1>8, <1>9, <1>12, <1>14, <1>16, SumOfOne
<1> HIDE DEF w, v
<1>18. ASSUME NEW j \in X PROVE P!Touches(j, s) <=> j = k
  <2>1. P!Touches(j, s) <=> \/ es[j].file = P!Source(s) \/ s \in ToSet(merging.read[j])
                            \/ s \in ToSet(es[j].members)
    BY SameForSuper DEF P!Touches, P!Given
  <2>2. es[j].file # P!Source(s)
    BY <1>7, <1>16
  <2>3. s \in ToSet(merging.read[j]) => j = k
    BY <1>4, <1>17 DEF OnlyAt
  <2>4. s \in ToSet(es[j].members) => j = k
    BY <1>4, <1>17 DEF OnlyAt
  <2>. QED BY <1>12, <2>1, <2>2, <2>3, <2>4
<1>. QED BY <1>12, <1>13, <1>18 DEF OnlyTouches

(* A batch's sources are its chunk's, verified and nobody else's.           *)
BatchIsOnce(b) == \A s \in DOMAIN Home :
    /\ P!Count(b.members, s) <= 1
    /\ P!Count(b.members, s) = 1 =>
          /\ s \in Generated
          /\ Cardinality({k \in DOMAIN units.entries : P!Touches(k, s)}) = 1
LEMMA BatchOnce ==
  ASSUME Planning, NEW c, InPlan(c), NEW b, b = P!Batch(c)
  PROVE  BatchIsOnce(b)
<1> SUFFICES ASSUME NEW s \in DOMAIN Home
             PROVE  /\ P!Count(b.members, s) <= 1
                    /\ P!Count(b.members, s) = 1 =>
                          /\ s \in Generated
                          /\ Cardinality({k \in DOMAIN units.entries : P!Touches(k, s)}) = 1
  BY DEF BatchIsOnce
<1> DEFINE es == units.entries
           X == DOMAIN es
           w == [k \in X |-> P!Count(es[k].members, s)]
<1>1. IsFiniteSet(X) /\ \A k \in X : es[k].members \in Seq(DOMAIN Home)
  <2>1. Len(es) \in Nat /\ X = 1..Len(es) /\ \A k \in X : es[k].members \in Seq(DOMAIN Home)
    BY EntriesOf DEF Planning, SuperInv, UnitsAre, IsEntry
  <2>. QED BY <2>1, FS_Interval
<1>2. c \in SUBSET X /\ X \in SUBSET X /\ c \subseteq merging.verified /\ \A k \in c : P!Eligible(k)
  BY DEF InPlan
<1>3. w \in [X -> Nat] /\ \A k \in X : w[k] >= 1 <=> s \in ToSet(es[k].members)
  <2>1. \A k \in X : P!Count(es[k].members, s) \in Nat
    BY <1>1, CountIs
  <2>2. \A k \in X : w[k] >= 1 <=> s \in ToSet(es[k].members)
    BY <1>1, CountIs
  <2>. QED BY <2>1, <2>2
<1>4. Weights(w, s)
  BY DEF Weights
<1>5. P!MetadataClaims(s) = Total(w)
  BY SameForSuper DEF P!MetadataClaims, P!Given
<1>6. PICK g : Sums(g, w, X)
  <2> HIDE DEF w, X
  <2>. QED BY <1>1, <1>3, SumIsDefined
<1>7. P!Count(b.members, s) = g[c]
  <2>1. w \in [DOMAIN units.entries -> Nat] /\ Sums(g, w, DOMAIN units.entries)
    BY <1>3, <1>6
  <2> HIDE DEF w
  <2>. QED BY <1>4, <2>1, BatchCounts
<1>8. Total(w) = g[X]
  <2>1. w = [k \in X |-> w[k]] /\ IsFiniteSet(X) /\ w \in [X -> Nat]
    BY <1>1, <1>3
  <2> HIDE DEF w, X
  <2>. QED BY <1>2, <1>6, <2>1, SumIs
<1>9. g[c] \in Nat /\ g[X] \in Nat
  BY <1>2, <1>6 DEF Sums
<1>10. g[c] <= g[X]
  <2> HIDE DEF w, X
  <2>. QED BY <1>1, <1>2, <1>3, <1>6, SumOfFewer
<1>11. SUFFICES ASSUME g[c] # 0
                PROVE  /\ g[X] = 1 /\ s \in Generated
                       /\ Cardinality({k \in X : P!Touches(k, s)}) = 1
  <2> HIDE DEF w, X
  <2>. QED BY <1>7, <1>9, <1>10, <1>11 DEF X, es
<1>12. PICK k \in c : w[k] >= 1
  <2> HIDE DEF w, X
  <2>. QED BY <1>1, <1>2, <1>3, <1>6, <1>11, SumOfNone
<1>13. k \in merging.verified /\ P!Eligible(k) /\ k \in X /\ s \in ToSet(es[k].members)
  BY <1>2, <1>3, <1>12
<1>14. OnlyTouches(k, s) /\ s \in Generated /\ P!MetadataClaims(s) = 1
  BY <1>13, EligibleIsAlone
<1>15. {j \in X : P!Touches(j, s)} = {k}
  BY <1>13, <1>14 DEF OnlyTouches
<1>. QED BY <1>5, <1>8, <1>14, <1>15, FS_Singleton

(* Its originals are entries of it, which were read as they are.            *)
LEMMA BatchBound ==
  ASSUME Planning, NEW c, InPlan(c), NEW b, b = P!Batch(c)
  PROVE  Bound(b)
<1> DEFINE es == units.entries
           o == P!Ordered(c)
           given == [n \in DOMAIN o |-> es[o[n]]]
<1>1. b.originals = given /\ b.members = Chained([n \in DOMAIN given |-> given[n].members])
  BY DEF P!Batch, P!Originals, P!Given, Chained
<1>2. \A n \in DOMAIN o : o[n] \in c
  <2> HIDE DEF o
  <2>1. o = P!Ordered(c)
    BY DEF o
  <2>2. Lists(o, c)
    BY <2>1, OrderedIs DEF InPlan
  <2>. QED BY <2>2 DEF Lists
<1>3. ASSUME NEW k \in c PROVE k \in DOMAIN es /\ ReadAs(es[k], k)
  <2>1. k \in DOMAIN es /\ k \in merging.verified /\ P!Eligible(k)
    BY DEF InPlan
  <2>2. es[k].file \in DOMAIN wrappers /\ merging.read[k] = es[k].members
    BY <2>1 DEF Planning, SuperInv, Merged, FromWrappers, JobIs, Vouched
  <2>3. \A s \in ToSet(es[k].members) : OnlyTouches(k, s)
    BY <2>1, EligibleIsAlone
  <2>. QED BY <2>1, <2>2, <2>3 DEF ReadAs
<1> HIDE DEF es, o
<1>4. ASSUME NEW e \in ToSet(given) PROVE \E k \in DOMAIN es : ReadAs(e, k)
  <2>1. PICK n \in DOMAIN o : e = es[o[n]]
    BY DEF ToSet
  <2>. QED BY <1>2, <1>3, <2>1
<1> HIDE DEF given
<1>. QED BY <1>1, <1>4 DEF Bound, es

LEMMA FinishKeeps ==
  ASSUME SuperInv, part = "super", part' = "super", P!Finish
  PROVE  SuperInv'
<1>1. UNCHANGED <<commands, authored, wrappers, units, edits>> /\ merging # P!Idle /\ merging.pc = "plan"
  BY DEF P!Finish, P!inputs
<1>2. Planning /\ JobIs /\ UnitsAre
  BY <1>1 DEF SuperInv, Planning
<1> DEFINE es == units.entries
           X == DOMAIN es
           heads(plan0) == {P!Min(c) : c \in plan0}
           stay(plan0) == {k \in X : k \in heads(plan0) \/ k \notin UNION plan0}
           chunk(plan0, k) == CHOOSE c \in plan0 : k \in c
           kept(plan0) == P!Ordered(stay(plan0))
           made(plan0) == [n \in DOMAIN kept(plan0) |->
                              IF kept(plan0)[n] \in heads(plan0) THEN P!Batch(chunk(plan0, kept(plan0)[n]))
                              ELSE es[kept(plan0)[n]]]
<1>3. \E plan0 \in P!Plans : merging' = [merging EXCEPT !.pc = "done", !.result = made(plan0)]
  BY Zenon DEF P!Finish, P!Given
<1>4. PICK plan0 \in P!Plans : merging' = [merging EXCEPT !.pc = "done", !.result = made(plan0)]
  BY <1>3, Zenon
<1> DEFINE H0 == heads(plan0)
           S0 == stay(plan0)
           o == kept(plan0)
           res == made(plan0)
<1>5. /\ \A c, d \in plan0 : c = d \/ c \cap d = {}
      /\ \A c \in plan0 : InPlan(c)
  BY <1>2, PlansAre
<1>6. \A c \in plan0 : P!Min(c) \in c /\ c \subseteq X
  BY <1>5 DEF InPlan
<1>7. Lists(o, S0)
  <2>1. Len(es) \in Nat /\ X = 1..Len(es)
    BY <1>2, EntriesOf DEF UnitsAre
  <2>2. IsFiniteSet(X) /\ X \subseteq Nat
    BY <2>1, FS_Interval
  <2>3. S0 \in SUBSET X
    OBVIOUS
  <2> HIDE DEF S0, X
  <2>4. IsFiniteSet(S0) /\ S0 \subseteq Nat
    BY <2>2, <2>3, FS_Subset
  <2>5. o = P!Ordered(S0)
    BY DEF S0
  <2> HIDE DEF o
  <2>. QED BY <2>4, <2>5, OrderedIs
<1>8. DOMAIN res = DOMAIN o /\ \A n \in DOMAIN o : o[n] \in S0
  BY <1>7 DEF Lists
<1>9. \A n \in DOMAIN o : res[n] = IF o[n] \in H0 THEN P!Batch(chunk(plan0, o[n])) ELSE es[o[n]]
  OBVIOUS
<1>10. \A k \in S0 : \E n \in DOMAIN o : o[n] = k
  BY <1>7 DEF Lists
<1>11. ASSUME NEW c \in plan0 PROVE chunk(plan0, P!Min(c)) = c
  <2>1. P!Min(c) \in c
    BY <1>6
  <2>2. chunk(plan0, P!Min(c)) \in plan0 /\ P!Min(c) \in chunk(plan0, P!Min(c))
    BY <2>1
  <2>. QED BY <1>5, <2>1, <2>2
<1>12. \A k \in S0 : k \in X /\ (k \in H0 \/ k \notin UNION plan0)
  OBVIOUS
<1>13. \A k \in X : k \in H0 \/ k \notin UNION plan0 => k \in S0
  OBVIOUS
<1>14. \A k \in H0 : \E c \in plan0 : k = P!Min(c)
  OBVIOUS
<1>15. \A c \in plan0 : P!Min(c) \in H0
  OBVIOUS
<1> HIDE DEF H0, S0, o, res, heads, stay, kept, made, chunk
<1>16. ASSUME NEW c \in plan0 PROVE P!Batch(c) \in ToSet(res)
  <2>1. P!Min(c) \in S0 /\ P!Min(c) \in H0
    BY <1>6, <1>13, <1>15
  <2>2. PICK n \in DOMAIN o : o[n] = P!Min(c)
    BY <1>10, <2>1
  <2>3. res[n] = P!Batch(c)
    BY <1>9, <1>11, <2>1, <2>2
  <2>. QED BY <1>8, <2>3 DEF ToSet
<1>17. ASSUME NEW k \in X, k \notin UNION plan0 PROVE es[k] \in ToSet(res)
  <2>1. PICK n \in DOMAIN o : o[n] = k
    BY <1>10, <1>13, <1>17
  <2>2. k \notin H0
    BY <1>6, <1>14, <1>17
  <2>3. res[n] = es[k]
    BY <1>9, <2>1, <2>2
  <2>. QED BY <1>8, <2>3 DEF ToSet
<1>18. ASSUME NEW b \in ToSet(res), b.originals # P!None PROVE \E c \in plan0 : b = P!Batch(c)
  <2>1. PICK n \in DOMAIN o : b = res[n]
    BY <1>8 DEF ToSet
  <2>2. CASE o[n] \in H0
    <3>1. PICK c \in plan0 : o[n] = P!Min(c)
      BY <1>14, <2>2
    <3>. QED BY <1>9, <1>11, <2>1, <2>2, <3>1
  <2>3. CASE o[n] \notin H0
    <3>1. b = es[o[n]] /\ o[n] \in X
      BY <1>8, <1>9, <1>12, <2>1, <2>3
    <3>2. es[o[n]].originals = P!None
      BY <1>2, <3>1, EntriesOf DEF UnitsAre, IsEntry
    <3>. QED BY <1>18, <3>1, <3>2
  <2>. QED BY <2>2, <2>3
<1> DEFINE bs == {b \in ToSet(res) : b.originals # P!None}
<1>19. ASSUME NEW e \in ToSet(es) PROVE e \in ToSet(res) \cup UNION {ToSet(b.originals) : b \in bs}
  <2>1. PICK k \in X : e = es[k]
    BY DEF ToSet
  <2>2. CASE k \notin UNION plan0
    BY <1>17, <2>1, <2>2
  <2>3. CASE k \in UNION plan0
    <3>1. PICK c \in plan0 : k \in c
      BY <2>3
    <3> DEFINE b == P!Batch(c)
    <3>2. b \in ToSet(res)
      BY <1>16
    <3>3. b.originals # P!None /\ e \in ToSet(b.originals)
      <4>1. InPlan(c)
        BY <1>5
      <4> HIDE DEF b
      <4>2. b = P!Batch(c)
        BY DEF b
      <4>. QED BY <1>2, <2>1, <3>1, <4>1, <4>2, BatchIs
    <3> HIDE DEF b
    <3>. QED BY <3>2, <3>3
  <2>. QED BY <2>2, <2>3
<1>20. ASSUME NEW b \in bs PROVE BatchIsOnce(b)
  BY <1>2, <1>5, <1>18, BatchOnce
<1>25. ASSUME NEW b \in bs PROVE Bound(b)
  BY <1>2, <1>5, <1>18, BatchBound
<1> HIDE DEF bs, es, X
<1>21. /\ merging'.pc = "done" /\ merging'.at = merging.at /\ merging'.read = merging.read
       /\ merging'.verified = merging.verified /\ DOMAIN merging' = DOMAIN merging /\ merging'.result = res
  <2>1. {"pc", "at", "read", "verified", "digest", "result"} \subseteq DOMAIN merging
    BY <1>1, <1>2 DEF JobIs
  <2>2. merging' = [merging EXCEPT !.pc = "done", !.result = res]
    BY <1>4 DEF res
  <2>. QED BY <2>1, <2>2
<1>22. JobIs'
  BY <1>1, <1>2, <1>21 DEF JobIs
<1>23. P!ClaimedOnce'
  <2>1. units' = units /\ units'.entries = es
    BY <1>1 DEF es
  <2>2. \A k, s : P!Touches(k, s)' <=> P!Touches(k, s)
    BY <1>1, <1>21 DEF P!Touches, P!Given
  <2> DEFINE bs1 == {b \in P!ToSet(res) : b.originals # P!None}
  <2>3. bs1 = bs
    BY SameForSuper DEF bs
  <2>4. \A e \in P!ToSet(es) : e \in P!ToSet(res) \cup UNION {P!ToSet(b.originals) : b \in bs1}
    BY <1>19, <2>3, SameForSuper
  <2>5. \A b \in bs1, s \in DOMAIN Home :
              /\ P!Count(b.members, s) <= 1
              /\ P!Count(b.members, s) = 1 =>
                    /\ s \in Generated
                    /\ P!Cardinality({k \in DOMAIN es : P!Touches(k, s)}) = 1
    BY <1>20, <2>3, SameForSuper DEF BatchIsOnce, es
  <2> HIDE DEF bs1
  <2>6. \A b \in bs1, s \in DOMAIN Home :
              /\ P!Count(b.members, s) <= 1
              /\ P!Count(b.members, s) = 1 =>
                    /\ s \in Generated
                    /\ P!Cardinality({k \in DOMAIN es : P!Touches(k, s)'}) = 1
    BY <2>2, <2>5
  <2>. QED BY <1>21, <2>1, <2>4, <2>6 DEF P!ClaimedOnce, P!Batches, P!Given, bs1
<1>24. FromWrappers' /\ BatchesBound'
  <2>1. units' = units /\ wrappers' = wrappers /\ merging'.read = merging.read /\ merging'.verified = merging.verified
    BY <1>1, <1>21
  <2>2. FromWrappers'
    BY <1>1, <2>1 DEF SuperInv, Merged, FromWrappers
  <2>3. \A k, s : OnlyTouches(k, s)' <=> OnlyTouches(k, s)
    BY <2>1 DEF OnlyTouches, P!Touches, P!Given
  <2>4. \A e, k : ReadAs(e, k)' <=> ReadAs(e, k)
    BY <2>1, <2>3 DEF ReadAs
  <2>5. \A b : Bound(b)' <=> Bound(b)
    BY <2>1, <2>4 DEF Bound
  <2>6. P!Batches' = bs
    BY <1>21, SameForSuper DEF P!Batches, bs
  <2>. QED BY <1>25, <2>2, <2>5, <2>6 DEF BatchesBound
<1>. QED BY <1>1, <1>22, <1>23, <1>24, JobKeeps DEF Merged

LEMMA SuperKept ==
  ASSUME SuperInv, part = "super", part' = "super", P!Next, UNCHANGED faults
  PROVE  SuperInv'
<1>1. CASE P!Wrap
  BY <1>1, WrapKeeps
<1>2. CASE P!Edit
  BY <1>2, EditKeeps
<1>3. CASE P!Begin
  BY <1>3, BeginKeeps
<1>4. CASE P!Collect
  BY <1>4, CollectKeeps
<1>5. CASE P!Finish
  BY <1>5, FinishKeeps
<1>. QED BY <1>1, <1>2, <1>3, <1>4, <1>5 DEF P!Next

LEMMA SuperStutters == ASSUME SuperInv, UNCHANGED <<part, super, edits>> PROVE SuperInv'
<1>1. part = "super" => JobIs' /\ Merged'
  <2> SUFFICES ASSUME part = "super" PROVE JobIs' /\ Merged'
    OBVIOUS
  <2>1. units' = units /\ merging' = merging /\ wrappers' = wrappers /\ JobIs /\ Merged
    BY DEF SuperInv, super
  <2>2. DOMAIN wrappers' = DOMAIN wrappers /\ JobIs'
    BY <2>1 DEF JobIs
  <2>. QED BY <2>1, <2>2, MergedKept
<1>2. part' = part /\ UNCHANGED <<commands, authored, wrappers, overlay, units, merging, edits>>
  BY DEF super
<1>. QED BY <1>1, <1>2 DEF SuperInv, Inputs0, WrappersAre, UnitsAre, OnceWrapped

LEMMA SuperSteps == [NextAll]_all =>
    UNCHANGED part /\ (part = "super" => (P!Next /\ UNCHANGED faults) \/ UNCHANGED <<super, edits>>)
BY DEF NextAll, ActivationStep, CohortStep, SwitchStep, ChunksStep, SuperStep, ReceiptStep, HotStep, FullStep,
       RepairStep, ClangdStep, QueryStep, BatchStep, ToolStep, all, batches, tools, vars, environment, super

LEMMA SuperBegins == InitAll => SuperInv
<1> SUFFICES ASSUME InitAll, part = "super" PROVE SuperInv
  BY DEF SuperInv
<1>1. P!Init
  BY DEF InitAll
<1>2. Inputs0 /\ edits = 0 /\ merging = P!Idle /\ units = P!NoUnits /\ WrappersAre
  BY <1>1 DEF P!Init, Inputs0, WrappersAre
<1>3. UnitsAre /\ ~units.done
  <2>1. <<>> \in Seq({}) /\ units.entries = <<>>
    BY <1>2 DEF P!NoUnits
  <2>2. EntriesAre(units.entries)
    <3> DEFINE nobody == {}
    <3>1. units.entries \in Seq(nobody) /\ \A e \in nobody : IsEntry(e)
      BY <2>1
    <3> HIDE DEF nobody
    <3>. QED BY <3>1 DEF EntriesAre
  <2>. QED BY <1>2, <2>2 DEF UnitsAre, P!NoUnits
<1>4. OnceWrapped /\ JobIs /\ Merged
  BY <1>2, <1>3 DEF OnceWrapped, JobIs, Merged, FromWrappers, P!ClaimedOnce, BatchesBound
<1>. QED BY <1>2, <1>3, <1>4 DEF SuperInv

LEMMA SuperAlways == SpecAll => []SuperInv
<1>1. SuperInv /\ [NextAll]_all => SuperInv'
  <2> SUFFICES ASSUME SuperInv, [NextAll]_all PROVE SuperInv'
    OBVIOUS
  <2>1. part' = part
    BY SuperSteps
  <2>2. CASE part = "super"
    BY <2>1, <2>2, SuperSteps, SuperKept, SuperStutters
  <2>3. CASE part # "super"
    BY <2>1, <2>3 DEF SuperInv
  <2>. QED BY <2>2, <2>3
<1>. QED BY <1>1, SuperBegins, PTL DEF SpecAll

(* What was read alone is compiled alone, while it is what the files hold.  *)
LEMMA MergedIsCompiled == Merged => P!CompiledOnce
<1> SUFFICES ASSUME Merged, merging # P!Idle, merging.pc = "done", P!AsRead, NEW b \in P!Batches
             PROVE  /\ b.members = P!FoldLeft(\o, <<>>, [n \in DOMAIN b.originals |-> P!Contents(b.originals[n])])
                    /\ \A e \in ToSet(b.originals) : \A s \in ToSet(P!Contents(e)) :
                          Cardinality({k \in DOMAIN units.entries : P!Compiles(k, s)}) = 1
  BY SameForSuper DEF P!CompiledOnce, P!Given
<1>1. Bound(b)
  BY DEF Merged, BatchesBound
<1>2. ASSUME NEW k \in DOMAIN units.entries, units.entries[k].file \in DOMAIN wrappers
      PROVE  P!Contents(units.entries[k]) = merging.read[k]
  BY <1>2 DEF P!AsRead, P!IsWrapper, P!Given
<1>3. ASSUME NEW e \in ToSet(b.originals)
      PROVE  /\ P!Contents(e) = e.members
             /\ \A s \in ToSet(e.members) : Cardinality({k \in DOMAIN units.entries : P!Compiles(k, s)}) = 1
  <2>1. PICK k \in DOMAIN units.entries : ReadAs(e, k)
    BY <1>1 DEF Bound
  <2>2. P!Contents(e) = e.members
    BY <1>2, <2>1 DEF ReadAs
  <2>3. ASSUME NEW s \in ToSet(e.members) PROVE Cardinality({j \in DOMAIN units.entries : P!Compiles(j, s)}) = 1
    <3>1. ASSUME NEW j \in DOMAIN units.entries PROVE P!Compiles(j, s) => P!Touches(j, s)
      BY <1>2, SameForSuper DEF P!Compiles, P!Touches, P!Given, P!IsWrapper
    <3>2. P!Compiles(k, s)
      BY <2>1, <2>2, <2>3, SameForSuper DEF ReadAs, P!Compiles, P!Given, P!IsWrapper
    <3>3. \A j \in DOMAIN units.entries : P!Compiles(j, s) <=> j = k
      BY <2>1, <2>3, <3>1, <3>2 DEF ReadAs, OnlyTouches
    <3>4. {j \in DOMAIN units.entries : P!Compiles(j, s)} = {k}
      BY <2>1, <3>3
    <3>. QED BY <3>4, FS_Singleton
  <2>. QED BY <2>2, <2>3
<1>4. [n \in DOMAIN b.originals |-> P!Contents(b.originals[n])] = [n \in DOMAIN b.originals |-> b.originals[n].members]
  BY <1>3 DEF ToSet
<1>. QED BY <1>1, <1>3, <1>4 DEF Bound, Chained

LEMMA SuperIsExact == SuperInv /\ part = "super" => P!EveryCommandOnce
<1> SUFFICES ASSUME SuperInv, part = "super" PROVE P!WrappedOnce /\ P!ClaimedOnce /\ P!CompiledOnce
  BY DEF P!EveryCommandOnce
<1>1. Merged /\ OnceWrapped
  BY DEF SuperInv
<1>2. ASSUME units.done, edits = 0, NEW i \in DOMAIN commands
      PROVE  P!SumFunction([k \in {k \in DOMAIN units.entries : units.entries[k].context = commands[i].context} |->
                              P!Count(units.entries[k].members, commands[i].file)])
             = P!Cardinality({j \in DOMAIN commands : commands[j] = commands[i]})
  BY <1>1, <1>2, SameForSuper DEF OnceWrapped, Wrapped
<1>. QED BY <1>1, <1>2, MergedIsCompiled DEF P!WrappedOnce, P!Given, Merged

(* PackingIsExact: what is packed is packed once.  Whatever sources the     *)
(* unity files include, no command is wrapped twice or left out; whoever    *)
(* rewrites a wrapper before or after it is read, no source of a batch is   *)
(* named elsewhere by what was read, and as long as the wrapper files hold  *)
(* what was read of them the batch compiles what it names, and nobody else  *)
(* does; and a planned chunk, planned again, is itself.                     *)
THEOREM PackingIsAlwaysExact == SpecAll => []PackingIsExact
<1>1. ChunksInv /\ SuperInv => PackingIsExact
  BY ChunksAreExact, SuperIsExact DEF PackingIsExact
<1>. QED BY <1>1, ChunksAlways, SuperAlways, PTL
=============================================================================
