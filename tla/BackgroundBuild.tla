------------------------------ MODULE BackgroundBuild ------------------------------
(***************************************************************************)
(* The programs that build a phase's background database.  For the phases   *)
(* "current" and "hot" tools/build_clangd_index.py has a worker cut a       *)
(* subset out of the active database and builds from it; for "full"         *)
(* tools/build_full_cdb.py builds from a copy of the whole.  Both end with  *)
(* write_outputs_if_changed: three files that belong together are replaced  *)
(* one by one and put back if that fails.  The editor takes what a program  *)
(* that exits with 0 has made (lua/ue/index/_build.lua).                    *)
(*                                                                         *)
(* Abstracted: a database is the version of the active one that it was made *)
(* of, and whether its response files were expanded; proved batches are a   *)
(* version of the store; a marker is the database it counts.  Signatures of *)
(* different bytes differ, process ids are not used again, and no program   *)
(* outlives its editor beside another.  "current" goes as "hot" does.       *)
(***************************************************************************)
EXTENDS Naturals, Sequences

CONSTANTS Phase,     \* phases that are built: of "hot" and "full"
          MaxEdits,  \* rewritings of the active database, and new proofs
          MaxFaults  \* kills, steps that fail, file operations that fail

VARIABLES active,    \* version of the active database
          proofs,    \* version of the proof store
          subset,    \* the subset file
          stage,     \* what the staging directory of "hot" holds
          scratch,   \* what "full" leaves: its copy and the indexer's database
          outputs,   \* [phase -> [file -> content]]
          saved,     \* [phase -> [file -> contents in rollback files of ended programs]]
          last,      \* the outputs when they were last complete
          job,       \* the program that runs
          report, edits, faults
vars == <<active, proofs, subset, stage, scratch, outputs, saved, last, job, report, edits, faults>>
made == <<subset, stage, scratch>>
published == <<outputs, saved, last>>
world == <<active, proofs, edits>>

Output == {"background", "semantic", "marker"}
None == <<>>
NoFiles == [o \in Output |-> None]
Idle == [pc |-> "idle"]
Of(version, expanded) == [of |-> version, expanded |-> expanded]

Init == /\ active = 0 /\ proofs = 0
        /\ subset = "none" /\ stage = "none" /\ scratch = [active |-> "none", indexer |-> "none"]
        /\ outputs = [p \in Phase |-> NoFiles] /\ last = outputs
        /\ saved = [p \in Phase |-> [o \in Output |-> {}]]
        /\ job = Idle /\ report = "none" /\ edits = 0 /\ faults = 0

-----------------------------------------------------------------------------
Fault == faults < MaxFaults /\ faults' = faults + 1
Edit == /\ edits < MaxEdits /\ edits' = edits + 1
        /\ \/ active' = active + 1 /\ UNCHANGED proofs
           \/ proofs' = proofs + 1 /\ UNCHANGED active
        /\ UNCHANGED <<made, published, job, report, faults>>

At(phase, pc) == job # Idle /\ job.phase = phase /\ job.pc = pc
To(pc) == job' = [job EXCEPT !.pc = pc] /\ UNCHANGED report
Ends(status) == job' = Idle /\ report' = status
Quiet == UNCHANGED <<world, faults, published>>

(* A program that refuses its input or whose step fails ends before it has  *)
(* published anything; what it had made so far stays.                       *)
Refuses(phase, pcs) == /\ job # Idle /\ job.phase = phase /\ job.pc \in pcs /\ Ends("failed")
                       /\ UNCHANGED made /\ Quiet

(* The editor, which holds the writer lease, names the subset it wants, and *)
(* the signature of the database it is to be cut from.                      *)
Start(phase) ==
    /\ job = Idle
    /\ job' = [phase |-> phase, pc |-> IF phase = "hot" THEN "request" ELSE "copy",
               asked |-> active, before |-> active, read |-> Of(active, phase = "hot"),
               new |-> NoFiles, todo |-> <<>>, done |-> <<>>, backup |-> NoFiles]
    /\ UNCHANGED <<report, made>> /\ Quiet

-----------------------------------------------------------------------------
(* generate_subset and its worker, which looks at the signature before it   *)
(* reads, after it has written, and before it puts the subset in place.     *)
Remember == /\ At("hot", "request") /\ UNCHANGED <<report, made>> /\ Quiet
            /\ job' = [job EXCEPT !.before = active, !.pc = "begin"]
Checks == [begin |-> "cut", written |-> "compare", compare |-> "rename"]
CurrentInput == /\ job # Idle /\ job.pc \in DOMAIN Checks
                /\ IF active = job.asked THEN To(Checks[job.pc]) ELSE Ends("failed")
                /\ UNCHANGED made /\ Quiet
Cut == /\ At("hot", "cut") /\ UNCHANGED <<report, made>> /\ Quiet
       /\ job' = [job EXCEPT !.read = Of(active, TRUE), !.pc = "written"]
Rename == /\ At("hot", "rename") /\ To("taken") /\ subset' = job.read
          /\ UNCHANGED <<stage, scratch>> /\ Quiet
Taken == /\ At("hot", "taken") /\ (IF active = job.before THEN To("inputs") ELSE Ends("failed"))
         /\ UNCHANGED made /\ Quiet

(* build_clangd_index.py: the inputs are normalized and validated, the      *)
(* subset is staged and wrapped, and proved batches are taken over.         *)
HotInputs == At("hot", "inputs") /\ To("stage") /\ UNCHANGED made /\ Quiet
Stage == /\ At("hot", "stage") /\ To("wrap") /\ stage' = subset /\ UNCHANGED <<subset, scratch>> /\ Quiet
HotWrap == At("hot", "wrap") /\ To("batches") /\ UNCHANGED made /\ Quiet
Outcome(read) == [background |-> <<read, proofs>>, semantic |-> <<read>>, marker |-> <<read, proofs>>]
HotBatches == /\ At("hot", "batches") /\ UNCHANGED <<report, made>> /\ Quiet
              /\ job' = [job EXCEPT !.new = Outcome(stage), !.pc = "prepare"]
HotRefuses == Refuses("hot", {"request", "begin", "cut", "written", "compare", "rename", "taken", "inputs",
                            "stage", "wrap", "batches"})

(* build_full_cdb.py: the same from a private copy.  Response files that    *)
(* cannot be expanded are left in; the copy and the indexer's database are  *)
(* published on the way.                                                    *)
Copy == /\ At("full", "copy") /\ UNCHANGED <<report, made>> /\ Quiet
        /\ job' = [job EXCEPT !.asked = active, !.read = Of(active, FALSE), !.pc = "expand"]
Expand == /\ At("full", "expand") /\ UNCHANGED <<report, made, world, published>>
          /\ \/ job' = [job EXCEPT !.read.expanded = TRUE, !.pc = "inputs"] /\ UNCHANGED faults
             \/ job' = [job EXCEPT !.pc = "inputs"] /\ Fault
FullInputs == At("full", "inputs") /\ To("active") /\ UNCHANGED made /\ Quiet
WriteActive == /\ At("full", "active") /\ To("wrap") /\ scratch' = [scratch EXCEPT !.active = job.read]
               /\ UNCHANGED <<subset, stage>> /\ Quiet
FullWrap == At("full", "wrap") /\ To("indexer") /\ UNCHANGED made /\ Quiet
WriteIndexer == /\ At("full", "indexer") /\ To("batches") /\ scratch' = [scratch EXCEPT !.indexer = job.read]
                /\ UNCHANGED <<subset, stage>> /\ Quiet
FullBatches == /\ At("full", "batches") /\ UNCHANGED <<report, made>> /\ Quiet
               /\ job' = [job EXCEPT !.new = Outcome(job.read), !.pc = "prepare"]
FullRefuses == Refuses("full", {"inputs", "active", "wrap", "indexer", "batches"})

-----------------------------------------------------------------------------
(* write_outputs_if_changed: what differs is written beside its file and    *)
(* the file's bytes are saved; then the files are replaced in their order.  *)
Phased(pc) == job # Idle /\ job.pc = pc
Now == outputs[job.phase]
Differs(o) == Now[o] # job.new[o]
Changed(o) == IF Differs(o) THEN <<o>> ELSE <<>>
Files == Changed("background") \o Changed("semantic") \o Changed("marker")
Completed(now) == last' = [last EXCEPT ![job.phase] = now]
Saves(j, kept) == saved' = [saved EXCEPT ![j.phase] =
                     [o \in Output |-> @[o] \cup {j.backup[o] : x \in {o} \cap kept}]]
HasBackup(j) == {o \in Output : j.backup[o] # None}

Prepare ==
    /\ Phased("prepare") /\ UNCHANGED <<report, made, world, faults, outputs, saved>>
    /\ job' = [job EXCEPT !.pc = IF Files = <<>> THEN "tidy" ELSE "replace", !.todo = Files,
                 !.backup = [o \in Output |-> IF Differs(o) THEN Now[o] ELSE None]]
    /\ IF Files = <<>> THEN Completed(Now) ELSE UNCHANGED last
PrepareFails == /\ Phased("prepare") /\ Fault /\ Ends("failed")
                /\ UNCHANGED <<made, world, published>>

Replace ==
    /\ Phased("replace") /\ UNCHANGED <<report, made, world, saved, faults>>
    /\ LET o == job.todo[1]
           now == [Now EXCEPT ![o] = job.new[o]]
           over == Len(job.todo) = 1
       IN /\ outputs' = [outputs EXCEPT ![job.phase] = now]
          /\ job' = [job EXCEPT !.todo = Tail(@), !.done = <<o>> \o @,
                       !.pc = IF over THEN "tidy" ELSE "replace"]
          /\ IF over THEN Completed(now) ELSE UNCHANGED last
ReplaceFails == /\ Phased("replace") /\ Fault /\ To("rollback")
                /\ UNCHANGED <<made, world, published>>

(* The replaced files are put back, the last one first, until that fails    *)
(* too; the saved bytes of a file that could not be put back are kept.      *)
\* Fault seed: all rollback files go when the program fails.
EvidenceRemoved(j) == {}
Evidence(j) == HasBackup(j) \cap {j.done[i] : i \in DOMAIN j.done}
Rollback ==
    /\ Phased("rollback") /\ UNCHANGED <<made, world, last>>
    /\ \/ /\ job.done # <<>> /\ UNCHANGED <<report, saved, faults>>
          /\ LET o == job.done[1] IN
             /\ outputs' = [outputs EXCEPT ![job.phase][o] = job.backup[o]]
             /\ job' = [job EXCEPT !.done = Tail(@), !.backup[o] = None]
       \/ /\ job.done # <<>> => Fault
          /\ job.done = <<>> => UNCHANGED faults
          /\ Saves(job, Evidence(job)) /\ Ends("failed") /\ UNCHANGED outputs

(* After all are replaced the saved bytes go; one that cannot be removed    *)
(* makes the program fail.                                                  *)
Tidy == /\ Phased("tidy") /\ UNCHANGED <<made, world, outputs, last>>
        /\ \/ /\ job' = [job EXCEPT !.pc = "exit", !.backup = NoFiles]
              /\ UNCHANGED <<report, saved, faults>>
           \/ Fault /\ Saves(job, HasBackup(job)) /\ Ends("failed")

(* The editor looks at the active database once more before it takes a      *)
(* subset's outputs.                                                        *)
\* Fault seed: the outputs of a subset are taken as they come.
SignatureUnread == TRUE
SameSignature == active = job.asked
Exit == /\ Phased("exit") /\ UNCHANGED made /\ Quiet
        /\ Ends(IF job.phase = "hot" /\ ~SameSignature THEN "failed" ELSE "ready")

Killed == /\ job # Idle /\ Fault /\ Ends("killed") /\ Saves(job, HasBackup(job))
          /\ UNCHANGED <<made, world, outputs, last>>

-----------------------------------------------------------------------------
Hot == Remember \/ CurrentInput \/ Cut \/ Rename \/ Taken \/ HotInputs \/ Stage \/ HotWrap
       \/ HotBatches \/ HotRefuses
Full == Copy \/ Expand \/ FullInputs \/ WriteActive \/ FullWrap \/ WriteIndexer \/ FullBatches
        \/ FullRefuses
Publish == Prepare \/ PrepareFails \/ Replace \/ ReplaceFails \/ Rollback \/ Tidy \/ Exit
Next == Edit \/ (\E p \in Phase : Start(p)) \/ Hot \/ Full \/ Publish \/ Killed
Spec == Init /\ [][Next]_vars

-----------------------------------------------------------------------------
(* What the editor takes is one build's: its three files agree, and are of  *)
(* the active database as it was copied, for a subset as it is now.         *)
Agree(files) == files.marker = files.background /\ files.semantic = <<files.background[1]>>
TakenIsOne ==
    [][job # Idle /\ job' = Idle /\ report' = "ready" =>
         /\ Agree(outputs[job.phase])
         /\ outputs[job.phase].semantic[1].of = IF job.phase = "hot" THEN active ELSE job.asked]_vars

(* Failed and killed programs lose nothing: each file of the last complete  *)
(* outputs is in its place or in a rollback file, whatever came in between  *)
(* (write_outputs_if_changed: "do not delete its last saved baseline").     *)
Running(p, o) == IF job # Idle /\ job.phase = p THEN {job.backup[o]} ELSE {}
BaselineKept ==
    \A p \in Phase, o \in Output :
        last[p][o] \in {None, outputs[p][o]} \cup saved[p][o] \cup Running(p, o)
=============================================================================
