---------------------------- MODULE UnityReceipt ----------------------------
(***************************************************************************)
(* What the compile database remembers of a unity's authors                *)
(* (src/tools/cdb_unity_receipt.py): an export leaves an origin beside the *)
(* commands it writes, begin takes what still matches them into a pending  *)
(* file, the passes rewrite the commands, and seal makes the pending       *)
(* evidence the receipt of the commands they ended in.                     *)
(*                                                                         *)
(* Abstracted: one unity and one shader; a command is its author and the   *)
(* passes that rewrote it, and no pass touches the command of the shader,  *)
(* which reads the same whether the build or this code put it there.  A    *)
(* stage is copied and committed whole: how is CdbTransaction's.           *)
(***************************************************************************)
EXTENDS Naturals, FiniteSets

CONSTANTS Member,       \* the members of the unity
          Dependency,   \* the unity file and the response files it was read with
          Response,     \* the one of them the members' commands come from
          Passes, MaxEdits, MaxFaults

VARIABLES disk,   \* [Dependency -> version]
          edits, faults,
          files,  \* of the live database and of the stage: cdb, shader, origin, receipt
          run     \* the pipeline: where, at which step, its pending file
vars == <<disk, edits, faults, files, run>>

Idle == [step |-> "idle"]
Nothing == [groups |-> {}, shaders |-> {}]
Command(author, passed) == [author |-> author, passed |-> passed]
Hand == 0
Compiler == disk[Response] + 1

Init == /\ disk = [d \in Dependency |-> 0] /\ edits = 0 /\ faults = 0 /\ run = Idle
        /\ files = [p \in {"live", "stage"} |->
             [cdb |-> [m \in Member |-> Command(Hand, 0)], shader |-> "native",
              origin |-> {}, receipt |-> {}]]

Edit == /\ edits < MaxEdits /\ edits' = edits + 1
        /\ \E d \in Dependency : disk' = [disk EXCEPT ![d] = @ + 1]
        /\ UNCHANGED <<faults, files, run>>

(* A hand that rewrites the database does so between the runs.              *)
HandEdit == /\ run = Idle /\ edits < MaxEdits /\ edits' = edits + 1
            /\ \E m \in Member : files' = [files EXCEPT !["live"].cdb[m] = Command(Hand, 0)]
            /\ UNCHANGED <<disk, faults, run>>

-----------------------------------------------------------------------------
(* A document is the set of what it holds, and {} when there is no file.    *)
(* A group stands when its members' commands match exactly, unless the run  *)
(* that changed them vouches for it, and the bytes read with it, always.    *)
Vouched(document, cdb, matching) ==
    {[g EXCEPT !.commands = cdb] : g \in {h \in UNION {d.groups : d \in document} :
        (matching => h.commands = cdb) /\ h.dependencies = disk}}
Shaders(document) == UNION {d.shaders : d \in document}
LoadVerified(p) == Vouched(files[p].receipt, files[p].cdb, TRUE)

-----------------------------------------------------------------------------
(* An export into a fresh copy of the live files.  The compiler's own       *)
(* commands come with their unity when all of it was seen; imported ones    *)
(* come with the revocation of whatever was known before.                   *)
Export(files0, origin, author, shader) ==
    [files0 EXCEPT !["stage"] = [files0["live"] EXCEPT !.origin = {origin}, !.shader = shader,
        !.cdb = [m \in Member |-> Command(author, 0)]]]
Group == [commands |-> [m \in Member |-> Command(Compiler, 0)], dependencies |-> disk]
Begun(p) == [at |-> p, step |-> "begin", pass |-> 0, pending |-> {}]

ExportCompiler ==
    /\ run = Idle /\ run' = Begun("stage")
    /\ \E whole \in BOOLEAN, shader \in {"native", "synthetic"} :
          files' = Export(files, [groups |-> IF whole THEN {Group} ELSE {},
                                  shaders |-> {shader} \ {"native"}], Compiler, shader)
    /\ UNCHANGED <<disk, edits, faults>>
ExportImported ==
    /\ run = Idle /\ run' = Begun("stage")
    /\ files' = Export(files, Nothing, Hand, "native")
    /\ UNCHANGED <<disk, edits, faults>>
RunInPlace == /\ run = Idle /\ run' = Begun("live") /\ UNCHANGED <<disk, edits, faults, files>>

(* The steps of the pipeline, one process after the other: begin and seal   *)
(* when there is a document to carry.  A shader is carried only if a fresh  *)
(* origin does not say otherwise.                                           *)
Carried(f) == f.origin \cup f.receipt # {}
\* Fault seed: a fresh export does not revoke the shaders known before.
AdmissibleAlways(f, shader) == TRUE
Admissible(f, shader) == f.origin = {} \/ shader \in Shaders(f.origin)
Pending(f) ==
    LET fresh == Vouched(f.origin, f.cdb, TRUE)
    IN  [groups  |-> IF fresh # {} THEN fresh ELSE Vouched(f.receipt, f.cdb, TRUE),
         shaders |-> {s \in Shaders(f.origin) \cup Shaders(f.receipt) : Admissible(f, s)}]
Begin ==
    /\ run.step = "begin"
    /\ run' = [run EXCEPT !.step = "pass",
                 !.pending = IF Carried(files[run.at]) THEN {Pending(files[run.at])} ELSE {}]
    /\ UNCHANGED <<disk, edits, faults, files>>

Pass ==
    /\ run.step = "pass"
    /\ IF run.pass = Passes THEN run' = [run EXCEPT !.step = "seal"] /\ UNCHANGED files
       ELSE /\ run' = [run EXCEPT !.pass = @ + 1]
            /\ files' = [files EXCEPT ![run.at].cdb =
                 [m \in Member |-> IF @[m].passed > run.pass THEN @[m]
                                   ELSE [@[m] EXCEPT !.passed = run.pass + 1]]]
    /\ UNCHANGED <<disk, edits, faults>>

Seal ==
    /\ run.step = "seal" /\ run' = [run EXCEPT !.step = "done"]
    /\ files' = IF run.pending = {} THEN files
                ELSE [files EXCEPT ![run.at].receipt =
                   {[groups |-> Vouched(run.pending, files[run.at].cdb, FALSE),
                     shaders |-> Shaders(run.pending)]}]
    /\ UNCHANGED <<disk, edits, faults>>

Finish ==
    /\ run.step = "done" /\ run' = Idle
    /\ files' = [files EXCEPT !["live"] = files[run.at]]
    /\ UNCHANGED <<disk, edits, faults>>

(* A failing or killed step ends the run where it is: a stage is dropped, a *)
(* database rewritten in place stays as far as it got.                      *)
Fail == /\ run # Idle /\ run' = Idle /\ faults < MaxFaults /\ faults' = faults + 1
        /\ UNCHANGED <<disk, edits, files>>

Next == \/ Edit \/ HandEdit \/ ExportCompiler \/ ExportImported \/ RunInPlace
        \/ Begin \/ Pass \/ Seal \/ Finish \/ Fail
Spec == Init /\ [][Next]_vars

-----------------------------------------------------------------------------
(* A unity the receipt vouches for is the compiler's: every member has the  *)
(* command the files on disk gave it, taken through all the passes; and a   *)
(* shader is only left out of the index when this code put it there.        *)
EvidenceIsAuthored ==
    /\ LoadVerified("live") # {} =>
          files["live"].cdb = [m \in Member |-> Command(Compiler, Passes)]
    /\ Shaders(files["live"].receipt) # {} => files["live"].shader = "synthetic"
=============================================================================
