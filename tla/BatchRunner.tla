------------------------------ MODULE BatchRunner ------------------------------
(***************************************************************************)
(* One private run of clangd over a small database                          *)
(* (tools/clangd_batch_runner.py): it is started, told to open a trigger,   *)
(* and watched while its background index makes the shards of the mains;    *)
(* then it is shut down and a report is written.  Two threads read its      *)
(* output: progress and replies from stdout, what was compiled and what     *)
(* failed from stderr; neither keeps up with the other, and the runner      *)
(* waits for them only so long.  The cohort takes a report only if          *)
(* _cohort_run_clean says so (cdb_verified_batch.py).                       *)
(*                                                                         *)
(* Abstracted: encodings, logs, metrics and times; a wait may end early.    *)
(***************************************************************************)
EXTENDS Naturals, Sequences, FiniteSets

CONSTANTS Mains,
          Evidence,   \* require_main_evidence: the way the cohort runs it
          MaxFaults

VARIABLES clangd,    \* the process: state, exit code, mains to do, the one at work
          ran,       \* what became of each main in this process
          stored,    \* mains that have a shard
          stdout, stderr,
          seen,      \* what the reader threads have seen, and whether they ended
          messages,  \* queued for the runner
          runner,
          result,    \* the report
          runFaults
vars == <<clangd, ran, stored, stdout, stderr, seen, messages, runner, result, runFaults>>
process == <<clangd, ran, stored, stdout, stderr>>
observers == <<seen, messages>>

Reading == "reading"
NoReport == [status |-> "none"]
Init ==
    /\ clangd = [state |-> "none", exit |-> 0, todo |-> {}, at |-> {}, fresh |-> Mains]
    /\ ran = [m \in Mains |-> "no"]
    /\ stored \in IF Evidence THEN {{}} ELSE SUBSET Mains
    /\ stdout = <<>> /\ stderr = <<>>
    /\ seen = [progress |-> <<>>, mains |-> <<>>, failures |-> 0, out |-> Reading, err |-> Reading]
    /\ messages = <<>>
    /\ runner = [pc |-> "start", initialized |-> FALSE, ended |-> FALSE, complete |-> FALSE,
                 response |-> FALSE]
    /\ result = NoReport /\ runFaults = 0

-----------------------------------------------------------------------------
(* clangd, as far as the runner relies on it.  Progress begins when there   *)
(* is work and ends when there is none; a line is logged before its shard   *)
(* is stored.  It may fail a main, with or without a shard, or crash.       *)
Up == clangd.state \notin {"none", "exited"}
Fault == runFaults < MaxFaults /\ runFaults' = runFaults + 1
Stable == UNCHANGED <<observers, runner, result>>
Works == Stable /\ UNCHANGED runFaults
Says(message) == stdout' = Append(stdout, message)

Initialized == /\ clangd.state = "asked" /\ clangd' = [clangd EXCEPT !.state = "ready"]
               /\ Says("initialize") /\ Works /\ UNCHANGED <<ran, stored, stderr>>
Enqueue == /\ clangd.state = "opened" /\ clangd.fresh # {}
           /\ \E ms \in SUBSET clangd.fresh \ {{}} :
                 clangd' = [clangd EXCEPT !.todo = @ \cup ms, !.fresh = @ \ ms]
           /\ IF clangd.todo = {} /\ clangd.at = {} THEN Says("begin") ELSE UNCHANGED stdout
           /\ Works /\ UNCHANGED <<ran, stored, stderr>>
Compile(m, lines, outcome) ==
    /\ Up /\ clangd.at = {} /\ m \in clangd.todo
    /\ ran' = [ran EXCEPT ![m] = outcome] /\ stderr' = stderr \o lines
    /\ clangd' = [clangd EXCEPT !.todo = @ \ {m}, !.at = {m}]
    /\ Stable /\ UNCHANGED <<stored, stdout>>
Line(kind, m) == [kind |-> kind, main |-> m]
Compiles == \E m \in Mains :
    \/ Compile(m, <<Line("indexed", m)>>, "ok") /\ UNCHANGED runFaults
    \/ Compile(m, <<Line("indexed", m), Line("failed", m)>>, "failed") /\ Fault
    \/ Compile(m, <<Line("failed", m)>>, "aborted") /\ Fault
Store == /\ Up /\ clangd.at # {} /\ clangd' = [clangd EXCEPT !.at = {}]
         /\ stored' = stored \cup {m \in clangd.at : ran[m] # "aborted"}
         /\ IF clangd.todo = {} THEN Says("end") ELSE UNCHANGED stdout
         /\ Works /\ UNCHANGED <<ran, stderr>>
ShutDown == /\ clangd.state = "stopping" /\ clangd' = [clangd EXCEPT !.state = "stopped"]
            /\ Says("shutdown") /\ Works /\ UNCHANGED <<ran, stored, stderr>>
Exits == /\ clangd.state = "exiting" /\ clangd' = [clangd EXCEPT !.state = "exited"]
         /\ Works /\ UNCHANGED <<ran, stored, stdout, stderr>>
Crashes == /\ Up /\ Fault /\ clangd' = [clangd EXCEPT !.state = "exited", !.exit = 1]
           /\ Stable /\ UNCHANGED <<ran, stored, stdout, stderr>>
Clangd == Initialized \/ Enqueue \/ Compiles \/ Store \/ ShutDown \/ Exits \/ Crashes

-----------------------------------------------------------------------------
(* The readers.  Each ends with its stream, or with an error.               *)
ReadStdout ==
    /\ seen.out = Reading /\ stdout # <<>> /\ stdout' = Tail(stdout)
    /\ messages' = Append(messages, stdout[1])
    /\ seen' = IF stdout[1] \in {"begin", "end"} THEN [seen EXCEPT !.progress = Append(@, stdout[1])]
               ELSE seen
    /\ UNCHANGED <<clangd, ran, stored, stderr, runner, result, runFaults>>
ReadStderr ==
    /\ seen.err = Reading /\ stderr # <<>> /\ stderr' = Tail(stderr)
    /\ seen' = IF stderr[1].kind = "indexed" THEN [seen EXCEPT !.mains = Append(@, stderr[1].main)]
               ELSE [seen EXCEPT !.failures = @ + 1]
    /\ UNCHANGED <<clangd, ran, stored, stdout, messages, runner, result, runFaults>>
ReaderEnds ==
    /\ clangd.state = "exited"
    /\ \/ seen.out = Reading /\ stdout = <<>> /\ seen' = [seen EXCEPT !.out = "eof"]
       \/ seen.err = Reading /\ stderr = <<>> /\ seen' = [seen EXCEPT !.err = "eof"]
    /\ UNCHANGED <<process, messages, runner, result, runFaults>>
ReaderFails ==
    /\ clangd.state # "none" /\ Fault
    /\ \/ /\ seen.out = Reading /\ seen' = [seen EXCEPT !.out = "error"]
          /\ messages' = Append(messages, "error")
       \/ seen.err = Reading /\ seen' = [seen EXCEPT !.err = "error"] /\ UNCHANGED messages
    /\ UNCHANGED <<process, runner, result>>

-----------------------------------------------------------------------------
(* _background_progress: begins and ends in pairs, one after the other.     *)
Paired(progress) == /\ Len(progress) > 0 /\ progress[Len(progress)] = "end"
                    /\ \A i \in DOMAIN progress : progress[i] = IF i % 2 = 1 THEN "begin" ELSE "end"

SeenMains == {seen.mains[i] : i \in DOMAIN seen.mains}
Witnessed == ~Evidence \/ (Paired(seen.progress) /\ Mains \subseteq SeenMains)

(* run: the loop that waits for the index.                                  *)
Runs(r) == runner' = r /\ UNCHANGED <<ran, stored, stdout, stderr, seen, result, runFaults>>
Spawn == /\ runner.pc = "start" /\ Runs([runner EXCEPT !.pc = "index"])
         /\ clangd' = [clangd EXCEPT !.state = "asked"] /\ UNCHANGED messages
Take ==
    /\ runner.pc = "index" /\ Up /\ messages # <<>> /\ messages' = Tail(messages)
    /\ LET opens == messages[1] = "initialize" /\ ~runner.initialized IN
       /\ clangd' = IF opens THEN [clangd EXCEPT !.state = "opened"] ELSE clangd
       /\ Runs([runner EXCEPT !.initialized = @ \/ opens, !.ended = @ \/ messages[1] = "end"])

(* Some time after an end: are the shards of all mains there?               *)
Complete == /\ runner.pc = "index" /\ Up /\ runner.ended
            /\ Witnessed /\ Mains \subseteq stored
            /\ Runs([runner EXCEPT !.pc = "shutdown", !.complete = TRUE])
            /\ UNCHANGED <<clangd, messages>>
GiveUp == /\ runner.pc = "index" /\ Runs([runner EXCEPT !.pc = "shutdown"])
          /\ UNCHANGED <<clangd, messages>>

(* The shutdown: asked, answered in time or not, told to exit, or killed.   *)
AskShutdown ==
    /\ runner.pc = "shutdown" /\ UNCHANGED messages
    /\ IF Up THEN /\ Runs([runner EXCEPT !.pc = "answer"])
                  /\ clangd' = [clangd EXCEPT !.state = "stopping"]
       ELSE Runs([runner EXCEPT !.pc = "join"]) /\ UNCHANGED clangd
TakeAnswer == /\ runner.pc = "answer" /\ messages # <<>> /\ messages' = Tail(messages)
              /\ Runs(IF messages[1] = "shutdown" THEN [runner EXCEPT !.pc = "exit", !.response = TRUE]
                      ELSE runner)
              /\ UNCHANGED clangd
NoAnswer == /\ runner.pc = "answer" /\ Runs([runner EXCEPT !.pc = "exit"]) /\ UNCHANGED <<clangd, messages>>
AskExit == /\ runner.pc = "exit" /\ UNCHANGED messages
           /\ Runs([runner EXCEPT !.pc = "leave"])
           /\ clangd' = IF Up THEN [clangd EXCEPT !.state = "exiting"] ELSE clangd
Reap == /\ runner.pc = "leave" /\ UNCHANGED messages
        /\ Runs([runner EXCEPT !.pc = "join"])
        /\ clangd' \in (IF Up THEN {[clangd EXCEPT !.state = "exited", !.exit = 1]} ELSE {clangd})

(* The readers are waited for, but not for ever; then what they have seen   *)
(* so far is the report.                                                    *)
Joined == seen.out # Reading /\ seen.err # Reading
Report ==
    /\ runner.pc = "join" /\ runner' = [runner EXCEPT !.pc = "done"]
    /\ result' = [status |-> "run", complete |-> runner.complete, response |-> runner.response,
                  exit |-> clangd.exit, failures |-> seen.failures, progress |-> seen.progress,
                  mains |-> seen.mains, missing |-> Mains \ stored,
                  joined |-> Joined, out |-> seen.out, err |-> seen.err]
    /\ UNCHANGED <<process, observers, runFaults>>

Runner == \/ Spawn \/ Take \/ Complete \/ GiveUp \/ AskShutdown \/ TakeAnswer \/ NoAnswer \/ AskExit
          \/ Reap \/ Report
Next == Clangd \/ ReadStdout \/ ReadStderr \/ ReaderEnds \/ ReaderFails \/ Runner
Spec == Init /\ [][Next]_vars

-----------------------------------------------------------------------------
(* background_compile_success, and what the cohort asks beyond it:          *)
(* _cohort_run_clean, and each main compiled once.                          *)
Success(r) == r.complete /\ r.exit = 0 /\ r.failures = 0
\* Fault seed: a reader that is behind does not matter.
ObserversLeft(r) == TRUE
ObserversEnded(r) == r.joined /\ r.out = "eof" /\ r.err = "eof"
Clean(r) == /\ Success(r) /\ r.response /\ r.missing = {} /\ Paired(r.progress)
            /\ ObserversEnded(r)
Once(r) == \A m \in Mains : Cardinality({i \in DOMAIN r.mains : r.mains[i] = m}) = 1
Accepted == result # NoReport /\ Evidence /\ Clean(result) /\ Once(result)

(* A run that the cohort accepts compiled every main itself, none of them   *)
(* with an error, stored all their shards and is over: nothing that a       *)
(* reader had not read yet says otherwise (run, _cohort_run_clean).         *)
AcceptedIsProved ==
    Accepted => /\ \A m \in Mains : ran[m] = "ok" /\ m \in stored
                /\ clangd.state = "exited" /\ stderr = <<>>
=============================================================================
