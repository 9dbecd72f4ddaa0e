------------------------------ MODULE QueryProfile ------------------------------
(***************************************************************************)
(* Which compiler driver clangd asks for its system includes               *)
(* (tools/clangd_query_profile.py), and how a proof of a batch and the      *)
(* later uses of its receipt are bound to that driver's bytes               *)
(* (tools/cdb_verified_batch.py).  observe runs clangd on one source until  *)
(* its log names the driver and its answer, asks the driver itself, and     *)
(* compares.  Between any two of these steps the source, clangd and the     *)
(* drivers may be replaced, and the token of the command may come to name   *)
(* another driver.                                                          *)
(*                                                                         *)
(* Abstracted: a file is its version, and no old version comes back; an     *)
(* answer stands for the includes, the target and the builtin directory.    *)
(* One entry and one tuple; the rest of the proof is StrictProof.           *)
(***************************************************************************)
EXTENDS Naturals, Sequences

CONSTANTS Drivers,    \* drivers that the token may name
          Gives,      \* [driver -> answers of its versions, from version 0]
          Supported,  \* {<<file, version>>} with a version text that is reviewed
          MaxEdits

VARIABLES disk,      \* [files -> version]
          resolves,  \* the driver that the token names now
          lookup,    \* PATH and PATHEXT of the process, a version
          clangd,    \* the clangd that an observation runs, and the log's reader
          query,     \* the observation
          check,     \* what the observation is made for
          receipt,   \* the accepted proof that is stored
          served,    \* uses of the receipt that were let through
          edits
vars == <<disk, resolves, lookup, clangd, query, check, receipt, served, edits>>
world == <<disk, resolves, lookup, edits>>

None == <<>>
Files == {"source", "clangd"} \cup Drivers
Answer(d) == Gives[d][disk[d] + 1]
NoClangd == [state |-> "none", log |-> <<>>, read |-> 0, seen |-> FALSE]
NoQuery == [pc |-> "idle"]
Idle == [for |-> "nothing"]
Init == /\ disk = [f \in Files |-> 0] /\ resolves \in Drivers /\ lookup = 0
        /\ clangd = NoClangd /\ query = NoQuery /\ check = Idle
        /\ receipt = None /\ served = {} /\ edits = 0

(* Others: a file is replaced, a driver comes to lie in front of the one    *)
(* that was found, or the next process has another PATH.                    *)
Edit == /\ edits < MaxEdits /\ edits' = edits + 1
        /\ \/ /\ \E f \in Files : disk' = [disk EXCEPT ![f] = @ + 1]
              /\ UNCHANGED <<resolves, lookup>>
           \/ /\ resolves' \in Drivers \ {resolves} /\ UNCHANGED disk
              /\ lookup' \in {lookup} \cup (IF check = Idle THEN {lookup + 1} ELSE {})
        /\ UNCHANGED <<clangd, query, check, receipt, served>>

-----------------------------------------------------------------------------
(* observe, up to the start of clangd. *)
At(pc) == query # NoQuery /\ query.pc = pc
Go(pc) == query' = [query EXCEPT !.pc = pc]
Refuse == query' = [pc |-> "refused"]
rest == <<world, check, receipt, served>>

Observe == query' = [pc |-> "version", source |-> disk["source"], clangd |-> disk["clangd"],
                     lookup |-> lookup, driver |-> None, observed |-> None, hash |-> None,
                     answer |-> None, left |-> None]
ClangdVersion ==
    /\ At("version") /\ UNCHANGED <<rest, clangd>>
    /\ IF <<"clangd", disk["clangd"]>> \in Supported THEN Go("launch") ELSE Refuse
Launch == At("launch") /\ Go("run") /\ UNCHANGED rest
          /\ clangd' = [NoClangd EXCEPT !.state = "running"]

(* clangd resolves the token, runs that driver and logs its answer; it logs *)
(* the command it has made of it, or that it fell back; it may just end.    *)
Log(line) == /\ clangd.state = "running" /\ UNCHANGED <<rest, query>>
             /\ clangd' = [clangd EXCEPT !.log = Append(@, line)]
Logged(kind) == \E k \in DOMAIN clangd.log : clangd.log[k][1] = kind
Extract == ~Logged("driver") /\ ~Logged("command") /\ Log(<<"driver", resolves, Answer(resolves)>>)
LogCommand == ~Logged("command") /\ Log(<<"command">>)
FallBack == clangd.log = <<>> /\ Log(<<"fallback">>)
Exit == /\ clangd.state = "running" /\ clangd' = [clangd EXCEPT !.state = "ended"]
        /\ UNCHANGED <<rest, query>>

(* The reader writes what it reads, and ends clangd at the command or at a  *)
(* fallback.                                                                *)
Reading == clangd.read < Len(clangd.log)
           /\ ~\E k \in 1..clangd.read : clangd.log[k][1] \in {"command", "fallback"}
ReadLine == /\ At("run") /\ Reading /\ UNCHANGED <<rest, query>>
            /\ LET line == clangd.log[clangd.read + 1][1] IN
               clangd' = [clangd EXCEPT !.read = @ + 1, !.seen = @ \/ line = "command",
                            !.state = IF line = "driver" THEN @ ELSE "ended"]

(* clangd has ended and so has the reader: without the command there is     *)
(* nothing to go by.                                                        *)
Waited == /\ At("run") /\ clangd.state = "ended" /\ ~Reading /\ UNCHANGED <<rest, clangd>>
          /\ IF clangd.seen THEN Go("parse") ELSE Refuse

(* A step takes too long, the reader does not end, a process fails.         *)
GiveUp == /\ query # NoQuery /\ query.pc \notin {"refused", "done"} /\ UNCHANGED rest
          /\ Refuse /\ clangd' = NoClangd

-----------------------------------------------------------------------------
(* observe, from the log on: one driver, its hash, its version, the same    *)
(* answer out of its own mouth; and nothing replaced meanwhile.             *)
Written == {k \in 1..clangd.read : clangd.log[k][1] = "driver"}
Parse == /\ At("parse") /\ UNCHANGED rest /\ clangd' = NoClangd
         /\ \/ \E k \in Written :
                  /\ Written = {k}
                  /\ query' = [query EXCEPT !.pc = "hash", !.driver = clangd.log[k][2],
                                           !.observed = clangd.log[k][3]]
            \/ (\A k \in Written : Written # {k}) /\ Refuse
HashDriver == /\ At("hash") /\ UNCHANGED <<rest, clangd>>
              /\ query' = [query EXCEPT !.pc = "profile", !.hash = disk[query.driver]]
DriverVersion ==
    /\ At("profile") /\ UNCHANGED <<rest, clangd>>
    /\ IF <<query.driver, disk[query.driver]>> \in Supported THEN Go("query") ELSE Refuse
QueryDriver == /\ At("query") /\ UNCHANGED <<rest, clangd>>
               /\ query' = [query EXCEPT !.pc = "builtin", !.answer = Answer(query.driver)]
QueryBuiltin ==
    /\ At("builtin") /\ UNCHANGED <<rest, clangd>>
    /\ IF query.answer = query.observed /\ Answer(query.driver) = query.observed
       THEN query' = [query EXCEPT !.pc = "rehash", !.left = <<"clangd", "driver", "source">>]
       ELSE Refuse
\* Fault seed: what ran the query is not looked at again.
SameBut(which) == which = "driver" \/ disk[which] = query[which]
Same(which) == IF which = "driver" THEN disk[query.driver] = query.hash ELSE disk[which] = query[which]
Evidence == [f \in {"driver", "hash", "answer", "clangd", "source", "lookup"} |-> query[f]]
Rehash ==
    /\ At("rehash") /\ UNCHANGED <<rest, clangd>>
    /\ IF ~Same(Head(query.left)) THEN Refuse
       ELSE IF Len(query.left) > 1 THEN query' = [query EXCEPT !.left = Tail(@)]
       ELSE query' = [pc |-> "done", evidence |-> Evidence]

-----------------------------------------------------------------------------
(* A proof: observe, index an original and the candidate and compare their  *)
(* effective commands, look at the bytes, observe again; and once more at   *)
(* the end of the run.                                                      *)
outside == <<world, clangd>>
For(why) == check # Idle /\ check.for = why
Begin(why, asked) == check' = [for |-> why, asked |-> asked] /\ Observe
Fail == check' = Idle /\ query' = NoQuery
Holds(e) == disk[e.driver] = e.hash /\ disk["source"] = e.source
Prove ==
    /\ check = Idle /\ Begin("observe", None) /\ UNCHANGED <<outside, receipt, served>>
    /\ receipt # None => LET e == receipt.evidence IN
          e.clangd # disk["clangd"] \/ (e.lookup = lookup /\ ~Holds(e))
Observed == /\ At("done") /\ For("observe") /\ UNCHANGED <<outside, receipt, served>>
            /\ query' = NoQuery
            /\ check' = [for |-> "index", asked |-> query.evidence, ran |-> {}, left |-> 2]

(* What an index ran with, of which its command shows driver and answer.    *)
Effective(ran, e) == ran.driver = e.driver /\ ran.answer = e.answer
Index ==
    /\ For("index") /\ check.left > 0 /\ UNCHANGED <<outside, receipt, served>>
    /\ LET ran == [driver |-> resolves, hash |-> disk[resolves], answer |-> Answer(resolves),
                   clangd |-> disk["clangd"], source |-> disk["source"]]
       IN IF Effective(ran, check.asked)
          THEN check' = [check EXCEPT !.ran = @ \cup {ran}, !.left = @ - 1] /\ UNCHANGED query
          ELSE Fail
ProofFails == For("index") /\ Fail /\ UNCHANGED <<outside, receipt, served>>
Revalidate == /\ For("index") /\ check.left = 0 /\ UNCHANGED <<outside, receipt, served>>
              /\ IF Holds(check.asked) THEN Observe /\ check' = [check EXCEPT !.for = "accept"]
                 ELSE Fail

(* Uses of the receipt: the activation rediscovers the driver; a prepare    *)
(* does if PATH is another than then, and proves anew if it does not agree. *)
Identity(e) == [f \in DOMAIN e \ {"lookup"} |-> e[f]]
Agrees == At("done") /\ Identity(query.evidence) = Identity(check.asked)
Lost == IF For("again") THEN Begin("observe", None) ELSE Fail
Refused == At("refused") /\ Lost /\ UNCHANGED <<outside, receipt, served>>
Differs == /\ At("done") /\ ~For("observe") /\ ~Agrees /\ Lost
           /\ UNCHANGED <<outside, receipt, served>>
Accept == /\ For("accept") /\ Agrees /\ UNCHANGED <<outside, served>>
          /\ receipt' = [evidence |-> check.asked, ran |-> check.ran]
          /\ Begin("final", check.asked)
Let(why) == served' = served \cup {why}
Republish ==
    /\ check = Idle /\ receipt # None /\ UNCHANGED <<outside, receipt>>
    /\ LET e == receipt.evidence IN
       /\ e.clangd = disk["clangd"]
       /\ IF e.lookup # lookup THEN Begin("again", e) /\ UNCHANGED served
          ELSE Holds(e) /\ Let("again") /\ UNCHANGED <<check, query>>
Again == /\ For("again") /\ Agrees /\ UNCHANGED <<outside, receipt, served>>
         /\ IF Holds(check.asked) THEN Begin("confirm", check.asked) ELSE Lost
Confirm == /\ For("confirm") /\ Agrees /\ Begin("final", check.asked)
           /\ UNCHANGED <<outside, receipt, served>>
Activate == /\ check = Idle /\ receipt # None /\ UNCHANGED <<outside, receipt, served>>
            /\ receipt.evidence.clangd = disk["clangd"] /\ Holds(receipt.evidence)
            /\ Begin("activate", receipt.evidence)
LetThrough == /\ (For("final") \/ For("activate")) /\ Agrees
              /\ Let(check.for) /\ Fail /\ UNCHANGED <<outside, receipt>>

-----------------------------------------------------------------------------
Next == \/ Edit \/ ClangdVersion \/ Launch \/ Extract \/ LogCommand \/ FallBack \/ Exit \/ ReadLine
        \/ Waited \/ GiveUp \/ Parse \/ HashDriver \/ DriverVersion \/ QueryDriver \/ QueryBuiltin
        \/ Rehash \/ Prove \/ Observed \/ Index \/ ProofFails \/ Revalidate \/ Refused \/ Differs
        \/ Accept \/ Republish \/ Again \/ Confirm \/ Activate \/ LetThrough
Spec == Init /\ [][Next]_vars

-----------------------------------------------------------------------------
(* Evidence is of one driver: the bytes it names are reviewed and gave the  *)
(* answer it records, although the driver is read and run at six moments;   *)
(* and an accepted proof was indexed with exactly these bytes.              *)
Held == {e \in {IF At("done") THEN query.evidence ELSE None,
                IF check # Idle THEN check.asked ELSE None,
                IF receipt # None THEN receipt.evidence ELSE None} : e # None}
OneDriver ==
    /\ \A e \in Held : /\ Gives[e.driver][e.hash + 1] = e.answer
                       /\ {<<e.driver, e.hash>>, <<"clangd", e.clangd>>} \subseteq Supported
    /\ receipt # None => \A ran \in receipt.ran :
          \A f \in DOMAIN ran : ran[f] = receipt.evidence[f]
=============================================================================
