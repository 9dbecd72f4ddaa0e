------------------------------- MODULE FileLock -------------------------------
(***************************************************************************)
(* The cross-process writer lease of lua/ue/file_lock.lua, one file-system *)
(* call per step.  Several Neovim processes contend for one lease path.    *)
(*                                                                         *)
(* acquire writes its owner record into a private directory and publishes  *)
(* it with one rename; when the path is taken it reads the owner record,   *)
(* refuses if that owner lives, otherwise unlinks the record it READ (its  *)
(* name holds the token) and rmdirs the path, which fails while a record   *)
(* is in it, and tries the rename once more.  Lua runs one call at a time  *)
(* in a process, so a process has one program counter; processes           *)
(* interleave at every step, crash at any step, and come back under the    *)
(* same PID.                                                               *)
(***************************************************************************)
EXTENDS Naturals

CONSTANTS
  Proc,           \* PIDs of the Neovim processes
  Serial,         \* distinguishes the tokens one PID draws (hrtime and random)
  Junk,           \* the name of a record that does not parse (legacy, torn)
  None,           \* no name
  ReplacesEmpty,  \* rename onto an empty directory succeeds (POSIX) or not (Windows)
  MaxFaults       \* bound: crashes and failing file-system calls

Token == Proc \X Serial
Name == Token \cup {Junk}
Pid(t) == t[1]    \* the pid field of the record named by token t

ASSUME NamesDiffer == Junk \notin Token /\ None \notin Name
ASSUME PlatformIsKnown == ReplacesEmpty \in BOOLEAN
ASSUME FaultBound == MaxFaults \in Nat

VARIABLES
  present,   \* the lease path is a directory
  files,     \* the records in it
  staged,    \* tokens whose `path.pending.<token>` directory is on disk
  alive,     \* alive[p]: a process runs under PID p
  pc,        \* pc[p]: the call p makes next
  attempt,   \* attempt[p]: the turn of acquire's loop (line 98)
  token,     \* token[p]: the token acquire drew, or release was handed
  observed,  \* observed[p]: the record name read_owner picked
  handles,   \* handles[p]: leases p was granted and can still pass to release
  inUse,     \* leases granted, not yet passed to release, of running processes
  faults     \* crashes and failed calls so far

disk == <<present, files, staged>>
proc == <<pc, attempt, token, observed>>
vars == <<disk, alive, proc, handles, inUse, faults>>

Calls == {"idle", "write", "rename", "scan", "open", "probe", "unknown", "unlink", "rmdir",
          "relscan", "relopen", "relunlink", "relrmdir"}

Init ==
  /\ \/ present = FALSE /\ files = {}
     \/ present = TRUE /\ files \in {{}} \cup {{n} : n \in Name}
  /\ staged = {}
  /\ alive = [p \in Proc |-> TRUE]
  /\ pc = [p \in Proc |-> "idle"]
  /\ attempt = [p \in Proc |-> 1]
  /\ token = [p \in Proc |-> None]
  /\ observed = [p \in Proc |-> None]
  /\ handles = [p \in Proc |-> {}]
  /\ inUse = {}
  /\ faults = 0

\* A token is never drawn twice: one that nothing refers to stands for a new one.
Fresh(t) ==
  /\ t \notin staged \cup files \cup inUse
  /\ \A q \in Proc : t \notin handles[q] /\ token[q] # t /\ observed[q] # t

Goto(p, from, to) == pc[p] = from /\ pc' = [pc EXCEPT ![p] = to]

\* A call of p returns: its locals are gone.
Return(p) ==
  /\ pc' = [pc EXCEPT ![p] = "idle"]
  /\ attempt' = [attempt EXCEPT ![p] = 1]
  /\ token' = [token EXCEPT ![p] = None]
  /\ observed' = [observed EXCEPT ![p] = None]

Fault == faults < MaxFaults /\ faults' = faults + 1

\* acquire draws a token and makes the staging directory.
Begin(p) ==
  /\ alive[p] /\ Goto(p, "idle", "write")
  /\ \E n \in Serial :
       /\ Fresh(<<p, n>>)
       /\ token' = [token EXCEPT ![p] = <<p, n>>]
       /\ staged' = staged \cup {<<p, n>>}
  /\ UNCHANGED <<present, files, alive, attempt, observed, handles, inUse, faults>>

\* write_owner; when it fails discard_staged removes the private directory.
WriteOwner(p) ==
  /\ \/ Goto(p, "write", "rename") /\ UNCHANGED <<staged, attempt, token, observed, faults>>
     \/ /\ pc[p] = "write" /\ Fault /\ Return(p)
        /\ staged' = staged \ {token[p]}
  /\ UNCHANGED <<present, files, alive, handles, inUse>>

Free == ~present \/ (files = {} /\ ReplacesEmpty)

\* fs_rename(staged, path) succeeds: acquire returns the handle.
Publish(p) ==
  /\ pc[p] = "rename" /\ Free
  /\ present' = TRUE
  /\ files' = {token[p]}
  /\ staged' = staged \ {token[p]}
  /\ handles' = [handles EXCEPT ![p] = @ \cup {token[p]}]
  /\ inUse' = inUse \cup {token[p]}
  /\ Return(p)
  /\ UNCHANGED <<alive, faults>>

\* fs_rename fails, because the path is taken or otherwise: read_owner follows.
Taken(p) ==
  /\ Goto(p, "rename", "scan")
  /\ \/ ~Free /\ UNCHANGED faults
     \/ Fault
  /\ UNCHANGED <<disk, alive, attempt, token, observed, handles, inUse>>

\* read_owner scans the directory for a record name.
PickName(p, from, to) ==
  /\ Goto(p, from, to)
  /\ \E n \in IF files = {} THEN {None} ELSE files : observed' = [observed EXCEPT ![p] = n]
  /\ UNCHANGED <<disk, alive, attempt, token, handles, inUse, faults>>

Readable(n) == n \in files /\ n # Junk

\* read_owner opens, reads and parses the record it picked.
Scan(p) == PickName(p, "scan", "open")
Open(p) ==
  /\ \/ Readable(observed[p]) /\ Goto(p, "open", "probe") /\ UNCHANGED faults
     \/ ~Readable(observed[p]) /\ Goto(p, "open", "unknown") /\ UNCHANGED faults
     \/ Readable(observed[p]) /\ Goto(p, "open", "unknown") /\ Fault
  /\ UNCHANGED <<disk, alive, attempt, token, observed, handles, inUse>>

\* acquire gives up: discard_staged, and an error to the caller.
Refuse(p) == staged' = staged \ {token[p]} /\ Return(p)

\* Fault seed: the record's age is trusted, the owner is not probed.
ProbeSkipped(p) ==
  /\ Goto(p, "probe", "unlink")
  /\ UNCHANGED <<disk, alive, attempt, token, observed, handles, inUse, faults>>

\* process_alive on the owner just read.
Probe(p) ==
  /\ \/ pc[p] = "probe" /\ alive[Pid(observed[p])] /\ Refuse(p)
     \/ /\ Goto(p, "probe", "unlink") /\ ~alive[Pid(observed[p])]
        /\ UNCHANGED <<staged, attempt, token, observed>>
  /\ UNCHANGED <<present, files, alive, handles, inUse, faults>>

\* No owner was read: recent_unknown_owner refuses a directory that exists and
\* is younger than five seconds (its age is left open here).
ProbeUnknown(p) ==
  /\ \/ pc[p] = "unknown" /\ present /\ Refuse(p)
     \/ Goto(p, "unknown", "rmdir") /\ UNCHANGED <<staged, attempt, token, observed>>
  /\ UNCHANGED <<present, files, alive, handles, inUse, faults>>

\* Fault seed: a fixed record name, whoever's record it is by now.
UnlinkFixedName(p) ==
  /\ Goto(p, "unlink", "rmdir")
  /\ files' = {}
  /\ UNCHANGED <<present, staged, alive, attempt, token, observed, handles, inUse, faults>>

\* Fault seed: the dead owner's record is left to rmdir.
UnlinkForgotten(p) ==
  /\ Goto(p, "unlink", "rmdir")
  /\ UNCHANGED <<disk, alive, attempt, token, observed, handles, inUse, faults>>

\* The dead owner's record is unlinked by the name that was read; whether that worked
\* is not looked at.
Unlink(p) ==
  /\ Goto(p, "unlink", "rmdir")
  /\ \/ files' = files \ {observed[p]} /\ UNCHANGED faults
     \/ Fault /\ UNCHANGED files
  /\ UNCHANGED <<present, staged, alive, attempt, token, observed, handles, inUse>>

\* rmdir never removes a directory that holds a record.
RemovesEmpty == present' = (present /\ files # {})

\* Fault seed: a loop of three turns.
TurnsLeftOneMore(p) == attempt[p] <= 2
TurnsLeft(p) == attempt[p] < 2

\* rmdir, then the loop's next turn or its end.
Rmdir(p) ==
  /\ RemovesEmpty
  /\ \/ /\ TurnsLeft(p) /\ Goto(p, "rmdir", "rename")
        /\ attempt' = [attempt EXCEPT ![p] = @ + 1]
        /\ observed' = [observed EXCEPT ![p] = None]
        /\ UNCHANGED <<staged, token>>
     \/ pc[p] = "rmdir" /\ ~TurnsLeft(p) /\ Refuse(p)
  /\ UNCHANGED <<files, alive, handles, inUse, faults>>

\* release is called, possibly again with a handle that was released before.
BeginRelease(p) ==
  /\ alive[p] /\ Goto(p, "idle", "relscan")
  /\ \E h \in handles[p] :
       /\ token' = [token EXCEPT ![p] = h]
       /\ inUse' = inUse \ {h}
  /\ UNCHANGED <<disk, alive, attempt, observed, handles, faults>>

ReleaseScan(p) == PickName(p, "relscan", "relopen")

\* Fault seed: whatever record is there is taken for the handle's.
ReleaseOpenAnyToken(p) ==
  /\ \/ /\ Readable(observed[p]) /\ Goto(p, "relopen", "relunlink")
        /\ UNCHANGED <<attempt, token, observed, faults>>
     \/ pc[p] = "relopen" /\ Return(p) /\ ~Readable(observed[p]) /\ UNCHANGED faults
  /\ UNCHANGED <<disk, alive, handles, inUse>>

\* The record must still be readable and carry the handle's token.
ReleaseOpen(p) ==
  /\ \/ /\ Readable(observed[p]) /\ observed[p] = token[p]
        /\ Goto(p, "relopen", "relunlink")
        /\ UNCHANGED <<attempt, token, observed, faults>>
     \/ /\ pc[p] = "relopen" /\ Return(p)
        /\ \/ ~Readable(observed[p]) /\ UNCHANGED faults
           \/ observed[p] # token[p] /\ UNCHANGED faults
           \/ Fault
  /\ UNCHANGED <<disk, alive, handles, inUse>>

ReleaseUnlink(p) ==
  /\ \/ /\ Goto(p, "relunlink", "relrmdir")
        /\ files' = files \ {observed[p]}
        /\ UNCHANGED <<attempt, token, observed, faults>>
     \/ pc[p] = "relunlink" /\ Fault /\ Return(p) /\ UNCHANGED files
  /\ UNCHANGED <<present, staged, alive, handles, inUse>>

ReleaseRmdir(p) ==
  /\ pc[p] = "relrmdir" /\ Return(p)
  /\ RemovesEmpty
  /\ UNCHANGED <<files, staged, alive, handles, inUse, faults>>

\* The caller drops its variable for a lease it released.
Forget(p) ==
  /\ pc[p] = "idle" /\ ~(handles[p] \subseteq inUse)
  /\ handles' = [handles EXCEPT ![p] = @ \cap inUse]
  /\ UNCHANGED <<disk, alive, proc, inUse, faults>>

\* The process dies at any point; what it left on disk stays.
Crash(p) ==
  /\ alive[p] /\ Fault
  /\ alive' = [alive EXCEPT ![p] = FALSE]
  /\ Return(p)
  /\ handles' = [handles EXCEPT ![p] = {}]
  /\ inUse' = {t \in inUse : Pid(t) # p}
  /\ UNCHANGED disk

\* A new process runs under a PID that was used before.
Restart(p) ==
  /\ ~alive[p]
  /\ alive' = [alive EXCEPT ![p] = TRUE]
  /\ UNCHANGED <<disk, proc, handles, inUse, faults>>

\* What a process does by itself once it has called acquire or release.
Step(p) ==
  \/ WriteOwner(p) \/ Publish(p) \/ Taken(p) \/ Scan(p) \/ Open(p) \/ Probe(p)
  \/ ProbeUnknown(p) \/ Unlink(p) \/ Rmdir(p)
  \/ ReleaseScan(p) \/ ReleaseOpen(p) \/ ReleaseUnlink(p) \/ ReleaseRmdir(p)

Next == \E p \in Proc : \/ Begin(p) \/ BeginRelease(p) \/ Forget(p) \/ Step(p)
                        \/ Crash(p) \/ Restart(p)

Spec == Init /\ [][Next]_vars

\* A running process finishes the call it is in; whatever other calls come
\* between, a caller drops the handle it released and a writer's retry timer asks
\* again (retry_index_writer in ue/index).
FairSpec ==
  Spec /\ \A p \in Proc : WF_vars(Step(p)) /\ SF_vars(Begin(p)) /\ SF_vars(Forget(p))
--------------------------------------------------------------------------------
TypeOK ==
  /\ present \in BOOLEAN /\ files \subseteq Name /\ staged \subseteq Token
  /\ alive \in [Proc -> BOOLEAN]
  /\ pc \in [Proc -> Calls]
  /\ attempt \in [Proc -> 1..2]
  /\ token \in [Proc -> Token \cup {None}]
  /\ observed \in [Proc -> Name \cup {None}]
  /\ handles \in [Proc -> SUBSET Token]
  /\ inUse \subseteq Token
  /\ faults \in Nat

\* The lease excludes: however acquisitions, reclaims, releases, crashes and
\* reused PIDs interleave, at most one writer works under it (acquire, release).
MutualExclusion == \A s, t \in inUse : s = t

\* A lease in use stays visible: no delayed reclaimer or repeated release removes
\* the record that makes the other processes refuse (comment at lines 3-4).
HolderRecorded == inUse \subseteq files

\* The strengthening that makes the two inductive, proved in FileLockProofs.
\* A path without a directory shows no record, and a directory at most one.
OneRecord == (~present => files = {}) /\ \A m, n \in files : m = n
\* Only running processes are inside a call, or work under a lease.
OnlyAliveAct ==
  /\ \A p \in Proc : pc[p] # "idle" => alive[p]
  /\ \A t \in inUse : alive[Pid(t)]
\* Tokens and handles carry the PID of the process that drew them.
TokensAreOwn ==
  \A p \in Proc : /\ \A t \in handles[p] : Pid(t) = p
                  /\ pc[p] # "idle" => token[p] \in Token /\ Pid(token[p]) = p
\* The token of an acquire in progress is known to its own process only.
Acquiring == Calls \ {"idle", "relscan", "relopen", "relunlink", "relrmdir"}
DrawnIsUnseen ==
  \A p \in Proc : pc[p] \in Acquiring =>
    token[p] \notin files \cup inUse /\ \A q \in Proc : observed[q] # token[p]
\* A lease being released is not in use any more, and an unlink in progress aims
\* at a record that is not in use.
ReleasedIsIdle ==
  \A p \in Proc : pc[p] \in {"relscan", "relopen", "relunlink"} => token[p] \notin inUse
TargetIsIdle ==
  \A p \in Proc : pc[p] \in {"unlink", "relunlink"} => observed[p] \notin inUse

IInv ==
  /\ TypeOK /\ HolderRecorded /\ OneRecord /\ OnlyAliveAct /\ TokensAreOwn
  /\ DrawnIsUnseen /\ ReleasedIsIdle /\ TargetIsIdle

L == INSTANCE Lease WITH record <- files, holder <- inUse

\* The file-system protocol implements the abstract lease step by step.
ImplementsLease == L!Spec

\* A crashed writer cannot block the others for good: while some process keeps
\* asking, the record of a dead PID does not stay (process_alive, lines 105-112).
StaleReclaimed ==
  \A q \in Proc : []<>~(alive[q] /\ \E t \in files \cap Token : ~alive[Pid(t)])
================================================================================
