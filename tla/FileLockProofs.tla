---------------------------- MODULE FileLockProofs ----------------------------
(***************************************************************************)
(* The writer lease excludes, for any number of processes, tokens, crashes *)
(* and failed calls, on both kinds of platform.                            *)
(***************************************************************************)
EXTENDS FileLock, TLAPS

\* The parts of IInv other than the types.
Safe ==
  /\ HolderRecorded /\ OneRecord /\ OnlyAliveAct /\ TokensAreOwn
  /\ DrawnIsUnseen /\ ReleasedIsIdle /\ TargetIsIdle

\* Every step keeps the variables in their types: a call only ever names tokens
\* its own process drew, records it read, and the two turns of acquire's loop.
LEMMA TypeStep == TypeOK /\ TokensAreOwn /\ [Next]_vars => TypeOK'
<1> SUFFICES ASSUME TypeOK, TokensAreOwn, [Next]_vars PROVE TypeOK' OBVIOUS
<1> USE DEF TypeOK, Name, Token, Calls, Goto, Return, Refuse, Fault, disk, proc
<1>0. CASE UNCHANGED vars BY <1>0 DEF vars
<1>1. ASSUME NEW p \in Proc, Begin(p) PROVE TypeOK' BY <1>1 DEF Begin
<1>2. ASSUME NEW p \in Proc, WriteOwner(p) PROVE TypeOK' BY <1>2 DEF WriteOwner
<1>3. ASSUME NEW p \in Proc, Publish(p) PROVE TypeOK'
  BY <1>3 DEF Publish, TokensAreOwn
<1>4. ASSUME NEW p \in Proc, Taken(p) PROVE TypeOK' BY <1>4 DEF Taken
<1>5. ASSUME NEW p \in Proc, Scan(p) \/ ReleaseScan(p) PROVE TypeOK'
  BY <1>5 DEF Scan, ReleaseScan, PickName
<1>6. ASSUME NEW p \in Proc, Open(p) PROVE TypeOK' BY <1>6 DEF Open
<1>7. ASSUME NEW p \in Proc, Probe(p) PROVE TypeOK' BY <1>7 DEF Probe
<1>8. ASSUME NEW p \in Proc, ProbeUnknown(p) PROVE TypeOK' BY <1>8 DEF ProbeUnknown
<1>9. ASSUME NEW p \in Proc, Unlink(p) PROVE TypeOK' BY <1>9 DEF Unlink
<1>10. ASSUME NEW p \in Proc, Rmdir(p) PROVE TypeOK'
  BY <1>10 DEF Rmdir, RemovesEmpty, TurnsLeft
<1>11. ASSUME NEW p \in Proc, BeginRelease(p) PROVE TypeOK' BY <1>11 DEF BeginRelease
<1>12. ASSUME NEW p \in Proc, ReleaseOpen(p) PROVE TypeOK' BY <1>12 DEF ReleaseOpen
<1>13. ASSUME NEW p \in Proc, ReleaseUnlink(p) PROVE TypeOK' BY <1>13 DEF ReleaseUnlink
<1>14. ASSUME NEW p \in Proc, ReleaseRmdir(p) PROVE TypeOK'
  BY <1>14 DEF ReleaseRmdir, RemovesEmpty
<1>15. ASSUME NEW p \in Proc, Forget(p) \/ Restart(p) PROVE TypeOK'
  BY <1>15 DEF Forget, Restart
<1>16. ASSUME NEW p \in Proc, Crash(p) PROVE TypeOK' BY <1>16 DEF Crash
<1> HIDE DEF TypeOK, Name, Token, Calls, Goto, Return, Refuse, Fault, disk, proc
<1>17. QED
  BY <1>0, <1>1, <1>2, <1>3, <1>4, <1>5, <1>6, <1>7, <1>8, <1>9, <1>10, <1>11, <1>12,
     <1>13, <1>14, <1>15, <1>16 DEF Next, Step

\* Every step keeps the other parts.  Publish is the step that matters: it finds
\* no record, hence no lease in use, and brings in use a token nobody has seen.
LEMMA SafeStep == TypeOK /\ Safe /\ [Next]_vars => Safe'
<1> SUFFICES ASSUME TypeOK, Safe, [Next]_vars PROVE Safe' OBVIOUS
<1> USE DEF TypeOK, Safe, HolderRecorded, OneRecord, OnlyAliveAct, TokensAreOwn,
            DrawnIsUnseen, ReleasedIsIdle, TargetIsIdle, Acquiring, Calls,
            Goto, Return, Refuse, Fault, disk, proc
<1>0. CASE UNCHANGED vars BY <1>0 DEF vars
<1>1. ASSUME NEW p \in Proc, Begin(p) PROVE Safe'
  BY <1>1, NamesDiffer DEF Begin, Fresh, Token, Pid, Name
<1>2. ASSUME NEW p \in Proc, WriteOwner(p) PROVE Safe' BY <1>2, NamesDiffer DEF WriteOwner, Name
<1>3. ASSUME NEW p \in Proc, Publish(p) PROVE Safe'
  <2>1. alive[p] /\ files = {} /\ inUse = {} /\ inUse' = {token[p]} /\ files' = {token[p]}
    BY <1>3 DEF Publish, Free
  <2>2. token[p] \in Token /\ Pid(token[p]) = p /\ \A q \in Proc : observed[q] # token[p]
    BY <1>3 DEF Publish
  <2>3. \A q \in Proc \ {p} : /\ pc'[q] = pc[q] /\ token'[q] = token[q]
                             /\ observed'[q] = observed[q] /\ handles'[q] = handles[q]
    BY <1>3 DEF Publish
  <2>4. pc'[p] = "idle" /\ observed'[p] = None /\ alive' = alive /\ present'
        /\ handles'[p] = handles[p] \cup {token[p]}
    BY <1>3 DEF Publish
  <2>5. \A q \in Proc \ {p} : pc[q] # "idle" => token[q] # token[p]
    BY <2>2
  <2>6. HolderRecorded' /\ OneRecord' BY <2>1, <2>4
  <2>7. OnlyAliveAct' /\ TokensAreOwn' BY <2>1, <2>2, <2>3, <2>4
  <2>8. DrawnIsUnseen' BY <2>1, <2>2, <2>3, <2>4, <2>5, NamesDiffer DEF Name
  <2>9. ReleasedIsIdle' /\ TargetIsIdle' BY <2>1, <2>2, <2>3, <2>4, <2>5
  <2>10. QED BY <2>6, <2>7, <2>8, <2>9
<1>4. ASSUME NEW p \in Proc, Taken(p) PROVE Safe' BY <1>4 DEF Taken
<1>5. ASSUME NEW p \in Proc, Scan(p) \/ ReleaseScan(p) PROVE Safe'
  BY <1>5, NamesDiffer DEF Scan, ReleaseScan, PickName, Name
<1>6. ASSUME NEW p \in Proc, Open(p) PROVE Safe' BY <1>6 DEF Open
<1>7. ASSUME NEW p \in Proc, Probe(p) PROVE Safe' BY <1>7, NamesDiffer DEF Probe, Name
<1>8. ASSUME NEW p \in Proc, ProbeUnknown(p) PROVE Safe'
  BY <1>8, NamesDiffer DEF ProbeUnknown, Name
<1>9. ASSUME NEW p \in Proc, Unlink(p) PROVE Safe' BY <1>9 DEF Unlink
<1>10. ASSUME NEW p \in Proc, Rmdir(p) PROVE Safe'
  BY <1>10, NamesDiffer DEF Rmdir, RemovesEmpty, TurnsLeft, Name
<1>11. ASSUME NEW p \in Proc, BeginRelease(p) PROVE Safe' BY <1>11 DEF BeginRelease
<1>12. ASSUME NEW p \in Proc, ReleaseOpen(p) PROVE Safe'
  BY <1>12, NamesDiffer DEF ReleaseOpen, Readable, Name
<1>13. ASSUME NEW p \in Proc, ReleaseUnlink(p) PROVE Safe'
  BY <1>13, NamesDiffer DEF ReleaseUnlink, Name
<1>14. ASSUME NEW p \in Proc, ReleaseRmdir(p) PROVE Safe'
  BY <1>14, NamesDiffer DEF ReleaseRmdir, RemovesEmpty, Name
<1>15. ASSUME NEW p \in Proc, Forget(p) PROVE Safe' BY <1>15 DEF Forget
<1>16. ASSUME NEW p \in Proc, Restart(p) PROVE Safe' BY <1>16 DEF Restart, Token, Pid
<1>17. ASSUME NEW p \in Proc, Crash(p) PROVE Safe' BY <1>17, NamesDiffer DEF Crash, Name
<1> HIDE DEF TypeOK, Safe, HolderRecorded, OneRecord, OnlyAliveAct, TokensAreOwn,
            DrawnIsUnseen, ReleasedIsIdle, TargetIsIdle, Acquiring, Calls,
            Goto, Return, Refuse, Fault, disk, proc
<1>18. QED
  BY <1>0, <1>1, <1>2, <1>3, <1>4, <1>5, <1>6, <1>7, <1>8, <1>9, <1>10, <1>11, <1>12,
     <1>13, <1>14, <1>15, <1>16, <1>17 DEF Next, Step

LEMMA InitSafe == Init => IInv
<1> SUFFICES ASSUME Init PROVE IInv OBVIOUS
<1> USE DEF Init
<1>1. files = {} \/ \E n \in Name : files = {n} OBVIOUS
<1>2. TypeOK
  <2>1. present \in BOOLEAN /\ files \subseteq Name BY <1>1
  <2>2. alive \in [Proc -> BOOLEAN] /\ pc \in [Proc -> Calls] /\ attempt \in [Proc -> 1..2]
    BY DEF Calls
  <2>3. /\ token \in [Proc -> Token \cup {None}] /\ observed \in [Proc -> Name \cup {None}]
        /\ handles \in [Proc -> SUBSET Token]
    OBVIOUS
  <2>4. staged \subseteq Token /\ inUse \subseteq Token /\ faults \in Nat OBVIOUS
  <2>5. QED BY <2>1, <2>2, <2>3, <2>4 DEF TypeOK
<1>3. HolderRecorded /\ OneRecord BY <1>1 DEF HolderRecorded, OneRecord
<1>4. OnlyAliveAct /\ TokensAreOwn BY DEF OnlyAliveAct, TokensAreOwn
<1>5. DrawnIsUnseen /\ ReleasedIsIdle /\ TargetIsIdle
  BY DEF DrawnIsUnseen, ReleasedIsIdle, TargetIsIdle, Acquiring
<1>6. QED BY <1>2, <1>3, <1>4, <1>5 DEF IInv

\* IInv holds in every reachable state of every instance.
THEOREM Invariance == Spec => []IInv
<1>1. IInv <=> TypeOK /\ Safe BY DEF IInv, Safe
<1>2. IInv /\ [Next]_vars => IInv'
  <2> SUFFICES ASSUME IInv, [Next]_vars PROVE IInv' OBVIOUS
  <2>1. TypeOK' BY <1>1, TypeStep DEF Safe
  <2>2. Safe' BY <1>1, SafeStep
  <2>3. QED BY <2>1, <2>2 DEF IInv, Safe
<1>3. QED BY InitSafe, <1>2, PTL DEF Spec

\* Type correctness: the process counters, tokens and records stay what the code
\* means them to be, and acquire never takes a third turn.
THEOREM TypeCorrect == Spec => []TypeOK
<1>1. IInv => TypeOK BY DEF IInv
<1>2. QED BY Invariance, <1>1, PTL

\* At most one writer works under the lease: a lease in use has its record on
\* disk, and the disk shows one record at most.
THEOREM Exclusion == Spec => []MutualExclusion
<1>1. IInv => MutualExclusion BY DEF IInv, HolderRecorded, OneRecord, MutualExclusion
<1>2. QED BY Invariance, <1>1, PTL

\* The record of a lease in use is never removed by another process.
THEOREM RecordKept == Spec => []HolderRecorded
<1>1. IInv => HolderRecorded BY DEF IInv
<1>2. QED BY Invariance, <1>1, PTL

\* Every step of the file-system protocol is a step of the abstract lease, or
\* changes neither the visible record nor the holder.
LEMMA RefinementStep == IInv /\ [Next]_vars => [L!Next]_(L!vars)
<1> SUFFICES ASSUME IInv, [Next]_vars PROVE [L!Next]_(L!vars) OBVIOUS
<1> USE DEF L!Next, L!vars, L!Grant, L!Leave, L!Clear, Goto, disk
<1>0. files \subseteq Name /\ inUse \subseteq files /\ \A m, n \in files : m = n
  BY DEF IInv, TypeOK, HolderRecorded, OneRecord
<1>1. CASE UNCHANGED vars BY <1>1 DEF vars
<1>2. ASSUME NEW p \in Proc, Publish(p) PROVE L!Next
  <2>1. token[p] \in Name BY <1>2 DEF IInv, TokensAreOwn, Publish, Name
  <2>2. files = {} /\ inUse = {} BY <1>2, <1>0 DEF IInv, OneRecord, Publish, Free
  <2>3. files' = {token[p]} /\ inUse' = {token[p]} BY <1>2, <2>2 DEF Publish
  <2>4. QED BY <2>1, <2>2, <2>3
<1>3. ASSUME NEW p \in Proc, Unlink(p) \/ ReleaseUnlink(p) PROVE [L!Next]_(L!vars)
  <2>1. observed[p] \notin inUse
    BY <1>3 DEF IInv, TargetIsIdle, Unlink, ReleaseUnlink
  <2>2. inUse' = inUse /\ (files' = files \ {observed[p]} \/ files' = files)
    BY <1>3 DEF Unlink, ReleaseUnlink
  <2>3. QED BY <2>1, <2>2, <1>0
<1>4. ASSUME NEW p \in Proc, BeginRelease(p) PROVE [L!Next]_(L!vars)
  <2>1. files' = files /\ \E h \in handles[p] : inUse' = inUse \ {h}
    BY <1>4 DEF BeginRelease
  <2>2. QED BY <2>1, <1>0
<1>5. ASSUME NEW p \in Proc, Crash(p) PROVE [L!Next]_(L!vars)
  <2>1. files' = files /\ inUse' = {t \in inUse : Pid(t) # p} BY <1>5 DEF Crash
  <2>2. CASE inUse' = inUse BY <2>1, <2>2
  <2>3. CASE inUse' # inUse
    <3>1. PICK t \in inUse : Pid(t) = p BY <2>1, <2>3
    <3>2. inUse = {t} /\ inUse' = {} BY <3>1, <2>1, <1>0
    <3>3. QED BY <3>1, <3>2, <2>1, <1>0
  <2>4. QED BY <2>2, <2>3
<1>6. ASSUME NEW p \in Proc,
             \/ Begin(p) \/ WriteOwner(p) \/ Taken(p) \/ Scan(p) \/ Open(p) \/ Probe(p)
             \/ ProbeUnknown(p) \/ Rmdir(p) \/ ReleaseScan(p) \/ ReleaseOpen(p)
             \/ ReleaseRmdir(p) \/ Forget(p) \/ Restart(p)
      PROVE UNCHANGED L!vars
  BY <1>6 DEF Begin, WriteOwner, Taken, Scan, Open, Probe, ProbeUnknown, Rmdir, PickName,
              ReleaseScan, ReleaseOpen, ReleaseRmdir, Forget, Restart
<1>7. QED BY <1>1, <1>2, <1>3, <1>4, <1>5, <1>6 DEF Next, Step

\* The module that the writers of a shared cache may rely on: file_lock.lua
\* implements the abstract lease.
THEOREM Refinement == Spec => ImplementsLease
<1>1. Init => L!Init BY DEF Init, L!Init
<1>2. QED BY <1>1, Invariance, RefinementStep, PTL DEF Spec, L!Spec, ImplementsLease
================================================================================
