----------------------------- MODULE ToolProofs ------------------------------
(***************************************************************************)
(* Proofs about the tools of Serving: the private run of clangd            *)
(* (BatchRunner), the repair of header shards (HeaderRepair), the build of *)
(* the background database (BackgroundBuild) and the query of a driver     *)
(* (QueryProfile).  Each has its inductive invariant, one lemma per action *)
(* and a lemma by which a step of Serving is its own step or leaves its    *)
(* variables alone.  At the end, about sums, folds and the planners of     *)
(* UnityChunks: their loops are recursive functions over sets of entries,  *)
(* of which an invariant holds by the minimal sets that break it; a chunk  *)
(* of a plan, planned again, is itself.                                    *)
(***************************************************************************)
EXTENDS Serving, SequenceTheorems, FiniteSetTheorems, TLAPS

-----------------------------------------------------------------------------
(* Induction.  The library's theorems on finite sets give minimal members,    *)
(* which stand for induction over sets and numbers.                          *)

(* A family of subsets of a finite set has a minimal member.                 *)
LEMMA MinimalSet ==
  ASSUME NEW A, IsFiniteSet(A), NEW T, T \subseteq SUBSET A, T # {}
  PROVE  \E m \in T : \A s \in T : s \subseteq m => s = m
<1>1. IsWellFoundedOn(StrictSubsetOrdering(A), FiniteSubsetsOf(A))
  BY FS_StrictSubsetOrderingWellFounded, Zenon
<1>2. T \subseteq FiniteSubsetsOf(A)
  BY FS_FiniteSubsetsOfFinite, Zenon
<1>3. PICK m \in T : \A s \in T : ~(<<s, m>> \in StrictSubsetOrdering(A))
  BY <1>1, <1>2, WFMin, Zenon
<1>4. ASSUME NEW s \in T, s \subseteq m PROVE s = m
  BY <1>3, <1>4 DEF StrictSubsetOrdering
<1>. QED BY <1>4

LEMMA LeastNumber ==
  ASSUME NEW n \in Nat, NEW T, T \subseteq 0..n, T # {}
  PROVE  \E m \in T : \A k \in T : m <= k
<1> DEFINE Heads == {1..k : k \in T}
           A == 1..n
<1>1. IsFiniteSet(A)
  BY FS_Interval
<1>0. Heads \subseteq SUBSET A /\ Heads # {}
  <2>1. \A k \in T : 1..k \subseteq 1..n
    OBVIOUS
  <2>. QED BY <2>1
<1> HIDE DEF Heads, A
<1>2. PICK s \in Heads : \A r \in Heads : r \subseteq s => r = s
  BY <1>0, <1>1, MinimalSet
<1> USE DEF Heads, A
<1>3. PICK m \in T : s = 1..m
  OBVIOUS
<1>4. ASSUME NEW k \in T, k < m PROVE FALSE
  <2>1. 1..k \in Heads /\ 1..k \subseteq 1..m
    BY <1>4
  <2>2. 1..k = 1..m
    BY <1>2, <1>3, <2>1
  <2>3. m \in 1..m /\ m \notin 1..k
    BY <1>4
  <2>. QED BY <2>2, <2>3
<1>. QED BY <1>4

(* A total preorder on a finite set has a greatest member.                   *)
LEMMA GreatestOf ==
  ASSUME NEW A, IsFiniteSet(A), A # {}, NEW Rel,
         \A x, y \in A : <<x, y>> \in Rel \/ <<y, x>> \in Rel,
         \A x, y, z \in A : <<x, y>> \in Rel /\ <<y, z>> \in Rel => <<x, z>> \in Rel
  PROVE  \E m \in A : \A y \in A : <<m, y>> \in Rel
<1> DEFINE T == {Part \in SUBSET A : Part # {} /\ ~\E m \in Part : \A y \in Part : <<m, y>> \in Rel}
<1>1. SUFFICES ASSUME T # {} PROVE FALSE
  OBVIOUS
<1>2. T \subseteq SUBSET A
  OBVIOUS
<1>3. \A Part : Part \in T <=> Part \subseteq A /\ Part # {} /\ ~\E m \in Part : \A y \in Part : <<m, y>> \in Rel
  OBVIOUS
<1> HIDE DEF T
<1>4. PICK Part \in T : \A s \in T : s \subseteq Part => s = Part
  BY <1>1, <1>2, MinimalSet
<1>5. PICK x \in Part : TRUE
  BY <1>3
<1>6. Part \ {x} # {}
  BY <1>3, <1>5
<1>7. Part \ {x} \notin T
  BY <1>4, <1>5
<1>8. PICK m \in Part \ {x} : \A y \in Part \ {x} : <<m, y>> \in Rel
  BY <1>3, <1>6, <1>7
<1>9. x \in A /\ Part \subseteq A
  BY <1>3, <1>5
<1>10. CASE <<m, x>> \in Rel
  BY <1>3, <1>8, <1>10
<1>11. CASE <<x, m>> \in Rel
  <2>1. \A y \in Part \ {x} : <<x, y>> \in Rel
    BY <1>8, <1>9, <1>11
  <2>2. \A y \in Part : <<x, y>> \in Rel
    BY <1>9, <2>1
  <2>. QED BY <1>3, <1>5, <2>2
<1>. QED BY <1>8, <1>9, <1>10, <1>11

(* A fold over the subsets of a finite set is defined, and of its type.      *)
Folding(A, V, base, pick, step) ==
    /\ IsFiniteSet(A) /\ base \in V /\ step \in [A \X V -> V]
    /\ \A s \in SUBSET A : s # {} => pick[s] \in s
IsFold(f, A, base, pick, step) == \A s \in SUBSET A :
    f[s] = IF s = {} THEN base ELSE step[<<pick[s], f[s \ {pick[s]}]>>]
LEMMA FoldIsDefined ==
  ASSUME NEW A, NEW V, NEW base, NEW pick, NEW step, Folding(A, V, base, pick, step)
  PROVE  \E f \in [SUBSET A -> V] : IsFold(f, A, base, pick, step)
<1> USE DEF Folding, IsFold
<1> DEFINE Small(n) == {s \in SUBSET A : Cardinality(s) <= n}
           rest(s) == s \ {pick[s]}
           Right(f, n) == \A s \in Small(n) :
              f[s] = IF s = {} THEN base ELSE step[<<pick[s], f[rest(s)]>>]
           N == Cardinality(A)
           Typed == [SUBSET A -> V]
           T == {n \in 0..N : ~\E f \in Typed : Right(f, n)}
<1>1. N \in Nat
  BY FS_CardinalityType
<1>2. ASSUME NEW s \in SUBSET A
      PROVE  /\ IsFiniteSet(s) /\ Cardinality(s) \in Nat /\ Cardinality(s) <= N
             /\ Cardinality(s) = 0 <=> s = {}
  BY FS_Subset, FS_CardinalityType, FS_EmptySet
<1>3. ASSUME NEW s \in SUBSET A, s # {}
      PROVE  pick[s] \in A /\ rest(s) \in SUBSET A /\ Cardinality(rest(s)) = Cardinality(s) - 1
  BY <1>2, <1>3, FS_RemoveElement
<1>4. T = {}
  <2> SUFFICES ASSUME T # {} PROVE FALSE
    OBVIOUS
  <2>1. PICK n \in T : \A k \in T : n <= k
    <3>1. T \subseteq 0..N
      OBVIOUS
    <3> HIDE DEF T, N
    <3>. QED BY <1>1, <3>1, LeastNumber
  <2>2. n \in 0..N /\ n \in Nat /\ ~\E f \in Typed : Right(f, n)
    <3> HIDE DEF Right, N, Typed
    <3>. QED BY <1>1
  <2> HIDE DEF rest, T, N
  <2>3. CASE n = 0
    <3>1. \A s \in Small(n) : s = {}
      BY <1>2, <2>3
    <3>2. Right([s \in SUBSET A |-> base], n)
      BY <3>1
    <3>. QED BY <2>2, <3>2
  <2>4. CASE n # 0
    <3>1. n - 1 \in 0..N
      BY <1>1, <2>2, <2>4
    <3>2. n - 1 \notin T
      BY <2>1, <2>2, <3>1
    <3>3. PICK f \in Typed : Right(f, n - 1)
      BY <3>1, <3>2 DEF T
    <3> DEFINE g == [s \in SUBSET A |-> IF s \in Small(n - 1) THEN f[s]
                                        ELSE IF s = {} THEN base ELSE step[<<pick[s], f[rest(s)]>>]]
    <3>4. ASSUME NEW s \in Small(n), s # {} PROVE rest(s) \in Small(n - 1)
      <4>1. s \in SUBSET A /\ Cardinality(s) <= n /\ Cardinality(s) \in Nat
        BY <1>2
      <4>. QED BY <1>3, <2>2, <3>4, <4>1
    <3>5. g \in Typed
      <4>1. ASSUME NEW s \in SUBSET A, s # {} PROVE step[<<pick[s], f[rest(s)]>>] \in V
        <5>1. <<pick[s], f[rest(s)]>> \in A \X V
          BY <1>3, <4>1
        <5>. QED BY <5>1
      <4>. QED BY <4>1
    <3>6. \A s \in Small(n) : g[s] = IF s = {} THEN base ELSE step[<<pick[s], f[rest(s)]>>]
      BY <3>3
    <3>7. \A s \in Small(n - 1) : g[s] = f[s]
      OBVIOUS
    <3> HIDE DEF g, Small
    <3>8. Right(g, n)
      BY <3>4, <3>6, <3>7
    <3>. QED BY <2>2, <3>5, <3>8
  <2>. QED BY <2>3, <2>4
<1>5. PICK f \in Typed : Right(f, N)
  <2> HIDE DEF Right, N, Typed
  <2>. QED BY <1>1, <1>4
<1>6. Small(N) = SUBSET A
  BY <1>1, <1>2
<1>. QED BY <1>5, <1>6

-----------------------------------------------------------------------------
(* BatchRunner.                                                             *)

Lines == [kind : {"indexed", "failed"}, main : RunMains]
RunTypes == /\ seen.mains \in Seq(RunMains) /\ seen.failures \in Nat
            /\ {"mains", "failures", "err"} \subseteq DOMAIN seen
            /\ {"state", "exit"} \subseteq DOMAIN process /\ "pc" \in DOMAIN runner
            /\ stderr \in Seq(Lines)
            /\ ran \in [RunMains -> {"no", "ok", "failed", "aborted"}]

Spawned == runner.pc = "start" => process.state = "none"
ReadToTheEnd == seen.err = "eof" => process.state = "exited" /\ stderr = <<>>
FailuresAreSaid == \A m \in RunMains : ran[m] \in {"failed", "aborted"} =>
    seen.failures > 0 \/ \E i \in 1..Len(stderr) : stderr[i].kind = "failed"
LinesAreOfRuns == /\ \A i \in 1..Len(seen.mains) : ran[seen.mains[i]] # "no"
                  /\ \A i \in 1..Len(stderr) : ran[stderr[i].main] # "no"
ReportHolds == runResult # B!NoReport =>
    /\ RunMains \ stored \subseteq runResult.missing
    /\ runResult.err = "eof" => /\ seen.err = "eof" /\ runResult.failures = seen.failures
                                /\ runResult.mains = seen.mains
RunInv == /\ RunTypes /\ Spawned /\ ReadToTheEnd /\ FailuresAreSaid /\ LinesAreOfRuns /\ ReportHolds

LEMMA RunInit == B!Init => RunInv
BY DEF B!Init, RunInv, RunTypes, Spawned, ReadToTheEnd, FailuresAreSaid, LinesAreOfRuns, ReportHolds,
       B!Reading

LEMMA SameCardinality == \A s : B!Cardinality(s) = Cardinality(s)
BY DEF B!Cardinality, Cardinality

(* Lines are appended by a compile, for a main that has run then.           *)
LEMMA CompileStep ==
  ASSUME RunInv, NEW m \in RunMains, NEW ls \in Seq(Lines), NEW o \in {"ok", "failed", "aborted"},
         \A i \in 1..Len(ls) : ls[i].main = m,
         o # "ok" => \E i \in 1..Len(ls) : ls[i].kind = "failed",
         B!Compile(m, ls, o)
  PROVE  RunInv'
<1>1. /\ ran' = [ran EXCEPT ![m] = o] /\ stderr' = stderr \o ls
      /\ UNCHANGED <<seen, runner, runResult, stored>>
      /\ process.state \notin {"none", "exited"} /\ process'.state = process.state /\ DOMAIN process' = DOMAIN process
  BY DEF B!Compile, B!Up, B!Stable, B!observers, RunInv, RunTypes
<1>2. RunTypes'
  BY <1>1 DEF RunInv, RunTypes
<1>3. /\ Len(stderr') = Len(stderr) + Len(ls)
      /\ \A i \in 1..Len(stderr') : stderr'[i] = IF i <= Len(stderr) THEN stderr[i] ELSE ls[i - Len(stderr)]
      /\ Len(stderr) \in Nat /\ Len(ls) \in Nat
  BY <1>1, ConcatProperties, LenProperties DEF RunInv, RunTypes
<1>4. \A i \in 1..Len(ls) : Len(stderr) + i \in 1..Len(stderr') /\ stderr'[Len(stderr) + i] = ls[i]
  BY <1>3
<1>5. \A i \in 1..Len(stderr) : i \in 1..Len(stderr') /\ stderr'[i] = stderr[i]
  BY <1>3
<1>6. \A n \in RunMains : ran'[n] = IF n = m THEN o ELSE ran[n]
  BY <1>1 DEF RunInv, RunTypes
<1>7. FailuresAreSaid'
  <2> SUFFICES ASSUME NEW n \in RunMains, ran'[n] \in {"failed", "aborted"}, ~(seen.failures > 0)
               PROVE  \E i \in 1..Len(stderr') : stderr'[i].kind = "failed"
    BY <1>1 DEF FailuresAreSaid
  <2>1. CASE n = m
    BY <1>4, <1>6, <2>1
  <2>2. CASE n # m
    BY <1>5, <1>6, <2>2 DEF RunInv, FailuresAreSaid
  <2>. QED BY <2>1, <2>2
<1>8. LinesAreOfRuns'
  <2>1. ASSUME NEW i \in 1..Len(seen.mains) PROVE ran'[seen.mains[i]] # "no"
    BY <1>6, ElementOfSeq DEF RunInv, RunTypes, LinesAreOfRuns
  <2>2. ASSUME NEW i \in 1..Len(stderr') PROVE ran'[stderr'[i].main] # "no"
    <3>1. CASE i <= Len(stderr)
      <4>1. stderr'[i] = stderr[i] /\ i \in 1..Len(stderr) /\ stderr[i] \in Lines
        BY <1>3, <3>1, ElementOfSeq DEF RunInv, RunTypes
      <4>. QED BY <1>6, <4>1 DEF RunInv, LinesAreOfRuns, Lines
    <3>2. CASE ~(i <= Len(stderr))
      <4>1. i - Len(stderr) \in 1..Len(ls) /\ stderr'[i] = ls[i - Len(stderr)]
        BY <1>3, <3>2
      <4>. QED BY <1>6, <4>1
    <3>. QED BY <3>1, <3>2
  <2>. QED BY <1>1, <2>1, <2>2 DEF LinesAreOfRuns
<1>9. Spawned' /\ ReadToTheEnd' /\ ReportHolds'
  BY <1>1 DEF RunInv, Spawned, ReadToTheEnd, ReportHolds
<1>. QED BY <1>2, <1>7, <1>8, <1>9 DEF RunInv

LEMMA CompilesStep ==
  ASSUME RunInv, B!Compiles
  PROVE  RunInv'
<1> PICK m \in RunMains : \/ B!Compile(m, <<B!Line("indexed", m)>>, "ok")
                          \/ B!Compile(m, <<B!Line("indexed", m), B!Line("failed", m)>>, "failed")
                          \/ B!Compile(m, <<B!Line("failed", m)>>, "aborted")
  BY Zenon DEF B!Compiles
<1>1. B!Line("indexed", m) \in Lines /\ B!Line("failed", m) \in Lines
  BY DEF B!Line, Lines
<1>2. B!Line("indexed", m).main = m /\ B!Line("failed", m).main = m /\ B!Line("failed", m).kind = "failed"
  BY DEF B!Line
<1> DEFINE p == B!Line("indexed", m)
           q == B!Line("failed", m)
<1> HIDE DEF p, q
<1>3. CASE B!Compile(m, <<p>>, "ok")
  BY <1>1, <1>2, <1>3, CompileStep DEF p, q
<1>4. CASE B!Compile(m, <<p, q>>, "failed")
  <2> DEFINE ls == <<p, q>>
  <2>1. ls \in Seq(Lines) /\ Len(ls) = 2 /\ ls[1] = p /\ ls[2] = q
    BY <1>1 DEF p, q
  <2>2. \A i \in 1..Len(ls) : ls[i].main = m
    BY <1>2, <2>1 DEF p, q
  <2>3. ls[2].kind = "failed" /\ 2 \in 1..Len(ls)
    BY <1>2, <2>1 DEF q
  <2> HIDE DEF ls
  <2>. QED BY <1>4, <2>1, <2>2, <2>3, CompileStep DEF ls
<1>5. CASE B!Compile(m, <<q>>, "aborted")
  <2> DEFINE ls == <<q>>
  <2>1. ls \in Seq(Lines) /\ Len(ls) = 1 /\ ls[1] = q
    BY <1>1 DEF q
  <2>2. \A i \in 1..Len(ls) : ls[i].main = m
    BY <1>2, <2>1 DEF q
  <2>3. ls[1].kind = "failed" /\ 1 \in 1..Len(ls)
    BY <1>2, <2>1 DEF q
  <2> HIDE DEF ls
  <2>. QED BY <1>5, <2>1, <2>2, <2>3, CompileStep DEF ls
<1>. QED BY <1>3, <1>4, <1>5 DEF p, q

LEMMA ReadStderrStep ==
  ASSUME RunInv, B!ReadStderr
  PROVE  RunInv'
<1>1. /\ seen.err = "reading" /\ stderr # <<>> /\ stderr' = Tail(stderr)
      /\ UNCHANGED <<process, ran, stored, runner, runResult>>
  BY DEF B!ReadStderr, B!Reading
<1>2. stderr[1] \in Lines /\ Len(stderr) >= 1 /\ Len(stderr) \in Nat /\ Len(seen.mains) \in Nat
  BY <1>1 DEF RunInv, RunTypes
<1>3. /\ stderr' \in Seq(Lines) /\ Len(stderr') = Len(stderr) - 1
      /\ \A i \in 1..Len(stderr') : i + 1 \in 1..Len(stderr) /\ stderr'[i] = stderr[i + 1]
  BY <1>1, <1>2 DEF RunInv, RunTypes
<1>4. seen'.err = seen.err /\ {"mains", "failures", "err"} \subseteq DOMAIN seen'
  BY DEF B!ReadStderr, RunInv, RunTypes
<1>5. CASE stderr[1].kind = "indexed"
  <2>1. seen'.mains = Append(seen.mains, stderr[1].main) /\ seen'.failures = seen.failures
    BY <1>5 DEF B!ReadStderr, RunInv, RunTypes
  <2>2. stderr[1].main \in RunMains
    BY <1>2 DEF Lines
  <2>3. /\ Len(seen'.mains) = Len(seen.mains) + 1
        /\ \A i \in 1..Len(seen'.mains) : seen'.mains[i] = IF i <= Len(seen.mains) THEN seen.mains[i] ELSE stderr[1].main
        /\ seen'.mains \in Seq(RunMains)
    BY <2>1, <2>2, AppendProperties DEF RunInv, RunTypes
  <2>4. RunTypes'
    BY <1>1, <1>3, <1>4, <2>1, <2>3 DEF RunInv, RunTypes
  <2>5. FailuresAreSaid'
    <3> SUFFICES ASSUME NEW n \in RunMains, ran[n] \in {"failed", "aborted"}, ~(seen.failures > 0)
                 PROVE  \E i \in 1..Len(stderr') : stderr'[i].kind = "failed"
      BY <1>1, <2>1 DEF FailuresAreSaid
    <3>1. PICK i \in 1..Len(stderr) : stderr[i].kind = "failed"
      BY DEF RunInv, FailuresAreSaid
    <3>2. i # 1 /\ i - 1 \in 1..Len(stderr') /\ (i - 1) + 1 = i
      BY <1>2, <1>3, <1>5, <3>1
    <3>3. stderr'[i - 1] = stderr[i]
      BY <1>3, <3>2
    <3>. QED BY <3>1, <3>2, <3>3
  <2>6. LinesAreOfRuns'
    <3>1. ran[stderr[1].main] # "no"
      BY <1>2 DEF RunInv, LinesAreOfRuns
    <3>2. \A i \in 1..Len(stderr') : ran[stderr'[i].main] # "no"
      BY <1>3 DEF RunInv, LinesAreOfRuns
    <3>3. \A i \in 1..Len(seen'.mains) : ran[seen'.mains[i]] # "no"
      BY <1>2, <2>3, <3>1 DEF RunInv, LinesAreOfRuns
    <3>. QED BY <1>1, <3>2, <3>3 DEF LinesAreOfRuns
  <2>7. Spawned' /\ ReadToTheEnd' /\ ReportHolds'
    BY <1>1, <1>4 DEF RunInv, Spawned, ReadToTheEnd, ReportHolds
  <2>. QED BY <2>4, <2>5, <2>6, <2>7 DEF RunInv
<1>6. CASE stderr[1].kind # "indexed"
  <2>1. seen'.mains = seen.mains /\ seen'.failures = seen.failures + 1
    BY <1>6 DEF B!ReadStderr, RunInv, RunTypes
  <2>2. RunTypes'
    BY <1>1, <1>3, <1>4, <2>1 DEF RunInv, RunTypes
  <2>3. FailuresAreSaid'
    BY <2>1 DEF RunInv, RunTypes, FailuresAreSaid
  <2>4. LinesAreOfRuns'
    BY <1>1, <1>3, <2>1 DEF RunInv, LinesAreOfRuns
  <2>5. Spawned' /\ ReadToTheEnd' /\ ReportHolds'
    BY <1>1, <1>4 DEF RunInv, Spawned, ReadToTheEnd, ReportHolds
  <2>. QED BY <2>2, <2>3, <2>4, <2>5 DEF RunInv
<1>. QED BY <1>5, <1>6

(* Steps that neither write nor read a line of stderr.                      *)
LEMMA SilentStep ==
  ASSUME RunInv, UNCHANGED <<ran, stderr>>, seen'.mains = seen.mains, seen'.failures = seen.failures,
         {"mains", "failures", "err"} \subseteq DOMAIN seen',
         {"state", "exit"} \subseteq DOMAIN process', "pc" \in DOMAIN runner',
         Spawned', ReadToTheEnd', ReportHolds'
  PROVE  RunInv'
<1>1. RunTypes' /\ FailuresAreSaid' /\ LinesAreOfRuns'
  BY DEF RunInv, RunTypes, FailuresAreSaid, LinesAreOfRuns
<1>. QED BY <1>1 DEF RunInv

LEMMA ProcessStep ==
  ASSUME RunInv, B!Initialized \/ B!Enqueue \/ B!Store \/ B!ShutDown \/ B!Exits \/ B!Crashes
  PROVE  RunInv'
<1>1. UNCHANGED <<ran, stderr, seen, runner, runResult>> /\ stored \subseteq stored'
  BY DEF B!Initialized, B!Enqueue, B!Store, B!ShutDown, B!Exits, B!Crashes, B!Works, B!Stable, B!observers
<1>2. {"state", "exit"} \subseteq DOMAIN process' /\ process.state \notin {"none", "exited"}
  BY DEF B!Initialized, B!Enqueue, B!Store, B!ShutDown, B!Exits, B!Crashes, B!Up, RunInv, RunTypes
<1>3. Spawned' /\ ReadToTheEnd' /\ ReportHolds'
  BY <1>1, <1>2 DEF RunInv, Spawned, ReadToTheEnd, ReportHolds
<1>. QED BY <1>1, <1>2, <1>3, SilentStep DEF RunInv, RunTypes

LEMMA ReaderStep ==
  ASSUME RunInv, B!ReadStdout \/ B!ReaderEnds \/ B!ReaderFails
  PROVE  RunInv'
<1>1. /\ UNCHANGED <<ran, stderr, process, stored, runner, runResult>>
      /\ seen'.mains = seen.mains /\ seen'.failures = seen.failures
      /\ {"mains", "failures", "err"} \subseteq DOMAIN seen'
      /\ \/ seen'.err = seen.err
         \/ seen.err = "reading" /\ (seen'.err = "eof" => process.state = "exited" /\ stderr = <<>>)
  <2>1. CASE B!ReadStdout
    BY <2>1 DEF B!ReadStdout, RunInv, RunTypes
  <2>2. CASE B!ReaderEnds
    BY <2>2 DEF B!ReaderEnds, B!process, B!Reading, RunInv, RunTypes
  <2>3. CASE B!ReaderFails
    BY <2>3 DEF B!ReaderFails, B!process, B!Reading, RunInv, RunTypes
  <2>. QED BY <2>1, <2>2, <2>3
<1>2. Spawned' /\ ReadToTheEnd' /\ ReportHolds'
  BY <1>1 DEF RunInv, Spawned, ReadToTheEnd, ReportHolds
<1>. QED BY <1>1, <1>2, SilentStep DEF RunInv, RunTypes

LEMMA RunnerStep ==
  ASSUME RunInv, B!Runner
  PROVE  RunInv'
<1>1. CASE B!Report
  <2>1. /\ UNCHANGED <<ran, stderr, process, stored, seen>> /\ "pc" \in DOMAIN runner' /\ runner'.pc = "done"
        /\ runResult'.missing = RunMains \ stored /\ runResult'.failures = seen.failures
        /\ runResult'.mains = seen.mains /\ runResult'.err = seen.err
    BY <1>1 DEF B!Report, B!process, B!observers, RunInv, RunTypes
  <2>2. Spawned' /\ ReadToTheEnd' /\ ReportHolds'
    BY <2>1 DEF RunInv, Spawned, ReadToTheEnd, ReportHolds
  <2>. QED BY <2>1, <2>2, SilentStep DEF RunInv, RunTypes
<1>2. CASE B!Spawn
  <2>1. /\ UNCHANGED <<ran, stderr, stored, seen, runResult>> /\ "pc" \in DOMAIN runner' /\ runner'.pc = "index"
        /\ {"state", "exit"} \subseteq DOMAIN process' /\ process.state = "none"
    BY <1>2 DEF B!Spawn, B!Runs, RunInv, RunTypes, Spawned
  <2>2. Spawned' /\ ReadToTheEnd' /\ ReportHolds'
    BY <2>1 DEF RunInv, Spawned, ReadToTheEnd, ReportHolds
  <2>. QED BY <2>1, <2>2, SilentStep DEF RunInv, RunTypes
<1>3. CASE \/ B!Take \/ B!Complete \/ B!GiveUp \/ B!AskShutdown \/ B!TakeAnswer \/ B!NoAnswer \/ B!AskExit
           \/ B!Reap
  <2>1. /\ UNCHANGED <<ran, stderr, stored, seen, runResult>>
        /\ "pc" \in DOMAIN runner' /\ runner'.pc # "start"
    BY <1>3 DEF B!Take, B!Complete, B!GiveUp, B!AskShutdown, B!TakeAnswer, B!NoAnswer, B!AskExit, B!Reap,
                B!Runs, RunInv, RunTypes
  <2>2. /\ {"state", "exit"} \subseteq DOMAIN process'
        /\ process' = process \/ process.state \notin {"none", "exited"}
    BY <1>3 DEF B!Take, B!Complete, B!GiveUp, B!AskShutdown, B!TakeAnswer, B!NoAnswer, B!AskExit, B!Reap,
                B!Up, RunInv, RunTypes
  <2>3. Spawned' /\ ReadToTheEnd' /\ ReportHolds'
    BY <2>1, <2>2 DEF RunInv, Spawned, ReadToTheEnd, ReportHolds
  <2>. QED BY <2>1, <2>2, <2>3, SilentStep DEF RunInv, RunTypes
<1>. QED BY <1>1, <1>2, <1>3 DEF B!Runner

LEMMA RunStep ==
  ASSUME RunInv, B!Next
  PROVE  RunInv'
BY CompilesStep, ReadStderrStep, ProcessStep, ReaderStep, RunnerStep DEF B!Next, B!Clangd

LEMMA RunProved == RunInv => B!AcceptedIsProved
<1> SUFFICES ASSUME RunInv, B!Accepted
             PROVE  /\ \A m \in RunMains : ran[m] = "ok" /\ m \in stored
                    /\ process.state = "exited" /\ stderr = <<>>
  BY DEF B!AcceptedIsProved
<1>1. /\ runResult # B!NoReport /\ runResult.missing = {} /\ runResult.err = "eof" /\ runResult.failures = 0
      /\ \A m \in RunMains : Cardinality({i \in DOMAIN runResult.mains : runResult.mains[i] = m}) = 1
  BY SameCardinality DEF B!Accepted, B!Clean, B!Success, B!ObserversEnded, B!Once
<1>2. /\ RunMains \subseteq stored /\ seen.failures = 0 /\ runResult.mains = seen.mains
      /\ process.state = "exited" /\ stderr = <<>>
  BY <1>1 DEF RunInv, ReportHolds, ReadToTheEnd
<1>3. ASSUME NEW m \in RunMains PROVE ran[m] = "ok"
  <2>1. PICK i \in DOMAIN seen.mains : seen.mains[i] = m
    <3>1. {i \in DOMAIN seen.mains : seen.mains[i] = m} # {}
      BY <1>1, <1>2, FS_EmptySet
    <3>. QED BY <3>1
  <2>2. ran[m] # "no"
    BY <2>1, LenProperties DEF RunInv, RunTypes, LinesAreOfRuns
  <2>3. ran[m] \notin {"failed", "aborted"}
    BY <1>2 DEF RunInv, FailuresAreSaid
  <2>. QED BY <2>2, <2>3 DEF RunInv, RunTypes
<1>. QED BY <1>2, <1>3

LEMMA RunSteps == [NextAll]_all => B!Next \/ UNCHANGED clangd
BY DEF NextAll, ActivationStep, CohortStep, SwitchStep, ChunksStep, SuperStep, ReceiptStep, HotStep, FullStep,
       RepairStep, ClangdStep, QueryStep, BatchStep, ToolStep, all, batches, tools, clangd

LEMMA RunStutters == RunInv /\ UNCHANGED clangd => RunInv'
BY DEF RunInv, clangd, RunTypes, Spawned, ReadToTheEnd, FailuresAreSaid, LinesAreOfRuns, ReportHolds

(* A run of clangd whose report the cohort accepts compiled every main      *)
(* without a failure (clangd_batch_runner.py, _cohort_run_clean).           *)
THEOREM AcceptedIsAlwaysProved == SpecAll => []AcceptedIsProved
<1>1. InitAll => RunInv
  BY RunInit DEF InitAll
<1>2. RunInv /\ [NextAll]_all => RunInv'
  BY RunStep, RunSteps, RunStutters
<1>3. RunInv => AcceptedIsProved
  BY RunProved DEF AcceptedIsProved
<1>. QED BY <1>1, <1>2, <1>3, PTL DEF SpecAll

-----------------------------------------------------------------------------
(* HeaderRepair.                                                            *)

Bytes == {"none", "old", "new", "full"}
Migration == [status : {"planning", "pending", "complete", "restored"},
              plan : [Headers -> Bytes], saved : [Headers -> Bytes]]
Migrating == {"plan", "items", "item", "move", "check"}
Restoring == {"items", "item", "back"}
RepairTypes ==
    /\ shard \in [Headers -> Bytes]
    /\ migrations = [o \in DOMAIN migrations |-> migrations[o]]
    /\ \A o \in DOMAIN migrations : migrations[o] \in Migration
    /\ repairer # H!Idle =>
          /\ repairer \in [job : {"migrate", "restore"}, of : DOMAIN migrations,
                           at : Migrating \cup Restoring, todo : SUBSET Headers,
                           item : Headers \cup {"none"}]
          /\ repairer.at \in IF repairer.job = "migrate" THEN Migrating ELSE Restoring
          /\ repairer.at \in {"item", "move", "check", "back"} => repairer.item \in repairer.todo
(* What is done of a plan: moved with the bytes that were planned, or back  *)
(* with them unless clangd wrote over it.                                   *)
IsBack(o, h) == \/ shard[h] = migrations[o].plan[h]
                \/ <<h, migrations[o].plan[h]>> \in overwritten
IsSaved(o, h) == migrations[o].saved[h] = migrations[o].plan[h]
DoneExactly == repairer # H!Idle =>
    /\ repairer.job = "migrate" /\ repairer.at # "plan" =>
          \A h \in H!Plan(repairer.of) \ repairer.todo : IsSaved(repairer.of, h)
    /\ repairer.job = "restore" => \A h \in H!Plan(repairer.of) \ repairer.todo : IsBack(repairer.of, h)
    /\ repairer.at = "back" => IsSaved(repairer.of, repairer.item)
RepairInv == RepairTypes /\ DoneExactly

LEMMA RepairInit == H!Init => RepairInv
BY DEF H!Init, H!NoShards, H!Nothing, H!Idle, RepairInv, RepairTypes, DoneExactly, Bytes

LEMMA OutsideStep ==
  ASSUME RepairInv, H!Rename \/ H!Alter \/ H!ClangdComesOrGoes \/ H!Strip \/ H!Apply
  PROVE  RepairInv'
<1>1. UNCHANGED <<shard, migrations, repairer, overwritten>>
  BY DEF H!Rename, H!Alter, H!ClangdComesOrGoes, H!Strip, H!Apply, H!cache
<1>2. UNCHANGED H!Plan(repairer.of)
  BY <1>1 DEF H!Plan
<1>. QED BY <1>1, <1>2 DEF RepairInv, RepairTypes, DoneExactly, IsBack, IsSaved

LEMMA KilledStep == ASSUME RepairInv, H!Killed PROVE RepairInv'
BY DEF RepairInv, RepairTypes, DoneExactly, H!Killed, H!cache

LEMMA WriteStep == ASSUME RepairInv, H!ClangdWrites PROVE RepairInv'
<1> USE DEF H!ClangdWrites, H!tree
<1>1. PICK h \in Headers, bytes \in {"new", "full"} :
         /\ shard' = [shard EXCEPT ![h] = bytes]
         /\ overwritten' = IF shard[h] = "none" THEN overwritten ELSE overwritten \cup {<<h, shard[h]>>}
  OBVIOUS
<1>2. RepairTypes'
  BY <1>1 DEF RepairInv, RepairTypes, Bytes
<1>3. ASSUME NEW g \in H!Plan(repairer.of), repairer # H!Idle, IsBack(repairer.of, g)
      PROVE  IsBack(repairer.of, g)'
  BY <1>1, <1>3 DEF RepairInv, RepairTypes, IsBack, H!Plan
<1>4. DoneExactly'
  BY <1>3 DEF RepairInv, DoneExactly, IsSaved, H!Plan
<1>. QED BY <1>2, <1>4 DEF RepairInv

LEMMA MigrateStep == ASSUME RepairInv, H!Migrate PROVE RepairInv'
<1> USE DEF H!Migrate, H!cache
<1>1. repairer' = [job |-> "migrate", of |-> repaired, at |-> "plan", todo |-> {}, item |-> "none"]
      /\ UNCHANGED <<shard, overwritten>>
  OBVIOUS
<1>2. CASE H!Status(repaired) = "none"
  <2>1. migrations' = H!Put(migrations, repaired, [status |-> "planning", plan |-> H!NoShards, saved |-> H!NoShards])
    BY <1>2 DEF H!Write
  <2>2. [status |-> "planning", plan |-> H!NoShards, saved |-> H!NoShards] \in Migration
    BY DEF Migration, H!NoShards, Bytes
  <2>3. RepairTypes'
    BY <1>1, <2>1, <2>2 DEF RepairInv, RepairTypes, H!Put, H!Idle, Migrating, Restoring
  <2>. QED BY <1>1, <2>3 DEF RepairInv, DoneExactly
<1>3. CASE H!Status(repaired) # "none"
  <2>1. UNCHANGED migrations /\ repaired \in DOMAIN migrations
    BY <1>3 DEF H!Status
  <2>2. RepairTypes'
    BY <1>1, <2>1 DEF RepairInv, RepairTypes, H!Idle, Migrating, Restoring
  <2>. QED BY <1>1, <2>2 DEF RepairInv, DoneExactly
<1>. QED BY <1>2, <1>3

LEMMA PlansStep == ASSUME RepairInv, H!Plans PROVE RepairInv'
<1> USE DEF H!Plans, H!cache, Migrating, Restoring
<1> DEFINE o == repairer.of
           found == [h \in Headers |-> IF h \in H!Maps(o) /\ shard[h] \in H!Empty THEN shard[h] ELSE "none"]
<1>1. UNCHANGED <<shard, overwritten>> /\ repairer # H!Idle /\ repairer.job = "migrate" /\ o \in DOMAIN migrations
  BY DEF RepairInv, RepairTypes
<1>2. CASE repairer' = H!Idle /\ UNCHANGED migrations
  BY <1>1, <1>2 DEF RepairInv, RepairTypes, DoneExactly
<1>3. CASE /\ migrations' = H!Put(migrations, o, [status |-> "pending", plan |-> found, saved |-> H!NoShards])
           /\ repairer' = [repairer EXCEPT !.at = "items", !.todo = {h \in Headers : found[h] # "none"}]
  <2>1. found \in [Headers -> Bytes]
    BY DEF RepairInv, RepairTypes, Bytes
  <2>2. [status |-> "pending", plan |-> found, saved |-> H!NoShards] \in Migration
    BY <2>1 DEF Migration, H!NoShards, Bytes
  <2> HIDE DEF found
  <2>3. DOMAIN migrations' = DOMAIN migrations /\ migrations' = [x \in DOMAIN migrations' |-> migrations'[x]]
        /\ \A x \in DOMAIN migrations' : migrations'[x] \in Migration
    BY <1>1, <1>3, <2>2 DEF H!Put, RepairInv, RepairTypes
  <2>4. repairer' \in [job : {"migrate", "restore"}, of : DOMAIN migrations,
                       at : Migrating \cup Restoring, todo : SUBSET Headers, item : Headers \cup {"none"}]
        /\ repairer'.at = "items" /\ repairer'.job = "migrate" /\ repairer'.of = o
        /\ repairer'.todo = {h \in Headers : found[h] # "none"}
    BY <1>1, <1>3 DEF RepairInv, RepairTypes
  <2>5. RepairTypes'
    BY <1>1, <2>3, <2>4 DEF RepairInv, RepairTypes
  <2>6. migrations'[o].plan = found
    BY <1>1, <1>3 DEF H!Put
  <2>7. H!Plan(repairer.of)' = repairer'.todo
    BY <2>4, <2>6 DEF H!Plan
  <2>. QED BY <2>4, <2>5, <2>7 DEF RepairInv, DoneExactly
<1>4. CASE repairer' = [repairer EXCEPT !.at = "items", !.todo = H!Plan(o)] /\ UNCHANGED migrations
  <2>1. H!Plan(o) \subseteq Headers
    BY DEF H!Plan
  <2>2. repairer' \in [job : {"migrate", "restore"}, of : DOMAIN migrations,
                       at : Migrating \cup Restoring, todo : SUBSET Headers, item : Headers \cup {"none"}]
        /\ repairer'.at = "items" /\ repairer'.job = "migrate" /\ repairer'.of = o
        /\ repairer'.todo = H!Plan(o)
    BY <1>1, <1>4, <2>1 DEF RepairInv, RepairTypes
  <2>3. RepairTypes'
    BY <1>1, <1>4, <2>2 DEF RepairInv, RepairTypes
  <2>4. H!Plan(repairer.of)' = repairer'.todo
    BY <1>4, <2>2 DEF H!Plan
  <2>. QED BY <2>2, <2>3, <2>4 DEF RepairInv, DoneExactly
<1>. QED BY <1>2, <1>3, <1>4 DEF H!Leave, H!Write

(* Steps that leave the shards and the record alone.                        *)
LEMMA ItemStep ==
  ASSUME RepairInv, H!Pick \/ H!MoveItem \/ H!Check \/ H!RestoreItem
  PROVE  RepairInv'
<1> USE DEF H!Pick, H!MoveItem, H!Check, H!RestoreItem, H!cache, H!Steps, Migrating, Restoring
<1> DEFINE o == repairer.of
<1>1. UNCHANGED <<shard, overwritten, migrations>> /\ repairer # H!Idle
  OBVIOUS
<1>3. CASE repairer' = H!Idle
  BY <1>1, <1>3 DEF RepairInv, RepairTypes, DoneExactly
<1>4. CASE H!Pick
  <2>1. PICK h \in repairer.todo : repairer' = [repairer EXCEPT !.item = h, !.at = "item"]
    BY <1>4
  <2>2. /\ repairer'.job = repairer.job /\ repairer'.of = o /\ repairer'.todo = repairer.todo
        /\ repairer'.at = "item" /\ repairer.at = "items"
    BY <1>1, <1>4, <2>1 DEF RepairInv, RepairTypes
  <2>3. RepairTypes'
    BY <1>1, <1>4, <2>1 DEF RepairInv, RepairTypes
  <2>4. DoneExactly'
    BY <1>1, <2>2 DEF RepairInv, DoneExactly, IsBack, IsSaved, H!Plan
  <2>. QED BY <2>3, <2>4 DEF RepairInv
<1>5. ASSUME H!Done,
             \/ repairer.job = "migrate" /\ repairer.at # "plan" /\ IsSaved(o, repairer.item)
             \/ repairer.job = "restore" /\ IsBack(o, repairer.item)
      PROVE  RepairInv'
  <2>1. repairer' = [repairer EXCEPT !.at = "items", !.todo = @ \ {repairer.item}]
    BY <1>5 DEF H!Done, H!Item
  <2>2. /\ repairer'.job = repairer.job /\ repairer'.of = o /\ repairer'.todo = repairer.todo \ {repairer.item}
        /\ repairer'.at = "items"
    BY <1>1, <2>1 DEF RepairInv, RepairTypes
  <2>3. RepairTypes'
    BY <1>1, <2>1 DEF RepairInv, RepairTypes
  <2>4. DoneExactly'
    BY <1>1, <1>5, <2>2 DEF RepairInv, DoneExactly, IsBack, IsSaved, H!Plan
  <2>. QED BY <2>3, <2>4 DEF RepairInv
<1>6. CASE H!MoveItem /\ H!At("move")
  <2>1. repairer' = [repairer EXCEPT !.at = "move"]
    BY <1>6 DEF H!At
  <2>2. /\ repairer'.job = repairer.job /\ repairer'.of = o /\ repairer'.todo = repairer.todo
        /\ repairer'.at = "move" /\ repairer.at = "item"
    BY <1>1, <1>6, <2>1 DEF RepairInv, RepairTypes
  <2>3. RepairTypes'
    BY <1>1, <1>6, <2>1 DEF RepairInv, RepairTypes
  <2>4. DoneExactly'
    BY <1>1, <2>2 DEF RepairInv, DoneExactly, IsBack, IsSaved, H!Plan
  <2>. QED BY <2>3, <2>4 DEF RepairInv
<1>7. CASE H!RestoreItem /\ H!At("back") /\ H!Saved = H!Planned
  <2>1. repairer' = [repairer EXCEPT !.at = "back"]
    BY <1>7 DEF H!At
  <2>2. /\ repairer'.job = repairer.job /\ repairer'.of = o /\ repairer'.todo = repairer.todo
        /\ repairer'.at = "back" /\ repairer.at = "item" /\ repairer'.item = repairer.item
    BY <1>1, <1>7, <2>1 DEF RepairInv, RepairTypes
  <2>3. RepairTypes'
    BY <1>1, <1>7, <2>1 DEF RepairInv, RepairTypes
  <2>4. IsSaved(o, repairer.item)
    BY <1>7 DEF H!Saved, H!Planned, H!Item, IsSaved
  <2>5. DoneExactly'
    BY <1>1, <2>2, <2>4 DEF RepairInv, DoneExactly, IsBack, IsSaved, H!Plan
  <2>. QED BY <2>3, <2>5 DEF RepairInv
<1>8. CASE H!MoveItem
  BY <1>3, <1>5, <1>6, <1>8 DEF H!Leave, H!Saved, H!Planned, H!Item, IsSaved
<1>9. CASE H!Check
  BY <1>3, <1>5, <1>9 DEF H!Leave, H!Unchanged, H!Saved, H!Planned, H!Item, IsSaved
<1>10. CASE H!RestoreItem
  BY <1>3, <1>5, <1>7, <1>10 DEF H!Leave, H!Original, H!Planned, H!Item, IsBack
<1>. QED BY <1>4, <1>8, <1>9, <1>10

(* The record with other bytes saved for one header.                        *)
Saving(r, h, bytes) == [r EXCEPT !.saved[h] = bytes]
LEMMA SavedBytes ==
  ASSUME NEW r \in Migration, NEW h \in Headers, NEW bytes \in Bytes
  PROVE  /\ Saving(r, h, bytes) \in Migration
         /\ Saving(r, h, bytes).plan = r.plan
         /\ \A g \in Headers \ {h} : Saving(r, h, bytes).saved[g] = r.saved[g]
BY DEF Migration, Saving

LEMMA MoveStep == ASSUME RepairInv, H!Move PROVE RepairInv'
<1> DEFINE o == repairer.of
           h == repairer.item
<1>1. /\ repairer # H!Idle /\ repairer.job = "migrate" /\ repairer.at = "move" /\ UNCHANGED overwritten
      /\ o \in DOMAIN migrations /\ h \in repairer.todo /\ h \in Headers
      /\ repairer' = [repairer EXCEPT !.at = "check"]
      /\ migrations' = [migrations EXCEPT ![o].saved[h] = shard[h]]
      /\ shard' = [shard EXCEPT ![h] = "none"]
  BY DEF RepairInv, RepairTypes, H!Move, H!Steps, H!At, H!Item
<1>2. /\ repairer'.job = "migrate" /\ repairer'.of = o /\ repairer'.todo = repairer.todo
      /\ repairer'.at = "check" /\ repairer'.item = h
  BY <1>1 DEF RepairInv, RepairTypes
<1>3. /\ DOMAIN migrations' = DOMAIN migrations /\ migrations' = [x \in DOMAIN migrations' |-> migrations'[x]]
      /\ \A x \in DOMAIN migrations : x # o => migrations'[x] = migrations[x]
      /\ migrations'[o] = Saving(migrations[o], h, shard[h])
      /\ migrations[o] \in Migration /\ shard[h] \in Bytes
  BY <1>1 DEF RepairInv, RepairTypes, Saving
<1>4. /\ \A x \in DOMAIN migrations' : migrations'[x] \in Migration
      /\ migrations'[o].plan = migrations[o].plan
      /\ \A g \in Headers \ {h} : migrations'[o].saved[g] = migrations[o].saved[g]
  <2> HIDE DEF o, h
  <2>1. \A x \in DOMAIN migrations : migrations[x] \in Migration
    BY DEF RepairInv, RepairTypes
  <2>2. /\ migrations'[o] \in Migration /\ migrations'[o].plan = migrations[o].plan
        /\ \A g \in Headers \ {h} : migrations'[o].saved[g] = migrations[o].saved[g]
    BY <1>1, <1>3, SavedBytes
  <2>. QED BY <1>3, <2>1, <2>2
<1>5. RepairTypes'
  BY <1>1, <1>2, <1>3, <1>4 DEF RepairInv, RepairTypes, Bytes, Migrating, Restoring
<1>6. H!Plan(repairer.of)' = H!Plan(o)
  BY <1>2, <1>4 DEF H!Plan
<1>7. \A g \in H!Plan(o) \ repairer.todo : IsSaved(o, g)'
  BY <1>1, <1>4 DEF RepairInv, DoneExactly, IsSaved, H!Plan
<1>8. DoneExactly'
  BY <1>2, <1>6, <1>7 DEF DoneExactly, IsSaved
<1>. QED BY <1>5, <1>8 DEF RepairInv

LEMMA RestoreStep == ASSUME RepairInv, H!Restore PROVE RepairInv'
<1> USE DEF H!Restore, H!tree, H!cache, Migrating, Restoring
<1>1. PICK o \in DOMAIN migrations :
        repairer' = [job |-> "restore", of |-> o, at |-> "items", todo |-> H!Plan(o), item |-> "none"]
  OBVIOUS
<1>2. UNCHANGED <<shard, overwritten, migrations>>
  OBVIOUS
<1>3. H!Plan(o) \subseteq Headers /\ H!Plan(o)' = H!Plan(o)
  BY <1>2 DEF H!Plan
<1>4. RepairTypes'
  BY <1>1, <1>2, <1>3 DEF RepairInv, RepairTypes
<1>5. DoneExactly'
  BY <1>1, <1>2, <1>3 DEF DoneExactly
<1>. QED BY <1>4, <1>5 DEF RepairInv

LEMMA PutBackStep == ASSUME RepairInv, H!PutBack PROVE RepairInv'
<1> DEFINE o == repairer.of
           h == repairer.item
<1>1. /\ repairer # H!Idle /\ repairer.job = "restore" /\ repairer.at = "back" /\ UNCHANGED overwritten
      /\ o \in DOMAIN migrations /\ h \in repairer.todo /\ h \in Headers /\ IsSaved(o, h)
  BY DEF RepairInv, RepairTypes, DoneExactly, H!PutBack, H!Steps
<1>2. CASE shard[h] # "none"
  <2>1. repairer' = H!Idle /\ UNCHANGED <<shard, migrations>>
    BY <1>2 DEF H!Leave, H!Item, H!PutBack
  <2>. QED BY <1>1, <2>1 DEF RepairInv, RepairTypes, DoneExactly
<1>3. CASE shard[h] = "none"
  <2>1. /\ repairer' = [repairer EXCEPT !.at = "items", !.todo = @ \ {h}]
        /\ migrations' = [migrations EXCEPT ![o].saved[h] = "none"]
        /\ shard' = [shard EXCEPT ![h] = migrations[o].saved[h]]
    BY <1>3 DEF H!Done, H!Item, H!Saved, H!PutBack
  <2>2. /\ repairer'.job = "restore" /\ repairer'.of = o /\ repairer'.todo = repairer.todo \ {h}
        /\ repairer'.at = "items"
    BY <1>1, <2>1 DEF RepairInv, RepairTypes
  <2>3. /\ DOMAIN migrations' = DOMAIN migrations /\ migrations' = [x \in DOMAIN migrations' |-> migrations'[x]]
        /\ \A x \in DOMAIN migrations : x # o => migrations'[x] = migrations[x]
        /\ migrations'[o] = Saving(migrations[o], h, "none") /\ migrations[o] \in Migration
    BY <1>1, <2>1 DEF RepairInv, RepairTypes, Saving
  <2>4. /\ \A x \in DOMAIN migrations' : migrations'[x] \in Migration
        /\ migrations'[o].plan = migrations[o].plan
    <3> HIDE DEF o, h
    <3>1. \A x \in DOMAIN migrations : migrations[x] \in Migration
      BY DEF RepairInv, RepairTypes
    <3>2. migrations'[o] \in Migration /\ migrations'[o].plan = migrations[o].plan
      <4>1. "none" \in Bytes
        BY DEF Bytes
      <4>. QED BY <1>1, <2>3, <4>1, SavedBytes
    <3>. QED BY <2>3, <3>1, <3>2
  <2>10. migrations[o].saved[h] \in Bytes
    BY <1>1, <2>3 DEF Migration
  <2>5. RepairTypes'
    BY <1>1, <2>1, <2>2, <2>3, <2>4, <2>10 DEF RepairInv, RepairTypes, Restoring
  <2>6. H!Plan(repairer.of)' = H!Plan(o)
    BY <2>2, <2>4 DEF H!Plan
  <2>7. \A g \in Headers : shard'[g] = IF g = h THEN migrations[o].plan[h] ELSE shard[g]
    BY <1>1, <2>1 DEF RepairInv, RepairTypes, IsSaved
  <2>8. \A g \in H!Plan(o) \ (repairer.todo \ {h}) : IsBack(o, g)'
    <3>1. SUFFICES ASSUME NEW g \in H!Plan(o), g \notin repairer.todo \ {h}
                   PROVE  IsBack(o, g)'
      OBVIOUS
    <3>2. g \in Headers /\ (g # h => IsBack(o, g))
      BY <1>1, <3>1 DEF RepairInv, DoneExactly, H!Plan
    <3>3. shard'[g] = (IF g = h THEN migrations[o].plan[h] ELSE shard[g]) /\ migrations'[o].plan[g] = migrations[o].plan[g]
      BY <2>4, <2>7, <3>2
    <3>4. CASE g = h
      BY <2>2, <3>3, <3>4 DEF IsBack
    <3>5. CASE g # h
      BY <1>1, <2>2, <3>2, <3>3, <3>5 DEF IsBack
    <3>. QED BY <3>4, <3>5
  <2>9. DoneExactly'
    BY <2>2, <2>6, <2>8 DEF DoneExactly, IsBack
  <2>. QED BY <2>5, <2>9 DEF RepairInv
<1>. QED BY <1>2, <1>3

LEMMA FinishStep == ASSUME RepairInv, H!Finish PROVE RepairInv'
<1> DEFINE status == IF repairer.job = "migrate" THEN "complete" ELSE "restored"
<1>1. /\ repairer' = H!Idle /\ repairer # H!Idle /\ repairer.of \in DOMAIN migrations /\ UNCHANGED shard
      /\ migrations' = [migrations EXCEPT ![repairer.of].status = status]
  BY DEF RepairInv, RepairTypes, H!Finish, H!Leave, H!cache
<1>2. /\ migrations[repairer.of] \in Migration
      /\ [migrations[repairer.of] EXCEPT !.status = status] \in Migration
  BY <1>1 DEF RepairInv, RepairTypes, Migration
<1>3. RepairTypes'
  BY <1>1, <1>2 DEF RepairInv, RepairTypes
<1>. QED BY <1>1, <1>3 DEF RepairInv, DoneExactly

LEMMA RepairKept == ASSUME RepairInv, H!Next PROVE RepairInv'
BY OutsideStep, KilledStep, WriteStep, MigrateStep, PlansStep, ItemStep, MoveStep, RestoreStep, PutBackStep,
   FinishStep DEF H!Next

(* A status says what Finish found done, or that the moves begin.           *)
LEMMA StatusSteps ==
  ASSUME RepairInv, H!Next, NEW o \in DOMAIN migrations, H!Status(o)' # H!Status(o)
  PROVE  H!Plans \/ (H!Finish /\ o = repairer.of)
<1>1. migrations' # migrations
  BY DEF H!Status
<1>2. CASE H!Migrate
  <2>1. migrations' = H!Put(migrations, repaired, [status |-> "planning", plan |-> H!NoShards, saved |-> H!NoShards])
        /\ repaired \notin DOMAIN migrations
    BY <1>1, <1>2 DEF H!Migrate, H!Write, H!Status, RepairInv, RepairTypes, Migration
  <2>. QED BY <2>1 DEF H!Put, H!Status
<1>3. CASE H!Move \/ H!PutBack
  <2>1. PICK bytes, h : migrations' = [migrations EXCEPT ![repairer.of].saved[h] = bytes]
    BY <1>1, <1>3 DEF H!Move, H!PutBack
  <2>2. o \in DOMAIN migrations' /\ migrations'[o].status = migrations[o].status
    BY <2>1 DEF RepairInv, RepairTypes, Migration
  <2>. QED BY <2>2 DEF H!Status
<1>4. CASE H!Finish
  <2>1. o # repairer.of => o \in DOMAIN migrations' /\ migrations'[o] = migrations[o]
    BY <1>4 DEF H!Finish, RepairInv, RepairTypes
  <2>. QED BY <1>4, <2>1 DEF H!Status
<1>. QED BY <1>1, <1>2, <1>3, <1>4 DEF H!Next, H!Rename, H!Alter, H!ClangdComesOrGoes, H!ClangdWrites, H!Killed,
       H!Strip, H!Apply, H!Pick, H!MoveItem, H!Check, H!Restore, H!RestoreItem

LEMMA RepairedExactly ==
  ASSUME RepairInv, H!Next, NEW o \in DOMAIN migrations, H!Status(o)' # H!Status(o), NEW h \in H!Plan(o)
  PROVE  /\ H!Status(o)' = "complete" => IsSaved(o, h)
         /\ H!Status(o)' = "restored" => IsBack(o, h)
<1>1. CASE H!Plans
  <2>1. migrations' = migrations \/ \E found : migrations' = H!Put(migrations, repairer.of,
           [status |-> "pending", plan |-> found, saved |-> H!NoShards])
    BY <1>1 DEF H!Plans, H!Write
  <2>2. H!Status(o)' = "pending"
    BY <2>1 DEF H!Status, H!Put
  <2>. QED BY <2>2
<1>2. CASE H!Finish /\ o = repairer.of
  <2>1. /\ repairer # H!Idle /\ repairer.at = "items" /\ repairer.todo = {}
        /\ H!Status(o)' = IF repairer.job = "migrate" THEN "complete" ELSE "restored"
        /\ repairer.job \in {"migrate", "restore"}
    BY <1>2 DEF H!Finish, H!Status, RepairInv, RepairTypes, Migration
  <2>. QED BY <1>2, <2>1 DEF RepairInv, DoneExactly
<1>. QED BY <1>1, <1>2, StatusSteps

LEMMA RepairSteps == [NextAll]_all => H!Next \/ UNCHANGED repair
BY DEF NextAll, ActivationStep, CohortStep, SwitchStep, ChunksStep, SuperStep, ReceiptStep, HotStep, FullStep,
       RepairStep, ClangdStep, QueryStep, BatchStep, ToolStep, all, batches, tools, repair

LEMMA RepairStutters == RepairInv /\ UNCHANGED repair => RepairInv'
BY DEF RepairInv, repair, RepairTypes, DoneExactly, IsSaved, IsBack, H!Plan

(* A migration is completed only with every planned shard in its backup as  *)
(* it was planned, and restored only with every one back, unless clangd     *)
(* wrote over it (header_path_case_cache.py).                               *)
THEOREM RepairEndsExactly == SpecAll => RepairIsExact
<1> DEFINE Exact ==
      \A o \in DOMAIN migrations : H!Status(o)' # H!Status(o) => \A h \in H!Plan(o) :
        /\ H!Status(o)' = "complete" => migrations[o].saved[h] = migrations[o].plan[h]
        /\ H!Status(o)' = "restored" => \/ shard[h] = migrations[o].plan[h]
                                        \/ <<h, migrations[o].plan[h]>> \in overwritten
<1>1. InitAll => RepairInv
  BY RepairInit DEF InitAll
<1>2. RepairInv /\ [NextAll]_all => RepairInv'
  BY RepairKept, RepairSteps, RepairStutters
<1>3. ASSUME RepairInv, [NextAll]_all PROVE [Exact]_all
  <2>1. CASE UNCHANGED repair
    BY <2>1 DEF repair, H!Status
  <2>2. CASE H!Next
    BY <2>2, <1>3, RepairedExactly DEF IsSaved, IsBack
  <2>. QED BY <1>3, <2>1, <2>2, RepairSteps
<1>. QED BY <1>1, <1>2, <1>3, PTL DEF SpecAll, RepairIsExact

-----------------------------------------------------------------------------
(* BackgroundBuild.  Both phases take the same steps: those of one phase p. *)

StepOf(p) == G!Edit \/ G!Start(p) \/ G!Hot \/ G!Full \/ G!Publish \/ G!Killed
LEMMA HotSteps == G!Next => StepOf("hot")
BY DEF G!Next, StepOf
LEMMA FullSteps == F!Next => StepOf("full")
<1>1. F!Edit => G!Edit
  BY DEF F!Edit, G!Edit, F!made, F!published, G!made, G!published
<1>2. F!Start("full") => G!Start("full")
  BY DEF F!Start, G!Start, F!made, G!made, F!Quiet, G!Quiet, F!world, G!world, F!published, G!published,
     F!Idle, G!Idle, F!Of, G!Of, F!NoFiles, G!NoFiles, F!Output, G!Output, F!None, G!None
<1>3. F!Hot => G!Hot
  BY DEF F!Hot, G!Hot, F!made, G!made, F!Quiet, G!Quiet, F!world, G!world, F!published, G!published,
     F!Idle, G!Idle, F!Of, G!Of, F!At, G!At, F!To, G!To, F!Ends, G!Ends, F!Refuses, G!Refuses,
     F!Remember, G!Remember, F!Checks, G!Checks, F!CurrentInput, G!CurrentInput, F!Cut, G!Cut,
     F!Rename, G!Rename, F!Taken, G!Taken, F!HotInputs, G!HotInputs, F!Stage, G!Stage, F!HotWrap, G!HotWrap,
     F!Outcome, G!Outcome, F!HotBatches, G!HotBatches, F!HotRefuses, G!HotRefuses
<1>4. F!Full => G!Full
  BY DEF F!Full, G!Full, F!made, G!made, F!Quiet, G!Quiet, F!world, G!world, F!published, G!published,
     F!Idle, G!Idle, F!Of, G!Of, F!At, G!At, F!To, G!To, F!Ends, G!Ends, F!Refuses, G!Refuses,
     F!Copy, G!Copy, F!Expand, G!Expand, F!Fault, G!Fault, F!FullInputs, G!FullInputs, F!WriteActive, G!WriteActive,
     F!FullWrap, G!FullWrap, F!WriteIndexer, G!WriteIndexer, F!FullBatches, G!FullBatches, F!Outcome, G!Outcome,
     F!FullRefuses, G!FullRefuses
<1>5. F!Publish => G!Publish
  BY DEF F!Publish, G!Publish, F!made, G!made, F!Quiet, G!Quiet, F!world, G!world, F!published, G!published,
     F!Idle, G!Idle, F!To, G!To, F!Ends, G!Ends, F!Fault, G!Fault, F!Phased, G!Phased, F!Now, G!Now,
     F!Differs, G!Differs, F!Changed, G!Changed, F!Files, G!Files, F!Completed, G!Completed, F!Saves, G!Saves,
     F!HasBackup, G!HasBackup, F!None, G!None, F!NoFiles, G!NoFiles, F!Output, G!Output,
     F!Prepare, G!Prepare, F!PrepareFails, G!PrepareFails, F!Replace, G!Replace, F!ReplaceFails, G!ReplaceFails,
     F!Rollback, G!Rollback, F!Evidence, G!Evidence, F!Tidy, G!Tidy, F!Exit, G!Exit, F!SameSignature, G!SameSignature
<1>6. F!Killed => G!Killed
  BY DEF F!Killed, G!Killed, F!Idle, G!Idle, F!Fault, G!Fault, F!Ends, G!Ends, F!Saves, G!Saves,
     F!HasBackup, G!HasBackup, F!Output, G!Output, F!None, G!None, F!made, G!made, F!world, G!world
<1>. QED BY <1>1, <1>2, <1>3, <1>4, <1>5, <1>6 DEF F!Next, StepOf

Reads == [of : Nat, expanded : BOOLEAN]
Contents == {G!None} \cup {<<r>> : r \in Reads} \cup {<<r, n>> : r \in Reads, n \in Nat}
HotPcs == {"request", "begin", "cut", "written", "compare", "rename", "taken", "inputs", "stage", "wrap", "batches"}
FullPcs == {"copy", "expand", "inputs", "active", "wrap", "indexer", "batches"}
Publishing == {"prepare", "replace", "rollback", "tidy", "exit"}
Job(p) == [phase : {p}, pc : Publishing \cup (IF p = "hot" THEN HotPcs ELSE FullPcs), asked : Nat, before : Nat,
           read : Reads, new : [G!Output -> Contents], todo : Seq(G!Output), done : Seq(G!Output),
           backup : [G!Output -> Contents]]
BuildTypes(p) ==
    /\ active \in Nat /\ proofs \in Nat
    /\ outputs \in [{p} -> [G!Output -> Contents]]
    /\ last \in [{p} -> [G!Output -> Contents]]
    /\ saved \in [{p} -> [G!Output -> SUBSET Contents]]
    /\ build # G!Idle => build \in Job(p)
(* What is built is of the version that was asked for.                      *)
Cutting(p) == build # G!Idle =>
    /\ build.asked <= active
    /\ p = "full" => build.read.of = build.asked
    /\ p = "hot" =>
         /\ build.pc = "written" => build.asked <= build.read.of /\ build.read.of <= active
         /\ build.pc \in {"compare", "rename", "taken", "inputs", "stage", "wrap", "batches"} =>
               build.read.of = build.asked
         /\ build.pc \in {"taken", "inputs", "stage"} => subset = build.read
         /\ build.pc \in {"wrap", "batches"} => stage = build.read
IsOutcome(got, version) == \E r \in Reads, n \in Nat :
    r.of = version /\ got = [o \in G!Output |-> IF o = "semantic" THEN <<r>> ELSE <<r, n>>]
Built == build # G!Idle =>
    /\ build.pc \in Publishing => IsOutcome(build.new, build.asked)
    /\ build.pc \notin Publishing \ {"prepare"} => build.done = <<>> /\ \A o \in G!Output : build.backup[o] = G!None
(* A file of the last complete outputs is in its place, in a rollback file  *)
(* of an ended program or in one of the program that runs.                  *)
In(o, s) == \E i \in 1..Len(s) : s[i] = o
Distinct(s) == \A i, j \in 1..Len(s) : s[i] = s[j] => i = j
Baseline(p) == \A o \in G!Output :
    \/ last[p][o] \in {G!None, outputs[p][o]} \cup saved[p][o]
    \/ build # G!Idle /\ last[p][o] = build.backup[o]
Replacing(p) == build # G!Idle =>
    /\ build.pc = "replace" =>
          /\ build.todo # <<>> /\ Distinct(build.todo)
          /\ \A o \in G!Output : IF In(o, build.todo) THEN ~In(o, build.done) /\ build.backup[o] = outputs[p][o]
                                 ELSE outputs[p][o] = build.new[o]
    /\ build.pc \in {"replace", "rollback"} =>
          /\ Distinct(build.done)
          /\ \A o \in G!Output :
                IF In(o, build.done) THEN last[p][o] \in {G!None, build.backup[o]} \cup saved[p][o]
                ELSE build.backup[o] \in {G!None, outputs[p][o]}
    /\ build.pc \in {"tidy", "exit"} =>
          \A o \in G!Output : outputs[p][o] = build.new[o] /\ last[p][o] = outputs[p][o]
BuildInv(p) == BuildTypes(p) /\ Cutting(p) /\ Built /\ Baseline(p) /\ Replacing(p)

LEMMA BuildInit == ASSUME part # "full" => G!Init, part = "full" => F!Init
                   PROVE  BuildInv(IF part = "full" THEN "full" ELSE "hot")
<1> DEFINE p == IF part = "full" THEN "full" ELSE "hot"
<1>1. /\ active = 0 /\ proofs = 0 /\ build = G!Idle /\ last = outputs
      /\ outputs = [q \in {p} |-> G!NoFiles] /\ saved = [q \in {p} |-> [o \in G!Output |-> {}]]
  BY DEF G!Init, F!Init, G!Idle, F!Idle, G!NoFiles, F!NoFiles, G!Output, F!Output, G!None, F!None
<1> HIDE DEF p
<1>2. BuildTypes(p)
  BY <1>1 DEF BuildTypes, G!NoFiles, Contents
<1>. QED BY <1>1, <1>2 DEF BuildInv, Cutting, Built, Baseline, Replacing, p

LEMMA BuildEdit == ASSUME NEW p, BuildInv(p), G!Edit PROVE BuildInv(p)'
<1>1. /\ active \in Nat /\ active' \in Nat /\ active <= active' /\ proofs' \in Nat
      /\ UNCHANGED <<subset, stage, outputs, saved, last, build>>
  BY DEF G!Edit, G!made, G!published, BuildInv, BuildTypes
<1>2. BuildTypes(p)'
  BY <1>1 DEF BuildInv, BuildTypes
<1>3. Cutting(p)'
  BY <1>1 DEF BuildInv, BuildTypes, Cutting, Job, Reads
<1>4. Built' /\ Baseline(p)' /\ Replacing(p)'
  BY <1>1 DEF BuildInv, Built, Baseline, Replacing
<1>. QED BY <1>2, <1>3, <1>4 DEF BuildInv

LEMMA BuildStarts == ASSUME NEW p \in {"hot", "full"}, BuildInv(p), G!Start(p) PROVE BuildInv(p)'
<1> DEFINE j == [phase |-> p, pc |-> IF p = "hot" THEN "request" ELSE "copy",
               asked |-> active, before |-> active, read |-> G!Of(active, p = "hot"),
               new |-> G!NoFiles, todo |-> <<>>, done |-> <<>>, backup |-> G!NoFiles]
<1>1. /\ build' = j /\ build = G!Idle /\ UNCHANGED <<subset, stage, outputs, saved, last, active, proofs>>
  BY DEF G!Start, G!made, G!Quiet, G!world, G!published
<1>2. /\ j.phase = p /\ j.pc \in HotPcs \cup FullPcs /\ j.pc \notin Publishing /\ j.asked = active
      /\ j.pc \notin {"written", "compare", "rename", "taken", "inputs", "stage", "wrap", "batches"}
      /\ j.read.of = active /\ j.done = <<>> /\ \A o \in G!Output : j.backup[o] = G!None
  BY DEF HotPcs, FullPcs, Publishing, G!Of, G!NoFiles
<1>3. G!NoFiles \in [G!Output -> Contents] /\ G!Of(active, p = "hot") \in Reads
  BY DEF G!NoFiles, Contents, G!Of, Reads, BuildInv, BuildTypes
<1>4. j \in Job(p)
  BY <1>3 DEF Job, HotPcs, FullPcs, BuildInv, BuildTypes
<1> HIDE DEF j
<1>5. BuildTypes(p)'
  BY <1>1, <1>4 DEF BuildInv, BuildTypes
<1>6. Cutting(p)' /\ Built' /\ Replacing(p)'
  BY <1>1, <1>2 DEF BuildInv, BuildTypes, Cutting, Built, Replacing, Publishing
<1>7. Baseline(p)'
  BY <1>1 DEF BuildInv, Baseline
<1>. QED BY <1>5, <1>6, <1>7 DEF BuildInv

(* Steps before anything is published.                                      *)
LEMMA BuildAdvances ==
  ASSUME NEW p, BuildInv(p), UNCHANGED <<active, proofs, outputs, saved, last>>,
         build # G!Idle, build.pc \notin Publishing, build' # G!Idle, build' \in Job(p),
         build'.done = build.done, build'.backup = build.backup,
         build'.pc \notin Publishing \ {"prepare"},
         build'.pc = "prepare" => IsOutcome(build'.new, build'.asked),
         Cutting(p)'
  PROVE  BuildInv(p)'
<1>1. BuildTypes(p)'
  BY DEF BuildInv, BuildTypes
<1>2. Built' /\ Replacing(p)'
  BY DEF BuildInv, Built, Replacing, Publishing
<1>3. Baseline(p)'
  BY DEF BuildInv, Baseline
<1>. QED BY <1>1, <1>2, <1>3 DEF BuildInv

LEMMA BuildEnds ==
  ASSUME NEW p, BuildInv(p), UNCHANGED <<active, proofs, outputs, saved, last>>,
         build # G!Idle, build.pc \notin Publishing \ {"prepare"}, build' = G!Idle
  PROVE  BuildInv(p)'
<1>1. BuildTypes(p)' /\ Cutting(p)' /\ Built' /\ Replacing(p)'
  BY DEF BuildInv, BuildTypes, Cutting, Built, Replacing
<1>2. Baseline(p)'
  BY DEF BuildInv, Built, Baseline
<1>. QED BY <1>1, <1>2 DEF BuildInv

LEMMA OutcomeOf ==
  ASSUME NEW r \in Reads, proofs \in Nat
  PROVE  IsOutcome(G!Outcome(r), r.of) /\ G!Outcome(r) \in [G!Output -> Contents]
<1>1. G!Outcome(r) = [o \in G!Output |-> IF o = "semantic" THEN <<r>> ELSE <<r, proofs>>]
  BY DEF G!Outcome, G!Output
<1>2. <<r>> \in Contents /\ <<r, proofs>> \in Contents
  BY DEF Contents
<1>. QED BY <1>1, <1>2 DEF IsOutcome

LEMMA HotKept == ASSUME NEW p \in {"hot", "full"}, BuildInv(p), G!Hot PROVE BuildInv(p)'
<1> USE DEF HotPcs, FullPcs
<1>1. UNCHANGED <<active, proofs, outputs, saved, last>> /\ build # G!Idle /\ build.pc \notin Publishing
      /\ build \in Job(p) /\ p = "hot"
  BY DEF G!Hot, G!Quiet, G!world, G!published, G!At, G!Refuses, G!Checks, G!Remember, G!CurrentInput, G!Cut,
       G!Rename, G!Taken, G!HotInputs, G!Stage, G!HotWrap, G!HotBatches, G!HotRefuses, BuildInv, BuildTypes,
       Job, Publishing
<1>2. /\ active \in Nat /\ build.read \in Reads /\ build.read.of \in Nat /\ build.asked \in Nat
      /\ proofs \in Nat
  BY <1>1 DEF BuildInv, BuildTypes, Job, Reads
<1>3. CASE build' = G!Idle
  BY <1>1, <1>3, BuildEnds DEF Publishing
<1>4. ASSUME NEW pc \in HotPcs \ {"cut"}, build' = [build EXCEPT !.pc = pc],
             pc \in {"compare", "rename", "taken", "inputs", "stage", "wrap", "batches"} => build.read.of = build.asked,
             pc \in {"taken", "inputs", "stage"} => subset' = build.read,
             pc \in {"wrap", "batches"} => stage' = build.read,
             pc # "written"
      PROVE  BuildInv(p)'
  <2>1. /\ build'.pc = pc /\ build'.read = build.read /\ build'.asked = build.asked /\ build'.done = build.done
        /\ build'.backup = build.backup /\ build' \in Job(p) /\ pc \notin Publishing
        /\ build' # G!Idle
    BY <1>1, <1>4 DEF Job, Publishing, G!Idle
  <2>2. Cutting(p)'
    BY <1>1, <1>4, <2>1 DEF Cutting, BuildInv
  <2>. QED BY <1>1, <2>1, <2>2, BuildAdvances
<1>5. CASE G!CurrentInput
  <2>1. CASE build.pc = "begin" /\ build' # G!Idle
    <3>1. build' = [build EXCEPT !.pc = "cut"]
      BY <1>5, <2>1 DEF G!CurrentInput, G!Checks, G!To, G!Ends
    <3>2. /\ build'.pc = "cut" /\ build'.read = build.read /\ build'.asked = build.asked /\ build'.done = build.done
          /\ build'.backup = build.backup /\ build' \in Job(p) /\ "cut" \notin Publishing
      BY <1>1, <3>1 DEF Job, Publishing
    <3>3. Cutting(p)'
      BY <1>1, <3>2 DEF Cutting, BuildInv
    <3>. QED BY <1>1, <2>1, <3>2, <3>3, BuildAdvances
  <2>2. CASE build.pc \in {"written", "compare"} /\ build' # G!Idle
    <3>1. /\ active = build.asked
          /\ build' = [build EXCEPT !.pc = IF build.pc = "written" THEN "compare" ELSE "rename"]
      BY <1>5, <2>2 DEF G!CurrentInput, G!Checks, G!To, G!Ends
    <3>2. build.read.of = build.asked
      BY <1>1, <1>2, <2>2, <3>1 DEF BuildInv, Cutting
    <3>. QED BY <1>4, <3>1, <3>2
  <2>. QED BY <1>3, <1>5, <2>1, <2>2 DEF G!CurrentInput, G!Checks
<1>6. CASE G!Remember
  <2>1. /\ build' = [build EXCEPT !.before = active, !.pc = "begin"]
    BY <1>6 DEF G!Remember
  <2>2. /\ build'.pc = "begin" /\ build'.read = build.read /\ build'.asked = build.asked /\ build'.done = build.done
        /\ build'.backup = build.backup /\ build' \in Job(p) /\ "begin" \notin Publishing /\ build' # G!Idle
    BY <1>1, <1>2, <2>1 DEF Job, Publishing, G!Idle
  <2>3. Cutting(p)'
    BY <1>1, <2>2 DEF Cutting, BuildInv
  <2>. QED BY <1>1, <2>2, <2>3, BuildAdvances
<1>7. CASE G!Cut
  <2>1. build' = [build EXCEPT !.read = G!Of(active, TRUE), !.pc = "written"]
    BY <1>7 DEF G!Cut
  <2>2. G!Of(active, TRUE) \in Reads /\ G!Of(active, TRUE).of = active
    BY <1>2 DEF G!Of, Reads
  <2>3. /\ build'.pc = "written" /\ build'.read.of = active /\ build'.asked = build.asked /\ build'.done = build.done
        /\ build'.backup = build.backup /\ build' \in Job(p) /\ "written" \notin Publishing /\ build' # G!Idle
    BY <1>1, <1>2, <2>1, <2>2 DEF Job, Publishing, G!Idle
  <2>4. Cutting(p)'
    BY <1>1, <1>2, <2>3 DEF Cutting, BuildInv
  <2>. QED BY <1>1, <2>3, <2>4, BuildAdvances
<1>8. CASE G!Rename \/ G!Taken \/ G!HotInputs \/ G!Stage \/ G!HotWrap
  <2>1. build.read.of = build.asked
    BY <1>1, <1>8 DEF G!Rename, G!Taken, G!HotInputs, G!Stage, G!HotWrap, G!At, BuildInv, Cutting
  <2>2. CASE G!Rename
    BY <1>4, <2>1, <2>2 DEF G!Rename, G!At, G!To
  <2>3. CASE G!Taken
    BY <1>1, <1>3, <1>4, <2>1, <2>3 DEF G!Taken, G!At, G!To, G!Ends, G!made, BuildInv, Cutting
  <2>4. CASE G!HotInputs
    BY <1>1, <1>4, <2>1, <2>4 DEF G!HotInputs, G!At, G!To, G!made, BuildInv, Cutting
  <2>5. CASE G!Stage
    BY <1>1, <1>4, <2>1, <2>5 DEF G!Stage, G!At, G!To, BuildInv, Cutting
  <2>6. CASE G!HotWrap
    BY <1>1, <1>4, <2>1, <2>6 DEF G!HotWrap, G!At, G!To, G!made, BuildInv, Cutting
  <2>. QED BY <1>8, <2>2, <2>3, <2>4, <2>5, <2>6
<1>9. CASE G!HotBatches
  <2>1. build' = [build EXCEPT !.new = G!Outcome(stage), !.pc = "prepare"] /\ build.pc = "batches"
    BY <1>9 DEF G!HotBatches, G!At
  <2>2. stage = build.read /\ build.read.of = build.asked
    BY <1>1, <2>1 DEF BuildInv, Cutting
  <2>3. IsOutcome(G!Outcome(stage), build.asked) /\ G!Outcome(stage) \in [G!Output -> Contents]
    BY <1>2, <2>2, OutcomeOf
  <2>4. /\ build'.pc = "prepare" /\ build'.read = build.read /\ build'.asked = build.asked /\ build'.done = build.done
        /\ build'.backup = build.backup /\ build' \in Job(p) /\ build' # G!Idle /\ build'.new = G!Outcome(stage)
    BY <1>1, <2>1, <2>3 DEF Job, Publishing, G!Idle
  <2>5. Cutting(p)'
    BY <1>1, <2>4 DEF Cutting, BuildInv
  <2>. QED BY <1>1, <2>3, <2>4, <2>5, BuildAdvances
<1>. QED BY <1>3, <1>5, <1>6, <1>7, <1>8, <1>9 DEF G!Hot, G!HotRefuses, G!Refuses, G!Ends

LEMMA FullKept == ASSUME NEW p \in {"hot", "full"}, BuildInv(p), G!Full PROVE BuildInv(p)'
<1> USE DEF HotPcs, FullPcs
<1>1. UNCHANGED <<active, proofs, outputs, saved, last>> /\ build # G!Idle /\ build.pc \notin Publishing
      /\ build \in Job(p) /\ p = "full" /\ build.read.of = build.asked
  BY DEF G!Full, G!Quiet, G!world, G!published, G!At, G!Refuses, G!Copy, G!Expand, G!FullInputs, G!WriteActive,
       G!FullWrap, G!WriteIndexer, G!FullBatches, G!FullRefuses, BuildInv, BuildTypes, Cutting, Job, Publishing
<1>2. active \in Nat /\ build.read \in Reads /\ build.asked \in Nat /\ proofs \in Nat /\ build.asked <= active
  BY <1>1 DEF BuildInv, BuildTypes, Cutting, Job
<1>3. CASE build' = G!Idle
  BY <1>1, <1>3, BuildEnds DEF Publishing
<1>4. ASSUME NEW pc \in FullPcs, build' = [build EXCEPT !.pc = pc]
      PROVE  BuildInv(p)'
  <2>1. /\ build'.pc = pc /\ build'.read = build.read /\ build'.asked = build.asked /\ build'.done = build.done
        /\ build'.backup = build.backup /\ build' \in Job(p) /\ pc \notin Publishing /\ build' # G!Idle
    BY <1>1, <1>4 DEF Job, Publishing, G!Idle
  <2>2. Cutting(p)'
    BY <1>1, <1>2, <2>1 DEF Cutting
  <2>. QED BY <1>1, <2>1, <2>2, BuildAdvances
<1>5. CASE G!Copy
  <2>1. build' = [build EXCEPT !.asked = active, !.read = G!Of(active, FALSE), !.pc = "expand"]
    BY <1>5 DEF G!Copy
  <2>2. G!Of(active, FALSE) \in Reads /\ G!Of(active, FALSE).of = active
    BY <1>2 DEF G!Of, Reads
  <2>3. /\ build'.pc = "expand" /\ build'.read.of = active /\ build'.asked = active /\ build'.done = build.done
        /\ build'.backup = build.backup /\ build' \in Job(p) /\ "expand" \notin Publishing /\ build' # G!Idle
    BY <1>1, <1>2, <2>1, <2>2 DEF Job, Publishing, G!Idle
  <2>4. Cutting(p)'
    BY <1>1, <1>2, <2>3 DEF Cutting
  <2>. QED BY <1>1, <2>3, <2>4, BuildAdvances
<1>6. CASE G!Expand
  <2>1. \/ build' = [build EXCEPT !.read.expanded = TRUE, !.pc = "inputs"]
        \/ build' = [build EXCEPT !.pc = "inputs"]
    BY <1>6 DEF G!Expand
  <2>2. CASE build' = [build EXCEPT !.read.expanded = TRUE, !.pc = "inputs"]
    <3>1. /\ build'.read = [build.read EXCEPT !.expanded = TRUE] /\ build'.pc = "inputs" /\ build'.asked = build.asked
          /\ build'.done = build.done /\ build'.backup = build.backup /\ build' # G!Idle
      BY <1>1, <2>2 DEF Job, G!Idle
    <3>2. build'.read \in Reads /\ build'.read.of = build.asked
      BY <1>1, <1>2, <3>1 DEF Reads
    <3>3. build' = [build EXCEPT !.read = build'.read, !.pc = "inputs"]
      BY <1>1, <2>2, <3>1 DEF Job
    <3>4. build' \in Job(p)
      BY <1>1, <3>2, <3>3 DEF Job
    <3>5. Cutting(p)'
      BY <1>1, <1>2, <3>1, <3>2 DEF Cutting
    <3>. QED BY <1>1, <3>1, <3>4, <3>5, BuildAdvances DEF Publishing
  <2>. QED BY <1>4, <2>1, <2>2
<1>7. CASE G!FullInputs \/ G!WriteActive \/ G!FullWrap \/ G!WriteIndexer
  BY <1>4, <1>7 DEF G!FullInputs, G!WriteActive, G!FullWrap, G!WriteIndexer, G!To
<1>8. CASE G!FullBatches
  <2>1. build' = [build EXCEPT !.new = G!Outcome(build.read), !.pc = "prepare"]
    BY <1>8 DEF G!FullBatches
  <2>2. IsOutcome(G!Outcome(build.read), build.asked) /\ G!Outcome(build.read) \in [G!Output -> Contents]
    BY <1>1, <1>2, OutcomeOf
  <2>3. /\ build'.pc = "prepare" /\ build'.read = build.read /\ build'.asked = build.asked /\ build'.done = build.done
        /\ build'.backup = build.backup /\ build' \in Job(p) /\ build' # G!Idle /\ build'.new = G!Outcome(build.read)
    BY <1>1, <2>1, <2>2 DEF Job, Publishing, G!Idle
  <2>4. Cutting(p)'
    BY <1>1, <1>2, <2>3 DEF Cutting
  <2>. QED BY <1>1, <2>2, <2>3, <2>4, BuildAdvances
<1>. QED BY <1>3, <1>5, <1>6, <1>7, <1>8 DEF G!Full, G!FullRefuses, G!Refuses, G!Ends

LEMMA TailFacts ==
  ASSUME NEW s \in Seq(G!Output), s # <<>>, Distinct(s)
  PROVE  /\ s[1] \in G!Output /\ Tail(s) \in Seq(G!Output) /\ Distinct(Tail(s))
         /\ \A o : In(o, Tail(s)) <=> In(o, s) /\ o # s[1]
         /\ In(s[1], s) /\ (Len(s) # 1 => Tail(s) # <<>>)
         /\ Len(s) = 1 => \A o : ~In(o, Tail(s))
<1>1. /\ Len(s) \in Nat /\ Len(s) >= 1 /\ Len(Tail(s)) = Len(s) - 1 /\ Tail(s) \in Seq(G!Output)
      /\ \A i \in 1..Len(Tail(s)) : Tail(s)[i] = s[i + 1]
  OBVIOUS
<1>2. s[1] \in G!Output /\ In(s[1], s)
  BY <1>1 DEF In
<1>3. Distinct(Tail(s))
  BY <1>1 DEF Distinct
<1>4. ASSUME NEW o PROVE In(o, Tail(s)) <=> In(o, s) /\ o # s[1]
  <2>1. ASSUME In(o, Tail(s)) PROVE In(o, s) /\ o # s[1]
    BY <1>1, <2>1 DEF In, Distinct
  <2>2. ASSUME In(o, s), o # s[1] PROVE In(o, Tail(s))
    <3>1. PICK i \in 1..Len(s) : s[i] = o
      BY <2>2 DEF In
    <3>2. i - 1 \in 1..Len(Tail(s)) /\ Tail(s)[i - 1] = o
      BY <1>1, <2>2, <3>1
    <3>. QED BY <3>2 DEF In
  <2>. QED BY <2>1, <2>2
<1>5. Len(s) # 1 => Tail(s) # <<>>
  <2>1. Len(<<>>) = 0
    OBVIOUS
  <2>. QED BY <1>1, <2>1
<1>6. Len(s) = 1 => \A o : ~In(o, Tail(s))
  <2>1. Len(s) = 1 => 1..Len(Tail(s)) = {}
    BY <1>1
  <2>. QED BY <2>1 DEF In
<1>. QED BY <1>1, <1>2, <1>3, <1>4, <1>5, <1>6

LEMMA ConsFacts ==
  ASSUME NEW s \in Seq(G!Output), NEW x \in G!Output, Distinct(s), ~In(x, s)
  PROVE  /\ <<x>> \o s \in Seq(G!Output) /\ Distinct(<<x>> \o s)
         /\ \A o : In(o, <<x>> \o s) <=> o = x \/ In(o, s)
<1> DEFINE t == <<x>> \o s
<1>1. /\ t \in Seq(G!Output) /\ Len(s) \in Nat /\ Len(t) = Len(s) + 1 /\ t[1] = x
      /\ \A i \in 1..Len(s) : t[i + 1] = s[i]
  OBVIOUS
<1> HIDE DEF t
<1>2. \A i \in 1..Len(t) : i = 1 \/ (i - 1 \in 1..Len(s) /\ t[i] = s[i - 1])
  BY <1>1
<1>3. Distinct(t)
  <2>1. ASSUME NEW i \in 1..Len(t), NEW j \in 1..Len(t), t[i] = t[j], i # j PROVE FALSE
    <3>1. CASE i = 1
      <4>1. j - 1 \in 1..Len(s) /\ s[j - 1] = x
        BY <1>1, <1>2, <2>1, <3>1
      <4>. QED BY <4>1 DEF In
    <3>2. CASE j = 1
      <4>1. i - 1 \in 1..Len(s) /\ s[i - 1] = x
        BY <1>1, <1>2, <2>1, <3>2
      <4>. QED BY <4>1 DEF In
    <3>3. CASE i # 1 /\ j # 1
      <4>1. i - 1 \in 1..Len(s) /\ j - 1 \in 1..Len(s) /\ s[i - 1] = s[j - 1] /\ i - 1 # j - 1
        BY <1>1, <1>2, <2>1, <3>3
      <4>. QED BY <4>1 DEF Distinct
    <3>. QED BY <3>1, <3>2, <3>3
  <2>. QED BY <2>1 DEF Distinct
<1>4. ASSUME NEW o PROVE In(o, t) <=> o = x \/ In(o, s)
  <2>1. ASSUME In(o, s) PROVE In(o, t)
    <3>1. PICK i \in 1..Len(s) : s[i] = o
      BY <2>1 DEF In
    <3>2. i + 1 \in 1..Len(t) /\ t[i + 1] = o
      BY <1>1, <3>1
    <3>. QED BY <3>2 DEF In
  <2>2. In(x, t)
    BY <1>1 DEF In
  <2>3. ASSUME In(o, t) PROVE o = x \/ In(o, s)
    BY <1>1, <1>2, <2>3 DEF In
  <2>. QED BY <2>1, <2>2, <2>3
<1>. QED BY <1>1, <1>3, <1>4 DEF t

LEMMA ChangedFacts ==
  ASSUME NEW s \in Seq(G!Output), NEW x \in G!Output, Distinct(s), ~In(x, s)
  PROVE  /\ G!Changed(x) \o s \in Seq(G!Output) /\ Distinct(G!Changed(x) \o s)
         /\ \A o : In(o, G!Changed(x) \o s) <=> (o = x /\ G!Differs(x)) \/ In(o, s)
<1>1. CASE G!Differs(x)
  <2>1. G!Changed(x) = <<x>>
    BY <1>1 DEF G!Changed
  <2>. QED BY <1>1, <2>1, ConsFacts
<1>2. CASE ~G!Differs(x)
  <2>1. G!Changed(x) \o s = s
    BY <1>2 DEF G!Changed
  <2>. QED BY <1>2, <2>1
<1>. QED BY <1>1, <1>2

LEMMA FilesFacts ==
  /\ G!Files \in Seq(G!Output) /\ Distinct(G!Files)
  /\ \A o \in G!Output : In(o, G!Files) <=> G!Differs(o)
  /\ G!Files = <<>> => \A o \in G!Output : ~G!Differs(o)
<1> DEFINE c == G!Changed("marker") \o <<>>
           b == G!Changed("semantic") \o c
           a == G!Changed("background") \o b
<1>1. <<>> \in Seq(G!Output) /\ Distinct(<<>>) /\ \A o : ~In(o, <<>>)
  BY DEF Distinct, In
<1>2. "marker" \in G!Output /\ "semantic" \in G!Output /\ "background" \in G!Output
  BY DEF G!Output
<1>3. c \in Seq(G!Output) /\ Distinct(c) /\ \A o : In(o, c) <=> o = "marker" /\ G!Differs("marker")
  BY <1>1, <1>2, ChangedFacts
<1> HIDE DEF c
<1>4. /\ b \in Seq(G!Output) /\ Distinct(b)
      /\ \A o : In(o, b) <=> (o = "semantic" /\ G!Differs("semantic")) \/ In(o, c)
  <2>1. ~In("semantic", c)
    BY <1>3
  <2>. QED BY <1>2, <1>3, <2>1, ChangedFacts
<1> HIDE DEF b
<1>5. /\ a \in Seq(G!Output) /\ Distinct(a)
      /\ \A o : In(o, a) <=> (o = "background" /\ G!Differs("background")) \/ In(o, b)
  <2>1. ~In("background", b)
    BY <1>3, <1>4
  <2>. QED BY <1>2, <1>4, <2>1, ChangedFacts
<1>6. G!Files = a
  <2>1. ASSUME NEW o PROVE G!Changed(o) \in Seq({o})
    <3>1. <<o>> \in Seq({o}) /\ <<>> \in Seq({o})
      OBVIOUS
    <3>. QED BY <3>1 DEF G!Changed
  <2>. QED BY <2>1 DEF G!Files, a, b, c
<1>7. \A o \in G!Output : In(o, G!Files) <=> G!Differs(o)
  BY <1>3, <1>4, <1>5, <1>6 DEF G!Output
<1>. QED BY <1>1, <1>5, <1>6, <1>7

LEMMA PrepareKept == ASSUME NEW p \in {"hot", "full"}, BuildInv(p), G!Prepare PROVE BuildInv(p)'
<1> DEFINE now == outputs[p]
           backup == [o \in G!Output |-> IF now[o] # build.new[o] THEN now[o] ELSE G!None]
<1>1. /\ build # G!Idle /\ build.pc = "prepare" /\ build \in Job(p) /\ build.phase = p
      /\ UNCHANGED <<active, proofs, subset, stage, outputs, saved>>
      /\ now \in [G!Output -> Contents] /\ build.new \in [G!Output -> Contents]
  BY DEF G!Prepare, G!Phased, G!made, G!world, BuildInv, BuildTypes, Job
<1>2. /\ \A o \in G!Output : G!Differs(o) <=> now[o] # build.new[o]
      /\ build' = [build EXCEPT !.pc = IF G!Files = <<>> THEN "tidy" ELSE "replace", !.todo = G!Files,
                                !.backup = backup]
      /\ IF G!Files = <<>> THEN last' = [last EXCEPT ![p] = now] ELSE UNCHANGED last
  BY <1>1 DEF G!Prepare, G!Differs, G!Now, G!Completed
<1>3. backup \in [G!Output -> Contents]
  BY <1>1 DEF Contents
<1>4. /\ build'.pc = (IF G!Files = <<>> THEN "tidy" ELSE "replace") /\ build'.todo = G!Files
      /\ build'.backup = backup /\ build'.read = build.read /\ build'.asked = build.asked
      /\ build'.done = <<>> /\ build'.new = build.new /\ build' \in Job(p) /\ build' # G!Idle
  BY <1>1, <1>2, <1>3, FilesFacts DEF Job, Publishing, BuildInv, Built, G!Idle
<1> HIDE DEF backup, now
<1>5. BuildTypes(p)'
  BY <1>1, <1>2, <1>4 DEF BuildInv, BuildTypes
<1>6. Cutting(p)' /\ Built'
  BY <1>1, <1>4 DEF BuildInv, Cutting, Built, Publishing, HotPcs
<1>7. \A o : ~In(o, build'.done)
  BY <1>4 DEF In
<1>8. ASSUME NEW o \in G!Output
      PROVE  /\ IF now[o] # build.new[o] THEN build'.backup[o] = now[o] ELSE build'.backup[o] = G!None
             /\ last[p][o] \in {G!None, now[o]} \cup saved[p][o]
  BY <1>1, <1>4 DEF backup, now, BuildInv, Built, Baseline
<1>9. CASE G!Files = <<>>
  <2>1. last'[p] = now /\ \A o \in G!Output : now[o] = build.new[o]
    BY <1>1, <1>2, <1>9, FilesFacts DEF BuildInv, BuildTypes
  <2>. QED BY <1>1, <1>4, <1>5, <1>6, <1>9, <2>1 DEF BuildInv, Baseline, Replacing, now
<1>10. CASE G!Files # <<>>
  <2>1. UNCHANGED last /\ build'.pc = "replace"
    BY <1>2, <1>4, <1>10
  <2>2. Baseline(p)'
    BY <1>1, <1>8, <2>1 DEF Baseline, now
  <2>3. Distinct(build'.done)
    BY <1>4 DEF Distinct
  <2>4. \A o \in G!Output : In(o, build'.todo) <=> now[o] # build.new[o]
    BY <1>2, <1>4, FilesFacts
  <2>5. Replacing(p)'
    BY <1>1, <1>4, <1>7, <1>8, <1>10, <2>1, <2>3, <2>4, FilesFacts DEF Replacing, now
  <2>. QED BY <1>5, <1>6, <2>2, <2>5 DEF BuildInv
<1>. QED BY <1>9, <1>10

LEMMA ReplaceKept == ASSUME NEW p \in {"hot", "full"}, BuildInv(p), G!Replace PROVE BuildInv(p)'
<1> DEFINE x == build.todo[1]
           now == [outputs[p] EXCEPT ![x] = build.new[x]]
           over == Len(build.todo) = 1
<1>1. /\ build # G!Idle /\ build.pc = "replace" /\ build \in Job(p) /\ build.phase = p
      /\ UNCHANGED <<active, proofs, subset, stage, saved>>
      /\ build.new \in [G!Output -> Contents] /\ build.todo \in Seq(G!Output) /\ build.done \in Seq(G!Output)
      /\ outputs' = [outputs EXCEPT ![p] = now]
      /\ build' = [build EXCEPT !.todo = Tail(@), !.done = <<x>> \o @, !.pc = IF over THEN "tidy" ELSE "replace"]
      /\ IF over THEN last' = [last EXCEPT ![p] = now] ELSE UNCHANGED last
  BY DEF G!Replace, G!Phased, G!made, G!world, G!Now, G!Completed, BuildInv, BuildTypes, Job
<1>2. build.todo # <<>> /\ Distinct(build.todo) /\ Distinct(build.done)
  BY <1>1 DEF BuildInv, Replacing
<1>3. /\ x \in G!Output /\ In(x, build.todo) /\ Tail(build.todo) \in Seq(G!Output) /\ Distinct(Tail(build.todo))
      /\ \A o : In(o, Tail(build.todo)) <=> In(o, build.todo) /\ o # x
      /\ ~over => Tail(build.todo) # <<>>
      /\ over => \A o : ~In(o, Tail(build.todo))
  BY <1>1, <1>2, TailFacts
<1>4. ~In(x, build.done) /\ build.backup[x] = outputs[p][x]
  BY <1>1, <1>3 DEF BuildInv, Replacing
<1>5. /\ <<x>> \o build.done \in Seq(G!Output) /\ Distinct(<<x>> \o build.done)
      /\ \A o : In(o, <<x>> \o build.done) <=> o = x \/ In(o, build.done)
  BY <1>1, <1>2, <1>3, <1>4, ConsFacts
<1>6. /\ now \in [G!Output -> Contents] /\ outputs'[p] = now
      /\ \A o \in G!Output : now[o] = IF o = x THEN build.new[o] ELSE outputs[p][o]
  BY <1>1, <1>3 DEF BuildInv, BuildTypes
<1> HIDE DEF x, now, over
<1>7. /\ build'.pc = (IF over THEN "tidy" ELSE "replace") /\ build'.todo = Tail(build.todo)
      /\ build'.done = <<x>> \o build.done /\ build'.backup = build.backup /\ build'.read = build.read
      /\ build'.asked = build.asked /\ build'.new = build.new /\ build' \in Job(p) /\ build' # G!Idle
  BY <1>1, <1>3, <1>5 DEF Job, Publishing, G!Idle
<1>8. BuildTypes(p)'
  BY <1>1, <1>6, <1>7 DEF BuildInv, BuildTypes
<1>9. Cutting(p)' /\ Built'
  BY <1>1, <1>7 DEF BuildInv, Cutting, Built, Publishing, HotPcs
<1>10. ASSUME NEW o \in G!Output
       PROVE  /\ last[p][o] \in {G!None, outputs[p][o]} \cup saved[p][o] \/ last[p][o] = build.backup[o]
              /\ In(o, build.todo) => build.backup[o] = outputs[p][o]
              /\ ~In(o, build.todo) => outputs[p][o] = build.new[o]
              /\ In(o, build.done) => last[p][o] \in {G!None, build.backup[o]} \cup saved[p][o]
              /\ ~In(o, build.done) => build.backup[o] \in {G!None, outputs[p][o]}
              /\ In(o, build.todo) => ~In(o, build.done)
  BY <1>1 DEF BuildInv, Baseline, Replacing
<1>11. CASE over
  <2>1. last'[p] = now /\ build'.pc = "tidy"
    BY <1>1, <1>7, <1>11 DEF BuildInv, BuildTypes
  <2>2. \A o \in G!Output : now[o] = build.new[o]
    BY <1>3, <1>6, <1>10, <1>11
  <2>3. Baseline(p)'
    BY <1>6, <2>1 DEF Baseline
  <2>4. Replacing(p)'
    BY <1>6, <1>7, <2>1, <2>2 DEF Replacing
  <2>. QED BY <1>8, <1>9, <2>3, <2>4 DEF BuildInv
<1>12. CASE ~over
  <2>1. UNCHANGED last /\ build'.pc = "replace"
    BY <1>1, <1>7, <1>12
  <2>2. Baseline(p)'
    BY <1>1, <1>4, <1>6, <1>7, <1>10, <2>1 DEF Baseline
  <2>3. ASSUME NEW o \in G!Output
        PROVE  IF In(o, build'.todo) THEN ~In(o, build'.done) /\ build'.backup[o] = outputs'[p][o]
               ELSE outputs'[p][o] = build'.new[o]
    <3>1. /\ In(o, build'.todo) <=> In(o, build.todo) /\ o # x
          /\ In(o, build'.done) <=> o = x \/ In(o, build.done)
      BY <1>3, <1>5, <1>7
    <3>. QED BY <1>3, <1>6, <1>7, <1>10, <3>1
  <2>4. ASSUME NEW o \in G!Output
        PROVE  IF In(o, build'.done) THEN last'[p][o] \in {G!None, build'.backup[o]} \cup saved'[p][o]
               ELSE build'.backup[o] \in {G!None, outputs'[p][o]}
    <3>1. /\ In(o, build'.done) <=> o = x \/ In(o, build.done)
          /\ UNCHANGED <<last, saved>>
      BY <1>1, <1>5, <1>7, <2>1
    <3>. QED BY <1>3, <1>4, <1>6, <1>7, <1>10, <3>1
  <2>5. Replacing(p)'
    BY <1>3, <1>5, <1>7, <1>12, <2>1, <2>3, <2>4 DEF Replacing
  <2>. QED BY <1>8, <1>9, <2>2, <2>5 DEF BuildInv
<1>. QED BY <1>11, <1>12

LEMMA RollbackKept ==
  ASSUME NEW p \in {"hot", "full"}, BuildInv(p), G!ReplaceFails \/ G!Rollback
  PROVE  BuildInv(p)'
<1>1. /\ build # G!Idle /\ build.pc \in {"replace", "rollback"} /\ build \in Job(p) /\ build.phase = p
      /\ UNCHANGED <<active, proofs, subset, stage, last>>
      /\ build.done \in Seq(G!Output) /\ build.backup \in [G!Output -> Contents] /\ Distinct(build.done)
  BY DEF G!ReplaceFails, G!Rollback, G!Phased, G!made, G!world, G!published, BuildInv, BuildTypes, Replacing, Job
<1>2. \A o \in G!Output :
         /\ last[p][o] \in {G!None, outputs[p][o]} \cup saved[p][o] \/ last[p][o] = build.backup[o]
         /\ In(o, build.done) => last[p][o] \in {G!None, build.backup[o]} \cup saved[p][o]
         /\ ~In(o, build.done) => build.backup[o] \in {G!None, outputs[p][o]}
  BY <1>1 DEF BuildInv, Baseline, Replacing
<1>3. CASE G!ReplaceFails
  <2>1. build' = [build EXCEPT !.pc = "rollback"] /\ UNCHANGED <<outputs, saved>>
    BY <1>3 DEF G!ReplaceFails, G!To, G!published
  <2>2. /\ build'.pc = "rollback" /\ build'.done = build.done /\ build'.backup = build.backup
        /\ build'.read = build.read /\ build'.asked = build.asked /\ build'.new = build.new
        /\ build' \in Job(p) /\ build' # G!Idle
    BY <1>1, <2>1 DEF Job, Publishing, G!Idle
  <2>3. BuildTypes(p)' /\ Cutting(p)' /\ Built'
    BY <1>1, <2>1, <2>2 DEF BuildInv, BuildTypes, Cutting, Built, Publishing, HotPcs
  <2>4. Baseline(p)' /\ Replacing(p)'
    BY <1>1, <1>2, <2>1, <2>2 DEF Baseline, Replacing
  <2>. QED BY <2>3, <2>4 DEF BuildInv
<1>4. CASE /\ build.done # <<>> /\ UNCHANGED saved
           /\ outputs' = [outputs EXCEPT ![p][build.done[1]] = build.backup[build.done[1]]]
           /\ build' = [build EXCEPT !.done = Tail(@), !.backup[build.done[1]] = G!None]
           /\ build.pc = "rollback"
  <2> DEFINE x == build.done[1]
             now == [outputs[p] EXCEPT ![x] = build.backup[x]]
             backup == [build.backup EXCEPT ![x] = G!None]
  <2>1. /\ x \in G!Output /\ In(x, build.done) /\ Tail(build.done) \in Seq(G!Output) /\ Distinct(Tail(build.done))
        /\ \A o : In(o, Tail(build.done)) <=> In(o, build.done) /\ o # x
    BY <1>1, <1>4, TailFacts
  <2>2. /\ now \in [G!Output -> Contents] /\ backup \in [G!Output -> Contents]
        /\ \A o \in G!Output : now[o] = IF o = x THEN build.backup[x] ELSE outputs[p][o]
        /\ \A o \in G!Output : backup[o] = IF o = x THEN G!None ELSE build.backup[o]
    BY <1>1, <2>1 DEF BuildInv, BuildTypes, Contents
  <2>3. outputs' = [outputs EXCEPT ![p] = now] /\ build' = [build EXCEPT !.done = Tail(@), !.backup = backup]
    BY <1>1, <1>4, <2>1 DEF BuildInv, BuildTypes, Job
  <2> HIDE DEF now, backup, x
  <2>4. outputs' \in [{p} -> [G!Output -> Contents]] /\ outputs'[p] = now
    BY <2>2, <2>3 DEF BuildInv, BuildTypes
  <2>5. /\ build'.pc = "rollback" /\ build'.done = Tail(build.done) /\ build'.backup = backup
        /\ build'.read = build.read /\ build'.asked = build.asked /\ build'.new = build.new
        /\ build' \in Job(p) /\ build' # G!Idle
    BY <1>1, <1>4, <2>1, <2>2, <2>3 DEF Job, Publishing, G!Idle
  <2>6. BuildTypes(p)' /\ Cutting(p)' /\ Built'
    BY <1>1, <1>4, <2>4, <2>5 DEF BuildInv, BuildTypes, Cutting, Built, Publishing, HotPcs
  <2>7. ASSUME NEW o \in G!Output
        PROVE  /\ last'[p][o] \in {G!None, outputs'[p][o]} \cup saved'[p][o] \/ last'[p][o] = build'.backup[o]
               /\ IF In(o, build'.done) THEN last'[p][o] \in {G!None, build'.backup[o]} \cup saved'[p][o]
                  ELSE build'.backup[o] \in {G!None, outputs'[p][o]}
    <3>1. In(o, build'.done) <=> In(o, build.done) /\ o # x
      BY <2>1, <2>5
    <3>2. /\ build'.backup[o] = (IF o = x THEN G!None ELSE build.backup[o])
          /\ outputs'[p][o] = (IF o = x THEN build.backup[x] ELSE outputs[p][o])
          /\ UNCHANGED <<last, saved>>
      BY <1>1, <1>4, <2>2, <2>4, <2>5
    <3>. QED BY <1>2, <2>1, <3>1, <3>2
  <2>8. Baseline(p)' /\ Replacing(p)'
    BY <2>1, <2>5, <2>7 DEF Baseline, Replacing
  <2>. QED BY <2>6, <2>8 DEF BuildInv
<1>5. CASE G!Saves(build, G!Evidence(build)) /\ build' = G!Idle /\ UNCHANGED outputs
  <2> DEFINE kept == [o \in G!Output |-> saved[p][o] \cup {build.backup[o] : x \in {o} \cap G!Evidence(build)}]
  <2>1. saved' = [saved EXCEPT ![p] = kept]
    BY <1>1, <1>5 DEF G!Saves
  <2>2. \A o \in G!Output : kept[o] \subseteq Contents /\ saved[p][o] \subseteq kept[o]
    BY <1>1 DEF BuildInv, BuildTypes
  <2>3. \A o \in G!Output : In(o, build.done) /\ build.backup[o] # G!None => build.backup[o] \in kept[o]
    BY <1>1 DEF G!Evidence, G!HasBackup, In
  <2> HIDE DEF kept
  <2>4. kept \in [G!Output -> SUBSET Contents]
    BY <2>2 DEF kept
  <2>5. saved' \in [{p} -> [G!Output -> SUBSET Contents]] /\ saved'[p] = kept
    BY <2>1, <2>4 DEF BuildInv, BuildTypes
  <2>6. BuildTypes(p)' /\ Cutting(p)' /\ Built' /\ Replacing(p)'
    BY <1>1, <1>5, <2>5 DEF BuildInv, BuildTypes, Cutting, Built, Replacing
  <2>7. Baseline(p)'
    BY <1>1, <1>2, <1>5, <2>2, <2>3, <2>5 DEF Baseline
  <2>. QED BY <2>6, <2>7 DEF BuildInv
<1>6. CASE G!Rollback
  BY <1>1, <1>4, <1>5, <1>6 DEF G!Rollback, G!Phased, G!Ends
<1>. QED BY <1>3, <1>6

(* A program that ends with its rollback files beside it.                   *)
LEMMA SavesKept ==
  ASSUME NEW p \in {"hot", "full"}, BuildInv(p), build # G!Idle, G!Saves(build, G!HasBackup(build)), build' = G!Idle,
         UNCHANGED <<active, proofs, outputs, last>>
  PROVE  BuildInv(p)'
<1> DEFINE kept == [o \in G!Output |-> saved[p][o] \cup {build.backup[o] : x \in {o} \cap G!HasBackup(build)}]
<1>1. build \in Job(p) /\ build.phase = p /\ build.backup \in [G!Output -> Contents]
  BY DEF BuildInv, BuildTypes, Job
<1>2. saved' = [saved EXCEPT ![p] = kept]
  BY <1>1 DEF G!Saves
<1>3. \A o \in G!Output : kept[o] \subseteq Contents /\ saved[p][o] \subseteq kept[o]
  BY <1>1 DEF BuildInv, BuildTypes
<1>4. \A o \in G!Output : build.backup[o] # G!None => build.backup[o] \in kept[o]
  BY <1>1 DEF G!HasBackup
<1> HIDE DEF kept
<1>5. kept \in [G!Output -> SUBSET Contents]
  BY <1>3 DEF kept
<1>6. saved' \in [{p} -> [G!Output -> SUBSET Contents]] /\ saved'[p] = kept
  BY <1>2, <1>5 DEF BuildInv, BuildTypes
<1>7. BuildTypes(p)' /\ Cutting(p)' /\ Built' /\ Replacing(p)'
  BY <1>6 DEF BuildInv, BuildTypes, Cutting, Built, Replacing
<1>8. Baseline(p)'
  BY <1>3, <1>4, <1>6 DEF BuildInv, Baseline
<1>. QED BY <1>7, <1>8 DEF BuildInv

LEMMA TidyKept == ASSUME NEW p \in {"hot", "full"}, BuildInv(p), G!Tidy PROVE BuildInv(p)'
<1>1. /\ build # G!Idle /\ build.pc = "tidy" /\ build \in Job(p)
      /\ UNCHANGED <<active, proofs, subset, stage, outputs, last>>
  BY DEF G!Tidy, G!Phased, G!made, G!world, BuildInv, BuildTypes
<1>2. CASE build' = [build EXCEPT !.pc = "exit", !.backup = G!NoFiles] /\ UNCHANGED saved
  <2>1. G!NoFiles \in [G!Output -> Contents]
    BY DEF G!NoFiles, Contents
  <2>2. /\ build'.pc = "exit" /\ build'.read = build.read /\ build'.asked = build.asked /\ build'.new = build.new
        /\ build' \in Job(p) /\ build' # G!Idle
    BY <1>1, <1>2, <2>1 DEF Job, Publishing, G!Idle
  <2>3. BuildTypes(p)' /\ Cutting(p)' /\ Built'
    BY <1>1, <1>2, <2>2 DEF BuildInv, BuildTypes, Cutting, Built, Publishing, HotPcs
  <2>4. Baseline(p)' /\ Replacing(p)'
    BY <1>1, <1>2, <2>2 DEF BuildInv, Baseline, Replacing
  <2>. QED BY <2>3, <2>4 DEF BuildInv
<1>. QED BY <1>1, <1>2, SavesKept DEF G!Tidy, G!Ends

LEMMA ExitKept == ASSUME NEW p \in {"hot", "full"}, BuildInv(p), G!Exit PROVE BuildInv(p)'
<1>1. /\ build # G!Idle /\ build.pc = "exit" /\ build' = G!Idle
      /\ UNCHANGED <<active, proofs, subset, stage, outputs, last, saved>>
  BY DEF G!Exit, G!Phased, G!Ends, G!made, G!Quiet, G!world, G!published
<1>2. BuildTypes(p)' /\ Cutting(p)' /\ Built' /\ Replacing(p)'
  BY <1>1 DEF BuildInv, BuildTypes, Cutting, Built, Replacing
<1>3. Baseline(p)'
  BY <1>1 DEF BuildInv, Baseline, Replacing
<1>. QED BY <1>2, <1>3 DEF BuildInv

LEMMA BuildKept == ASSUME NEW p \in {"hot", "full"}, BuildInv(p), StepOf(p) PROVE BuildInv(p)'
<1>1. CASE G!PrepareFails
  <2>1. UNCHANGED <<active, proofs, outputs, saved, last>> /\ build # G!Idle /\ build.pc = "prepare" /\ build' = G!Idle
    BY <1>1 DEF G!PrepareFails, G!Phased, G!Ends, G!world, G!published
  <2>. QED BY <2>1, BuildEnds
<1>2. CASE G!Killed
  BY <1>2, SavesKept DEF G!Killed, G!Ends, G!world
<1>. QED BY <1>1, <1>2, BuildEdit, BuildStarts, HotKept, FullKept, PrepareKept, ReplaceKept, RollbackKept, TidyKept,
            ExitKept DEF StepOf, G!Publish

(* Only Exit says "ready".                                                  *)
LEMMA ReadyIsOne ==
  ASSUME NEW p \in {"hot", "full"}, BuildInv(p), StepOf(p), build # G!Idle, build' = G!Idle, report' = "ready"
  PROVE  /\ G!Agree(outputs[build.phase])
         /\ outputs[build.phase].semantic[1].of = IF build.phase = "hot" THEN active ELSE build.asked
<1>1. /\ build \in Job(p) /\ build.phase = p /\ build.pc \in Publishing \cup HotPcs \cup FullPcs
  BY DEF BuildInv, BuildTypes, Job
<1>2. G!Exit
  <2>1. CASE G!Edit \/ G!Start(p)
    BY <2>1 DEF G!Edit, G!Start
  <2>2. CASE G!Hot
    <3>1. \A pc : [build EXCEPT !.pc = pc] # G!Idle
      BY <1>1 DEF Job, G!Idle
    <3>2. CASE G!Remember \/ G!Cut \/ G!HotBatches
      BY <1>1, <3>2 DEF G!Remember, G!Cut, G!HotBatches, Job, G!Idle
    <3>3. CASE G!CurrentInput \/ G!Rename \/ G!Taken \/ G!HotInputs \/ G!Stage \/ G!HotWrap \/ G!HotRefuses
      BY <3>1, <3>3 DEF G!To, G!Ends, G!Refuses, G!CurrentInput, G!Rename, G!Taken, G!HotInputs, G!Stage, G!HotWrap,
         G!HotRefuses
    <3>. QED BY <2>2, <3>2, <3>3 DEF G!Hot
  <2>3. CASE G!Full
    BY <1>1, <2>3 DEF G!Full, G!At, G!To, G!Ends, G!Refuses, G!Copy, G!Expand, G!FullInputs, G!WriteActive,
       G!FullWrap, G!WriteIndexer, G!FullBatches, G!FullRefuses, Job, G!Idle
  <2>4. CASE G!Prepare \/ G!PrepareFails \/ G!Replace \/ G!ReplaceFails \/ G!Rollback \/ G!Tidy
    BY <1>1, <2>4 DEF G!Prepare, G!PrepareFails, G!Replace, G!ReplaceFails, G!Rollback, G!Tidy, G!To, G!Ends, Job, G!Idle
  <2>5. CASE G!Killed
    BY <2>5 DEF G!Killed, G!Ends
  <2>. QED BY <2>1, <2>2, <2>3, <2>4, <2>5 DEF StepOf, G!Publish
<1>3. build.pc = "exit" /\ (p = "hot" => active = build.asked)
  BY <1>1, <1>2 DEF G!Exit, G!Phased, G!Ends, G!SameSignature
<1>4. PICK r \in Reads, n \in Nat :
         r.of = build.asked /\ \A o \in G!Output : build.new[o] = IF o = "semantic" THEN <<r>> ELSE <<r, n>>
  BY <1>3 DEF BuildInv, Built, IsOutcome, Publishing
<1>5. \A o \in G!Output : outputs[p][o] = IF o = "semantic" THEN <<r>> ELSE <<r, n>>
  BY <1>3, <1>4 DEF BuildInv, Replacing
<1>6. outputs[p].semantic = <<r>> /\ outputs[p].background = <<r, n>> /\ outputs[p].marker = <<r, n>>
  BY <1>5 DEF G!Output
<1>. QED BY <1>1, <1>3, <1>4, <1>6 DEF G!Agree

LEMMA BaselineHolds == ASSUME NEW p \in {"hot", "full"}, BuildInv(p)
                       PROVE  IF p = "full" THEN F!BaselineKept ELSE G!BaselineKept
<1>1. build # G!Idle => build.phase = p
  BY DEF BuildInv, BuildTypes, Job
<1>. QED BY <1>1 DEF BuildInv, Baseline, F!BaselineKept, G!BaselineKept, F!Running, G!Running, F!Idle, G!Idle,
                    F!Output, G!Output, F!None, G!None

PhaseOf == IF part = "full" THEN "full" ELSE "hot"
LEMMA BuildSteps == [NextAll]_all => UNCHANGED part /\ (StepOf(PhaseOf) \/ UNCHANGED building)
<1>1. [NextAll]_all => UNCHANGED part
  BY DEF NextAll, ActivationStep, CohortStep, SwitchStep, ChunksStep, SuperStep, ReceiptStep, HotStep, FullStep,
       RepairStep, ClangdStep, QueryStep, BatchStep, ToolStep, all
<1>2. [NextAll]_all => (part = "hot" /\ G!Next) \/ (part = "full" /\ F!Next) \/ UNCHANGED building
  BY DEF NextAll, ActivationStep, CohortStep, SwitchStep, ChunksStep, SuperStep, ReceiptStep, HotStep, FullStep,
       RepairStep, ClangdStep, QueryStep, BatchStep, ToolStep, all, batches, tools, building
<1>. QED BY <1>1, <1>2, HotSteps, FullSteps DEF PhaseOf

LEMMA BuildStutters == ASSUME NEW p, BuildInv(p), UNCHANGED building PROVE BuildInv(p)'
BY DEF BuildInv, building, BuildTypes, Cutting, Built, Baseline, Replacing

LEMMA BuildIsKept == ASSUME BuildInv(PhaseOf), [NextAll]_all PROVE BuildInv(PhaseOf)'
<1> DEFINE p == PhaseOf
<1>1. p \in {"hot", "full"} /\ p' = p /\ (StepOf(p) \/ UNCHANGED building)
  BY BuildSteps DEF PhaseOf
<1> HIDE DEF p
<1>2. PICK q \in {"hot", "full"} : q = p
  BY <1>1
<1>3. BuildInv(q)'
  BY <1>1, <1>2, BuildKept, BuildStutters DEF p
<1>4. q = PhaseOf'
  BY <1>1, <1>2 DEF p
<1>. QED BY <1>3, <1>4

LEMMA BuildAlways == SpecAll => []BuildInv(PhaseOf)
<1>1. InitAll => BuildInv(PhaseOf)
  BY BuildInit DEF InitAll, PhaseOf
<1>. QED BY <1>1, BuildIsKept, PTL DEF SpecAll

(* What the editor takes from a program that ends well is one build's, of   *)
(* the database that it asked for (build_clangd_index.py, build_full_cdb.py,*)
(* ue/index/_build.lua).                                                    *)
THEOREM TakenIsAlwaysOne == SpecAll => TakenIsOne
<1> DEFINE One ==
      build # G!Idle /\ build' = G!Idle /\ report' = "ready" =>
        /\ G!Agree(outputs[build.phase])
        /\ outputs[build.phase].semantic[1].of = IF build.phase = "hot" THEN active ELSE build.asked
<1>1. ASSUME BuildInv(PhaseOf), [NextAll]_all PROVE [One]_all
  <2>1. CASE UNCHANGED building
    BY <2>1 DEF building
  <2>2. CASE StepOf(PhaseOf)
    <3>1. PhaseOf \in {"hot", "full"}
      BY DEF PhaseOf
    <3>. QED BY <1>1, <2>2, <3>1, ReadyIsOne
  <2>. QED BY <1>1, <2>1, <2>2, BuildSteps
<1>. QED BY <1>1, BuildAlways, PTL DEF SpecAll, TakenIsOne

(* Each file of the last complete outputs stays in its place or in a        *)
(* rollback file (build_hot_super_unity_cdb.py, write_outputs_if_changed).  *)
THEOREM BaselineIsAlwaysKept == SpecAll => []BaselineKept
<1>1. BuildInv(PhaseOf) => BaselineKept
  BY BaselineHolds DEF PhaseOf, BaselineKept
<1>. QED BY <1>1, BuildAlways, PTL

-----------------------------------------------------------------------------
(* QueryProfile.                                                            *)

EvidenceFields == {"driver", "hash", "answer", "clangd", "source", "lookup"}
(* No version comes back: what was seen since a version was read and is so  *)
(* still with that version on disk was so with it.                          *)
Reviewed(f, from) == \E v \in from..drivers[f] : <<f, v>> \in Supported
Gave(d, from, a) == \E v \in from..drivers[d] : a = Gives[d][v + 1]
Good(e) ==
    /\ DOMAIN e = EvidenceFields /\ e.driver \in Drivers
    /\ e.hash \in 0..drivers[e.driver]
    /\ e.clangd \in 0..drivers["clangd"] /\ e.source \in 0..drivers["source"]
    /\ Gives[e.driver][e.hash + 1] = e.answer
    /\ {<<e.driver, e.hash>>, <<"clangd", e.clangd>>} \subseteq Supported

QueryTypes ==
    /\ drivers \in [Q!Files -> Nat] /\ resolves \in Drivers
    /\ DOMAIN asker = {"state", "log", "read", "seen"} /\ asker.read \in 0..Len(asker.log)
    /\ \A k \in 1..Len(asker.log) : asker.log[k][1] = "driver" => asker.log[k][2] \in Drivers

Early == {"version", "launch", "run", "parse"}
Late == {"hash", "profile", "query", "builtin", "rehash"}
Hashed == {"profile", "query", "builtin", "rehash"}
(* What the last comparisons have found is what was on disk all along.      *)
Rehashing ==
    /\ query.left \in {<<"clangd", "driver", "source">>, <<"driver", "source">>, <<"source">>}
    /\ Len(query.left) < 3 => <<"clangd", query.clangd>> \in Supported
    /\ Len(query.left) < 2 => /\ Gives[query.driver][query.hash + 1] = query.answer
                              /\ <<query.driver, query.hash>> \in Supported
(* The observation, as far as it has come.                                  *)
Observing ==
    /\ query.pc \in {"idle", "refused", "done"} \cup Early \cup Late
    /\ query.pc \in Early \cup Late =>
          /\ DOMAIN query = {"pc", "source", "clangd", "lookup", "driver", "observed", "hash",
                             "answer", "left"}
          /\ query.source \in 0..drivers["source"] /\ query.clangd \in 0..drivers["clangd"]
          /\ query.pc # "version" => Reviewed("clangd", query.clangd)
    /\ query.pc \in Late => query.driver \in Drivers
    /\ query.pc \in Hashed => query.hash \in 0..drivers[query.driver]
    /\ query.pc \in {"query", "builtin", "rehash"} => Reviewed(query.driver, query.hash)
    /\ query.pc \in {"builtin", "rehash"} => Gave(query.driver, query.hash, query.answer)
    /\ query.pc = "rehash" => Rehashing
    /\ query.pc = "done" => Good(query.evidence)

(* The proof: an index ran with no older files than the evidence it was     *)
(* asked with, and the second observation found no older ones than it.      *)
Indexed(trial, e) ==
    /\ DOMAIN trial = {"driver", "hash", "answer", "clangd", "source"}
    /\ trial.driver = e.driver /\ trial.answer = e.answer
    /\ trial.hash \in e.hash..drivers[e.driver]
    /\ trial.clangd \in e.clangd..drivers["clangd"]
    /\ trial.source \in e.source..drivers["source"]
Outlived(trial) ==
    /\ query.pc \in Early \cup Late => trial.clangd <= query.clangd /\ trial.source <= query.source
    /\ query.pc \in Hashed /\ query.driver = trial.driver => trial.hash <= query.hash
    /\ query.pc = "done" =>
          /\ trial.clangd <= query.evidence.clangd /\ trial.source <= query.evidence.source
          /\ query.evidence.driver = trial.driver => trial.hash <= query.evidence.hash
Evidencing ==
    check # Q!Idle =>
       /\ check.for \in {"observe", "index", "accept", "final", "again", "confirm", "activate"}
       /\ DOMAIN check = {"for", "asked"} \cup IF check.for \in {"index", "accept"} THEN {"ran", "left"} ELSE {}
       /\ IF check.for = "observe" THEN check.asked = Q!None ELSE Good(check.asked)
       /\ check.for \in {"index", "accept"} => \A trial \in check.ran : Indexed(trial, check.asked)
       /\ check.for = "accept" => \A trial \in check.ran : Outlived(trial)
Receipted ==
    proof # Q!None =>
       /\ DOMAIN proof = {"evidence", "ran"} /\ Good(proof.evidence)
       /\ \A trial \in proof.ran : \A f \in DOMAIN trial : trial[f] = proof.evidence[f]
QueryInv == QueryTypes /\ Observing /\ Evidencing /\ Receipted

LEMMA QueryInit == Q!Init => QueryInv
<1> SUFFICES ASSUME Q!Init PROVE QueryInv
  OBVIOUS
<1>1. QueryTypes
  BY DEF Q!Init, Q!NoClangd, QueryTypes
<1>2. Observing
  BY DEF Q!Init, Q!NoQuery, Observing, Early, Late, Hashed
<1>. QED BY <1>1, <1>2 DEF Q!Init, QueryInv, Evidencing, Receipted

(* Files are only replaced: all that was found of a version is still so.    *)
LEMMA QueryEdit == ASSUME QueryInv, Q!Edit PROVE QueryInv'
<1>1. /\ drivers' \in [Q!Files -> Nat] /\ resolves' \in Drivers
      /\ \A f \in Q!Files : drivers'[f] >= drivers[f]
      /\ UNCHANGED <<asker, query, check, proof>>
  BY DEF Q!Edit, QueryInv, QueryTypes
<1>2. drivers \in [Q!Files -> Nat] /\ Drivers \subseteq Q!Files /\ {"clangd", "source"} \subseteq Q!Files
  BY DEF QueryInv, QueryTypes, Q!Files
<1>3. ASSUME NEW f \in Q!Files, NEW from \in Nat
      PROVE  /\ Reviewed(f, from) => Reviewed(f, from)'
             /\ \A a : Gave(f, from, a) => Gave(f, from, a)'
             /\ \A n : n \in from..drivers[f] => n \in from..drivers'[f]
  BY <1>1, <1>2 DEF Reviewed, Gave
<1>4. \A e : Good(e) => Good(e)'
  BY <1>1, <1>2, <1>3 DEF Good
<1>5. QueryTypes'
  BY <1>1 DEF QueryInv, QueryTypes
<1>6. Observing'
  BY <1>1, <1>2, <1>3, <1>4 DEF QueryInv, Observing, Rehashing, Early, Late, Hashed
<1>7. \A trial, e : Good(e) /\ Indexed(trial, e) => Indexed(trial, e)'
  BY <1>1, <1>2, <1>3 DEF Indexed, Good
<1>8. Evidencing'
  BY <1>1, <1>4, <1>7 DEF QueryInv, Evidencing, Outlived
<1>9. Receipted'
  BY <1>1, <1>4 DEF QueryInv, Receipted
<1>. QED BY <1>5, <1>6, <1>8, <1>9 DEF QueryInv

LEMMA QueryClangd ==
  ASSUME QueryInv, Q!Extract \/ Q!LogCommand \/ Q!FallBack \/ Q!Exit \/ Q!ReadLine PROVE QueryInv'
<1>1. UNCHANGED <<drivers, resolves, query, check, proof>>
  BY DEF Q!Extract, Q!LogCommand, Q!FallBack, Q!Log, Q!Exit, Q!ReadLine, Q!rest, Q!world
<1>2. QueryTypes'
  <2>1. ASSUME NEW line, Q!Log(line), line[1] = "driver" => line[2] \in Drivers PROVE QueryTypes'
    BY <2>1, <1>1 DEF Q!Log, QueryInv, QueryTypes
  <2>2. CASE Q!Extract
    BY <2>1, <2>2 DEF Q!Extract, QueryInv, QueryTypes
  <2>3. CASE Q!LogCommand \/ Q!FallBack
    BY <2>1, <2>3 DEF Q!LogCommand, Q!FallBack
  <2>4. CASE Q!Exit
    BY <1>1, <2>4 DEF Q!Exit, QueryInv, QueryTypes
  <2>5. CASE Q!ReadLine
    BY <1>1, <2>5 DEF Q!ReadLine, Q!Reading, QueryInv, QueryTypes
  <2>. QED BY <2>2, <2>3, <2>4, <2>5
<1>. QED BY <1>1, <1>2 DEF QueryInv, Observing, Rehashing, Reviewed, Gave, Good, Evidencing, Indexed, Outlived, Receipted

(* A step of the observation leaves the proof alone, and has to keep what   *)
(* it knows of the indices that ran.                                        *)
LEMMA QueryObserves ==
  ASSUME QueryInv, UNCHANGED <<drivers, resolves, check, proof>>, QueryTypes', Observing',
         \A trial : Outlived(trial) /\ (\E e : Good(e) /\ Indexed(trial, e)) => Outlived(trial)'
  PROVE  QueryInv'
<1>1. (\A e : Good(e)' = Good(e)) /\ (\A trial, e : Indexed(trial, e)' = Indexed(trial, e))
  BY DEF Good, Indexed
<1>2. Evidencing'
  BY <1>1 DEF QueryInv, Evidencing
<1>. QED BY <1>1, <1>2 DEF QueryInv, Receipted

(* Refused, or begun anew.                                                  *)
LEMMA QueryRefuses ==
  ASSUME QueryInv, UNCHANGED <<drivers, resolves, check, proof>>, Q!Refuse, asker' \in {asker, Q!NoClangd}
  PROVE  QueryInv'
<1>1. query'.pc = "refused"
  BY DEF Q!Refuse
<1>2. QueryTypes'
  BY DEF QueryInv, QueryTypes, Q!NoClangd
<1>3. Observing' /\ \A trial : Outlived(trial)'
  BY <1>1 DEF Observing, Outlived, Early, Late, Hashed
<1>. QED BY <1>2, <1>3, QueryObserves

LEMMA QueryGivesUp == ASSUME QueryInv, Q!GiveUp PROVE QueryInv'
BY QueryRefuses DEF Q!GiveUp, Q!rest, Q!world

(* A step that only moves on.                                               *)
LEMMA QueryGoes ==
  ASSUME QueryInv, UNCHANGED <<drivers, resolves, check, proof>>, QueryTypes', NEW pc, Q!Go(pc),
         \/ query.pc \in {"launch", "run"} /\ pc \in {"run", "parse"}
         \/ query.pc = "version" /\ pc = "launch" /\ <<"clangd", drivers["clangd"]>> \in Supported
         \/ query.pc = "profile" /\ pc = "query" /\ <<query.driver, drivers[query.driver]>> \in Supported
  PROVE  QueryInv'
<1>1. /\ query.pc \in Early \cup Late /\ query' = [query EXCEPT !.pc = pc]
      /\ DOMAIN query = {"pc", "source", "clangd", "lookup", "driver", "observed", "hash", "answer", "left"}
  BY DEF Q!Go, QueryInv, Observing, Early, Late
<1>2. /\ query'.pc = pc /\ DOMAIN query' = DOMAIN query /\ UNCHANGED <<query.source, query.clangd>>
      /\ query'.driver = query.driver /\ query'.hash = query.hash
  BY <1>1
<1>3. drivers["clangd"] \in Nat /\ query.clangd \in 0..drivers["clangd"]
  BY <1>1 DEF QueryInv, QueryTypes, Q!Files, Observing
<1>4. query.pc = "profile" => drivers[query.driver] \in Nat /\ query.hash \in 0..drivers[query.driver]
  BY <1>1 DEF QueryInv, QueryTypes, Q!Files, Observing, Hashed, Late
<1>5. Observing'
  BY <1>1, <1>2, <1>3, <1>4 DEF QueryInv, Observing, Reviewed, Early, Late, Hashed
<1>6. \A trial : Outlived(trial) => Outlived(trial)'
  BY <1>1, <1>2 DEF Outlived, Early, Late, Hashed
<1>. QED BY <1>5, <1>6, QueryObserves

LEMMA QueryMoves ==
  ASSUME QueryInv, Q!ClangdVersion \/ Q!Launch \/ Q!Waited \/ Q!DriverVersion PROVE QueryInv'
<1>1. UNCHANGED <<drivers, resolves, check, proof>>
  BY DEF Q!ClangdVersion, Q!Launch, Q!Waited, Q!DriverVersion, Q!rest, Q!world
<1>2. CASE Q!ClangdVersion
  BY <1>1, <1>2, QueryRefuses, QueryGoes DEF Q!ClangdVersion, Q!At, QueryInv, QueryTypes
<1>3. CASE Q!Launch
  <2>1. QueryTypes'
    BY <1>1, <1>3 DEF Q!Launch, Q!NoClangd, QueryInv, QueryTypes
  <2>. QED BY <1>1, <1>3, <2>1, QueryGoes DEF Q!Launch, Q!At
<1>4. CASE Q!Waited
  BY <1>1, <1>4, QueryRefuses, QueryGoes DEF Q!Waited, Q!At, QueryInv, QueryTypes
<1>5. CASE Q!DriverVersion
  BY <1>1, <1>5, QueryRefuses, QueryGoes DEF Q!DriverVersion, Q!At, QueryInv, QueryTypes
<1>. QED BY <1>2, <1>3, <1>4, <1>5

LEMMA QueryParses == ASSUME QueryInv, Q!Parse PROVE QueryInv'
<1>1. UNCHANGED <<drivers, resolves, check, proof>> /\ asker' = Q!NoClangd /\ query.pc = "parse"
  BY DEF Q!Parse, Q!At, Q!rest, Q!world
<1>2. CASE Q!Refuse
  BY <1>1, <1>2, QueryRefuses
<1>3. ASSUME NEW k \in Q!Written,
             query' = [query EXCEPT !.pc = "hash", !.driver = asker.log[k][2], !.observed = asker.log[k][3]]
      PROVE  QueryInv'
  <2>1. asker.log[k][2] \in Drivers
    BY <1>3 DEF Q!Written, QueryInv, QueryTypes
  <2>2. DOMAIN query = {"pc", "source", "clangd", "lookup", "driver", "observed", "hash", "answer", "left"}
    BY <1>1 DEF QueryInv, Observing, Early
  <2>3. /\ query'.pc = "hash" /\ DOMAIN query' = DOMAIN query /\ query'.driver \in Drivers
        /\ query'.source = query.source /\ query'.clangd = query.clangd
    BY <1>3, <2>1, <2>2
  <2>4. Observing'
    BY <1>1, <2>2, <2>3 DEF QueryInv, Observing, Reviewed, Early, Late, Hashed
  <2>5. \A trial : Outlived(trial) => Outlived(trial)'
    BY <1>1, <2>3 DEF Outlived, Early, Late, Hashed
  <2>6. QueryTypes'
    BY <1>1 DEF QueryInv, QueryTypes, Q!NoClangd
  <2>. QED BY <1>1, <2>4, <2>5, <2>6, QueryObserves
<1>. QED BY <1>2, <1>3 DEF Q!Parse

(* The hash is of a driver that is no older than any index ran with.        *)
LEMMA QueryHashes == ASSUME QueryInv, Q!HashDriver PROVE QueryInv'
<1>1. /\ UNCHANGED <<drivers, resolves, check, proof, asker>> /\ query.pc = "hash"
      /\ query' = [query EXCEPT !.pc = "profile", !.hash = drivers[query.driver]]
      /\ DOMAIN query = {"pc", "source", "clangd", "lookup", "driver", "observed", "hash", "answer", "left"}
      /\ query.driver \in Drivers
  BY DEF Q!HashDriver, Q!At, Q!rest, Q!world, QueryInv, Observing, Late
<1>2. /\ query'.pc = "profile" /\ DOMAIN query' = DOMAIN query /\ query'.hash = drivers[query.driver]
      /\ query'.source = query.source /\ query'.clangd = query.clangd /\ query'.driver = query.driver
  BY <1>1
<1>3. QueryTypes' /\ drivers[query.driver] \in Nat
  BY <1>1 DEF QueryInv, QueryTypes, Q!Files
<1>4. Observing'
  BY <1>1, <1>2, <1>3 DEF QueryInv, Observing, Reviewed, Early, Late, Hashed
<1>5. \A trial, e : Outlived(trial) /\ Good(e) /\ Indexed(trial, e) => Outlived(trial)'
  BY <1>1, <1>2, <1>3 DEF Outlived, Indexed, Good, Early, Late, Hashed
<1>. QED BY <1>1, <1>3, <1>4, <1>5, QueryObserves

LEMMA QueryAsks == ASSUME QueryInv, Q!QueryDriver PROVE QueryInv'
<1>1. /\ UNCHANGED <<drivers, resolves, check, proof, asker>> /\ query.pc = "query"
      /\ query' = [query EXCEPT !.pc = "builtin", !.answer = Q!Answer(query.driver)]
      /\ DOMAIN query = {"pc", "source", "clangd", "lookup", "driver", "observed", "hash", "answer", "left"}
      /\ query.driver \in Drivers /\ query.hash \in 0..drivers[query.driver]
  BY DEF Q!QueryDriver, Q!At, Q!rest, Q!world, QueryInv, Observing, Late, Hashed
<1>2. /\ query'.pc = "builtin" /\ DOMAIN query' = DOMAIN query /\ query'.answer = Q!Answer(query.driver)
      /\ query'.source = query.source /\ query'.clangd = query.clangd /\ query'.driver = query.driver
      /\ query'.hash = query.hash
  BY <1>1
<1>3. QueryTypes' /\ drivers[query.driver] \in Nat
  BY <1>1 DEF QueryInv, QueryTypes, Q!Files
<1>4. Gave(query.driver, query.hash, query.answer)'
  BY <1>1, <1>2, <1>3 DEF Gave, Q!Answer
<1>5. Observing'
  BY <1>1, <1>2, <1>3, <1>4 DEF QueryInv, Observing, Reviewed, Early, Late, Hashed
<1>6. \A trial : Outlived(trial) => Outlived(trial)'
  BY <1>1, <1>2 DEF Outlived, Early, Late, Hashed
<1>. QED BY <1>1, <1>3, <1>5, <1>6, QueryObserves

LEMMA QueryBuiltins == ASSUME QueryInv, Q!QueryBuiltin PROVE QueryInv'
<1>1. UNCHANGED <<drivers, resolves, check, proof, asker>> /\ query.pc = "builtin"
  BY DEF Q!QueryBuiltin, Q!At, Q!rest, Q!world
<1>2. CASE Q!Refuse
  BY <1>1, <1>2, QueryRefuses
<1>3. CASE query' = [query EXCEPT !.pc = "rehash", !.left = <<"clangd", "driver", "source">>]
  <2>1. DOMAIN query = {"pc", "source", "clangd", "lookup", "driver", "observed", "hash", "answer", "left"}
    BY <1>1 DEF QueryInv, Observing, Late
  <2>2. /\ query'.pc = "rehash" /\ DOMAIN query' = DOMAIN query /\ query'.answer = query.answer
        /\ query'.source = query.source /\ query'.clangd = query.clangd /\ query'.driver = query.driver
        /\ query'.hash = query.hash /\ query'.left = <<"clangd", "driver", "source">>
    BY <1>3, <2>1
  <2>3. Rehashing'
    BY <2>2 DEF Rehashing
  <2>4. Observing'
    BY <1>1, <2>1, <2>2, <2>3 DEF QueryInv, Observing, Reviewed, Gave, Early, Late, Hashed
  <2>5. \A trial : Outlived(trial) => Outlived(trial)'
    BY <1>1, <2>2 DEF Outlived, Early, Late, Hashed
  <2>6. QueryTypes'
    BY <1>1 DEF QueryInv, QueryTypes
  <2>. QED BY <1>1, <2>4, <2>5, <2>6, QueryObserves
<1>. QED BY <1>2, <1>3 DEF Q!QueryBuiltin

LEMMA LastLeft ==
  ASSUME NEW left \in {<<"clangd", "driver", "source">>, <<"driver", "source">>, <<"source">>}
  PROVE  /\ Len(left) \in Nat
         /\ left = <<"driver", "source">> => Len(left) = 2
         /\ Len(left) <= 1 <=> left = <<"source">>
<1>1. CASE left = <<"clangd", "driver", "source">>
  <2>1. Len(left) = 3
    BY <1>1
  <2>2. left # <<"source">> /\ left # <<"driver", "source">>
    BY <1>1
  <2>. QED BY <2>1, <2>2
<1>2. CASE left = <<"driver", "source">>
  <2>1. Len(left) = 2
    BY <1>2
  <2>2. left # <<"source">>
    BY <1>2
  <2>. QED BY <2>1, <2>2
<1>3. CASE left = <<"source">>
  <2>1. Len(left) = 1
    BY <1>3
  <2>2. left # <<"driver", "source">>
    BY <1>3
  <2>. QED BY <1>3, <2>1, <2>2
<1>. QED BY <1>1, <1>2, <1>3

(* A file that is still what it was then was it all along.                  *)
LEMMA QueryRehashes == ASSUME QueryInv, Q!Rehash PROVE QueryInv'
<1> DEFINE left == query.left
<1>1. /\ UNCHANGED <<drivers, resolves, check, proof, asker>> /\ query.pc = "rehash"
      /\ DOMAIN query = {"pc", "source", "clangd", "lookup", "driver", "observed", "hash", "answer", "left"}
  BY DEF Q!Rehash, Q!At, Q!rest, Q!world, QueryInv, Observing, Late
<1>2. /\ query.driver \in Drivers /\ query.hash \in 0..drivers[query.driver]
      /\ query.source \in 0..drivers["source"] /\ query.clangd \in 0..drivers["clangd"]
      /\ Reviewed("clangd", query.clangd) /\ Reviewed(query.driver, query.hash)
      /\ Gave(query.driver, query.hash, query.answer) /\ Rehashing
  BY <1>1 DEF QueryInv, Observing, Late, Hashed
<1>3. /\ drivers["clangd"] \in Nat /\ drivers["source"] \in Nat /\ drivers[query.driver] \in Nat
      /\ QueryTypes'
  BY <1>1, <1>2 DEF QueryInv, QueryTypes, Q!Files
<1>4. left \in {<<"clangd", "driver", "source">>, <<"driver", "source">>, <<"source">>}
  BY <1>2 DEF Rehashing
<1>5. CASE Q!Refuse
  BY <1>1, <1>5, QueryRefuses
<1>6. CASE Q!Same(Head(left)) /\ Len(left) > 1 /\ query' = [query EXCEPT !.left = Tail(left)]
  <2>1. /\ query'.pc = "rehash" /\ DOMAIN query' = DOMAIN query /\ query'.answer = query.answer
        /\ query'.source = query.source /\ query'.clangd = query.clangd /\ query'.driver = query.driver
        /\ query'.hash = query.hash /\ query'.left = Tail(left)
    BY <1>1, <1>6
  <2>5. Rehashing'
    <3>2. CASE left = <<"clangd", "driver", "source">>
      <4>1. Head(left) = "clangd" /\ Tail(left) = <<"driver", "source">> /\ Len(Tail(left)) = 2
        BY <3>2
      <4>2. drivers["clangd"] = query.clangd
        BY <1>6, <4>1 DEF Q!Same
      <4>3. <<"clangd", query.clangd>> \in Supported
        BY <1>2, <1>3, <4>2 DEF Reviewed
      <4>4. query'.left = <<"driver", "source">>
        BY <2>1, <4>1
      <4>5. Len(query'.left) = 2
        BY <4>4, LastLeft
      <4>6. ~(Len(query'.left) < 2)
        BY <4>5
      <4>7. <<"clangd", query'.clangd>> \in Supported
        BY <2>1, <4>3
      <4>8. query'.left \in {<<"clangd", "driver", "source">>, <<"driver", "source">>, <<"source">>}
        BY <4>4
      <4>. QED BY <4>6, <4>7, <4>8 DEF Rehashing
    <3>3. CASE left = <<"driver", "source">>
      <4>1. Head(left) = "driver" /\ Tail(left) = <<"source">> /\ Len(Tail(left)) = 1 /\ Len(left) = 2
        BY <3>3
      <4>2. drivers[query.driver] = query.hash
        BY <1>6, <4>1 DEF Q!Same
      <4>3. <<query.driver, query.hash>> \in Supported
        BY <1>2, <1>3, <4>2 DEF Reviewed
      <4>4. Gives[query.driver][query.hash + 1] = query.answer
        BY <1>2, <1>3, <4>2 DEF Gave
      <4>5. <<"clangd", query.clangd>> \in Supported
        BY <1>2, <4>1 DEF Rehashing
      <4>. QED BY <2>1, <4>1, <4>3, <4>4, <4>5 DEF Rehashing
    <3>4. CASE left = <<"source">>
      BY <1>4, <1>6, <3>4, LastLeft
    <3>. QED BY <1>4, <3>2, <3>3, <3>4
  <2>6. Observing'
    BY <1>1, <1>2, <2>1, <2>5 DEF Observing, Reviewed, Gave, Early, Late, Hashed
  <2>7. \A trial : Outlived(trial) => Outlived(trial)'
    BY <1>1, <2>1 DEF Outlived, Early, Late, Hashed
  <2>. QED BY <1>1, <1>3, <2>6, <2>7, QueryObserves
<1>7. CASE Len(left) <= 1 /\ query' = [pc |-> "done", evidence |-> Q!Evidence]
  <2>1. left = <<"source">>
    BY <1>4, <1>7, LastLeft
  <2>2. /\ <<"clangd", query.clangd>> \in Supported /\ <<query.driver, query.hash>> \in Supported
        /\ Gives[query.driver][query.hash + 1] = query.answer
    <3>1. Len(left) = 1
      BY <2>1
    <3>. QED BY <1>2, <3>1 DEF Rehashing
  <2>3. /\ DOMAIN Q!Evidence = EvidenceFields /\ Q!Evidence.driver = query.driver
        /\ Q!Evidence.hash = query.hash /\ Q!Evidence.answer = query.answer
        /\ Q!Evidence.clangd = query.clangd /\ Q!Evidence.source = query.source
    BY DEF Q!Evidence, EvidenceFields
  <2>4. Good(Q!Evidence)
    BY <1>2, <2>2, <2>3 DEF Good
  <2>5. query'.pc = "done" /\ query'.evidence = Q!Evidence
    BY <1>7
  <2>6. Observing'
    BY <1>1, <2>4, <2>5 DEF Observing, Good, Early, Late, Hashed
  <2>7. \A trial : Outlived(trial) => Outlived(trial)'
    BY <1>1, <2>3, <2>5 DEF Outlived, Early, Late, Hashed
  <2>. QED BY <1>1, <1>3, <2>6, <2>7, QueryObserves
<1>8. Len(left) \in Nat
  BY <1>4, LastLeft
<1>. QED BY <1>5, <1>6, <1>7, <1>8 DEF Q!Rehash

-----------------------------------------------------------------------------
(* The steps of a proof and of the uses of its receipt.                     *)

(* An observation begins with the files as they are.                        *)
LEMMA QueryBegins ==
  ASSUME QueryInv, UNCHANGED <<drivers, asker, resolves>>, Q!Observe
  PROVE  QueryTypes' /\ Observing' /\ \A trial, e : Good(e) /\ Indexed(trial, e) => Outlived(trial)'
<1>1. /\ query'.pc = "version"
      /\ DOMAIN query' = {"pc", "source", "clangd", "lookup", "driver", "observed", "hash", "answer", "left"}
      /\ query'.source = drivers["source"] /\ query'.clangd = drivers["clangd"]
  BY DEF Q!Observe
<1>2. QueryTypes' /\ drivers["source"] \in Nat /\ drivers["clangd"] \in Nat
  BY DEF QueryInv, QueryTypes, Q!Files
<1>3. Observing'
  BY <1>1, <1>2 DEF Observing, Early, Late, Hashed
<1>4. \A trial, e : Good(e) /\ Indexed(trial, e) => Outlived(trial)'
  BY <1>1, <1>2 DEF Good, Indexed, Outlived, Early, Late, Hashed
<1>. QED BY <1>2, <1>3, <1>4

LEMMA QueryEnds ==
  ASSUME QueryInv, UNCHANGED <<drivers, asker, resolves>>, query' = Q!NoQuery \/ UNCHANGED query
  PROVE  QueryTypes' /\ Observing'
<1>1. QueryTypes'
  BY DEF QueryInv, QueryTypes
<1>2. CASE query' = Q!NoQuery
  BY <1>1, <1>2 DEF Q!NoQuery, Observing, Early, Late, Hashed
<1>3. CASE UNCHANGED query
  BY <1>1, <1>3 DEF QueryInv, Observing, Rehashing, Reviewed, Gave, Good
<1>. QED BY <1>1, <1>2, <1>3

LEMMA QueryFails == ASSUME QueryInv, UNCHANGED <<drivers, asker, resolves, proof>>, Q!Fail PROVE QueryInv'
<1>1. QueryTypes' /\ Observing'
  BY QueryEnds DEF Q!Fail
<1>. QED BY <1>1 DEF Q!Fail, QueryInv, Evidencing, Receipted, Good

(* Begun for a reason with evidence at hand, or for none.                   *)
LEMMA QueryAgain ==
  ASSUME QueryInv, UNCHANGED <<drivers, asker, resolves, proof>>, NEW why, NEW asked, Q!Begin(why, asked),
         \/ why = "observe" /\ asked = Q!None
         \/ why \in {"final", "again", "confirm", "activate"} /\ Good(asked)
  PROVE  QueryInv'
<1>1. QueryTypes' /\ Observing'
  BY QueryBegins DEF Q!Begin
<1>2. check' = [for |-> why, asked |-> asked]
  BY DEF Q!Begin
<1>3. Evidencing'
  BY <1>2 DEF Evidencing, Good
<1>. QED BY <1>1, <1>3 DEF QueryInv, Receipted, Good

(* What an index runs with is no older than the evidence it was asked with. *)
LEMMA QueryIndexes == ASSUME QueryInv, Q!Index PROVE QueryInv'
<1>1. /\ UNCHANGED <<drivers, asker, resolves, proof>> /\ check # Q!Idle /\ check.for = "index"
      /\ Good(check.asked) /\ DOMAIN check = {"for", "asked", "ran", "left"}
  BY DEF Q!Index, Q!For, Q!outside, Q!world, QueryInv, Evidencing
<1>2. CASE Q!Fail
  BY <1>1, <1>2, QueryFails
<1>3. CASE /\ Q!Effective([driver |-> resolves, hash |-> drivers[resolves], answer |-> Q!Answer(resolves),
                          clangd |-> drivers["clangd"], source |-> drivers["source"]], check.asked)
           /\ check' = [check EXCEPT !.ran = check.ran \cup
                          {[driver |-> resolves, hash |-> drivers[resolves], answer |-> Q!Answer(resolves),
                            clangd |-> drivers["clangd"], source |-> drivers["source"]]},
                        !.left = check.left - 1]
           /\ UNCHANGED query
  <2> DEFINE trial == [driver |-> resolves, hash |-> drivers[resolves], answer |-> Q!Answer(resolves),
                      clangd |-> drivers["clangd"], source |-> drivers["source"]]
  <2>1. /\ trial.driver = resolves /\ trial.hash = drivers[resolves] /\ trial.answer = Q!Answer(resolves)
        /\ trial.clangd = drivers["clangd"] /\ trial.source = drivers["source"]
        /\ DOMAIN trial = {"driver", "hash", "answer", "clangd", "source"}
    OBVIOUS
  <2>2. /\ drivers[resolves] \in Nat /\ drivers["clangd"] \in Nat /\ drivers["source"] \in Nat
    BY DEF QueryInv, QueryTypes, Q!Files
  <2>3. trial.driver = check.asked.driver /\ trial.answer = check.asked.answer
    BY <1>3 DEF Q!Effective
  <2> HIDE DEF trial
  <2>4. Indexed(trial, check.asked)
    BY <1>1, <2>1, <2>2, <2>3 DEF Indexed, Good
  <2>5. /\ check'.for = "index" /\ check'.asked = check.asked /\ check'.ran = check.ran \cup {trial}
        /\ DOMAIN check' = DOMAIN check
    BY <1>1, <1>3 DEF trial
  <2>6. QueryTypes' /\ Observing'
    BY <1>1, <1>3, QueryEnds
  <2>7. (\A e : Good(e)' = Good(e)) /\ (\A old, e : Indexed(old, e)' = Indexed(old, e))
    BY <1>1 DEF Good, Indexed
  <2>8. \A old \in check.ran : Indexed(old, check.asked)
    BY <1>1 DEF QueryInv, Evidencing
  <2>9. Evidencing'
    BY <1>1, <2>4, <2>5, <2>7, <2>8 DEF Evidencing
  <2>. QED BY <1>1, <2>6, <2>7, <2>9 DEF QueryInv, Receipted
<1>. QED BY <1>2, <1>3 DEF Q!Index

LEMMA QueryObserved == ASSUME QueryInv, Q!Observed PROVE QueryInv'
<1>1. /\ UNCHANGED <<drivers, asker, resolves, proof>> /\ query.pc = "done" /\ query' = Q!NoQuery
      /\ check' = [for |-> "index", asked |-> query.evidence, ran |-> {}, left |-> 2]
  BY DEF Q!Observed, Q!At, Q!outside, Q!world
<1>2. /\ check'.for = "index" /\ check'.asked = query.evidence /\ check'.ran = {}
      /\ DOMAIN check' = {"for", "asked", "ran", "left"}
  BY <1>1
<1>3. Good(query.evidence) /\ \A e : Good(e)' = Good(e)
  BY <1>1 DEF QueryInv, Observing, Good
<1>4. Evidencing'
  BY <1>2, <1>3 DEF Evidencing
<1>5. QueryTypes' /\ Observing'
  BY <1>1, QueryEnds
<1>. QED BY <1>1, <1>3, <1>4, <1>5 DEF QueryInv, Receipted

LEMMA QueryRevalidates == ASSUME QueryInv, Q!Revalidate PROVE QueryInv'
<1>1. /\ UNCHANGED <<drivers, asker, resolves, proof>> /\ check # Q!Idle /\ check.for = "index"
      /\ Good(check.asked) /\ DOMAIN check = {"for", "asked", "ran", "left"}
  BY DEF Q!Revalidate, Q!For, Q!outside, Q!world, QueryInv, Evidencing
<1>2. CASE Q!Fail
  BY <1>1, <1>2, QueryFails
<1>3. CASE Q!Observe /\ check' = [check EXCEPT !.for = "accept"]
  <2>1. /\ check'.for = "accept" /\ check'.asked = check.asked /\ check'.ran = check.ran
        /\ DOMAIN check' = DOMAIN check
    BY <1>1, <1>3
  <2>2. QueryTypes' /\ Observing' /\ \A trial, e : Good(e) /\ Indexed(trial, e) => Outlived(trial)'
    BY <1>1, <1>3, QueryBegins
  <2>3. (\A e : Good(e)' = Good(e)) /\ (\A old, e : Indexed(old, e)' = Indexed(old, e))
    BY <1>1 DEF Good, Indexed
  <2>4. \A old \in check.ran : Indexed(old, check.asked)
    BY <1>1 DEF QueryInv, Evidencing
  <2>5. Evidencing'
    BY <1>1, <2>1, <2>2, <2>3, <2>4 DEF Evidencing
  <2>. QED BY <1>1, <2>2, <2>3, <2>5 DEF QueryInv, Receipted
<1>. QED BY <1>2, <1>3 DEF Q!Revalidate

(* The same evidence before and after all indices: they ran with just this. *)
LEMMA QueryAccepts == ASSUME QueryInv, Q!Accept PROVE QueryInv'
<1>1. /\ UNCHANGED <<drivers, asker, resolves>> /\ check # Q!Idle /\ check.for = "accept" /\ query.pc = "done"
      /\ Good(check.asked) /\ Good(query.evidence) /\ Q!Identity(query.evidence) = Q!Identity(check.asked)
      /\ proof' = [evidence |-> check.asked, ran |-> check.ran] /\ Q!Begin("final", check.asked)
      /\ \A trial \in check.ran : Indexed(trial, check.asked) /\ Outlived(trial)
  BY DEF Q!Accept, Q!Agrees, Q!At, Q!For, Q!outside, Q!world, QueryInv, Evidencing, Observing
<1>2. \A f \in EvidenceFields \ {"lookup"} : query.evidence[f] = check.asked[f]
  <2>1. DOMAIN query.evidence = EvidenceFields /\ DOMAIN check.asked = EvidenceFields
    BY <1>1 DEF Good
  <2>2. \A f \in EvidenceFields \ {"lookup"} :
           Q!Identity(query.evidence)[f] = query.evidence[f] /\ Q!Identity(check.asked)[f] = check.asked[f]
    BY <2>1 DEF Q!Identity
  <2>. QED BY <1>1, <2>2
<1>3. /\ query.evidence.driver = check.asked.driver /\ query.evidence.hash = check.asked.hash
      /\ query.evidence.clangd = check.asked.clangd /\ query.evidence.source = check.asked.source
  BY <1>2 DEF EvidenceFields
<1>4. ASSUME NEW trial \in check.ran PROVE \A f \in DOMAIN trial : trial[f] = check.asked[f]
  <2>1. /\ trial.hash <= check.asked.hash /\ trial.clangd <= check.asked.clangd
        /\ trial.source <= check.asked.source
    BY <1>1, <1>3 DEF Outlived, Indexed
  <2>2. /\ drivers["clangd"] \in Nat /\ drivers["source"] \in Nat /\ drivers[check.asked.driver] \in Nat
    BY <1>1 DEF Good, QueryInv, QueryTypes, Q!Files
  <2>3. /\ trial.hash = check.asked.hash /\ trial.clangd = check.asked.clangd
        /\ trial.source = check.asked.source
    BY <1>1, <2>1, <2>2 DEF Indexed, Good
  <2>. QED BY <1>1, <2>3 DEF Indexed
<1>5. QueryTypes' /\ Observing'
  BY <1>1, QueryBegins DEF Q!Begin
<1>6. check' = [for |-> "final", asked |-> check.asked] /\ \A e : Good(e)' = Good(e)
  BY <1>1 DEF Q!Begin, Good
<1>7. Evidencing'
  BY <1>1, <1>6 DEF Evidencing
<1>8. Receipted'
  BY <1>1, <1>4, <1>6 DEF Receipted
<1>. QED BY <1>5, <1>7, <1>8 DEF QueryInv

LEMMA QueryLost == ASSUME QueryInv, UNCHANGED <<drivers, asker, resolves, proof>>, Q!Lost PROVE QueryInv'
BY QueryAgain, QueryFails DEF Q!Lost

LEMMA QueryUses ==
  ASSUME QueryInv, Q!Prove \/ Q!ProofFails \/ Q!Refused \/ Q!Differs \/ Q!Republish \/ Q!Again \/ Q!Confirm
                   \/ Q!Activate \/ Q!LetThrough
  PROVE  QueryInv'
<1>1. UNCHANGED <<drivers, asker, resolves, proof>>
  BY DEF Q!Prove, Q!ProofFails, Q!Refused, Q!Differs, Q!Republish, Q!Again, Q!Confirm, Q!Activate,
         Q!LetThrough, Q!outside, Q!world
<1>2. Q!For("again") \/ Q!For("confirm") => Good(check.asked)
  BY DEF Q!For, QueryInv, Evidencing
<1>3. proof # Q!None => Good(proof.evidence)
  BY DEF QueryInv, Receipted
<1>4. CASE Q!Prove
  BY <1>1, <1>4, QueryAgain DEF Q!Prove
<1>5. CASE Q!ProofFails \/ Q!LetThrough
  BY <1>1, <1>5, QueryFails DEF Q!ProofFails, Q!LetThrough
<1>6. CASE Q!Refused \/ Q!Differs
  BY <1>1, <1>6, QueryLost DEF Q!Refused, Q!Differs
<1>7. CASE Q!Republish
  <2>1. CASE UNCHANGED <<check, query>>
    <3>1. QueryTypes' /\ Observing'
      BY <1>1, <2>1, QueryEnds
    <3>. QED BY <1>1, <2>1, <3>1 DEF QueryInv, Evidencing, Receipted, Indexed, Outlived, Good
  <2>. QED BY <1>1, <1>3, <1>7, <2>1, QueryAgain DEF Q!Republish
<1>8. CASE Q!Again \/ Q!Confirm
  BY <1>1, <1>2, <1>8, QueryAgain, QueryLost DEF Q!Again, Q!Confirm
<1>9. CASE Q!Activate
  BY <1>1, <1>3, <1>9, QueryAgain DEF Q!Activate
<1>. QED BY <1>4, <1>5, <1>6, <1>7, <1>8, <1>9

LEMMA QueryKept == ASSUME QueryInv, Q!Next PROVE QueryInv'
BY QueryEdit, QueryClangd, QueryGivesUp, QueryMoves, QueryParses, QueryHashes, QueryAsks, QueryBuiltins,
   QueryRehashes, QueryIndexes, QueryObserved, QueryRevalidates, QueryAccepts, QueryUses DEF Q!Next

LEMMA QueryIsOfOne == QueryInv => Q!OneDriver
<1> SUFFICES ASSUME QueryInv PROVE Q!OneDriver
  OBVIOUS
<1>1. ASSUME NEW e \in Q!Held PROVE Good(e)
  <2>1. e # Q!None
    BY DEF Q!Held
  <2>2. CASE Q!At("done") /\ e = query.evidence
    BY <2>2 DEF Q!At, QueryInv, Observing
  <2>3. CASE check # Q!Idle /\ e = check.asked
    BY <2>1, <2>3 DEF QueryInv, Evidencing
  <2>4. CASE proof # Q!None /\ e = proof.evidence
    BY <2>4 DEF QueryInv, Receipted
  <2>. QED BY <2>1, <2>2, <2>3, <2>4 DEF Q!Held
<1>2. \A e \in Q!Held : /\ Gives[e.driver][e.hash + 1] = e.answer
                       /\ {<<e.driver, e.hash>>, <<"clangd", e.clangd>>} \subseteq Supported
  BY <1>1 DEF Good
<1>3. proof # Q!None => \A trial \in proof.ran : \A f \in DOMAIN trial : trial[f] = proof.evidence[f]
  BY DEF QueryInv, Receipted
<1>. QED BY <1>2, <1>3 DEF Q!OneDriver

LEMMA QuerySteps == [NextAll]_all => Q!Next \/ UNCHANGED querying
BY DEF NextAll, ActivationStep, CohortStep, SwitchStep, ChunksStep, SuperStep, ReceiptStep, HotStep, FullStep,
       RepairStep, ClangdStep, QueryStep, BatchStep, ToolStep, all, batches, tools, querying

LEMMA QueryStutters == QueryInv /\ UNCHANGED querying => QueryInv'
<1> SUFFICES ASSUME QueryInv, UNCHANGED querying PROVE QueryInv'
  OBVIOUS
<1>1. UNCHANGED <<drivers, resolves, asker, query, check, proof>>
  BY DEF querying
<1>. QED BY <1>1 DEF QueryInv, QueryTypes, Observing, Rehashing, Reviewed, Gave, Good, Evidencing, Indexed,
                     Outlived, Receipted

LEMMA QueryAlways == SpecAll => []QueryInv
<1>1. InitAll => QueryInv
  BY QueryInit DEF InitAll
<1>2. QueryInv /\ [NextAll]_all => QueryInv'
  BY QueryKept, QuerySteps, QueryStutters
<1>. QED BY <1>1, <1>2, PTL DEF SpecAll

-----------------------------------------------------------------------------
(* Sums and folds.                                                          *)

(* A set that has the empty set, and each set whose rest it has, has every   *)
(* subset.                                                                  *)
Picks(pick, X) == \A s \in SUBSET X : s # {} => pick[s] \in s
Grows(T, pick, X) == {} \in T /\ \A s \in SUBSET X : s # {} /\ s \ {pick[s]} \in T => s \in T
LEMMA EverySubset ==
  ASSUME NEW X, IsFiniteSet(X), NEW pick, Picks(pick, X), NEW T, Grows(T, pick, X)
  PROVE  \A s \in SUBSET X : s \in T
<1> USE DEF Picks, Grows
<1> DEFINE Rest == (SUBSET X) \ T
<1>1. SUFFICES ASSUME Rest # {} PROVE FALSE
  OBVIOUS
<1>2. Rest \subseteq SUBSET X
  OBVIOUS
<1>3. PICK m \in Rest : \A s \in Rest : s \subseteq m => s = m
  <2> HIDE DEF Rest
  <2>. QED BY <1>1, <1>2, MinimalSet
<1>4. m \in SUBSET X /\ m \notin T
  OBVIOUS
<1> HIDE DEF Rest
<1>5. m # {} /\ pick[m] \in m
  BY <1>4
<1>6. m \ {pick[m]} \in Rest
  BY <1>4, <1>5 DEF Rest
<1>. QED BY <1>3, <1>5, <1>6

Total(w) == SumFunction(w)
AnyOf(s) == CHOOSE x \in s : TRUE
Sums(f, w, X) == /\ f \in [SUBSET X -> Nat] /\ f[{}] = 0
                 /\ \A s \in SUBSET X : \A i \in s : f[s] = w[i] + f[s \ {i}]

LEMMA SumIsDefined ==
  ASSUME NEW X, IsFiniteSet(X), NEW w \in [X -> Nat]
  PROVE  \E f : Sums(f, w, X)
<1> DEFINE pick == [s \in SUBSET X |-> AnyOf(s)]
           step == [q \in X \X Nat |-> w[q[1]] + q[2]]
<1>1. \A s \in SUBSET X : s # {} => pick[s] \in s
  BY DEF AnyOf
<1>2. PICK f \in [SUBSET X -> Nat] : IsFold(f, X, 0, pick, step)
  <2>1. step \in [X \X Nat -> Nat]
    OBVIOUS
  <2> HIDE DEF pick, step
  <2>2. Folding(X, Nat, 0, pick, step)
    BY <1>1, <2>1 DEF Folding
  <2>. QED BY <2>2, FoldIsDefined
<1>3. f[{}] = 0
  BY <1>2 DEF IsFold
<1>4. ASSUME NEW s \in SUBSET X, s # {}
      PROVE  pick[s] \in s /\ f[s] = w[pick[s]] + f[s \ {pick[s]}]
  <2>1. pick[s] \in s /\ s \ {pick[s]} \in SUBSET X
    BY <1>1, <1>4
  <2>2. f[s] = step[<<pick[s], f[s \ {pick[s]}]>>]
    BY <1>2, <1>4 DEF IsFold
  <2> HIDE DEF pick
  <2>. QED BY <2>1, <2>2
<1> HIDE DEF pick, step
<1> DEFINE Adds(s) == \A i \in s : f[s] = w[i] + f[s \ {i}]
           Bad == {s \in SUBSET X : ~Adds(s)}
<1>5. Bad = {}
  <2> SUFFICES ASSUME Bad # {} PROVE FALSE
    OBVIOUS
  <2>1. PICK s \in Bad : \A r \in Bad : r \subseteq s => r = s
    <3>1. Bad \subseteq SUBSET X
      OBVIOUS
    <3> HIDE DEF Bad
    <3>. QED BY <3>1, MinimalSet
  <2>2. PICK i \in s : f[s] # w[i] + f[s \ {i}]
    OBVIOUS
  <2> DEFINE p == pick[s]
  <2>3. p \in s /\ f[s] = w[p] + f[s \ {p}] /\ p # i
    BY <1>4, <2>2
  <2>4. s \ {p} \notin Bad /\ s \ {i} \notin Bad
    BY <2>1, <2>2, <2>3
  <2>5. f[s \ {p}] = w[i] + f[(s \ {p}) \ {i}]
    BY <2>2, <2>3, <2>4
  <2>6. f[s \ {i}] = w[p] + f[(s \ {i}) \ {p}]
    BY <2>2, <2>3, <2>4
  <2>7. (s \ {p}) \ {i} = (s \ {i}) \ {p}
    OBVIOUS
  <2>8. w[i] \in Nat /\ w[p] \in Nat /\ f[(s \ {i}) \ {p}] \in Nat
    BY <2>2, <2>3
  <2>9. f[s] = w[p] + (w[i] + f[(s \ {i}) \ {p}]) /\ f[s \ {i}] = w[p] + f[(s \ {i}) \ {p}]
    BY <2>3, <2>5, <2>6, <2>7
  <2> HIDE DEF p
  <2>. QED BY <2>2, <2>8, <2>9
<1>6. \A s \in SUBSET X : Adds(s)
  BY <1>5
<1>. QED BY <1>3, <1>6 DEF Sums

(* What is summed is the sum: one member more, in any order.                *)
LEMMA SumIs ==
  ASSUME NEW X, IsFiniteSet(X), NEW w \in [X -> Nat], NEW f, Sums(f, w, X),
         NEW c \in SUBSET X, NEW v, v = [i \in c |-> w[i]]
  PROVE  Total(v) = f[c]
<1> DEFINE iter == CHOOSE g : g = [s \in SUBSET c |-> IF s = {} THEN 0 ELSE v[AnyOf(s)] + g[s \ {AnyOf(s)}]]
<1>1. Total(v) = iter[c]
  BY DEF Total, SumFunction, SumFunctionOnSet, FoldFunctionOnSet, MapThenFoldSet, AnyOf
<1>2. IsFiniteSet(c)
  BY FS_Subset
<1>3. \A s \in SUBSET c : s # {} => AnyOf(s) \in s
  BY DEF AnyOf
<1> DEFINE g == [s \in SUBSET c |-> f[s]]
<1>4. ASSUME NEW s \in SUBSET c, s # {}
      PROVE  f[s] = v[AnyOf(s)] + f[s \ {AnyOf(s)}]
  BY <1>3, <1>4 DEF Sums
<1>5. g = [s \in SUBSET c |-> IF s = {} THEN 0 ELSE v[AnyOf(s)] + g[s \ {AnyOf(s)}]]
  BY <1>4 DEF Sums
<1>6. iter = [s \in SUBSET c |-> IF s = {} THEN 0 ELSE v[AnyOf(s)] + iter[s \ {AnyOf(s)}]]
  BY <1>5
<1> HIDE DEF iter, g
<1> DEFINE T == {s \in SUBSET c : iter[s] = f[s]}
           pick == [s \in SUBSET c |-> AnyOf(s)]
<1>7. {} \in T
  BY <1>6 DEF Sums
<1>8. ASSUME NEW s \in SUBSET c, s # {}, s \ {pick[s]} \in T PROVE s \in T
  <2>1. iter[s \ {AnyOf(s)}] = f[s \ {AnyOf(s)}]
    BY <1>8
  <2>2. iter[s] = v[AnyOf(s)] + iter[s \ {AnyOf(s)}]
    BY <1>6, <1>8
  <2>. QED BY <1>4, <1>8, <2>1, <2>2
<1>9. \A s \in SUBSET c : s # {} => pick[s] \in s
  BY <1>3
<1> HIDE DEF T, pick
<1>12. Picks(pick, c) /\ Grows(T, pick, c)
  BY <1>7, <1>8, <1>9 DEF Picks, Grows
<1>10. \A s \in SUBSET c : s \in T
  BY <1>2, <1>12, EverySubset
<1>11. c \in T
  BY <1>10
<1>. QED BY <1>1, <1>11 DEF T

-----------------------------------------------------------------------------
(* UnityChunks: buckets.                                                    *)

Sized(E, b, X) ==
    /\ IsFiniteSet(X) /\ X \subseteq Nat
    /\ \A i \in X : U!Bytes(E[i], b) \in Nat /\ E[i].sources \in Nat
    /\ b.bytes \in Nat /\ b.unities \in Nat /\ b.sources \in Nat

LEMMA SameOperators ==
  /\ \A s : U!Cardinality(s) = Cardinality(s)
  /\ \A s : U!Range(s) = ToSet(s)
  /\ \A w : U!SumFunction(w) = Total(w)
<1>1. \A s : U!Cardinality(s) = Cardinality(s)
  BY DEF U!Cardinality, Cardinality
<1>2. \A s : U!Range(s) = ToSet(s)
  BY DEF U!Range, ToSet
<1>3. \A w : U!SumFunction(w) = Total(w)
  BY DEF Total, U!SumFunction, U!SumFunctionOnSet, U!FoldFunctionOnSet, U!MapThenFoldSet,
         SumFunction, SumFunctionOnSet, FoldFunctionOnSet, MapThenFoldSet
<1>. QED BY <1>1, <1>2, <1>3

(* A finite set of numbers has a greatest member.                           *)
Top(s) == U!Max(s)
LEMMA TopIs ==
  ASSUME NEW s, IsFiniteSet(s), s \subseteq Nat, s # {}
  PROVE  Top(s) \in s /\ \A i \in s : i <= Top(s)
<1> DEFINE Rel == {q \in Nat \X Nat : q[1] >= q[2]}
<1>1. \E m \in s : \A i \in s : <<m, i>> \in Rel
  <2>1. \A x, y \in s : <<x, y>> \in Rel \/ <<y, x>> \in Rel
    OBVIOUS
  <2>2. \A x, y, z \in s : <<x, y>> \in Rel /\ <<y, z>> \in Rel => <<x, z>> \in Rel
    OBVIOUS
  <2> HIDE DEF Rel
  <2>. QED BY <2>1, <2>2, GreatestOf
<1>2. \E m \in s : \A i \in s : m >= i
  BY <1>1
<1>3. Top(s) \in s /\ \A i \in s : Top(s) >= i
  BY <1>2 DEF Top, U!Max
<1>. QED BY <1>3

LEMMA SizeAdds ==
  ASSUME NEW E, NEW b, NEW X, Sized(E, b, X), NEW c \in SUBSET X
  PROVE  /\ U!SizeOf(E, c, b) \in Nat /\ U!SourcesOf(E, c) \in Nat
         /\ \A i \in c : /\ U!SizeOf(E, c, b) = U!Bytes(E[i], b) + U!SizeOf(E, c \ {i}, b)
                         /\ U!SourcesOf(E, c) = E[i].sources + U!SourcesOf(E, c \ {i})
<1> DEFINE w == [i \in X |-> U!Bytes(E[i], b)]
           v == [i \in X |-> E[i].sources]
<1>1. w \in [X -> Nat] /\ v \in [X -> Nat] /\ IsFiniteSet(X)
  BY DEF Sized
<1>2. PICK f : Sums(f, w, X)
  <2> HIDE DEF w, v
  <2>. QED BY <1>1, SumIsDefined
<1>3. PICK g : Sums(g, v, X)
  <2> HIDE DEF w, v
  <2>. QED BY <1>1, SumIsDefined
<1>4. ASSUME NEW d \in SUBSET X PROVE U!SizeOf(E, d, b) = f[d] /\ U!SourcesOf(E, d) = g[d]
  <2> DEFINE wd == [i \in d |-> U!Bytes(E[i], b)]
             vd == [i \in d |-> E[i].sources]
  <2>1. U!SizeOf(E, d, b) = Total(wd) /\ U!SourcesOf(E, d) = Total(vd)
    BY SameOperators DEF U!SizeOf, U!SourcesOf
  <2>2. wd = [i \in d |-> w[i]] /\ vd = [i \in d |-> v[i]]
    OBVIOUS
  <2> HIDE DEF w, v, wd, vd
  <2>3. Total(wd) = f[d]
    BY <1>1, <1>2, <2>2, SumIs
  <2>4. Total(vd) = g[d]
    BY <1>1, <1>3, <2>2, SumIs
  <2>. QED BY <2>1, <2>3, <2>4
<1>5. ASSUME NEW i \in c
      PROVE  /\ U!SizeOf(E, c, b) = U!Bytes(E[i], b) + U!SizeOf(E, c \ {i}, b)
             /\ U!SourcesOf(E, c) = E[i].sources + U!SourcesOf(E, c \ {i})
  <2>1. f[c] = w[i] + f[c \ {i}] /\ g[c] = v[i] + g[c \ {i}]
    BY <1>2, <1>3 DEF Sums
  <2>. QED BY <1>4, <2>1
<1>6. f[c] \in Nat /\ g[c] \in Nat
  BY <1>2, <1>3 DEF Sums
<1>. QED BY <1>4, <1>5, <1>6

(* What fits with a chunk fits with one of its entries.                     *)
LEMMA FitsFewer ==
  ASSUME NEW E, NEW b, NEW X, Sized(E, b, X), NEW c \in SUBSET X, NEW i \in c, NEW j \in X,
         U!Fits(E, c, j, b)
  PROVE  U!Fits(E, {i}, j, b)
<1>1. /\ U!SizeOf(E, c, b) = U!Bytes(E[i], b) + U!SizeOf(E, c \ {i}, b)
      /\ U!SourcesOf(E, c) = E[i].sources + U!SourcesOf(E, c \ {i})
  BY SizeAdds
<1>2. /\ U!SizeOf(E, {i}, b) = U!Bytes(E[i], b) + U!SizeOf(E, {i} \ {i}, b)
      /\ U!SourcesOf(E, {i}) = E[i].sources + U!SourcesOf(E, {i} \ {i})
  BY SizeAdds
<1>3. {i} \ {i} = {}
  OBVIOUS
<1>4. U!SizeOf(E, {}, b) = 0 /\ U!SourcesOf(E, {}) = 0
  <2> DEFINE none == [k \in {} |-> 0]
  <2>1. U!SizeOf(E, {}, b) = Total(none) /\ U!SourcesOf(E, {}) = Total(none)
    <3>1. [k \in {} |-> U!Bytes(E[k], b)] = none /\ [k \in {} |-> E[k].sources] = none
      OBVIOUS
    <3>. QED BY <3>1, SameOperators DEF U!SizeOf, U!SourcesOf
  <2> DEFINE Y == {}
  <2>2. IsFiniteSet(Y) /\ none \in [Y -> Nat] /\ Y \in SUBSET Y
    BY FS_EmptySet
  <2>3. none = [k \in Y |-> none[k]]
    OBVIOUS
  <2>6. Y = {}
    OBVIOUS
  <2> HIDE DEF none, Y
  <2>4. PICK f : Sums(f, none, Y)
    BY <2>2, SumIsDefined
  <2>5. Total(none) = f[Y]
    BY <2>2, <2>3, <2>4, SumIs
  <2>. QED BY <2>1, <2>4, <2>5, <2>6 DEF Sums
<1>5. /\ U!SizeOf(E, c \ {i}, b) \in Nat /\ U!SourcesOf(E, c \ {i}) \in Nat
      /\ U!Bytes(E[i], b) \in Nat /\ U!Bytes(E[j], b) \in Nat /\ E[i].sources \in Nat /\ E[j].sources \in Nat
      /\ b.bytes \in Nat /\ b.sources \in Nat /\ b.unities \in Nat
  <2>1. i \in X /\ c \ {i} \in SUBSET X
    OBVIOUS
  <2>2. U!SizeOf(E, c \ {i}, b) \in Nat /\ U!SourcesOf(E, c \ {i}) \in Nat
    BY <2>1, SizeAdds
  <2>. QED BY <2>1, <2>2 DEF Sized
<1>6. Cardinality(c) \in Nat /\ Cardinality({i}) <= Cardinality(c) /\ Cardinality({i}) \in Nat
  <2>1. IsFiniteSet(c) /\ {i} \in SUBSET c
    BY FS_Subset DEF Sized
  <2>. QED BY <2>1, FS_Subset, FS_CardinalityType
<1>7. U!SizeOf(E, c, b) + U!Bytes(E[j], b) <= b.bytes /\ Cardinality(c) < b.unities
      /\ U!SourcesOf(E, c) + E[j].sources <= b.sources
  BY SameOperators DEF U!Fits
<1>11. U!SizeOf(E, {i}, b) = U!Bytes(E[i], b) /\ U!SourcesOf(E, {i}) = E[i].sources
  BY <1>2, <1>3, <1>4, <1>5
<1>8. U!SizeOf(E, {i}, b) + U!Bytes(E[j], b) <= b.bytes
  BY <1>1, <1>5, <1>7, <1>11
<1>9. U!SourcesOf(E, {i}) + E[j].sources <= b.sources
  BY <1>1, <1>5, <1>7, <1>11
<1>10. Cardinality({i}) < b.unities
  BY <1>5, <1>6, <1>7
<1>. QED BY <1>8, <1>9, <1>10, SameOperators DEF U!Fits

(* One entry of a bucket.                                                   *)
Big(E, b, i) == U!Bytes(E[i], b) > b.bytes \/ E[i].sources > b.sources
Full(E, b, stems, open, i) ==
    open # {} /\ (~U!Fits(E, open, i, b) \/ (stems /\ U!StemsClash(E, open, i)))
Packs(X) == [chunks : SUBSET SUBSET X, open : SUBSET X]
NoPack == [chunks |-> {}, open |-> {}]
Closed(open) == {c \in {open} : Cardinality(c) > 1}

Adding(r, E, b, stems, acc, i) ==
    /\ Full(E, b, stems, acc.open, i) => /\ r.chunks = acc.chunks \cup Closed(acc.open)
                                         /\ r.open = IF Big(E, b, i) THEN {} ELSE {i}
    /\ ~Full(E, b, stems, acc.open, i) => /\ r.chunks = acc.chunks
                                          /\ r.open = IF Big(E, b, i) THEN {} ELSE acc.open \cup {i}

LEMMA PackIs ==
  ASSUME NEW E, NEW b, NEW stems, NEW X, Sized(E, b, X), NEW acc \in Packs(X), NEW i \in X,
         NEW r, r = U!Pack(E, b, stems, acc, i)
  PROVE  r \in Packs(X) /\ Adding(r, E, b, stems, acc, i)
<1> USE DEF Adding
<1> DEFINE full == Full(E, b, stems, acc.open, i)
           next == IF full THEN U!Flush(acc) ELSE acc
<1>1. r = IF Big(E, b, i) THEN next ELSE [next EXCEPT !.open = @ \cup {i}]
  BY DEF U!Pack, Big, Full
<1>2. U!Flush(acc) = [chunks |-> acc.chunks \cup Closed(acc.open), open |-> {}]
  BY SameOperators DEF U!Flush, Closed
<1>3. acc.chunks \in SUBSET SUBSET X /\ acc.open \in SUBSET X /\ Closed(acc.open) \in SUBSET SUBSET X
  BY DEF Packs, Closed
<1>4. U!Flush(acc) \in Packs(X)
  BY <1>2, <1>3 DEF Packs
<1>5. ASSUME Big(E, b, i), acc.open # {} PROVE full
  <2>1. /\ U!SizeOf(E, acc.open, b) \in Nat /\ U!SourcesOf(E, acc.open) \in Nat
    BY <1>3, SizeAdds
  <2>2. /\ U!Bytes(E[i], b) \in Nat /\ E[i].sources \in Nat
        /\ b.bytes \in Nat /\ b.sources \in Nat
    BY DEF Sized
  <2>3. ~U!Fits(E, acc.open, i, b)
    BY <1>5, <2>1, <2>2 DEF Big, U!Fits
  <2>. QED BY <1>5, <2>3 DEF Full
<1>6. next \in Packs(X)
  BY <1>4
<1>7. next.open = IF full THEN {} ELSE acc.open
  BY <1>2
<1>8. next.chunks = IF full THEN acc.chunks \cup Closed(acc.open) ELSE acc.chunks
  BY <1>2
<1> HIDE DEF next, full
<1>9. /\ [next EXCEPT !.open = @ \cup {i}] \in Packs(X)
      /\ [next EXCEPT !.open = @ \cup {i}].open = next.open \cup {i}
      /\ [next EXCEPT !.open = @ \cup {i}].chunks = next.chunks
  BY <1>6 DEF Packs
<1>10. r \in Packs(X) /\ r.chunks = next.chunks
       /\ r.open = IF Big(E, b, i) THEN next.open ELSE next.open \cup {i}
  BY <1>1, <1>6, <1>9
<1>. QED BY <1>5, <1>7, <1>8, <1>10 DEF full

(* A bucket is packed entry by entry.                                       *)
PackFold(f, E, b, stems, X) ==
    /\ f \in [SUBSET X -> Packs(X)]
    /\ f[{}] = NoPack
    /\ \A s \in SUBSET X : s # {} => f[s] = U!Pack(E, b, stems, f[s \ {Top(s)}], Top(s))

LEMMA PackFolds ==
  ASSUME NEW E, NEW b, NEW stems, NEW X, Sized(E, b, X)
  PROVE  \E f : PackFold(f, E, b, stems, X) /\ U!PackBucket(E, X, b, stems) = f[X].chunks \cup Closed(f[X].open)
<1> DEFINE iter == CHOOSE f : f = [s \in SUBSET X |->
                     IF s = {} THEN NoPack ELSE U!Pack(E, b, stems, f[s \ {Top(s)}], Top(s))]
           pick == [s \in SUBSET X |-> Top(s)]
           step == [q \in X \X Packs(X) |-> U!Pack(E, b, stems, q[2], q[1])]
<1>1. U!PackBucket(E, X, b, stems) = U!Flush(iter[X]).chunks
  BY DEF U!PackBucket, NoPack, Top
<1>2. IsFiniteSet(X) /\ \A s \in SUBSET X : s # {} => pick[s] \in s
  <2>1. \A s \in SUBSET X : IsFiniteSet(s) /\ s \subseteq Nat
    BY FS_Subset DEF Sized
  <2>. QED BY <2>1, TopIs DEF Sized
<1>3. NoPack \in Packs(X)
  BY DEF NoPack, Packs
<1>4. step \in [X \X Packs(X) -> Packs(X)]
  <2>1. \A q \in X \X Packs(X) : U!Pack(E, b, stems, q[2], q[1]) \in Packs(X)
    BY PackIs
  <2>. QED BY <2>1
<1>5. PICK f \in [SUBSET X -> Packs(X)] : IsFold(f, X, NoPack, pick, step)
  <2> DEFINE V == Packs(X)
  <2>1. step \in [X \X V -> V] /\ NoPack \in V
    BY <1>3, <1>4
  <2> HIDE DEF pick, step, V
  <2>2. Folding(X, V, NoPack, pick, step)
    BY <1>2, <2>1 DEF Folding
  <2>3. \E f \in [SUBSET X -> V] : IsFold(f, X, NoPack, pick, step)
    BY <2>2, FoldIsDefined
  <2>. QED BY <2>3 DEF V
<1>6. ASSUME NEW s \in SUBSET X, s # {}
      PROVE  f[s] = U!Pack(E, b, stems, f[s \ {Top(s)}], Top(s))
  <2>1. pick[s] = Top(s) /\ pick[s] \in X /\ f[s \ {pick[s]}] \in Packs(X)
    BY <1>2, <1>6
  <2>2. f[s] = step[<<pick[s], f[s \ {pick[s]}]>>]
    BY <1>5, <1>6 DEF IsFold
  <2> HIDE DEF pick
  <2>. QED BY <2>1, <2>2
<1>7. f = [s \in SUBSET X |-> IF s = {} THEN NoPack ELSE U!Pack(E, b, stems, f[s \ {Top(s)}], Top(s))]
  BY <1>5, <1>6 DEF IsFold
<1>8. iter = [s \in SUBSET X |-> IF s = {} THEN NoPack ELSE U!Pack(E, b, stems, iter[s \ {Top(s)}], Top(s))]
  BY <1>7
<1> HIDE DEF iter, pick, step
<1> DEFINE T == {s \in SUBSET X : iter[s] = f[s]}
<1>9. \A s \in SUBSET X : s \in T
  <2>1. {} \in T
    BY <1>7, <1>8
  <2>2. ASSUME NEW s \in SUBSET X, s # {}, s \ {pick[s]} \in T PROVE s \in T
    <3>1. pick[s] = Top(s)
      BY DEF pick
    <3>2. iter[s \ {Top(s)}] = f[s \ {Top(s)}]
      BY <2>2, <3>1
    <3>. QED BY <1>6, <1>8, <2>2, <3>2
  <2> HIDE DEF T
  <2>3. Picks(pick, X) /\ Grows(T, pick, X)
    BY <1>2, <2>1, <2>2 DEF Picks, Grows
  <2>. QED BY <1>2, <2>3, EverySubset
<1>10. iter[X] = f[X]
  BY <1>9
<1>11. PackFold(f, E, b, stems, X)
  BY <1>5, <1>6 DEF PackFold, IsFold
<1>12. U!Flush(f[X]).chunks = f[X].chunks \cup Closed(f[X].open)
  BY SameOperators DEF U!Flush, Closed
<1>. QED BY <1>1, <1>10, <1>11, <1>12

(* What a chunk is: each of its entries fitted with those before it, and    *)
(* nothing of the bucket lies between them.                                 *)
Below(c, i) == {k \in c : k < i}
Grown(E, b, stems, c) == \A i \in c : ~Big(E, b, i) /\ ~Full(E, b, stems, Below(c, i), i)
Solid(c, s) == \A i \in s \ c : (\A k \in c : k < i) \/ (\A k \in c : i < k)
Apart(cs) == \A c \in cs : \A d \in cs : c = d \/ c \cap d = {}
IsChunk(E, b, stems, c, s) ==
    c \subseteq s /\ Cardinality(c) > 1 /\ Grown(E, b, stems, c) /\ Solid(c, s)
Packed(E, b, stems, acc, s) ==
    /\ acc.open \subseteq s /\ Grown(E, b, stems, acc.open)
    /\ \A i \in s \ acc.open : \A k \in acc.open : i < k
    /\ \A c \in acc.chunks : IsChunk(E, b, stems, c, s) /\ c \cap acc.open = {}
    /\ Apart(acc.chunks)

LEMMA RestIs ==
  ASSUME NEW X, IsFiniteSet(X), X \subseteq Nat, NEW s \in SUBSET X, s # {}
  PROVE  /\ Top(s) \in s /\ Top(s) \in X /\ Top(s) \in Nat
         /\ s \ {Top(s)} \in SUBSET X /\ s = (s \ {Top(s)}) \cup {Top(s)}
         /\ \A i \in s \ {Top(s)} : i \in Nat /\ i < Top(s)
<1>1. IsFiniteSet(s) /\ s \subseteq Nat
  BY FS_Subset
<1>2. Top(s) \in s /\ \A i \in s : i <= Top(s)
  BY <1>1, TopIs
<1>3. \A i \in s \ {Top(s)} : i \in Nat /\ Top(s) \in Nat /\ i <= Top(s) /\ i # Top(s)
  BY <1>1, <1>2
<1>4. \A i \in s \ {Top(s)} : i < Top(s)
  BY <1>3
<1>. QED BY <1>1, <1>2, <1>3, <1>4

(* Induction over the entries of a bucket.                                  *)
GrowsUp(T, X) == {} \in T /\ \A s \in SUBSET X : s # {} /\ s \ {Top(s)} \in T => s \in T
LEMMA EveryBucket ==
  ASSUME NEW X, IsFiniteSet(X), X \subseteq Nat, NEW T, GrowsUp(T, X)
  PROVE  \A s \in SUBSET X : s \in T
<1> DEFINE pick == [s \in SUBSET X |-> Top(s)]
<1>1. Picks(pick, X)
  BY RestIs DEF Picks
<1>2. Grows(T, pick, X)
  BY DEF Grows, GrowsUp
<1> HIDE DEF pick
<1>. QED BY <1>1, <1>2, EverySubset

LEMMA GrownAdds ==
  ASSUME NEW E, NEW b, NEW stems, NEW c, NEW m \in Nat, \A k \in c : k \in Nat /\ k < m,
         Grown(E, b, stems, c), ~Big(E, b, m), ~Full(E, b, stems, c, m)
  PROVE  Grown(E, b, stems, c \cup {m})
<1>1. Below(c \cup {m}, m) = c
  BY DEF Below
<1>2. \A i \in c : Below(c \cup {m}, i) = Below(c, i)
  BY DEF Below
<1>. QED BY <1>1, <1>2 DEF Grown

LEMMA PackStep ==
  ASSUME NEW E, NEW b, NEW stems, NEW X, Sized(E, b, X), NEW s \in SUBSET X, s # {},
         NEW acc \in Packs(X), Packed(E, b, stems, acc, s \ {Top(s)}),
         NEW r, r = U!Pack(E, b, stems, acc, Top(s))
  PROVE  Packed(E, b, stems, r, s)
<1> DEFINE m == Top(s)
           t == s \ {m}
<1>1. /\ m \in s /\ m \in X /\ m \in Nat /\ t \in SUBSET X /\ s = t \cup {m}
      /\ \A i \in t : i \in Nat /\ i < m
  BY RestIs DEF Sized
<1>2. Packed(E, b, stems, acc, t)
  OBVIOUS
<1>a. r = U!Pack(E, b, stems, acc, m)
  OBVIOUS
<1> HIDE DEF m, t
<1>3. /\ Full(E, b, stems, acc.open, m) =>
           /\ r.chunks = acc.chunks \cup Closed(acc.open)
           /\ r.open = IF Big(E, b, m) THEN {} ELSE {m}
      /\ ~Full(E, b, stems, acc.open, m) =>
           /\ r.chunks = acc.chunks
           /\ r.open = IF Big(E, b, m) THEN {} ELSE acc.open \cup {m}
  <2>1. Adding(r, E, b, stems, acc, m)
    BY <1>1, <1>a, PackIs
  <2>. QED BY <2>1 DEF Adding
<1>4. acc.open \subseteq t /\ \A i \in t \ acc.open : \A k \in acc.open : i < k
  BY <1>2 DEF Packed
<1>5. ~Full(E, b, stems, {}, m)
  BY DEF Full
<1>6. Grown(E, b, stems, {})
  BY DEF Grown
<1>7. ~Big(E, b, m) => Grown(E, b, stems, {m})
  <2>1. \A k \in {} : k \in Nat /\ k < m
    OBVIOUS
  <2>2. {} \cup {m} = {m}
    OBVIOUS
  <2>. QED BY <1>1, <1>5, <1>6, <2>1, <2>2, GrownAdds
<1>8. ~Big(E, b, m) /\ ~Full(E, b, stems, acc.open, m) => Grown(E, b, stems, acc.open \cup {m})
  <2>1. Grown(E, b, stems, acc.open) /\ \A k \in acc.open : k \in Nat /\ k < m
    BY <1>1, <1>2, <1>4 DEF Packed
  <2>. QED BY <1>1, <2>1, GrownAdds
<1>9. r.open \subseteq s /\ Grown(E, b, stems, r.open) /\ r.open \in {{}, {m}, acc.open \cup {m}}
  BY <1>1, <1>3, <1>4, <1>6, <1>7, <1>8
<1>10. \A i \in s \ r.open : \A k \in r.open : i < k
  <2>1. CASE r.open = {}
    BY <2>1
  <2>2. CASE r.open = {m}
    BY <1>1, <2>2
  <2>3. CASE r.open = acc.open \cup {m}
    BY <1>1, <1>4, <2>3
  <2>. QED BY <1>9, <2>1, <2>2, <2>3
<1>11. ASSUME NEW c \in acc.chunks PROVE IsChunk(E, b, stems, c, s) /\ c \cap r.open = {}
  <2>1. IsChunk(E, b, stems, c, t) /\ c \cap acc.open = {}
    BY <1>2 DEF Packed
  <2>2. c \subseteq t /\ m \notin c /\ \A k \in c : k < m
    BY <1>1, <2>1 DEF IsChunk
  <2>3. Solid(c, s)
    BY <1>1, <2>1, <2>2 DEF IsChunk, Solid
  <2>4. c \cap r.open = {}
    BY <1>9, <2>1, <2>2
  <2>. QED BY <1>1, <2>1, <2>3, <2>4 DEF IsChunk
<1>12. CASE ~Full(E, b, stems, acc.open, m)
  BY <1>2, <1>3, <1>9, <1>10, <1>11, <1>12 DEF Packed
<1>13. CASE Full(E, b, stems, acc.open, m)
  <2>1. r.chunks = acc.chunks \cup Closed(acc.open) /\ r.open \subseteq {m}
    BY <1>3, <1>13
  <2>2. ASSUME Cardinality(acc.open) > 1
        PROVE  IsChunk(E, b, stems, acc.open, s) /\ acc.open \cap r.open = {}
    <3>1. Solid(acc.open, s)
      BY <1>1, <1>4 DEF Solid
    <3>2. Grown(E, b, stems, acc.open)
      BY <1>2 DEF Packed
    <3>3. m \notin acc.open
      BY <1>1, <1>4
    <3>. QED BY <1>1, <1>4, <2>1, <2>2, <3>1, <3>2, <3>3 DEF IsChunk
  <2>3. \A c \in r.chunks : IsChunk(E, b, stems, c, s) /\ c \cap r.open = {}
    BY <1>11, <2>1, <2>2 DEF Closed
  <2>4. Apart(r.chunks)
    <3>1. \A c \in acc.chunks : c \cap acc.open = {}
      BY <1>2 DEF Packed
    <3>2. Apart(acc.chunks)
      BY <1>2 DEF Packed
    <3>. QED BY <2>1, <3>1, <3>2 DEF Apart, Closed
  <2>. QED BY <1>9, <1>10, <2>3, <2>4 DEF Packed
<1>. QED BY <1>12, <1>13

LEMMA BucketIsPacked ==
  ASSUME NEW E, NEW b, NEW stems, NEW X, Sized(E, b, X)
  PROVE  /\ \A c \in U!PackBucket(E, X, b, stems) : IsChunk(E, b, stems, c, X)
         /\ Apart(U!PackBucket(E, X, b, stems))
<1>1. PICK f : PackFold(f, E, b, stems, X) /\ U!PackBucket(E, X, b, stems) = f[X].chunks \cup Closed(f[X].open)
  BY PackFolds
<1>2. IsFiniteSet(X) /\ X \subseteq Nat
  BY DEF Sized
<1> DEFINE T == {s \in SUBSET X : Packed(E, b, stems, f[s], s)}
<1>3. {} \in T
  <2>1. f[{}] = NoPack
    BY <1>1 DEF PackFold
  <2>. QED BY <2>1 DEF NoPack, Packed, Grown, Apart
<1>4. ASSUME NEW s \in SUBSET X, s # {}, s \ {Top(s)} \in T PROVE s \in T
  <2>1. s \ {Top(s)} \in SUBSET X /\ Packed(E, b, stems, f[s \ {Top(s)}], s \ {Top(s)})
    BY <1>4
  <2>2. f[s \ {Top(s)}] \in Packs(X) /\ f[s] = U!Pack(E, b, stems, f[s \ {Top(s)}], Top(s))
    BY <1>1, <1>4, <2>1 DEF PackFold
  <2>3. Packed(E, b, stems, f[s], s)
    BY <1>4, <2>1, <2>2, PackStep
  <2>. QED BY <2>3
<1>5. \A s \in SUBSET X : s \in T
  <2> HIDE DEF T
  <2>1. GrowsUp(T, X)
    BY <1>3, <1>4 DEF GrowsUp
  <2>. QED BY <1>2, <2>1, EveryBucket
<1>6. Packed(E, b, stems, f[X], X)
  BY <1>5
<1>7. ASSUME Cardinality(f[X].open) > 1 PROVE IsChunk(E, b, stems, f[X].open, X)
  BY <1>6, <1>7 DEF Packed, IsChunk, Solid
<1>. QED BY <1>1, <1>6, <1>7 DEF Packed, Closed, Apart

(* A chunk that is packed again stays one.                                  *)
LEMMA GrownIsPacked ==
  ASSUME NEW E, NEW b, NEW stems, NEW X, Sized(E, b, X), Grown(E, b, stems, X)
  PROVE  U!PackBucket(E, X, b, stems) = Closed(X)
<1>1. PICK f : PackFold(f, E, b, stems, X) /\ U!PackBucket(E, X, b, stems) = f[X].chunks \cup Closed(f[X].open)
  BY PackFolds
<1>2. IsFiniteSet(X) /\ X \subseteq Nat
  BY DEF Sized
<1> DEFINE Lower(s) == \A i \in s : Below(X, i) \subseteq s
           T == {s \in SUBSET X : Lower(s) => f[s].chunks = {} /\ f[s].open = s}
<1>3. {} \in T
  BY <1>1 DEF PackFold, NoPack
<1>4. ASSUME NEW s \in SUBSET X, s # {}, s \ {Top(s)} \in T PROVE s \in T
  <2> DEFINE m == Top(s)
             t == s \ {m}
  <2>1. /\ m \in s /\ m \in X /\ m \in Nat /\ t \in SUBSET X /\ s = t \cup {m}
        /\ \A i \in t : i \in Nat /\ i < m
    BY <1>2, <1>4, RestIs
  <2>2. f[t] \in Packs(X) /\ f[s] = U!Pack(E, b, stems, f[t], m)
    BY <1>1, <1>4, <2>1 DEF PackFold
  <2>3. t \in T
    BY <1>4
  <2> HIDE DEF m, t
  <2>4. SUFFICES ASSUME Lower(s) PROVE f[s].chunks = {} /\ f[s].open = s
    OBVIOUS
  <2>5. Lower(t) /\ Below(X, m) = t
    <3>1. ASSUME NEW i \in t, NEW k \in Below(X, i) PROVE k \in t
      <4>1. k \in s /\ k < i /\ i < m /\ k \in Nat /\ i \in Nat
        BY <1>2, <2>1, <2>4, <3>1 DEF Below
      <4>. QED BY <2>1, <4>1
    <3>2. Below(X, m) \subseteq t
      <4>1. ASSUME NEW k \in Below(X, m) PROVE k \in t
        <5>1. k \in s /\ k < m /\ k \in Nat
          BY <1>2, <2>1, <2>4, <4>1 DEF Below
        <5>. QED BY <2>1, <5>1
      <4>. QED BY <4>1
    <3>3. t \subseteq Below(X, m)
      BY <2>1 DEF Below
    <3>. QED BY <3>1, <3>2, <3>3
  <2>6. f[t].chunks = {} /\ f[t].open = t
    BY <2>3, <2>5
  <2>7. ~Big(E, b, m) /\ ~Full(E, b, stems, t, m)
    BY <2>1, <2>5 DEF Grown
  <2>8. Adding(f[s], E, b, stems, f[t], m)
    BY <2>1, <2>2, PackIs
  <2>. QED BY <2>1, <2>6, <2>7, <2>8 DEF Adding
<1>5. \A s \in SUBSET X : s \in T
  <2> HIDE DEF T
  <2>1. GrowsUp(T, X)
    BY <1>3, <1>4 DEF GrowsUp
  <2>. QED BY <1>2, <2>1, EveryBucket
<1>6. Lower(X)
  BY DEF Below
<1>7. f[X].chunks = {} /\ f[X].open = X
  BY <1>5, <1>6
<1>. QED BY <1>1, <1>7

(* Where nothing is packed, no two entries that follow each other fit.      *)
Follows(i, j, X) == i < j /\ \A k \in X : ~(i < k /\ k < j)
Lonely(E, b, stems, X) == \A i \in X : \A j \in X :
    Follows(i, j, X) /\ ~Big(E, b, i) /\ ~Big(E, b, j) => Full(E, b, stems, {i}, j)

LEMMA NothingFits ==
  ASSUME NEW E, NEW b, NEW stems, NEW X, Sized(E, b, X), U!PackBucket(E, X, b, stems) = {}
  PROVE  Lonely(E, b, stems, X)
<1>1. PICK f : PackFold(f, E, b, stems, X) /\ U!PackBucket(E, X, b, stems) = f[X].chunks \cup Closed(f[X].open)
  BY PackFolds
<1>2. IsFiniteSet(X) /\ X \subseteq Nat
  BY DEF Sized
<1> DEFINE Bare(s) == f[s].chunks = {} /\ ~(Cardinality(f[s].open) > 1)
           Last1(s) == s # {} => f[s].open = IF Big(E, b, Top(s)) THEN {} ELSE {Top(s)}
           T == {s \in SUBSET X : Bare(s) => Last1(s) /\ Lonely(E, b, stems, s)}
<1>3. {} \in T
  BY DEF Lonely
<1>4. ASSUME NEW s \in SUBSET X, s # {}, s \ {Top(s)} \in T PROVE s \in T
  <2> DEFINE m == Top(s)
             t == s \ {m}
  <2>1. /\ m \in s /\ m \in X /\ m \in Nat /\ t \in SUBSET X /\ s = t \cup {m}
        /\ \A i \in t : i \in Nat /\ i < m
    BY <1>2, <1>4, RestIs
  <2>2. f[t] \in Packs(X) /\ f[s] = U!Pack(E, b, stems, f[t], m)
    BY <1>1, <1>4, <2>1 DEF PackFold
  <2>3. Bare(t) => Last1(t) /\ Lonely(E, b, stems, t)
    BY <1>4
  <2>a. IsFiniteSet(t) /\ t \subseteq Nat
    BY <1>2, <2>1, FS_Subset
  <2>b. t # {} => Top(t) \in t /\ \A i \in t : i <= Top(t)
    BY <2>a, TopIs
  <2>f. f[{}].open = {}
    BY <1>1 DEF PackFold, NoPack
  <2>c. t = {} => f[t].open = {}
    BY <2>f
  <2>d. Last1(s) <=> f[s].open = IF Big(E, b, m) THEN {} ELSE {m}
    BY <1>4
  <2>e. f[t].open \subseteq X
    BY <2>2 DEF Packs
  <2> HIDE DEF m, t, Last1
  <2>4. SUFFICES ASSUME Bare(s) PROVE Last1(s) /\ Lonely(E, b, stems, s)
    OBVIOUS
  <2>5. Adding(f[s], E, b, stems, f[t], m)
    BY <2>1, <2>2, PackIs
  <2>6. IsFiniteSet(f[t].open)
    BY <1>2, <2>e, FS_Subset
  <2>7. Bare(t)
    <3>1. CASE Full(E, b, stems, f[t].open, m)
      <4>1. f[t].chunks = {} /\ Closed(f[t].open) = {}
        BY <2>4, <2>5, <3>1 DEF Adding
      <4>. QED BY <4>1 DEF Closed
    <3>2. CASE ~Full(E, b, stems, f[t].open, m) /\ Big(E, b, m)
      <4>1. f[t].chunks = {} /\ f[s].open = {}
        BY <2>4, <2>5, <3>2 DEF Adding
      <4>2. f[t].open # {} => Full(E, b, stems, f[t].open, m)
        <5>1. f[t].open \in SUBSET X
          BY <2>e
        <5>2. U!SizeOf(E, f[t].open, b) \in Nat /\ U!SourcesOf(E, f[t].open) \in Nat
          BY <5>1, SizeAdds
        <5>3. U!Bytes(E[m], b) \in Nat /\ E[m].sources \in Nat /\ b.bytes \in Nat /\ b.sources \in Nat
          BY <2>1 DEF Sized
        <5>4. ~U!Fits(E, f[t].open, m, b)
          BY <3>2, <5>2, <5>3 DEF Big, U!Fits
        <5>. QED BY <5>4 DEF Full
      <4>3. Cardinality({}) = 0
        BY FS_EmptySet
      <4>. QED BY <3>2, <4>1, <4>2, <4>3
    <3>3. CASE ~Full(E, b, stems, f[t].open, m) /\ ~Big(E, b, m)
      <4>1. f[t].chunks = {} /\ f[s].open = f[t].open \cup {m}
        BY <2>4, <2>5, <3>3 DEF Adding
      <4>2. IsFiniteSet(f[s].open)
        BY <2>6, <4>1, FS_AddElement
      <4>3. Cardinality(f[t].open) <= Cardinality(f[s].open)
        BY <4>1, <4>2, FS_Subset
      <4>4. Cardinality(f[t].open) \in Nat /\ Cardinality(f[s].open) \in Nat
        BY <2>6, <4>2, FS_CardinalityType
      <4>. QED BY <2>4, <4>1, <4>3, <4>4
    <3>. QED BY <3>1, <3>2, <3>3
  <2>8. Last1(t) /\ Lonely(E, b, stems, t)
    BY <2>3, <2>7
  <2>9. ~Full(E, b, stems, f[t].open, m) /\ ~Big(E, b, m) => f[t].open = {}
    <3>1. SUFFICES ASSUME ~Full(E, b, stems, f[t].open, m), ~Big(E, b, m), NEW k \in f[t].open PROVE FALSE
      OBVIOUS
    <3>2. f[s].open = f[t].open \cup {m}
      BY <2>5, <3>1 DEF Adding
    <3>3. t # {} /\ k \in t
      BY <2>8, <2>b, <2>c, <3>1 DEF Last1
    <3>4. k # m /\ {k, m} \subseteq f[s].open
      BY <2>1, <3>1, <3>2, <3>3
    <3>5. IsFiniteSet(f[s].open) /\ Cardinality(f[s].open) \in Nat
      BY <2>6, <3>2, FS_AddElement, FS_CardinalityType
    <3>6. Cardinality(f[s].open) # 0 /\ Cardinality(f[s].open) # 1
      <4>1. f[s].open # {} /\ ~\E x : f[s].open = {x}
        BY <3>4
      <4>. QED BY <3>5, <4>1, FS_EmptySet, FS_Singleton
    <3>. QED BY <2>4, <3>5, <3>6
  <2>10. Last1(s)
    BY <2>1, <2>5, <2>9, <2>d, <2>c, <2>8 DEF Adding, Full, Last1
  <2>11. Lonely(E, b, stems, s)
    <3>1. SUFFICES ASSUME NEW i \in s, NEW j \in s, Follows(i, j, s), ~Big(E, b, i), ~Big(E, b, j)
                   PROVE  Full(E, b, stems, {i}, j)
      BY DEF Lonely
    <3>2. CASE j \in t
      <4>1. i \in t /\ Follows(i, j, t)
        BY <1>2, <2>1, <3>1, <3>2 DEF Follows
      <4>. QED BY <2>8, <3>1, <3>2, <4>1 DEF Lonely
    <3>3. CASE j = m
      <4>1. i \in t /\ t # {}
        BY <2>1, <3>1, <3>3 DEF Follows
      <4>2. i = Top(t)
        <5>1. Top(t) \in t /\ i <= Top(t) /\ Top(t) < m /\ Top(t) \in s /\ Top(t) \in Nat /\ i \in Nat
          BY <2>1, <2>b, <4>1
        <5>2. ~(i < Top(t))
          BY <3>1, <3>3, <5>1 DEF Follows
        <5>. QED BY <5>1, <5>2
      <4>3. f[t].open = {i}
        BY <2>8, <3>1, <4>1, <4>2 DEF Last1
      <4>. QED BY <2>9, <3>1, <3>3, <4>3
    <3>. QED BY <2>1, <3>2, <3>3
  <2>. QED BY <2>10, <2>11
<1>5. \A s \in SUBSET X : s \in T
  <2> HIDE DEF T
  <2>1. GrowsUp(T, X)
    BY <1>3, <1>4 DEF GrowsUp
  <2>. QED BY <1>2, <2>1, EveryBucket
<1>6. Bare(X)
  BY <1>1 DEF Closed
<1>. QED BY <1>5, <1>6

-----------------------------------------------------------------------------
(* UnityChunks: what is planned, bucket by bucket.                          *)

Bucket(E, A, split, k) == {i \in A : U!BucketKey(E[i], split) = k}
OneKey(E, split, c) == \A i, j \in c : U!BucketKey(E[i], split) = U!BucketKey(E[j], split)
Whose(E, b, A, split, stems, c) ==
    \E i \in A : IsChunk(E, b, stems, c, Bucket(E, A, split, U!BucketKey(E[i], split)))
Alone(cs, c) == cs = {c}

LEMMA SecondaryIs ==
  ASSUME NEW E, NEW b, NEW A, NEW split, NEW stems, Sized(E, b, A),
         NEW cs, cs = U!SecondaryChunks(E, A, b, split, stems)
  PROVE  Apart(cs) /\ \A c \in cs : Whose(E, b, A, split, stems, c)
<1> DEFINE X(k) == Bucket(E, A, split, k)
           keys == {U!BucketKey(E[i], split) : i \in A}
<1>1. cs = UNION {U!PackBucket(E, X(k), b, stems) : k \in keys}
  BY DEF U!SecondaryChunks, Bucket
<1>2. ASSUME NEW k PROVE Sized(E, b, X(k))
  <2>1. IsFiniteSet(X(k)) /\ X(k) \subseteq A
    <3>1. X(k) \subseteq A
      BY DEF Bucket
    <3>. QED BY <3>1, FS_Subset DEF Sized
  <2>. QED BY <2>1 DEF Sized
<1>3. ASSUME NEW k
      PROVE  /\ \A c \in U!PackBucket(E, X(k), b, stems) : IsChunk(E, b, stems, c, X(k))
             /\ Apart(U!PackBucket(E, X(k), b, stems))
  BY <1>2, BucketIsPacked
<1>4. ASSUME NEW c \in cs
      PROVE  \E i \in A : c \in U!PackBucket(E, X(U!BucketKey(E[i], split)), b, stems)
  BY <1>1
<1>5. ASSUME NEW c \in cs PROVE Whose(E, b, A, split, stems, c)
  BY <1>3, <1>4 DEF Whose
<1>6. ASSUME NEW c \in cs, NEW d \in cs PROVE c = d \/ c \cap d = {}
  <2>1. PICK i \in A : c \in U!PackBucket(E, X(U!BucketKey(E[i], split)), b, stems)
    BY <1>4
  <2>2. PICK j \in A : d \in U!PackBucket(E, X(U!BucketKey(E[j], split)), b, stems)
    BY <1>4
  <2>3. CASE U!BucketKey(E[i], split) = U!BucketKey(E[j], split)
    BY <1>3, <2>1, <2>2, <2>3 DEF Apart
  <2>4. CASE U!BucketKey(E[i], split) # U!BucketKey(E[j], split)
    <3>1. c \subseteq X(U!BucketKey(E[i], split)) /\ d \subseteq X(U!BucketKey(E[j], split))
      BY <1>3, <2>1, <2>2 DEF IsChunk
    <3>. QED BY <2>4, <3>1 DEF Bucket
  <2>. QED BY <2>3, <2>4
<1>. QED BY <1>5, <1>6 DEF Apart

LEMMA SecondaryAgain ==
  ASSUME NEW E, NEW b, NEW A, NEW split, NEW stems, Sized(E, b, A), NEW c \in SUBSET A,
         Grown(E, b, stems, c), Cardinality(c) > 1, OneKey(E, split, c),
         NEW cs, cs = U!SecondaryChunks(E, c, b, split, stems)
  PROVE  Alone(cs, c)
<1>1. Sized(E, b, c)
  <2>1. IsFiniteSet(c)
    BY FS_Subset DEF Sized
  <2>. QED BY <2>1 DEF Sized
<1>2. c # {}
  <2>1. Cardinality({}) = 0
    BY FS_EmptySet
  <2>. QED BY <2>1
<1>3. PICK i \in c : TRUE
  BY <1>2
<1> DEFINE k == U!BucketKey(E[i], split)
<1>4. {U!BucketKey(E[j], split) : j \in c} = {k}
  BY <1>3 DEF OneKey
<1>5. {j \in c : U!BucketKey(E[j], split) = k} = c
  BY <1>3 DEF OneKey
<1>6. cs = U!PackBucket(E, {j \in c : U!BucketKey(E[j], split) = k}, b, stems)
  <2> DEFINE pb(q) == U!PackBucket(E, {j \in c : U!BucketKey(E[j], split) = q}, b, stems)
  <2>1. cs = UNION {pb(q) : q \in {U!BucketKey(E[j], split) : j \in c}}
    BY DEF U!SecondaryChunks
  <2> HIDE DEF k, pb
  <2>2. cs = UNION {pb(q) : q \in {k}}
    BY <1>4, <2>1
  <2>3. cs = pb(k)
    BY <2>2
  <2>. QED BY <2>3 DEF pb
<1>7. U!PackBucket(E, c, b, stems) = Closed(c)
  BY <1>1, GrownIsPacked
<1> HIDE DEF k
<1>8. cs = Closed(c)
  BY <1>5, <1>6, <1>7
<1>. QED BY <1>8 DEF Closed, Alone

(* No chunk exceeds a budget.                                               *)
Within(E, b, c) == U!SizeOf(E, c, b) <= b.bytes /\ U!Cardinality(c) <= b.unities
LEMMA GrownIsWithin ==
  ASSUME NEW E, NEW b, NEW A, NEW stems, Sized(E, b, A), NEW c \in SUBSET A,
         Grown(E, b, stems, c), Cardinality(c) > 1
  PROVE  Within(E, b, c)
<1> DEFINE m == Top(c)
           t == c \ {m}
<1>1. IsFiniteSet(c) /\ c # {} /\ c \subseteq Nat
  <2>1. Cardinality({}) = 0
    BY FS_EmptySet
  <2>2. c # {}
    BY <2>1
  <2>3. IsFiniteSet(A) /\ A \subseteq Nat
    BY DEF Sized
  <2>. QED BY <2>2, <2>3, FS_Subset
<1>2. m \in c /\ c = t \cup {m} /\ \A i \in t : i \in Nat /\ i < m
  BY <1>1, RestIs, c \in SUBSET c
<1>3. m \in Nat
  BY <1>1, <1>2
<1>4. t # {}
  <2>1. SUFFICES ASSUME t = {} PROVE FALSE
    OBVIOUS
  <2>2. c = {m}
    BY <1>2, <2>1
  <2>3. Cardinality({m}) = 1
    BY FS_Singleton
  <2> HIDE DEF m
  <2>. QED BY <2>2, <2>3
<1>5. Below(c, m) = t
  <2>1. \A i \in t : i < m /\ i \in c
    BY <1>2
  <2>2. ~(m < m)
    BY <1>3
  <2>3. \A i \in c : i = m \/ i \in t
    BY <1>2
  <2> HIDE DEF m, t
  <2>. QED BY <2>1, <2>2, <2>3 DEF Below
<1>6. t \in SUBSET A /\ m \in A /\ IsFiniteSet(t) /\ m \notin t
  BY <1>1, <1>2, FS_Subset
<1> HIDE DEF m, t
<1>7. U!Fits(E, t, m, b)
  BY <1>2, <1>4, <1>5 DEF Grown, Full
<1>8. /\ U!SizeOf(E, t, b) + U!Bytes(E[m], b) <= b.bytes /\ Cardinality(t) < b.unities
  BY <1>7, SameOperators DEF U!Fits
<1>9. Cardinality(c) = Cardinality(t) + 1 /\ Cardinality(t) \in Nat
  BY <1>2, <1>6, FS_AddElement, FS_CardinalityType
<1>10. U!SizeOf(E, c, b) = U!Bytes(E[m], b) + U!SizeOf(E, t, b)
  <2>1. c \ {m} = t
    BY <1>2, <1>6
  <2>. QED BY <1>2, <2>1, SizeAdds
<1>11. U!SizeOf(E, t, b) \in Nat /\ U!Bytes(E[m], b) \in Nat /\ b.bytes \in Nat /\ b.unities \in Nat
  BY <1>6, SizeAdds DEF Sized
<1>. QED BY <1>8, <1>9, <1>10, <1>11, SameOperators DEF Within

-----------------------------------------------------------------------------
(* A recursion over the subsets of a finite set that goes on with part of    *)
(* the set is defined.                                                       *)
Descending(A, W, ends, stop, head, rest) ==
    /\ IsFiniteSet(A) /\ stop \in [SUBSET A -> SUBSET W] /\ head \in [SUBSET A -> SUBSET W]
    /\ \A s \in SUBSET A : s \notin ends => rest[s] \subseteq s /\ rest[s] # s
IsDescent(f, A, ends, stop, head, rest) == \A s \in SUBSET A :
    f[s] = IF s \in ends THEN stop[s] ELSE head[s] \cup f[rest[s]]
LEMMA DescentIsDefined ==
  ASSUME NEW A, NEW W, NEW ends, NEW stop, NEW head, NEW rest, Descending(A, W, ends, stop, head, rest)
  PROVE  \E f \in [SUBSET A -> SUBSET W] : IsDescent(f, A, ends, stop, head, rest)
<1> USE DEF Descending, IsDescent
<1> DEFINE Small(n) == {s \in SUBSET A : Cardinality(s) <= n}
           Right(f, n) == \A s \in Small(n) :
              f[s] = IF s \in ends THEN stop[s] ELSE head[s] \cup f[rest[s]]
           N == Cardinality(A)
           Typed == [SUBSET A -> SUBSET W]
           T == {n \in 0..N : ~\E f \in Typed : Right(f, n)}
<1>1. N \in Nat
  BY FS_CardinalityType
<1>2. ASSUME NEW s \in SUBSET A
      PROVE  /\ IsFiniteSet(s) /\ Cardinality(s) \in Nat /\ Cardinality(s) <= N
             /\ Cardinality(s) = 0 <=> s = {}
  BY FS_Subset, FS_CardinalityType, FS_EmptySet
<1>3. ASSUME NEW s \in SUBSET A, s \notin ends
      PROVE  rest[s] \in SUBSET A /\ Cardinality(rest[s]) < Cardinality(s)
  <2>1. rest[s] \subseteq s /\ rest[s] # s /\ IsFiniteSet(s)
    BY <1>2, <1>3
  <2>2. rest[s] \in SUBSET A
    BY <2>1
  <2>3. Cardinality(rest[s]) <= Cardinality(s) /\ Cardinality(rest[s]) # Cardinality(s)
    BY <2>1, FS_Subset
  <2>4. Cardinality(rest[s]) \in Nat /\ Cardinality(s) \in Nat
    BY <1>2, <2>2
  <2>. QED BY <2>2, <2>3, <2>4
<1>4. T = {}
  <2> SUFFICES ASSUME T # {} PROVE FALSE
    OBVIOUS
  <2>1. PICK n \in T : \A k \in T : n <= k
    <3>1. T \subseteq 0..N
      OBVIOUS
    <3> HIDE DEF T, N
    <3>. QED BY <1>1, <3>1, LeastNumber
  <2>2. n \in 0..N /\ n \in Nat /\ ~\E f \in Typed : Right(f, n)
    <3> HIDE DEF Right, N, Typed
    <3>. QED BY <1>1
  <2> HIDE DEF T, N
  <2>3. CASE n = 0
    <3>1. \A s \in Small(n) : s \in SUBSET A /\ s \in ends
      <4>1. ASSUME NEW s \in Small(n), s \notin ends PROVE FALSE
        <5>1. s \in SUBSET A /\ Cardinality(s) = 0
          BY <1>2, <2>3
        <5>2. rest[s] \in SUBSET A /\ Cardinality(rest[s]) < Cardinality(s)
          BY <1>3, <4>1, <5>1
        <5>3. Cardinality(rest[s]) \in Nat
          BY <1>2, <5>2
        <5>. QED BY <5>1, <5>2, <5>3
      <4>. QED BY <4>1
    <3>2. Right(stop, n) /\ stop \in Typed
      BY <3>1
    <3> HIDE DEF Right, Typed
    <3>. QED BY <2>2, <3>2
  <2>4. CASE n # 0
    <3>1. n - 1 \in 0..N
      BY <1>1, <2>2, <2>4
    <3>2. n - 1 \notin T
      BY <2>1, <2>2, <3>1
    <3>3. PICK f \in Typed : Right(f, n - 1)
      BY <3>1, <3>2 DEF T
    <3> DEFINE g == [s \in SUBSET A |-> IF s \in Small(n - 1) THEN f[s]
                                        ELSE IF s \in ends THEN stop[s] ELSE head[s] \cup f[rest[s]]]
    <3>4. ASSUME NEW s \in Small(n), s \notin ends PROVE rest[s] \in Small(n - 1)
      <4>1. s \in SUBSET A /\ Cardinality(s) <= n /\ Cardinality(s) \in Nat
        BY <1>2
      <4>2. rest[s] \in SUBSET A /\ Cardinality(rest[s]) < Cardinality(s)
        BY <1>3, <3>4, <4>1
      <4>3. Cardinality(rest[s]) \in Nat
        BY <1>2, <4>2
      <4>. QED BY <2>2, <4>1, <4>2, <4>3
    <3>5. g \in Typed
      <4>1. ASSUME NEW s \in SUBSET A, s \notin ends PROVE head[s] \cup f[rest[s]] \in SUBSET W
        BY <1>3, <4>1
      <4>. QED BY <4>1
    <3>6. \A s \in Small(n) : g[s] = IF s \in ends THEN stop[s] ELSE head[s] \cup f[rest[s]]
      BY <3>3
    <3>7. \A s \in Small(n - 1) : g[s] = f[s]
      OBVIOUS
    <3> HIDE DEF g, Small
    <3>8. Right(g, n)
      BY <3>4, <3>6, <3>7
    <3>. QED BY <2>2, <3>5, <3>8
  <2>. QED BY <2>3, <2>4
<1>5. PICK f \in Typed : Right(f, N)
  <2> HIDE DEF Right, N, Typed
  <2>. QED BY <1>1, <1>4
<1>6. Small(N) = SUBSET A
  BY <1>1, <1>2
<1>. QED BY <1>5, <1>6

-----------------------------------------------------------------------------
(* UnityChunks: strict batches.                                             *)
Split(E, b, s) == U!SecondaryChunks(E, s, b, TRUE, FALSE)
Joint(E, b, s) == U!SecondaryChunks(E, s, b, FALSE, FALSE)
StrictRun(f, E, b) == \A s \in SUBSET DOMAIN E :
    f[s] = IF Split(E, b, s) = {} THEN Joint(E, b, s)
           ELSE Split(E, b, s) \cup f[s \ UNION Split(E, b, s)]

LEMMA PartSized ==
  ASSUME NEW E, NEW b, NEW X, Sized(E, b, X), NEW s \in SUBSET X
  PROVE  Sized(E, b, s)
<1>1. IsFiniteSet(s)
  BY FS_Subset DEF Sized
<1>. QED BY <1>1 DEF Sized

(* The chunks of a pass are parts of what is packed.                        *)
Parts(cs, s) == \A c \in cs : c \subseteq s /\ c # {}
LEMMA SecondaryParts ==
  ASSUME NEW E, NEW b, NEW A, NEW split, NEW stems, Sized(E, b, A),
         NEW cs, cs = U!SecondaryChunks(E, A, b, split, stems)
  PROVE  Parts(cs, A)
<1>1. ASSUME NEW c \in cs PROVE c \subseteq A /\ c # {}
  <2>1. Whose(E, b, A, split, stems, c)
    BY SecondaryIs
  <2>2. Cardinality({}) = 0
    BY FS_EmptySet
  <2>3. c \subseteq A /\ Cardinality(c) > 1
    BY <2>1 DEF Whose, IsChunk, Bucket
  <2>. QED BY <2>2, <2>3
<1>. QED BY <1>1 DEF Parts

LEMMA StrictRuns ==
  ASSUME NEW E, NEW b, Sized(E, b, DOMAIN E)
  PROVE  \E f : StrictRun(f, E, b) /\ \A s \in SUBSET DOMAIN E : U!StrictChunks(E, s, b) = f[s]
<1> DEFINE X == DOMAIN E
           iter == CHOOSE f : f = [s \in SUBSET X |->
                     IF Split(E, b, s) = {} THEN Joint(E, b, s)
                     ELSE Split(E, b, s) \cup f[s \ UNION Split(E, b, s)]]
           ends == {s \in SUBSET X : Split(E, b, s) = {}}
           stop == [s \in SUBSET X |-> Joint(E, b, s)]
           head == [s \in SUBSET X |-> Split(E, b, s)]
           rest == [s \in SUBSET X |-> s \ UNION Split(E, b, s)]
           W == SUBSET X
<1>1. ASSUME NEW s \in SUBSET X PROVE U!StrictChunks(E, s, b) = iter[s]
  BY DEF U!StrictChunks, U!StrictFrom, Split, Joint
<1>2. ASSUME NEW s \in SUBSET X
      PROVE  Parts(Split(E, b, s), s) /\ Parts(Joint(E, b, s), s)
  <2>1. Sized(E, b, s)
    BY PartSized
  <2>. QED BY <2>1, SecondaryParts DEF Split, Joint
<1>3. stop \in [SUBSET X -> SUBSET W] /\ head \in [SUBSET X -> SUBSET W]
  <2>1. \A s \in SUBSET X : Split(E, b, s) \in SUBSET W /\ Joint(E, b, s) \in SUBSET W
    BY <1>2 DEF Parts
  <2>. QED BY <2>1
<1>4. ASSUME NEW s \in SUBSET X, s \notin ends PROVE rest[s] \subseteq s /\ rest[s] # s
  <2>1. PICK c \in Split(E, b, s) : TRUE
    BY <1>4
  <2>2. c \subseteq s /\ c # {}
    BY <1>2, <2>1 DEF Parts
  <2>. QED BY <2>1, <2>2
<1>5. PICK f \in [SUBSET X -> SUBSET W] : IsDescent(f, X, ends, stop, head, rest)
  <2>1. IsFiniteSet(X)
    BY DEF Sized
  <2> HIDE DEF X, ends, stop, head, rest, W
  <2>2. Descending(X, W, ends, stop, head, rest)
    BY <1>3, <1>4, <2>1 DEF Descending
  <2>. QED BY <2>2, DescentIsDefined
<1>6. \A s \in SUBSET X :
        f[s] = IF Split(E, b, s) = {} THEN Joint(E, b, s)
               ELSE Split(E, b, s) \cup f[s \ UNION Split(E, b, s)]
  BY <1>5 DEF IsDescent
<1>7. f = [s \in SUBSET X |-> IF Split(E, b, s) = {} THEN Joint(E, b, s)
                              ELSE Split(E, b, s) \cup f[s \ UNION Split(E, b, s)]]
  BY <1>5, <1>6
<1>8. iter = [s \in SUBSET X |-> IF Split(E, b, s) = {} THEN Joint(E, b, s)
                                 ELSE Split(E, b, s) \cup iter[s \ UNION Split(E, b, s)]]
  BY <1>7
<1>9. StrictRun(iter, E, b)
  <2> HIDE DEF iter
  <2>. QED BY <1>8 DEF StrictRun
<1> HIDE DEF iter
<1>. QED BY <1>1, <1>9

(* A chunk of the second pass has no two entries the first would have put   *)
(* together: those that follow each other did not fit, and do not fit now.   *)
LEMMA NoneTogether ==
  ASSUME NEW E, NEW b, NEW A, Sized(E, b, A), Split(E, b, A) = {},
         NEW c, Whose(E, b, A, FALSE, FALSE, c)
  PROVE  Split(E, b, c) = {}
<1>1. PICK q \in A : IsChunk(E, b, FALSE, c, Bucket(E, A, FALSE, U!BucketKey(E[q], FALSE)))
  BY DEF Whose
<1> DEFINE X == Bucket(E, A, FALSE, U!BucketKey(E[q], FALSE))
<1>2. c \subseteq X /\ X \subseteq A /\ Solid(c, X)
  BY <1>1 DEF IsChunk, Bucket
<1>3. Sized(E, b, c)
  BY <1>2, PartSized
<1>4. SUFFICES ASSUME NEW d \in Split(E, b, c) PROVE FALSE
  OBVIOUS
<1>5. Whose(E, b, c, TRUE, FALSE, d)
  BY <1>3, SecondaryIs DEF Split
<1>6. PICK p \in c : IsChunk(E, b, FALSE, d, Bucket(E, c, TRUE, U!BucketKey(E[p], TRUE)))
  BY <1>5 DEF Whose
<1> DEFINE key == U!BucketKey(E[p], TRUE)
           Y == Bucket(E, c, TRUE, key)
           Z == Bucket(E, A, TRUE, key)
<1>7. d \subseteq Y /\ Solid(d, Y) /\ Cardinality(d) > 1 /\ Grown(E, b, FALSE, d)
  BY <1>6 DEF IsChunk
<1>8. Y \subseteq c /\ Y \subseteq Z /\ Z \subseteq A /\ d \in SUBSET A
  BY <1>2, <1>7 DEF Bucket
<1>9. Sized(E, b, Z) /\ IsFiniteSet(d) /\ d \subseteq Nat /\ Z \subseteq Nat
  <2>1. Sized(E, b, Z) /\ Sized(E, b, d)
    BY <1>8, PartSized
  <2>. QED BY <2>1 DEF Sized
<1>10. ASSUME NEW k \in Z, NEW i \in d, NEW j \in d, i < k, k < j PROVE k \in d
  <2>1. U!BucketKey(E[k], TRUE) = key /\ U!BucketKey(E[i], TRUE) = key /\ k \in A /\ i \in X
    BY <1>2, <1>7, <1>8, <1>10 DEF Bucket
  <2>2. E[k].module = E[i].module /\ E[k].context = E[i].context /\ (E[k].class = "c" <=> E[i].class = "c")
    BY <2>1 DEF U!BucketKey, U!Category
  <2>3. U!BucketKey(E[k], FALSE) = U!BucketKey(E[i], FALSE)
    BY <2>2 DEF U!BucketKey, U!Category
  <2>4. k \in X
    BY <2>1, <2>3 DEF Bucket
  <2>5. i \in Nat /\ j \in Nat /\ k \in Nat /\ i \in c /\ j \in c
    BY <1>7, <1>8, <1>9
  <2>8. i < k /\ k < j
    BY <1>10
  <2> HIDE DEF X, Y, Z, key
  <2>6. k \in c
    <3>1. ~(\A n \in c : n < k) /\ ~(\A n \in c : k < n)
      BY <2>5, <2>8
    <3>. QED BY <1>2, <2>4, <3>1 DEF Solid
  <2>7. k \in Y
    BY <2>1, <2>6 DEF Bucket, Y
  <2>9. ~(\A n \in d : n < k) /\ ~(\A n \in d : k < n)
    BY <2>5, <2>8
  <2>. QED BY <1>7, <2>7, <2>9 DEF Solid
<1>11. U!PackBucket(E, Z, b, FALSE) = {}
  <2>1. p \in A /\ key \in {U!BucketKey(E[i], TRUE) : i \in A}
    BY <1>2
  <2>2. U!PackBucket(E, Z, b, FALSE) \subseteq Split(E, b, A)
    BY <2>1 DEF Split, U!SecondaryChunks, Bucket
  <2>. QED BY <2>2
<1> HIDE DEF X, Y, Z, key
<1>12. Lonely(E, b, FALSE, Z)
  BY <1>9, <1>11, NothingFits
<1> DEFINE j == Top(d)
           t == d \ {j}
           i == Top(t)
<1>13. d # {}
  <2>1. Cardinality({}) = 0
    BY FS_EmptySet
  <2>. QED BY <1>7, <2>1
<1>14. j \in d /\ \A k \in t : k \in Nat /\ k < j
  BY <1>9, <1>13, RestIs, d \in SUBSET d
<1>15. t # {} /\ IsFiniteSet(t) /\ t \subseteq Nat
  <2>1. ASSUME t = {} PROVE FALSE
    <3>1. d = {j}
      BY <1>14, <2>1
    <3>2. Cardinality({j}) = 1
      BY FS_Singleton
    <3> HIDE DEF j
    <3>. QED BY <1>7, <3>1, <3>2
  <2>2. t \subseteq d
    OBVIOUS
  <2> HIDE DEF t
  <2>. QED BY <1>9, <2>1, <2>2, FS_Subset
<1>16. i \in t /\ \A k \in t : k <= i
  <2> HIDE DEF t
  <2>. QED BY <1>15, TopIs
<1>17. i \in d /\ j \in d /\ i < j /\ i \in Nat /\ j \in Nat /\ \A k \in d : k # j => k <= i
  <2>1. t \subseteq d /\ \A k \in d : k # j => k \in t
    OBVIOUS
  <2> HIDE DEF t, j, i
  <2>. QED BY <1>9, <1>14, <1>16, <2>1
<1> HIDE DEF i, j, t
<1>18. Follows(i, j, Z)
  <2>1. ASSUME NEW k \in Z, i < k, k < j PROVE FALSE
    <3>1. k \in d /\ k \in Nat /\ k # j
      BY <1>9, <1>10, <1>17, <2>1
    <3>2. k <= i
      BY <1>17, <3>1
    <3>. QED BY <1>17, <2>1, <3>1, <3>2
  <2>. QED BY <1>17, <2>1 DEF Follows
<1>19. ~Big(E, b, i) /\ ~Big(E, b, j) /\ ~Full(E, b, FALSE, Below(d, j), j)
  BY <1>7, <1>17 DEF Grown
<1>20. i \in Below(d, j) /\ Below(d, j) \in SUBSET A /\ j \in A
  BY <1>8, <1>17 DEF Below
<1>21. U!Fits(E, Below(d, j), j, b)
  BY <1>19, <1>20 DEF Full
<1>22. U!Fits(E, {i}, j, b)
  BY <1>20, <1>21, FitsFewer
<1>23. i \in Z /\ j \in Z
  BY <1>7, <1>8, <1>17
<1>24. Full(E, b, FALSE, {i}, j)
  BY <1>12, <1>18, <1>19, <1>23 DEF Lonely
<1>. QED BY <1>22, <1>24 DEF Full

(* What a strict batch is.                                                  *)
IsStrict(E, b, c) ==
    /\ Cardinality(c) > 1 /\ Grown(E, b, FALSE, c)
    /\ OneKey(E, TRUE, c) \/ (OneKey(E, FALSE, c) /\ Split(E, b, c) = {})
Strictly(E, b, cs, s) == Apart(cs) /\ \A c \in cs : c \subseteq s /\ IsStrict(E, b, c)

LEMMA WhoseIs ==
  ASSUME NEW E, NEW b, NEW A, NEW split, NEW stems, NEW c, Whose(E, b, A, split, stems, c)
  PROVE  c \subseteq A /\ Cardinality(c) > 1 /\ Grown(E, b, stems, c) /\ OneKey(E, split, c)
BY DEF Whose, IsChunk, Bucket, OneKey

LEMMA StrictIs ==
  ASSUME NEW E, NEW b, Sized(E, b, DOMAIN E), NEW f, StrictRun(f, E, b)
  PROVE  \A s \in SUBSET DOMAIN E : Strictly(E, b, f[s], s)
<1> DEFINE A == DOMAIN E
           Bad == {s \in SUBSET A : ~Strictly(E, b, f[s], s)}
<1>1. SUFFICES ASSUME Bad # {} PROVE FALSE
  OBVIOUS
<1>2. PICK s \in Bad : \A r \in Bad : r \subseteq s => r = s
  <2>1. Bad \subseteq SUBSET A /\ IsFiniteSet(A)
    BY DEF Sized
  <2> HIDE DEF Bad, A
  <2>. QED BY <1>1, <2>1, MinimalSet
<1>3. s \in SUBSET A /\ ~Strictly(E, b, f[s], s)
  OBVIOUS
<1>4. Sized(E, b, s)
  BY <1>3, PartSized
<1>5. Apart(Split(E, b, s)) /\ \A c \in Split(E, b, s) : Whose(E, b, s, TRUE, FALSE, c)
  BY <1>4, SecondaryIs DEF Split
<1>6. Apart(Joint(E, b, s)) /\ \A c \in Joint(E, b, s) : Whose(E, b, s, FALSE, FALSE, c)
  BY <1>4, SecondaryIs DEF Joint
<1>7. CASE Split(E, b, s) = {}
  <2>1. f[s] = Joint(E, b, s)
    BY <1>3, <1>7 DEF StrictRun
  <2>2. ASSUME NEW c \in Joint(E, b, s) PROVE c \subseteq s /\ IsStrict(E, b, c)
    <3>1. Whose(E, b, s, FALSE, FALSE, c)
      BY <1>6
    <3>2. Split(E, b, c) = {}
      BY <1>4, <1>7, <3>1, NoneTogether
    <3>3. c \subseteq s /\ Cardinality(c) > 1 /\ Grown(E, b, FALSE, c) /\ OneKey(E, FALSE, c)
      BY <3>1, WhoseIs
    <3>. QED BY <3>2, <3>3 DEF IsStrict
  <2>3. Strictly(E, b, f[s], s)
    BY <1>6, <2>1, <2>2 DEF Strictly
  <2>. QED BY <1>3, <2>3
<1>8. CASE Split(E, b, s) # {}
  <2> DEFINE r == s \ UNION Split(E, b, s)
  <2>1. f[s] = Split(E, b, s) \cup f[r]
    BY <1>3, <1>8 DEF StrictRun
  <2>2. Parts(Split(E, b, s), s)
    BY <1>4, SecondaryParts DEF Split
  <2>3. r # s /\ r \subseteq s
    BY <1>8, <2>2 DEF Parts
  <2>4. Strictly(E, b, f[r], r)
    <3>1. r \in SUBSET A /\ r \notin Bad
      BY <1>2, <1>3, <2>3
    <3> HIDE DEF r
    <3>. QED BY <3>1
  <2>5. ASSUME NEW c \in Split(E, b, s) PROVE c \subseteq s /\ IsStrict(E, b, c)
    <3>1. Whose(E, b, s, TRUE, FALSE, c)
      BY <1>5
    <3>2. c \subseteq s /\ Cardinality(c) > 1 /\ Grown(E, b, FALSE, c) /\ OneKey(E, TRUE, c)
      BY <3>1, WhoseIs
    <3>. QED BY <3>2 DEF IsStrict
  <2>6. \A c \in f[r] : c \subseteq s /\ IsStrict(E, b, c)
    BY <2>3, <2>4 DEF Strictly
  <2>7. \A c \in Split(E, b, s) : \A d \in f[r] : c \cap d = {}
    <3>1. \A d \in f[r] : d \subseteq r
      BY <2>4 DEF Strictly
    <3>. QED BY <3>1
  <2>8. Apart(f[s])
    <3>1. Apart(f[r])
      BY <2>4 DEF Strictly
    <3> HIDE DEF r
    <3>2. ASSUME NEW c \in f[s], NEW d \in f[s] PROVE c = d \/ c \cap d = {}
      <4>1. CASE c \in Split(E, b, s) /\ d \in Split(E, b, s)
        BY <1>5, <4>1 DEF Apart
      <4>2. CASE c \in f[r] /\ d \in f[r]
        BY <3>1, <4>2 DEF Apart
      <4>3. CASE c \in f[r] /\ d \in Split(E, b, s)
        BY <2>7, <4>3
      <4>4. CASE c \in Split(E, b, s) /\ d \in f[r]
        BY <2>7, <4>4
      <4>. QED BY <2>1, <4>1, <4>2, <4>3, <4>4
    <3>. QED BY <3>2 DEF Apart
  <2> HIDE DEF r
  <2>9. Strictly(E, b, f[s], s)
    BY <2>1, <2>5, <2>6, <2>8 DEF Strictly
  <2>. QED BY <1>3, <2>9
<1>. QED BY <1>7, <1>8

LEMMA StrictAgain ==
  ASSUME NEW E, NEW b, Sized(E, b, DOMAIN E), NEW f, StrictRun(f, E, b),
         NEW c \in SUBSET DOMAIN E, IsStrict(E, b, c)
  PROVE  Alone(f[c], c)
<1>0. Cardinality(c) > 1 /\ Grown(E, b, FALSE, c)
  BY DEF IsStrict
<1>1. CASE OneKey(E, TRUE, c)
  <2>1. Alone(Split(E, b, c), c)
    BY <1>0, <1>1, SecondaryAgain DEF Split
  <2>2. Split(E, b, c) = {c} /\ Split(E, b, c) # {}
    BY <2>1 DEF Alone
  <2>3. f[c] = {c} \cup f[c \ UNION {c}]
    BY <2>2 DEF StrictRun
  <2>4. c \ UNION {c} = {}
    OBVIOUS
  <2>5. f[{}] = {}
    <3>1. Split(E, b, {}) = {} /\ Joint(E, b, {}) = {}
      BY DEF Split, Joint, U!SecondaryChunks
    <3>. QED BY <3>1 DEF StrictRun
  <2>. QED BY <2>3, <2>4, <2>5 DEF Alone
<1>2. CASE OneKey(E, FALSE, c) /\ Split(E, b, c) = {}
  <2>1. f[c] = Joint(E, b, c)
    BY <1>2 DEF StrictRun
  <2>2. Alone(Joint(E, b, c), c)
    BY <1>0, <1>2, SecondaryAgain DEF Joint
  <2>. QED BY <2>1, <2>2
<1>. QED BY <1>1, <1>2 DEF IsStrict

-----------------------------------------------------------------------------
(* UnityChunks: batches of whole modules.                                   *)
Mine(E, A, i) == U!Whole(E, A, E[i].module)
OneOf(E, A, b) == U!Firsts(E, A, b)

LEMMA FirstIs ==
  ASSUME NEW E, NEW b, NEW A, Sized(E, b, A), NEW i \in OneOf(E, A, b)
  PROVE  /\ i \in A /\ i \in Mine(E, A, i) /\ Mine(E, A, i) \in SUBSET A
         /\ U!Eligible(E, Mine(E, A, i), b)
         /\ \A j \in Mine(E, A, i) : i <= j
         /\ \A j \in OneOf(E, A, b) : j # i => Mine(E, A, i) \cap Mine(E, A, j) = {}
<1>1. /\ i \in A /\ U!Eligible(E, Mine(E, A, i), b) /\ \A j \in Mine(E, A, i) : i <= j
  BY DEF OneOf, Mine, U!Firsts
<1>2. i \in Mine(E, A, i) /\ Mine(E, A, i) \in SUBSET A
  BY <1>1 DEF Mine, U!Whole
<1>3. ASSUME NEW j \in OneOf(E, A, b), NEW x \in Mine(E, A, i) \cap Mine(E, A, j) PROVE j = i
  <2>1. j \in A /\ \A k \in Mine(E, A, j) : j <= k
    BY DEF OneOf, Mine, U!Firsts
  <2>2. E[i].module = E[j].module
    BY DEF Mine, U!Whole
  <2>3. i \in Mine(E, A, j) /\ j \in Mine(E, A, i)
    BY <1>1, <2>1, <2>2 DEF Mine, U!Whole
  <2>4. i \in Nat /\ j \in Nat
    BY <1>1, <2>1 DEF Sized
  <2>. QED BY <1>1, <2>1, <2>3, <2>4
<1>. QED BY <1>1, <1>2, <1>3

(* A module is put in a bin it joins, or in one of its own.                 *)
Placing(r, E, b, bins, mine) ==
    \/ r = Append(bins, mine) /\ \A k \in DOMAIN bins : ~U!Joins(E, bins[k], mine, b)
    \/ \E k \in DOMAIN bins : U!Joins(E, bins[k], mine, b) /\ r = [bins EXCEPT ![k] = bins[k] \cup mine]

LEMMA PlaceIs ==
  ASSUME NEW E, NEW b, NEW A, NEW bins \in Seq(SUBSET A), NEW mine \in SUBSET A,
         NEW r, r = U!PlaceModule(E, b, bins, mine)
  PROVE  r \in Seq(SUBSET A) /\ Placing(r, E, b, bins, mine)
<1> DEFINE open == {k \in DOMAIN bins : U!Joins(E, bins[k], mine, b)}
<1>1. r = IF open = {} THEN Append(bins, mine) ELSE [bins EXCEPT ![U!Min(open)] = @ \cup mine]
  BY DEF U!PlaceModule
<1>2. CASE open = {}
  <2>1. r = Append(bins, mine)
    BY <1>1, <1>2
  <2>2. Append(bins, mine) \in Seq(SUBSET A)
    OBVIOUS
  <2>3. \A k \in DOMAIN bins : ~U!Joins(E, bins[k], mine, b)
    BY <1>2
  <2>. QED BY <2>1, <2>2, <2>3 DEF Placing
<1>3. CASE open # {}
  <2>1. DOMAIN bins = 1..Len(bins) /\ Len(bins) \in Nat
    OBVIOUS
  <2>2. open \subseteq 0..Len(bins)
    BY <2>1
  <2> DEFINE k == U!Min(open)
  <2>3. k \in open
    <3> HIDE DEF open
    <3>1. PICK m \in open : \A n \in open : m <= n
      BY <1>3, <2>1, <2>2, LeastNumber
    <3>. QED BY <3>1 DEF U!Min
  <2>4. r = [bins EXCEPT ![k] = bins[k] \cup mine]
    BY <1>1, <1>3
  <2>5. k \in DOMAIN bins /\ U!Joins(E, bins[k], mine, b)
    BY <2>3
  <2> HIDE DEF k, open
  <2>6. r \in Seq(SUBSET A)
    <3>1. bins[k] \cup mine \in SUBSET A
      BY <2>1, <2>5
    <3>. QED BY <2>1, <2>4, <2>5, <3>1
  <2>. QED BY <2>4, <2>5, <2>6 DEF Placing
<1>. QED BY <1>2, <1>3

TierRun(f, E, b, A) ==
    /\ f \in [SUBSET OneOf(E, A, b) -> Seq(SUBSET A)]
    /\ f[{}] = <<>>
    /\ \A s \in SUBSET OneOf(E, A, b) :
          s # {} => f[s] = U!PlaceModule(E, b, f[s \ {Top(s)}], Mine(E, A, Top(s)))
Spans(E, c) == Cardinality({E[i].module : i \in c}) > 1

LEMMA TierRuns ==
  ASSUME NEW E, NEW b, NEW A, Sized(E, b, A)
  PROVE  \E f : TierRun(f, E, b, A)
                /\ U!Tier2Chunks(E, A, b) = {c \in ToSet(f[OneOf(E, A, b)]) : Spans(E, c)}
<1> DEFINE X == OneOf(E, A, b)
           V == Seq(SUBSET A)
           place(i, bins) == U!PlaceModule(E, b, bins, Mine(E, A, i))
           iter == CHOOSE f : f = [s \in SUBSET X |->
                     IF s = {} THEN <<>> ELSE U!PlaceModule(E, b, f[s \ {Top(s)}], U!Whole(E, A, E[Top(s)].module))]
           pick == [s \in SUBSET X |-> Top(s)]
           step == [q \in X \X V |-> place(q[1], q[2])]
<1>1. U!Tier2Chunks(E, A, b) = {c \in ToSet(iter[X]) : Spans(E, c)}
  BY SameOperators DEF U!Tier2Chunks, Top, OneOf, Spans
<1>2. IsFiniteSet(X) /\ X \subseteq Nat /\ \A s \in SUBSET X : s # {} => pick[s] \in s
  <2>1. X \subseteq A
    BY DEF OneOf, U!Firsts
  <2>2. IsFiniteSet(X) /\ X \subseteq Nat
    BY <2>1, FS_Subset DEF Sized
  <2> HIDE DEF X
  <2>3. \A s \in SUBSET X : IsFiniteSet(s) /\ s \subseteq Nat
    BY <2>2, FS_Subset
  <2>. QED BY <2>2, <2>3, TopIs
<1>3. <<>> \in V
  OBVIOUS
<1>4. step \in [X \X V -> V]
  <2>1. ASSUME NEW i \in X, NEW bins \in V PROVE place(i, bins) \in V
    <3>1. Mine(E, A, i) \in SUBSET A
      BY FirstIs
    <3>. QED BY <3>1, PlaceIs
  <2> HIDE DEF place, X, V
  <2>. QED BY <2>1
<1>5. PICK f \in [SUBSET X -> V] : IsFold(f, X, <<>>, pick, step)
  <2> HIDE DEF pick, step, V, X
  <2>2. Folding(X, V, <<>>, pick, step)
    BY <1>2, <1>3, <1>4 DEF Folding
  <2>. QED BY <2>2, FoldIsDefined
<1>6. ASSUME NEW s \in SUBSET X, s # {}
      PROVE  f[s] = U!PlaceModule(E, b, f[s \ {Top(s)}], Mine(E, A, Top(s)))
  <2>1. pick[s] = Top(s) /\ pick[s] \in X /\ f[s \ {pick[s]}] \in V
    BY <1>2, <1>6
  <2>2. f[s] = step[<<pick[s], f[s \ {pick[s]}]>>]
    BY <1>5, <1>6 DEF IsFold
  <2> HIDE DEF pick, X, V
  <2>. QED BY <2>1, <2>2
<1>7. f = [s \in SUBSET X |-> IF s = {} THEN <<>>
                              ELSE U!PlaceModule(E, b, f[s \ {Top(s)}], U!Whole(E, A, E[Top(s)].module))]
  <2>1. \A s \in SUBSET X : f[s] = IF s = {} THEN <<>>
             ELSE U!PlaceModule(E, b, f[s \ {Top(s)}], U!Whole(E, A, E[Top(s)].module))
    BY <1>5, <1>6 DEF IsFold, Mine
  <2> HIDE DEF X, V
  <2>. QED BY <1>5, <2>1
<1>8. iter = [s \in SUBSET X |-> IF s = {} THEN <<>>
                ELSE U!PlaceModule(E, b, iter[s \ {Top(s)}], U!Whole(E, A, E[Top(s)].module))]
  <2> HIDE DEF X
  <2>. QED BY <1>7
<1> HIDE DEF iter, pick, step, place
<1> DEFINE T == {s \in SUBSET X : iter[s] = f[s]}
<1>9. \A s \in SUBSET X : s \in T
  <2> HIDE DEF X
  <2>1. {} \in T
    BY <1>7, <1>8
  <2>2. ASSUME NEW s \in SUBSET X, s # {}, s \ {Top(s)} \in T PROVE s \in T
    <3>2. iter[s \ {Top(s)}] = f[s \ {Top(s)}]
      BY <2>2
    <3>. QED BY <1>7, <1>8, <2>2, <3>2
  <2> HIDE DEF T
  <2>3. GrowsUp(T, X)
    BY <2>1, <2>2 DEF GrowsUp
  <2>. QED BY <1>2, <2>3, EveryBucket
<1>10. iter[X] = f[X]
  BY <1>9
<1>11. TierRun(f, E, b, A)
  BY <1>5, <1>6 DEF TierRun, IsFold
<1>. QED BY <1>1, <1>10, <1>11

(* What a bin is: whole modules, each of which joined those before it.      *)
Mines(E, A, s) == UNION {Mine(E, A, i) : i \in s}
Lead(E, b, A, c) == c \cap OneOf(E, A, b)
Joined(E, b, A, g) == \A i \in g :
    Below(g, i) = {} \/ U!Joins(E, Mines(E, A, Below(g, i)), Mine(E, A, i), b)
IsBin(E, b, A, c) ==
    c # {} /\ c = Mines(E, A, Lead(E, b, A, c)) /\ Joined(E, b, A, Lead(E, b, A, c))
Binned(E, b, A, bins, s) ==
    /\ \A k \in DOMAIN bins : IsBin(E, b, A, bins[k]) /\ Lead(E, b, A, bins[k]) \subseteq s
    /\ \A k, n \in DOMAIN bins : k = n \/ bins[k] \cap bins[n] = {}

LEMMA BinBegins ==
  ASSUME NEW E, NEW b, NEW A, Sized(E, b, A), NEW m \in OneOf(E, A, b)
  PROVE  IsBin(E, b, A, Mine(E, A, m)) /\ Lead(E, b, A, Mine(E, A, m)) \subseteq {m}
<1> DEFINE c == Mine(E, A, m)
           g == Lead(E, b, A, c)
<1>1. m \in c /\ m \in Nat
  BY FirstIs DEF Sized
<1>2. g = {m}
  <2>1. m \in g
    BY <1>1 DEF Lead
  <2>2. ASSUME NEW j \in g, j # m PROVE FALSE
    <3>1. j \in OneOf(E, A, b) /\ j \in c
      BY DEF Lead
    <3>2. j \in Mine(E, A, j)
      BY <3>1, FirstIs
    <3>3. Mine(E, A, m) \cap Mine(E, A, j) = {}
      BY <2>2, <3>1, FirstIs
    <3>. QED BY <3>1, <3>2, <3>3
  <2>. QED BY <2>1, <2>2
<1> HIDE DEF g
<1>3. c = Mines(E, A, g) /\ c # {}
  BY <1>1, <1>2 DEF Mines
<1>4. Below({m}, m) = {}
  BY <1>1 DEF Below
<1>5. Joined(E, b, A, g)
  BY <1>2, <1>4 DEF Joined
<1>. QED BY <1>2, <1>3, <1>5 DEF IsBin, g

LEMMA BinGrows ==
  ASSUME NEW E, NEW b, NEW A, Sized(E, b, A), NEW m \in OneOf(E, A, b), NEW c, IsBin(E, b, A, c),
         \A i \in Lead(E, b, A, c) : i < m, U!Joins(E, c, Mine(E, A, m), b)
  PROVE  /\ IsBin(E, b, A, c \cup Mine(E, A, m))
         /\ Lead(E, b, A, c \cup Mine(E, A, m)) \subseteq Lead(E, b, A, c) \cup {m}
<1> DEFINE d == c \cup Mine(E, A, m)
           g == Lead(E, b, A, c)
           h == Lead(E, b, A, d)
<1>1. m \in Nat /\ g \subseteq Nat /\ m \notin g
  <2>1. OneOf(E, A, b) \subseteq A /\ A \subseteq Nat
    BY DEF OneOf, U!Firsts, Sized
  <2>2. m \in Nat /\ g \subseteq Nat
    BY <2>1 DEF Lead
  <2>. QED BY <2>2
<1>2. h = g \cup {m}
  <2>1. Lead(E, b, A, Mine(E, A, m)) \subseteq {m}
    BY BinBegins
  <2>2. m \in Mine(E, A, m)
    BY FirstIs
  <2>. QED BY <2>1, <2>2 DEF Lead
<1>3. c = Mines(E, A, g) /\ Joined(E, b, A, g) /\ c # {}
  BY DEF IsBin
<1> HIDE DEF g, h
<1>4. d = Mines(E, A, h)
  BY <1>2, <1>3 DEF Mines
<1>5. Below(h, m) = g /\ \A i \in g : Below(h, i) = Below(g, i)
  <2>1. \A i \in g : i < m /\ i \in Nat
    BY <1>1 DEF g
  <2>2. Below(h, m) = g
    <3>1. ~(m < m)
      BY <1>1
    <3>2. \A k : k \in Below(h, m) <=> k \in g
      BY <1>2, <2>1, <3>1 DEF Below
    <3>. QED BY <3>2
  <2>3. ASSUME NEW i \in g PROVE Below(h, i) = Below(g, i)
    <3>1. ~(m < i)
      BY <1>1, <2>1
    <3>. QED BY <1>2, <3>1 DEF Below
  <2>. QED BY <2>2, <2>3
<1>6. Joined(E, b, A, h)
  <2>1. \A i \in h : i = m \/ i \in g
    BY <1>2
  <2>. QED BY <1>3, <1>5, <2>1 DEF Joined
<1>. QED BY <1>2, <1>3, <1>4, <1>6 DEF IsBin, g, h

LEMMA BinStep ==
  ASSUME NEW E, NEW b, NEW A, Sized(E, b, A), NEW s \in SUBSET OneOf(E, A, b), s # {},
         NEW bins \in Seq(SUBSET A), Binned(E, b, A, bins, s \ {Top(s)}),
         NEW r, r = U!PlaceModule(E, b, bins, Mine(E, A, Top(s)))
  PROVE  Binned(E, b, A, r, s)
<1> DEFINE m == Top(s)
           t == s \ {m}
           c == Mine(E, A, m)
<1>1. m \in s /\ m \in OneOf(E, A, b) /\ s = t \cup {m} /\ \A i \in t : i < m /\ i \in Nat
  <2>1. OneOf(E, A, b) \subseteq A
    BY DEF OneOf, U!Firsts
  <2>2. IsFiniteSet(OneOf(E, A, b)) /\ OneOf(E, A, b) \subseteq Nat
    BY <2>1, FS_Subset DEF Sized
  <2>. QED BY <2>2, RestIs
<1>2. c \in SUBSET A /\ IsBin(E, b, A, c) /\ Lead(E, b, A, c) \subseteq {m}
  BY <1>1, FirstIs, BinBegins
<1>3. Placing(r, E, b, bins, c) /\ r \in Seq(SUBSET A)
  BY <1>2, PlaceIs
<1>4. ASSUME NEW k \in DOMAIN bins
      PROVE  IsBin(E, b, A, bins[k]) /\ Lead(E, b, A, bins[k]) \subseteq t
  BY DEF Binned
<1>5. \A k, n \in DOMAIN bins : k = n \/ bins[k] \cap bins[n] = {}
  BY DEF Binned
<1>6. ASSUME NEW k \in DOMAIN bins PROVE bins[k] \cap c = {}
  <2>1. bins[k] = Mines(E, A, Lead(E, b, A, bins[k]))
    BY <1>4 DEF IsBin
  <2>2. SUFFICES ASSUME NEW x \in bins[k], x \in c PROVE FALSE
    OBVIOUS
  <2>3. PICK i \in Lead(E, b, A, bins[k]) : x \in Mine(E, A, i)
    BY <2>1 DEF Mines
  <2>4. i \in OneOf(E, A, b) /\ i # m
    <3>1. i \in t
      BY <1>4
    <3>. QED BY <1>1, <3>1
  <2>5. Mine(E, A, m) \cap Mine(E, A, i) = {}
    BY <1>1, <2>4, FirstIs
  <2>. QED BY <2>2, <2>3, <2>5
<1>7. DOMAIN bins = 1..Len(bins) /\ Len(bins) \in Nat
  OBVIOUS
<1> HIDE DEF t, c, m
<1>8. CASE r = Append(bins, c)
  <2>1. DOMAIN r = DOMAIN bins \cup {Len(bins) + 1} /\ r[Len(bins) + 1] = c
        /\ \A k \in DOMAIN bins : r[k] = bins[k]
    <3>1. Len(r) = Len(bins) + 1 /\ DOMAIN r = 1..Len(r) /\ r[Len(bins) + 1] = c
      BY <1>3, <1>8
    <3>2. \A k \in 1..Len(bins) : r[k] = bins[k]
      BY <1>8
    <3>. QED BY <1>7, <3>1, <3>2
  <2>2. Len(bins) + 1 \notin DOMAIN bins
    BY <1>7
  <2>3. ASSUME NEW k \in DOMAIN r PROVE IsBin(E, b, A, r[k]) /\ Lead(E, b, A, r[k]) \subseteq s
    <3>1. CASE k \in DOMAIN bins
      BY <1>1, <1>4, <2>1, <3>1
    <3>2. CASE k = Len(bins) + 1
      BY <1>1, <1>2, <2>1, <3>2
    <3>. QED BY <2>1, <3>1, <3>2
  <2>4. ASSUME NEW k \in DOMAIN r, NEW n \in DOMAIN r, k # n PROVE r[k] \cap r[n] = {}
    BY <1>5, <1>6, <2>1, <2>4
  <2>. QED BY <2>3, <2>4 DEF Binned
<1>9. CASE \E k \in DOMAIN bins : U!Joins(E, bins[k], c, b) /\ r = [bins EXCEPT ![k] = bins[k] \cup c]
  <2>1. PICK p \in DOMAIN bins : U!Joins(E, bins[p], c, b) /\ r = [bins EXCEPT ![p] = bins[p] \cup c]
    BY <1>9
  <2>2. DOMAIN r = DOMAIN bins /\ r[p] = bins[p] \cup c /\ \A k \in DOMAIN bins : k # p => r[k] = bins[k]
    BY <2>1
  <2>3. IsBin(E, b, A, r[p]) /\ Lead(E, b, A, r[p]) \subseteq Lead(E, b, A, bins[p]) \cup {m}
    <3>1. \A i \in Lead(E, b, A, bins[p]) : i < m
      BY <1>1, <1>4
    <3> DEFINE q == bins[p]
               w == Mine(E, A, m)
    <3>2. IsBin(E, b, A, q) /\ U!Joins(E, q, w, b) /\ \A i \in Lead(E, b, A, q) : i < m
      BY <1>4, <2>1, <3>1 DEF c
    <3> HIDE DEF q
    <3>3. IsBin(E, b, A, q \cup w) /\ Lead(E, b, A, q \cup w) \subseteq Lead(E, b, A, q) \cup {m}
      BY <1>1, <3>2, BinGrows
    <3>. QED BY <2>2, <3>3 DEF q, c
  <2>4. ASSUME NEW k \in DOMAIN r PROVE IsBin(E, b, A, r[k]) /\ Lead(E, b, A, r[k]) \subseteq s
    <3>1. CASE k # p
      BY <1>1, <1>4, <2>2, <3>1
    <3>2. CASE k = p
      <4>1. Lead(E, b, A, bins[p]) \subseteq t
        BY <1>4
      <4>. QED BY <1>1, <2>3, <3>2, <4>1
    <3>. QED BY <3>1, <3>2
  <2>5. ASSUME NEW k \in DOMAIN r, NEW n \in DOMAIN r, k # n PROVE r[k] \cap r[n] = {}
    BY <1>5, <1>6, <2>2, <2>5
  <2>. QED BY <2>4, <2>5 DEF Binned
<1>. QED BY <1>3, <1>8, <1>9 DEF Placing

LEMMA TierIs ==
  ASSUME NEW E, NEW b, NEW A, Sized(E, b, A), NEW f, TierRun(f, E, b, A)
  PROVE  Binned(E, b, A, f[OneOf(E, A, b)], OneOf(E, A, b))
<1> DEFINE X == OneOf(E, A, b)
           T == {s \in SUBSET X : Binned(E, b, A, f[s], s)}
<1>1. IsFiniteSet(X) /\ X \subseteq Nat
  <2>1. X \subseteq A
    BY DEF OneOf, U!Firsts
  <2>. QED BY <2>1, FS_Subset DEF Sized
<1>2. {} \in T
  <2>1. f[{}] = <<>> /\ DOMAIN <<>> = {}
    BY DEF TierRun
  <2>2. Binned(E, b, A, <<>>, {})
    BY <2>1 DEF Binned
  <2>. QED BY <2>1, <2>2
<1>3. ASSUME NEW s \in SUBSET X, s # {}, s \ {Top(s)} \in T PROVE s \in T
  <2> DEFINE t == s \ {Top(s)}
  <2>1. Binned(E, b, A, f[t], t) /\ t \in SUBSET X
    BY <1>3
  <2>2. f[t] \in Seq(SUBSET A) /\ f[s] = U!PlaceModule(E, b, f[t], Mine(E, A, Top(s)))
    BY <1>3, <2>1 DEF TierRun
  <2>3. Binned(E, b, A, f[s], s)
    BY <1>3, <2>1, <2>2, BinStep
  <2>. QED BY <2>3
<1>4. \A s \in SUBSET X : s \in T
  <2> HIDE DEF T, X
  <2>1. GrowsUp(T, X)
    BY <1>2, <1>3 DEF GrowsUp
  <2>. QED BY <1>1, <2>1, EveryBucket
<1>. QED BY <1>4

(* A bin that is packed again is filled in the same order.                  *)
LEMMA BinAlone ==
  ASSUME NEW E, NEW b, NEW A, Sized(E, b, A), NEW c \in SUBSET A, IsBin(E, b, A, c)
  PROVE  /\ \A i \in c : Mine(E, c, i) = Mine(E, A, i)
         /\ OneOf(E, c, b) = Lead(E, b, A, c)
<1>1. ASSUME NEW i \in c PROVE Mine(E, A, i) \subseteq c
  <2>1. c = Mines(E, A, Lead(E, b, A, c))
    BY DEF IsBin
  <2>2. PICK j \in Lead(E, b, A, c) : i \in Mine(E, A, j)
    BY <2>1 DEF Mines
  <2>3. Mine(E, A, j) \subseteq c
    BY <2>1 DEF Mines
  <2>4. E[i].module = E[j].module
    BY <2>2 DEF Mine, U!Whole
  <2>5. Mine(E, A, i) = Mine(E, A, j)
    BY <2>4 DEF Mine
  <2>. QED BY <2>3, <2>5
<1>2. ASSUME NEW i \in c PROVE Mine(E, c, i) = Mine(E, A, i)
  BY <1>1 DEF Mine, U!Whole
<1>3. OneOf(E, c, b) = Lead(E, b, A, c)
  <2>1. ASSUME NEW i \in c PROVE U!Whole(E, c, E[i].module) = U!Whole(E, A, E[i].module)
    BY <1>2 DEF Mine
  <2>2. \A i : i \in OneOf(E, c, b) <=> i \in Lead(E, b, A, c)
    <3>1. ASSUME NEW i \in c PROVE i \in OneOf(E, c, b) <=> i \in OneOf(E, A, b)
      BY <2>1, <3>1 DEF OneOf, U!Firsts
    <3>2. OneOf(E, c, b) \subseteq c /\ Lead(E, b, A, c) = c \cap OneOf(E, A, b)
      BY DEF OneOf, U!Firsts, Lead
    <3> HIDE DEF OneOf
    <3>. QED BY <3>1, <3>2
  <2>. QED BY <2>2
<1>. QED BY <1>2, <1>3

LEMMA BinAgain ==
  ASSUME NEW E, NEW b, NEW A, Sized(E, b, A), NEW c \in SUBSET A, IsBin(E, b, A, c), Spans(E, c),
         NEW cs, cs = U!Tier2Chunks(E, c, b)
  PROVE  Alone(cs, c)
<1> DEFINE g == Lead(E, b, A, c)
<1>1. Sized(E, b, c)
  BY PartSized
<1>2. (\A i \in c : Mine(E, c, i) = Mine(E, A, i)) /\ OneOf(E, c, b) = g
  BY BinAlone
<1>3. PICK f : TierRun(f, E, b, c) /\ U!Tier2Chunks(E, c, b) = {d \in ToSet(f[OneOf(E, c, b)]) : Spans(E, d)}
  BY <1>1, TierRuns
<1>4. f \in [SUBSET g -> Seq(SUBSET c)] /\ f[{}] = <<>>
  BY <1>2, <1>3 DEF TierRun
<1>5. \A s \in SUBSET g : s # {} => f[s] = U!PlaceModule(E, b, f[s \ {Top(s)}], Mine(E, c, Top(s)))
  BY <1>2, <1>3 DEF TierRun
<1>6. c = Mines(E, A, g) /\ c # {} /\ Joined(E, b, A, g)
  BY DEF IsBin
<1>7. g \subseteq c /\ IsFiniteSet(g) /\ g \subseteq Nat
  <2>1. g \subseteq c
    BY DEF Lead
  <2>. QED BY <1>1, <2>1, FS_Subset DEF Sized
<1>8. \A i \in g : i \in Mine(E, A, i) /\ Mine(E, A, i) \in SUBSET c
  <2>1. ASSUME NEW i \in g PROVE i \in Mine(E, A, i)
    BY FirstIs DEF Lead
  <2>. QED BY <1>6, <2>1 DEF Mines
<1> HIDE DEF g
<1> DEFINE Lower(s) == \A i \in s : Below(g, i) \subseteq s
           T == {s \in SUBSET g : s # {} /\ Lower(s) => f[s] = <<Mines(E, A, s)>>}
<1>9. {} \in T
  OBVIOUS
<1>10. ASSUME NEW s \in SUBSET g, s # {}, s \ {Top(s)} \in T PROVE s \in T
  <2> DEFINE m == Top(s)
             t == s \ {m}
             w == Mine(E, A, m)
  <2>1. /\ m \in s /\ m \in g /\ m \in Nat /\ t \in SUBSET g /\ s = t \cup {m}
        /\ \A i \in t : i \in Nat /\ i < m
    BY <1>7, <1>10, RestIs
  <2>2. f[s] = U!PlaceModule(E, b, f[t], w) /\ f[t] \in Seq(SUBSET c) /\ w \in SUBSET c
    BY <1>2, <1>4, <1>5, <1>7, <1>8, <1>10, <2>1
  <2>3. t # {} /\ Lower(t) => f[t] = <<Mines(E, A, t)>>
    BY <1>10
  <2>a. f[s] = U!PlaceModule(E, b, f[t], w)
    BY <2>2
  <2> HIDE DEF m, t, w
  <2>4. SUFFICES ASSUME Lower(s) PROVE f[s] = <<Mines(E, A, s)>>
    OBVIOUS
  <2>5. Placing(f[s], E, b, f[t], w)
    BY <2>2, PlaceIs
  <2>6. Below(g, m) = t /\ Lower(t)
    <3>1. \A k : k \in Below(g, m) => k \in t
      <4>1. ASSUME NEW k \in Below(g, m) PROVE k \in t
        <5>1. k \in s /\ k < m
          BY <2>1, <2>4 DEF Below
        <5>2. k # m
          BY <2>1, <5>1
        <5>. QED BY <2>1, <5>1, <5>2
      <4>. QED BY <4>1
    <3>2. \A k \in t : k \in Below(g, m)
      BY <2>1 DEF Below
    <3>3. ASSUME NEW i \in t, NEW k \in Below(g, i) PROVE k \in t
      <4>1. k \in s /\ k < i /\ i < m /\ i \in Nat /\ k \in Nat /\ m \in Nat
        BY <1>7, <2>1, <2>4 DEF Below
      <4>2. k # m
        BY <4>1
      <4>. QED BY <2>1, <4>1, <4>2
    <3>. QED BY <3>1, <3>2, <3>3
  <2>7. Mines(E, A, s) = Mines(E, A, t) \cup w
    BY <2>1 DEF Mines, w
  <2>8. CASE t = {}
    <3>1. f[t] = <<>> /\ Mines(E, A, t) = {}
      BY <1>4, <2>8 DEF Mines
    <3>2. DOMAIN <<>> = {}
      OBVIOUS
    <3>3. f[s] = Append(<<>>, w)
      BY <2>5, <3>1, <3>2 DEF Placing
    <3>. QED BY <2>7, <3>1, <3>3
  <2>9. CASE t # {}
    <3> DEFINE h == Mines(E, A, t)
    <3>1. f[t] = <<h>>
      BY <2>3, <2>6, <2>9
    <3>2. U!Joins(E, h, w, b)
      BY <1>6, <2>1, <2>6, <2>9 DEF Joined, w
    <3>3. DOMAIN <<h>> = {1} /\ <<h>>[1] = h
      OBVIOUS
    <3> HIDE DEF h
    <3>4. f[s] = [<<h>> EXCEPT ![1] = h \cup w]
      BY <2>5, <3>1, <3>2, <3>3 DEF Placing
    <3>5. f[s] = <<h \cup w>>
      BY <3>4
    <3>. QED BY <2>7, <3>5 DEF h
  <2>. QED BY <2>8, <2>9
<1>11. \A s \in SUBSET g : s \in T
  <2> HIDE DEF T
  <2>1. GrowsUp(T, g)
    BY <1>9, <1>10 DEF GrowsUp
  <2>. QED BY <1>7, <2>1, EveryBucket
<1>12. g # {} /\ Lower(g)
  <2>1. g # {}
    BY <1>6 DEF Mines
  <2>. QED BY <2>1 DEF Below
<1>13. f[g] = <<c>>
  BY <1>6, <1>11, <1>12
<1>14. ToSet(<<c>>) = {c}
  BY DEF ToSet
<1>15. cs = {d \in {c} : Spans(E, d)}
  BY <1>2, <1>3, <1>13, <1>14
<1>. QED BY <1>15 DEF Alone

LEMMA BinIsWithin ==
  ASSUME NEW E, NEW b, NEW A, Sized(E, b, A), NEW c \in SUBSET A, IsBin(E, b, A, c)
  PROVE  Within(E, b, c)
<1> DEFINE g == Lead(E, b, A, c)
           m == Top(g)
           t == g \ {m}
<1>1. c = Mines(E, A, g) /\ c # {} /\ Joined(E, b, A, g)
  BY DEF IsBin
<1>2. g \subseteq OneOf(E, A, b) /\ IsFiniteSet(g) /\ g \subseteq Nat
  <2>1. OneOf(E, A, b) \subseteq A
    BY DEF OneOf, U!Firsts
  <2>2. g \subseteq A /\ g \subseteq OneOf(E, A, b)
    BY <2>1 DEF Lead
  <2>. QED BY <2>2, FS_Subset DEF Sized
<1> HIDE DEF g
<1>3. g # {}
  BY <1>1 DEF Mines
<1>4. m \in g /\ g = t \cup {m} /\ (\A i \in t : i \in Nat /\ i < m) /\ m \in Nat
  BY <1>2, <1>3, RestIs, g \in SUBSET g
<1> HIDE DEF m, t
<1>5. Below(g, m) = t
  <2>1. ~(m < m)
    BY <1>4
  <2>2. \A k : k \in Below(g, m) <=> k \in t
    BY <1>4, <2>1 DEF Below
  <2>. QED BY <2>2
<1>6. c = Mines(E, A, t) \cup Mine(E, A, m)
  BY <1>1, <1>4 DEF Mines
<1>7. CASE t = {}
  <2>1. c = Mine(E, A, m)
    BY <1>6, <1>7 DEF Mines
  <2>2. U!Eligible(E, Mine(E, A, m), b)
    BY <1>2, <1>4, FirstIs
  <2>. QED BY <2>1, <2>2 DEF U!Eligible, Within
<1>8. CASE t # {}
  <2>1. U!Joins(E, Mines(E, A, t), Mine(E, A, m), b)
    BY <1>1, <1>4, <1>5, <1>8 DEF Joined
  <2>. QED BY <1>6, <2>1 DEF U!Joins, Within
<1>. QED BY <1>7, <1>8

-----------------------------------------------------------------------------
(* UnityChunks: a plan of any planner.                                      *)
Replans(E, b, planner, cs) ==
    /\ \A c \in cs : Alone(U!Planned(E, c, planner, b), c)
    /\ Apart(cs)
    /\ \A c \in cs : Within(E, b, c)

LEMMA EveryPlan ==
  ASSUME NEW E, NEW b, Sized(E, b, DOMAIN E), NEW planner \in U!Planners,
         NEW A \in SUBSET DOMAIN E, NEW cs, cs = U!Planned(E, A, planner, b)
  PROVE  Replans(E, b, planner, cs)
<1>0. Sized(E, b, A)
  BY FS_Subset DEF Sized
<1>1. ASSUME NEW stems, \A c \in SUBSET A : U!Planned(E, c, planner, b) = U!SecondaryChunks(E, c, b, FALSE, stems)
      PROVE  Replans(E, b, planner, cs)
  <2>1. cs = U!SecondaryChunks(E, A, b, FALSE, stems)
    BY <1>1
  <2>2. Apart(cs) /\ \A c \in cs : Whose(E, b, A, FALSE, stems, c)
    BY <1>0, <2>1, SecondaryIs
  <2>3. ASSUME NEW c \in cs PROVE Alone(U!Planned(E, c, planner, b), c) /\ Within(E, b, c)
    <3>1. c \in SUBSET A /\ Cardinality(c) > 1 /\ Grown(E, b, stems, c) /\ OneKey(E, FALSE, c)
      BY <2>2, WhoseIs
    <3>2. Within(E, b, c)
      BY <1>0, <3>1, GrownIsWithin
    <3>3. U!Planned(E, c, planner, b) = U!SecondaryChunks(E, c, b, FALSE, stems)
      BY <1>1, <3>1
    <3>4. Alone(U!Planned(E, c, planner, b), c)
      BY <1>0, <3>1, <3>3, SecondaryAgain
    <3>. QED BY <3>2, <3>4
  <2>. QED BY <2>2, <2>3 DEF Replans
<1>2. CASE planner = "tier1"
  <2>1. \A c \in SUBSET A : U!Planned(E, c, planner, b) = U!SecondaryChunks(E, c, b, FALSE, FALSE)
    BY <1>2 DEF U!Planned
  <2>. QED BY <1>1, <2>1
<1>3. CASE planner = "stems"
  <2>1. \A c \in SUBSET A : U!Planned(E, c, planner, b) = U!SecondaryChunks(E, c, b, FALSE, TRUE)
    BY <1>3 DEF U!Planned
  <2>. QED BY <1>1, <2>1
<1>4. CASE planner = "strict"
  <2>1. PICK f : StrictRun(f, E, b) /\ \A s \in SUBSET A : U!StrictChunks(E, s, b) = f[s]
    BY StrictRuns
  <2>2. \A s \in SUBSET A : U!Planned(E, s, planner, b) = f[s]
    BY <1>4, <2>1 DEF U!Planned
  <2>3. Strictly(E, b, f[A], A) /\ cs = f[A]
    BY <2>1, <2>2, StrictIs
  <2>4. ASSUME NEW c \in cs PROVE Alone(U!Planned(E, c, planner, b), c) /\ Within(E, b, c)
    <3>1. c \in SUBSET A /\ IsStrict(E, b, c)
      BY <2>3 DEF Strictly
    <3>2. Alone(f[c], c)
      BY <2>1, <3>1, StrictAgain
    <3>3. Within(E, b, c)
      BY <1>0, <3>1, GrownIsWithin DEF IsStrict
    <3>. QED BY <2>2, <3>1, <3>2, <3>3
  <2>. QED BY <2>3, <2>4 DEF Replans, Strictly
<1>5. CASE planner = "tier2"
  <2>1. \A c \in SUBSET A : U!Planned(E, c, planner, b) = U!Tier2Chunks(E, c, b)
    BY <1>5 DEF U!Planned
  <2>2. PICK f : TierRun(f, E, b, A) /\ U!Tier2Chunks(E, A, b) = {c \in ToSet(f[OneOf(E, A, b)]) : Spans(E, c)}
    BY <1>0, TierRuns
  <2> DEFINE bins == f[OneOf(E, A, b)]
  <2>3. bins \in Seq(SUBSET A) /\ Binned(E, b, A, bins, OneOf(E, A, b))
    BY <1>0, <2>2, TierIs DEF TierRun
  <2>4. cs = {c \in ToSet(bins) : Spans(E, c)}
    BY <2>1, <2>2
  <2> HIDE DEF bins
  <2>5. ASSUME NEW c \in cs PROVE \E k \in DOMAIN bins : c = bins[k]
    BY <2>4 DEF ToSet
  <2>6. Apart(cs)
    BY <2>3, <2>5 DEF Apart, Binned
  <2>7. ASSUME NEW c \in cs PROVE Alone(U!Planned(E, c, planner, b), c) /\ Within(E, b, c)
    <3>1. c \in SUBSET A /\ IsBin(E, b, A, c) /\ Spans(E, c)
      BY <2>3, <2>4, <2>5 DEF Binned
    <3>2. Within(E, b, c)
      BY <1>0, <3>1, BinIsWithin
    <3>3. U!Planned(E, c, planner, b) = U!Tier2Chunks(E, c, b)
      BY <2>1, <3>1
    <3>4. Alone(U!Planned(E, c, planner, b), c)
      BY <1>0, <3>1, <3>3, BinAgain
    <3>. QED BY <3>2, <3>4
  <2>. QED BY <2>6, <2>7 DEF Replans
<1>. QED BY <1>2, <1>3, <1>4, <1>5 DEF U!Planners

-----------------------------------------------------------------------------
(* A plan of a database, once it is made.                                   *)
Made(E, planner, b) == U!Planned(E, U!Candidates(E, planner, b), planner, b)
ChunksInv == part = "chunks" =>
    /\ entries \in Packings /\ budget \in Budgets
    /\ plan = U!NoPlan \/ \E planner \in U!Planners :
          plan = [by |-> planner, chunks |-> Made(entries, planner, budget)]

LEMMA InputIsSized ==
  ASSUME NEW E \in Packings, NEW b \in Budgets
  PROVE  Sized(E, b, DOMAIN E)
<1>1. DOMAIN E = 1..Len(E) /\ Len(E) \in Nat
  BY PackingsAreSized DEF IsList
<1>2. IsFiniteSet(DOMAIN E) /\ DOMAIN E \subseteq Nat
  BY <1>1, FS_Interval
<1>3. b.bytes \in Nat /\ b.unities \in Nat /\ b.sources \in Nat
  BY PackingsAreSized
<1>4. ASSUME NEW i \in DOMAIN E PROVE U!Bytes(E[i], b) \in Nat /\ E[i].sources \in Nat
  <2>1. (E[i].size = Unknown \/ E[i].size \in Nat) /\ E[i].sources \in Nat
    BY PackingsAreSized
  <2>. QED BY <1>3, <2>1 DEF U!Bytes
<1>. QED BY <1>2, <1>3, <1>4 DEF Sized

LEMMA ChunksAreExact == ChunksInv /\ part = "chunks" => U!PlansReplan
<1> SUFFICES ASSUME ChunksInv, part = "chunks", plan # U!NoPlan PROVE
        /\ \A c \in plan.chunks : U!Planned(entries, c, plan.by, budget) = {c}
        /\ \A c, d \in plan.chunks : c = d \/ c \cap d = {}
        /\ \A c \in plan.chunks : /\ U!SizeOf(entries, c, budget) <= budget.bytes
                                  /\ U!Cardinality(c) <= budget.unities
  BY DEF U!PlansReplan
<1>1. entries \in Packings /\ budget \in Budgets
  BY DEF ChunksInv
<1>2. PICK planner \in U!Planners :
        plan = [by |-> planner, chunks |-> Made(entries, planner, budget)]
  BY DEF ChunksInv
<1>3. plan.by = planner /\ plan.chunks = Made(entries, planner, budget)
  BY <1>2
<1>4. Replans(entries, budget, planner, plan.chunks)
  <2>1. U!Candidates(entries, planner, budget) \in SUBSET DOMAIN entries
    BY DEF U!Candidates
  <2>. QED BY <1>1, <1>3, <2>1, InputIsSized, EveryPlan DEF Made
<1>. QED BY <1>3, <1>4 DEF Replans, Alone, Apart, Within

LEMMA ChunksKept == ASSUME ChunksInv, part = "chunks", U!Next PROVE ChunksInv'
<1>1. plan = U!NoPlan /\ UNCHANGED <<entries, budget>>
  BY DEF U!Next, U!MakePlan
<1>2. PICK planner \in U!Planners :
        plan' = [by |-> planner, chunks |-> Made(entries, planner, budget)]
  BY DEF U!Next, U!MakePlan, Made
<1> DEFINE made == Made(entries, planner, budget)
<1>3. plan' = [by |-> planner, chunks |-> made]
  BY <1>2
<1>4. made = Made(entries', planner, budget')
  BY <1>1
<1>5. entries' \in Packings /\ budget' \in Budgets
  BY <1>1 DEF ChunksInv
<1> HIDE DEF made
<1>6. plan' = [by |-> planner, chunks |-> Made(entries', planner, budget')]
  BY <1>3, <1>4
<1>. QED BY <1>5, <1>6 DEF ChunksInv

LEMMA ChunksSteps == [NextAll]_all => UNCHANGED part /\ (part = "chunks" => U!Next \/ UNCHANGED chunks)
BY DEF NextAll, ActivationStep, CohortStep, SwitchStep, ChunksStep, SuperStep, ReceiptStep, HotStep, FullStep,
       RepairStep, ClangdStep, QueryStep, BatchStep, ToolStep, all, batches, tools, chunks

LEMMA ChunksStutters == ChunksInv /\ UNCHANGED <<part, chunks>> => ChunksInv'
BY DEF ChunksInv, chunks

LEMMA ChunksAlways == SpecAll => []ChunksInv
<1>1. InitAll => ChunksInv
  BY DEF InitAll, ChunksInv, U!Init
<1>2. ChunksInv /\ [NextAll]_all => ChunksInv'
  <2> SUFFICES ASSUME ChunksInv, [NextAll]_all PROVE ChunksInv'
    OBVIOUS
  <2>1. part' = part
    BY ChunksSteps
  <2>2. CASE part = "chunks"
    BY <2>1, <2>2, ChunksSteps, ChunksKept, ChunksStutters
  <2>3. CASE part # "chunks"
    BY <2>1, <2>3 DEF ChunksInv
  <2>. QED BY <2>2, <2>3
<1>. QED BY <1>1, <1>2, PTL DEF SpecAll

-----------------------------------------------------------------------------
(* Sums.                                                                    *)

(* A part sums to no more than the whole.                                   *)
LEMMA SumOfFewer ==
  ASSUME NEW X, IsFiniteSet(X), NEW w \in [X -> Nat], NEW f, Sums(f, w, X), NEW r \in SUBSET X
  PROVE  f[r] <= f[X]
<1> DEFINE pick == [s \in SUBSET X |-> AnyOf(s)]
           T == {s \in SUBSET X : f[s \cap r] <= f[s]}
<1>1. {} \in T
  <2>1. {} \cap r = {} /\ f[{}] = 0
    BY DEF Sums
  <2>. QED BY <2>1
<1>2. ASSUME NEW s \in SUBSET X, s # {}, s \ {pick[s]} \in T PROVE s \in T
  <2> DEFINE p == AnyOf(s)
             t == s \ {p}
  <2>1. p \in s /\ p \in X /\ t \in SUBSET X /\ pick[s] = p
    BY <1>2 DEF AnyOf
  <2>2. f[t \cap r] <= f[t]
    BY <1>2, <2>1
  <2> HIDE DEF p
  <2>3. f[s] = w[p] + f[t] /\ f[t] \in Nat /\ w[p] \in Nat
    BY <2>1 DEF Sums
  <2>4. CASE p \in r
    <3>1. (s \cap r) \ {p} = t \cap r /\ p \in s \cap r
      BY <2>1, <2>4
    <3>2. f[s \cap r] = w[p] + f[t \cap r] /\ f[t \cap r] \in Nat
      BY <2>1, <3>1 DEF Sums
    <3>. QED BY <2>2, <2>3, <3>2
  <2>5. CASE p \notin r
    <3>1. s \cap r = t \cap r
      BY <2>5
    <3>2. f[t \cap r] \in Nat
      BY <2>1 DEF Sums
    <3>. QED BY <2>2, <2>3, <3>1, <3>2
  <2>. QED BY <2>4, <2>5
<1>3. X \in T
  <2>1. Picks(pick, X)
    BY DEF Picks, AnyOf
  <2> HIDE DEF pick, T
  <2>2. Grows(T, pick, X)
    BY <1>1, <1>2 DEF Grows
  <2>3. \A s \in SUBSET X : s \in T
    BY <2>1, <2>2, EverySubset
  <2>. QED BY <2>3
<1>4. X \cap r = r
  OBVIOUS
<1>. QED BY <1>3, <1>4

(* What sums to one is one at a single place.                               *)
OnlyAt(w, X, k) == w[k] = 1 /\ \A j \in X : w[j] >= 1 => j = k
LEMMA SumOfOne ==
  ASSUME NEW X, IsFiniteSet(X), NEW w \in [X -> Nat], NEW f, Sums(f, w, X), f[X] = 1,
         NEW k \in X, w[k] >= 1
  PROVE  OnlyAt(w, X, k)
<1>1. X \in SUBSET X /\ X \ {k} \in SUBSET X
  OBVIOUS
<1>2. f[X] = w[k] + f[X \ {k}] /\ f[X \ {k}] \in Nat /\ w[k] \in Nat
  BY <1>1 DEF Sums
<1>3. w[k] = 1 /\ f[X \ {k}] = 0
  BY <1>2
<1>4. ASSUME NEW j \in X, w[j] >= 1, j # k PROVE FALSE
  <2>1. j \in X \ {k}
    BY <1>4
  <2>2. f[X \ {k}] = w[j] + f[(X \ {k}) \ {j}] /\ f[(X \ {k}) \ {j}] \in Nat /\ w[j] \in Nat
    BY <1>1, <2>1 DEF Sums
  <2>. QED BY <1>3, <1>4, <2>2
<1>. QED BY <1>3, <1>4 DEF OnlyAt

(* The sizes of disjoint sets sum to that of their union.                   *)
Disjoint(shares, X) == \A i, j \in X : i = j \/ shares[i] \cap shares[j] = {}
LEMMA SumOfParts ==
  ASSUME NEW X, IsFiniteSet(X), NEW shares, \A i \in X : IsFiniteSet(shares[i]), Disjoint(shares, X),
         NEW w, w = [i \in X |-> Cardinality(shares[i])]
  PROVE  IsFiniteSet(UNION {shares[i] : i \in X}) /\ Total(w) = Cardinality(UNION {shares[i] : i \in X})
<1>1. w \in [X -> Nat]
  BY FS_CardinalityType
<1>2. PICK f : Sums(f, w, X)
  BY <1>1, SumIsDefined
<1> DEFINE Both(s) == UNION {shares[i] : i \in s}
           pick == [s \in SUBSET X |-> AnyOf(s)]
           T == {s \in SUBSET X : IsFiniteSet(Both(s)) /\ f[s] = Cardinality(Both(s))}
<1>3. {} \in T
  <2>1. Both({}) = {} /\ f[{}] = 0
    BY <1>2 DEF Sums
  <2>. QED BY <2>1, FS_EmptySet
<1>4. ASSUME NEW s \in SUBSET X, s # {}, s \ {pick[s]} \in T PROVE s \in T
  <2> DEFINE p == AnyOf(s)
             t == s \ {p}
  <2>1. p \in s /\ p \in X /\ t \in SUBSET X /\ pick[s] = p
    BY <1>4 DEF AnyOf
  <2>2. IsFiniteSet(Both(t)) /\ f[t] = Cardinality(Both(t))
    BY <1>4, <2>1
  <2> HIDE DEF p
  <2>3. f[s] = Cardinality(shares[p]) + f[t]
    BY <1>2, <2>1 DEF Sums
  <2>4. Both(s) = Both(t) \cup shares[p]
    BY <2>1
  <2>5. Both(t) \cap shares[p] = {}
    <3>1. \A i \in t : shares[i] \cap shares[p] = {}
      BY <2>1 DEF Disjoint
    <3>. QED BY <3>1
  <2> HIDE DEF Both, t
  <2>6. IsFiniteSet(Both(s)) /\ Cardinality(Both(s)) = Cardinality(Both(t)) + Cardinality(shares[p]) - Cardinality({})
    BY <2>1, <2>2, <2>4, <2>5, FS_Union
  <2>7. Cardinality({}) = 0 /\ Cardinality(Both(t)) \in Nat /\ Cardinality(shares[p]) \in Nat
    BY <2>1, <2>2, FS_EmptySet, FS_CardinalityType
  <2>. QED BY <2>2, <2>3, <2>6, <2>7
<1>5. X \in T
  <2>1. Picks(pick, X)
    BY DEF Picks, AnyOf
  <2> HIDE DEF pick, T
  <2>2. Grows(T, pick, X)
    BY <1>3, <1>4 DEF Grows
  <2>3. \A s \in SUBSET X : s \in T
    BY <2>1, <2>2, EverySubset
  <2>. QED BY <2>3
<1>6. Total(w) = f[X]
  <2>1. w = [i \in X |-> w[i]] /\ X \in SUBSET X
    OBVIOUS
  <2>. QED BY <1>1, <1>2, <2>1, SumIs
<1>. QED BY <1>5, <1>6
=============================================================================
