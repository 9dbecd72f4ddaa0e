-------------------------- MODULE ProofQueueProofs --------------------------
(***************************************************************************)
(* For every set of groups, every packing, every verdict of the gates and  *)
(* every interleaving of edits, failures and deaths: the batches of a      *)
(* database own disjoint sets of entries, and a selected owner is only     *)
(* ever absorbed whole; the fallbacks of a parent wait until it is out,    *)
(* and a complete queue has served every group; and what a session is told *)
(* is published is the run of its own collect.  The first two assume       *)
(* nothing of the constants (the code checks what a cache answers before   *)
(* it uses it); the third uses GroupsAreListed.                            *)
(***************************************************************************)
EXTENDS ProofQueue, SequenceTheorems, FiniteSetTheorems, TLAPS

Absorbs(old, new) == \A b \in old : \E c \in new : b.own \subseteq c.own

(* What a cache answers is disjoint.                                        *)
LEMMA BatchesDisjoint ==
    ASSUME NEW id, NEW owners
    PROVE  Disjoint(Batches(id, owners))
BY DEF Disjoint, Batches, Valid

LEMMA LocalDisjoint == ASSUME NEW id PROVE Disjoint(Local(id))
<1>1. CASE Cached(id)
  BY <1>1, BatchesDisjoint DEF Local
<1>2. CASE ~Cached(id)
  BY <1>2 DEF Local, Disjoint
<1>. QED BY <1>1, <1>2

(* Replacing whole owners keeps a selection disjoint and absorbs them.      *)
LEMMA ReplaceSound ==
    ASSUME NEW sel, NEW id, Disjoint(sel), Qualified(id), Whole(sel, Own[id])
    PROVE  Disjoint(Replace(sel, id)) /\ Absorbs(sel, Replace(sel, id))
<1> DEFINE new == {b \in Local(id) : b.own = Own[id]}
           rest == sel \ Touching(sel, Own[id])
<1>1. Replace(sel, id) = rest \cup new
  BY DEF Replace
<1>2. Disjoint(rest) /\ Disjoint(new)
  BY LocalDisjoint DEF Disjoint
<1>3. \A b \in rest, c \in new : b.own \cap c.own = {}
  BY DEF Touching
<1>4. Disjoint(rest \cup new)
  BY <1>2, <1>3 DEF Disjoint
<1>5. PICK n \in new : n.own = Own[id]
  BY DEF Qualified
<1>6. ASSUME NEW b \in sel
      PROVE  \E c \in rest \cup new : b.own \subseteq c.own
  <2>1. CASE b \in Touching(sel, Own[id])
    BY <2>1, <1>5 DEF Whole
  <2>2. CASE b \notin Touching(sel, Own[id])
    BY <2>2
  <2>. QED BY <2>1, <2>2
<1>. QED BY <1>1, <1>4, <1>6 DEF Absorbs

(* Adding owners that touch nobody keeps a selection disjoint.              *)
LEMMA AddSound ==
    ASSUME NEW sel, NEW id, Disjoint(sel)
    PROVE  Disjoint(AddDisjoint(sel, id)) /\ Absorbs(sel, AddDisjoint(sel, id))
<1> DEFINE new == {b \in Local(id) : Touching(sel, b.own) = {}}
<1>1. Disjoint(new)
  BY LocalDisjoint DEF Disjoint
<1>2. \A b \in sel, c \in new : b.own \cap c.own = {}
  BY DEF Touching
<1>3. Disjoint(sel \cup new)
  BY <1>1, <1>2 DEF Disjoint
<1>4. AddDisjoint(sel, id) = sel \cup new
  BY DEF AddDisjoint
<1>. QED BY <1>3, <1>4 DEF Absorbs

LEMMA Stays ==
    ASSUME NEW sel, Disjoint(sel)
    PROVE  Disjoint(sel) /\ Absorbs(sel, sel)
BY DEF Absorbs

LEMMA AdoptSound ==
    ASSUME NEW sel, NEW id, Disjoint(sel)
    PROVE  Disjoint(Adopt(sel, id)) /\ Absorbs(sel, Adopt(sel, id))
<1>1. CASE Adopts(sel, id)
  BY <1>1, ReplaceSound DEF Adopt, Adopts
<1>2. CASE ~Adopts(sel, id)
  BY <1>2, AddSound DEF Adopt
<1>. QED BY <1>1, <1>2

LEMMA UpgradeSound ==
    ASSUME NEW sel, NEW id, Disjoint(sel)
    PROVE  Disjoint(Upgrade(sel, id)) /\ Absorbs(sel, Upgrade(sel, id))
<1>1. CASE Upgrades(sel, id)
  BY <1>1, ReplaceSound DEF Upgrade, Upgrades
<1>2. CASE ~Upgrades(sel, id)
  BY <1>2, Stays DEF Upgrade
<1>. QED BY <1>1, <1>2

LEMMA LookupSound ==
    ASSUME NEW sel, NEW id, Disjoint(sel)
    PROVE  Disjoint(Lookup(sel, id)) /\ Absorbs(sel, Lookup(sel, id))
<1>1. CASE id \notin Known[queue.input] \/ Own[id] \in Owns(sel)
  BY <1>1, Stays DEF Lookup
<1>2. CASE ~(id \notin Known[queue.input] \/ Own[id] \in Owns(sel))
  <2>1. CASE Kind[id] = "large"
    BY <1>2, <2>1, UpgradeSound DEF Lookup
  <2>2. CASE Kind[id] = "strict"
    BY <1>2, <2>2, AddSound DEF Lookup
  <2>3. CASE Kind[id] # "large" /\ Kind[id] # "strict"
    BY <1>2, <2>3, AdoptSound DEF Lookup
  <2>. QED BY <2>1, <2>2, <2>3
<1>. QED BY <1>1, <1>2

LEMMA RootDisjoint == Disjoint(RootBatches)
<1>1. CASE bytes = 1
  BY <1>1, BatchesDisjoint DEF RootBatches
<1>2. CASE bytes # 1
  BY <1>2 DEF RootBatches, Disjoint
<1>. QED BY <1>1, <1>2

-----------------------------------------------------------------------------
(* The saved copy may come back to disk, so it takes part in the invariant. *)
SelInv == Disjoint(selection) /\ Disjoint(background) /\ Disjoint(saved)

LEMMA InitSel == Init => SelInv
BY DEF Init, SelInv, Disjoint

LEMMA LookUpStep ==
    ASSUME SelInv, LookUp
    PROVE  SelInv' /\ Absorbs(selection, selection')
<1>1. selection' = Lookup(selection, Head(collector.todo)) /\ UNCHANGED <<background, saved>>
  BY DEF LookUp, files
<1>. QED BY <1>1, LookupSound DEF SelInv, Disjoint

LEMMA CollectGroupStep ==
    ASSUME SelInv, CollectGroup
    PROVE  SelInv' /\ Absorbs(selection, selection')
<1> DEFINE id == Head(collector.todo)
<1>1. UNCHANGED <<background, saved>>
  BY DEF CollectGroup, files
<1>2. CASE Kind[id] = "large"
  <2>1. selection' = Upgrade(selection, id)
    BY <1>2 DEF CollectGroup
  <2>. QED BY <1>1, <2>1, UpgradeSound DEF SelInv, Disjoint
<1>3. CASE Kind[id] # "large"
  <2>1. selection' = Adopt(selection, id)
    BY <1>3 DEF CollectGroup
  <2>. QED BY <1>1, <2>1, AdoptSound DEF SelInv, Disjoint
<1>. QED BY <1>2, <1>3

(* The steps that do not choose: they copy one of the three, or clear them. *)
Copies == /\ selection' \in {selection, {}, RootBatches}
          /\ background' \in {background, selection, saved}
          /\ saved' \in {saved, background, {}}

LEMMA CopyStep == ASSUME SelInv, Copies PROVE SelInv'
<1>1. Disjoint(selection') /\ Disjoint(background') /\ Disjoint(saved')
  BY RootDisjoint DEF SelInv, Copies, Disjoint
<1>. QED BY <1>1 DEF SelInv, Disjoint

LEMMA StepCopies ==
    ASSUME [Next]_vars
    PROVE  LookUp \/ CollectGroup \/ Copies
<1> USE DEF files, collecting, environment, Copies
<1>1. CASE Edit \/ Prepare \/ Quit \/ Start
  BY <1>1 DEF Edit, Prepare, Quit, Start
<1>2. CASE Plan \/ PlanFails
  BY <1>2 DEF Plan, PlanFails
<1>3. CASE Take \/ Complete
  BY <1>3 DEF Take, Complete
<1>4. CASE Collect
  BY <1>4 DEF Collect
<1>5. CASE CollectStep
  BY <1>5 DEF CollectStep, LookedUp, Overlay, CheckInput, WriteBackground,
              WriteCatalog, Unlink, PublishWorker, Deliver
<1>6. CASE CollectFail
  BY <1>6 DEF CollectFail
<1>7. ASSUME NEW id \in Ids, Work(id) \/ WorkerFail(id) PROVE Copies
  BY <1>7 DEF Work, WorkerProve, WorkerReturn, WorkerFail
<1>8. CASE UNCHANGED vars
  BY <1>8 DEF vars
<1>. QED BY <1>1, <1>2, <1>3, <1>4, <1>5, <1>6, <1>7, <1>8 DEF Next

LEMMA NextSel == SelInv /\ [Next]_vars => SelInv'
BY StepCopies, LookUpStep, CollectGroupStep, CopyStep

LEMMA SelInvariant == Spec => []SelInv
BY InitSel, NextSel, PTL DEF Spec

(* Every database a collect writes replaces each entry at most once.        *)
THEOREM OwnersDisjointAlways == Spec => []OwnersDisjoint
<1>1. SelInv => OwnersDisjoint
  BY DEF SelInv, OwnersDisjoint
<1>. QED BY <1>1, SelInvariant, PTL

-----------------------------------------------------------------------------
(* While a job goes on, its selection changes by lookups only.              *)
LEMMA JobKeepsSelection ==
    ASSUME [Next]_vars, collector # None, collector' # None
    PROVE  LookUp \/ CollectGroup \/ selection' = selection
<1> USE DEF files, collecting, environment
<1>1. CASE Edit \/ Prepare \/ Quit \/ Start
  BY <1>1 DEF Edit, Prepare, Quit, Start
<1>2. CASE Plan \/ PlanFails
  BY <1>2 DEF Plan, PlanFails
<1>3. CASE Take \/ Complete \/ Collect
  BY <1>3 DEF Take, Complete, Collect
<1>4. CASE CollectStep
  BY <1>4 DEF CollectStep, LookedUp, Overlay, CheckInput, WriteBackground,
              WriteCatalog, Unlink, PublishWorker, Deliver
<1>5. CASE CollectFail
  BY <1>5 DEF CollectFail
<1>6. ASSUME NEW id \in Ids, Work(id) \/ WorkerFail(id) PROVE selection' = selection
  BY <1>6 DEF Work, WorkerProve, WorkerReturn, WorkerFail
<1>7. CASE UNCHANGED vars
  BY <1>7 DEF vars
<1>. QED BY <1>1, <1>2, <1>3, <1>4, <1>5, <1>6, <1>7 DEF Next

(* No step of a collect splits or drops an owner it has selected.           *)
THEOREM OwnersNeverSplitAlways == Spec => OwnersNeverSplit
<1>1. ASSUME SelInv, [Next]_vars, collector # None, collector' # None
      PROVE  \A b \in selection : \E c \in selection' : b.own \subseteq c.own
  <2>1. CASE LookUp \/ CollectGroup
    BY <1>1, <2>1, LookUpStep, CollectGroupStep DEF Absorbs
  <2>2. CASE selection' = selection
    BY <2>2
  <2>. QED BY <1>1, <2>1, <2>2, JobKeepsSelection
<1>2. SelInv /\ [Next]_vars => [collector # None /\ collector' # None =>
        \A b \in selection : \E c \in selection' : b.own \subseteq c.own]_vars
  BY <1>1
<1>. QED BY <1>2, SelInvariant, PTL DEF Spec, OwnersNeverSplit
-----------------------------------------------------------------------------
LEMMA AppendRange ==
  ASSUME NEW X, NEW s \in Seq(X), NEW x \in X
  PROVE  \A y : y \in ToSet(Append(s, x)) <=> y = x \/ y \in ToSet(s)
<1>1. /\ Len(Append(s, x)) = Len(s) + 1 /\ Len(s) \in Nat
      /\ \A i \in 1..Len(s) : Append(s, x)[i] = s[i]
      /\ Append(s, x)[Len(s) + 1] = x
      /\ DOMAIN s = 1..Len(s) /\ DOMAIN Append(s, x) = 1..(Len(s) + 1)
  OBVIOUS
<1>. QED BY <1>1 DEF ToSet

-----------------------------------------------------------------------------
(* The order of a queue of groups.  Filtering a sequence is a recursion over *)
(* its positions; the library's theorems on finite sets give least numbers,  *)
(* which stand for the induction.                                            *)

(* A family of subsets of a finite set has a minimal member.                 *)
LEMMA MinimalSet ==
  ASSUME NEW A, IsFiniteSet(A), NEW T, T \subseteq SUBSET A, T # {}
  PROVE  \E m \in T : \A s \in T : s \subseteq m => s = m
<1>1. IsWellFoundedOn(StrictSubsetOrdering(A), FiniteSubsetsOf(A))
  BY FS_StrictSubsetOrderingWellFounded, Zenon
<1>2. T \subseteq FiniteSubsetsOf(A)
  BY FS_FiniteSubsetsOfFinite, Zenon
<1>3. PICK m \in T : \A s \in T : ~(<<s, m>> \in StrictSubsetOrdering(A))
  BY <1>1, <1>2, WFMin, Zenon
<1>4. ASSUME NEW s \in T, s \subseteq m PROVE s = m
  BY <1>3, <1>4 DEF StrictSubsetOrdering
<1>. QED BY <1>4

LEMMA LeastNumber ==
  ASSUME NEW n \in Nat, NEW T, T \subseteq 0..n, T # {}
  PROVE  \E m \in T : \A k \in T : m <= k
<1> DEFINE Heads == {1..k : k \in T}
           A == 1..n
<1>1. IsFiniteSet(A)
  BY FS_Interval
<1>0. Heads \subseteq SUBSET A /\ Heads # {}
  <2>1. \A k \in T : 1..k \subseteq 1..n
    OBVIOUS
  <2>. QED BY <2>1
<1> HIDE DEF Heads, A
<1>2. PICK s \in Heads : \A r \in Heads : r \subseteq s => r = s
  BY <1>0, <1>1, MinimalSet
<1> USE DEF Heads, A
<1>3. PICK m \in T : s = 1..m
  OBVIOUS
<1>4. ASSUME NEW k \in T, k < m PROVE FALSE
  <2>1. 1..k \in Heads /\ 1..k \subseteq 1..m
    BY <1>4
  <2>2. 1..k = 1..m
    BY <1>2, <1>3, <2>1
  <2>3. m \in 1..m /\ m \notin 1..k
    BY <1>4
  <2>. QED BY <2>2, <2>3
<1>. QED BY <1>4


LEMMA FilterSelects ==
  ASSUME NEW X, NEW seq \in Seq(X), NEW ids
  PROVE  /\ Filter(seq, ids) \in Seq(X)
         /\ \A x : x \in ToSet(Filter(seq, ids)) <=> x \in ToSet(seq) /\ x \in ids
<1> DEFINE N == Len(seq)
           Next1(f, n) == IF n = 0 THEN <<>>
                          ELSE IF seq[n] \in ids THEN Append(f[n - 1], seq[n]) ELSE f[n - 1]
           Typed == [0..N -> Seq(X)]
           Upto(f, n) == \A k \in 0..n : f[k] = Next1(f, k)
           T == {n \in 0..N : ~\E f \in Typed : Upto(f, n)}
<1>1. N \in Nat /\ \A n \in 1..N : seq[n] \in X
  OBVIOUS
<1>2. T = {}
  <2> SUFFICES ASSUME T # {} PROVE FALSE
    OBVIOUS
  <2>1. PICK n \in T : \A k \in T : n <= k
    <3>1. T \subseteq 0..N
      OBVIOUS
    <3> HIDE DEF T, N
    <3>. QED BY <1>1, <3>1, LeastNumber
  <2>2. n \in 0..N /\ ~\E f \in Typed : Upto(f, n)
    <3> HIDE DEF Upto, N, Typed
    <3>. QED OBVIOUS
  <2>3. CASE n = 0
    <3> DEFINE g == [k \in 0..N |-> <<>>]
    <3>1. g \in Typed /\ Upto(g, n)
      BY <2>3
    <3>. QED BY <2>2, <3>1
  <2>4. CASE n # 0
    <3>1. n - 1 \in 0..N /\ n \in 1..N
      BY <1>1, <2>2, <2>4
    <3>2. n - 1 \notin T
      <4> HIDE DEF T, N
      <4>. QED BY <1>1, <2>1, <2>2, <3>1
    <3>3. PICK f \in Typed : Upto(f, n - 1)
      <4> HIDE DEF Upto, N, Typed
      <4>. QED BY <3>1, <3>2
    <3> DEFINE g == [f EXCEPT ![n] = Next1(f, n)]
    <3>4. f[n - 1] \in Seq(X) /\ seq[n] \in X
      BY <1>1, <3>1
    <3>5. Next1(f, n) \in Seq(X)
      BY <2>4, <3>4
    <3>6. g \in Typed
      <4> HIDE DEF Next1, N
      <4>. QED BY <3>5
    <3>7. \A k \in 0..(n - 1) : g[k] = f[k] /\ k \in 0..N
      <4> HIDE DEF Next1
      <4>. QED BY <1>1, <3>1
    <3>8. ASSUME NEW k \in 0..n PROVE g[k] = Next1(g, k)
      <4>1. CASE k = n
        <5>1. g[n] = Next1(f, n)
          <6> HIDE DEF Next1
          <6>. QED BY <3>1
        <5>2. g[n - 1] = f[n - 1]
          <6> HIDE DEF g
          <6>. QED BY <1>1, <3>1, <3>7
        <5> HIDE DEF g
        <5>. QED BY <4>1, <5>1, <5>2
      <4>2. CASE k # n
        <5>1. k \in 0..(n - 1) /\ (k # 0 => k - 1 \in 0..(n - 1))
          BY <1>1, <3>1, <4>2
        <5>2. f[k] = Next1(f, k)
          <6> HIDE DEF Next1
          <6>. QED BY <3>3, <5>1
        <5> HIDE DEF g
        <5>. QED BY <3>7, <5>1, <5>2
      <4>. QED BY <4>1, <4>2
    <3>. QED
      <4> HIDE DEF g, Next1, Typed
      <4>. QED BY <2>2, <3>6, <3>8
  <2>. QED BY <2>3, <2>4
<1>3. PICK f \in Typed : Upto(f, N)
  <2>1. N \in 0..N
    BY <1>1
  <2>2. ASSUME ~\E f \in Typed : Upto(f, N) PROVE N \in T
    <3> HIDE DEF Upto, Typed, N
    <3>. QED BY <2>1, <2>2
  <2> HIDE DEF Upto, Typed, N, T
  <2>. QED BY <1>2, <2>2
<1> DEFINE Is(h) == h = [n \in 0..N |-> Next1(h, n)]
           upto == CHOOSE h : Is(h)
<1>4. Is(f)
  <2> HIDE DEF Next1, N
  <2>. QED BY <1>3
<1>5. Is(upto)
  <2> HIDE DEF Is
  <2>. QED BY <1>4
<1>6. Filter(seq, ids) = upto[N]
  BY DEF Filter
<1>7. \A n \in 0..N : upto[n] = Next1(upto, n)
  <2> HIDE DEF Next1, N, upto
  <2>. QED BY <1>5
<1> HIDE DEF upto
<1> DEFINE Right(n) == /\ upto[n] \in Seq(X)
                       /\ \A x : x \in ToSet(upto[n]) <=> x \in ids /\ \E k \in 1..n : seq[k] = x
           U == {n \in 0..N : ~Right(n)}
<1>8. U = {}
  <2> SUFFICES ASSUME U # {} PROVE FALSE
    OBVIOUS
  <2>1. PICK n \in U : \A k \in U : n <= k
    <3>1. U \subseteq 0..N
      OBVIOUS
    <3> HIDE DEF U, N
    <3>. QED BY <1>1, <3>1, LeastNumber
  <2>2. n \in 0..N /\ ~Right(n)
    <3> HIDE DEF Right, N
    <3>. QED OBVIOUS
  <2>3. CASE n = 0
    <3>1. upto[0] = <<>>
      BY <1>1, <1>7
    <3>2. Right(0)
      BY <3>1 DEF ToSet
    <3>. QED BY <2>2, <2>3, <3>2
  <2>4. CASE n # 0
    <3>1. n - 1 \in 0..N /\ n \in 1..N /\ seq[n] \in X
      BY <1>1, <2>2, <2>4
    <3>2. Right(n - 1)
      <4> HIDE DEF Right, N
      <4>. QED BY <1>1, <2>1, <2>2, <3>1
    <3>3. \A x : (\E k \in 1..n : seq[k] = x) <=> seq[n] = x \/ \E k \in 1..(n - 1) : seq[k] = x
      BY <3>1
    <3>4. CASE seq[n] \in ids
      <4>1. upto[n] = Append(upto[n - 1], seq[n])
        BY <1>7, <2>4, <3>1, <3>4
      <4>2. upto[n] \in Seq(X)
        BY <3>1, <3>2, <4>1
      <4>3. \A x : x \in ToSet(upto[n]) <=> x = seq[n] \/ x \in ToSet(upto[n - 1])
        BY <3>1, <3>2, <4>1, AppendRange
      <4>. QED BY <2>2, <3>2, <3>3, <3>4, <4>2, <4>3
    <3>5. CASE seq[n] \notin ids
      <4>1. upto[n] = upto[n - 1]
        BY <1>7, <2>4, <3>1, <3>5
      <4>. QED BY <2>2, <3>2, <3>3, <3>5, <4>1
    <3>. QED BY <3>4, <3>5
  <2>. QED BY <2>3, <2>4
<1>9. Right(N)
  <2> HIDE DEF Right, N
  <2>. QED BY <1>1, <1>8
<1>10. \A x : x \in ToSet(seq) <=> \E k \in 1..N : seq[k] = x
  BY DEF ToSet
<1> HIDE DEF N
<1>. QED BY <1>6, <1>9, <1>10
-----------------------------------------------------------------------------
(* The session of a queue.  A group waits in the ready list, runs, or has    *)
(* been tried or collected; one that is deferred or suppressed has a large   *)
(* parent that stands for it.                                                *)
Undecided == {"ready", "running", "awaiting", "admitted"}
Settled == {"running", "completed", "awaiting", "recovered", "released", "admitted"}
GroupStates == {"ready", "deferred", "suppressed"} \cup Settled
Fields == {"phase", "input", "linked", "state", "ready", "recovered", "completed", "published",
           "collect", "tried"}
Seen(q, id) == id \in q.tried \/ id \in ToSet(q.completed)

Sorted(q) ==
    /\ DOMAIN q = Fields /\ q.phase = "proving" /\ q.input \in DOMAIN Known
    /\ DOMAIN q.state \subseteq Known[q.input] /\ Apart(LargeIds \cap DOMAIN q.state)
    /\ q.state \in [DOMAIN q.state -> GroupStates]
    /\ q.ready \in Seq(Ids) /\ ToSet(q.ready) \subseteq DOMAIN q.state /\ q.completed \in Seq(Ids)
    /\ q.published \in Nat /\ q.published <= Len(q.completed)
    /\ q.recovered \subseteq DOMAIN q.state /\ q.recovered \subseteq ToSet(q.completed)

Accounted(q, id) ==
    /\ q.state[id] = "ready" => id \in ToSet(q.ready) \/ (id \notin LargeIds /\ Seen(q, id))
    /\ q.state[id] \in Settled => Seen(q, id)
    /\ q.state[id] = "deferred" =>
          Seen(q, id) \/ \E p \in Parent(id, DOMAIN q.state) : q.state[p] \in Undecided
    /\ q.state[id] = "suppressed" =>
          \E p \in Parent(id, DOMAIN q.state) : q.state[p] = "admitted"
    /\ q.state[id] = "awaiting" => id \in LargeIds /\ q.published < Len(q.completed)
    /\ id \in LargeIds => q.linked /\ (id \in q.recovered => q.state[id] # "ready")
InTurn(q, p) ==
    p \in LargeIds /\ q.state[p] \in Undecided => \A id \in Children(q, p) : q.state[id] # "ready"
Orderly(q) == Sorted(q) /\ \A id \in DOMAIN q.state : Accounted(q, id) /\ InTurn(q, id)

(* A group has at most one parent, and a large group none.                   *)
LEMMA OneParent ==
  ASSUME NEW q, Sorted(q), NEW id \in DOMAIN q.state
  PROVE  /\ \A p \in Parent(id, DOMAIN q.state) : p \in LargeIds /\ p \in DOMAIN q.state
         /\ \A p, r \in Parent(id, DOMAIN q.state) : p = r
         /\ id \in LargeIds => Parent(id, DOMAIN q.state) = {}
<1>1. q.input \in DOMAIN Known /\ DOMAIN q.state \subseteq Known[q.input] /\ DOMAIN q.state \subseteq Ids
  BY GroupsAreListed DEF Sorted
<1>2. Own[id] # {}
  BY <1>1, GroupsAreListed
<1>3. ASSUME NEW p \in Parent(id, DOMAIN q.state)
      PROVE  p \in LargeIds /\ p \in DOMAIN q.state /\ Own[id] \subseteq Own[p] /\ id # p
  BY <1>1, <1>3 DEF Parent, LargeIds
<1>4. ASSUME NEW p \in LargeIds \cap DOMAIN q.state, NEW r \in LargeIds \cap DOMAIN q.state,
             Own[id] \subseteq Own[p], Own[id] \subseteq Own[r]
      PROVE  p = r
  <2>1. Own[p] \cap Own[r] # {}
    BY <1>2, <1>4
  <2>. QED BY <1>1, <1>4, <2>1 DEF Sorted, Apart
<1>. QED BY <1>3, <1>4

LEMMA ChildHasParent ==
  ASSUME NEW q, NEW p
  PROVE  \A id : id \in Children(q, p) <=> id \in DOMAIN q.state /\ p \in Parent(id, DOMAIN q.state)
BY DEF Children

LEMMA InOrderOf ==
  ASSUME NEW ids, ids \subseteq Ids
  PROVE  InOrder(ids) \in Seq(Ids) /\ ToSet(InOrder(ids)) = ids
<1>1. ToSet(Order) = Ids
  BY DEF Ids
<1>2. Order \in Seq(Ids)
  BY GroupsAreListed
<1>3. /\ Filter(Order, ids) \in Seq(Ids)
      /\ \A x : x \in ToSet(Filter(Order, ids)) <=> x \in ToSet(Order) /\ x \in ids
  BY <1>2, FilterSelects
<1>. QED BY <1>1, <1>3 DEF InOrder

LEMMA JoinedRange ==
  ASSUME NEW X, NEW s \in Seq(X), NEW t \in Seq(X)
  PROVE  s \o t \in Seq(X) /\ \A x : x \in ToSet(s \o t) <=> x \in ToSet(s) \/ x \in ToSet(t)
<1>1. /\ s \o t \in Seq(X) /\ Len(s) \in Nat /\ Len(t) \in Nat
      /\ DOMAIN s = 1..Len(s) /\ DOMAIN t = 1..Len(t)
      /\ DOMAIN (s \o t) = 1..(Len(s) + Len(t))
      /\ \A i \in 1..Len(s) : (s \o t)[i] = s[i]
      /\ \A i \in 1..Len(t) : (s \o t)[Len(s) + i] = t[i]
  OBVIOUS
<1>2. ASSUME NEW i \in 1..(Len(s) + Len(t)), i \notin 1..Len(s)
      PROVE  i - Len(s) \in 1..Len(t) /\ Len(s) + (i - Len(s)) = i
  BY <1>1, <1>2
<1>3. \A i \in 1..Len(t) : Len(s) + i \in 1..(Len(s) + Len(t))
  BY <1>1
<1>4. \A i \in 1..Len(s) : i \in 1..(Len(s) + Len(t))
  BY <1>1
<1>5. ASSUME NEW x \in ToSet(s \o t) PROVE x \in ToSet(s) \/ x \in ToSet(t)
  <2>1. PICK i \in 1..(Len(s) + Len(t)) : (s \o t)[i] = x
    BY <1>1, <1>5 DEF ToSet
  <2>. QED BY <1>1, <1>2, <2>1 DEF ToSet
<1>6. ASSUME NEW x \in ToSet(s) PROVE x \in ToSet(s \o t)
  BY <1>1, <1>4, <1>6 DEF ToSet
<1>7. ASSUME NEW x \in ToSet(t) PROVE x \in ToSet(s \o t)
  BY <1>1, <1>3, <1>7 DEF ToSet
<1>. QED BY <1>1, <1>5, <1>6, <1>7

(* What a release of some parents' fallbacks changes.                        *)
LEMMA Released ==
  ASSUME NEW q, Sorted(q), NEW parents, NEW r, r = Release(q, parents)
  PROVE  /\ DOMAIN r = Fields /\ DOMAIN r.state = DOMAIN q.state /\ Sorted(r)
         /\ \A f \in Fields \ {"state", "ready"} : r[f] = q[f]
         /\ \A id \in DOMAIN q.state : r.state[id] =
               IF (\E p \in parents : id \in Children(q, p)) /\ q.state[id] \in {"deferred", "suppressed"}
               THEN "ready" ELSE q.state[id]
         /\ \A x : x \in ToSet(r.ready) <=> x \in ToSet(q.ready) \/ (x \in DOMAIN q.state /\
               (\E p \in parents : x \in Children(q, p)) /\ q.state[x] \in {"deferred", "suppressed"})
<1> DEFINE freed == {id \in UNION {Children(q, p) : p \in parents} :
                        q.state[id] \in {"deferred", "suppressed"}}
           state == [id \in DOMAIN q.state |-> IF id \in freed THEN "ready" ELSE q.state[id]]
<1>1. r = [q EXCEPT !.state = state, !.ready = q.ready \o InOrder(freed)]
  BY DEF Release, Sorted, Fields
<1>2. \A id : id \in freed <=> id \in DOMAIN q.state /\ (\E p \in parents : id \in Children(q, p))
                               /\ q.state[id] \in {"deferred", "suppressed"}
  BY DEF Children
<1>3. DOMAIN state = DOMAIN q.state /\ state \in [DOMAIN q.state -> GroupStates]
      /\ \A id \in DOMAIN q.state : state[id] = IF id \in freed THEN "ready" ELSE q.state[id]
  BY <1>2 DEF Sorted, GroupStates
<1>4. freed \subseteq Ids
  BY <1>2, GroupsAreListed DEF Sorted
<1> HIDE DEF freed, state
<1>5. /\ DOMAIN r = Fields /\ r.state = state /\ r.ready = q.ready \o InOrder(freed)
      /\ \A f \in Fields \ {"state", "ready"} : r[f] = q[f]
  BY <1>1 DEF Sorted, Fields
<1>6. r.ready \in Seq(Ids) /\ \A x : x \in ToSet(r.ready) <=> x \in ToSet(q.ready) \/ x \in freed
  BY <1>4, <1>5, InOrderOf, JoinedRange DEF Sorted
<1>7. /\ r.phase = q.phase /\ r.input = q.input /\ r.completed = q.completed
      /\ r.published = q.published /\ r.recovered = q.recovered
  BY <1>5 DEF Fields
<1>8. Sorted(r)
  <2>1. ToSet(r.ready) \subseteq DOMAIN r.state
    BY <1>2, <1>3, <1>5, <1>6 DEF Sorted
  <2>. QED BY <1>3, <1>5, <1>6, <1>7, <2>1 DEF Sorted
<1>. QED BY <1>2, <1>3, <1>5, <1>6, <1>8

(* What is left of the ready list when its first ready group is taken.       *)
FirstReady(q, i) == i \in Pending(q) /\ \A j \in Pending(q) : i <= j
Remains(q, i, rest) ==
         /\ q.ready[i] \in DOMAIN q.state /\ q.state[q.ready[i]] = "ready" /\ rest \in Seq(Ids)
         /\ \A x \in ToSet(rest) : x \in ToSet(q.ready)
         /\ \A x \in ToSet(q.ready) : q.state[x] = "ready" /\ x # q.ready[i] => x \in ToSet(rest)
LEMMA RestOfReady ==
  ASSUME NEW q, Sorted(q), NEW i, FirstReady(q, i)
  PROVE  Remains(q, i, SubSeq(q.ready, i + 1, Len(q.ready)))
<1> DEFINE rest == SubSeq(q.ready, i + 1, Len(q.ready))
<1>0. i \in Pending(q) /\ \A j \in Pending(q) : i <= j
  BY DEF FirstReady
<1>1. /\ q.ready \in Seq(Ids) /\ Len(q.ready) \in Nat /\ DOMAIN q.ready = 1..Len(q.ready)
      /\ i \in 1..Len(q.ready) /\ q.state[q.ready[i]] = "ready"
      /\ ToSet(q.ready) \subseteq DOMAIN q.state
  BY <1>0 DEF Sorted, Pending
<1>2. /\ rest \in Seq(Ids) /\ Len(rest) = Len(q.ready) - i /\ DOMAIN rest = 1..(Len(q.ready) - i)
      /\ \A j \in 1..(Len(q.ready) - i) : rest[j] = q.ready[i + j]
  BY <1>1
<1>3. q.ready[i] \in DOMAIN q.state
  BY <1>1 DEF ToSet
<1>4. ASSUME NEW x \in ToSet(rest) PROVE x \in ToSet(q.ready)
  <2>1. PICK j \in 1..(Len(q.ready) - i) : x = q.ready[i + j]
    BY <1>2, <1>4 DEF ToSet
  <2>2. i + j \in 1..Len(q.ready)
    BY <1>1
  <2>. QED BY <1>1, <2>1, <2>2 DEF ToSet
<1>5. ASSUME NEW x \in ToSet(q.ready), q.state[x] = "ready", x # q.ready[i]
      PROVE  x \in ToSet(rest)
  <2>1. PICK j \in 1..Len(q.ready) : x = q.ready[j]
    BY <1>1, <1>5 DEF ToSet
  <2>2. j \in Pending(q)
    BY <1>1, <1>5, <2>1 DEF Pending
  <2>3. j - i \in 1..(Len(q.ready) - i) /\ i + (j - i) = j
    BY <1>0, <1>1, <1>5, <2>1, <2>2
  <2>. QED BY <1>2, <2>1, <2>3 DEF ToSet
<1> HIDE DEF rest
<1>6. Remains(q, i, rest)
  BY <1>1, <1>2, <1>3, <1>4, <1>5 DEF Remains
<1>. QED BY <1>6 DEF rest

(* One group moves on, and does not leave its fallbacks without a parent.    *)
Advances(q, r, id) ==
    /\ DOMAIN r.state = DOMAIN q.state /\ r.linked = q.linked /\ r.recovered = q.recovered
    /\ r.published = q.published /\ Len(q.completed) <= Len(r.completed)
    /\ \A c \in DOMAIN q.state : /\ c # id => r.state[c] = q.state[c]
                                 /\ Seen(q, c) => Seen(r, c)
                                 /\ c # id /\ q.state[c] = "ready" /\ c \in ToSet(q.ready)
                                       => c \in ToSet(r.ready)
    /\ id \in LargeIds => (q.state[id] \in Undecided <=> r.state[id] \in Undecided)
    /\ q.state[id] = "admitted" => r.state[id] = "admitted"
    /\ r.state[id] = "ready" => q.state[id] = "ready"
LEMMA AdvanceKeeps ==
  ASSUME NEW q, Orderly(q), NEW id \in DOMAIN q.state, NEW r, Sorted(r), Advances(q, r, id),
         Accounted(r, id)
  PROVE  Orderly(r)
<1>1. Sorted(q) /\ \A c \in DOMAIN q.state : Accounted(q, c) /\ InTurn(q, c)
  BY DEF Orderly
<1>2. ASSUME NEW c \in DOMAIN q.state, c # id PROVE Accounted(r, c)
  <2>1. Accounted(q, c) /\ r.state[c] = q.state[c] /\ (Seen(q, c) => Seen(r, c))
        /\ (q.state[c] = "ready" /\ c \in ToSet(q.ready) => c \in ToSet(r.ready))
    BY <1>1, <1>2 DEF Advances
  <2>2. \A p \in Parent(c, DOMAIN q.state) :
            /\ q.state[p] \in Undecided => r.state[p] \in Undecided
            /\ q.state[p] = "admitted" => r.state[p] = "admitted"
    BY <1>1, OneParent DEF Advances
  <2>3. DOMAIN r.state = DOMAIN q.state /\ r.linked = q.linked /\ r.recovered = q.recovered
    BY DEF Advances
  <2>4. q.published < Len(q.completed) => r.published < Len(r.completed)
    BY <1>1 DEF Advances, Sorted
  <2>. QED BY <2>1, <2>2, <2>3, <2>4 DEF Accounted
<1>3. ASSUME NEW p \in DOMAIN q.state, p \in LargeIds, r.state[p] \in Undecided,
             NEW c \in Children(r, p), r.state[c] = "ready"
      PROVE  FALSE
  <2>1. q.state[p] \in Undecided
    BY <1>3 DEF Advances
  <2>2. c \in DOMAIN q.state /\ c \in Children(q, p) /\ q.state[c] = "ready"
    BY <1>3 DEF Advances, Children
  <2>. QED BY <1>1, <1>3, <2>1, <2>2 DEF InTurn
<1>4. \A p \in DOMAIN q.state : InTurn(r, p)
  BY <1>3 DEF InTurn
<1>. QED BY <1>2, <1>4 DEF Orderly, Advances

(* A large group is lost: its fallbacks become ready.                        *)
LEMMA LossKeeps ==
  ASSUME NEW q, Orderly(q), NEW id \in DOMAIN q.state, NEW lost, Sorted(lost),
         Advances([q EXCEPT !.state[id] = "released"], lost, id), lost.state[id] = "released",
         Seen(lost, id), id \in LargeIds, NEW r, r = Release(lost, {id})
  PROVE  Orderly(r)
<1>1. Sorted(q) /\ \A c \in DOMAIN q.state : Accounted(q, c) /\ InTurn(q, c)
  BY DEF Orderly
<1>2. /\ DOMAIN lost.state = DOMAIN q.state /\ lost.linked = q.linked
      /\ lost.recovered = q.recovered /\ lost.published = q.published
      /\ Len(q.completed) <= Len(lost.completed)
      /\ \A c \in DOMAIN q.state : /\ c # id => lost.state[c] = q.state[c]
                                   /\ Seen(q, c) => Seen(lost, c)
                                   /\ c # id /\ q.state[c] = "ready" /\ c \in ToSet(q.ready)
                                         => c \in ToSet(lost.ready)
  BY <1>1 DEF Advances, Sorted, Fields, Seen
<1>3. /\ DOMAIN r.state = DOMAIN q.state /\ Sorted(r) /\ r.linked = q.linked
      /\ r.recovered = q.recovered /\ r.published = q.published /\ r.completed = lost.completed
      /\ r.tried = lost.tried
      /\ \A c \in DOMAIN q.state : r.state[c] =
            IF c \in Children(lost, id) /\ lost.state[c] \in {"deferred", "suppressed"}
            THEN "ready" ELSE lost.state[c]
      /\ \A x : x \in ToSet(r.ready) <=> x \in ToSet(lost.ready) \/ (x \in DOMAIN q.state /\
            x \in Children(lost, id) /\ lost.state[x] \in {"deferred", "suppressed"})
  BY <1>2, Released DEF Fields
<1>4. ASSUME NEW c \in DOMAIN q.state
      PROVE  /\ c \in Children(lost, id) <=> id \in Parent(c, DOMAIN q.state)
             /\ c \in LargeIds => c \notin Children(lost, id) /\ Parent(c, DOMAIN q.state) = {}
             /\ Seen(r, c) <=> Seen(lost, c)
  BY <1>1, <1>2, <1>3, OneParent DEF Children, Seen
<1>5. ASSUME NEW c \in DOMAIN q.state PROVE Accounted(r, c)
  <2>1. CASE c = id
    BY <1>1, <1>2, <1>3, <1>4, <2>1 DEF Accounted, Settled
  <2>2. CASE c # id /\ c \in Children(lost, id) /\ lost.state[c] \in {"deferred", "suppressed"}
    <3>1. r.state[c] = "ready" /\ c \in ToSet(r.ready) /\ c \notin LargeIds
      BY <1>3, <1>4, <2>2
    <3>. QED BY <3>1 DEF Accounted, Settled
  <2>3. CASE c # id /\ ~(c \in Children(lost, id) /\ lost.state[c] \in {"deferred", "suppressed"})
    <3>1. r.state[c] = q.state[c] /\ Accounted(q, c) /\ (Seen(q, c) => Seen(r, c))
      BY <1>1, <1>2, <1>3, <1>4, <2>3
    <3>2. ASSUME NEW p \in Parent(c, DOMAIN q.state), q.state[c] \in {"deferred", "suppressed"}
          PROVE  r.state[p] = q.state[p]
      <4>1. p # id /\ p \in DOMAIN q.state /\ p \in LargeIds
        BY <1>1, <1>2, <1>4, <2>3, <3>2, OneParent
      <4>. QED BY <1>2, <1>3, <1>4, <4>1
    <3>3. q.published < Len(q.completed) => r.published < Len(r.completed)
      BY <1>1, <1>2, <1>3 DEF Sorted
    <3>4. q.state[c] = "ready" /\ c \in ToSet(q.ready) => c \in ToSet(r.ready)
      BY <1>2, <1>3, <2>3
    <3>. QED BY <1>2, <1>3, <3>1, <3>2, <3>3, <3>4 DEF Accounted
  <2>. QED BY <2>1, <2>2, <2>3
<1>6. ASSUME NEW p \in DOMAIN q.state, p \in LargeIds, r.state[p] \in Undecided,
             NEW c \in Children(r, p), r.state[c] = "ready"
      PROVE  FALSE
  <2>1. c \in DOMAIN q.state /\ p \in Parent(c, DOMAIN q.state) /\ c \notin LargeIds
    BY <1>1, <1>3, <1>6, OneParent DEF Children
  <2>2. p # id
    BY <1>3, <1>4, <1>6 DEF Undecided
  <2>3. id \notin Parent(c, DOMAIN q.state)
    BY <1>1, <2>1, <2>2, OneParent
  <2>4. q.state[c] = "ready" /\ q.state[p] = r.state[p]
    BY <1>2, <1>3, <1>4, <1>6, <2>1, <2>2, <2>3
  <2>. QED BY <1>1, <1>6, <2>1, <2>4 DEF InTurn, Children
<1>7. \A p \in DOMAIN q.state : InTurn(r, p)
  BY <1>6 DEF InTurn
<1>. QED BY <1>3, <1>5, <1>7 DEF Orderly

(* What a collect found decides every large group that awaits it.            *)
Drained(q) == \A id \in DOMAIN q.state : q.state[id] # "running"
Reconciled(q, validated) == [Reconcile(q, validated) EXCEPT !.published = Len(q.completed),
                                                            !.recovered = @ \cap validated]
LEMMA ReconcileKeeps ==
  ASSUME NEW q, Orderly(q), Drained(q),
         NEW validated, validated \subseteq ToSet(q.completed),
         NEW r, r = Reconciled(q, validated)
  PROVE  Orderly(r) /\ r.input = q.input /\ r.completed = q.completed /\ Drained(r)
<1> USE DEF Drained, Reconciled
<1> DEFINE dom == DOMAIN q.state
           parents == {id \in dom : Kind[id] = "large"}
           stale == {id \in q.recovered \ parents : id \notin validated}
           again == {id \in stale : Parent(id, parents) = {}}
           admitted == parents \cap validated
           lost == {id \in parents \ validated : q.state[id] \in {"awaiting", "admitted"}}
           kept(id) == IF id \in stale THEN IF id \in again THEN "ready" ELSE "deferred"
                       ELSE IF id \in validated THEN "completed" ELSE q.state[id]
           after == [id \in dom |->
                IF id \in admitted THEN "admitted"
                ELSE IF id \in lost THEN "released"
                ELSE IF id \in parents THEN q.state[id]
                ELSE IF Parent(id, admitted) # {} /\ kept(id) \in {"deferred", "ready"}
                     THEN "suppressed" ELSE kept(id)]
           moved == [q EXCEPT !.state = after, !.ready = q.ready \o InOrder(again),
                              !.collect = FALSE]
<1>1. Sorted(q) /\ \A c \in dom : Accounted(q, c) /\ InTurn(q, c)
  BY DEF Orderly
<1>2. Len(q.completed) \in Nat
  BY <1>1 DEF Sorted
<1>3. Reconcile(q, validated) = IF ~q.linked THEN q ELSE Release(moved, lost)
  BY <1>1 DEF Reconcile, Sorted, Fields
<1>4. CASE ~q.linked
  <2>1. /\ r = [q EXCEPT !.published = Len(q.completed), !.recovered = q.recovered \cap validated]
        /\ DOMAIN q = Fields
    BY <1>1, <1>3, <1>4 DEF Sorted, Fields
  <2>2. /\ DOMAIN r = Fields /\ r.phase = q.phase /\ r.input = q.input /\ r.state = q.state
        /\ r.ready = q.ready /\ r.completed = q.completed /\ r.linked = q.linked
        /\ r.tried = q.tried /\ r.published = Len(q.completed)
        /\ r.recovered = q.recovered \cap validated
    BY <2>1 DEF Fields
  <2>3. Sorted(r)
    <3>1. Apart(LargeIds \cap DOMAIN r.state)
      <4>1. Apart(LargeIds \cap DOMAIN q.state) /\ r.state = q.state
        BY <1>1, <2>2 DEF Sorted
      <4>. QED BY <4>1
    <3>. QED BY <1>1, <1>2, <2>2, <3>1 DEF Sorted
  <2>4. ASSUME NEW c \in dom PROVE Accounted(r, c) /\ InTurn(r, c)
    <3>1. c \notin LargeIds /\ q.state[c] # "awaiting"
      BY <1>1, <1>4 DEF Accounted
    <3>. QED BY <1>1, <2>2, <3>1 DEF Accounted, InTurn, Seen
  <2>. QED BY <2>2, <2>3, <2>4 DEF Orderly
<1>5. CASE q.linked
  <2>1. /\ dom \subseteq Ids /\ q.recovered \subseteq dom
        /\ \A id \in dom : id \in parents <=> id \in LargeIds
    BY <1>1, GroupsAreListed DEF Sorted, LargeIds
  <2>2. again \subseteq dom /\ again \subseteq Ids /\ again \cap parents = {}
    BY <2>1
  <2>3. after \in [dom -> GroupStates]
    BY <1>1 DEF Sorted, GroupStates, Settled
  <2>4. ASSUME NEW id \in dom
        PROVE  \A p : /\ p \in Parent(id, parents) <=> p \in Parent(id, dom)
                      /\ p \in Parent(id, admitted) <=> p \in Parent(id, dom) /\ p \in validated
    BY DEF Parent
  <2>5. ASSUME NEW c \in dom, c \in LargeIds
        PROVE  after[c] = IF c \in validated THEN "admitted"
                          ELSE IF q.state[c] \in {"awaiting", "admitted"} THEN "released"
                          ELSE q.state[c]
    BY <2>1, <2>5
  <2>6. ASSUME NEW c \in dom, c \notin LargeIds
        PROVE  /\ after[c] = IF Parent(c, admitted) # {} /\ kept(c) \in {"deferred", "ready"}
                             THEN "suppressed" ELSE kept(c)
               /\ c \in stale <=> c \in q.recovered /\ c \notin validated
    BY <2>1, <2>6
  <2>7. \A p : p \in lost <=> p \in dom /\ p \in LargeIds /\ p \notin validated
                              /\ q.state[p] \in {"awaiting", "admitted"}
    BY <2>1
  <2>8. \A c : c \in again <=> c \in stale /\ Parent(c, dom) = {}
    BY <2>1, <2>4
  <2>9. \A c : c \in ToSet(q.ready \o InOrder(again)) <=> c \in ToSet(q.ready) \/ c \in again
    <3> HIDE DEF again
    <3>. QED BY <1>1, <2>2, InOrderOf, JoinedRange DEF Sorted
  <2>10. q.ready \o InOrder(again) \in Seq(Ids)
    <3> HIDE DEF again
    <3>. QED BY <1>1, <2>2, InOrderOf, JoinedRange DEF Sorted
  <2> HIDE DEF after, again, stale, lost, admitted, parents
  <2>11. /\ DOMAIN moved = Fields /\ moved.state = after /\ moved.ready = q.ready \o InOrder(again)
         /\ \A f \in Fields \ {"state", "ready", "collect"} : moved[f] = q[f]
    BY <1>1 DEF Sorted, Fields
  <2> HIDE DEF moved
  <2>12. Sorted(moved)
    <3>1. /\ moved.phase = q.phase /\ moved.input = q.input /\ moved.completed = q.completed
          /\ moved.published = q.published /\ moved.recovered = q.recovered
      BY <2>11 DEF Fields
    <3>2. DOMAIN after = dom /\ after \in [DOMAIN after -> GroupStates]
      BY <2>3
    <3>3. ToSet(moved.ready) \subseteq dom
      BY <1>1, <2>2, <2>9, <2>11 DEF Sorted
    <3>. QED BY <1>1, <2>10, <2>11, <3>1, <3>2, <3>3 DEF Sorted
  <2>13. DOMAIN moved.state = dom
    BY <2>3, <2>11
  <2> DEFINE s == Release(moved, lost)
  <2>24. s = Release(moved, lost)
    OBVIOUS
  <2> HIDE DEF s
  <2>14. /\ DOMAIN s = Fields /\ DOMAIN s.state = dom /\ Sorted(s)
         /\ \A f \in Fields \ {"state", "ready"} : s[f] = moved[f]
         /\ \A id \in dom : s.state[id] =
               IF (\E p \in lost : id \in Children(moved, p)) /\ after[id] \in {"deferred", "suppressed"}
               THEN "ready" ELSE after[id]
         /\ \A x : x \in ToSet(s.ready) <=> x \in ToSet(moved.ready) \/ (x \in dom /\
               (\E p \in lost : x \in Children(moved, p)) /\ after[x] \in {"deferred", "suppressed"})
    <3>1. /\ DOMAIN s = Fields /\ DOMAIN s.state = DOMAIN moved.state /\ Sorted(s)
          /\ \A f \in Fields \ {"state", "ready"} : s[f] = moved[f]
          /\ \A id \in DOMAIN moved.state : s.state[id] =
                IF (\E p \in lost : id \in Children(moved, p))
                   /\ moved.state[id] \in {"deferred", "suppressed"}
                THEN "ready" ELSE moved.state[id]
          /\ \A x : x \in ToSet(s.ready) <=> x \in ToSet(moved.ready) \/ (x \in DOMAIN moved.state /\
                (\E p \in lost : x \in Children(moved, p))
                /\ moved.state[x] \in {"deferred", "suppressed"})
      BY <2>12, <2>24, Released
    <3>. QED BY <2>11, <2>13, <3>1
  <2>15. r = [s EXCEPT !.published = Len(q.completed), !.recovered = s.recovered \cap validated]
    <3>1. Reconcile(q, validated) = s
      BY <1>3, <1>5, <2>24
    <3>. QED BY <2>14, <3>1 DEF Fields
  <2>16. /\ DOMAIN r = Fields /\ r.phase = s.phase /\ r.input = s.input /\ r.state = s.state
         /\ r.ready = s.ready /\ r.completed = q.completed /\ r.linked = q.linked /\ r.input = q.input
         /\ r.tried = q.tried /\ r.published = Len(q.completed)
         /\ r.recovered = q.recovered \cap validated /\ s.recovered = q.recovered
         /\ s.completed = q.completed
    <3>1. /\ DOMAIN r = Fields /\ \A f \in Fields \ {"published", "recovered"} : r[f] = s[f]
          /\ r.published = Len(q.completed) /\ r.recovered = s.recovered \cap validated
      BY <2>14, <2>15 DEF Fields
    <3>2. \A f \in Fields \ {"state", "ready", "collect"} : s[f] = q[f]
      BY <2>11, <2>14
    <3>. QED BY <3>1, <3>2 DEF Fields
  <2>17. Sorted(r)
    <3>1. Apart(LargeIds \cap DOMAIN r.state)
      <4>1. Apart(LargeIds \cap DOMAIN s.state) /\ r.state = s.state
        BY <2>14, <2>16 DEF Sorted
      <4>. QED BY <4>1
    <3>. QED BY <1>1, <1>2, <2>14, <2>16, <3>1 DEF Sorted
  <2>18. \A c \in dom : Seen(r, c) <=> Seen(q, c)
    BY <2>16 DEF Seen
  <2>19. ASSUME NEW c \in dom
         PROVE  (\E p \in lost : c \in Children(moved, p)) <=> \E p \in Parent(c, dom) : p \in lost
    BY <2>13 DEF Children
  <2>20. ASSUME NEW c \in dom, c \in LargeIds
         PROVE  /\ r.state[c] = after[c] /\ Parent(c, dom) = {}
                /\ Accounted(r, c) /\ r.state[c] # "running"
    <3>1. Parent(c, dom) = {}
      BY <1>1, <2>20, OneParent
    <3>2. r.state[c] = after[c]
      BY <2>14, <2>16, <2>19, <3>1
    <3>3. Accounted(q, c) /\ q.state[c] # "running"
      BY <1>1
    <3>4. c \in validated => Seen(q, c)
      BY DEF Seen
    <3>5. c \in ToSet(q.ready) => c \in ToSet(r.ready)
      BY <2>9, <2>11, <2>14, <2>16
    <3>6. after[c] = IF c \in validated THEN "admitted"
                     ELSE IF q.state[c] \in {"awaiting", "admitted"} THEN "released"
                     ELSE q.state[c]
      BY <2>5, <2>20
    <3>7. r.state[c] \in Settled => Seen(r, c)
      BY <2>18, <3>2, <3>3, <3>4, <3>6 DEF Accounted, Settled
    <3>8. r.state[c] = "deferred" => Seen(r, c)
      BY <2>18, <3>1, <3>2, <3>3, <3>6 DEF Accounted
    <3>9. r.state[c] # "suppressed" /\ r.state[c] # "awaiting" /\ r.state[c] # "running"
      BY <3>1, <3>2, <3>3, <3>6 DEF Accounted
    <3>10. r.state[c] = "ready" => c \in ToSet(r.ready) /\ c \notin r.recovered
      BY <2>16, <2>20, <3>2, <3>3, <3>5, <3>6 DEF Accounted
    <3>. QED BY <1>5, <2>16, <3>1, <3>2, <3>7, <3>8, <3>9, <3>10 DEF Accounted
  <2>21. ASSUME NEW c \in dom, c \notin LargeIds PROVE Accounted(r, c) /\ r.state[c] # "running"
    <3>1. Accounted(q, c) /\ q.state[c] # "running" /\ q.state[c] # "awaiting"
      BY <1>1, <2>21 DEF Accounted
    <3>2. (c \in validated => Seen(q, c)) /\ (c \in q.recovered => Seen(q, c))
      BY <1>1 DEF Seen, Sorted
    <3>3. \A p \in Parent(c, dom) : p \in LargeIds /\ p \in dom
      BY <1>1, OneParent
    <3>4. CASE \E p \in Parent(c, dom) : p \in lost
      <4>1. CASE after[c] \in {"deferred", "suppressed"}
        <5>1. r.state[c] = "ready" /\ c \in ToSet(r.ready)
          BY <2>14, <2>16, <2>19, <3>4, <4>1
        <5>. QED BY <2>21, <5>1 DEF Accounted, Settled
      <4>2. CASE after[c] \notin {"deferred", "suppressed"}
        <5>1. r.state[c] = after[c] /\ after[c] = kept(c)
          BY <2>6, <2>14, <2>16, <2>21, <4>2
        <5>2. c \in ToSet(q.ready) \/ c \in again => c \in ToSet(r.ready)
          BY <2>9, <2>11, <2>14, <2>16
        <5>. QED BY <2>6, <2>18, <2>21, <3>1, <3>2, <4>2, <5>1, <5>2 DEF Accounted, Settled
      <4>. QED BY <4>1, <4>2
    <3>5. CASE ~\E p \in Parent(c, dom) : p \in lost
      <4>1. r.state[c] = after[c]
        BY <2>14, <2>16, <2>19, <3>5
      <4>2. c \in ToSet(q.ready) \/ c \in again => c \in ToSet(r.ready)
        BY <2>9, <2>11, <2>14, <2>16
      <4>3. ASSUME NEW p \in Parent(c, dom)
            PROVE  /\ r.state[p] = IF p \in validated THEN "admitted" ELSE q.state[p]
                   /\ p \notin validated => q.state[p] # "admitted"
        BY <2>5, <2>7, <2>20, <3>3, <3>5, <4>3
      <4>4. CASE Parent(c, admitted) # {} /\ kept(c) \in {"deferred", "ready"}
        <5>1. PICK p \in Parent(c, dom) : p \in validated
          BY <2>4, <4>4
        <5>2. r.state[p] = "admitted" /\ r.state[c] = "suppressed"
          BY <2>6, <2>21, <4>1, <4>3, <4>4, <5>1
        <5>. QED BY <2>14, <2>16, <2>21, <5>2 DEF Accounted, Settled
      <4>5. CASE ~(Parent(c, admitted) # {} /\ kept(c) \in {"deferred", "ready"})
        <5>1. r.state[c] = kept(c)
          BY <2>6, <2>21, <4>1, <4>5
        <5>2. ASSUME NEW p \in Parent(c, dom), q.state[p] \in Undecided PROVE r.state[p] \in Undecided
          BY <4>3, <5>2 DEF Undecided
        <5>3. ASSUME NEW p \in Parent(c, dom), q.state[p] = "admitted" PROVE r.state[p] = "admitted"
          BY <4>3, <5>3
        <5>. QED BY <2>6, <2>14, <2>16, <2>18, <2>21, <3>1, <3>2, <4>2, <5>1, <5>2, <5>3
                 DEF Accounted, Settled
      <4>. QED BY <4>4, <4>5
    <3>. QED BY <3>4, <3>5
  <2>22. ASSUME NEW p \in dom, p \in LargeIds, r.state[p] \in Undecided,
                NEW c \in Children(r, p), r.state[c] = "ready"
         PROVE  FALSE
    <3>1. c \in dom /\ p \in Parent(c, dom) /\ c \notin LargeIds
      BY <1>1, <2>14, <2>16, OneParent DEF Children
    <3>2. r.state[p] = after[p] /\ p \notin lost
      BY <2>5, <2>7, <2>20, <2>22 DEF Undecided
    <3>3. \A x \in Parent(c, dom) : x \notin lost
      BY <1>1, <3>1, <3>2, OneParent
    <3>4. after[c] = "ready"
      BY <2>14, <2>16, <2>19, <2>22, <3>1, <3>3
    <3>5. kept(c) = "ready" /\ Parent(c, admitted) = {}
      BY <2>6, <3>1, <3>4
    <3>6. p \notin validated
      BY <2>4, <3>1, <3>5
    <3>7. q.state[c] = "ready"
      BY <2>8, <3>1, <3>5
    <3>8. q.state[p] \in Undecided
      BY <2>5, <2>22, <3>2, <3>6 DEF Undecided
    <3>. QED BY <1>1, <2>22, <3>1, <3>7, <3>8 DEF InTurn, Children
  <2>23. \A p \in dom : InTurn(r, p)
    BY <2>22 DEF InTurn
  <2>. QED BY <2>14, <2>16, <2>17, <2>20, <2>21, <2>23 DEF Orderly
<1>. QED BY <1>4, <1>5

(* A new plan: its large groups come first, and stand for their fallbacks.   *)
LEMMA PlanIsOrderly ==
  ASSUME Plan, input \in DOMAIN Known
  PROVE  Orderly(queue') /\ queue'.input = input /\ plan'.input = input
         /\ \A id \in DOMAIN queue'.state : queue'.state[id] # "running"
<1> DEFINE sel == Reused
           large == Large(sel, Recovered)
           hinted == {id \in Recovered : Kind[id] # "large" \/ id \in large}
           groups == {id \in Known[input] : Wanted(sel, id)} \cup hinted \cup large
           child(id) == Parent(id, large) # {}
           state(id) == IF id \in hinted
                        THEN IF id \in large THEN "awaiting"
                             ELSE IF large # {} THEN "recovered" ELSE "ready"
                        ELSE IF child(id) THEN "deferred" ELSE "ready"
           ready == {id \in groups \ large : ~child(id)}
           q == [phase |-> "proving", input |-> input, linked |-> large # {},
                 state |-> [id \in groups |-> state(id)],
                 ready |-> InOrder(large) \o InOrder(ready),
                 recovered |-> hinted, completed |-> InOrder(hinted),
                 published |-> 0, collect |-> hinted \cap large # {}, tried |-> {}]
<1>1. queue' = q /\ plan'.input = input
  BY DEF Plan
<1>0. Apart(large)
  BY DEF Plan
<1>2. Known[input] \subseteq Ids
  BY GroupsAreListed
<1>3. /\ large \subseteq Known[input] /\ hinted \subseteq Known[input]
      /\ large \subseteq groups /\ hinted \subseteq groups /\ ready \subseteq groups
      /\ groups \subseteq Known[input]
  BY DEF Large, Recovered, LargeIds
<1>4. \A id \in groups : id \in large <=> id \in LargeIds
  BY <1>2, <1>3 DEF Wanted, Large, LargeIds
<1>5. \A id \in groups : id \in ready <=> id \notin large /\ ~child(id)
  OBVIOUS
<1> DEFINE states == [id \in groups |-> state(id)]
<1>6. \A id \in groups : states[id] = state(id)
  OBVIOUS
<1>7. states \in [groups -> GroupStates] /\ DOMAIN states = groups
  BY DEF GroupStates, Settled
<1> HIDE DEF large, hinted, groups, ready, sel, states
<1>8. /\ DOMAIN q = Fields /\ q.phase = "proving" /\ q.input = input /\ q.state = states
      /\ q.ready = InOrder(large) \o InOrder(ready) /\ q.recovered = hinted
      /\ q.completed = InOrder(hinted) /\ q.published = 0 /\ q.tried = {}
      /\ q.linked = (large # {})
  BY DEF Fields, states
<1> HIDE DEF q
<1>9. /\ InOrder(hinted) \in Seq(Ids) /\ ToSet(InOrder(hinted)) = hinted
      /\ InOrder(large) \in Seq(Ids) /\ ToSet(InOrder(large)) = large
      /\ InOrder(ready) \in Seq(Ids) /\ ToSet(InOrder(ready)) = ready
  <2>1. hinted \subseteq Ids /\ large \subseteq Ids /\ ready \subseteq Ids
    BY <1>2, <1>3
  <2>. QED BY <2>1, InOrderOf
<1>10. q.ready \in Seq(Ids) /\ \A x : x \in ToSet(q.ready) <=> x \in large \/ x \in ready
  BY <1>8, <1>9, JoinedRange
<1>11. Sorted(q)
  <2>1. ToSet(q.ready) \subseteq groups
    BY <1>3, <1>10
  <2>2. Len(q.completed) \in Nat
    BY <1>8, <1>9
  <2>3. q.published \in Nat /\ q.published <= Len(q.completed)
    BY <1>8, <2>2
  <2>4. LargeIds \cap groups = large /\ DOMAIN q.state = groups
    BY <1>3, <1>4, <1>7, <1>8
  <2>. QED BY <1>0, <1>3, <1>7, <1>8, <1>9, <1>10, <2>1, <2>3, <2>4 DEF Sorted
<1>12. ASSUME NEW id \in groups
       PROVE  /\ \A p : p \in Parent(id, groups) <=> p \in Parent(id, large)
              /\ \A p \in Parent(id, groups) : p \in large /\ p \in groups
              /\ id \in large => ~child(id)
  <2>1. \A p : p \in Parent(id, groups) <=> p \in Parent(id, large)
    BY <1>2, <1>3, <1>4 DEF Parent, LargeIds
  <2>2. /\ id \in large => Parent(id, groups) = {}
        /\ \A p \in Parent(id, groups) : p \in LargeIds /\ p \in groups
    BY <1>4, <1>7, <1>8, <1>11, <1>12, OneParent
  <2>. QED BY <1>4, <2>1, <2>2
<1>13. \A c \in groups : Seen(q, c) <=> c \in hinted
  BY <1>8, <1>9 DEF Seen
<1>14. \A p \in large : states[p] \in Undecided
  BY <1>3, <1>6, <1>12 DEF Undecided
<1>15. ASSUME NEW c \in groups PROVE Accounted(q, c)
  <2>1. q.state[c] = "awaiting" => c \in large /\ c \in hinted
    BY <1>6, <1>8
  <2>2. c \in hinted => q.published < Len(q.completed)
    <3>1. Len(InOrder(hinted)) \in Nat /\ DOMAIN InOrder(hinted) = 1..Len(InOrder(hinted))
      BY <1>9
    <3>2. c \in hinted => \E i \in 1..Len(InOrder(hinted)) : InOrder(hinted)[i] = c
      BY <1>9, <3>1 DEF ToSet
    <3>. QED BY <1>8, <3>1, <3>2
  <2>3. q.state[c] = "deferred" => \E p \in Parent(c, groups) : q.state[p] \in Undecided
    BY <1>6, <1>8, <1>12, <1>14
  <2>4. q.state[c] = "ready" => c \in ToSet(q.ready) \/ (c \notin large /\ c \in hinted)
    BY <1>5, <1>6, <1>8, <1>10
  <2>5. q.state[c] \in Settled => c \in hinted
    BY <1>6, <1>8 DEF Settled
  <2>6. q.state[c] # "suppressed"
    BY <1>6, <1>8
  <2>7. c \in large => q.linked /\ (c \in q.recovered => q.state[c] # "ready")
    BY <1>6, <1>8
  <2>. QED BY <1>4, <1>7, <1>8, <1>13, <2>1, <2>2, <2>3, <2>4, <2>5, <2>6, <2>7 DEF Accounted
<1>16. ASSUME NEW p \in groups, p \in LargeIds, NEW c \in Children(q, p) PROVE q.state[c] # "ready"
  <2>1. c \in groups /\ p \in Parent(c, groups)
    BY <1>7, <1>8 DEF Children
  <2>2. child(c) /\ c \notin large /\ large # {}
    BY <1>12, <2>1
  <2>. QED BY <1>6, <1>8, <2>1, <2>2
<1>17. Orderly(q)
  BY <1>7, <1>8, <1>11, <1>15, <1>16 DEF Orderly, InTurn
<1>18. \A id \in groups : states[id] # "running"
  BY <1>6
<1>. QED BY <1>1, <1>7, <1>8, <1>17, <1>18

-----------------------------------------------------------------------------
(* The session and its jobs: a group runs just when its worker does, and a   *)
(* collect runs alone, over what was completed when it started.              *)
Jobs == {"kind", "stage", "todo", "done", "validated", "catalog"}
QueueComplete(q) == \A id \in DOMAIN q.state :
    \/ id \in q.tried \cup ToSet(q.completed)
    \/ \E p \in Parent(id, DOMAIN q.state) : q.state[p] = "admitted"
Collecting(c, q) ==
    /\ DOMAIN c = Jobs /\ c.done = q.completed /\ c.validated \subseteq ToSet(q.completed)
    /\ c.stage = "completed" => c.todo \in Seq(Ids) /\ ToSet(c.todo) \subseteq ToSet(q.completed)

Sessions ==
    /\ input \in DOMAIN Known /\ queue.phase \in {"finished", "planning", "proving"}
    /\ DOMAIN workers = Ids
    /\ \A id \in Ids : workers[id] # "none" => queue.phase = "proving" /\ id \in DOMAIN queue.state
    /\ queue.phase = "proving" =>
          /\ Orderly(queue) /\ plan.input = queue.input
          /\ \A id \in DOMAIN queue.state : queue.state[id] = "running" <=> workers[id] # "none"
    /\ queue.phase = "finished" /\ queue.reason = "queue-complete" => QueueComplete(queue)
Collects ==
    collector # None => /\ queue.phase = "proving" /\ \A id \in Ids : workers[id] = "none"
                        /\ Collecting(collector, queue)
QueueInv == Sessions /\ Collects

LEMMA InitQueue == Init => QueueInv
BY GroupsAreListed DEF Init, QueueInv, Sessions, Collects, Finished

LEMMA QueueUntouched ==
  ASSUME QueueInv, UNCHANGED <<queue, workers, collector, plan>>, input' \in DOMAIN Known
  PROVE  QueueInv'
BY DEF QueueInv, Sessions, Collects

(* A session that ends or plans has no jobs.                                 *)
LEMMA QueueIdles ==
  ASSUME QueueInv, UNCHANGED input, DOMAIN workers' = Ids, \A id \in Ids : workers'[id] = "none",
         collector' = None, queue'.phase \in {"finished", "planning"},
         queue'.phase = "finished" => queue'.reason # "queue-complete"
  PROVE  QueueInv'
BY DEF QueueInv, Sessions, Collects

LEMMA NoJobs ==
  ASSUME QueueInv, queue.phase # "proving"
  PROVE  collector = None /\ \A id \in Ids : workers[id] = "none"
BY DEF QueueInv, Sessions, Collects

LEMMA EndStep ==
  ASSUME QueueInv, Quit \/ Start \/ PlanFails PROVE QueueInv'
<1>1. CASE Quit
  BY <1>1, QueueIdles DEF Quit, Finished, Fault
<1>2. CASE Start
  <2>1. queue'.phase = "planning" /\ UNCHANGED <<input, workers, collector>>
    BY <1>2 DEF Start, environment, collecting
  <2>. QED BY <1>2, <2>1, NoJobs, QueueIdles DEF Start, QueueInv, Sessions
<1>3. CASE PlanFails
  <2>1. queue' = Finished("invalid-proof-plan") /\ UNCHANGED <<input, workers, collector>>
    BY <1>3 DEF PlanFails, environment, collecting, Fault
  <2>2. queue'.phase = "finished" /\ queue'.reason # "queue-complete"
    BY <2>1 DEF Finished
  <2>. QED BY <1>3, <2>1, <2>2, NoJobs, QueueIdles DEF PlanFails, QueueInv, Sessions
<1>. QED BY <1>1, <1>2, <1>3

LEMMA PlanStep == ASSUME QueueInv, Plan PROVE QueueInv'
<1>1. /\ queue.phase = "planning" /\ UNCHANGED <<input, workers, collector>> /\ input \in DOMAIN Known
      /\ DOMAIN workers = Ids
  BY DEF Plan, environment, collecting, QueueInv, Sessions
<1>2. /\ Orderly(queue') /\ queue'.input = input /\ plan'.input = input
      /\ \A id \in DOMAIN queue'.state : queue'.state[id] # "running"
  BY <1>1, PlanIsOrderly
<1>3. queue'.phase = "proving" /\ DOMAIN queue'.state \subseteq Ids
  BY <1>2, GroupsAreListed DEF Orderly, Sorted
<1>4. collector' = None /\ \A id \in Ids : workers'[id] = "none"
  BY <1>1, NoJobs
<1>. QED BY <1>1, <1>2, <1>3, <1>4 DEF QueueInv, Sessions, Collects

(* A queue that reports itself complete has taken care of every group.       *)
LEMMA CompleteStep == ASSUME QueueInv, Complete PROVE QueueInv'
<1>1. /\ queue.phase = "proving" /\ collector = None /\ UNCHANGED <<input, workers, collector>>
      /\ \A id \in Ids : workers[id] = "none"
      /\ Orderly(queue) /\ DOMAIN workers = Ids
      /\ \A id \in DOMAIN queue.state : queue.state[id] = "running" <=> workers[id] # "none"
  BY DEF Complete, environment, collecting, QueueInv, Sessions, Running
<1>2. CASE ~Current
  <2>1. queue' = Finished("proof-input-changed")
    BY <1>2 DEF Complete
  <2>. QED BY <1>1, <2>1, QueueIdles DEF Finished
<1>3. CASE Current
  <2>1. /\ queue' = [phase |-> "finished", reason |-> "queue-complete", state |-> queue.state,
                     tried |-> queue.tried, completed |-> queue.completed]
        /\ Pending(queue) = {} /\ ~MayPublish
    BY <1>3 DEF Complete
  <2>2. Sorted(queue) /\ \A id \in DOMAIN queue.state : Accounted(queue, id)
    BY <1>1 DEF Orderly
  <2>3. ASSUME NEW id \in DOMAIN queue.state, queue.state[id] = "ready" PROVE Seen(queue, id)
    <3>1. id \notin ToSet(queue.ready)
      <4>1. ASSUME NEW i \in DOMAIN queue.ready, queue.ready[i] = id PROVE FALSE
        BY <2>1, <2>3, <4>1 DEF Pending
      <4>. QED BY <4>1 DEF ToSet
    <3>. QED BY <2>2, <2>3, <3>1 DEF Accounted
  <2>4. ASSUME NEW p \in DOMAIN queue.state, p \in LargeIds, queue.state[p] \in Undecided
        PROVE  queue.state[p] = "admitted"
    <3>1. Accounted(queue, p) /\ queue.state[p] # "running"
      BY <1>1, <2>2, GroupsAreListed DEF Sorted
    <3>2. queue.state[p] # "awaiting"
      BY <2>1, <2>2, <3>1 DEF Accounted, MayPublish
    <3>3. queue.state[p] # "ready"
      <4>1. SUFFICES ASSUME queue.state[p] = "ready" PROVE FALSE
        OBVIOUS
      <4>2. p \in ToSet(queue.ready)
        BY <2>4, <3>1, <4>1 DEF Accounted
      <4>3. PICK i \in DOMAIN queue.ready : queue.ready[i] = p
        BY <4>2 DEF ToSet
      <4>. QED BY <2>1, <4>1, <4>3 DEF Pending
    <3>. QED BY <2>4, <3>1, <3>2, <3>3 DEF Undecided
  <2>5. ASSUME NEW id \in DOMAIN queue.state
        PROVE  Seen(queue, id) \/ \E p \in Parent(id, DOMAIN queue.state) : queue.state[p] = "admitted"
    <3>1. Accounted(queue, id) /\ queue.state[id] \in GroupStates
      BY <2>2 DEF Sorted
    <3>2. \A p \in Parent(id, DOMAIN queue.state) : p \in LargeIds /\ p \in DOMAIN queue.state
      BY <2>2, OneParent
    <3>. QED BY <2>3, <2>4, <3>1, <3>2 DEF Accounted, GroupStates
  <2>6. QueueComplete(queue')
    BY <2>1, <2>5 DEF QueueComplete, Seen
  <2>. QED BY <1>1, <2>1, <2>6 DEF QueueInv, Sessions, Collects
<1>. QED BY <1>2, <1>3

LEMMA CollectStart == ASSUME QueueInv, Collect PROVE QueueInv'
<1>1. /\ queue.phase = "proving" /\ UNCHANGED <<input, queue, workers, plan>>
      /\ \A id \in Ids : workers[id] = "none"
      /\ collector' = [kind |-> "collect", stage |-> "lookups", todo |-> Lookups,
                       done |-> queue.completed, validated |-> {}, catalog |-> catalog]
  BY DEF Collect, environment, Running
<1>2. Collecting(collector', queue)
  BY <1>1 DEF Collecting, Jobs
<1>. QED BY <1>1, <1>2 DEF QueueInv, Sessions, Collects

(* The steps of a collect that leave the session alone.                      *)
LEMMA CollectGoesOn ==
  ASSUME QueueInv, collector # None, UNCHANGED <<input, queue, workers, plan>>,
         Collecting(collector, queue) => Collecting(collector', queue)
  PROVE  QueueInv'
BY DEF QueueInv, Sessions, Collects

LEMMA CollectSteps ==
  ASSUME QueueInv, LookUp \/ LookedUp \/ CollectGroup \/ Overlay \/ CheckInput \/ WriteBackground
                   \/ WriteCatalog \/ Unlink \/ PublishWorker
  PROVE  QueueInv'
<1>1. collector # None /\ UNCHANGED <<input, queue, workers, plan>>
  BY DEF LookUp, LookedUp, CollectGroup, Overlay, CheckInput, WriteBackground, WriteCatalog, Unlink,
         PublishWorker, Session, environment, Fault
<1>2. ASSUME Collecting(collector, queue) PROVE Collecting(collector', queue)
  <2>0. queue.completed \in Seq(Ids)
    BY <1>1 DEF QueueInv, Sessions, Collects, Orderly, Sorted
  <2>1. CASE LookUp
    BY <1>2, <2>1 DEF LookUp, Collecting, Jobs
  <2>2. CASE LookedUp
    <3> DEFINE small == Filter(collector.done, Ids \ LargeIds)
               large == Filter(collector.done, LargeIds)
    <3>1. collector.done \in Seq(Ids) /\ collector.done = queue.completed
      BY <1>2, <2>0 DEF Collecting
    <3>2. /\ small \in Seq(Ids) /\ large \in Seq(Ids)
          /\ \A x : x \in ToSet(small) \/ x \in ToSet(large) => x \in ToSet(queue.completed)
      BY <3>1, FilterSelects
    <3>3. collector' = [collector EXCEPT !.stage = "completed", !.todo = small \o large]
      BY <2>2 DEF LookedUp
    <3> HIDE DEF small, large
    <3>4. small \o large \in Seq(Ids) /\ ToSet(small \o large) \subseteq ToSet(queue.completed)
      BY <3>2, JoinedRange
    <3>. QED BY <1>2, <3>3, <3>4 DEF Collecting, Jobs
  <2>3. CASE CollectGroup
    <3> DEFINE id == Head(collector.todo)
           chosen == IF Kind[id] = "large" THEN Upgrade(selection, id) ELSE Adopt(selection, id)
           matches == Local(id) \cap chosen
           untouched == Kind[id] # "large" /\ Touching(selection, Own[id]) = {}
           valid == IF untouched THEN matches # {} ELSE UNION Owns(matches) = Own[id]
           registers == IF Kind[id] = "large" THEN matches # {} \/ Rejected(id)
                        ELSE matches # {} \/ (untouched /\ Cached(id))
           old == IF valid THEN {id} ELSE {}
           registered == collector.catalog \cup (IF registers THEN {id} ELSE {})
    <3>1. /\ collector' = [collector EXCEPT !.todo = Tail(collector.todo),
                 !.validated = collector.validated \cup old, !.catalog = registered]
          /\ old \subseteq {id} /\ collector.stage = "completed" /\ collector.todo # <<>>
      <4>1. collector' = [collector EXCEPT !.todo = Tail(@),
               !.validated = @ \cup old,
               !.catalog = @ \cup (IF registers THEN {id} ELSE {})]
        BY <2>3, Zenon DEF CollectGroup
      <4> HIDE DEF matches, untouched, valid, registers, id, chosen, old
      <4>2. old \subseteq {id}
        BY DEF old
      <4>. QED BY <1>2, <2>3, <4>1, <4>2 DEF CollectGroup, Collecting, Jobs
    <3> HIDE DEF chosen, matches, untouched, valid, registers, old, registered
    <3>2. /\ collector.todo \in Seq(Ids) /\ ToSet(collector.todo) \subseteq ToSet(queue.completed)
      BY <1>2, <3>1 DEF Collecting
    <3>3. Tail(collector.todo) \in Seq(Ids) /\ ToSet(Tail(collector.todo)) \subseteq ToSet(collector.todo)
          /\ id \in ToSet(collector.todo)
      BY <3>1, <3>2 DEF ToSet
    <3>4. DOMAIN collector' = Jobs /\ collector'.done = collector.done
          /\ collector'.todo = Tail(collector.todo)
          /\ collector'.validated = collector.validated \cup old
      BY <1>2, <3>1 DEF Collecting, Jobs
    <3>. QED BY <1>2, <3>1, <3>2, <3>3, <3>4 DEF Collecting
  <2>4. CASE Overlay
    BY <1>2, <2>4 DEF Overlay, Collecting, Jobs
  <2>5. CASE CheckInput \/ WriteBackground \/ WriteCatalog \/ Unlink \/ PublishWorker
    BY <1>2, <2>5 DEF CheckInput, WriteBackground, WriteCatalog, Unlink, PublishWorker, Collecting, Jobs
  <2>. QED BY <2>1, <2>2, <2>3, <2>4, <2>5
<1>. QED BY <1>1, <1>2, CollectGoesOn

(* What a session in its pump and an idle collector have.                    *)
LEMMA Pumping ==
  ASSUME QueueInv, queue.phase = "proving"
  PROVE  /\ Orderly(queue) /\ Sorted(queue) /\ DOMAIN queue.state \subseteq Ids /\ DOMAIN workers = Ids
         /\ plan.input = queue.input /\ input \in DOMAIN Known
         /\ \A id \in DOMAIN queue.state : /\ queue.state[id] = "running" <=> workers[id] # "none"
                                           /\ Accounted(queue, id)
         /\ \A id \in Ids : workers[id] # "none" => id \in DOMAIN queue.state
BY GroupsAreListed DEF QueueInv, Sessions, Orderly, Sorted

(* A step of the pump keeps the session when it keeps its order.             *)
LEMMA PumpKeeps ==
  ASSUME QueueInv, queue.phase = "proving", UNCHANGED <<input, collector, plan>>, collector = None,
         Orderly(queue'), queue'.input = queue.input, DOMAIN queue'.state = DOMAIN queue.state,
         DOMAIN workers' = Ids,
         \A id \in DOMAIN queue.state : queue'.state[id] = "running" <=> workers'[id] # "none",
         \A id \in Ids : workers'[id] # "none" => id \in DOMAIN queue.state
  PROVE  QueueInv'
<1>1. queue'.phase = "proving"
  BY DEF Orderly, Sorted
<1>. QED BY <1>1 DEF QueueInv, Sessions, Collects

LEMMA TakeStep == ASSUME QueueInv, Take PROVE QueueInv'
<1> DEFINE i == CHOOSE i \in Pending(queue) : \A j \in Pending(queue) : i <= j
           id == queue.ready[i]
           rest == SubSeq(queue.ready, i + 1, Len(queue.ready))
<1>1. /\ queue.phase = "proving" /\ UNCHANGED <<input, collector, plan>> /\ collector = None
      /\ Pending(queue) # {}
      /\ IF id \in queue.recovered
         THEN queue' = [queue EXCEPT !.ready = rest] /\ UNCHANGED workers
         ELSE /\ queue' = [queue EXCEPT !.ready = rest, !.state[id] = "running",
                                        !.tried = queue.tried \cup {id}]
              /\ workers' = [workers EXCEPT ![id] = "loaded"]
  BY DEF Take, environment, collecting
<1>2. /\ Orderly(queue) /\ Sorted(queue) /\ DOMAIN queue.state \subseteq Ids /\ DOMAIN workers = Ids
      /\ \A c \in DOMAIN queue.state : /\ queue.state[c] = "running" <=> workers[c] # "none"
                                       /\ Accounted(queue, c)
      /\ \A c \in Ids : workers[c] # "none" => c \in DOMAIN queue.state
  BY <1>1, Pumping
<1>3. \E k \in Pending(queue) : \A j \in Pending(queue) : k <= j
  <2>1. Len(queue.ready) \in Nat /\ Pending(queue) \subseteq 0..Len(queue.ready)
    BY <1>2 DEF Pending, Sorted
  <2>. QED BY <1>1, <2>1, LeastNumber
<1>4. i \in Pending(queue) /\ \A j \in Pending(queue) : i <= j
  <2> DEFINE Least(k) == k \in Pending(queue) /\ \A j \in Pending(queue) : k <= j
  <2>1. i = CHOOSE k : Least(k)
    OBVIOUS
  <2>2. \E k : Least(k)
    BY <1>3
  <2> HIDE DEF Least, i
  <2>3. Least(i)
    BY <2>1, <2>2
  <2>. QED BY <2>3 DEF Least
<1> HIDE DEF i
<1>5. /\ id \in DOMAIN queue.state /\ queue.state[id] = "ready" /\ rest \in Seq(Ids)
      /\ \A x \in ToSet(rest) : x \in ToSet(queue.ready)
      /\ \A x \in ToSet(queue.ready) : queue.state[x] = "ready" /\ x # id => x \in ToSet(rest)
  <2>1. Sorted(queue) /\ FirstReady(queue, i)
    BY <1>2, <1>4 DEF FirstReady
  <2>2. Remains(queue, i, rest)
    BY <2>1, RestOfReady, Zenon
  <2>3. id = queue.ready[i]
    OBVIOUS
  <2> HIDE DEF rest, id
  <2>. QED BY <2>2, <2>3 DEF Remains
<1> HIDE DEF id, rest
<1>6. CASE id \in queue.recovered
  <2>1. /\ DOMAIN queue' = Fields /\ \A f \in Fields \ {"ready"} : queue'[f] = queue[f]
        /\ queue'.ready = rest
    BY <1>1, <1>2, <1>6 DEF Sorted, Fields
  <2>2. /\ queue'.phase = "proving" /\ queue'.input = queue.input /\ queue'.state = queue.state
        /\ queue'.completed = queue.completed /\ queue'.published = queue.published
        /\ queue'.recovered = queue.recovered /\ queue'.tried = queue.tried
        /\ queue'.linked = queue.linked
    BY <1>1, <2>1 DEF Fields
  <2>3. Sorted(queue')
    BY <1>2, <1>5, <2>1, <2>2 DEF Sorted
  <2>4. Accounted(queue', id)
    <3>1. id \notin LargeIds /\ Seen(queue, id)
      BY <1>2, <1>5, <1>6 DEF Accounted, Sorted, Seen
    <3>. QED BY <1>5, <2>2, <3>1 DEF Accounted, Seen, Settled
  <2>5. Advances(queue, queue', id)
    <3>1. Len(queue.completed) \in Nat
      BY <1>2 DEF Sorted
    <3>. QED BY <1>5, <2>1, <2>2, <3>1 DEF Advances, Seen
  <2>6. Orderly(queue')
    BY <1>2, <1>5, <2>3, <2>4, <2>5, AdvanceKeeps
  <2>. QED BY <1>1, <1>2, <1>6, <2>2, <2>6, PumpKeeps
<1>7. CASE id \notin queue.recovered
  <2> DEFINE states == [queue.state EXCEPT ![id] = "running"]
  <2>1. /\ DOMAIN queue' = Fields /\ \A f \in Fields \ {"ready", "state", "tried"} : queue'[f] = queue[f]
        /\ queue'.ready = rest /\ queue'.state = states /\ queue'.tried = queue.tried \cup {id}
    BY <1>1, <1>2, <1>7 DEF Sorted, Fields
  <2>2. /\ queue'.phase = "proving" /\ queue'.input = queue.input
        /\ queue'.completed = queue.completed /\ queue'.published = queue.published
        /\ queue'.recovered = queue.recovered /\ queue'.linked = queue.linked
    BY <1>1, <2>1 DEF Fields
  <2>3. /\ DOMAIN states = DOMAIN queue.state /\ states[id] = "running"
        /\ states \in [DOMAIN queue.state -> GroupStates]
        /\ \A c \in DOMAIN queue.state : c # id => states[c] = queue.state[c]
    BY <1>2, <1>5 DEF Sorted, GroupStates, Settled
  <2> HIDE DEF states
  <2>4. Sorted(queue')
    BY <1>2, <1>5, <2>1, <2>2, <2>3 DEF Sorted
  <2>5. Accounted(queue', id)
    <3>1. id \in LargeIds => queue.linked
      BY <1>2, <1>5 DEF Accounted
    <3>. QED BY <2>1, <2>2, <2>3, <3>1 DEF Accounted, Seen, Settled
  <2>6. Advances(queue, queue', id)
    <3>1. Len(queue.completed) \in Nat
      BY <1>2 DEF Sorted
    <3>. QED BY <1>5, <2>1, <2>2, <2>3, <3>1 DEF Advances, Seen, Undecided
  <2>7. Orderly(queue')
    BY <1>2, <1>5, <2>4, <2>5, <2>6, AdvanceKeeps
  <2>8. workers' = [workers EXCEPT ![id] = "loaded"] /\ id \in Ids
    BY <1>1, <1>2, <1>5, <1>7
  <2>9. /\ DOMAIN workers' = Ids /\ workers'[id] # "none"
        /\ \A c \in Ids : c # id => workers'[c] = workers[c]
    BY <1>2, <2>8
  <2>10. \A c \in DOMAIN queue.state : queue'.state[c] = "running" <=> workers'[c] # "none"
    BY <1>2, <2>1, <2>3, <2>9
  <2>. QED BY <1>1, <1>2, <1>5, <2>1, <2>2, <2>3, <2>7, <2>9, <2>10, PumpKeeps
<1>. QED BY <1>6, <1>7

(* A worker that ends: its group is settled, and a lost parent's fallbacks   *)
(* become ready.                                                             *)
LEMMA WorkerEnds ==
  ASSUME QueueInv, NEW id \in Ids, workers[id] # "none", UNCHANGED <<input, collector, plan>>,
         workers' = [workers EXCEPT ![id] = "none"], NEW st, NEW base, DOMAIN base = Fields,
         \A f \in Fields \ {"state", "completed", "collect"} : base[f] = queue[f],
         base.state = [queue.state EXCEPT ![id] = st],
         base.completed \in {queue.completed, Append(queue.completed, id)},
         \/ st = "completed" /\ id \notin LargeIds /\ queue' = base
         \/ st = "awaiting" /\ id \in LargeIds /\ queue' = base
            /\ base.completed = Append(queue.completed, id)
         \/ st = "released" /\ id \in LargeIds /\ queue' = Release(base, {id})
  PROVE  QueueInv'
<1>1. queue.phase = "proving" /\ collector = None
  BY DEF QueueInv, Sessions, Collects
<1>2. /\ Orderly(queue) /\ Sorted(queue) /\ DOMAIN queue.state \subseteq Ids /\ DOMAIN workers = Ids
      /\ \A c \in DOMAIN queue.state : /\ queue.state[c] = "running" <=> workers[c] # "none"
                                       /\ Accounted(queue, c)
      /\ \A c \in Ids : workers[c] # "none" => c \in DOMAIN queue.state
  BY <1>1, Pumping
<1>3. id \in DOMAIN queue.state /\ queue.state[id] = "running" /\ Accounted(queue, id) /\ Seen(queue, id)
  BY <1>2 DEF Accounted, Settled
<1>4. /\ base.phase = queue.phase /\ base.input = queue.input /\ base.linked = queue.linked
      /\ base.ready = queue.ready /\ base.recovered = queue.recovered
      /\ base.published = queue.published /\ base.tried = queue.tried
  BY DEF Fields
<1>5. /\ DOMAIN base.state = DOMAIN queue.state /\ base.state[id] = st
      /\ base.state \in [DOMAIN queue.state -> GroupStates]
      /\ \A c \in DOMAIN queue.state : c # id => base.state[c] = queue.state[c]
  BY <1>2, <1>3 DEF Sorted, GroupStates, Settled
<1>6. /\ base.completed \in Seq(Ids) /\ Len(queue.completed) \in Nat
      /\ Len(queue.completed) <= Len(base.completed)
      /\ base.completed # queue.completed => Len(queue.completed) < Len(base.completed)
      /\ \A x \in ToSet(queue.completed) : x \in ToSet(base.completed)
  <2>1. queue.completed \in Seq(Ids)
    BY <1>2 DEF Sorted
  <2>2. \A x \in ToSet(queue.completed) : x \in ToSet(Append(queue.completed, id))
    BY <2>1, AppendRange
  <2>3. /\ Append(queue.completed, id) \in Seq(Ids) /\ Len(queue.completed) \in Nat
        /\ Len(Append(queue.completed, id)) = Len(queue.completed) + 1
    BY <2>1
  <2>4. base.completed = queue.completed \/ base.completed = Append(queue.completed, id)
    OBVIOUS
  <2>5. CASE base.completed = queue.completed
    BY <2>1, <2>3, <2>5
  <2>6. CASE base.completed = Append(queue.completed, id)
    BY <2>1, <2>2, <2>3, <2>6
  <2>. QED BY <2>4, <2>5, <2>6
<1>7. \A c \in DOMAIN queue.state : Seen(queue, c) => Seen(base, c)
  BY <1>4, <1>6 DEF Seen
<1>8. Sorted(base)
  <2>1. base.published \in Nat /\ base.published <= Len(base.completed)
    BY <1>2, <1>4, <1>6 DEF Sorted
  <2>2. base.recovered \subseteq DOMAIN base.state /\ base.recovered \subseteq ToSet(base.completed)
    BY <1>2, <1>4, <1>5, <1>6 DEF Sorted
  <2>. QED BY <1>1, <1>2, <1>4, <1>5, <1>6, <2>1, <2>2 DEF Sorted
<1>9. Orderly(queue') /\ DOMAIN queue'.state = DOMAIN queue.state /\ queue'.input = queue.input
      /\ \A c \in DOMAIN queue.state : queue'.state[c] = "running" <=> base.state[c] = "running"
  <2>1. CASE st # "released"
    <3>1. Accounted(base, id)
      <4>1. id \in LargeIds => base.linked
        BY <1>3, <1>4 DEF Accounted
      <4>2. st = "awaiting" => id \in LargeIds /\ base.published < Len(base.completed)
        <5>1. st = "awaiting" => Len(base.completed) = Len(queue.completed) + 1
          BY <1>2 DEF Sorted
        <5>. QED BY <1>2, <1>4, <1>6, <5>1 DEF Sorted
      <4>. QED BY <1>3, <1>5, <1>7, <2>1, <4>1, <4>2 DEF Accounted, Settled
    <3>2. Advances(queue, base, id)
      BY <1>3, <1>4, <1>5, <1>6, <1>7, <2>1 DEF Advances, Undecided
    <3>3. Orderly(base)
      BY <1>2, <1>3, <1>8, <3>1, <3>2, AdvanceKeeps
    <3>. QED BY <1>4, <1>5, <2>1, <3>3
  <2>2. CASE st = "released"
    <3> DEFINE freed == [queue EXCEPT !.state[id] = "released"]
    <3>1. /\ freed.state = base.state /\ freed.linked = queue.linked /\ freed.ready = queue.ready
          /\ freed.recovered = queue.recovered /\ freed.published = queue.published
          /\ freed.tried = queue.tried /\ freed.completed = queue.completed
      BY <1>2, <2>2 DEF Sorted, Fields
    <3> HIDE DEF freed
    <3>2. Advances(freed, base, id)
      BY <1>3, <1>4, <1>5, <1>6, <1>7, <2>2, <3>1 DEF Advances, Undecided, Seen
    <3>3. Orderly(Release(base, {id}))
      BY <1>2, <1>3, <1>5, <1>7, <1>8, <2>2, <3>2, LossKeeps DEF freed
    <3> DEFINE r == Release(base, {id})
    <3>4. /\ DOMAIN r.state = DOMAIN base.state /\ r.input = base.input
          /\ \A c \in DOMAIN base.state : r.state[c] =
                IF (\E p \in {id} : c \in Children(base, p)) /\ base.state[c] \in {"deferred", "suppressed"}
                THEN "ready" ELSE base.state[c]
      <4>1. r = Release(base, {id})
        OBVIOUS
      <4> HIDE DEF r
      <4>. QED BY <1>8, <4>1, Released DEF Fields
    <3>5. queue' = r
      BY <2>2
    <3> HIDE DEF r
    <3>. QED BY <1>4, <1>5, <3>3, <3>4, <3>5 DEF r
  <2>. QED BY <2>1, <2>2
<1>10. /\ DOMAIN workers' = Ids /\ workers'[id] = "none"
       /\ \A c \in Ids : c # id => workers'[c] = workers[c]
  BY <1>2
<1>11. st # "running"
  OBVIOUS
<1>12. \A c \in DOMAIN queue.state : queue'.state[c] = "running" <=> workers'[c] # "none"
  BY <1>2, <1>5, <1>9, <1>10, <1>11
<1>. QED BY <1>1, <1>2, <1>9, <1>10, <1>12, PumpKeeps

LEMMA WorkerSteps ==
  ASSUME QueueInv, NEW id \in Ids, Work(id) \/ WorkerFail(id) PROVE QueueInv'
<1>1. workers[id] # "none" /\ UNCHANGED <<input, collector, plan>>
  BY DEF Work, WorkerProve, WorkerReturn, WorkerFail, environment, collecting, Fault
<1>2. /\ queue.phase = "proving" /\ Sorted(queue) /\ id \in DOMAIN queue.state
      /\ DOMAIN workers = Ids /\ collector = None
  BY <1>1, Pumping DEF QueueInv, Sessions, Collects
<1>3. Kind[id] = "large" <=> id \in LargeIds
  BY DEF LargeIds
<1>4. CASE WorkerProve(id)
  <2>1. /\ UNCHANGED queue /\ DOMAIN workers' = Ids /\ workers'[id] # "none"
        /\ \A c \in Ids : c # id => workers'[c] = workers[c]
    BY <1>2, <1>4 DEF WorkerProve
  <2>2. /\ Orderly(queue) /\ DOMAIN queue.state \subseteq Ids
        /\ \A c \in DOMAIN queue.state : queue.state[c] = "running" <=> workers[c] # "none"
        /\ \A c \in Ids : workers[c] # "none" => c \in DOMAIN queue.state
    BY <1>2, Pumping
  <2>3. \A c \in Ids : workers'[c] # "none" <=> workers[c] # "none"
    BY <1>1, <2>1
  <2>. QED BY <1>1, <1>2, <2>1, <2>2, <2>3, PumpKeeps
<1>5. CASE WorkerReturn(id)
  <2> DEFINE q == [queue EXCEPT !.completed = Append(@, id)]
  <2>1. /\ workers' = [workers EXCEPT ![id] = "none"]
        /\ queue' = IF Kind[id] # "large" THEN [q EXCEPT !.state[id] = "completed"]
                    ELSE IF workers[id] # "rejected"
                         THEN [q EXCEPT !.state[id] = "awaiting", !.collect = TRUE]
                         ELSE Release([q EXCEPT !.state[id] = "released"], {id})
    BY <1>5 DEF WorkerReturn
  <2>2. /\ DOMAIN q = Fields /\ \A f \in Fields \ {"completed"} : q[f] = queue[f]
        /\ q.completed = Append(queue.completed, id) /\ q.state = queue.state
    BY <1>2 DEF Sorted, Fields
  <2> HIDE DEF q
  <2>3. CASE id \notin LargeIds
    <3> DEFINE base == [q EXCEPT !.state[id] = "completed"]
    <3>1. /\ DOMAIN base = Fields /\ base.state = [queue.state EXCEPT ![id] = "completed"]
          /\ \A f \in Fields \ {"state", "completed", "collect"} : base[f] = queue[f]
          /\ base.completed = Append(queue.completed, id)
      BY <2>2 DEF Fields
    <3>2. queue' = base
      BY <1>3, <2>1, <2>3
    <3> HIDE DEF base
    <3>. QED BY <1>1, <2>1, <2>3, <3>1, <3>2, WorkerEnds
  <2>4. CASE id \in LargeIds /\ workers[id] # "rejected"
    <3> DEFINE base == [q EXCEPT !.state[id] = "awaiting", !.collect = TRUE]
    <3>1. /\ DOMAIN base = Fields /\ base.state = [queue.state EXCEPT ![id] = "awaiting"]
          /\ \A f \in Fields \ {"state", "completed", "collect"} : base[f] = queue[f]
          /\ base.completed = Append(queue.completed, id)
      BY <2>2 DEF Fields
    <3>2. queue' = base
      BY <1>3, <2>1, <2>4
    <3> HIDE DEF base
    <3>. QED BY <1>1, <2>1, <2>4, <3>1, <3>2, WorkerEnds
  <2>5. CASE id \in LargeIds /\ workers[id] = "rejected"
    <3> DEFINE base == [q EXCEPT !.state[id] = "released"]
    <3>1. /\ DOMAIN base = Fields /\ base.state = [queue.state EXCEPT ![id] = "released"]
          /\ \A f \in Fields \ {"state", "completed", "collect"} : base[f] = queue[f]
          /\ base.completed = Append(queue.completed, id)
      BY <2>2 DEF Fields
    <3>2. queue' = Release(base, {id})
      BY <1>3, <2>1, <2>5
    <3> HIDE DEF base
    <3>. QED BY <1>1, <2>1, <2>5, <3>1, <3>2, WorkerEnds
  <2>. QED BY <2>3, <2>4, <2>5
<1>6. CASE WorkerFail(id)
  <2>1. /\ workers' = [workers EXCEPT ![id] = "none"]
        /\ queue' = IF Kind[id] = "large"
                    THEN Release([queue EXCEPT !.state[id] = "released"], {id})
                    ELSE [queue EXCEPT !.state[id] = "completed"]
    BY <1>6 DEF WorkerFail
  <2>2. CASE id \notin LargeIds
    <3> DEFINE base == [queue EXCEPT !.state[id] = "completed"]
    <3>1. /\ DOMAIN base = Fields /\ base.state = [queue.state EXCEPT ![id] = "completed"]
          /\ \A f \in Fields \ {"state", "completed", "collect"} : base[f] = queue[f]
          /\ base.completed = queue.completed
      BY <1>2 DEF Sorted, Fields
    <3>2. queue' = base
      BY <1>3, <2>1, <2>2
    <3> HIDE DEF base
    <3>. QED BY <1>1, <2>1, <2>2, <3>1, <3>2, WorkerEnds
  <2>3. CASE id \in LargeIds
    <3> DEFINE base == [queue EXCEPT !.state[id] = "released"]
    <3>1. /\ DOMAIN base = Fields /\ base.state = [queue.state EXCEPT ![id] = "released"]
          /\ \A f \in Fields \ {"state", "completed", "collect"} : base[f] = queue[f]
          /\ base.completed = queue.completed
      BY <1>2 DEF Sorted, Fields
    <3>2. queue' = Release(base, {id})
      BY <1>3, <2>1, <2>3
    <3> HIDE DEF base
    <3>. QED BY <1>1, <2>1, <2>3, <3>1, <3>2, WorkerEnds
  <2>. QED BY <2>2, <2>3
<1>. QED BY <1>4, <1>5, <1>6 DEF Work

LEMMA DeliverStep == ASSUME QueueInv, Deliver PROVE QueueInv'
<1> DEFINE r == Reconciled(queue, collector.validated)
<1>1. /\ UNCHANGED <<input, workers, plan>> /\ collector' = None /\ collector # None
      /\ queue' = [Reconcile(queue, collector.validated) EXCEPT
                     !.published = Len(collector.done), !.recovered = @ \cap collector.validated]
  BY DEF Deliver, environment, Session
<1>2. /\ queue.phase = "proving" /\ \A id \in Ids : workers[id] = "none"
      /\ collector.done = queue.completed /\ collector.validated \subseteq ToSet(queue.completed)
  BY <1>1 DEF QueueInv, Collects, Collecting
<1>3. /\ Orderly(queue) /\ DOMAIN queue.state \subseteq Ids /\ DOMAIN workers = Ids
      /\ plan.input = queue.input /\ input \in DOMAIN Known
      /\ \A id \in DOMAIN queue.state : queue.state[id] # "running"
  BY <1>2, Pumping
<1>4. queue' = r
  BY <1>1, <1>2 DEF Reconciled
<1>5. /\ Orderly(r) /\ r.input = queue.input
      /\ \A id \in DOMAIN r.state : r.state[id] # "running"
  <2>1. r = Reconciled(queue, collector.validated) /\ Drained(queue)
    BY <1>3 DEF Drained
  <2> HIDE DEF r
  <2>2. Orderly(r) /\ r.input = queue.input /\ r.completed = queue.completed /\ Drained(r)
    BY <1>2, <1>3, <2>1, ReconcileKeeps, Zenon
  <2>. QED BY <2>2 DEF Drained
<1> HIDE DEF r
<1>6. r.phase = "proving" /\ DOMAIN r.state \subseteq Ids
  BY <1>5, GroupsAreListed DEF Orderly, Sorted
<1>7. Collects'
  BY <1>1 DEF Collects
<1>8. /\ input' \in DOMAIN Known /\ queue'.phase = "proving" /\ DOMAIN workers' = Ids
      /\ Orderly(queue') /\ plan'.input = queue'.input
      /\ \A id \in Ids : workers'[id] = "none"
      /\ \A id \in DOMAIN queue'.state : queue'.state[id] # "running" /\ id \in Ids
  BY <1>1, <1>2, <1>3, <1>4, <1>5, <1>6
<1>9. Sessions'
  BY <1>8 DEF Sessions
<1>. QED BY <1>7, <1>9 DEF QueueInv

LEMMA CollectFailStep == ASSUME QueueInv, CollectFail PROVE QueueInv'
<1>1. /\ UNCHANGED <<input, workers, plan>> /\ collector' = None /\ collector # None
      /\ queue' = [queue EXCEPT !.collect = @ \/ queue.linked]
  BY DEF CollectFail, environment, Session, Fault
<1>2. /\ queue.phase = "proving" /\ \A id \in Ids : workers[id] = "none"
  BY <1>1 DEF QueueInv, Collects
<1>3. /\ Orderly(queue) /\ Sorted(queue) /\ DOMAIN workers = Ids /\ DOMAIN queue.state \subseteq Ids
      /\ plan.input = queue.input /\ input \in DOMAIN Known
      /\ \A id \in DOMAIN queue.state : queue.state[id] # "running"
  BY <1>2, Pumping
<1>4. /\ DOMAIN queue' = Fields /\ queue'.phase = "proving" /\ queue'.input = queue.input
      /\ queue'.state = queue.state /\ queue'.ready = queue.ready
      /\ queue'.completed = queue.completed /\ queue'.published = queue.published
      /\ queue'.recovered = queue.recovered /\ queue'.tried = queue.tried
      /\ queue'.linked = queue.linked
  BY <1>1, <1>3 DEF Sorted, Fields
<1>5. Orderly(queue')
  BY <1>3, <1>4 DEF Orderly, Sorted, Accounted, InTurn, Seen, Children
<1>. QED BY <1>1, <1>2, <1>3, <1>4, <1>5 DEF QueueInv, Sessions, Collects

LEMMA NextQueue == QueueInv /\ [Next]_vars => QueueInv'
<1> SUFFICES ASSUME QueueInv, [Next]_vars PROVE QueueInv'
  OBVIOUS
<1>1. CASE Edit \/ Prepare
  BY <1>1, QueueUntouched DEF Edit, Prepare, collecting, QueueInv, Sessions
<1>2. CASE Quit \/ Start \/ PlanFails
  BY <1>2, EndStep
<1>3. CASE Plan
  BY <1>3, PlanStep
<1>4. CASE Take
  BY <1>4, TakeStep
<1>5. CASE Collect
  BY <1>5, CollectStart
<1>6. CASE Complete
  BY <1>6, CompleteStep
<1>7. CASE CollectStep
  BY <1>7, CollectSteps, DeliverStep DEF CollectStep
<1>8. CASE CollectFail
  BY <1>8, CollectFailStep
<1>9. ASSUME NEW id \in Ids, Work(id) \/ WorkerFail(id) PROVE QueueInv'
  BY <1>9, WorkerSteps
<1>10. CASE UNCHANGED vars
  BY <1>10, QueueUntouched DEF vars, environment, collecting, QueueInv, Sessions
<1>. QED BY <1>1, <1>2, <1>3, <1>4, <1>5, <1>6, <1>7, <1>8, <1>9, <1>10 DEF Next

LEMMA QueueInvariant == Spec => []QueueInv
BY InitQueue, NextQueue, PTL DEF Spec

(* No fallback is proved while its large parent is to be decided or in use,  *)
(* and a complete queue has taken care of every planned group.               *)
THEOREM FallbacksAlwaysComeInTurn == Spec => []FallbacksComeInTurn
<1>1. QueueInv => FallbacksComeInTurn
  <2> SUFFICES ASSUME QueueInv PROVE FallbacksComeInTurn
    OBVIOUS
  <2>1. ASSUME queue.phase = "proving", NEW p \in DOMAIN queue.state, Kind[p] = "large",
               queue.state[p] \in {"ready", "running", "awaiting", "admitted"},
               NEW id \in Children(queue, p)
        PROVE  queue.state[id] # "ready"
    <3>1. Orderly(queue) /\ p \in LargeIds
      BY <2>1, Pumping DEF LargeIds
    <3>. QED BY <2>1, <3>1 DEF Orderly, InTurn, Undecided
  <2>2. queue.phase = "finished" /\ queue.reason = "queue-complete" => QueueComplete(queue)
    BY DEF QueueInv, Sessions
  <2>. QED BY <2>1, <2>2 DEF FallbacksComeInTurn, QueueComplete
<1>. QED BY <1>1, QueueInvariant, PTL

-----------------------------------------------------------------------------
(* What a collect delivers.  Every batch it holds comes out of a cache that  *)
(* its group's gate filled; the old response is gone before the worker runs. *)
OfGate(sel) == \A b \in sel : b.of # "root" => b.own \in Admits[b.of][b.at]
Responding ==
    /\ OfGate(selection) /\ OfGate(background) /\ OfGate(saved)
    /\ collector # None /\ collector.stage = "publish" => response = None
    /\ collector # None /\ collector.stage = "return" => response = None \/ response.batches = background

LEMMA LocalOfGate == ASSUME NEW id PROVE OfGate(Local(id))
BY DEF Local, Batches, OfGate

LEMMA RootOfGate == OfGate(RootBatches)
BY DEF RootBatches, Batches, OfGate

LEMMA LookupOfGate ==
  ASSUME NEW sel, OfGate(sel), NEW id
  PROVE  OfGate(Lookup(sel, id)) /\ OfGate(Upgrade(sel, id)) /\ OfGate(Adopt(sel, id))
<1>1. OfGate(Replace(sel, id)) /\ OfGate(AddDisjoint(sel, id))
  BY LocalOfGate DEF Replace, AddDisjoint, OfGate, Touching
<1>2. OfGate(Upgrade(sel, id)) /\ OfGate(Adopt(sel, id))
  BY <1>1 DEF Upgrade, Adopt
<1>. QED BY <1>1, <1>2 DEF Lookup

LEMMA NextOfGate ==
  ASSUME [Next]_vars, OfGate(selection), OfGate(background), OfGate(saved)
  PROVE  OfGate(selection') /\ OfGate(background') /\ OfGate(saved')
<1>1. CASE LookUp
  <2>1. selection' = Lookup(selection, Head(collector.todo)) /\ UNCHANGED <<background, saved>>
    BY <1>1 DEF LookUp, files
  <2>. QED BY <2>1, LookupOfGate
<1>2. CASE CollectGroup
  <2>1. /\ UNCHANGED <<background, saved>>
        /\ \/ selection' = Upgrade(selection, Head(collector.todo))
           \/ selection' = Adopt(selection, Head(collector.todo))
    BY <1>2 DEF CollectGroup, files
  <2>. QED BY <2>1, LookupOfGate
<1>3. CASE Copies
  BY <1>3, RootOfGate DEF Copies, OfGate
<1>. QED BY <1>1, <1>2, <1>3, StepCopies

(* The response on its way: only the steps of a collect touch it.            *)
LEMMA NextResponding ==
  ASSUME QueueInv, Responding, [Next]_vars PROVE Responding'
<1>1. OfGate(selection)' /\ OfGate(background)' /\ OfGate(saved)'
  <2>1. OfGate(selection') /\ OfGate(background') /\ OfGate(saved')
    BY NextOfGate DEF Responding
  <2>. QED BY <2>1 DEF OfGate
<1> DEFINE Answered == /\ collector # None /\ collector.stage = "publish" => response = None
                       /\ collector # None /\ collector.stage = "return"
                             => response = None \/ response.batches = background
<1>2. Answered'
  <2>0. Answered /\ (collector # None => DOMAIN collector = Jobs)
    BY DEF Responding, QueueInv, Collects, Collecting
  <2>1. CASE UNCHANGED <<collector, response, background>>
    BY <2>0, <2>1
  <2>2. CASE collector' = None
    BY <2>2
  <2>3. CASE Collect
    BY <2>3 DEF Collect
  <2>4. CASE LookUp \/ CollectGroup
    <3>1. collector # None /\ collector'.stage = collector.stage /\ UNCHANGED <<response, background>>
      BY <2>0, <2>4 DEF LookUp, CollectGroup, files, Jobs
    <3>. QED BY <2>0, <3>1
  <2>5. CASE LookedUp \/ Overlay \/ CheckInput \/ WriteBackground \/ WriteCatalog
    <3>1. collector'.stage \in {"completed", "overlay", "background", "catalog", "unlink"}
      BY <2>0, <2>5 DEF LookedUp, Overlay, CheckInput, WriteBackground, WriteCatalog, Jobs
    <3>. QED BY <3>1
  <2>6. CASE Unlink
    <3>1. collector'.stage = "publish" /\ response' = None
      BY <2>0, <2>6 DEF Unlink, Jobs
    <3>. QED BY <3>1
  <2>7. CASE PublishWorker
    <3>1. /\ collector'.stage = "return" /\ UNCHANGED background
          /\ collector # None /\ collector.stage = "publish"
          /\ response' = response \/ response' = [kind |-> "response", batches |-> background]
      BY <2>0, <2>7 DEF PublishWorker, Jobs
    <3>. QED BY <2>0, <3>1
  <2>8. CASE Deliver \/ CollectFail
    BY <2>2, <2>8 DEF Deliver, CollectFail
  <2>9. CASE Edit \/ Prepare \/ Quit \/ Start \/ Plan \/ PlanFails \/ Take \/ Complete \/ UNCHANGED vars
    BY <2>1, <2>2, <2>9 DEF Edit, Prepare, Quit, Start, Plan, PlanFails, Take, Complete, vars,
       collecting, files
  <2>10. ASSUME NEW id \in Ids, Work(id) \/ WorkerFail(id) PROVE UNCHANGED <<collector, response, background>>
    BY <2>10 DEF Work, WorkerProve, WorkerReturn, WorkerFail, collecting, files
  <2>. QED BY <2>1, <2>2, <2>3, <2>4, <2>5, <2>6, <2>7, <2>8, <2>9, <2>10 DEF Next, CollectStep
<1>. QED BY <1>1, <1>2 DEF Responding

LEMMA RespondingInvariant == Spec => []Responding
<1>1. Init => Responding
  BY DEF Init, Responding, OfGate
<1>. QED BY <1>1, NextResponding, QueueInvariant, PTL DEF Spec

(* Only a delivery tells the runtime what is published.                      *)
LEMMA OnlyDeliver ==
  ASSUME [Next]_vars, active' # active PROVE Deliver
<1> USE DEF files, collecting, environment
<1>1. CASE Edit \/ Prepare \/ Quit \/ Start \/ Plan \/ PlanFails
  BY <1>1 DEF Edit, Prepare, Quit, Start, Plan, PlanFails
<1>2. CASE Take \/ Collect \/ Complete \/ CollectFail
  BY <1>2 DEF Take, Collect, Complete, CollectFail
<1>3. CASE CollectStep
  BY <1>3 DEF CollectStep, LookUp, LookedUp, CollectGroup, Overlay, CheckInput, WriteBackground,
              WriteCatalog, Unlink, PublishWorker
<1>4. ASSUME NEW id \in Ids, Work(id) \/ WorkerFail(id) PROVE active' = active
  BY <1>4 DEF Work, WorkerProve, WorkerReturn, WorkerFail
<1>5. CASE UNCHANGED vars
  BY <1>5 DEF vars
<1>. QED BY <1>1, <1>2, <1>3, <1>4, <1>5 DEF Next

(* The session hands on what this collect's worker published, for the        *)
(* database as it is, out of batches that their gates admit.                 *)
THEOREM DeliveredIsAlwaysCurrent == Spec => DeliveredIsCurrent
<1>1. ASSUME QueueInv, Responding, [Next]_vars, active' # active
      PROVE  /\ active'.input = input /\ active'.batches = background
             /\ \A b \in background : b.of # "root" => b.own \in Admits[b.of][b.at]
  <2>1. /\ collector # None /\ collector.stage = "return" /\ response # None /\ input = plan.input
        /\ active' = [kind |-> "active", input |-> queue.input, batches |-> response.batches]
    BY <1>1, OnlyDeliver DEF Deliver
  <2>2. plan.input = queue.input
    BY <1>1, <2>1 DEF QueueInv, Sessions, Collects
  <2>. QED BY <1>1, <2>1, <2>2 DEF Responding, OfGate
<1>. QED BY <1>1, QueueInvariant, RespondingInvariant, PTL DEF Spec, DeliveredIsCurrent
=============================================================================
