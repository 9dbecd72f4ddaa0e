------------------------- MODULE CdbTransactionProofs -------------------------
(***************************************************************************)
(* Proofs about CdbTransaction: type correctness, and that readers pair    *)
(* only what one run of the tools has made.  An editor's step changes one  *)
(* transaction, so the invariant is a predicate on transactions (Sound)    *)
(* that each step re-establishes for the one it changes (EditorStep); the  *)
(* reader's steps rely on every binding on disk being a pair.  Then what a *)
(* commit leaves: a success is fresh, a failure loses nothing, the active  *)
(* database changes last.                                                  *)
(***************************************************************************)
EXTENDS CdbTransaction, TLAPS

\* What IInv says of one transaction, when the tools have made these pairs.
Pair(b, pairs) == <<b.shard.version, b.active.version>> \in pairs
Sound(t, pairs) ==
  /\ \A b \in {t.stage, t.plan.result, t.backup.result} : b # None => Pair(b, pairs)
  /\ t.editor \in {"idle", "staging"} => t.helper = "none"
  /\ t.failed \subseteq t.published
  /\ t.helper = "plan" => t.stage # None
  /\ t.helper \in {"none", "plan", "backup"} => t.published = {}
  /\ t.helper = "publish" => /\ t.published \subseteq {f \in File : t.plan[f] # None}
                             /\ \A f \in File : t.plan[f] # None => t.backup[f] # None
  /\ t.helper = "rollback" => \A f \in t.published : t.backup[f] # None

\* The invariant, by transactions.
LEMMA SoundTransactions ==
  BindingsPair /\ BackedUp <=> Paired(live.result) /\ \A p \in Proc : Sound(tx[p], made)
  BY DEF BindingsPair, BackedUp, Paired, Planned, Sound, Pair

\* The order of replacement has a first and a last file in any set of files.
LEMMA FirstAndLast == ASSUME NEW S \in SUBSET File, S # {}
                      PROVE  First(S) \in S /\ Last(S) \in S
<1>1. Rank("shard") = 1 /\ Rank("result") = 2 /\ Rank("active") = 3
  BY DEF Rank, File
<1>2. \E f \in S : \A g \in S : Rank(f) <= Rank(g)
  <2>1. CASE "shard" \in S
    BY <1>1, <2>1 DEF File
  <2>2. CASE "shard" \notin S /\ "result" \in S
    BY <1>1, <2>2 DEF File
  <2>3. CASE "shard" \notin S /\ "result" \notin S
    <3>1. S = {"active"}
      BY <2>3 DEF File
    <3> QED  BY <1>1, <3>1
  <2> QED  BY <2>1, <2>2, <2>3
<1>3. \E f \in S : \A g \in S : Rank(g) <= Rank(f)
  <2>1. CASE "active" \in S
    BY <1>1, <2>1 DEF File
  <2>2. CASE "active" \notin S /\ "result" \in S
    BY <1>1, <2>2 DEF File
  <2>3. CASE "active" \notin S /\ "result" \notin S
    <3>1. S = {"shard"}
      BY <2>3 DEF File
    <3> QED  BY <1>1, <3>1
  <2> QED  BY <2>1, <2>2, <2>3
<1> QED  BY <1>2, <1>3 DEF First, Last

\* Files saved, restored, removed: what the helper does to a collection of bytes.
LEMMA Saved == ASSUME NEW b \in Some, NEW c \in Bytes, NEW f \in File
               PROVE  /\ [b EXCEPT ![f] = c[f]] \in Some
                      /\ [b EXCEPT ![f] = None] \in Some
                      /\ c[f] # None
  BY NoneIsNoContent DEF Some, File, Bytes

LEMMA Restored == ASSUME NEW b \in Some, NEW c \in Bytes, NEW f \in File, b[f] # None
                  PROVE  [c EXCEPT ![f] = b[f]] \in Bytes
  BY DEF Some, File, Bytes

LEMMA Removed == ASSUME NEW b \in Some, NEW S \in SUBSET File
                 PROVE  [f \in File |-> IF f \in S THEN None ELSE b[f]] \in Some
  BY DEF Some, File

LEMMA NothingIsSome == Nothing \in Some
  BY DEF Nothing, Some, File

LEMMA BytesAreSome == Bytes \subseteq Some
  BY DEF Bytes, Some

\* An idle editor has no transaction.
LEMMA IdleIsSound == Idle \in Tx /\ \A pairs : Sound(Idle, pairs)
<1>1. Nothing.result = None
  BY DEF Nothing, File
<1> QED
  BY <1>1, NothingIsSome DEF Idle, Tx, Sound

\* Bounds are spent one by one.
LEMMA Spent == ASSUME TypeOK, NEW b \in DOMAIN Limit, Spend(b) \/ UNCHANGED used
               PROVE  used' \in [DOMAIN Limit -> Nat]
  BY DEF TypeOK, Spend

LEMMA Bounds == {"run", "read", "fault", "unlink", "death"} = DOMAIN Limit
  BY DEF Limit

\* More pairs do no harm.
LEMMA MorePairs == ASSUME NEW t, NEW pairs, NEW more, pairs \subseteq more, Sound(t, pairs)
                   PROVE  Sound(t, more)
  BY DEF Sound, Pair

\* A step of an editor or its helper keeps the invariant when it leaves its own
\* transaction sound and a paired result on disk.
LEMMA EditorStep ==
  ASSUME IInv, NEW p \in Proc, NEW t \in Tx, tx' = [tx EXCEPT ![p] = t],
         live' \in Bytes, Pair(live'.result, made'),
         made \subseteq made', made' \subseteq Version \X Version, Sound(t, made'),
         lease' \in Proc \cup {None}, orphaned' \in BOOLEAN,
         used' \in [DOMAIN Limit -> Nat], reader' = reader
  PROVE  IInv'
<1>1. TypeOK'
  BY DEF IInv, TypeOK
<1>2. \A q \in Proc : Sound(tx[q], made')
  BY SoundTransactions, MorePairs DEF IInv
<1>3. \A q \in Proc : Sound(tx'[q], made')
  BY <1>2 DEF IInv, TypeOK
<1>4. BindingsPair' /\ BackedUp'
  BY <1>3 DEF BindingsPair, BackedUp, Paired, Planned, Sound, Pair
<1>5. ReaderVerified'
  BY DEF IInv, ReaderVerified, Paired
<1> QED  BY <1>1, <1>4, <1>5 DEF IInv

LEMMA InitInv == Init => IInv
<1> SUFFICES ASSUME Init PROVE IInv
  OBVIOUS
<1>1. PICK m \in Products :
        /\ live = [shard |-> m[1], result |-> [shard |-> m[1], active |-> m[2]], active |-> m[2]]
        /\ made = {<<m[1].version, m[2].version>>}
  BY DEF Init
<1>2. m[1] \in Content /\ m[2] \in Content
  BY ProductsAreContents
<1>3. live \in Bytes /\ Paired(live.result) /\ made \subseteq Version \X Version
  BY <1>1, <1>2 DEF Bytes, Binding, Content, Paired
<1>4. \A p \in Proc : tx[p] \in Tx /\ Sound(tx[p], made)
  BY IdleIsSound DEF Init
<1>5. TypeOK
  BY <1>3, <1>4, IdleIsSound DEF TypeOK, Init, Waits
<1>6. ReaderVerified
  BY DEF Init, Waits, ReaderVerified
<1> QED  BY <1>3, <1>4, <1>5, <1>6, SoundTransactions DEF IInv
--------------------------------------------------------------------------------
(* The steps of an editor and its helper. *)

LEMMA BeginInv == ASSUME IInv, NEW p \in Proc, Begin(p) PROVE IInv'
<1> DEFINE t == [tx[p] EXCEPT !.editor = "staging"]
<1>1. t \in Tx /\ Sound(t, made)
  BY SoundTransactions DEF IInv, TypeOK, Tx, Sound, Begin
<1>2. tx' = [tx EXCEPT ![p] = t]
  BY DEF Begin
<1>3. used' \in [DOMAIN Limit -> Nat]
  BY Spent, Bounds DEF IInv, Begin
<1> QED  BY <1>1, <1>2, <1>3, EditorStep DEF IInv, TypeOK, Begin, BindingsPair, Paired, Pair

LEMMA StageInv == ASSUME IInv, NEW p \in Proc, Stage(p) PROVE IInv'
<1>1. PICK m \in Products :
        /\ tx' = [tx EXCEPT ![p].editor = "committing", ![p].helper = "plan",
                            ![p].stage = [shard |-> m[1], active |-> m[2]]]
        /\ made' = made \cup {<<m[1].version, m[2].version>>}
  BY DEF Stage
<1> DEFINE b == [shard |-> m[1], active |-> m[2]]
           t == [tx[p] EXCEPT !.editor = "committing", !.helper = "plan", !.stage = b]
<1>2. m[1] \in Content /\ m[2] \in Content
  BY ProductsAreContents
<1>3. made' \subseteq Version \X Version /\ made \subseteq made' /\ Pair(b, made')
  BY <1>1, <1>2 DEF IInv, TypeOK, Content, Pair
<1>4. b \in Binding /\ b # None
  BY <1>2, NoneIsNoContent DEF Binding
<1>5. tx' = [tx EXCEPT ![p] = t]
  BY <1>1
<1>6. tx[p] \in Tx /\ Sound(tx[p], made')
  BY <1>3, SoundTransactions, MorePairs DEF IInv, TypeOK
<1> HIDE DEF b
<1>7. t \in Tx
  BY <1>4, <1>6 DEF Tx
<1>8. Sound(t, made')
  BY <1>3, <1>4, <1>6 DEF Sound, Stage, Tx
<1> QED
  BY <1>3, <1>5, <1>7, <1>8, EditorStep
  DEF IInv, TypeOK, Stage, BindingsPair, Paired, Pair

\* An idle or dead editor keeps nothing: leaving a transaction altogether.
LEMMA LeaveInv ==
  ASSUME IInv, NEW p \in Proc, NEW e \in {"idle", "dead"}, tx' = [tx EXCEPT ![p] = [Idle EXCEPT !.editor = e]],
         UNCHANGED <<live, made, reader>>, lease' \in Proc \cup {None}, orphaned' = orphaned,
         used' \in [DOMAIN Limit -> Nat]
  PROVE  IInv'
<1> DEFINE t == [Idle EXCEPT !.editor = e]
<1>1. t \in Tx /\ Sound(t, made')
  BY IdleIsSound DEF Tx, Sound, Idle
<1> QED
  BY <1>1, EditorStep DEF IInv, TypeOK, BindingsPair, Paired, Pair

LEMMA EndInv == ASSUME IInv, NEW p \in Proc, StageFails(p) \/ Complete(p) \/ Restart(p) PROVE IInv'
<1>1. Idle = [Idle EXCEPT !.editor = "idle"]
  BY DEF Idle
<1>2. tx' = [tx EXCEPT ![p] = [Idle EXCEPT !.editor = "idle"]]
  BY <1>1 DEF StageFails, Complete, Restart
<1> QED
  BY <1>2, LeaveInv DEF IInv, TypeOK, StageFails, Complete, Restart

\* An answer ends the helper's work: its transaction stays sound with fewer backups.
LEMMA AnswerInv ==
  ASSUME IInv, NEW p \in Proc, NEW t \in Tx, NEW a \in {"ok", "failed", "recovery", "killed"},
         Answer(p, t, a), tx[p].editor \notin {"idle", "staging"}, t.editor = tx[p].editor,
         t.failed = tx[p].failed, t.published = tx[p].published,
         t.stage = tx[p].stage, t.plan = tx[p].plan, t.backup.result \in {tx[p].backup.result, None},
         UNCHANGED <<live, lease, reader, orphaned, made>>, used' \in [DOMAIN Limit -> Nat]
  PROVE  IInv'
<1> DEFINE n == [t EXCEPT !.helper = "answered", !.answer = a]
<1>1. n \in Tx
  BY DEF Tx
<1>2. Sound(tx[p], made)
  BY SoundTransactions DEF IInv
<1>3. Sound(n, made')
  BY <1>2 DEF Sound, Tx
<1>4. tx' = [tx EXCEPT ![p] = n]
  BY DEF Answer
<1> QED
  BY <1>1, <1>3, <1>4, EditorStep DEF IInv, TypeOK, BindingsPair, Paired, Pair

\* What the commit publishes: equivalent bytes are interchangeable in a pair.
LEMMA Planning == ASSUME IInv, NEW stage \in Binding, Paired(stage)
                  PROVE  /\ Replacements(stage) \in Some
                         /\ Replacements(stage).result # None => Paired(Replacements(stage).result)
<1>1. live.shard \in Content /\ live.active \in Content /\ stage.shard \in Content /\ stage.active \in Content
  BY DEF IInv, TypeOK, Bytes, Binding
<1>2. Provenance(stage) \in Binding
  BY <1>1 DEF Provenance, Kept, Binding
<1>3. Paired(Provenance(stage))
  BY <1>1 DEF Provenance, Kept, Equivalent, Paired
<1>4. Replacements(stage).result \in {None, Provenance(stage)}
  BY DEF Replacements
<1>5. Replacements(stage) \in Some
  BY <1>1, <1>2 DEF Replacements, Some
<1> QED  BY <1>3, <1>4, <1>5

LEMMA PlanInv == ASSUME IInv, NEW p \in Proc, Plan(p) PROVE IInv'
<1> DEFINE t == [tx[p] EXCEPT !.before = live]
           n == [t EXCEPT !.helper = "backup", !.plan = Replacements(t.stage)]
<1>1. tx[p] \in Tx /\ Sound(tx[p], made) /\ tx[p].editor \notin {"idle", "staging"}
  BY SoundTransactions DEF IInv, TypeOK, Plan, Sound
<1>2. live \in Some
  BY BytesAreSome DEF IInv, TypeOK
<1>3. t \in Tx
  BY <1>1, <1>2 DEF Tx
<1>4. used' \in [DOMAIN Limit -> Nat]
  BY DEF IInv, TypeOK, Plan
<1>5. CASE Answer(p, t, "failed")
  <2>1. /\ t.failed = tx[p].failed /\ t.published = tx[p].published
        /\ t.editor = tx[p].editor /\ t.stage = tx[p].stage /\ t.plan = tx[p].plan
        /\ t.backup.result = tx[p].backup.result
    BY <1>1 DEF Tx
  <2> QED  BY <1>1, <1>3, <1>4, <1>5, <2>1, AnswerInv DEF Plan
<1>6. CASE tx' = [tx EXCEPT ![p] = n]
  <2>1. t.stage \in Binding /\ Paired(t.stage)
    BY <1>1 DEF Tx, Plan, Sound, Pair, Paired
  <2> DEFINE r == Replacements(t.stage)
  <2>2. r \in Some /\ (r.result # None => Paired(r.result))
    BY <2>1, Planning
  <2> HIDE DEF r
  <2>3. n = [tx[p] EXCEPT !.before = live, !.helper = "backup", !.plan = r]
    BY <1>1 DEF r, Tx
  <2>4. n \in Tx
    BY <1>1, <1>2, <2>2, <2>3 DEF Tx
  <2>5. /\ n.failed = tx[p].failed /\ n.editor = tx[p].editor /\ n.helper = "backup"
        /\ n.published = tx[p].published /\ n.published = {}
        /\ n.stage = tx[p].stage /\ n.plan = r /\ n.backup = tx[p].backup
    BY <1>1, <2>3 DEF Tx, Plan, Sound
  <2> HIDE DEF n
  <2>6. Sound(n, made)
    BY <1>1, <2>2, <2>5 DEF Sound, Pair, Paired
  <2> QED
    BY <1>4, <1>6, <2>4, <2>6, EditorStep DEF IInv, TypeOK, Plan, BindingsPair, Paired, Pair
<1> QED  BY <1>5, <1>6 DEF Plan

LEMMA BackUpInv == ASSUME IInv, NEW p \in Proc, BackUp(p) PROVE IInv'
<1> DEFINE todo == {f \in Planned(p) : tx[p].backup[f] = None}
           f == First(todo)
           b == [tx[p].backup EXCEPT ![f] = live[f]]
<1>1. tx[p] \in Tx /\ Sound(tx[p], made) /\ tx[p].editor \notin {"idle", "staging"}
  BY SoundTransactions DEF IInv, TypeOK, BackUp, Sound
<1>2. tx[p].published = {}
  BY <1>1 DEF Sound, BackUp
<1>3. used' \in [DOMAIN Limit -> Nat]
  BY Spent, Bounds DEF IInv, TypeOK, BackUp
<1>4. live \in Bytes /\ Pair(live.result, made)
  BY DEF IInv, TypeOK, BindingsPair, Paired, Pair
<1>5. CASE todo = {} /\ tx' = [tx EXCEPT ![p].helper = "publish"]
  <2> DEFINE t == [tx[p] EXCEPT !.helper = "publish"]
  <2>1. t \in Tx /\ Sound(t, made)
    BY <1>1, <1>2, <1>5 DEF Tx, Sound, Planned
  <2> QED
    BY <1>3, <1>4, <1>5, <2>1, EditorStep DEF IInv, TypeOK, BackUp
<1>6. CASE todo # {} /\ tx' = [tx EXCEPT ![p].backup[f] = live[f]]
  <2>1. f \in File
    BY <1>6, FirstAndLast DEF Planned
  <2>2. tx[p].backup \in Some
    BY <1>1 DEF Tx
  <2>3. b \in Some
    BY <1>4, <2>1, <2>2, Saved
  <2>4. b.result \in {tx[p].backup.result, live.result}
    BY <2>1, <2>2 DEF Some, File
  <2> HIDE DEF b
  <2> DEFINE t == [tx[p] EXCEPT !.backup = b]
  <2>5. t \in Tx
    BY <1>1, <2>3 DEF Tx
  <2>6. Sound(t, made)
    BY <1>1, <1>2, <1>4, <2>4 DEF Sound, Tx, BackUp
  <2>7. tx' = [tx EXCEPT ![p] = t]
    BY <1>6 DEF b
  <2> QED
    BY <1>3, <1>4, <2>5, <2>6, <2>7, EditorStep DEF IInv, TypeOK, BackUp
<1>7. CASE tx' = [tx EXCEPT ![p].helper = "rollback"]
  <2> DEFINE t == [tx[p] EXCEPT !.helper = "rollback"]
  <2>1. t \in Tx /\ Sound(t, made)
    BY <1>1, <1>2 DEF Tx, Sound
  <2> QED
    BY <1>3, <1>4, <1>7, <2>1, EditorStep DEF IInv, TypeOK, BackUp
<1> QED  BY <1>5, <1>6, <1>7 DEF BackUp

LEMMA PublishInv == ASSUME IInv, NEW p \in Proc, Publish(p) PROVE IInv'
<1> DEFINE f == First(Planned(p) \ tx[p].published)
<1>1. tx[p] \in Tx /\ Sound(tx[p], made) /\ tx[p].editor \notin {"idle", "staging"}
  BY SoundTransactions DEF IInv, TypeOK, Publish, Sound
<1>2. /\ tx[p].published \subseteq Planned(p)
      /\ \A g \in Planned(p) : tx[p].backup[g] # None
  BY <1>1 DEF Sound, Publish, Planned
<1>3. used' \in [DOMAIN Limit -> Nat]
  BY Spent, Bounds DEF IInv, TypeOK, Publish
<1>4. live \in Bytes /\ Pair(live.result, made)
  BY DEF IInv, TypeOK, BindingsPair, Paired, Pair
<1>5. f \in Planned(p) \ tx[p].published /\ f \in File
  <2>1. Planned(p) \ tx[p].published # {} /\ Planned(p) \subseteq File
    BY <1>2 DEF Publish, Planned
  <2> QED  BY <2>1, FirstAndLast
<1>6. CASE /\ live' = [live EXCEPT ![f] = tx[p].plan[f]]
           /\ tx' = [tx EXCEPT ![p].published = @ \cup {f}]
  <2> HIDE DEF f
  <2>1. tx[p].plan \in Some /\ tx[p].plan[f] # None
    BY <1>1, <1>5 DEF Tx, Planned
  <2>2. live' \in Bytes
    BY <1>4, <1>5, <1>6, <2>1, Restored
  <2>3. live'.result = live.result \/ (f = "result" /\ live'.result = tx[p].plan.result)
    BY <1>4, <1>5, <1>6 DEF Bytes, File
  <2>4. Pair(live'.result, made)
    BY <1>1, <1>4, <2>1, <2>3 DEF Sound
  <2> DEFINE t == [tx[p] EXCEPT !.published = @ \cup {f}]
  <2>5. t \in Tx
    BY <1>1, <1>5 DEF Tx
  <2>6. Sound(t, made)
    BY <1>1, <1>2, <1>5 DEF Sound, Tx, Publish, Planned
  <2>7. tx' = [tx EXCEPT ![p] = t]
    BY <1>6
  <2> QED
    BY <1>3, <2>2, <2>4, <2>5, <2>6, <2>7, EditorStep DEF IInv, TypeOK, Publish
<1>7. CASE tx' = [tx EXCEPT ![p].helper = "rollback"] /\ UNCHANGED live
  <2> DEFINE t == [tx[p] EXCEPT !.helper = "rollback"]
  <2>1. t \in Tx /\ Sound(t, made)
    BY <1>1, <1>2 DEF Tx, Sound
  <2> QED
    BY <1>3, <1>4, <1>7, <2>1, EditorStep DEF IInv, TypeOK, Publish
<1> QED  BY <1>6, <1>7 DEF Publish

LEMMA RollBackInv == ASSUME IInv, NEW p \in Proc, RollBack(p) PROVE IInv'
<1> DEFINE f == Last(tx[p].published \ tx[p].failed)
<1>1. tx[p] \in Tx /\ Sound(tx[p], made) /\ tx[p].editor \notin {"idle", "staging"}
  BY SoundTransactions DEF IInv, TypeOK, RollBack, Sound
<1>2. \A g \in tx[p].published : tx[p].backup[g] # None
  BY <1>1 DEF Sound, RollBack
<1>3. used' \in [DOMAIN Limit -> Nat]
  BY Spent, Bounds DEF IInv, TypeOK, RollBack
<1>4. live \in Bytes /\ Pair(live.result, made)
  BY DEF IInv, TypeOK, BindingsPair, Paired, Pair
<1>5. f \in tx[p].published \ tx[p].failed /\ f \in File
  <2>1. tx[p].published \ tx[p].failed # {} /\ tx[p].published \subseteq File
    BY <1>1 DEF RollBack, Tx, Sound
  <2> QED  BY <2>1, FirstAndLast
<1>6. CASE /\ live' = [live EXCEPT ![f] = tx[p].backup[f]]
           /\ tx' = [tx EXCEPT ![p].published = @ \ {f}, ![p].backup[f] = None]
  <2> DEFINE b == [tx[p].backup EXCEPT ![f] = None]
             t == [tx[p] EXCEPT !.published = @ \ {f}, !.backup = b]
  <2> HIDE DEF f
  <2>1. tx[p].backup \in Some /\ tx[p].backup[f] # None
    BY <1>1, <1>2, <1>5 DEF Tx
  <2>2. live' \in Bytes
    BY <1>4, <1>5, <1>6, <2>1, Restored
  <2>3. live'.result = live.result \/ (f = "result" /\ live'.result = tx[p].backup.result)
    BY <1>4, <1>5, <1>6 DEF Bytes, File
  <2>4. Pair(live'.result, made)
    BY <1>1, <1>4, <2>1, <2>3 DEF Sound
  <2>5. b \in Some
    BY <1>4, <1>5, <2>1, Saved
  <2>6. b.result \in {tx[p].backup.result, None} /\ \A g \in File \ {f} : b[g] = tx[p].backup[g]
    BY <1>5, <2>1 DEF Some, File
  <2>7. tx' = [tx EXCEPT ![p] = t]
    BY <1>6
  <2> HIDE DEF b
  <2>8. t \in Tx
    BY <1>1, <2>5 DEF Tx
  <2>9. Sound(t, made)
    <3>1. /\ t.failed = tx[p].failed /\ t.editor = tx[p].editor /\ t.helper = "rollback" /\ t.published = tx[p].published \ {f}
          /\ t.stage = tx[p].stage /\ t.plan = tx[p].plan /\ t.backup = b
      BY <1>1 DEF Tx, RollBack
    <3>2. tx[p].published \subseteq File
      BY <1>1 DEF Tx
    <3> HIDE DEF t
    <3> QED  BY <1>1, <1>2, <1>5, <2>6, <3>1, <3>2 DEF Sound
  <2> QED
    BY <1>3, <2>2, <2>4, <2>7, <2>8, <2>9, EditorStep DEF IInv, TypeOK, RollBack
<1>7. CASE tx' = [tx EXCEPT ![p].failed = @ \cup {f}] /\ UNCHANGED live
  <2> HIDE DEF f
  <2> DEFINE t == [tx[p] EXCEPT !.failed = @ \cup {f}]
  <2>1. t \in Tx
    BY <1>1, <1>5 DEF Tx
  <2>2. Sound(t, made)
    BY <1>1, <1>5 DEF Tx, Sound
  <2> QED
    BY <1>3, <1>4, <1>7, <2>1, <2>2, EditorStep DEF IInv, TypeOK, RollBack
<1> QED  BY <1>6, <1>7 DEF RollBack

LEMMA CleanInv == ASSUME IInv, NEW p \in Proc, Clean(p) PROVE IInv'
<1> DEFINE Without(S) == [tx[p] EXCEPT !.backup = [f \in File |-> IF f \in S THEN None ELSE @[f]]]
<1>1. tx[p] \in Tx /\ tx[p].editor \notin {"idle", "staging"}
  <2>1. Sound(tx[p], made)
    BY SoundTransactions DEF IInv
  <2> QED  BY <2>1 DEF IInv, TypeOK, Clean, Sound
<1>2. used' \in [DOMAIN Limit -> Nat]
  BY Spent, Bounds DEF IInv, TypeOK, Clean
<1>3. PICK S \in SUBSET File, a \in {"ok", "failed", "recovery"} : Answer(p, Without(S), a)
  <2>1. Removable(tx[p]) \subseteq File /\ Outcome(tx[p]) \in {"ok", "failed", "recovery"}
    BY DEF Removable, Outcome
  <2>2. \A f : {g \in Removable(tx[p]) : Rank(g) < Rank(f)} \subseteq File
    BY <2>1
  <2> QED  BY <2>1, <2>2 DEF Clean
<1> DEFINE b == [f \in File |-> IF f \in S THEN None ELSE tx[p].backup[f]]
           t == [tx[p] EXCEPT !.backup = b]
<1>4. tx[p].backup \in Some
  BY <1>1 DEF Tx
<1>5. b \in Some
  BY <1>4, Removed
<1>6. b.result \in {tx[p].backup.result, None}
  BY DEF File
<1>7. Without(S) = t
  OBVIOUS
<1> HIDE DEF b
<1>8. /\ t \in Tx /\ t.failed = tx[p].failed /\ t.published = tx[p].published
      /\ t.editor = tx[p].editor /\ t.stage = tx[p].stage /\ t.plan = tx[p].plan /\ t.backup = b
  BY <1>1, <1>5 DEF Tx
<1> QED  BY <1>1, <1>2, <1>3, <1>6, <1>7, <1>8, AnswerInv DEF Clean

LEMMA HelperDiesInv == ASSUME IInv, NEW p \in Proc, HelperDies(p) PROVE IInv'
<1>1. tx[p] \in Tx /\ tx[p].editor \notin {"idle", "staging"}
  <2>1. Sound(tx[p], made)
    BY SoundTransactions DEF IInv
  <2> QED  BY <2>1 DEF IInv, TypeOK, HelperDies, Running, Sound
<1>2. used' \in [DOMAIN Limit -> Nat]
  BY Spent, Bounds DEF IInv, HelperDies
<1> QED  BY <1>1, <1>2, AnswerInv DEF HelperDies

LEMMA EditorDiesInv == ASSUME IInv, NEW p \in Proc, EditorDies(p) PROVE IInv'
<1>1. used' \in [DOMAIN Limit -> Nat]
  BY Spent, Bounds DEF IInv, EditorDies
<1>2. CASE tx' = [tx EXCEPT ![p] = [Idle EXCEPT !.editor = "dead"]] /\ UNCHANGED orphaned
  BY <1>1, <1>2, LeaveInv DEF EditorDies
<1>3. CASE Running(p) /\ tx' = [tx EXCEPT ![p].editor = "dead"] /\ orphaned' = TRUE
  <2> DEFINE t == [tx[p] EXCEPT !.editor = "dead"]
  <2>1. tx[p] \in Tx /\ Sound(tx[p], made)
    BY SoundTransactions DEF IInv, TypeOK
  <2>2. t \in Tx /\ Sound(t, made)
    BY <2>1 DEF Tx, Sound
  <2> QED
    BY <1>1, <1>3, <2>2, EditorStep DEF IInv, TypeOK, EditorDies, BindingsPair, Paired, Pair
<1> QED  BY <1>2, <1>3 DEF EditorDies
--------------------------------------------------------------------------------
(* The steps of the reader. *)

LEMMA ReaderKeeps ==
  ASSUME IInv, UNCHANGED <<live, lease, tx, orphaned, made>>, used' \in [DOMAIN Limit -> Nat],
         ReaderVerified',
         reader' \in [at : {"proof", "active", "shard", "accepted"}, again : BOOLEAN,
                      proof : Binding \cup {None}, active : Content \cup {None}, shard : Content \cup {None}]
  PROVE  IInv'
<1>1. TypeOK'
  BY DEF IInv, TypeOK
<1>2. BindingsPair' /\ BackedUp'
  BY DEF IInv, BindingsPair, BackedUp, Paired, Planned
<1> QED  BY <1>1, <1>2 DEF IInv

LEMMA ReadProofInv == ASSUME IInv, ReadProof PROVE IInv'
<1>1. used' \in [DOMAIN Limit -> Nat]
  BY Spent, Bounds DEF IInv, TypeOK, ReadProof
<1>2. live.result \in Binding /\ live.result # None /\ Paired(live.result)
  BY NoneIsNoContent DEF IInv, TypeOK, Bytes, BindingsPair
<1>3. ReaderVerified'
  BY <1>2 DEF IInv, TypeOK, ReadProof, ReaderVerified, Paired
<1> QED  BY <1>1, <1>2, <1>3, ReaderKeeps DEF IInv, TypeOK, ReadProof

LEMMA ReadActiveInv == ASSUME IInv, ReadActive PROVE IInv'
<1>1. live.active \in Content /\ live.active # None
  BY NoneIsNoContent DEF IInv, TypeOK, Bytes
<1>2. CASE ~Verified("active")
  BY <1>2, ReaderKeeps DEF IInv, TypeOK, ReadActive, ReaderVerified, Waits
<1>3. CASE Verified("active")
  <2>1. reader' = [reader EXCEPT !.at = "shard", !.active = live.active]
    BY <1>3 DEF ReadActive
  <2>2. ReaderVerified'
    BY <1>1, <1>3, <2>1 DEF IInv, TypeOK, ReadActive, ReaderVerified, Verified, Paired
  <2> QED  BY <1>1, <2>1, <2>2, ReaderKeeps DEF IInv, TypeOK, ReadActive
<1> QED  BY <1>2, <1>3

LEMMA ReadShardInv == ASSUME IInv, ReadShard PROVE IInv'
<1>1. live.shard \in Content /\ live.shard # None
  BY NoneIsNoContent DEF IInv, TypeOK, Bytes
<1>2. CASE ~Verified("shard")
  BY <1>2, ReaderKeeps DEF IInv, TypeOK, ReadShard, ReaderVerified, Waits
<1>3. CASE Verified("shard") /\ reader.again
  <2>1. reader' = [reader EXCEPT !.at = "accepted"]
    BY <1>3 DEF ReadShard
  <2>2. ReaderVerified'
    BY <1>3, <2>1 DEF IInv, TypeOK, ReadShard, ReaderVerified, Paired
  <2> QED  BY <2>1, <2>2, ReaderKeeps DEF IInv, TypeOK, ReadShard
<1>4. CASE Verified("shard") /\ ~reader.again
  <2>1. reader' = [reader EXCEPT !.at = "proof", !.again = TRUE, !.shard = live.shard]
    BY <1>4 DEF ReadShard
  <2>2. reader.active = reader.proof.active /\ live.shard = reader.proof.shard /\ Paired(reader.proof)
    BY <1>4 DEF IInv, ReadShard, ReaderVerified, Verified
  <2>3. reader.active # None
    BY <1>4, <2>2, NoneIsNoContent DEF IInv, TypeOK, ReadShard, ReaderVerified, Binding
  <2>4. ReaderVerified'
    <3>1. /\ reader'.at = "proof" /\ reader'.again = TRUE
          /\ reader'.shard = live.shard /\ reader'.active = reader.active
      BY <2>1 DEF IInv, TypeOK
    <3> QED  BY <1>1, <2>2, <2>3, <3>1 DEF ReadShard, ReaderVerified, Paired
  <2> QED  BY <1>1, <2>1, <2>4, ReaderKeeps DEF IInv, TypeOK, ReadShard
<1> QED  BY <1>2, <1>3, <1>4
--------------------------------------------------------------------------------
LEMMA Inductive == Spec => []IInv
<1>1. IInv /\ [Next]_vars => IInv'
  <2> SUFFICES ASSUME IInv, [Next]_vars PROVE IInv'
    OBVIOUS
  <2>1. CASE UNCHANGED vars
    BY <2>1 DEF vars, IInv, TypeOK, BindingsPair, BackedUp, ReaderVerified, Paired, Planned
  <2>2. ASSUME NEW p \in Proc,
               \/ Begin(p) \/ Stage(p) \/ StageFails(p) \/ Complete(p)
               \/ Plan(p) \/ BackUp(p) \/ Publish(p) \/ RollBack(p) \/ Clean(p)
               \/ HelperDies(p) \/ EditorDies(p) \/ Restart(p)
        PROVE  IInv'
    BY <2>2, BeginInv, StageInv, EndInv, PlanInv, BackUpInv, PublishInv, RollBackInv, CleanInv,
       HelperDiesInv, EditorDiesInv
  <2>3. CASE ReaderDone
    BY <2>3, ReaderKeeps DEF IInv, TypeOK, ReaderDone, ReaderVerified, Waits
  <2> QED
    BY <2>1, <2>2, <2>3, ReadProofInv, ReadActiveInv, ReadShardInv DEF Next
<1> QED  BY <1>1, InitInv, PTL DEF Spec

\* Every state is well typed.
THEOREM TypeCorrect == Spec => []TypeOK
  BY Inductive, PTL DEF IInv

\* What a reader accepts is a shard and a database that one run of the tools has made from
\* each other, for any number of editors, files' contents, failures and deaths.
THEOREM PairsRead == Spec => []ReaderPairs
<1>1. IInv => ReaderPairs
  BY DEF IInv, ReaderVerified, ReaderPairs, Paired
<1> QED  BY <1>1, Inductive, PTL

-----------------------------------------------------------------------------
(* What a commit leaves live, as long as no helper outlives its editor: a    *)
(* success is complete and current, a reported failure undone, old bytes are *)
(* kept while they are needed, and the database changes last.  Holders       *)
(* exclude each other (Holder), so that the live files can be told from one  *)
(* transaction (Transacted).                                                 *)

\* What a commit would leave live, had it replaced every planned file.
Final(t, f) == IF t.plan[f] # None THEN t.plan[f] ELSE t.before[f]
Good(t) ==
  /\ Final(t, "result") = [shard |-> Final(t, "shard"), active |-> Final(t, "active")]
  /\ Equivalent(Final(t, "shard"), t.stage.shard) /\ Equivalent(Final(t, "active"), t.stage.active)

\* A helper at work knows the live files: those it has published are the plan's, the others
\* as it found them, and the backups are what it found; the database is published last.
Working(t, files) ==
  /\ Good(t)
  /\ \A f \in File : /\ files[f] = IF f \in t.published THEN t.plan[f] ELSE t.before[f]
                     /\ t.backup[f] # None => t.backup[f] = t.before[f]
  /\ "active" \in t.published => t.helper = "publish" /\ \A f \in File : t.plan[f] # None => f \in t.published
  /\ t.helper # "rollback" => t.failed = {}

OldBytes(t, files) == \A f \in File : t.before[f] \in {files[f], t.backup[f]}

\* A transaction and the live files, when only holders of the lease write.
Transacted(t, files, unlinks) ==
  /\ t.helper # "answered" => t.answer = "none"
  /\ t.helper \in {"none", "plan"} => t.plan = Nothing /\ t.backup = Nothing /\ t.failed = {}
  /\ t.helper \in {"backup", "publish", "rollback"} => Working(t, files)
  /\ t.answer = "ok" => /\ Fresh(files) /\ Equivalent(files.active, t.stage.active)
                        /\ Equivalent(files.shard, t.stage.shard)
  /\ t.answer = "failed" /\ unlinks = 0 => files = t.before
  /\ t.answer = "recovery" \/ (t.answer = "killed" /\ t.plan # Nothing) => OldBytes(t, files)

\* Who commits holds the lease.
Holder(p) ==
  /\ tx[p].editor \in {"staging", "committing"} => lease = p
  /\ ~orphaned /\ tx[p].helper # "none" => tx[p].editor = "committing"

CommitInv == \A p \in Proc : Holder(p) /\ (~orphaned => Transacted(tx[p], live, used["unlink"]))
--------------------------------------------------------------------------------
LEMMA SameBytes ==
  ASSUME NEW b \in Some, NEW c \in Some, \A f \in File : b[f] = c[f]
  PROVE  b = c
<1>1. b.shard = c.shard /\ b.result = c.result /\ b.active = c.active
  BY DEF File
<1>. QED BY <1>1 DEF Some

\* Failing removals are counted and not forgotten.
LEMMA Unlinks ==
  ASSUME TypeOK, UNCHANGED used \/ \E b \in DOMAIN Limit : Spend(b)
  PROVE  used'["unlink"] = 0 => used["unlink"] = 0
BY Bounds DEF TypeOK, Spend

\* Other editors have no helper, while one is at work on the live files.
LEMMA Others ==
  ASSUME CommitInv, ~orphaned, NEW p \in Proc, NEW q \in Proc, p # q, tx[p].helper # "none"
  PROVE  tx[q].helper = "none" /\ tx[q].editor \notin {"staging", "committing"}
BY DEF CommitInv, Holder

LEMMA FewerUnlinks ==
  ASSUME NEW t, NEW files, NEW m, NEW n, n = 0 => m = 0, Transacted(t, files, m)
  PROVE  Transacted(t, files, n)
BY DEF Transacted

\* An editor without a helper does not look at the live files.
LEMMA NoHelper ==
  ASSUME NEW t, NEW files, NEW others, NEW n, t.helper = "none", Transacted(t, files, n)
  PROVE  Transacted(t, others, n)
BY DEF Transacted

\* A step that changes one transaction, and the live files only if that has a helper.
LEMMA OneTransaction ==
  ASSUME IInv, CommitInv, NEW p \in Proc, NEW t, tx' = [tx EXCEPT ![p] = t],
         live' = live \/ tx[p].helper # "none",
         orphaned => orphaned',
         lease' = lease \/ (lease \in {None, p} /\ lease' \in {None, p}),
         t.editor \in {"staging", "committing"} => lease' = p,
         ~orphaned' /\ t.helper # "none" => t.editor = "committing",
         UNCHANGED used \/ \E b \in DOMAIN Limit : Spend(b),
         ~orphaned' => Transacted(t, live', used'["unlink"])
  PROVE  CommitInv'
<1>1. TypeOK
  BY DEF IInv
<1>2. tx'[p] = t /\ \A q \in Proc : q # p => tx'[q] = tx[q]
  BY <1>1 DEF TypeOK
<1>3. Holder(p)' /\ (~orphaned' => Transacted(tx'[p], live', used'["unlink"]))
  BY <1>2 DEF Holder
<1>4. ASSUME NEW q \in Proc, q # p
      PROVE  Holder(q)' /\ (~orphaned' => Transacted(tx'[q], live', used'["unlink"]))
  <2>1. Holder(q) /\ tx'[q] = tx[q]
    BY <1>2, <1>4 DEF CommitInv
  <2>2. Holder(q)'
    BY <2>1, <1>4, NoneIsNoContent DEF Holder
  <2>3. ASSUME ~orphaned' PROVE Transacted(tx[q], live', used'["unlink"])
    <3>1. Transacted(tx[q], live, used["unlink"])
      BY <2>3 DEF CommitInv
    <3>2. Transacted(tx[q], live, used'["unlink"])
      BY <1>1, <3>1, Unlinks, FewerUnlinks
    <3>3. live' = live \/ tx[q].helper = "none"
      BY <1>4, <2>3, Others
    <3>. QED BY <3>2, <3>3, NoHelper
  <2>. QED BY <2>1, <2>2, <2>3
<1>. QED BY <1>3, <1>4 DEF CommitInv

LEMMA CommitInit == Init => CommitInv
<1>1. Init => used["unlink"] = 0 /\ \A p \in Proc : tx[p] = Idle
  BY Bounds DEF Init
<1>2. Idle.editor = "idle" /\ Idle.helper = "none"
  BY DEF Idle
<1>3. \A files : Transacted(Idle, files, 0)
  BY DEF Transacted, Idle
<1>. QED BY <1>1, <1>2, <1>3 DEF CommitInv, Holder
--------------------------------------------------------------------------------
LEMMA EditorCommits ==
  ASSUME IInv, CommitInv, NEW p \in Proc,
         Begin(p) \/ Stage(p) \/ StageFails(p) \/ Complete(p) \/ Restart(p) \/ EditorDies(p)
  PROVE  CommitInv'
<1>1. TypeOK /\ tx[p] \in Tx /\ Holder(p) /\ (~orphaned => Transacted(tx[p], live, used["unlink"]))
  BY DEF IInv, TypeOK, CommitInv
<1>2. Transacted(Idle, live, used'["unlink"])
  BY DEF Transacted, Idle
<1>3. CASE Begin(p)
  <2> DEFINE t == [tx[p] EXCEPT !.editor = "staging"]
  <2>1. tx[p].helper = "none"
    BY <1>3 DEF IInv, BackedUp, Begin
  <2>2. ~orphaned => Transacted(t, live, used'["unlink"])
    BY <1>1, <2>1 DEF Transacted, Tx
  <2>3. t.editor = "staging" /\ t.helper = "none" /\ tx' = [tx EXCEPT ![p] = t]
    BY <1>1, <1>3, <2>1 DEF Tx, Begin
  <2> HIDE DEF t
  <2>. QED BY <1>3, <2>2, <2>3, OneTransaction, Bounds DEF Begin
<1>4. CASE Stage(p)
  <2>1. PICK b : tx' = [tx EXCEPT ![p].editor = "committing", ![p].helper = "plan", ![p].stage = b]
    BY <1>4 DEF Stage
  <2> DEFINE t == [tx[p] EXCEPT !.editor = "committing", !.helper = "plan", !.stage = b]
  <2>2. tx[p].helper = "none"
    BY <1>4 DEF IInv, BackedUp, Stage
  <2>3. /\ t.editor = "committing" /\ t.helper = "plan" /\ t.answer = tx[p].answer
        /\ t.plan = tx[p].plan /\ t.backup = tx[p].backup /\ t.failed = tx[p].failed
    BY <1>1 DEF Tx
  <2>4. tx' = [tx EXCEPT ![p] = t]
    BY <2>1
  <2> HIDE DEF t
  <2>5. ~orphaned => Transacted(t, live, used'["unlink"])
    BY <1>1, <2>2, <2>3 DEF Transacted
  <2>. QED BY <1>1, <1>4, <2>3, <2>4, <2>5, OneTransaction DEF Stage, Holder
<1>5. CASE StageFails(p) \/ Complete(p) \/ Restart(p)
  <2>1. tx' = [tx EXCEPT ![p] = Idle] /\ UNCHANGED <<live, orphaned, used>>
    BY <1>5 DEF StageFails, Complete, Restart
  <2>2. lease' = lease \/ (lease \in {None, p} /\ lease' \in {None, p})
    BY <1>1, <1>5 DEF StageFails, Complete, Restart, Holder
  <2>3. Idle.editor = "idle" /\ Idle.helper = "none"
    BY DEF Idle
  <2>. QED BY <1>2, <2>1, <2>2, <2>3, OneTransaction
<1>6. CASE EditorDies(p)
  <2>1. lease = p /\ lease' = None /\ live' = live
    BY <1>1, <1>6 DEF EditorDies, Holder
  <2>2. \E b \in DOMAIN Limit : Spend(b)
    BY <1>6, Bounds DEF EditorDies
  <2>3. CASE tx' = [tx EXCEPT ![p] = [Idle EXCEPT !.editor = "dead"]] /\ UNCHANGED orphaned
    <3> DEFINE t == [Idle EXCEPT !.editor = "dead"]
    <3>1. t.editor = "dead" /\ t.helper = "none" /\ Transacted(t, live, used'["unlink"])
      BY DEF Transacted, Idle
    <3> HIDE DEF t
    <3>. QED BY <2>1, <2>2, <2>3, <3>1, OneTransaction DEF t
  <2>4. CASE tx' = [tx EXCEPT ![p].editor = "dead"] /\ orphaned' = TRUE
    <3> DEFINE t == [tx[p] EXCEPT !.editor = "dead"]
    <3>1. t.editor = "dead" /\ tx' = [tx EXCEPT ![p] = t]
      BY <1>1, <2>4 DEF Tx
    <3> HIDE DEF t
    <3>. QED BY <2>1, <2>2, <2>4, <3>1, OneTransaction
  <2>. QED BY <1>6, <2>3, <2>4 DEF EditorDies
<1>. QED BY <1>3, <1>4, <1>5, <1>6

\* A step of a helper leaves editor and lease alone.
LEMMA HelperStep ==
  ASSUME IInv, CommitInv, NEW p \in Proc, NEW t, tx' = [tx EXCEPT ![p] = t],
         tx[p].helper # "none", t.editor = tx[p].editor, UNCHANGED <<lease, orphaned>>,
         UNCHANGED used \/ \E b \in DOMAIN Limit : Spend(b),
         ~orphaned => Transacted(t, live', used'["unlink"])
  PROVE  CommitInv'
<1>1. Holder(p)
  BY DEF CommitInv
<1>. QED BY <1>1, OneTransaction DEF Holder

\* The plan completes the working copy: what it would leave live is fresh.
LEMMA PlanIsGood ==
  ASSUME NEW s \in Binding, live \in Bytes, NEW t, t.stage = s, t.before = live, t.plan = Replacements(s)
  PROVE  Good(t)
<1>1. /\ Final(t, "shard") = Kept(s, "shard") /\ Final(t, "active") = Kept(s, "active")
      /\ Final(t, "result") = Provenance(s)
  BY NoneIsNoContent DEF Final, Replacements, Kept, Provenance, Binding, Bytes
<1>2. \A name \in {"shard", "active"} : Equivalent(Kept(s, name), s[name])
  BY DEF Kept, Equivalent
<1>. QED BY <1>1, <1>2 DEF Good, Provenance

LEMMA PlanCommits == ASSUME IInv, CommitInv, NEW p \in Proc, Plan(p) PROVE CommitInv'
<1>1. /\ TypeOK /\ tx[p] \in Tx /\ live \in Bytes /\ tx[p].helper = "plan" /\ tx[p].stage \in Binding
      /\ tx[p].published = {}
  BY DEF IInv, TypeOK, Plan, BackedUp, Tx
<1>2. ~orphaned => /\ tx[p].plan = Nothing /\ tx[p].backup = Nothing /\ tx[p].failed = {}
                   /\ tx[p].answer = "none"
  BY <1>1 DEF CommitInv, Transacted
<1>3. UNCHANGED <<live, lease, orphaned, used>>
  BY DEF Plan
<1> DEFINE a == [tx[p] EXCEPT !.before = live]
<1>4. CASE tx' = [tx EXCEPT ![p] = [a EXCEPT !.helper = "answered", !.answer = "failed"]]
  <2> DEFINE t == [a EXCEPT !.helper = "answered", !.answer = "failed"]
  <2>1. t.editor = tx[p].editor /\ t.helper = "answered" /\ t.answer = "failed" /\ t.before = live
    BY <1>1 DEF Tx
  <2>2. tx' = [tx EXCEPT ![p] = t]
    BY <1>4
  <2> HIDE DEF t
  <2>3. Transacted(t, live, used["unlink"])
    BY <2>1 DEF Transacted
  <2>. QED BY <1>1, <1>3, <2>1, <2>2, <2>3, HelperStep
<1>5. CASE tx' = [tx EXCEPT ![p] = [a EXCEPT !.helper = "backup", !.plan = Replacements(a.stage)]]
  <2> DEFINE r == Replacements(tx[p].stage)
             t == [a EXCEPT !.helper = "backup", !.plan = Replacements(a.stage)]
  <2>1. /\ t.editor = tx[p].editor /\ t.helper = "backup" /\ t.answer = tx[p].answer
        /\ t.before = live /\ t.plan = r /\ t.stage = tx[p].stage /\ t.backup = tx[p].backup
        /\ t.published = {} /\ t.failed = tx[p].failed
    BY <1>1 DEF Tx
  <2>2. tx' = [tx EXCEPT ![p] = t]
    BY <1>5
  <2> HIDE DEF t
  <2>3. Good(t)
    BY <1>1, <2>1, PlanIsGood
  <2>4. ~orphaned => Working(t, live)
    BY <1>2, <2>1, <2>3 DEF Working, Nothing
  <2>5. ~orphaned => Transacted(t, live, used["unlink"])
    BY <1>2, <2>1, <2>4 DEF Transacted
  <2>. QED BY <1>1, <1>3, <2>1, <2>2, <2>5, HelperStep
<1>. QED BY <1>4, <1>5 DEF Plan, Answer

\* What holds of a helper at work.
LEMMA AtWork ==
  ASSUME IInv, CommitInv, NEW p \in Proc, tx[p].helper \in {"backup", "publish", "rollback"}
  PROVE  /\ TypeOK /\ live \in Bytes /\ tx[p] \in Tx /\ tx[p].helper # "none"
         /\ ~orphaned => Working(tx[p], live) /\ tx[p].answer = "none"
         /\ tx[p].helper = "backup" => tx[p].published = {}
         /\ tx[p].helper = "publish" => /\ tx[p].published \subseteq Planned(p)
                                        /\ \A f \in Planned(p) : tx[p].backup[f] # None
         /\ tx[p].helper = "rollback" => \A f \in tx[p].published : tx[p].backup[f] # None
         /\ tx[p].failed \subseteq tx[p].published
BY DEF IInv, TypeOK, BackedUp, CommitInv, Transacted

\* A helper that stays at work has only its work to answer for.
LEMMA WorkGoesOn ==
  ASSUME NEW t, NEW files, NEW n, t.helper \in {"backup", "publish", "rollback"},
         t.answer = "none", Working(t, files)
  PROVE  Transacted(t, files, n)
BY DEF Transacted

LEMMA BackUpCommits == ASSUME IInv, CommitInv, NEW p \in Proc, BackUp(p) PROVE CommitInv'
<1> DEFINE todo == {f \in Planned(p) : tx[p].backup[f] = None}
           f == First(todo)
<1>1. /\ tx[p] \in Tx /\ live \in Bytes /\ tx[p].helper = "backup" /\ tx[p].published = {}
      /\ ~orphaned => Working(tx[p], live) /\ tx[p].answer = "none"
      /\ tx[p].failed \subseteq {}
  BY AtWork DEF BackUp
<1>2. /\ UNCHANGED <<live, lease, orphaned>>
      /\ UNCHANGED used \/ \E b \in DOMAIN Limit : Spend(b)
  BY Bounds DEF BackUp
<1>3. ASSUME NEW h \in {"publish", "rollback"}, tx' = [tx EXCEPT ![p].helper = h]
      PROVE  CommitInv'
  <2> DEFINE t == [tx[p] EXCEPT !.helper = h]
  <2>1. /\ t.editor = tx[p].editor /\ t.helper = h /\ t.answer = tx[p].answer /\ t.before = tx[p].before
        /\ t.plan = tx[p].plan /\ t.stage = tx[p].stage /\ t.backup = tx[p].backup
        /\ t.published = tx[p].published /\ t.failed = {}
    BY <1>1 DEF Tx
  <2>2. tx' = [tx EXCEPT ![p] = t]
    BY <1>3
  <2> HIDE DEF t
  <2>3. ~orphaned => Working(t, live)
    BY <1>1, <2>1 DEF Working, Good, Final
  <2>4. ~orphaned => Transacted(t, live', used'["unlink"])
    BY <1>1, <1>2, <2>1, <2>3, WorkGoesOn
  <2>. QED BY <1>1, <1>2, <2>1, <2>2, <2>4, HelperStep
<1>4. CASE todo # {} /\ tx' = [tx EXCEPT ![p].backup[f] = live[f]]
  <2> DEFINE b == [tx[p].backup EXCEPT ![f] = live[f]]
             t == [tx[p] EXCEPT !.backup = b]
  <2>1. f \in File /\ tx[p].backup \in Some
    BY <1>1, <1>4, FirstAndLast DEF Planned, Tx
  <2>2. \A g \in File : b[g] = IF g = f THEN live[f] ELSE tx[p].backup[g]
    BY <2>1 DEF Some, File
  <2> HIDE DEF b
  <2>3. /\ t.editor = tx[p].editor /\ t.helper = "backup" /\ t.answer = tx[p].answer /\ t.before = tx[p].before
        /\ t.plan = tx[p].plan /\ t.stage = tx[p].stage /\ t.backup = b
        /\ t.published = {} /\ t.failed = {}
    BY <1>1 DEF Tx
  <2>4. tx' = [tx EXCEPT ![p] = t]
    BY <1>4 DEF b
  <2> HIDE DEF t, f
  <2>5. ~orphaned => Working(t, live)
    BY <1>1, <2>1, <2>2, <2>3 DEF Working, Good, Final
  <2>6. ~orphaned => Transacted(t, live', used'["unlink"])
    BY <1>1, <1>2, <2>3, <2>5, WorkGoesOn
  <2>. QED BY <1>1, <1>2, <2>3, <2>4, <2>6, HelperStep
<1>. QED BY <1>3, <1>4 DEF BackUp

\* Only when nothing else is left to be replaced is the database.
LEMMA DatabaseLast ==
  ASSUME NEW S \in SUBSET File, S # {}, First(S) = "active"
  PROVE  S = {"active"}
<1>1. Rank("shard") = 1 /\ Rank("result") = 2 /\ Rank("active") = 3
  BY DEF Rank, File
<1>2. \E f \in S : \A g \in S : Rank(f) <= Rank(g)
  <2>1. CASE "shard" \in S
    BY <1>1, <2>1 DEF File
  <2>2. CASE "shard" \notin S /\ "result" \in S
    BY <1>1, <2>2 DEF File
  <2>3. CASE "shard" \notin S /\ "result" \notin S
    <3>1. S = {"active"}
      BY <2>3 DEF File
    <3>. QED BY <1>1, <3>1
  <2>. QED BY <2>1, <2>2, <2>3
<1>3. \A g \in S : Rank("active") <= Rank(g)
  BY <1>2 DEF First
<1>4. "shard" \notin S /\ "result" \notin S
  BY <1>1, <1>3
<1>. QED BY <1>4 DEF File

\* Once every planned file is replaced, the live files are the good ones.
LEMMA AllReplaced ==
  ASSUME NEW t, NEW files, Working(t, files), \A f \in File : t.plan[f] # None <=> f \in t.published
  PROVE  /\ Fresh(files) /\ Equivalent(files.active, t.stage.active)
         /\ Equivalent(files.shard, t.stage.shard)
<1>1. \A f \in File : files[f] = Final(t, f)
  BY DEF Working, Final
<1>2. files["shard"] = Final(t, "shard") /\ files["result"] = Final(t, "result")
      /\ files["active"] = Final(t, "active")
  BY <1>1 DEF File
<1>. QED BY <1>2 DEF Working, Good, Fresh

LEMMA PublishCommits ==
  ASSUME IInv, CommitInv, NEW p \in Proc, Publish(p)
  PROVE  CommitInv' /\ (~orphaned /\ live'.active # live.active => Fresh(live'))
<1> DEFINE f == First(Planned(p) \ tx[p].published)
<1>1. /\ tx[p] \in Tx /\ live \in Bytes /\ tx[p].helper = "publish" /\ tx[p].published \subseteq Planned(p)
      /\ ~orphaned => Working(tx[p], live) /\ tx[p].answer = "none"
  BY AtWork DEF Publish
<1>2. /\ UNCHANGED <<lease, orphaned>>
      /\ UNCHANGED used \/ \E b \in DOMAIN Limit : Spend(b)
  BY Bounds DEF Publish
<1>3. f \in Planned(p) \ tx[p].published /\ f \in File
  <2>1. Planned(p) \ tx[p].published # {} /\ Planned(p) \subseteq File
    BY <1>1 DEF Publish, Planned
  <2>. QED BY <2>1, FirstAndLast
<1>4. f = "active" => Planned(p) \ tx[p].published = {"active"}
  <2>1. Planned(p) \ tx[p].published \in SUBSET File /\ Planned(p) \ tx[p].published # {}
    BY <1>3 DEF Planned
  <2>. QED BY <2>1, DatabaseLast
<1>5. CASE /\ live' = [live EXCEPT ![f] = tx[p].plan[f]]
           /\ tx' = [tx EXCEPT ![p].published = @ \cup {f}] /\ UNCHANGED used
  <2> DEFINE t == [tx[p] EXCEPT !.published = @ \cup {f}]
  <2>1. /\ t.editor = tx[p].editor /\ t.helper = "publish" /\ t.answer = tx[p].answer /\ t.before = tx[p].before
        /\ t.plan = tx[p].plan /\ t.stage = tx[p].stage /\ t.backup = tx[p].backup
        /\ t.published = tx[p].published \cup {f} /\ t.failed = tx[p].failed
    BY <1>1 DEF Tx
  <2>2. tx' = [tx EXCEPT ![p] = t]
    BY <1>5
  <2>3. \A g \in File : live'[g] = IF g = f THEN tx[p].plan[f] ELSE live[g]
    BY <1>1, <1>3, <1>5 DEF Bytes, File
  <2> HIDE DEF t, f
  <2>4. \A g \in File : g \in Planned(p) <=> t.plan[g] # None
    BY <2>1 DEF Planned
  <2>5. f = "active" => \A g \in File : t.plan[g] # None <=> g \in t.published
    BY <1>1, <1>3, <1>4, <2>1, <2>4
  <2>6. ASSUME ~orphaned PROVE Working(t, live')
    <3>1. Working(tx[p], live)
      BY <1>1, <2>6
    <3>2. Good(t)
      BY <2>1, <3>1 DEF Working, Good, Final
    <3>3. \A g \in File : /\ live'[g] = IF g \in t.published THEN t.plan[g] ELSE t.before[g]
                          /\ t.backup[g] # None => t.backup[g] = t.before[g]
      BY <1>3, <2>1, <2>3, <3>1 DEF Working
    <3>4. "active" \in t.published => \A g \in File : t.plan[g] # None => g \in t.published
      BY <2>1, <2>5, <3>1 DEF Working
    <3>5. t.failed = {}
      BY <1>1, <2>1, <3>1 DEF Working
    <3>. QED BY <2>1, <3>2, <3>3, <3>4, <3>5 DEF Working
  <2>7. CommitInv'
    <3>1. ~orphaned => Transacted(t, live', used'["unlink"])
      BY <1>1, <2>1, <2>6, WorkGoesOn
    <3>. QED BY <1>1, <1>2, <2>1, <2>2, <3>1, HelperStep
  <2>8. f # "active" => live'.active = live.active
    BY <2>3 DEF File
  <2>9. ~orphaned /\ f = "active" => Fresh(live')
    BY <2>5, <2>6, AllReplaced
  <2>. QED BY <2>7, <2>8, <2>9
<1>6. CASE tx' = [tx EXCEPT ![p].helper = "rollback"] /\ UNCHANGED live
  <2> DEFINE t == [tx[p] EXCEPT !.helper = "rollback"]
  <2>1. /\ t.editor = tx[p].editor /\ t.helper = "rollback" /\ t.answer = tx[p].answer /\ t.before = tx[p].before
        /\ t.plan = tx[p].plan /\ t.stage = tx[p].stage /\ t.backup = tx[p].backup
        /\ t.published = tx[p].published /\ t.failed = tx[p].failed
    BY <1>1 DEF Tx
  <2>2. tx' = [tx EXCEPT ![p] = t]
    BY <1>6
  <2> HIDE DEF t, f
  <2>3. ASSUME ~orphaned PROVE Working(t, live)
    <3>1. Working(tx[p], live)
      BY <1>1, <2>3
    <3>2. Good(t)
      BY <2>1, <3>1 DEF Working, Good, Final
    <3>3. "active" \notin t.published
      BY <1>1, <1>3, <2>1, <3>1 DEF Working, Planned
    <3>. QED BY <1>1, <2>1, <3>1, <3>2, <3>3 DEF Working
  <2>4. ~orphaned => Transacted(t, live', used'["unlink"])
    BY <1>1, <1>6, <2>1, <2>3, WorkGoesOn
  <2>5. CommitInv'
    BY <1>1, <1>2, <2>1, <2>2, <2>4, HelperStep
  <2>. QED BY <1>6, <2>5
<1>. QED BY <1>5, <1>6 DEF Publish

LEMMA RollBackCommits ==
  ASSUME IInv, CommitInv, NEW p \in Proc, RollBack(p)
  PROVE  CommitInv' /\ (~orphaned => live'.active = live.active)
<1> DEFINE f == Last(tx[p].published \ tx[p].failed)
<1>1. /\ tx[p] \in Tx /\ live \in Bytes /\ tx[p].helper = "rollback" /\ tx[p].failed \subseteq tx[p].published
      /\ \A g \in tx[p].published : tx[p].backup[g] # None
      /\ ~orphaned => Working(tx[p], live) /\ tx[p].answer = "none"
  BY AtWork DEF RollBack
<1>2. /\ UNCHANGED <<lease, orphaned>>
      /\ UNCHANGED used \/ \E b \in DOMAIN Limit : Spend(b)
  BY Bounds DEF RollBack
<1>3. f \in tx[p].published /\ f \in File
  <2>1. tx[p].published \ tx[p].failed \in SUBSET File /\ tx[p].published \ tx[p].failed # {}
    BY <1>1 DEF RollBack, Tx
  <2>. QED BY <2>1, FirstAndLast
<1>4. ~orphaned => f # "active"
  BY <1>1, <1>3 DEF Working
<1>5. CASE /\ live' = [live EXCEPT ![f] = tx[p].backup[f]]
           /\ tx' = [tx EXCEPT ![p].published = @ \ {f}, ![p].backup[f] = None] /\ UNCHANGED used
  <2> DEFINE b == [tx[p].backup EXCEPT ![f] = None]
             t == [tx[p] EXCEPT !.published = @ \ {f}, !.backup = b]
  <2>1. \A g \in File : b[g] = IF g = f THEN None ELSE tx[p].backup[g]
    BY <1>1, <1>3 DEF Tx, Some, File
  <2>2. tx' = [tx EXCEPT ![p] = t]
    BY <1>5
  <2> HIDE DEF b
  <2>3. /\ t.editor = tx[p].editor /\ t.helper = "rollback" /\ t.answer = tx[p].answer /\ t.before = tx[p].before
        /\ t.plan = tx[p].plan /\ t.stage = tx[p].stage /\ t.backup = b
        /\ t.published = tx[p].published \ {f} /\ t.failed = tx[p].failed
    BY <1>1 DEF Tx
  <2>4. \A g \in File : live'[g] = IF g = f THEN tx[p].backup[f] ELSE live[g]
    BY <1>1, <1>3, <1>5 DEF Bytes, File
  <2> HIDE DEF t, f
  <2>5. ASSUME ~orphaned PROVE Working(t, live')
    <3>1. Working(tx[p], live) /\ tx[p].backup[f] = tx[p].before[f]
      BY <1>1, <1>3, <2>5 DEF Working
    <3>2. Good(t)
      BY <2>3, <3>1 DEF Working, Good, Final
    <3>3. \A g \in File : /\ live'[g] = IF g \in t.published THEN t.plan[g] ELSE t.before[g]
                          /\ t.backup[g] # None => t.backup[g] = t.before[g]
      BY <1>3, <2>1, <2>3, <2>4, <3>1 DEF Working
    <3>4. "active" \notin t.published
      BY <1>1, <2>3, <3>1 DEF Working
    <3>. QED BY <2>3, <3>2, <3>3, <3>4 DEF Working
  <2>6. ~orphaned => Transacted(t, live', used'["unlink"])
    BY <1>1, <2>3, <2>5, WorkGoesOn
  <2>7. CommitInv'
    BY <1>1, <1>2, <2>2, <2>3, <2>6, HelperStep
  <2>. QED BY <1>4, <2>4, <2>7 DEF File
<1>6. CASE tx' = [tx EXCEPT ![p].failed = @ \cup {f}] /\ UNCHANGED live
  <2> DEFINE t == [tx[p] EXCEPT !.failed = @ \cup {f}]
  <2>1. /\ t.editor = tx[p].editor /\ t.helper = "rollback" /\ t.answer = tx[p].answer /\ t.before = tx[p].before
        /\ t.plan = tx[p].plan /\ t.stage = tx[p].stage /\ t.backup = tx[p].backup
        /\ t.published = tx[p].published
    BY <1>1 DEF Tx
  <2>2. tx' = [tx EXCEPT ![p] = t]
    BY <1>6
  <2> HIDE DEF t, f
  <2>3. ~orphaned => Working(t, live)
    BY <1>1, <2>1 DEF Working, Good, Final
  <2>4. ~orphaned => Transacted(t, live', used'["unlink"])
    BY <1>1, <1>6, <2>1, <2>3, WorkGoesOn
  <2>5. CommitInv'
    BY <1>1, <1>2, <2>1, <2>2, <2>4, HelperStep
  <2>. QED BY <1>6, <2>5
<1>. QED BY <1>5, <1>6 DEF RollBack

\* A helper at work has the old bytes of each file, live or in a backup.
LEMMA NothingMissing ==
  ASSUME IInv, CommitInv, NEW p \in Proc, ~orphaned, tx[p].helper \in {"backup", "publish", "rollback"}
  PROVE  OldBytes(tx[p], live)
<1>1. Working(tx[p], live) /\ \A f \in File : f \in tx[p].published => tx[p].backup[f] # None
  BY AtWork
<1>. QED BY <1>1 DEF Working, OldBytes

LEMMA HelperDiesCommits == ASSUME IInv, CommitInv, NEW p \in Proc, HelperDies(p) PROVE CommitInv'
<1> DEFINE t == [tx[p] EXCEPT !.helper = "answered", !.answer = "killed"]
<1>1. tx[p] \in Tx /\ tx[p].helper \in {"plan", "backup", "publish", "rollback"}
  BY DEF IInv, TypeOK, HelperDies, Running
<1>2. /\ t.editor = tx[p].editor /\ t.helper = "answered" /\ t.answer = "killed" /\ t.before = tx[p].before
      /\ t.plan = tx[p].plan /\ t.backup = tx[p].backup
  BY <1>1 DEF Tx
<1>3. tx' = [tx EXCEPT ![p] = t] /\ UNCHANGED <<live, lease, orphaned>>
      /\ \E b \in DOMAIN Limit : Spend(b)
  BY Bounds DEF HelperDies, Answer
<1> HIDE DEF t
<1>4. ASSUME ~orphaned, t.plan # Nothing PROVE OldBytes(t, live)
  <2>1. tx[p].helper # "plan"
    BY <1>2, <1>4 DEF CommitInv, Transacted
  <2>. QED BY <1>1, <1>2, <1>4, <2>1, NothingMissing DEF OldBytes
<1>5. ~orphaned => Transacted(t, live', used'["unlink"])
  BY <1>2, <1>3, <1>4 DEF Transacted
<1>. QED BY <1>1, <1>2, <1>3, <1>5, HelperStep

LEMMA CleanCommits == ASSUME IInv, CommitInv, NEW p \in Proc, Clean(p) PROVE CommitInv'
<1> DEFINE Without(S) == [tx[p] EXCEPT !.backup = [f \in File |-> IF f \in S THEN None ELSE @[f]]]
           Ended(S, a) == [Without(S) EXCEPT !.helper = "answered", !.answer = a]
<1>1. /\ TypeOK /\ tx[p] \in Tx /\ live \in Bytes /\ tx[p].helper \in {"publish", "rollback"}
      /\ tx[p].failed \subseteq tx[p].published
      /\ tx[p].helper = "publish" => tx[p].published = Planned(p)
      /\ tx[p].helper = "rollback" => tx[p].published = tx[p].failed
      /\ \A f \in File : f \in tx[p].published => tx[p].backup[f] # None
      /\ ~orphaned => Working(tx[p], live)
  BY AtWork DEF Clean
<1>2. UNCHANGED <<live, lease, orphaned>>
  BY DEF Clean
<1>3. ASSUME NEW S, NEW a
      PROVE  LET t == Ended(S, a) IN
             /\ t.editor = tx[p].editor /\ t.helper = "answered" /\ t.answer = a /\ t.before = tx[p].before
             /\ t.plan = tx[p].plan /\ t.stage = tx[p].stage
             /\ t.published = tx[p].published /\ t.failed = tx[p].failed
             /\ \A f \in File : t.backup[f] = IF f \in S THEN None ELSE tx[p].backup[f]
  BY <1>1 DEF Tx
<1>4. CASE tx' = [tx EXCEPT ![p] = Ended(Removable(tx[p]), Outcome(tx[p]))] /\ UNCHANGED used
  <2> DEFINE t == Ended(Removable(tx[p]), Outcome(tx[p]))
  <2>1. /\ t.editor = tx[p].editor /\ t.helper = "answered" /\ t.answer = Outcome(tx[p])
        /\ t.before = tx[p].before /\ t.plan = tx[p].plan /\ t.stage = tx[p].stage
        /\ \A f \in File : f \in tx[p].failed => t.backup[f] = tx[p].backup[f]
    BY <1>3 DEF Removable
  <2> HIDE DEF Ended
  <2>2. tx' = [tx EXCEPT ![p] = t]
    BY <1>4
  <2> HIDE DEF t
  <2>3. ASSUME ~orphaned, tx[p].helper = "publish" PROVE Transacted(t, live, used["unlink"])
    <3>1. /\ Fresh(live) /\ Equivalent(live.active, tx[p].stage.active)
          /\ Equivalent(live.shard, tx[p].stage.shard)
      BY <1>1, <2>3, AllReplaced DEF Planned
    <3>. QED BY <2>1, <2>3, <3>1 DEF Transacted, Outcome
  <2>4. ASSUME ~orphaned, tx[p].helper = "rollback", tx[p].failed = {}
        PROVE  Transacted(t, live, used["unlink"])
    <3>1. \A f \in File : live[f] = tx[p].before[f]
      BY <1>1, <2>4 DEF Working
    <3>2. live = tx[p].before
      BY <1>1, <3>1, BytesAreSome, SameBytes DEF Tx
    <3>. QED BY <2>1, <2>4, <3>2 DEF Transacted, Outcome
  <2>5. ASSUME ~orphaned, tx[p].helper = "rollback", tx[p].failed # {}
        PROVE  Transacted(t, live, used["unlink"])
    <3>1. OldBytes(t, live)
      BY <1>1, <2>1, <2>5 DEF Working, OldBytes
    <3>. QED BY <2>1, <2>5, <3>1 DEF Transacted, Outcome
  <2>6. ~orphaned => Transacted(t, live', used'["unlink"])
    BY <1>1, <1>2, <1>4, <2>3, <2>4, <2>5
  <2>. QED BY <1>1, <1>2, <1>4, <2>1, <2>2, <2>6, HelperStep
<1>5. ASSUME NEW S, tx' = [tx EXCEPT ![p] = Ended(S, "failed")], Spend("unlink")
      PROVE  CommitInv'
  <2> DEFINE t == Ended(S, "failed")
  <2>1. t.editor = tx[p].editor /\ t.helper = "answered" /\ t.answer = "failed"
    BY <1>3
  <2>2. tx' = [tx EXCEPT ![p] = t]
    BY <1>5
  <2> HIDE DEF t, Ended
  <2>3. used'["unlink"] # 0
    BY <1>1, <1>5, Bounds DEF TypeOK, Spend
  <2>4. Transacted(t, live', used'["unlink"])
    BY <2>1, <2>3 DEF Transacted
  <2>. QED BY <1>1, <1>2, <1>5, <2>1, <2>2, <2>4, Bounds, HelperStep
<1>6. \/ /\ tx' = [tx EXCEPT ![p] = Ended(Removable(tx[p]), Outcome(tx[p]))]
         /\ UNCHANGED used
      \/ Spend("unlink") /\ \E S : tx' = [tx EXCEPT ![p] = Ended(S, "failed")]
  BY DEF Clean, Answer
<1>. QED BY <1>4, <1>5, <1>6
--------------------------------------------------------------------------------
LEMMA StepCommits ==
  ASSUME IInv, CommitInv, [Next]_vars
  PROVE  CommitInv' /\ (live'.active # live.active /\ ~orphaned => Fresh(live'))
<1>1. TypeOK
  BY DEF IInv
<1>2. CASE UNCHANGED <<live, tx, lease, orphaned>> /\ (UNCHANGED used \/ \E b \in DOMAIN Limit : Spend(b))
  <2>1. used'["unlink"] = 0 => used["unlink"] = 0
    BY <1>1, <1>2, Unlinks
  <2>2. \A p \in Proc : ~orphaned => Transacted(tx[p], live, used'["unlink"])
    BY <2>1, FewerUnlinks DEF CommitInv
  <2>. QED BY <1>2, <2>2 DEF CommitInv, Holder
<1>3. CASE ReadProof \/ ReadActive \/ ReadShard \/ ReaderDone \/ UNCHANGED vars
  BY <1>2, <1>3, Bounds DEF ReadProof, ReadActive, ReadShard, ReaderDone, vars
<1>4. ASSUME NEW p \in Proc, Begin(p) \/ Stage(p) \/ StageFails(p) \/ Complete(p) \/ Restart(p) \/ EditorDies(p)
      PROVE  CommitInv' /\ live' = live
  BY <1>4, EditorCommits DEF Begin, Stage, StageFails, Complete, Restart, EditorDies
<1>5. ASSUME NEW p \in Proc, Plan(p) \/ BackUp(p) \/ Clean(p) \/ HelperDies(p)
      PROVE  CommitInv' /\ live' = live
  BY <1>5, PlanCommits, BackUpCommits, CleanCommits, HelperDiesCommits DEF Plan, BackUp, Clean, HelperDies
<1>6. ASSUME NEW p \in Proc, Publish(p) \/ RollBack(p)
      PROVE  CommitInv' /\ (live'.active # live.active /\ ~orphaned => Fresh(live'))
  BY <1>6, PublishCommits, RollBackCommits
<1>. QED BY <1>3, <1>4, <1>5, <1>6 DEF Next

\* The live files follow the transaction under way, in every reachable state.
LEMMA CommitInvariant == Spec => [](IInv /\ CommitInv)
<1>1. IInv /\ CommitInv /\ [Next]_vars => CommitInv'
  BY StepCommits
<1>. QED BY Inductive, CommitInit, <1>1, PTL DEF Spec

\* A commit that reports success leaves live what the tools have made, in a state that
\* readers accept (commit, prepare_hashes).
THEOREM SuccessIsFresh == Spec => []CommitIsFresh
<1>1. IInv /\ CommitInv => CommitIsFresh
  BY DEF CommitInv, Transacted, CommitIsFresh, Answered
<1>. QED BY <1>1, CommitInvariant, PTL

\* What is reported as failed is as it was, and the old bytes of whatever could not be
\* restored are still on disk (commit's rollback and its finally clause).
THEOREM LosesNothing == Spec => []NothingLost
<1>1. IInv /\ CommitInv => FailureRestores
  BY DEF CommitInv, Transacted, FailureRestores, Answered
<1>2. IInv /\ CommitInv => OldBytesKept
  <2> SUFFICES ASSUME IInv, CommitInv, NEW p \in Proc, ~orphaned,
                      \/ tx[p].helper \in {"publish", "rollback"}
                      \/ tx[p].answer = "recovery"
                      \/ tx[p].answer = "killed" /\ tx[p].plan # Nothing
               PROVE  OldBytes(tx[p], live)
    BY DEF OldBytesKept, OldBytes
  <2>. QED BY NothingMissing DEF CommitInv, Transacted
<1>. QED BY <1>1, <1>2, CommitInvariant, PTL DEF NothingLost

\* The active database changes last, to a state that readers accept (the order of the
\* replacements in commit).
THEOREM ChangesLast == Spec => CommitPoint
<1>1. IInv /\ CommitInv /\ [Next]_vars => [live'.active # live.active /\ ~orphaned => Fresh(live')]_vars
  BY StepCommits
<1>. QED BY <1>1, CommitInvariant, PTL DEF Spec, CommitPoint
================================================================================
